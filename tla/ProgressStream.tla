--------------------------- MODULE ProgressStream ---------------------------
(***************************************************************************)
(* Partial results on their way to the user: progressTracker of            *)
(* internal/solver/progress.go, the calls runTask and solveLayoutStage     *)
(* make to it, and the consumer at the end, which keeps the last snapshot  *)
(* it was given (the reporter of cmd/solver-server/main.go, or the page).  *)
(*                                                                         *)
(* A snapshot is taken under the tracker's lock but handed to the reporter *)
(* after the lock is released, and an improvement that comes within a      *)
(* second of the previous one is recorded but not handed over.  Each stage *)
(* of SolveLayout has a tracker of its own.  A list of solutions is the    *)
(* rank of its first one, 1 being the best; None is no solution.           *)
(***************************************************************************)
EXTENDS Integers, FiniteSets

CONSTANTS
    Worker,     \* goroutines runTasks may start
    MaxRank,    \* number of ranks
    NStages,    \* number of search stages
    Throttles   \* whether improvements may come within a second

ASSUME ProgressAssumption ==
    /\ IsFiniteSet(Worker)
    /\ MaxRank \in Nat \ {0} /\ NStages \in Nat \ {0} /\ Throttles \in BOOLEAN

None == MaxRank + 1
Rank == 1..MaxRank
Better(a, b) == IF a < b THEN a ELSE b

VARIABLES
    team,           \* the goroutines it does start
    stage, phase,   \* where SolveLayout is
    carried,        \* carriedSolutions
    known,          \* the solutions of the stage before its parallel search
    pooled,         \* merged results of the roots walked so far
    best,           \* tracker.bestSolutions
    emitted,        \* tracker.lastIncumbentEmit has been set
    mainHeld,       \* snapshot the stage itself is about to report
    pc,             \* per worker: "idle", "search", "offer" or "report"
    local,          \* per worker: best of its root's own results
    held,           \* per worker: snapshot taken and not yet reported
    shown           \* what the consumer has

place == <<team, stage, phase, carried>>
tracker == <<best, emitted>>
pool == <<pc, local, held, pooled>>
vars == <<place, known, tracker, mainHeld, pool, shown>>

Init ==
    /\ team \in (SUBSET Worker) \ {{}}
    /\ stage = 1 /\ phase = "seed"
    /\ carried = None /\ known = None /\ pooled = None
    /\ best = None /\ emitted = FALSE /\ mainHeld = None
    /\ pc = [w \in Worker |-> "idle"]
    /\ local = [w \in Worker |-> None]
    /\ held = [w \in Worker |-> None]
    /\ shown = None
-----------------------------------------------------------------------------
\* Plausible slips, used to test the properties.
SeedForgetsCarried(found) == found
PoolKeepsLastRoot(w) == local[w]

\* shouldReplaceBestLocked.
ReplacesBest(r) == r < best

\* mergeSolutions(knownSolutions, seed.Solutions): the incumbents of the
\* previous stage enter the new one.
WithCarried(found) == Better(carried, found)

\* The seed phase of a stage, with a new tracker, and the forced report of its
\* incumbents.  A stage without any solution yet reports nothing.
Seed(found) ==
    /\ phase = "seed"
    /\ known' = WithCarried(found)
    /\ best' = known' /\ mainHeld' = known'
    /\ emitted' = (known' # None)
    /\ phase' = "repair"
    /\ UNCHANGED <<team, stage, carried, pool, shown>>

\* The repair before the search, which needs a solution to repair; its report
\* is forced too, but only an improvement is reported.
Repair(found) ==
    /\ phase = "repair" /\ mainHeld = None
    /\ found # None => known # None
    /\ known' = Better(known, found)
    /\ \/ ~ReplacesBest(known') /\ UNCHANGED <<tracker, mainHeld>>
       \/ /\ ReplacesBest(known')
          /\ best' = known' /\ mainHeld' = known' /\ emitted' = TRUE
    /\ phase' = "ready"
    /\ UNCHANGED <<team, stage, carried, pool, shown>>

\* The stage's own calls of the reporter are synchronous.
ReportMain ==
    /\ mainHeld # None
    /\ shown' = mainHeld
    /\ mainHeld' = None
    /\ UNCHANGED <<place, known, tracker, pool>>

\* runTasks starts its workers; a root's results start from the known ones.
StartSearch ==
    /\ phase = "ready" /\ mainHeld = None
    /\ phase' = "search"
    /\ pc' = [w \in Worker |-> IF w \in team THEN "search" ELSE "idle"]
    /\ local' = [w \in Worker |-> known]
    /\ pooled' = known
    /\ UNCHANGED <<team, stage, carried, known, tracker, mainHeld, held, shown>>

\* A leaf improves the root's own best: bestSolutionImproved.
Improve(w, r) ==
    /\ pc[w] = "search" /\ r < local[w]
    /\ local' = [local EXCEPT ![w] = r]
    /\ pc' = [pc EXCEPT ![w] = "offer"]
    /\ UNCHANGED <<place, known, tracker, mainHeld, held, pooled, shown>>

\* reportIncumbent, its critical section: not better than another worker's
\* best, or recorded and throttled, or recorded and a snapshot taken.
OfferLoses(w) ==
    /\ pc[w] = "offer" /\ ~ReplacesBest(local[w])
    /\ pc' = [pc EXCEPT ![w] = "search"]
    /\ UNCHANGED <<place, known, tracker, mainHeld, local, held, pooled, shown>>
OfferThrottled(w) ==
    /\ pc[w] = "offer" /\ ReplacesBest(local[w])
    /\ emitted /\ Throttles
    /\ best' = local[w]
    /\ pc' = [pc EXCEPT ![w] = "search"]
    /\ UNCHANGED <<place, known, emitted, mainHeld, local, held, pooled, shown>>
OfferTaken(w) ==
    /\ pc[w] = "offer" /\ ReplacesBest(local[w])
    /\ best' = local[w]
    /\ emitted' = TRUE
    /\ held' = [held EXCEPT ![w] = local[w]]
    /\ pc' = [pc EXCEPT ![w] = "report"]
    /\ UNCHANGED <<place, known, mainHeld, local, pooled, shown>>

\* tracker.reporter(snapshot), after the lock is released.
Report(w) ==
    /\ pc[w] = "report"
    /\ shown' = held[w]
    /\ held' = [held EXCEPT ![w] = None]
    /\ pc' = [pc EXCEPT ![w] = "search"]
    /\ UNCHANGED <<place, known, tracker, mainHeld, local, pooled>>

\* A root is finished: its results are merged, and the worker takes another
\* root or leaves.
MergeRoot(w) == Better(pooled, local[w])
FinishRoot(w) ==
    /\ pc[w] = "search"
    /\ pooled' = MergeRoot(w)
    /\ \/ local' = [local EXCEPT ![w] = known] /\ UNCHANGED pc
       \/ pc' = [pc EXCEPT ![w] = "idle"] /\ UNCHANGED local
    /\ UNCHANGED <<place, known, tracker, mainHeld, held, shown>>

StagesLeft == stage < NStages

\* The end of a stage: at a ceiling or without search budget before the
\* search, else once the pool is gone.  The phases after the search may find a
\* better solution, r, and report none; SolveLayout merges what it carried.
EndStage(r) ==
    /\ mainHeld = None
    /\ \/ phase \in {"repair", "ready"} /\ r <= known
       \/ phase = "search" /\ (\A w \in Worker : pc[w] = "idle") /\ r <= pooled
    /\ carried' = Better(carried, r)
    /\ IF StagesLeft
       THEN stage' = stage + 1 /\ phase' = "seed"
       ELSE phase' = "done" /\ UNCHANGED stage
    /\ UNCHANGED <<team, known, tracker, mainHeld, pool, shown>>

Next ==
    \/ \E found \in Rank \cup {None} : Seed(found) \/ Repair(found)
    \/ ReportMain \/ StartSearch
    \/ \E w \in Worker, r \in Rank : Improve(w, r)
    \/ \E w \in Worker : OfferLoses(w) \/ OfferThrottled(w) \/ OfferTaken(w)
                            \/ Report(w) \/ FinishRoot(w)
    \/ \E r \in Rank \cup {None} : EndStage(r)

Spec == Init /\ [][Next]_vars
-----------------------------------------------------------------------------
TypeOK ==
    /\ team \subseteq Worker
    /\ stage \in 1..NStages
    /\ phase \in {"seed", "repair", "ready", "search", "done"}
    /\ \A r \in {carried, known, pooled, best, mainHeld, shown} : r \in 1..None
    /\ emitted \in BOOLEAN
    /\ pc \in [Worker -> {"idle", "search", "offer", "report"}]
    /\ local \in [Worker -> 1..None] /\ held \in [Worker -> 1..None]

\* With one worker, as in the browser, what is shown never gets worse, not even
\* when a stage with a new tracker begins.  (The snapshots of two workers may
\* overtake each other between the lock and the reporter.)
ShownNeverWorsens == [][Cardinality(team) = 1 => shown' <= shown]_vars

\* What SolveLayout carries on, and returns in the end, is at least as good as
\* everything a tracker held and everything the user was shown meanwhile.
ReturnedBeatsShown ==
    phase \in {"seed", "done"} => carried <= shown /\ carried <= best

\* "Showing the best partial result found so far" (App.tsx:541): with no report
\* under way, a user who cancels the search sees the best the tracker holds.
ShownIsBestFound ==
    (phase = "search" /\ \A w \in team : pc[w] = "search") => shown = best
=============================================================================
