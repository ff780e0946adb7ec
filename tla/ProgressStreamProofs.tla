------------------------ MODULE ProgressStreamProofs ------------------------
(***************************************************************************)
(* Proofs about ProgressStream, for every pool, number of stages and       *)
(* ranking: what SolveLayout returns is at least as good as anything the   *)
(* user was shown, and with one worker what is shown never gets worse.     *)
(*                                                                         *)
(* A list on its way to the user has left the search's own variables, so   *)
(* the invariant says where the search still holds something at least as   *)
(* good (Backed): in the carried solutions between stages, in the known    *)
(* ones before the search, and during it in the merged results or in those *)
(* of a root that is still being walked.                                   *)
(***************************************************************************)
EXTENDS ProgressStream, FiniteSetTheorems, TLAPS

Ranks == 1..None

\* During the search: r is not better than what the pool will return.
Backed(r) ==
    \/ pooled <= r
    \/ \E w \in Worker : pc[w] # "idle" /\ local[w] <= r

\* Workers exist during the search only.
PoolOnlySearches ==
    /\ \A w \in Worker : pc[w] # "idle" => phase = "search" /\ w \in team
    /\ phase \in {"seed", "search", "done"} => mainHeld = None

BetweenStages ==
    phase \in {"seed", "done"} => carried <= shown /\ carried <= best
BeforeSearch ==
    phase \in {"repair", "ready"} =>
        known <= shown /\ known <= best /\ known <= mainHeld
InSearch ==
    /\ phase = "search" => Backed(shown) /\ Backed(best)
    /\ \A w \in Worker : pc[w] = "report" => local[w] <= held[w]

\* What is about to be reported is what the tracker holds: for the stage's own
\* reports always, for a worker's when there is no other worker.
Alone == Cardinality(team) = 1
InStep ==
    /\ mainHeld # None => mainHeld = best
    /\ Alone => /\ best <= shown
                /\ \A w \in Worker : pc[w] = "report" => held[w] = best

StreamInv ==
    /\ TypeOK /\ PoolOnlySearches
    /\ BetweenStages /\ BeforeSearch /\ InSearch /\ InStep
-----------------------------------------------------------------------------
LEMMA RanksAreNumbers ==
    /\ None \in Nat \ {0} /\ None \in Ranks
    /\ \A r \in Rank \cup {None} : r \in Ranks
BY ProgressAssumption DEF ProgressAssumption, None, Ranks, Rank

USE DEF Ranks

LEMMA BetterRank ==
    ASSUME NEW a \in Ranks, NEW b \in Ranks
    PROVE  Better(a, b) \in Ranks /\ Better(a, b) <= a /\ Better(a, b) <= b
BY RanksAreNumbers DEF Better

\* The rank variables hold ranks.
LEMMA RankVariables ==
    ASSUME TypeOK
    PROVE  /\ carried \in Ranks /\ known \in Ranks /\ pooled \in Ranks
           /\ best \in Ranks /\ mainHeld \in Ranks /\ shown \in Ranks
           /\ \A w \in Worker : local[w] \in Ranks /\ held[w] \in Ranks
BY DEF TypeOK

LEMMA OnlyOneInTeam ==
    ASSUME TypeOK, Alone
    PROVE  \A v, w \in team : v = w
<1>1. IsFiniteSet(team)
  BY ProgressAssumption, FS_Subset DEF ProgressAssumption, TypeOK
<1>2. PICK x : team = {x}
  BY <1>1, FS_Singleton DEF Alone
<1>. QED  BY <1>2

LEMMA InitStreamInv == Init => StreamInv
<1>. SUFFICES ASSUME Init PROVE StreamInv
  OBVIOUS
<1>1. TypeOK
  <2>1. /\ 1 \in 1..NStages /\ None \in Ranks
        /\ pc \in [Worker -> {"idle", "search", "offer", "report"}]
        /\ local \in [Worker -> Ranks] /\ held \in [Worker -> Ranks]
    BY ProgressAssumption, RanksAreNumbers DEF Init, ProgressAssumption
  <2>. QED  BY <2>1 DEF Init, TypeOK
<1>. QED
  BY <1>1, RanksAreNumbers
  DEF Init, StreamInv, PoolOnlySearches, BetweenStages, BeforeSearch, InSearch,
      InStep

\* A stage begins with the carried solutions, so its first report is no step
\* back.
LEMMA SeedKeepsStreamInv ==
    ASSUME StreamInv, NEW found \in Rank \cup {None}, Seed(found)
    PROVE  StreamInv'
<1>. USE DEF StreamInv, Seed, place, tracker, pool
<1>0. carried \in Ranks /\ found \in Ranks /\ shown \in Ranks /\ carried <= shown
  BY RanksAreNumbers, RankVariables DEF BetweenStages
<1>1. known' \in Ranks /\ known' <= carried /\ known' <= shown
  BY <1>0, BetterRank, RanksAreNumbers DEF WithCarried
<1>2. TypeOK'
  BY <1>1 DEF TypeOK
<1>3. PoolOnlySearches' /\ BetweenStages'
  BY DEF PoolOnlySearches, BetweenStages
<1>4. BeforeSearch'
  BY <1>1, RanksAreNumbers DEF BeforeSearch
<1>5. \A w \in Worker : pc[w] = "idle"
  BY DEF PoolOnlySearches
<1>. QED  BY <1>1, <1>2, <1>3, <1>4, <1>5 DEF InSearch, InStep, Alone

LEMMA RepairKeepsStreamInv ==
    ASSUME StreamInv, NEW found \in Rank \cup {None}, Repair(found)
    PROVE  StreamInv'
<1>. USE DEF StreamInv, Repair, place, tracker, pool
<1>1. known' \in Ranks /\ known' <= known
  <2>1. known \in Ranks /\ found \in Ranks
    BY RanksAreNumbers, RankVariables
  <2>. QED  BY <2>1, BetterRank
<1>2. /\ best' \in Ranks /\ mainHeld' \in Ranks /\ emitted' \in BOOLEAN
      /\ best' <= best /\ known' <= best' /\ known' <= mainHeld'
      /\ mainHeld' # None => mainHeld' = best'
  <2>0. /\ known \in Ranks /\ best \in Ranks /\ None \in Ranks
        /\ emitted \in BOOLEAN /\ known <= best
    BY RanksAreNumbers, RankVariables DEF BeforeSearch, TypeOK
  <2>1. CASE ReplacesBest(known')
    <3>1. best' = known' /\ mainHeld' = known' /\ emitted' = TRUE
      BY <2>1
    <3>. QED  BY <1>1, <2>0, <2>1, <3>1, RanksAreNumbers DEF ReplacesBest
  <2>2. CASE ~ReplacesBest(known')
    <3>1. best' = best /\ mainHeld' = None /\ emitted' = emitted
      BY <2>2
    <3>. QED  BY <1>1, <2>0, <2>2, <3>1, RanksAreNumbers DEF ReplacesBest
  <2>. QED  BY <2>1, <2>2
<1>3. TypeOK'
  BY <1>1, <1>2 DEF TypeOK
<1>4. PoolOnlySearches' /\ BetweenStages'
  BY DEF PoolOnlySearches, BetweenStages
<1>5. BeforeSearch'
  BY <1>1, <1>2, RanksAreNumbers, RankVariables DEF BeforeSearch
<1>6. \A w \in Worker : pc[w] = "idle"
  BY DEF PoolOnlySearches
<1>7. InSearch'
  BY <1>6 DEF InSearch
<1>8. InStep'
  BY <1>2, <1>6, RanksAreNumbers, RankVariables DEF InStep, Alone
<1>. QED  BY <1>3, <1>4, <1>5, <1>7, <1>8

LEMMA ReportMainKeepsStreamInv ==
    ASSUME StreamInv, ReportMain
    PROVE  StreamInv'
<1>. USE DEF StreamInv, ReportMain, place, tracker, pool
<1>1. phase \in {"repair", "ready"} /\ \A w \in Worker : pc[w] = "idle"
  BY DEF PoolOnlySearches, TypeOK
<1>2. TypeOK'
  BY RanksAreNumbers DEF TypeOK
<1>3. PoolOnlySearches' /\ BetweenStages' /\ InSearch'
  BY <1>1 DEF PoolOnlySearches, BetweenStages, InSearch
<1>4. BeforeSearch'
  BY RanksAreNumbers, RankVariables DEF BeforeSearch
<1>5. InStep'
  BY <1>1, RanksAreNumbers, RankVariables DEF InStep, Alone
<1>. QED  BY <1>2, <1>3, <1>4, <1>5

LEMMA StartKeepsStreamInv ==
    ASSUME StreamInv, StartSearch
    PROVE  StreamInv'
<1>. USE DEF StreamInv, StartSearch, tracker
<1>1. TypeOK'
  BY DEF TypeOK
<1>2. PoolOnlySearches' /\ BetweenStages' /\ BeforeSearch'
  BY DEF PoolOnlySearches, BetweenStages, BeforeSearch
<1>3. Backed(shown)' /\ Backed(best)'
  BY DEF Backed, BeforeSearch
<1>4. InSearch' /\ InStep'
  BY <1>3 DEF InSearch, InStep, Alone
<1>. QED  BY <1>1, <1>2, <1>4

\* What backs a list, and goes on backing it, when a worker gets further.
LEMMA StillBacked ==
    ASSUME TypeOK, NEW w \in Worker, NEW r \in Ranks, Backed(r),
           pooled' = pooled,
           \A v \in Worker : /\ pc[v] # "idle" => pc'[v] # "idle"
                             /\ local'[v] \in Ranks /\ local'[v] <= local[v]
    PROVE  pooled' <= r \/ \E v \in Worker : pc'[v] # "idle" /\ local'[v] <= r
<1>1. CASE pooled <= r
  BY <1>1
<1>2. CASE \E v \in Worker : pc[v] # "idle" /\ local[v] <= r
  <2>1. PICK v \in Worker : pc[v] # "idle" /\ local[v] <= r
    BY <1>2
  <2>2. pc'[v] # "idle" /\ local'[v] <= r
    BY <2>1, RankVariables, RanksAreNumbers
  <2>. QED  BY <2>2
<1>. QED  BY <1>1, <1>2 DEF Backed

LEMMA ImproveKeepsStreamInv ==
    ASSUME StreamInv, NEW w \in Worker, NEW r \in Rank, Improve(w, r)
    PROVE  StreamInv'
<1>. USE DEF StreamInv, Improve, place, tracker
<1>1. r \in Ranks /\ phase = "search" /\ w \in team
  BY RanksAreNumbers DEF PoolOnlySearches
<1>2. TypeOK'
  BY <1>1 DEF TypeOK
<1>3. PoolOnlySearches' /\ BetweenStages' /\ BeforeSearch'
  BY <1>1 DEF PoolOnlySearches, BetweenStages, BeforeSearch, TypeOK
<1>4. \A v \in Worker : /\ pc[v] # "idle" => pc'[v] # "idle"
                        /\ local'[v] \in Ranks /\ local'[v] <= local[v]
                        /\ pc'[v] = "report" => v # w
  BY <1>1, RankVariables, RanksAreNumbers DEF TypeOK
<1>5. Backed(shown)' /\ Backed(best)'
  BY <1>1, <1>4, StillBacked, RankVariables DEF InSearch, Backed
<1>6. \A v \in Worker : pc'[v] = "report" => pc[v] = "report" /\ held'[v] = held[v]
  BY <1>4 DEF TypeOK
<1>7. InSearch'
  BY <1>4, <1>5, <1>6 DEF InSearch, TypeOK
<1>8. InStep'
  BY <1>6 DEF InStep, Alone
<1>. QED  BY <1>2, <1>3, <1>7, <1>8

\* The critical section of reportIncumbent: a new best of the tracker is backed
\* by the root that offers it.
LEMMA OfferKeepsStreamInv ==
    ASSUME StreamInv, NEW w \in Worker,
           OfferLoses(w) \/ OfferThrottled(w) \/ OfferTaken(w)
    PROVE  StreamInv'
<1>. USE DEF StreamInv
<1>1. /\ pc[w] = "offer" /\ phase = "search" /\ w \in team
      /\ UNCHANGED <<team, stage, phase, carried, known, mainHeld, local, pooled,
                     shown>>
  BY DEF OfferLoses, OfferThrottled, OfferTaken, PoolOnlySearches, place
<1>2. /\ best' \in {best, local[w]} /\ best' <= best /\ emitted' \in BOOLEAN
      /\ \/ pc' = [pc EXCEPT ![w] = "search"] /\ held' = held
         \/ /\ pc' = [pc EXCEPT ![w] = "report"]
            /\ held' = [held EXCEPT ![w] = local[w]] /\ best' = local[w]
  <2>1. best <= best
    BY RankVariables, RanksAreNumbers
  <2>2. ReplacesBest(local[w]) => local[w] <= best
    BY RankVariables, RanksAreNumbers DEF ReplacesBest
  <2>3. CASE OfferLoses(w)
    BY <2>1, <2>3 DEF OfferLoses, tracker, TypeOK
  <2>4. CASE OfferThrottled(w)
    BY <2>2, <2>4 DEF OfferThrottled, TypeOK
  <2>5. CASE OfferTaken(w)
    BY <2>2, <2>5 DEF OfferTaken
  <2>. QED  BY <2>3, <2>4, <2>5
<1>3. best' \in Ranks /\ local[w] \in Ranks
  BY <1>2, RankVariables
<1>4. TypeOK'
  BY <1>1, <1>2, <1>3 DEF TypeOK
<1>5. PoolOnlySearches' /\ BetweenStages' /\ BeforeSearch'
  BY <1>1, <1>2 DEF PoolOnlySearches, BetweenStages, BeforeSearch, TypeOK
<1>6. \A v \in Worker : pc[v] # "idle" => pc'[v] # "idle"
  BY <1>2 DEF TypeOK
<1>7. \A v \in Worker : local'[v] \in Ranks /\ local'[v] <= local[v]
  BY <1>1, RankVariables, RanksAreNumbers
<1>8. Backed(shown)'
  BY <1>1, <1>6, <1>7, StillBacked, RankVariables DEF InSearch, Backed
<1>9. Backed(best)'
  <2>1. CASE best' = best
    BY <2>1, <1>1, <1>6, <1>7, StillBacked, RankVariables DEF InSearch, Backed
  <2>2. CASE best' = local[w]
    <3>1. pc'[w] # "idle" /\ local'[w] <= best'
      BY <2>2, <1>1, <1>3, <1>6, RanksAreNumbers
    <3>. QED  BY <3>1 DEF Backed
  <2>. QED  BY <1>2, <2>1, <2>2
<1>10. \A v \in Worker : pc'[v] = "report" =>
           \/ pc[v] = "report" /\ held'[v] = held[v] /\ v # w
           \/ v = w /\ held'[v] = local[w] /\ best' = local[w]
  BY <1>1, <1>2 DEF TypeOK
<1>11. InSearch'
  <2>1. \A v \in Worker : pc'[v] = "report" => local'[v] <= held'[v]
    BY <1>1, <1>3, <1>10, RanksAreNumbers DEF InSearch
  <2>. QED  BY <1>8, <1>9, <2>1 DEF InSearch
<1>12. InStep'
  <2>1. mainHeld' = None
    BY <1>1 DEF PoolOnlySearches
  <2>2. ASSUME Alone
        PROVE  best' <= shown' /\ \A v \in Worker : pc'[v] = "report" => held'[v] = best'
    <3>1. \A v \in Worker : pc[v] # "idle" => v = w
      BY <1>1, <2>2, OnlyOneInTeam DEF PoolOnlySearches
    <3>2. best' <= shown'
      BY <1>1, <1>2, <1>3, <2>2, RankVariables, RanksAreNumbers DEF InStep
    <3>. QED  BY <1>10, <3>1, <3>2
  <2>. QED  BY <1>1, <2>1, <2>2 DEF InStep, Alone
<1>. QED  BY <1>4, <1>5, <1>11, <1>12

LEMMA ReportKeepsStreamInv ==
    ASSUME StreamInv, NEW w \in Worker, Report(w)
    PROVE  StreamInv'
<1>. USE DEF StreamInv, Report, place, tracker
<1>1. phase = "search" /\ w \in team /\ local[w] <= held[w]
  BY DEF PoolOnlySearches, InSearch
<1>2. TypeOK'
  BY RanksAreNumbers DEF TypeOK
<1>3. PoolOnlySearches' /\ BetweenStages' /\ BeforeSearch'
  BY <1>1 DEF PoolOnlySearches, BetweenStages, BeforeSearch, TypeOK
<1>4. \A v \in Worker : /\ pc[v] # "idle" => pc'[v] # "idle"
                        /\ local'[v] \in Ranks /\ local'[v] <= local[v]
                        /\ pc'[v] = "report" => v # w /\ pc[v] = "report"
                                                /\ held'[v] = held[v]
  BY RankVariables, RanksAreNumbers DEF TypeOK
<1>5. Backed(best)'
  BY <1>1, <1>4, StillBacked, RankVariables DEF InSearch, Backed
<1>6. Backed(shown)'
  BY <1>1, <1>4 DEF Backed
<1>7. InSearch'
  BY <1>4, <1>5, <1>6 DEF InSearch
<1>8. InStep'
  <2>1. mainHeld' = None
    BY <1>1 DEF PoolOnlySearches
  <2>2. Alone => best' <= shown'
    BY RankVariables, RanksAreNumbers DEF InStep
  <2>. QED  BY <1>4, <2>1, <2>2 DEF InStep, Alone
<1>. QED  BY <1>2, <1>3, <1>7, <1>8

\* What a finished root backed, the merged results back.
LEMMA FinishKeepsStreamInv ==
    ASSUME StreamInv, NEW w \in Worker, FinishRoot(w)
    PROVE  StreamInv'
<1>. USE DEF StreamInv
<1>1. /\ pc[w] = "search" /\ phase = "search"
      /\ pooled' \in Ranks /\ pooled' <= pooled /\ pooled' <= local[w]
      /\ UNCHANGED <<team, stage, phase, carried, known, best, emitted, mainHeld,
                     held, shown>>
  <2>1. pooled \in Ranks /\ local[w] \in Ranks
    BY RankVariables
  <2>2. /\ Better(pooled, local[w]) \in Ranks
        /\ Better(pooled, local[w]) <= pooled
        /\ Better(pooled, local[w]) <= local[w]
    BY <2>1, BetterRank
  <2>3. pc[w] = "search" /\ phase = "search"
    BY DEF FinishRoot, PoolOnlySearches
  <2>. QED  BY <2>2, <2>3 DEF FinishRoot, MergeRoot, place, tracker
<1>2. /\ \A v \in Worker \ {w} : pc'[v] = pc[v] /\ local'[v] = local[v]
      /\ pc'[w] \in {"search", "idle"}
  BY <1>1 DEF FinishRoot, TypeOK
<1>3. TypeOK'
  BY <1>1 DEF FinishRoot, TypeOK, Ranks
<1>4. PoolOnlySearches' /\ BetweenStages' /\ BeforeSearch'
  BY <1>1, <1>2 DEF PoolOnlySearches, BetweenStages, BeforeSearch
<1>5. ASSUME NEW r \in Ranks, Backed(r)
      PROVE  pooled' <= r \/ \E v \in Worker : pc'[v] # "idle" /\ local'[v] <= r
  <2>1. CASE pooled <= r \/ local[w] <= r
    BY <1>1, <2>1, RankVariables, RanksAreNumbers
  <2>2. CASE \E v \in Worker \ {w} : pc[v] # "idle" /\ local[v] <= r
    BY <1>2, <2>2
  <2>. QED  BY <1>5, <2>1, <2>2 DEF Backed
<1>6. InSearch'
  <2>1. Backed(shown)' /\ Backed(best)'
    BY <1>1, <1>5, RankVariables DEF InSearch, Backed
  <2>2. \A v \in Worker : pc'[v] = "report" => local'[v] <= held'[v]
    BY <1>1, <1>2 DEF InSearch
  <2>. QED  BY <2>1, <2>2 DEF InSearch
<1>7. InStep'
  BY <1>1, <1>2 DEF InStep, Alone
<1>. QED  BY <1>3, <1>4, <1>6, <1>7

LEMMA EndKeepsStreamInv ==
    ASSUME StreamInv, NEW r \in Rank \cup {None}, EndStage(r)
    PROVE  StreamInv'
<1>. USE DEF StreamInv, EndStage, tracker, pool
<1>1. r \in Ranks /\ carried' \in Ranks /\ carried' <= r
  <2>1. r \in Ranks /\ carried \in Ranks
    BY RankVariables, RanksAreNumbers
  <2>. QED  BY <2>1, BetterRank
<1>2. \A w \in Worker : pc[w] = "idle"
  BY DEF PoolOnlySearches
<1>3. r <= shown /\ r <= best
  <2>1. CASE phase \in {"repair", "ready"}
    BY <1>1, <2>1, RankVariables, RanksAreNumbers DEF BeforeSearch
  <2>2. CASE phase = "search" /\ r <= pooled
    <3>1. pooled <= shown /\ pooled <= best
      BY <1>2, <2>2 DEF InSearch, Backed
    <3>. QED  BY <1>1, <2>2, <3>1, RankVariables, RanksAreNumbers
  <2>. QED  BY <2>1, <2>2
<1>4. TypeOK'
  <2>1. stage' \in 1..NStages /\ phase' \in {"seed", "done"}
    BY ProgressAssumption DEF TypeOK, StagesLeft, ProgressAssumption
  <2>. QED  BY <1>1, <2>1 DEF TypeOK
<1>5. phase' \in {"seed", "done"}
  OBVIOUS
<1>6. PoolOnlySearches' /\ BeforeSearch' /\ InSearch'
  BY <1>2, <1>5 DEF PoolOnlySearches, BeforeSearch, InSearch
<1>7. BetweenStages'
  BY <1>1, <1>3, RankVariables, RanksAreNumbers DEF BetweenStages
<1>8. InStep'
  BY <1>2 DEF InStep, Alone, place
<1>. QED  BY <1>4, <1>6, <1>7, <1>8

LEMMA NextKeepsStreamInv == StreamInv /\ [Next]_vars => StreamInv'
<1>. SUFFICES ASSUME StreamInv, [Next]_vars PROVE StreamInv'
  OBVIOUS
<1>1. CASE UNCHANGED vars
  BY <1>1 DEF StreamInv, TypeOK, PoolOnlySearches, BetweenStages, BeforeSearch,
              InSearch, Backed, InStep, Alone, vars, place, tracker, pool
<1>. QED
  BY <1>1, SeedKeepsStreamInv, RepairKeepsStreamInv, ReportMainKeepsStreamInv,
     StartKeepsStreamInv, ImproveKeepsStreamInv, OfferKeepsStreamInv,
     ReportKeepsStreamInv, FinishKeepsStreamInv, EndKeepsStreamInv
  DEF Next
-----------------------------------------------------------------------------
\* The inductive invariant of the stream of partial results.
THEOREM StreamInvariant == Spec => []StreamInv
BY InitStreamInv, NextKeepsStreamInv, PTL DEF Spec

\* What a stage hands on, and SolveLayout returns, is at least as good as what
\* any report showed, with any number of workers (solver.go, SolveLayout, and
\* progress.go, reportIncumbent).
THEOREM ReturnsTheBestShown == Spec => []ReturnedBeatsShown
<1>1. StreamInv => ReturnedBeatsShown
  BY DEF StreamInv, BetweenStages, ReturnedBeatsShown
<1>. QED  BY StreamInvariant, <1>1, PTL

\* With a single worker the user never sees a step back, across every report,
\* throttled improvement and change of stage.
THEOREM OneWorkerNeverStepsBack == Spec => ShownNeverWorsens
<1>1. StreamInv /\ [Next]_vars => [Alone => shown' <= shown]_vars
  <2>. SUFFICES ASSUME StreamInv, Next, Alone PROVE shown' <= shown
    BY DEF vars
  <2>. USE DEF StreamInv
  <2>1. CASE shown' = shown
    BY <2>1, RankVariables, RanksAreNumbers
  <2>2. CASE ReportMain
    BY <2>2 DEF ReportMain, InStep
  <2>3. ASSUME NEW w \in Worker, Report(w) PROVE shown' <= shown
    BY <2>3 DEF Report, InStep
  <2>. QED
    BY <2>1, <2>2, <2>3
    DEF Next, Seed, Repair, StartSearch, Improve, OfferLoses, OfferThrottled,
        OfferTaken, FinishRoot, EndStage
<1>. QED  BY StreamInvariant, <1>1, PTL DEF Spec, ShownNeverWorsens, Alone
=============================================================================
