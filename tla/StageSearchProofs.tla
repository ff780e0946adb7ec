------------------------- MODULE StageSearchProofs --------------------------
(***************************************************************************)
(* Proofs about StageSearch, for all limits, budgets and settings: no      *)
(* phase after the seeds is ever refused a node, the statistics of a stage *)
(* add up to what the ledger charged, and the best layout is returned.     *)
(*                                                                         *)
(* The budgets are differences of counts the phases report, the refusals   *)
(* come from the ledger's own count: the two agree (Accounted), and what   *)
(* is promised to the running repair and reserved for the later one is     *)
(* always left in the ledger (Covered).  The formulas leave out the phases *)
(* that have not run, which have spent nothing (Unspent), and a stage      *)
(* starts with nothing charged or reported (Fresh).                        *)
(***************************************************************************)
EXTENDS StageSearch, TLAPS

Used == SeedNodes + RepairNodes + spent["dfs"] + spent["lns"]
        + spent["refine"]

\* The phases after the seeds that have not run at a point of the stage.
NotYet(at) ==
    IF at \in {"seed", "constellation", "shared", "seeded", "covered", "pre"}
    THEN LaterPhases
    ELSE IF at \in {"repaired", "dfs"} THEN {"dfs", "post", "lns", "refine"}
    ELSE IF at \in {"explored", "searched"} THEN {"post", "lns", "refine"}
    ELSE IF at \in {"rerepaired", "lns"} THEN {"lns", "refine"}
    ELSE IF at = "refine" THEN {"refine"}
    ELSE {}

\* What is promised to repairs at a point of the stage.
Promised(at) ==
    IF at = "pre" THEN repair.pre + repair.post
    ELSE IF at \in {"repaired", "dfs", "explored", "searched"}
    THEN repair.post ELSE 0

Accounted == charged[stage] = Used
Unspent == \A p \in NotYet(pc) : spent[p] = 0
Covered == Limited => Promised(pc) <= Left
Fresh ==
    pc # "over" =>
        \A i \in DOMAIN setting.limits :
            /\ i >= stage => report[i] = NoReport
            /\ i > stage => charged[i] = 0

QuotaInv ==
    /\ TypeOK /\ Accounted /\ Unspent /\ Covered /\ Fresh
    /\ LaterPhasesNeverRefused /\ ReportIsCharge
-----------------------------------------------------------------------------
\* The limits of a setting are numbers.
LEMMA LimitsType ==
    ASSUME setting \in Settings
    PROVE  /\ setting.limits \in Seq(Nat)
           /\ DOMAIN setting.limits = 1..Len(setting.limits)
           /\ Len(setting.limits) \in Nat \ {0}
           /\ \A i \in DOMAIN setting.limits : setting.limits[i] \in Nat
<1>1. IsSetting(setting)
  BY StageSearchAssumption DEF StageSearchAssumption
<1>2. setting.limits \in Seq(Nat) /\ Len(setting.limits) > 0
  BY <1>1 DEF IsSetting
<1>. DEFINE limits == setting.limits
<1>. HIDE DEF limits
<1>3. limits \in Seq(Nat) /\ Len(limits) > 0
  BY <1>2 DEF limits
<1>4. /\ DOMAIN limits = 1..Len(limits) /\ Len(limits) \in Nat \ {0}
      /\ \A i \in DOMAIN limits : limits[i] \in Nat
  BY <1>3
<1>. QED  BY <1>2, <1>4 DEF limits

LEMMA LimitType ==
    ASSUME TypeOK
    PROVE  /\ setting.limits \in Seq(Nat) /\ stage \in Nat
           /\ DOMAIN setting.limits = 1..Len(setting.limits)
           /\ Len(setting.limits) \in Nat /\ Limit \in Nat
           /\ charged[stage] \in Nat /\ Left \in Int
<1>1. /\ setting \in Settings /\ stage \in DOMAIN setting.limits
      /\ charged \in [DOMAIN setting.limits -> Nat]
  BY DEF TypeOK
<1>. QED  BY <1>1, LimitsType DEF Limit, Left

\* A phase explores some n nodes, all of which the ledger charges, and is
\* refused one only if its budget is more than the ledger has left.
LEMMA ExploreEffect ==
    ASSUME QuotaInv, NEW phase \in Phases, NEW budget \in Int,
           NEW score \in 0..TopScore, Explore(phase, budget, score),
           UNCHANGED <<setting, stage>>
    PROVE  \E n \in Nat :
              /\ spent' = [spent EXCEPT ![phase] = @ + n]
              /\ charged' = [charged EXCEPT ![stage] = @ + n]
              /\ n <= budget
              /\ Limited => n <= Left
              /\ refused' \subseteq refused \cup {phase}
              /\ (Limited => budget <= Left) => refused' = refused
              /\ best' \in 0..TopScore /\ found' \in 0..TopScore
<1>. USE DEF Least, Most, Merge
<1>1. /\ Limited \in BOOLEAN /\ Left \in Int /\ Limit \in Nat
      /\ Limited => 0 <= Left
  <2>1. repair.pre \in Nat /\ repair.post \in Nat
    BY DEF QuotaInv, TypeOK
  <2>2. 0 <= Promised(pc) /\ Promised(pc) \in Int
    BY <2>1 DEF Promised
  <2>. QED  BY <2>2, LimitType DEF QuotaInv, Limited, Covered
<1>2. PICK want \in 0..budget :
        LET n == IF Limited THEN Least(want, Left) ELSE want IN
        /\ spent' = [spent EXCEPT ![phase] = @ + n]
        /\ charged' = [charged EXCEPT ![stage] = @ + n]
        /\ refused' = IF n < want THEN refused \cup {phase} ELSE refused
        /\ best' = Merge(best, score)
        /\ found' = Most(found, score)
  BY DEF Explore
<1>. DEFINE n == IF Limited THEN Least(want, Left) ELSE want
<1>3. /\ n \in Nat /\ n <= want /\ n <= budget
      /\ Limited => n <= Left
      /\ (Limited => budget <= Left) => n = want
  BY <1>1, <1>2
<1>4. best' \in 0..TopScore /\ found' \in 0..TopScore
  BY <1>2, StageSearchAssumption DEF QuotaInv, TypeOK, StageSearchAssumption
<1>5. /\ refused' \subseteq refused \cup {phase}
      /\ (Limited => budget <= Left) => refused' = refused
  <2>1. refused' = IF n < want THEN refused \cup {phase} ELSE refused
    BY <1>2
  <2>2. n = want => ~(n < want)
    BY <1>3
  <2>. QED  BY <2>1, <2>2, <1>3
<1>. QED  BY <1>2, <1>3, <1>4, <1>5

\* What a phase explores is what the stage's counts grow by.
LEMMA UsedGrows ==
    ASSUME spent \in [Phases -> Nat], NEW phase \in Phases, NEW n \in Nat,
           spent' = [spent EXCEPT ![phase] = @ + n]
    PROVE  /\ spent' \in [Phases -> Nat]
           /\ Used' = Used + n
           /\ \A p \in Phases \ {phase} : spent'[p] = spent[p]
<1>. DEFINE t(p) == IF p = phase THEN spent[p] + n ELSE spent[p]
<1>1. \A p \in Phases : spent'[p] = t(p) /\ spent[p] \in Nat
  OBVIOUS
<1>2. spent' \in [Phases -> Nat]
  OBVIOUS
<1>. HIDE DEF t
<1>3. Used' = t("coverage") + t("packing") + t("constellation") + t("star")
              + (t("pre") + t("post")) + t("dfs") + t("lns") + t("refine")
  BY <1>1 DEF Used, SeedNodes, RepairNodes, Phases
<1>4. phase \in {"coverage", "packing", "constellation", "star", "pre", "dfs",
                 "post", "lns", "refine"}
  BY DEF Phases
<1>5. \A p \in Phases : spent[p] \in Nat
  BY <1>1
<1>6. Used' = Used + n
  BY <1>3, <1>4, <1>5 DEF t, Used, SeedNodes, RepairNodes, Phases
<1>. QED  BY <1>1, <1>2, <1>6 DEF t

\* Every budget is a number.
LEMMA BudgetType ==
    ASSUME QuotaInv
    PROVE  /\ SeedBudget \in Int /\ StarSeedBudget \in Int
           /\ PackingBudget \in Int /\ ConstellationBudget \in Int
           /\ SeedNodes \in Nat /\ RepairNodes \in Nat
           /\ \A percent \in Nat : Share(percent, Limit) \in Int
<1>1. /\ SeedCap \in Nat /\ PerInstanceFrom \in Nat /\ PerInstanceCap \in Nat
      /\ ConstellationPercent \in Nat
  BY StageSearchAssumption DEF StageSearchAssumption
<1>2. Limit \in Nat
  BY LimitType DEF QuotaInv
<1>3. \A percent \in Nat, n \in Int : Share(percent, n) \in Int
  BY DEF Share
<1>4. SeedBudget \in Int
  BY <1>1, <1>2 DEF SeedBudget, Least
<1>5. StarSeedBudget \in Int
  BY <1>1, <1>2, <1>4 DEF StarSeedBudget, PerInstanceBudget, Least, Most
<1>6. ConstellationBudget \in Int
  BY <1>1, <1>3, <1>5 DEF ConstellationBudget
<1>7. PackingBudget \in Int
  BY <1>5, <1>6 DEF PackingBudget, Most
<1>8. SeedNodes \in Nat /\ RepairNodes \in Nat
  BY DEF QuotaInv, TypeOK, SeedNodes, RepairNodes, Phases
<1>. QED  BY <1>2, <1>3, <1>4, <1>5, <1>6, <1>7, <1>8

\* A phase that may take its budget from what is not promised to others
\* keeps the invariant; a seed need not, nothing is promised yet.
LEMMA PhaseStep ==
    ASSUME QuotaInv, NEW phase \in Phases, NEW budget \in Int,
           NEW score \in 0..TopScore, NEW next \in Points \ {"over"},
           pc # "over", pc' = next,
           Explore(phase, budget, score), UNCHANGED <<solve, repair, returned>>,
           NotYet(next) \subseteq NotYet(pc) \ {phase},
           phase \in LaterPhases =>
               (Limited => Promised(next) + budget <= Left),
           phase \notin LaterPhases => Promised(next) = 0
    PROVE  QuotaInv'
<1>1. UNCHANGED <<setting, stage, canceled, repair, carried, report, outcome>>
  BY DEF solve, returned
<1>2. PICK n \in Nat :
              /\ spent' = [spent EXCEPT ![phase] = @ + n]
              /\ charged' = [charged EXCEPT ![stage] = @ + n]
              /\ n <= budget
              /\ Limited => n <= Left
              /\ refused' \subseteq refused \cup {phase}
              /\ (Limited => budget <= Left) => refused' = refused
              /\ best' \in 0..TopScore /\ found' \in 0..TopScore
  BY <1>1, ExploreEffect
<1>3. /\ spent' \in [Phases -> Nat] /\ Used' = Used + n
      /\ \A p \in Phases \ {phase} : spent'[p] = spent[p]
  BY <1>2, UsedGrows DEF QuotaInv, TypeOK
<1>4. /\ charged' \in [DOMAIN setting.limits -> Nat]
      /\ charged'[stage] = charged[stage] + n
      /\ \A i \in DOMAIN setting.limits \ {stage} : charged'[i] = charged[i]
  BY <1>2 DEF QuotaInv, TypeOK
<1>5. TypeOK'
  BY <1>1, <1>2, <1>3, <1>4 DEF QuotaInv, TypeOK
<1>6. Accounted'
  BY <1>1, <1>3, <1>4 DEF QuotaInv, Accounted
<1>7. NotYet(pc') = NotYet(next) /\ NotYet(next) \subseteq Phases
  BY DEF NotYet, LaterPhases, Phases
<1>8. Unspent'
  <2>1. \A p \in NotYet(next) : spent'[p] = 0
    BY <1>3, <1>7 DEF QuotaInv, Unspent
  <2>. QED  BY <2>1 DEF Unspent, NotYet
<1>9. /\ Left' = Left - n /\ Limited' = Limited /\ Left \in Int
  <2>1. Left \in Int /\ Limit \in Nat /\ charged[stage] \in Nat
    BY LimitType DEF QuotaInv
  <2>2. Limit' = Limit
    BY <1>1 DEF Limit
  <2>. QED  BY <1>1, <1>4, <2>1, <2>2 DEF Left, Limited
<1>10. Promised(pc)' = Promised(next) /\ Promised(next) \in Nat
  <2>1. repair.pre \in Nat /\ repair.post \in Nat
    BY DEF QuotaInv, TypeOK
  <2>. QED  BY <1>1, <2>1 DEF Promised
<1>11. Covered'
  <2>1. CASE phase \in LaterPhases
    BY <1>2, <1>9, <1>10, <2>1 DEF Covered
  <2>2. CASE phase \notin LaterPhases
    BY <1>2, <1>9, <1>10, <2>2 DEF Covered
  <2>. QED  BY <2>1, <2>2
<1>12. Fresh'
  <2>1. stage \in Nat /\ DOMAIN setting.limits = 1..Len(setting.limits)
    BY LimitType DEF QuotaInv
  <2>2. \A i \in DOMAIN setting.limits :
           /\ i >= stage => report[i] = NoReport
           /\ i > stage => charged[i] = 0
    BY DEF QuotaInv, Fresh
  <2>3. \A i \in DOMAIN setting.limits : i > stage => charged'[i] = 0
    BY <1>4, <2>1, <2>2
  <2>. QED  BY <1>1, <2>2, <2>3 DEF Fresh
<1>13. LaterPhasesNeverRefused'
  <2>1. CASE phase \in LaterPhases
    <3>1. Limited => budget <= Left
      BY <1>9, <1>10, <2>1
    <3>. QED  BY <1>2, <3>1 DEF QuotaInv, LaterPhasesNeverRefused
  <2>2. CASE phase \notin LaterPhases
    BY <1>2, <2>2 DEF QuotaInv, LaterPhasesNeverRefused
  <2>. QED  BY <2>1, <2>2
<1>14. ReportIsCharge'
  <2>1. stage \in Nat /\ stage \in DOMAIN setting.limits
        /\ DOMAIN setting.limits = 1..Len(setting.limits)
        /\ DOMAIN report = DOMAIN setting.limits
    BY LimitType DEF QuotaInv, TypeOK
  <2>2. report[stage] = NoReport
    BY <2>1 DEF QuotaInv, Fresh
  <2>. QED  BY <1>1, <1>4, <2>1, <2>2 DEF QuotaInv, ReportIsCharge
<1>. QED  BY <1>5, <1>6, <1>8, <1>11, <1>12, <1>13, <1>14 DEF QuotaInv

\* Going on without a phase keeps what is promised or gives it up, and the
\* moves of completion and refinement are not charged.
LEMMA SkipStep ==
    ASSUME QuotaInv, NEW next \in Points \ {"over"}, pc # "over", pc' = next,
           UNCHANGED <<solve, nodes, repair, returned>>,
           best' \in 0..TopScore, found' \in 0..TopScore,
           NotYet(next) \subseteq NotYet(pc), Promised(next) <= Promised(pc)
    PROVE  QuotaInv'
<1>1. UNCHANGED <<setting, stage, canceled, charged, spent, refused, repair,
                  carried, report, outcome>>
  BY DEF solve, nodes, returned
<1>2. TypeOK'
  BY <1>1 DEF QuotaInv, TypeOK
<1>3. Accounted'
  BY <1>1 DEF QuotaInv, Accounted, Used, SeedNodes, RepairNodes
<1>4. Unspent'
  <2>1. \A p \in NotYet(next) : spent[p] = 0
    BY DEF QuotaInv, Unspent
  <2>. QED  BY <1>1, <2>1 DEF Unspent, NotYet
<1>5. Covered'
  <2>1. Promised(pc)' = Promised(next) /\ Left' = Left /\ Limited' = Limited
    BY <1>1 DEF Promised, Left, Limited, Limit
  <2>2. Promised(next) \in Int /\ Promised(pc) \in Int /\ Left \in Int
    BY LimitType DEF QuotaInv, TypeOK, Promised
  <2>. QED  BY <2>1, <2>2 DEF QuotaInv, Covered
<1>6. Fresh' /\ LaterPhasesNeverRefused' /\ ReportIsCharge'
  BY <1>1 DEF QuotaInv, Fresh, LaterPhasesNeverRefused, ReportIsCharge
<1>. QED  BY <1>2, <1>3, <1>4, <1>5, <1>6 DEF QuotaInv

\* A stage that returns the sum of what its phases have spent.
LEMMA ReturnStep ==
    ASSUME QuotaInv, pc # "over", NEW total \in Nat, total = Used,
           Return(total)
    PROVE  QuotaInv'
<1>1. UNCHANGED <<setting, canceled, charged, found>>
  BY DEF Return, solve
<1>2. /\ stage \in Nat /\ stage \in DOMAIN setting.limits
      /\ DOMAIN setting.limits = 1..Len(setting.limits)
      /\ Len(setting.limits) \in Nat
      /\ charged \in [DOMAIN setting.limits -> Nat]
      /\ report \in [DOMAIN setting.limits -> Nat \cup {NoReport}]
  BY LimitType DEF QuotaInv, TypeOK
<1>3. carried' \in 0..TopScore
  BY DEF QuotaInv, TypeOK, Return, Merge, Most
<1>4. /\ report' \in [DOMAIN setting.limits -> Nat \cup {NoReport}]
      /\ report'[stage] \in {NoReport, total}
      /\ \A i \in DOMAIN setting.limits \ {stage} : report'[i] = report[i]
  BY <1>2 DEF Return
<1>5. ReportIsCharge'
  <2>1. charged[stage] = total
    BY DEF QuotaInv, Accounted
  <2>2. DOMAIN report' = DOMAIN setting.limits
        /\ DOMAIN report = DOMAIN setting.limits
    BY <1>2, <1>4
  <2>. QED  BY <1>1, <1>4, <2>1, <2>2 DEF QuotaInv, ReportIsCharge
<1>6. CASE stage < Len(setting.limits)
  <2>1. /\ stage' = stage + 1 /\ pc' = "seed" /\ best' = carried'
        /\ spent' = NoNodes /\ refused' = {} /\ repair' = NoRepair
        /\ outcome' = outcome
    BY <1>6 DEF Return
  <2>2. stage' \in DOMAIN setting.limits
    BY <1>2, <1>6, <2>1
  <2>3. /\ \A p \in Phases : spent'[p] = 0
        /\ spent' \in [Phases -> Nat]
    BY <2>1 DEF NoNodes
  <2>4. /\ \A i \in DOMAIN setting.limits :
              /\ i >= stage => report[i] = NoReport
              /\ i > stage => charged[i] = 0
    BY DEF QuotaInv, Fresh
  <2>5. charged'[stage'] = 0
    BY <1>1, <1>2, <2>1, <2>2, <2>4
  <2>6. TypeOK'
    BY <1>1, <1>3, <1>4, <2>1, <2>2, <2>3
    DEF QuotaInv, TypeOK, Points, NoRepair
  <2>7. Accounted'
    <3>1. Used' = 0
      BY <2>3 DEF Used, SeedNodes, RepairNodes, Phases
    <3>. QED  BY <2>5, <3>1 DEF Accounted
  <2>8. Unspent'
    BY <2>3 DEF Unspent, NotYet, LaterPhases, Phases
  <2>9. Covered'
    <3>1. Promised(pc)' = 0
      BY <2>1 DEF Promised
    <3>2. setting.limits[stage'] \in Nat
      BY <1>1, <2>2, LimitsType DEF QuotaInv, TypeOK
    <3>3. Limit' \in Nat /\ Left' = Limit'
      BY <1>1, <2>5, <3>2 DEF Left, Limit
    <3>. QED  BY <3>1, <3>3 DEF Covered, Limited
  <2>10. Fresh'
    BY <1>1, <1>2, <1>4, <2>1, <2>4 DEF Fresh
  <2>11. LaterPhasesNeverRefused'
    BY <2>1 DEF LaterPhasesNeverRefused
  <2>. QED  BY <1>5, <2>6, <2>7, <2>8, <2>9, <2>10, <2>11 DEF QuotaInv
<1>7. CASE ~(stage < Len(setting.limits))
  <2>1. /\ outcome' \in {"empty", "solved"} /\ pc' = "over"
        /\ UNCHANGED <<stage, best, spent, refused, repair>>
    BY <1>7 DEF Return
  <2>2. TypeOK'
    BY <1>1, <1>3, <1>4, <2>1 DEF QuotaInv, TypeOK, Points
  <2>3. Accounted' /\ LaterPhasesNeverRefused'
    BY <1>1, <2>1 DEF QuotaInv, Accounted, Used, SeedNodes, RepairNodes,
       LaterPhasesNeverRefused
  <2>4. Unspent' /\ Fresh'
    BY <2>1 DEF Unspent, NotYet, Fresh
  <2>5. Covered'
    <3>1. Promised(pc)' = 0 /\ Left' = Left /\ Limited' = Limited
      BY <1>1, <2>1 DEF Promised, Left, Limited, Limit
    <3>2. Promised(pc) \in Nat /\ Left \in Int
      BY LimitType DEF QuotaInv, TypeOK, Promised
    <3>. QED  BY <3>1, <3>2 DEF QuotaInv, Covered
  <2>. QED  BY <1>5, <2>2, <2>3, <2>4, <2>5 DEF QuotaInv
<1>. QED  BY <1>6, <1>7

\* A failed solve keeps what was charged and reported.
LEMMA FailStep ==
    ASSUME QuotaInv, pc # "over", NEW at, Fail(at)
    PROVE  QuotaInv'
<1>1. /\ UNCHANGED <<setting, canceled, charged, spent, refused, repair, best,
                     found, stage, carried, report>>
      /\ outcome' = "failed" /\ pc' = "over"
  BY DEF Fail, solve, nodes
<1>2. TypeOK'
  BY <1>1 DEF QuotaInv, TypeOK, Points
<1>3. Accounted' /\ LaterPhasesNeverRefused' /\ ReportIsCharge'
  BY <1>1 DEF QuotaInv, Accounted, Used, SeedNodes, RepairNodes,
     LaterPhasesNeverRefused, ReportIsCharge
<1>4. Unspent' /\ Fresh'
  BY <1>1 DEF Unspent, NotYet, Fresh
<1>5. Covered'
  <2>1. Promised(pc)' = 0 /\ Left' = Left /\ Limited' = Limited
    BY <1>1 DEF Promised, Left, Limited, Limit
  <2>2. Promised(pc) \in Nat /\ Left \in Int
    BY LimitType DEF QuotaInv, TypeOK, Promised
  <2>. QED  BY <2>1, <2>2 DEF QuotaInv, Covered
<1>. QED  BY <1>2, <1>3, <1>4, <1>5 DEF QuotaInv
-----------------------------------------------------------------------------
LEMMA InitQuota == Init => QuotaInv
<1>. SUFFICES ASSUME Init PROVE QuotaInv
  OBVIOUS
<1>1. /\ setting \in Settings /\ stage = 1 /\ pc = "seed" /\ canceled = FALSE
      /\ charged = [i \in DOMAIN setting.limits |-> 0]
      /\ spent = NoNodes /\ refused = {} /\ repair = NoRepair
      /\ best = 0 /\ carried = 0 /\ found = 0
      /\ report = [i \in DOMAIN setting.limits |-> NoReport]
      /\ outcome = "running"
  BY DEF Init
<1>2. 1 \in DOMAIN setting.limits /\ setting.limits[1] \in Nat
  BY <1>1, LimitsType
<1>3. TypeOK
  <2>1. /\ stage \in DOMAIN setting.limits
        /\ charged \in [DOMAIN setting.limits -> Nat]
        /\ report \in [DOMAIN setting.limits -> Nat \cup {NoReport}]
    BY <1>1, <1>2
  <2>2. spent \in [Phases -> Nat]
    BY <1>1 DEF NoNodes
  <2>3. repair \in [pre : Nat, post : Nat]
    BY <1>1 DEF NoRepair
  <2>4. {best, carried, found} \subseteq 0..TopScore
    BY <1>1, StageSearchAssumption DEF StageSearchAssumption
  <2>. QED  BY <1>1, <2>1, <2>2, <2>3, <2>4 DEF TypeOK, Points
<1>4. \A p \in Phases : spent[p] = 0
  BY <1>1 DEF NoNodes
<1>5. Used = 0 /\ Accounted
  <2>1. Used = 0
    BY <1>4 DEF Used, SeedNodes, RepairNodes, Phases
  <2>. QED  BY <1>1, <1>2, <2>1 DEF Accounted
<1>6. Unspent
  BY <1>1, <1>4 DEF Unspent, NotYet, LaterPhases, Phases
<1>7. Covered
  BY <1>1, <1>2 DEF Covered, Promised, Left, Limit, Limited
<1>8. Fresh /\ LaterPhasesNeverRefused /\ ReportIsCharge
  BY <1>1 DEF Fresh, LaterPhasesNeverRefused, ReportIsCharge
<1>. QED  BY <1>3, <1>5, <1>6, <1>7, <1>8 DEF QuotaInv

\* The sums the code works with are, at the points where it does, all that the
\* phases have spent.
LEMMA SumIsUsed ==
    ASSUME QuotaInv
    PROVE  /\ Used \in Nat /\ Left = Limit - Used
           /\ pc \in {"seeded", "covered"} => SeedNodes = Used
           /\ pc \in {"repaired", "dfs"} => SeedNodes + RepairNodes = Used
           /\ pc \in {"seeded", "covered", "searched"} =>
                 SeedNodes + RepairNodes + spent["dfs"] = Used
           /\ pc = "lns" => SeedNodes + spent["dfs"] + RepairNodes = Used
           /\ pc = "refine" =>
                 SeedNodes + spent["dfs"] + RepairNodes + spent["lns"] = Used
           /\ SeedNodes + spent["dfs"] + spent["lns"] + spent["refine"]
              + RepairNodes = Used
<1>1. /\ SeedNodes \in Nat /\ RepairNodes \in Nat /\ spent["dfs"] \in Nat
      /\ spent["lns"] \in Nat /\ spent["refine"] \in Nat
      /\ spent["pre"] \in Nat /\ spent["post"] \in Nat
  BY BudgetType DEF QuotaInv, TypeOK, Phases
<1>2. Used \in Nat /\ Left = Limit - Used
  BY <1>1 DEF Used, Left, QuotaInv, Accounted
<1>3. /\ pc \in {"seeded", "covered"} =>
            /\ spent["dfs"] = 0 /\ spent["lns"] = 0 /\ spent["refine"] = 0
            /\ spent["pre"] = 0 /\ spent["post"] = 0
      /\ pc \in {"repaired", "dfs"} =>
            spent["dfs"] = 0 /\ spent["lns"] = 0 /\ spent["refine"] = 0
      /\ pc \in {"searched", "lns"} =>
            spent["lns"] = 0 /\ spent["refine"] = 0
      /\ pc = "refine" => spent["refine"] = 0
  BY DEF QuotaInv, Unspent, NotYet, LaterPhases
<1>4. CASE pc \in {"seeded", "covered"}
  BY <1>1, <1>2, <1>3, <1>4 DEF Used, RepairNodes
<1>5. CASE pc \notin {"seeded", "covered"}
  BY <1>1, <1>2, <1>3, <1>5 DEF Used
<1>. QED  BY <1>4, <1>5

LEMMA PhaseTo ==
    ASSUME QuotaInv, NEW at, NEW phase \in Phases, NEW budget \in Int,
           NEW next \in Points \ {"over"}, at # "over",
           Phase(at, phase, budget, next),
           NotYet(next) \subseteq NotYet(at) \ {phase},
           phase \in LaterPhases =>
               (Limited => Promised(next) + budget <= Left),
           phase \notin LaterPhases => Promised(next) = 0
    PROVE  QuotaInv'
<1>1. /\ pc = at /\ pc' = next /\ UNCHANGED <<solve, repair, returned>>
  BY DEF Phase
<1>2. PICK score \in 0..TopScore : Explore(phase, budget, score)
  BY DEF Phase
<1>. QED  BY <1>1, <1>2, PhaseStep

LEMMA SkipTo ==
    ASSUME QuotaInv, NEW at, NEW next \in Points \ {"over"}, at # "over",
           Skip(at, next), NotYet(next) \subseteq NotYet(at),
           Promised(next) <= Promised(at)
    PROVE  QuotaInv'
<1>1. /\ pc = at /\ pc' = next
      /\ UNCHANGED <<solve, nodes, repair, best, found, returned>>
  BY DEF Skip
<1>2. best' \in 0..TopScore /\ found' \in 0..TopScore
  BY <1>1 DEF QuotaInv, TypeOK
<1>. QED  BY <1>1, <1>2, SkipStep
-----------------------------------------------------------------------------
LEMMA SeedsKeep ==
    ASSUME QuotaInv, Seeds PROVE QuotaInv'
<1>. USE DEF Points, Phases, LaterPhases, NotYet, Promised
<1>0. /\ WithOverrun(PackingBudget) \in Int
      /\ WithOverrun(ConstellationBudget) \in Int
  BY BudgetType, StageSearchAssumption
  DEF WithOverrun, StageSearchAssumption
<1>1. CASE NoSeed
  BY <1>1, SkipTo DEF NoSeed
<1>2. CASE CoverageSeed
  <2>1. PICK score \in 0..TopScore :
          /\ Explore("coverage", SeedBudget, score)
          /\ pc' = IF CoverageReached(score) THEN "covered" ELSE "seeded"
    BY <1>2 DEF CoverageSeed
  <2>2. pc = "seed" /\ UNCHANGED <<solve, repair, returned>>
    BY <1>2 DEF CoverageSeed
  <2>3. SeedBudget \in Int
    BY BudgetType
  <2>4. CASE pc' = "covered"
    BY <2>1, <2>2, <2>3, <2>4, PhaseStep
  <2>5. CASE pc' = "seeded"
    BY <2>1, <2>2, <2>3, <2>5, PhaseStep
  <2>. QED  BY <2>1, <2>4, <2>5
<1>3. CASE StarSeed
  BY <1>3, BudgetType, PhaseTo DEF StarSeed
<1>4. CASE PackingSeed
  BY <1>4, <1>0, PhaseTo DEF PackingSeed
<1>5. CASE ConstellationSeed
  BY <1>5, <1>0, PhaseTo DEF ConstellationSeed
<1>6. CASE SharedStarSeed
  <2>. DEFINE budget ==
         Most(StarSeedBudget - PackingBudget - spent["constellation"], 0)
  <2>1. spent["constellation"] \in Int
    BY DEF QuotaInv, TypeOK
  <2>2. budget \in Int
    BY <2>1, BudgetType DEF Most
  <2>3. Phase("shared", "star", budget, "seeded")
    BY <1>6 DEF SharedStarSeed
  <2>. QED  BY <2>2, <2>3, PhaseTo
<1>. QED  BY <1>1, <1>2, <1>3, <1>4, <1>5, <1>6 DEF Seeds

\* The repair's budget is within what the seeds left.
LEMMA RepairPlanFits ==
    ASSUME QuotaInv, pc = "seeded", Limited
    PROVE  /\ RepairPlan \in [pre : Nat, post : Nat]
           /\ RepairPlan.pre + RepairPlan.post <= Left
<1>1. Limit \in Nat /\ Left \in Int /\ 0 <= Left
  BY LimitType DEF QuotaInv, Covered, Promised
<1>2. Left = Limit - SeedNodes /\ SeedNodes \in Nat
  BY SumIsUsed, BudgetType
<1>3. RepairMin \in Nat /\ Share(RepairPercent, Limit) \in Int
  BY BudgetType, StageSearchAssumption DEF StageSearchAssumption
<1>4. RepairBudget \in Nat /\ RepairBudget <= Left
  BY <1>1, <1>2, <1>3 DEF RepairBudget, Least
<1>. DEFINE half == RepairBudget \div 2
<1>5. half \in Nat /\ half <= RepairBudget
  BY <1>4
<1>. QED  BY <1>4, <1>5 DEF RepairPlan

LEMMA AfterSeedsKeep ==
    ASSUME QuotaInv, AfterSeeds PROVE QuotaInv'
<1>1. CASE CeilingAfterSeeds
  <2>1. /\ pc \in {"seeded", "covered"}
        /\ Return(SeedNodes + RepairNodes + spent["dfs"])
    BY <1>1 DEF CeilingAfterSeeds
  <2>. QED  BY <2>1, SumIsUsed, ReturnStep
<1>2. CASE CanceledAfterSeeds
  <2>1. PICK at \in {"seeded", "covered"} : Fail(at)
    BY <1>2 DEF CanceledAfterSeeds
  <2>2. pc # "over"
    BY <2>1 DEF Fail
  <2>. QED  BY <2>1, <2>2, FailStep
<1>3. CASE CoverageAfterSeeds
  BY <1>3, SumIsUsed, ReturnStep DEF CoverageAfterSeeds
<1>4. CASE PlanRepair
  <2>1. /\ pc = "seeded"
        /\ repair' = IF setting.repairs /\ Limited /\ best > 0 THEN RepairPlan
                     ELSE NoRepair
        /\ pc' = IF repair'.pre > 0 THEN "pre" ELSE "dfs"
        /\ UNCHANGED <<setting, canceled, charged, spent, refused, best, found,
                       stage, carried, report, outcome>>
    BY <1>4 DEF PlanRepair, solve, nodes, returned
  <2>2. /\ Left \in Int /\ (Limited => 0 <= Left)
        /\ Left' = Left /\ Limited' = Limited
    BY <2>1, LimitType
    DEF QuotaInv, Covered, Promised, Left, Limit, Limited
  <2>3. /\ repair' \in [pre : Nat, post : Nat]
        /\ Limited => repair'.pre + repair'.post <= Left
    <3>1. CASE repair' = NoRepair
      BY <2>2, <3>1 DEF NoRepair
    <3>2. CASE Limited /\ repair' = RepairPlan
      BY <2>1, <3>2, RepairPlanFits
    <3>. QED  BY <2>1, <3>1, <3>2
  <2>4. TypeOK'
    BY <2>1, <2>3 DEF QuotaInv, TypeOK, Points
  <2>5. Accounted' /\ LaterPhasesNeverRefused' /\ ReportIsCharge'
    BY <2>1 DEF QuotaInv, Accounted, Used, SeedNodes, RepairNodes,
       LaterPhasesNeverRefused, ReportIsCharge
  <2>6. Unspent'
    BY <2>1 DEF QuotaInv, Unspent, NotYet, LaterPhases
  <2>7. Fresh'
    BY <2>1 DEF QuotaInv, Fresh
  <2>8. Covered'
    <3>1. repair'.pre \in Nat /\ repair'.post \in Nat
      BY <2>3
    <3>2. Promised(pc)' = IF repair'.pre > 0 THEN repair'.pre + repair'.post
                          ELSE repair'.post
      BY <2>1 DEF Promised
    <3>. QED  BY <2>2, <2>3, <3>1, <3>2 DEF Covered
  <2>. QED  BY <2>4, <2>5, <2>6, <2>7, <2>8 DEF QuotaInv
<1>. QED  BY <1>1, <1>2, <1>3, <1>4 DEF AfterSeeds

\* The repair's halves and what the ledger has left, as numbers.
LEMMA QuotaNumbers ==
    ASSUME QuotaInv
    PROVE  /\ repair.pre \in Nat /\ repair.post \in Nat
           /\ Left \in Int /\ Limit \in Nat /\ best \in 0..TopScore
           /\ Limited => Promised(pc) <= Left
BY LimitType DEF QuotaInv, TypeOK, Covered

LEMMA RepairKeeps ==
    ASSUME QuotaInv, Repair PROVE QuotaInv'
<1>. USE DEF Points, Phases, LaterPhases, NotYet, Promised
<1>1. CASE PreRepair
  <2>1. Phase("pre", "pre", repair.pre, "repaired") /\ pc = "pre"
    BY <1>1 DEF PreRepair, Phase
  <2>2. Limited => Promised("repaired") + repair.pre <= Left
    BY <2>1, QuotaNumbers
  <2>3. repair.pre \in Int
    BY QuotaNumbers
  <2>. QED  BY <2>1, <2>2, <2>3, PhaseTo
<1>2. CASE CanceledAfterRepair
  <2>1. Fail("repaired") /\ pc # "over"
    BY <1>2 DEF CanceledAfterRepair, Fail
  <2>. QED  BY <2>1, FailStep
<1>3. CASE CoverageAfterRepair
  BY <1>3, SumIsUsed, ReturnStep DEF CoverageAfterRepair
<1>4. CASE GoOnToSearch
  <2>1. Skip("repaired", "dfs")
    BY <1>4 DEF GoOnToSearch
  <2>2. Promised("dfs") <= Promised("repaired")
    BY QuotaNumbers
  <2>. QED  BY <2>1, <2>2, SkipTo
<1>. QED  BY <1>1, <1>2, <1>3, <1>4 DEF Repair

\* The search never gets what is reserved, nor an unlimited budget.
LEMMA SearchFits ==
    ASSUME QuotaInv, pc = "dfs", SearchAllowed
    PROVE  /\ SearchBudget \in Int
           /\ Limited => repair.post + SearchBudget <= Left
<1>1. UnlimitedNodes \in Nat
  BY StageSearchAssumption DEF StageSearchAssumption
<1>2. Left = Limit - (SeedNodes + RepairNodes)
  BY SumIsUsed
<1>3. SeedNodes \in Nat /\ RepairNodes \in Nat
  BY BudgetType
<1>4. SearchLimit \in Int
  BY <1>3, QuotaNumbers DEF SearchLimit, Most
<1>5. CASE Limited
  <2>1. SearchLimit > 0 /\ SearchBudget = SearchLimit
    BY <1>4, <1>5 DEF SearchAllowed, SearchBudget
  <2>2. SearchLimit = Limit - (SeedNodes + RepairNodes + repair.post)
    BY <1>3, <1>5, <2>1, QuotaNumbers DEF SearchLimit, Most
  <2>. QED  BY <1>2, <1>3, <1>4, <2>1, <2>2, QuotaNumbers
<1>6. CASE ~Limited
  BY <1>1, <1>4, <1>6 DEF SearchBudget
<1>. QED  BY <1>5, <1>6

LEMMA SearchKeeps ==
    ASSUME QuotaInv, SearchPhase PROVE QuotaInv'
<1>. USE DEF Points, Phases, LaterPhases, NotYet, Promised
<1>1. CASE Search
  <2>1. /\ SearchAllowed /\ pc = "dfs"
        /\ Phase("dfs", "dfs", SearchBudget, "explored")
    BY <1>1 DEF Search, Phase
  <2>2. /\ SearchBudget \in Int
        /\ Limited => Promised("explored") + SearchBudget <= Left
    BY <2>1, SearchFits
  <2>. QED  BY <2>1, <2>2, PhaseTo
<1>2. CASE SkipSearch
  <2>1. Skip("dfs", "searched")
    BY <1>2 DEF SkipSearch
  <2>2. Promised("searched") <= Promised("dfs")
    BY QuotaNumbers
  <2>. QED  BY <2>1, <2>2, SkipTo
<1>3. CASE CanceledAfterSearch
  <2>1. Fail("explored") /\ pc # "over"
    BY <1>3 DEF CanceledAfterSearch, Fail
  <2>. QED  BY <2>1, FailStep
<1>4. CASE KeepSearch
  <2>1. Skip("explored", "searched")
    BY <1>4 DEF KeepSearch
  <2>2. Promised("searched") <= Promised("explored")
    BY QuotaNumbers
  <2>. QED  BY <2>1, <2>2, SkipTo
<1>5. CASE CeilingAfterSearch
  BY <1>5, SumIsUsed, ReturnStep DEF CeilingAfterSearch
<1>. QED  BY <1>1, <1>2, <1>3, <1>4, <1>5 DEF SearchPhase

LEMMA PostKeeps ==
    ASSUME QuotaInv, Post PROVE QuotaInv'
<1>. USE DEF Points, Phases, LaterPhases, NotYet, Promised
<1>1. CASE PostRepair
  <2>1. Phase("searched", "post", repair.post, "rerepaired") /\ pc = "searched"
    BY <1>1 DEF PostRepair, Phase
  <2>2. Limited => Promised("rerepaired") + repair.post <= Left
    BY <2>1, QuotaNumbers
  <2>3. repair.post \in Int
    BY QuotaNumbers
  <2>. QED  BY <2>1, <2>2, <2>3, PhaseTo
<1>2. CASE SkipPostRepair
  <2>1. Skip("searched", "lns")
    BY <1>2 DEF SkipPostRepair
  <2>2. Promised("lns") <= Promised("searched")
    BY QuotaNumbers
  <2>. QED  BY <2>1, <2>2, SkipTo
<1>3. CASE CanceledAfterPost
  <2>1. Fail("rerepaired") /\ pc # "over"
    BY <1>3 DEF CanceledAfterPost, Fail
  <2>. QED  BY <2>1, FailStep
<1>4. CASE KeepPost
  <2>1. Skip("rerepaired", "lns")
    BY <1>4 DEF KeepPost
  <2>. QED  BY <2>1, SkipTo
<1>. QED  BY <1>1, <1>2, <1>3, <1>4 DEF Post

\* The plateau phases take what the phases before them left.
LEMMA PlateauFits ==
    ASSUME QuotaInv
    PROVE  /\ LNSBudget \in Int /\ RefineBudget \in Int
           /\ pc = "lns" => LNSBudget <= Left
           /\ pc = "refine" => RefineBudget <= Left
<1>1. /\ Share(LNSPercent, Limit) \in Int /\ Share(RefinePercent, Limit) \in Int
      /\ SeedNodes \in Nat /\ RepairNodes \in Nat
  BY BudgetType, StageSearchAssumption DEF StageSearchAssumption
<1>2. spent["dfs"] \in Nat /\ spent["lns"] \in Nat
  BY DEF QuotaInv, TypeOK, Phases
<1>3. /\ Left \in Int /\ Limit \in Nat
      /\ pc = "lns" => Left = Limit - (SeedNodes + spent["dfs"] + RepairNodes)
      /\ pc = "refine" =>
            Left = Limit - (SeedNodes + spent["dfs"] + RepairNodes
                            + spent["lns"])
  BY SumIsUsed, QuotaNumbers
<1>. QED  BY <1>1, <1>2, <1>3 DEF LNSBudget, RefineBudget, Least

LEMMA PlateauKeeps ==
    ASSUME QuotaInv, Plateau PROVE QuotaInv'
<1>. USE DEF Points, Phases, LaterPhases, NotYet, Promised
<1>1. CASE PlateauLNS
  <2>1. Phase("lns", "lns", LNSBudget, "refine") /\ pc = "lns"
    BY <1>1 DEF PlateauLNS, Phase
  <2>2. Promised("refine") + LNSBudget <= Left
    BY <2>1, PlateauFits
  <2>. QED  BY <2>1, <2>2, PlateauFits, PhaseTo
<1>2. CASE SkipLNS
  BY <1>2, SkipTo DEF SkipLNS
<1>3. CASE PlateauRefine
  <2>1. Phase("refine", "refine", RefineBudget, "completion") /\ pc = "refine"
    BY <1>3 DEF PlateauRefine, Phase
  <2>2. Promised("completion") + RefineBudget <= Left
    BY <2>1, PlateauFits
  <2>. QED  BY <2>1, <2>2, PlateauFits, PhaseTo
<1>4. CASE SkipRefine
  BY <1>4, SkipTo DEF SkipRefine
<1>. QED  BY <1>1, <1>2, <1>3, <1>4 DEF Plateau

LEMMA PolishKeeps ==
    ASSUME QuotaInv, Polish PROVE QuotaInv'
<1>. USE DEF Points, NotYet, Promised
<1>1. CASE Complete
  <2>1. /\ pc = "completion" /\ pc' = "polish"
        /\ UNCHANGED <<solve, nodes, repair, returned>>
    BY <1>1 DEF Complete
  <2>2. PICK score \in best..(IF setting.skips THEN TopScore ELSE best) :
           Improve(score)
    BY <1>1 DEF Complete
  <2>3. best' \in 0..TopScore /\ found' \in 0..TopScore
    BY <2>2, StageSearchAssumption
    DEF QuotaInv, TypeOK, Improve, Most, StageSearchAssumption
  <2>. QED  BY <2>1, <2>3, SkipStep
<1>2. CASE CanceledBeforeRefine
  <2>1. Fail("polish") /\ pc # "over"
    BY <1>2 DEF CanceledBeforeRefine, Fail
  <2>. QED  BY <2>1, FailStep
<1>3. CASE Refine
  <2>1. /\ pc = "polish" /\ pc' = "finish"
        /\ UNCHANGED <<solve, nodes, repair, returned>>
    BY <1>3 DEF Refine
  <2>2. PICK score \in best..TopScore : Improve(score)
    BY <1>3 DEF Refine
  <2>3. best' \in 0..TopScore /\ found' \in 0..TopScore
    BY <2>2, StageSearchAssumption
    DEF QuotaInv, TypeOK, Improve, Most, StageSearchAssumption
  <2>. QED  BY <2>1, <2>3, SkipStep
<1>4. CASE Finish
  BY <1>4, SumIsUsed, ReturnStep DEF Finish
<1>. QED  BY <1>1, <1>2, <1>3, <1>4 DEF Polish

\* Nothing but the cancellation changes.
LEMMA OthersKeep ==
    ASSUME QuotaInv, Cancel \/ UNCHANGED vars PROVE QuotaInv'
<1>1. /\ UNCHANGED <<setting, pc, charged, spent, refused, repair, best, found,
                     stage, carried, report, outcome>>
      /\ canceled' \in BOOLEAN
  BY DEF Cancel, vars, solve, nodes, returned, QuotaInv, TypeOK
<1>2. TypeOK'
  BY <1>1 DEF QuotaInv, TypeOK
<1>3. /\ Accounted' /\ Unspent' /\ Covered' /\ Fresh'
      /\ LaterPhasesNeverRefused' /\ ReportIsCharge'
  BY <1>1
  DEF QuotaInv, Accounted, Used, SeedNodes, RepairNodes, Unspent, NotYet,
      Covered, Promised, Left, Limit, Limited, Fresh, LaterPhasesNeverRefused,
      ReportIsCharge
<1>. QED  BY <1>2, <1>3 DEF QuotaInv
-----------------------------------------------------------------------------
LEMMA QuotaAlways == Spec => []QuotaInv
<1>1. QuotaInv /\ [Next]_vars => QuotaInv'
  BY SeedsKeep, AfterSeedsKeep, RepairKeeps, SearchKeeps, PostKeeps,
     PlateauKeeps, PolishKeeps, OthersKeep DEF Next
<1>. QED  BY InitQuota, <1>1, PTL DEF Spec

\* The variables of a solve keep their types, for all settings.
THEOREM StageSearchType == Spec => []TypeOK
<1>1. QuotaInv => TypeOK
  BY DEF QuotaInv
<1>. QED  BY QuotaAlways, <1>1, PTL

\* Whatever the limits, the shares of the policy and the settings, no phase
\* after the seeds is ever refused a node: the budgets solveLayoutStage hands
\* out are never promised twice, and the search never becomes unlimited.
THEOREM PhasesKeepTheirBudgets == Spec => []LaterPhasesNeverRefused
<1>1. QuotaInv => LaterPhasesNeverRefused
  BY DEF QuotaInv
<1>. QED  BY QuotaAlways, <1>1, PTL

\* Whichever exit a stage takes, the nodes its statistics add up are the nodes
\* the ledger charged to it.
THEOREM StatisticsAddUp == Spec => []ReportIsCharge
<1>1. QuotaInv => ReportIsCharge
  BY DEF QuotaInv
<1>. QED  BY QuotaAlways, <1>1, PTL
-----------------------------------------------------------------------------
\* While a solve runs, the best layout found is the stage's or the carried one.
IncumbentInv ==
    /\ pc # "over" => found = Most(best, carried)
    /\ pc = "over" <=> outcome # "running"
    /\ BestIsReturned

\* A step that only adds a score to the stage's and to the history.
LEMMA FoundStep ==
    ASSUME TypeOK, IncumbentInv, pc # "over", pc' # "over",
           UNCHANGED <<carried, outcome>>,
           \/ UNCHANGED <<best, found>>
           \/ \E score \in 0..TopScore :
                 /\ best' = Most(best, score) /\ found' = Most(found, score)
    PROVE  IncumbentInv'
<1>1. best \in Int /\ carried \in Int /\ found = Most(best, carried)
  BY StageSearchAssumption
  DEF TypeOK, IncumbentInv, StageSearchAssumption
<1>2. found' = Most(best', carried')
  <2>1. CASE UNCHANGED <<best, found>>
    BY <1>1, <2>1
  <2>2. CASE \E score \in 0..TopScore :
                /\ best' = Most(best, score) /\ found' = Most(found, score)
    <3>1. PICK score \in 0..TopScore :
             best' = Most(best, score) /\ found' = Most(found, score)
      BY <2>2
    <3>2. score \in Int
      BY <3>1, StageSearchAssumption DEF StageSearchAssumption
    <3>. QED  BY <1>1, <3>1, <3>2 DEF Most
  <2>. QED  BY <2>1, <2>2
<1>3. outcome = "running" /\ outcome' = "running"
  BY DEF IncumbentInv
<1>. QED  BY <1>2, <1>3 DEF IncumbentInv, BestIsReturned

LEMMA ExploreFinds ==
    ASSUME TypeOK, IncumbentInv, pc # "over", pc' # "over",
           NEW phase, NEW budget, NEW score \in 0..TopScore,
           Explore(phase, budget, score), UNCHANGED returned
    PROVE  IncumbentInv'
<1>1. best' = Most(best, score) /\ found' = Most(found, score)
  BY DEF Explore, Merge
<1>. QED  BY <1>1, FoundStep DEF returned

LEMMA PhaseFinds ==
    ASSUME TypeOK, IncumbentInv, NEW at, NEW phase, NEW budget, NEW next,
           at # "over", next # "over", Phase(at, phase, budget, next)
    PROVE  IncumbentInv'
BY ExploreFinds DEF Phase

LEMMA SkipFinds ==
    ASSUME TypeOK, IncumbentInv, NEW at, NEW next, at # "over", next # "over",
           Skip(at, next)
    PROVE  IncumbentInv'
BY FoundStep DEF Skip, returned

LEMMA FailFinds ==
    ASSUME IncumbentInv, NEW at, Fail(at)
    PROVE  IncumbentInv'
BY DEF Fail, IncumbentInv, BestIsReturned

LEMMA ReturnFinds ==
    ASSUME TypeOK, IncumbentInv, pc # "over", NEW total, Return(total)
    PROVE  IncumbentInv'
<1>1. /\ best \in Nat /\ carried \in Nat /\ found = Most(best, carried)
      /\ outcome = "running"
  BY StageSearchAssumption
  DEF TypeOK, IncumbentInv, StageSearchAssumption
<1>2. carried' = Most(carried, best) /\ found' = found
  BY DEF Return, Merge
<1>3. carried' = found' /\ carried' \in Nat
  BY <1>1, <1>2 DEF Most
<1>4. CASE stage < Len(setting.limits)
  <2>1. best' = carried' /\ pc' = "seed" /\ outcome' = "running"
    BY <1>1, <1>4 DEF Return
  <2>. QED  BY <1>3, <2>1 DEF IncumbentInv, BestIsReturned, Most
<1>5. CASE ~(stage < Len(setting.limits))
  <2>1. /\ outcome' = IF carried' = 0 THEN "empty" ELSE "solved"
        /\ pc' = "over"
    BY <1>5 DEF Return
  <2>. QED  BY <1>3, <2>1 DEF IncumbentInv, BestIsReturned
<1>. QED  BY <1>4, <1>5

LEMMA ImproveFinds ==
    ASSUME TypeOK, IncumbentInv, pc # "over", pc' # "over",
           NEW score \in best..TopScore, Improve(score), UNCHANGED returned
    PROVE  IncumbentInv'
<1>1. best \in 0..TopScore /\ TopScore \in Nat
  BY StageSearchAssumption DEF TypeOK, StageSearchAssumption
<1>2. score \in 0..TopScore /\ score = Most(best, score)
  BY <1>1 DEF Most
<1>3. best' = Most(best, score) /\ found' = Most(found, score)
  BY <1>2 DEF Improve
<1>. QED  BY <1>2, <1>3, FoundStep DEF returned

LEMMA NextFinds ==
    ASSUME TypeOK, IncumbentInv, [Next]_vars PROVE IncumbentInv'
<1>1. CASE Seeds
  <2>1. CASE CoverageSeed
    <3>1. PICK score \in 0..TopScore :
             /\ Explore("coverage", SeedBudget, score)
             /\ pc' = IF CoverageReached(score) THEN "covered" ELSE "seeded"
      BY <2>1 DEF CoverageSeed
    <3>. QED  BY <2>1, <3>1, ExploreFinds DEF CoverageSeed
  <2>2. CASE NoSeed
    BY <2>2, SkipFinds DEF NoSeed
  <2>3. CASE StarSeed \/ PackingSeed \/ ConstellationSeed \/ SharedStarSeed
    BY <2>3, PhaseFinds
    DEF StarSeed, PackingSeed, ConstellationSeed, SharedStarSeed
  <2>. QED  BY <1>1, <2>1, <2>2, <2>3 DEF Seeds
<1>2. CASE AfterSeeds
  <2>1. CASE CeilingAfterSeeds \/ CoverageAfterSeeds
    BY <2>1, ReturnFinds DEF CeilingAfterSeeds, CoverageAfterSeeds
  <2>2. CASE CanceledAfterSeeds
    BY <2>2, FailFinds DEF CanceledAfterSeeds
  <2>3. CASE PlanRepair
    BY <2>3, FoundStep DEF PlanRepair, returned
  <2>. QED  BY <1>2, <2>1, <2>2, <2>3 DEF AfterSeeds
<1>3. CASE Repair
  <2>1. CASE PreRepair
    BY <2>1, PhaseFinds DEF PreRepair
  <2>2. CASE CanceledAfterRepair
    BY <2>2, FailFinds DEF CanceledAfterRepair
  <2>3. CASE CoverageAfterRepair
    BY <2>3, ReturnFinds DEF CoverageAfterRepair
  <2>4. CASE GoOnToSearch
    BY <2>4, SkipFinds DEF GoOnToSearch
  <2>. QED  BY <1>3, <2>1, <2>2, <2>3, <2>4 DEF Repair
<1>4. CASE SearchPhase
  <2>1. CASE Search
    BY <2>1, PhaseFinds DEF Search
  <2>2. CASE SkipSearch \/ KeepSearch
    BY <2>2, SkipFinds DEF SkipSearch, KeepSearch
  <2>3. CASE CanceledAfterSearch
    BY <2>3, FailFinds DEF CanceledAfterSearch
  <2>4. CASE CeilingAfterSearch
    BY <2>4, ReturnFinds DEF CeilingAfterSearch
  <2>. QED  BY <1>4, <2>1, <2>2, <2>3, <2>4 DEF SearchPhase
<1>5. CASE Post
  <2>1. CASE PostRepair
    BY <2>1, PhaseFinds DEF PostRepair
  <2>2. CASE SkipPostRepair \/ KeepPost
    BY <2>2, SkipFinds DEF SkipPostRepair, KeepPost
  <2>3. CASE CanceledAfterPost
    BY <2>3, FailFinds DEF CanceledAfterPost
  <2>. QED  BY <1>5, <2>1, <2>2, <2>3 DEF Post
<1>6. CASE Plateau
  <2>1. CASE PlateauLNS \/ PlateauRefine
    BY <2>1, PhaseFinds DEF PlateauLNS, PlateauRefine
  <2>2. CASE SkipLNS \/ SkipRefine
    BY <2>2, SkipFinds DEF SkipLNS, SkipRefine
  <2>. QED  BY <1>6, <2>1, <2>2 DEF Plateau
<1>7. CASE Polish
  <2>1. CASE Complete
    <3>1. PICK score \in best..(IF setting.skips THEN TopScore ELSE best) :
             Improve(score)
      BY <2>1 DEF Complete
    <3>2. score \in best..TopScore
      BY <3>1, StageSearchAssumption DEF TypeOK, StageSearchAssumption
    <3>. QED  BY <2>1, <3>1, <3>2, ImproveFinds DEF Complete
  <2>2. CASE CanceledBeforeRefine
    BY <2>2, FailFinds DEF CanceledBeforeRefine
  <2>3. CASE Refine
    BY <2>3, ImproveFinds DEF Refine
  <2>4. CASE Finish
    BY <2>4, ReturnFinds DEF Finish
  <2>. QED  BY <1>7, <2>1, <2>2, <2>3, <2>4 DEF Polish
<1>8. CASE Cancel \/ UNCHANGED vars
  BY <1>8 DEF Cancel, vars, returned, IncumbentInv, BestIsReturned, Most
<1>. QED  BY <1>1, <1>2, <1>3, <1>4, <1>5, <1>6, <1>7, <1>8 DEF Next

\* Whatever the phase and stage that found it, the best layout a solve found
\* is the one it returns, for any number of stages and any ceilings.
THEOREM BestComesBack == Spec => []BestIsReturned
<1>1. Init => IncumbentInv
  BY DEF Init, IncumbentInv, BestIsReturned, Most
<1>2. TypeOK /\ IncumbentInv /\ [Next]_vars => IncumbentInv'
  BY NextFinds
<1>3. IncumbentInv => BestIsReturned
  BY DEF IncumbentInv
<1>. QED  BY <1>1, <1>2, <1>3, StageSearchType, PTL DEF Spec
=============================================================================
