-------------------------- MODULE ReportingProofs --------------------------
(***************************************************************************)
(* That the reports of a cycle tell about that cycle and the stored scores *)
(* continue each other: for any findings, postures and rules, and any      *)
(* number of cycles, failures, commands and restarts.                      *)
(***************************************************************************)
EXTENDS Reporting, FiniteSetTheorems, SequenceTheorems, TLAPS

-----------------------------------------------------------------------------
(***************************************************************************)
(* The inductive invariant, in named parts.                                *)
(***************************************************************************)

Steps == {"idle", "narrative", "risk", "status", "coverage", "ended"}
IsSequence(rows) == Len(rows) \in Nat /\ rows = [i \in 1..Len(rows) |-> rows[i]]

TypeOK ==
    /\ pc \in Steps
    /\ disk \in Rulesets /\ compiled \in Rulesets \cup {None}
    /\ status \in {None} \cup {Summary(rules) : rules \in Rulesets}
    /\ IsSequence(narratives) /\ IsSequence(risks) /\ IsSequence(coverages)

RiskIsCurrent == "risk" \notin failed => Newest(risks).run = cycle

\* A report is current from its step to the end of the cycle.
CurrentInv ==
    /\ pc \in {"risk", "status", "coverage", "ended"} => NarrativeIsCurrent
    /\ pc \in {"status", "coverage", "ended"} => RiskIsCurrent
    /\ pc \in {"coverage", "ended"} => StatusIsOfThisProcess
    /\ pc = "ended" => CoverageIsOfTheStatus

\* Every score is told against the one stored before it.
Chained(rows) ==
    \A i \in 1..Len(rows) - 1 :
        /\ rows[i + 1].prev = rows[i].score
        /\ rows[i + 1].explanation.said = "no change" => rows[i + 1].drivers = rows[i].drivers

IInv == TypeOK /\ CurrentInv /\ Chained(risks)

-----------------------------------------------------------------------------
(***************************************************************************)
(* Lemmas on the operators of the model.                                   *)
(***************************************************************************)

\* A row that is stored is the newest, and the others stay where they are.
LEMMA Appended ==
    ASSUME NEW rows, IsSequence(rows), NEW row
    PROVE  /\ IsSequence(Append(rows, row)) /\ Append(rows, row) # <<>>
           /\ Newest(Append(rows, row)) = row
           /\ Len(Append(rows, row)) = Len(rows) + 1
           /\ \A i \in 1..Len(rows) : Append(rows, row)[i] = rows[i]
           /\ Append(rows, row)[Len(rows) + 1] = row
<1> DEFINE S == {rows[i] : i \in 1..Len(rows)} \cup {row}
           more == Append(rows, row)
<1>1. \A i \in 1..Len(rows) : rows[i] \in S
  OBVIOUS
<1>2. row \in S
  OBVIOUS
<1> HIDE DEF S
<1>3. rows \in Seq(S)
  BY <1>1, SeqDef DEF IsSequence
<1>4. /\ more \in Seq(S) /\ Len(more) = Len(rows) + 1
      /\ \A i \in 1..Len(rows) : more[i] = rows[i]
      /\ more[Len(rows) + 1] = row
  BY <1>2, <1>3, AppendProperties
<1>5. more = [i \in 1..Len(more) |-> more[i]] /\ Len(more) \in Nat /\ Len(rows) \in Nat
  BY <1>3, <1>4, LenProperties
<1>6. more # <<>>
  BY <1>4, <1>5
<1> HIDE DEF more
<1>7. Newest(more) = row
  BY <1>4, <1>6 DEF Newest, Last
<1> QED
  BY <1>4, <1>5, <1>6, <1>7 DEF IsSequence, more

\* The row that is scored next goes on from the newest.
LEMMA ChainedNext ==
    ASSUME IsSequence(risks), Chained(risks)
    PROVE  Chained(Append(risks, RiskRow(risks)))
<1> DEFINE row == RiskRow(risks)
           more == Append(risks, row)
<1>1. risks # <<>> =>
        /\ row.prev = Newest(risks).score
        /\ row.explanation.said = "no change" => row.drivers = Newest(risks).drivers
  BY DEF RiskRow, Explanation
<1> HIDE DEF row
<1>2. /\ Len(more) = Len(risks) + 1 /\ Len(risks) \in Nat
      /\ \A i \in 1..Len(risks) : more[i] = risks[i]
      /\ more[Len(risks) + 1] = row
  BY Appended DEF IsSequence
<1> HIDE DEF more
<1>3. ASSUME NEW i \in 1..Len(more) - 1
      PROVE  /\ more[i + 1].prev = more[i].score
             /\ more[i + 1].explanation.said = "no change" => more[i + 1].drivers = more[i].drivers
  <2>1. CASE i = Len(risks)
    <3>1. risks # <<>> /\ Newest(risks) = risks[i] /\ more[i] = risks[i]
      BY <1>2, <1>3, <2>1 DEF Newest, Last
    <3> QED
      BY <1>1, <1>2, <2>1, <3>1
  <2>2. CASE i # Len(risks)
    <3>1. i \in 1..Len(risks) - 1 /\ i \in 1..Len(risks) /\ i + 1 \in 1..Len(risks)
      BY <1>2, <1>3, <2>2
    <3>2. more[i] = risks[i] /\ more[i + 1] = risks[i + 1]
      BY <1>2, <3>1
    <3> QED
      BY <3>1, <3>2 DEF Chained
  <2> QED
    BY <2>1, <2>2
<1>4. Chained(more)
  BY <1>3 DEF Chained
<1> QED
  BY <1>4 DEF more, row

-----------------------------------------------------------------------------
(***************************************************************************)
(* The steps.                                                              *)
(***************************************************************************)

\* A step that meets no failure leaves its mark off.
LEMMA Breaks ==
    ASSUME NEW step, NEW broken, Breaking(step, broken)
    PROVE  /\ failed \subseteq failed' /\ failed' \subseteq failed \cup {step}
           /\ broken # {} => step \in failed'
  BY DEF Breaking

\* What was told of the cycle stays told while the later steps are taken.
LEMMA StaysCurrent ==
    ASSUME UNCHANGED seen, failed \subseteq failed'
    PROVE  /\ NarrativeIsCurrent /\ UNCHANGED narratives => NarrativeIsCurrent'
           /\ RiskIsCurrent /\ UNCHANGED <<risks, cycle>> => RiskIsCurrent'
           /\ StatusIsOfThisProcess /\ UNCHANGED <<compiled, status, inventory>> => StatusIsOfThisProcess'
  BY DEF NarrativeIsCurrent, RiskIsCurrent, StatusIsOfThisProcess, Active, Newest

\* The narrative is of what is active, when nothing failed.
LEMMA NarrateNext == IInv /\ Narrate => IInv'
<1> SUFFICES ASSUME IInv, Narrate PROVE IInv'
  OBVIOUS
<1>1. PICK broken \in SUBSET {"findings", "latest", "llm", "write"} :
        /\ Breaking("narrative", broken)
        /\ LET changed == "latest" \in broken \/ ~Told(narratives, Active)
               written == /\ "findings" \notin broken /\ Active # {}
                          /\ changed /\ broken \cap {"llm", "write"} = {}
           IN narratives' = IF written THEN Append(narratives, Active) ELSE narratives
  BY DEF Narrate
<1>2. pc' = "risk" /\ UNCHANGED <<cycle, seen, disk, compiled, status, risks, coverages>>
  BY DEF Narrate, inputs
<1>3. IsSequence(narratives')
  BY <1>1, Appended DEF IInv, TypeOK
<1>4. NarrativeIsCurrent'
  <2> SUFFICES ASSUME "narrative" \notin failed', Active # {} PROVE Newest(narratives') = Active
    BY <1>2 DEF NarrativeIsCurrent, Active
  <2>1. broken = {}
    BY <1>1, Breaks
  <2>2. CASE Told(narratives, Active)
    BY <1>1, <2>1, <2>2 DEF Told
  <2>3. CASE ~Told(narratives, Active)
    <3>1. narratives' = Append(narratives, Active)
      BY <1>1, <2>1, <2>3
    <3> QED
      BY <3>1, Appended DEF IInv, TypeOK
  <2> QED
    BY <2>2, <2>3
<1> QED
  BY <1>2, <1>3, <1>4 DEF IInv, TypeOK, CurrentInv, Steps

\* The score is of this run, and follows the last one.
LEMMA ScoreNext == IInv /\ ScoreRisk => IInv'
<1> SUFFICES ASSUME IInv, ScoreRisk PROVE IInv'
  OBVIOUS
<1>1. PICK broken \in SUBSET {"inputs", "write"} :
        /\ Breaking("risk", broken)
        /\ risks' = IF broken = {} THEN Append(risks, RiskRow(risks)) ELSE risks
  BY DEF ScoreRisk
<1>2. /\ pc = "risk" /\ pc' = "status"
      /\ UNCHANGED <<cycle, seen, disk, compiled, status, inventory, narratives, coverages>>
  BY DEF ScoreRisk, inputs
<1>3. IsSequence(risks') /\ Chained(risks')
  BY <1>1, Appended, ChainedNext DEF IInv, TypeOK
<1>4. RiskIsCurrent'
  <2>1. RiskRow(risks).run = cycle
    BY DEF RiskRow
  <2>2. broken = {} => Newest(risks').run = cycle
    BY <1>1, <2>1, Appended DEF IInv, TypeOK
  <2> QED
    BY <1>1, <1>2, <2>2, Breaks DEF RiskIsCurrent
<1>5. NarrativeIsCurrent'
  BY <1>1, <1>2, Breaks, StaysCurrent DEF IInv, CurrentInv
<1> QED
  BY <1>2, <1>3, <1>4, <1>5 DEF IInv, TypeOK, CurrentInv, Steps

\* The status is of the rules this process compiled, and the inventory has as
\* many.
LEMMA StatusNext == IInv /\ WriteStatus => IInv'
<1> SUFFICES ASSUME IInv, WriteStatus PROVE IInv'
  OBVIOUS
<1>1. /\ pc = "status" /\ pc' = "coverage"
      /\ UNCHANGED <<cycle, seen, disk, compiled, narratives, risks, coverages>>
  BY DEF WriteStatus, inputs
<1>2. /\ failed \subseteq failed'
      /\ status' \in {None} \cup {Summary(rules) : rules \in Rulesets}
      /\ StatusIsOfThisProcess'
  <2>1. CASE compiled = None /\ UNCHANGED <<status, inventory, failed>>
    BY <1>1, <2>1 DEF StatusIsOfThisProcess, IInv, TypeOK
  <2>2. CASE compiled # None
    <3>1. PICK broken \in {{}, {"status"}, {"rules"}} :
            /\ Breaking("status", broken)
            /\ status' = IF "status" \in broken THEN status ELSE Summary(compiled)
            /\ inventory' = IF broken = {} THEN Replaced(compiled) ELSE inventory
      BY <2>2 DEF WriteStatus
    <3>2. compiled \in Rulesets
      BY <2>2 DEF IInv, TypeOK
    <3>3. status' \in {None} \cup {Summary(rules) : rules \in Rulesets}
      BY <3>1, <3>2 DEF IInv, TypeOK
    <3>4. Cardinality(Replaced(compiled)) = Cardinality(compiled)
      BY DEF Replaced
    <3>5. broken = {} => status' = Summary(compiled) /\ Cardinality(inventory') = Cardinality(compiled)
      BY <3>1, <3>4
    <3>6. failed \subseteq failed' /\ (broken # {} => "status" \in failed')
      BY <3>1, Breaks
    <3> QED
      BY <1>1, <3>3, <3>5, <3>6 DEF StatusIsOfThisProcess
  <2> QED
    BY <2>1, <2>2 DEF WriteStatus
<1>3. NarrativeIsCurrent' /\ RiskIsCurrent'
  BY <1>1, <1>2, StaysCurrent DEF IInv, CurrentInv
<1> QED
  BY <1>1, <1>2, <1>3 DEF IInv, TypeOK, CurrentInv, Steps

\* The assessment is of the status there is.
LEMMA AssessNext == IInv /\ Assess => IInv'
<1> SUFFICES ASSUME IInv, Assess PROVE IInv'
  OBVIOUS
<1>1. PICK broken \in SUBSET {"status", "latest", "profile", "llm", "write"} :
        /\ Breaking("coverage", broken)
        /\ LET loaded == status # None /\ status.rules > 0
               changed == "latest" \in broken \/ ~Told(coverages, status)
               written == loaded /\ changed /\ broken \subseteq {"latest"}
           IN coverages' = IF written THEN Append(coverages, status) ELSE coverages
  BY DEF Assess
<1>2. /\ pc = "coverage" /\ pc' = "ended"
      /\ UNCHANGED <<cycle, seen, disk, compiled, status, inventory, narratives, risks>>
  BY DEF Assess, inputs
<1>3. IsSequence(coverages')
  BY <1>1, Appended DEF IInv, TypeOK
<1>4. CoverageIsOfTheStatus'
  <2> SUFFICES ASSUME "coverage" \notin failed', status # None, status.rules # 0
               PROVE  Newest(coverages') = status
    BY <1>2 DEF CoverageIsOfTheStatus
  <2>1. broken = {}
    BY <1>1, Breaks
  <2>2. status.rules > 0
    <3>1. PICK rules \in Rulesets : status = Summary(rules)
      BY DEF IInv, TypeOK
    <3>2. status.rules = Cardinality(rules)
      BY <3>1 DEF Summary
    <3>3. Cardinality(rules) \in Nat
      BY RulesetsAssumption, FS_CardinalityType
    <3> QED
      BY <3>2, <3>3
  <2>3. CASE Told(coverages, status)
    BY <1>1, <2>1, <2>3 DEF Told
  <2>4. CASE ~Told(coverages, status)
    <3>1. coverages' = Append(coverages, status)
      BY <1>1, <2>1, <2>2, <2>4
    <3> QED
      BY <3>1, Appended DEF IInv, TypeOK
  <2> QED
    BY <2>3, <2>4
<1>5. NarrativeIsCurrent' /\ RiskIsCurrent' /\ StatusIsOfThisProcess'
  BY <1>1, <1>2, Breaks, StaysCurrent DEF IInv, CurrentInv
<1> QED
  BY <1>2, <1>3, <1>4, <1>5 DEF IInv, TypeOK, CurrentInv, Steps

-----------------------------------------------------------------------------
(***************************************************************************)
(* The theorems.                                                           *)
(***************************************************************************)

\* Each step leaves its report current, and the steps after it leave it so.
THEOREM Invariance == Spec => []IInv
<1>0. IsSequence(<<>>) /\ Chained(<<>>)
  BY DEF IsSequence, Chained
<1>1. Init => IInv
  BY <1>0 DEF Init, IInv, TypeOK, CurrentInv, Steps
<1>2. IInv /\ [Next]_vars => IInv'
  <2> SUFFICES ASSUME IInv, [Next]_vars PROVE IInv'
    OBVIOUS
  <2>1. CASE BeginCycle
    <3>1. pc' = "narrative" /\ UNCHANGED <<disk, status, narratives, risks, coverages>>
      BY <2>1 DEF BeginCycle
    <3>2. compiled' \in Rulesets \cup {None}
      BY <2>1 DEF BeginCycle, IInv, TypeOK
    <3> QED
      BY <3>1, <3>2 DEF IInv, TypeOK, CurrentInv, Steps
  <2>2. CASE PreviousRiskFails \/ EndRun
    <3>1. pc' = "idle" /\ UNCHANGED <<disk, compiled, status, narratives, risks, coverages>>
      BY <2>2 DEF PreviousRiskFails, EndRun, Leave
    <3> QED
      BY <3>1 DEF IInv, TypeOK, CurrentInv, Steps
  <2>3. CASE Kill
    <3>1. pc' = "idle" /\ compiled' = None /\ UNCHANGED <<disk, status, narratives, risks, coverages>>
      BY <2>3 DEF Kill, Leave
    <3> QED
      BY <3>1 DEF IInv, TypeOK, CurrentInv, Steps
  <2>4. CASE EditRules
    <3>1. pc = "idle" /\ disk' \in Rulesets
          /\ UNCHANGED <<pc, compiled, status, narratives, risks, coverages>>
      BY <2>4 DEF EditRules
    <3> QED
      BY <3>1 DEF IInv, TypeOK, CurrentInv, Steps
  <2>5. CASE Forget
    <3>1. /\ pc = "idle" /\ narratives' = <<>> /\ risks' \in {risks, <<>>}
          /\ UNCHANGED <<pc, disk, compiled, status, coverages>>
      BY <2>5 DEF Forget, inputs
    <3> QED
      BY <1>0, <3>1 DEF IInv, TypeOK, CurrentInv, Steps
  <2>6. CASE UNCHANGED vars
    BY <2>6 DEF vars, IInv, TypeOK, CurrentInv, NarrativeIsCurrent, RiskIsCurrent,
                StatusIsOfThisProcess, CoverageIsOfTheStatus, Active
  <2> QED
    BY <2>1, <2>2, <2>3, <2>4, <2>5, <2>6, NarrateNext, ScoreNext, StatusNext, AssessNext DEF Next
<1> QED
  BY <1>1, <1>2, PTL DEF Spec

\* At the end of a cycle every report whose step met no failure tells about
\* that cycle, and every score stored goes on from the one before it.
THEOREM ReportsCorrect == Spec => []ReportsAreCurrent
<1>1. IInv => ReportsAreCurrent
  BY DEF IInv, CurrentInv, RiskIsCurrent, Chained, ReportsAreCurrent
<1> QED
  BY <1>1, Invariance, PTL

=============================================================================
