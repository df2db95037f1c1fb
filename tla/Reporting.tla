----------------------------- MODULE Reporting -----------------------------
(***************************************************************************)
(* The reports at the end of a cycle: the incident narrative, the risk     *)
(* score, the rule status and the coverage assessment, in that order.      *)
(* Each step decides from what an earlier cycle, maybe of an earlier       *)
(* process, left in its table whether there is anything to say; any call   *)
(* it makes may fail.  Nobody else writes these tables while a cycle runs. *)
(***************************************************************************)
EXTENDS Integers, Sequences, FiniteSets, SequencesExt

CONSTANTS
    Findings,       \* artifacts that were judged
    Observations,   \* what a run may record: [verdicts, facts, privileges]
    Rulesets,       \* what the rules directory may hold: sets of rules,
                    \* each [id, source, category]
    None,           \* no row, nothing compiled
    MaxCycles,      \* bound: cycles begun
    MaxFaults,      \* bound: calls that fail
    MaxKills        \* bound: processes killed

\* A rules directory holds so many rules.
ASSUME RulesetsAssumption == \A rules \in Rulesets : IsFiniteSet(rules)

VARIABLES
    pc,             \* the step the cycle is at
    cycle,          \* cycles begun
    seen,           \* what this run recorded: the verdict of every finding
                    \* ("benign" stands for unseen as well), the posture row
                    \* or None, the privilege counts; None between runs
    disk,           \* the rules directory
    compiled,       \* the ruleset this process compiled, or None
    status,         \* the single yara_status row, or None
    inventory,      \* the yara_rule table
    narratives, risks, coverages,   \* stored reports, oldest first
    failed,         \* steps of this cycle with a failed call (history)
    faults, kills

vars == <<pc, cycle, seen, disk, compiled, status,
          inventory, narratives, risks, coverages, failed, faults, kills>>
inputs == <<cycle, seen, disk, compiled, kills>>

(***************************************************************************)
(* The score: 100 less what every driver costs.                            *)
(***************************************************************************)
Protections == [filevault |-> 15, firewall |-> 15, gatekeeper |-> 12, stealth |-> 3]
Exposures == [remote_login |-> 10, screen_sharing |-> 8, remote_management |-> 10]

\* An unknown fact costs nothing, on either side.
IfOff(f, p) == IF f[p] = "off" THEN Protections[p] ELSE 0
IfOn(f, e) == IF f[e] = "on" THEN Exposures[e] ELSE 0
Capped(n, each, cap) == IF n * each < cap THEN n * each ELSE cap

Unknown == [p \in DOMAIN Protections \union DOMAIN Exposures |-> "unknown"]

Lost(f, n) ==
    IfOff(f, "filevault") + IfOff(f, "firewall") + IfOff(f, "gatekeeper")
    + IfOff(f, "stealth") + IfOn(f, "remote_login")
    + IfOn(f, "screen_sharing") + IfOn(f, "remote_management")
    + Capped(n.malicious, 20, 40) + Capped(n.suspicious, 8, 24)
    + Capped(n.nopasswd, 10, 20) + Capped(n.uid0, 15, 30)

Score(f, n) == IF Lost(f, n) > 100 THEN 0 ELSE 100 - Lost(f, n)

\* What the explanation names: a count is part of its driver's label.
Drivers(f, n) ==
    {<<p>> : p \in {q \in DOMAIN Protections : f[q] = "off"}}
    \union {<<e>> : e \in {q \in DOMAIN Exposures : f[q] = "on"}}
    \union {<<k, n[k]>> : k \in {q \in DOMAIN n : n[q] > 0}}

Newest(rows) == IF rows = <<>> THEN None ELSE Last(rows)

\* Against the newest of the rows there are.
Explanation(score, drivers, rows) ==
    IF rows = <<>> THEN [said |-> "initial"]
    ELSE IF score = Newest(rows).score /\ drivers = Newest(rows).drivers
    THEN [said |-> "no change"]
    ELSE [said |-> "changed", by |-> score - Newest(rows).score,
          new |-> drivers \ Newest(rows).drivers,
          resolved |-> Newest(rows).drivers \ drivers]

(***************************************************************************)
(* What the steps read.                                                    *)
(***************************************************************************)
\* active_findings: non-benign and seen in this cycle.
Active == {a \in Findings : seen.verdicts[a] \in {"malicious", "suspicious"}}
Number(v) == Cardinality({a \in Findings : seen.verdicts[a] = v})
Counts == [malicious |-> Number("malicious"), suspicious |-> Number("suspicious"),
           nopasswd |-> seen.privileges.nopasswd, uid0 |-> seen.privileges.uid0]
Facts == IF seen.facts = None THEN Unknown ELSE seen.facts

\* Slip: looks for the digest among all the rows.
ToldEver(rows, digest) == digest \in ToSet(rows)

Told(rows, digest) == rows # <<>> /\ Newest(rows) = digest

\* compile_stats: what the status row says of a ruleset.
FilesOf(rules, source) == Cardinality({r \in rules : r.source = source})
Summary(rules) ==
    [rules |-> Cardinality(rules),
     sources |-> [s \in {r.source : r \in rules} |-> FilesOf(rules, s)],
     categories |-> {r.category : r \in rules}]

(***************************************************************************)
(* The steps.  broken is the set of calls that fail in one step.           *)
(***************************************************************************)
Breaking(step, broken) ==
    /\ faults + Cardinality(broken) <= MaxFaults
    /\ faults' = faults + Cardinality(broken)
    /\ failed' = IF broken = {} THEN failed ELSE failed \union {step}

Leave == pc' = "idle" /\ seen' = None /\ failed' = {}

\* The digest is compared with the newest narrative only.  No LLM is an LLM
\* that never answers.
Narrate ==
    /\ pc = "narrative"
    /\ \E broken \in SUBSET {"findings", "latest", "llm", "write"} :
          /\ Breaking("narrative", broken)
          /\ LET changed == "latest" \in broken \/ ~Told(narratives, Active)
                 written == /\ "findings" \notin broken /\ Active # {}
                            /\ changed /\ broken \cap {"llm", "write"} = {}
             IN narratives' = IF written THEN Append(narratives, Active) ELSE narratives
    /\ pc' = "risk"
    /\ UNCHANGED <<inputs, status, inventory, risks, coverages>>

RiskRow(rows) ==
    LET score == Score(Facts, Counts)
        drivers == Drivers(Facts, Counts)
    IN  [run |-> cycle, score |-> score, drivers |-> drivers,
         prev |-> IF rows = <<>> THEN None ELSE Newest(rows).score,
         explanation |-> Explanation(score, drivers, rows)]

\* The previous row is read outside every guard: a failure there ends the
\* cycle, the run is never marked finished and the later steps are skipped.
ScoreRisk ==
    /\ pc = "risk"
    /\ \E broken \in SUBSET {"inputs", "write"} :
          /\ Breaking("risk", broken)
          /\ risks' = IF broken = {} THEN Append(risks, RiskRow(risks)) ELSE risks
    /\ pc' = "status"
    /\ UNCHANGED <<inputs, status, inventory, narratives, coverages>>

PreviousRiskFails ==
    /\ pc = "risk"
    /\ faults < MaxFaults /\ faults' = faults + 1
    /\ Leave
    /\ UNCHANGED <<cycle, disk, compiled, kills, status, inventory, narratives,
                   risks, coverages>>

\* Until the file scan has run in this process there is nothing to write.
\* The inventory goes in a transaction of its own, and is left alone when
\* it has as many rows.
Replaced(rules) ==
    IF Cardinality(inventory) = Cardinality(rules) THEN inventory ELSE rules

WriteStatus ==
    /\ pc = "status"
    /\ \/ /\ compiled = None
          /\ UNCHANGED <<status, inventory, faults, failed>>
       \/ /\ compiled # None
          /\ \E broken \in {{}, {"status"}, {"rules"}} :
                /\ Breaking("status", broken)
                /\ status' = IF "status" \in broken THEN status ELSE Summary(compiled)
                /\ inventory' = IF broken = {} THEN Replaced(compiled) ELSE inventory
    /\ pc' = "coverage"
    /\ UNCHANGED <<inputs, narratives, risks, coverages>>

\* The row's counts, sources and categories are the fingerprint.
Assess ==
    /\ pc = "coverage"
    /\ \E broken \in SUBSET {"status", "latest", "profile", "llm", "write"} :
          /\ Breaking("coverage", broken)
          /\ LET loaded == status # None /\ status.rules > 0
                 changed == "latest" \in broken \/ ~Told(coverages, status)
                 written == loaded /\ changed /\ broken \subseteq {"latest"}
             IN coverages' = IF written THEN Append(coverages, status) ELSE coverages
    /\ pc' = "ended"
    /\ UNCHANGED <<inputs, status, inventory, narratives, risks>>

EndRun ==
    /\ pc = "ended"
    /\ Leave
    /\ UNCHANGED <<cycle, disk, compiled, kills, status, inventory, narratives,
                   risks, coverages, faults>>

(***************************************************************************)
(* Around the reports.                                                     *)
(***************************************************************************)
\* Everything before the reports: what the collectors recorded and judged.
\* The file scan compiles the rules the first time it runs in a process; it
\* may be disabled, and the posture collector may fail.
BeginCycle ==
    /\ pc = "idle" /\ cycle < MaxCycles
    /\ cycle' = cycle + 1
    /\ seen' \in Observations
    /\ \/ compiled' = IF compiled = None THEN disk ELSE compiled
       \/ UNCHANGED compiled
    /\ pc' = "narrative"
    /\ UNCHANGED <<disk, status, inventory, narratives, risks, coverages,
                   failed, faults, kills>>

EditRules ==
    /\ disk' \in Rulesets \ {disk}
    /\ pc = "idle"
    /\ UNCHANGED <<pc, cycle, seen, compiled, status, inventory, narratives,
                   risks, coverages, failed, faults, kills>>

\* The dashboard's renarrate and clear-data commands, run between cycles;
\* clearing keeps the rule tables and the assessments.
Forget ==
    /\ pc = "idle"
    /\ narratives # <<>>
    /\ narratives' = <<>>
    /\ risks' \in {risks, <<>>}
    /\ UNCHANGED <<pc, inputs, status, inventory, coverages, failed, faults>>

Kill ==
    /\ kills < MaxKills
    /\ kills' = kills + 1
    /\ Leave /\ compiled' = None
    /\ UNCHANGED <<cycle, disk, status, inventory, narratives, risks, coverages,
                   faults>>

Init ==
    /\ pc = "idle" /\ cycle = 0 /\ seen = None
    /\ disk \in Rulesets /\ compiled = None
    /\ status = None /\ inventory = {}
    /\ narratives = <<>> /\ risks = <<>> /\ coverages = <<>>
    /\ failed = {} /\ faults = 0 /\ kills = 0

Next ==
    \/ BeginCycle \/ Narrate \/ ScoreRisk \/ PreviousRiskFails
    \/ WriteStatus \/ Assess \/ EndRun
    \/ EditRules \/ Forget \/ Kill

Spec == Init /\ [][Next]_vars

(***************************************************************************)
(* Properties.                                                             *)
(***************************************************************************)
NarrativeIsCurrent ==
    "narrative" \notin failed /\ Active # {} => Newest(narratives) = Active
StatusIsOfThisProcess ==
    "status" \notin failed /\ compiled # None =>
        /\ status = Summary(compiled)
        /\ Cardinality(inventory) = Cardinality(compiled)
CoverageIsOfTheStatus ==
    "coverage" \notin failed =>
        status = None \/ status.rules = 0 \/ Newest(coverages) = status
\* A restart, a cleared table, a failed write and a finding that comes back
\* all leave the reports of a cycle in which their step met no failure
\* telling about that cycle, and every stored score continues the one
\* stored before it.
ReportsAreCurrent ==
    /\ pc = "ended" =>
          /\ NarrativeIsCurrent /\ StatusIsOfThisProcess /\ CoverageIsOfTheStatus
          /\ ("risk" \notin failed => Newest(risks).run = cycle)
    /\ \A i \in 1..Len(risks) - 1 :
          /\ risks[i + 1].prev = risks[i].score
          /\ risks[i + 1].explanation.said = "no change"
                => risks[i + 1].drivers = risks[i].drivers

=============================================================================
