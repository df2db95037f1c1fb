---------------------------- MODULE MCReporting ----------------------------
(***************************************************************************)
(* Rulesets that differ in their rules but not in their summary, and       *)
(* postures on both sides of every threshold.                              *)
(***************************************************************************)
EXTENDS Reporting

CONSTANTS a, b

Rule(id, source, category) == [id |-> id, source |-> source, category |-> category]
One == Rule("one", "bundled", "malware")
Other == Rule("other", "bundled", "malware")
MCRulesets == {{}, {One}, {Other}}

Good == [p \in DOMAIN Protections |-> "on"] @@ [e \in DOMAIN Exposures |-> "off"]
Bad == [Good EXCEPT !.filevault = "off", !.remote_login = "on", !.stealth = "unknown"]
Seen(va, vb, facts, nopasswd, uid0) ==
    [verdicts |-> (a :> va @@ b :> vb), facts |-> facts,
     privileges |-> [nopasswd |-> nopasswd, uid0 |-> uid0]]
MCObservations ==
    {Seen("benign", "benign", Good, 0, 0),
     Seen("malicious", "benign", Bad, 3, 1),
     Seen("benign", "suspicious", None, 0, 2),
     Seen("malicious", "malicious", Bad, 3, 3)}
=============================================================================
