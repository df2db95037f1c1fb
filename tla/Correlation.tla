---------------------------- MODULE Correlation ----------------------------
(***************************************************************************)
(* The behaviour that is put beside a process or a launch item when it is  *)
(* judged: what its PIDs were seen doing since the previous cycle started. *)
(* PIDs come and go with their processes, the rows that name them stay.    *)
(*                                                                         *)
(* A program stands for the artifact that a process of it is (its name,    *)
(* path, arguments and user), and for the launch item that starts it.  Run *)
(* r starts at 2r and stamps its rows with that; what is streamed while r  *)
(* is the newest run is collected at 2r + 1.                               *)
(***************************************************************************)
EXTENDS Naturals, FiniteSets

CONSTANTS
    Pids, Programs,
    NameOf,         \* the process name of each program
    None,           \* no program
    MaxRelated,     \* MAX_RELATED and per_pid_cap, which are equal
    MaxRelatedDns,  \* MAX_RELATED_DNS and its per-name cap, which are equal
    MaxRuns, MaxSpawns, MaxFaults, MaxResets    \* bounds

\* A host has so many PIDs.
ASSUME ConstantsAssumption ==
    /\ None \notin Programs /\ IsFiniteSet(Pids)
    /\ {MaxRelated, MaxRelatedDns, MaxRuns, MaxSpawns, MaxFaults, MaxResets} \subseteq Nat

VARIABLES
    holder,         \* the program that runs under each PID
    runs,           \* CollectionRun rows, by number
    processes,      \* ProcessRow rows
    behavior,       \* the behaviour rows: "exec", "dns", and "socket" for the
                    \* ports, the flows and the connections, which are alike
    clock,          \* runs started so far; the newest is the one in progress
    pc,
    batch,          \* the collector whose entries are judged, and the entries
    related,        \* the context correlated with each entry
    budget,
    changed,        \* when each PID last went to another program
    last,           \* the program that held each PID last
    complete        \* no read of this correlation failed

database == <<runs, processes, behavior>>
cycle == <<clock, pc, batch, related, complete>>
host == <<holder, changed, last>>
vars == <<holder, runs, processes, behavior, clock, pc, batch, related,
          budget, changed, last, complete>>

StartedAt(r) == 2 * r
Now == StartedAt(clock) + 1
Nobody == [collector |-> "none", entries |-> {}]
Nothing == [a \in Programs |-> {}]

Init ==
    /\ holder = [p \in Pids |-> None] /\ last = holder
    /\ changed = [p \in Pids |-> 0]
    /\ runs = {} /\ processes = {} /\ behavior = {}
    /\ clock = 0 /\ pc = "idle" /\ batch = Nobody
    /\ related = Nothing /\ complete = TRUE
    /\ budget = [spawns |-> 0, faults |-> 0, resets |-> 0]

-----------------------------------------------------------------------------
(***************************************************************************)
(* The host.                                                               *)
(***************************************************************************)

\* A process starts under a free PID.  The exec stream records it, unless its
\* worker is down.
Spawn(p, a) ==
    /\ holder[p] = None
    /\ budget.spawns < MaxSpawns
    /\ budget' = [budget EXCEPT !.spawns = @ + 1]
    /\ holder' = [holder EXCEPT ![p] = a]
    /\ last' = [last EXCEPT ![p] = a]
    /\ changed' = [changed EXCEPT ![p] = IF last[p] \in {None, a} THEN @ ELSE Now]
    /\ \/ UNCHANGED behavior
       \/ behavior' = behavior \cup
            {[kind |-> "exec", at |-> Now, key |-> p, by |-> a, event |-> budget'.spawns]}
    /\ UNCHANGED <<runs, processes, cycle>>

Exit(p) ==
    /\ holder[p] # None
    /\ holder' = [holder EXCEPT ![p] = None]
    /\ UNCHANGED <<database, cycle, budget, changed, last>>

-----------------------------------------------------------------------------
(***************************************************************************)
(* The cycle, as far as it matters here.                                   *)
(***************************************************************************)

StartRun ==
    /\ pc = "idle" /\ clock < MaxRuns
    /\ clock' = clock + 1
    /\ runs' = runs \cup {clock'}
    /\ pc' = "processes"
    /\ UNCHANGED <<host, processes, behavior, batch, related, budget, complete>>

\* ProcessCollector is the first of all.  Any of the programs may still be
\* without a verdict.
CollectProcesses ==
    /\ pc = "processes"
    /\ processes' = processes \cup
         {[at |-> StartedAt(clock), pid |-> p, exe |-> holder[p]] :
            p \in {p \in Pids : holder[p] # None}}
    /\ batch' = [collector |-> "processes",
                 entries |-> {holder[p] : p \in Pids} \ {None}]
    /\ pc' = "correlate"
    /\ UNCHANGED <<host, runs, behavior, clock, related, budget, complete>>

\* Sockets and flows are keyed by PID, questions by the name of the process.
KeyOf(kind, p) == IF kind = "dns" THEN NameOf[holder[p]] ELSE p

\* The sockets and the questions of the processes that have any.  Each collector
\* is driven for itself; nothing reads a row before the last of them is done.
CollectBehavior ==
    /\ pc = "behavior"
    /\ \E active \in SUBSET {p \in Pids : holder[p] # None} :
         behavior' = behavior \cup
           {[kind |-> kind, at |-> StartedAt(clock), key |-> KeyOf(kind, p),
             by |-> holder[p], event |-> 0] : p \in active, kind \in {"socket", "dns"}}
    /\ pc' = "launch_items"
    /\ UNCHANGED <<host, runs, processes, clock, batch, related, budget, complete>>

\* A launch item is there whether its program runs or not.
CollectLaunchItems ==
    /\ pc = "launch_items"
    /\ batch' = [collector |-> "launch_items", entries |-> Programs]
    /\ pc' = "correlate"
    /\ UNCHANGED <<host, database, clock, related, budget, complete>>

AfterCollector ==
    IF pc = "processes" \/ batch.collector = "processes" THEN "behavior"
    ELSE IF pc = "behavior" THEN "launch_items" ELSE "idle"

\* The rest of the pipeline.
Judge ==
    /\ pc = "judge"
    /\ pc' = AfterCollector
    /\ batch' = Nobody /\ related' = Nothing /\ complete' = TRUE
    /\ UNCHANGED <<host, database, clock, budget>>

\* A collector fails, before its rows are written or after, and the next one is
\* driven; or the monitor ends, and its run stays in the table like any other.
CycleFails ==
    /\ pc # "idle"
    /\ budget.faults < MaxFaults
    /\ budget' = [budget EXCEPT !.faults = @ + 1]
    /\ pc' \in {AfterCollector, "idle"}
    /\ batch' = Nobody /\ related' = Nothing /\ complete' = TRUE
    /\ UNCHANGED <<host, database, clock>>

\* reset_baseline drops the runs and leaves their rows.
ResetBaseline ==
    /\ pc = "idle" /\ runs # {}
    /\ budget.resets < MaxResets
    /\ budget' = [budget EXCEPT !.resets = @ + 1]
    /\ runs' = {}
    /\ UNCHANGED <<host, processes, behavior, cycle>>

-----------------------------------------------------------------------------
(***************************************************************************)
(* CorrelationStage.                                                       *)
(***************************************************************************)

\* Slip: the run itself is its own predecessor.
PriorRunsAndThis == runs

\* Those prior_run_started_at takes the newest of: finished or not.
PriorRuns == {r \in runs : r < clock}

\* With no previous run there is no bound.
Since == IF PriorRuns = {} THEN 0
         ELSE StartedAt(CHOOSE r \in PriorRuns : \A q \in PriorRuns : q <= r)

\* CorrelationWindow.bounded
Within(table) == {row \in table : row.at >= Since}

\* ProcessBehavior._from_processes: the rows of this run.
PidsOfProcess(a) ==
    {row.pid : row \in {row \in processes : row.at = StartedAt(clock) /\ row.exe = a}}

\* Slip: the bound is left at its default.
PidsByExecutableEver(a) == {row.pid : row \in {row \in processes : row.exe = a}}

\* pids_by_executable: the PIDs that were seen running the program.
PidsByExecutable(a) == {row.pid : row \in {row \in Within(processes) : row.exe = a}}

\* The keys under which the behaviour of an entry is looked up.
Links(a, running) ==
    [pids |-> IF batch.collector = "processes" THEN PidsOfProcess(a)
              ELSE IF running THEN PidsByExecutable(a) ELSE {},
     names |-> {NameOf[a]}]

\* BehaviorQueries
ByPid(kind, links) ==
    {row \in Within(behavior) : row.kind = kind /\ row.key \in links.pids}

ByName(links) ==
    {row \in Within(behavior) : row.kind = "dns" /\ row.key \in links.names}

\* A cap keeps any that many of what was found: most tables are read in no
\* particular order, and the PIDs of an entry come in none.
Capped(found, cap) ==
    LET most == IF Cardinality(found) < cap THEN Cardinality(found) ELSE cap
    IN  {kept \in SUBSET found : Cardinality(kept) = most}

\* _lineage: the newest exec of one of the PIDs that have one.
Lineage(execs) ==
    LET newest(p) == {row \in execs : /\ row.key = p
                                      /\ \A o \in execs : o.key = p => o.event <= row.event}
    IN  IF execs = {} THEN {{}} ELSE {newest(row.key) : row \in execs}

\* BehaviorSummary.related
Contexts(a, running) ==
    LET links == Links(a, running)
    IN  {sockets \cup questions \cup exec :
            sockets \in Capped(ByPid("socket", links), MaxRelated),
            questions \in Capped(ByName(links), MaxRelatedDns),
            exec \in Lineage(ByPid("exec", links))}

\* One context for each entry of the batch.
Correlated(running) ==
    LET contexts(a) == IF a \in batch.entries THEN Contexts(a, running) ELSE {{}}
        options == UNION {{<<a, context>> : context \in contexts(a)} : a \in Programs}
    IN  {context \in [Programs -> {option[2] : option \in options}] :
            \A a \in Programs : <<a, context[a]>> \in options}

\* Every read succeeds.
Correlate ==
    /\ pc = "correlate"
    /\ related' \in Correlated(TRUE)
    /\ pc' = "judge"
    /\ UNCHANGED <<host, database, clock, batch, budget, complete>>

\* The previous run or the behaviour cannot be read: the entries are judged
\* without.  Only the running programs cannot: their names still count.
CorrelateBlindly ==
    /\ pc = "correlate"
    /\ budget.faults < MaxFaults
    /\ budget' = [budget EXCEPT !.faults = @ + 1]
    /\ \/ related' = Nothing
       \/ batch.collector = "launch_items" /\ related' \in Correlated(FALSE)
    /\ complete' = FALSE
    /\ pc' = "judge"
    /\ UNCHANGED <<host, database, clock, batch>>

Next ==
    \/ \E p \in Pids, a \in Programs : Spawn(p, a)
    \/ \E p \in Pids : Exit(p)
    \/ StartRun \/ CollectProcesses \/ CollectBehavior \/ CollectLaunchItems
    \/ Correlate \/ CorrelateBlindly \/ Judge \/ CycleFails \/ ResetBaseline

Spec == Init /\ [][Next]_vars

-----------------------------------------------------------------------------
(***************************************************************************)
(* Properties.                                                             *)
(***************************************************************************)

\* When the previous run started, whatever the table still says of it.
Previously == StartedAt(clock - 1)

\* What another program did is put beside an entry only if the PID went from
\* one to the other since the previous run started, or if no run is left from
\* before this one: older owners of a reused PID do not count, not even for a
\* launch item, whose PIDs are looked up in older rows.
OwnOrHandedOver ==
    \A a \in Programs : \A row \in related[a] :
        row.kind # "dns" /\ row.by # a =>
            changed[row.key] >= Previously \/ PriorRuns = {}

\* What a program was seen doing since the previous run started, under a PID
\* it was seen to have, is put beside it: in the first cycle it is judged in,
\* before this run's sockets are read, and after a run that failed half way.
\* It is missing only if as much of the kind is there, or a read failed.
LastCycleIsThere ==
    pc = "judge" /\ complete =>
        \A a \in batch.entries : \A row \in behavior :
            /\ row.kind \notin {"dns", "exec"} /\ row.by = a /\ row.at >= Previously
            /\ \E seen \in processes :
                 /\ seen.exe = a /\ seen.pid = row.key
                 /\ seen.at = StartedAt(clock) \/ (seen.at >= Previously
                                                   /\ batch.collector = "launch_items")
            => \/ row \in related[a]
               \/ Cardinality({other \in related[a] : other.kind = row.kind}) >= MaxRelated

\* What the judge is told an artifact does is its own and recent, and nothing of
\* the last cycle is left out of it.
ContextIsOwnAndWhole == OwnOrHandedOver /\ LastCycleIsThere
=============================================================================
