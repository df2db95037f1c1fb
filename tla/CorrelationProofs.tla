------------------------- MODULE CorrelationProofs -------------------------
(***************************************************************************)
(* That the context put beside an entry is its own and whole, for any      *)
(* PIDs, programs and caps, and any number of runs, processes, failures    *)
(* and resets.                                                             *)
(***************************************************************************)
EXTENDS Correlation, Integers, FiniteSetTheorems, NaturalsInduction,
        WellFoundedInduction, TLAPS

-----------------------------------------------------------------------------
(***************************************************************************)
(* The inductive invariant, in named parts.                                *)
(***************************************************************************)

Stages == {"idle", "processes", "behavior", "launch_items", "correlate", "judge"}
ProcessType == [at : Nat, pid : Pids, exe : Programs]
PidType == [kind : {"exec", "socket"}, at : Nat, key : Pids, by : Programs, event : Nat]
NameType == [kind : {"dns"}, at : Nat, key : {NameOf[a] : a \in Programs},
             by : Programs, event : Nat]
BatchType == [collector : {"none", "processes", "launch_items"}, entries : SUBSET Programs]

TypeOK ==
    /\ holder \in [Pids -> Programs \cup {None}]
    /\ last \in [Pids -> Programs \cup {None}]
    /\ changed \in [Pids -> Nat]
    /\ clock \in Nat /\ runs \subseteq 1..clock
    /\ processes \subseteq ProcessType
    /\ behavior \subseteq PidType \cup NameType /\ IsFiniteSet(behavior)
    /\ pc \in Stages
    /\ batch \in BatchType
    /\ related \in [Programs -> SUBSET behavior]
    /\ complete \in BOOLEAN
    /\ budget \in [spawns : Nat, faults : Nat, resets : Nat]

\* The runs in the table are the newest ones: a reset drops all at once.
RunsInv == \A r \in runs, q \in 1..clock : r <= q => q \in runs

\* A row tells the program that holds the PID, or one that held it until it
\* changed hands, at or after the row's time.
OwnerInv ==
    /\ \A p \in Pids : holder[p] \in {None, last[p]}
    /\ \A row \in processes :
         row.at <= Now /\ (row.exe = last[row.pid] \/ row.at <= changed[row.pid])
    /\ \A row \in behavior :
         /\ row.at <= Now
         /\ row.kind # "dns" => row.by = last[row.key] \/ row.at <= changed[row.key]

\* Context is there between correlating and judging only.
RelatedInv ==
    /\ pc # "judge" => related = Nothing
    /\ pc \in {"correlate", "judge"} => batch.collector # "none"

IInv == TypeOK /\ RunsInv /\ OwnerInv /\ RelatedInv /\ ContextIsOwnAndWhole

-----------------------------------------------------------------------------
(***************************************************************************)
(* Lemmas on the operators of the model.                                   *)
(***************************************************************************)

\* A set of numbers with any in it has a greatest one, if it has a bound.
LEMMA MaxExists ==
    ASSUME NEW n \in Nat, NEW S \in SUBSET (1..n), S # {}
    PROVE  \E m \in S : \A q \in S : q <= m
<1> DEFINE Bounds == {b \in Nat : \A q \in S : q <= b}
<1>1. n \in Bounds /\ Bounds \subseteq Nat
  OBVIOUS
<1>2. PICK b \in Bounds : \A x \in Bounds : ~(<<x, b>> \in OpToRel(<, Nat))
  <2> HIDE DEF Bounds
  <2> QED
    BY <1>1, NatLessThanWellFounded, WFMin
<1>3. b \in Nat /\ \A q \in S : q \in Nat /\ 1 <= q /\ q <= b
  OBVIOUS
<1>4. \A x \in Bounds : ~(x < b)
  BY <1>1, <1>2, <1>3 DEF OpToRel
<1>5. b \in S
  <2> SUFFICES ASSUME b \notin S PROVE FALSE
    OBVIOUS
  <2>1. PICK q \in S : TRUE
    OBVIOUS
  <2>2. b - 1 \in Nat
    BY <1>3, <2>1
  <2>3. \A x \in S : x <= b - 1
    <3> TAKE x \in S
    <3>1. x # b /\ x \in Nat /\ x <= b
      BY <1>3
    <3> QED
      BY <1>3, <3>1
  <2>4. b - 1 \in Bounds
    BY <2>2, <2>3
  <2> QED
    BY <1>3, <1>4, <2>4
<1> QED
  BY <1>3, <1>5

\* What a row of behaviour carries.
LEMMA Rows ==
    ASSUME TypeOK
    PROVE  /\ \A row \in processes : row.at \in Nat /\ row.pid \in Pids /\ row.exe \in Programs
           /\ \A row \in behavior : row.at \in Nat /\ row.by \in Programs
                                    /\ row.kind \in {"exec", "socket", "dns"}
                                    /\ (row.kind # "dns" => row.key \in Pids)
  BY DEF TypeOK, ProcessType, PidType, NameType

\* The window starts with the previous run, if the table has one.
LEMMA SinceIsPrevious ==
    ASSUME TypeOK, RunsInv
    PROVE  /\ Since \in Nat /\ Since <= StartedAt(clock)
           /\ IF PriorRuns = {} THEN Since = 0 ELSE Since = Previously
<1>1. clock \in Nat /\ PriorRuns \in SUBSET (1..clock)
  BY DEF TypeOK, PriorRuns
<1>2. CASE PriorRuns = {}
  BY <1>1, <1>2 DEF Since, StartedAt
<1>3. CASE PriorRuns # {}
  <2> DEFINE newest == CHOOSE r \in PriorRuns : \A q \in PriorRuns : q <= r
  <2>1. newest \in PriorRuns /\ \A q \in PriorRuns : q <= newest
    BY <1>1, <1>3, MaxExists
  <2>2. newest \in runs /\ newest < clock /\ newest \in 1..clock
    BY <1>1, <2>1 DEF PriorRuns
  <2>3. Since = StartedAt(newest)
    BY <1>3 DEF Since
  <2> HIDE DEF newest
  <2>4. clock - 1 \in PriorRuns
    <3>1. clock - 1 \in 1..clock /\ newest <= clock - 1 /\ clock - 1 < clock
      BY <1>1, <2>2
    <3> QED
      BY <2>2, <3>1 DEF RunsInv, PriorRuns
  <2>5. newest = clock - 1
    BY <1>1, <2>1, <2>2, <2>4
  <2>6. Since = 2 * (clock - 1) /\ clock \in Nat /\ clock - 1 \in Nat
    BY <1>1, <2>2, <2>3, <2>5 DEF StartedAt
  <2>7. Since \in Nat /\ Since <= 2 * clock
    BY <2>6
  <2> QED
    BY <1>3, <2>6, <2>7 DEF StartedAt, Previously
<1> QED
  BY <1>2, <1>3

\* What the caps and the lineage leave of a context is recent behaviour of the
\* PIDs that are looked up, or questions.
LEMMA ContextMembers ==
    ASSUME NEW a, NEW running, NEW context \in Contexts(a, running), NEW row \in context
    PROVE  /\ row \in Within(behavior)
           /\ row.kind = "dns" \/ row.key \in Links(a, running).pids
<1> DEFINE links == Links(a, running)
<1>1. PICK sockets \in Capped(ByPid("socket", links), MaxRelated),
           questions \in Capped(ByName(links), MaxRelatedDns),
           exec \in Lineage(ByPid("exec", links)) :
             context = sockets \cup questions \cup exec
  BY DEF Contexts
<1>2. sockets \subseteq ByPid("socket", links) /\ questions \subseteq ByName(links)
  BY DEF Capped
<1>3. exec \subseteq ByPid("exec", links)
  <2> DEFINE execs == ByPid("exec", links)
             newest(p) == {r \in execs : /\ r.key = p
                                         /\ \A o \in execs : o.key = p => o.event <= r.event}
  <2>1. exec \in IF execs = {} THEN {{}} ELSE {newest(r.key) : r \in execs}
    BY DEF Lineage
  <2>2. \A p : newest(p) \subseteq execs
    OBVIOUS
  <2> HIDE DEF execs, newest
  <2>3. exec \subseteq execs
    BY <2>1, <2>2
  <2> QED
    BY <2>3 DEF execs
<1>4. \A r \in ByPid("socket", links) \cup ByPid("exec", links) :
        r \in Within(behavior) /\ r.key \in links.pids
  BY DEF ByPid
<1>5. \A r \in ByName(links) : r \in Within(behavior) /\ r.kind = "dns"
  BY DEF ByName
<1> QED
  BY <1>1, <1>2, <1>3, <1>4, <1>5

\* A cap drops rows of a kind only when it is full of them.
LEMMA SocketsAreThere ==
    ASSUME TypeOK, NEW a, NEW running, NEW context \in Contexts(a, running),
           NEW row \in ByPid("socket", Links(a, running)), row \notin context
    PROVE  Cardinality({other \in context : other.kind = "socket"}) >= MaxRelated
<1> DEFINE links == Links(a, running)
           found == ByPid("socket", links)
           kept == {other \in context : other.kind = "socket"}
<1>1. PICK sockets \in Capped(found, MaxRelated),
           questions \in Capped(ByName(links), MaxRelatedDns),
           exec \in Lineage(ByPid("exec", links)) :
             context = sockets \cup questions \cup exec
  BY DEF Contexts
<1>2. IsFiniteSet(behavior) /\ Within(behavior) \in SUBSET behavior /\ found \in SUBSET behavior
  BY DEF TypeOK, Within, ByPid
<1>3. /\ sockets \in SUBSET found
      /\ Cardinality(sockets) = IF Cardinality(found) < MaxRelated THEN Cardinality(found) ELSE MaxRelated
  BY DEF Capped
<1>4. context \in SUBSET behavior
  BY <1>2, ContextMembers
<1>5. kept \in SUBSET behavior /\ sockets \in SUBSET kept
  <2>1. \A r \in found : r.kind = "socket"
    BY DEF ByPid
  <2> HIDE DEF found
  <2> QED
    BY <1>1, <1>3, <1>4, <2>1
<1>6. row \in found /\ row \notin sockets
  BY <1>1
<1> HIDE DEF found, kept
<1>7. IsFiniteSet(found) /\ IsFiniteSet(kept)
  BY <1>2, <1>5, FS_Subset
<1>8. Cardinality(found) # Cardinality(sockets)
  BY <1>3, <1>6, <1>7, FS_Subset
<1>9. Cardinality(sockets) <= Cardinality(kept) /\ Cardinality(kept) \in Nat
  BY <1>5, <1>7, FS_Subset, FS_CardinalityType
<1>10. Cardinality(kept) >= MaxRelated
  BY <1>3, <1>8, <1>9, ConstantsAssumption
<1> QED
  BY <1>10 DEF kept

\* One context for each entry of the batch, none for the rest.
LEMMA CorrelatedContexts ==
    ASSUME NEW running, NEW contexts \in Correlated(running)
    PROVE  /\ contexts = [a \in Programs |-> contexts[a]]
           /\ \A a \in Programs : IF a \in batch.entries THEN contexts[a] \in Contexts(a, running)
                                  ELSE contexts[a] = {}
<1> DEFINE of == [a \in Programs |-> IF a \in batch.entries THEN Contexts(a, running) ELSE {{}}]
<1>1. /\ contexts \in [Programs -> UNION {of[a] : a \in Programs}]
      /\ \A a \in Programs : contexts[a] \in of[a]
  BY DEF Correlated
<1>2. \A a \in Programs : of[a] = IF a \in batch.entries THEN Contexts(a, running) ELSE {{}}
  OBVIOUS
<1> HIDE DEF of
<1> QED
  BY <1>1, <1>2

\* The values that a function takes on a finite set are finitely many.
LEMMA ImageFinite ==
    ASSUME NEW S, IsFiniteSet(S), NEW f
    PROVE  IsFiniteSet({f[x] : x \in S})
<1> DEFINE T == {f[x] : x \in S}
           g == [x \in S |-> f[x]]
<1>1. g \in Surjection(S, T)
  BY DEF Surjection
<1> HIDE DEF g, T
<1>2. IsFiniteSet(T)
  BY <1>1, FS_Surjection
<1> QED
  BY <1>2 DEF T

\* What correlating reads is behaviour that is stored.
LEMMA CorrelatedType ==
    ASSUME TypeOK, NEW running, NEW contexts \in Correlated(running)
    PROVE  contexts \in [Programs -> SUBSET behavior]
<1>1. \A a \in Programs : contexts[a] \in SUBSET behavior
  <2> TAKE a \in Programs
  <2>1. CASE a \in batch.entries
    <3>1. contexts[a] \in Contexts(a, running)
      BY <2>1, CorrelatedContexts
    <3>2. \A row \in contexts[a] : row \in behavior
      BY <3>1, ContextMembers DEF Within
    <3> QED
      BY <3>2
  <2>2. CASE a \notin batch.entries
    BY <2>2, CorrelatedContexts
  <2> QED
    BY <2>1, <2>2
<1> QED
  BY <1>1, CorrelatedContexts

-----------------------------------------------------------------------------
(***************************************************************************)
(* Types.                                                                  *)
(***************************************************************************)

\* The tables start empty.
LEMMA TypeInit == Init => TypeOK
<1> SUFFICES ASSUME Init PROVE TypeOK
  OBVIOUS
<1>1. IsFiniteSet(behavior)
  BY FS_EmptySet DEF Init
<1>2. runs \subseteq 1..clock /\ clock \in Nat
  BY DEF Init
<1> QED
  BY <1>1, <1>2 DEF Init, TypeOK, Stages, ProcessType, PidType, NameType, BatchType, Nobody, Nothing

\* Every step keeps the types, and the behaviour stored is finite.
LEMMA TypeNext == TypeOK /\ [Next]_vars => TypeOK'
<1> SUFFICES ASSUME TypeOK, [Next]_vars PROVE TypeOK'
  OBVIOUS
<1> USE DEF Stages, BatchType
<1>now. Now \in Nat /\ StartedAt(clock) \in Nat
  BY DEF TypeOK, Now, StartedAt
<1>1. ASSUME NEW p \in Pids, NEW a \in Programs, Spawn(p, a) PROVE TypeOK'
  <2> DEFINE row == [kind |-> "exec", at |-> Now, key |-> p, by |-> a, event |-> budget'.spawns]
  <2>1. budget' \in [spawns : Nat, faults : Nat, resets : Nat]
    BY <1>1 DEF Spawn, TypeOK
  <2>2. /\ holder' \in [Pids -> Programs \cup {None}]
        /\ last' \in [Pids -> Programs \cup {None}]
        /\ changed' \in [Pids -> Nat]
    BY <1>1, <1>now DEF Spawn, TypeOK
  <2>3. row \in PidType
    BY <1>now, <2>1 DEF PidType
  <2>4. IsFiniteSet(behavior \cup {row})
    BY FS_AddElement DEF TypeOK
  <2>5. behavior' = behavior \/ behavior' = behavior \cup {row}
    BY <1>1 DEF Spawn
  <2> HIDE DEF row
  <2>6. behavior' \subseteq PidType \cup NameType /\ IsFiniteSet(behavior') /\ behavior \subseteq behavior'
    BY <2>3, <2>4, <2>5 DEF TypeOK
  <2>7. UNCHANGED <<runs, processes, clock, pc, batch, related, complete>>
    BY <1>1 DEF Spawn, cycle
  <2>8. related' \in [Programs -> SUBSET behavior']
    BY <2>6, <2>7 DEF TypeOK
  <2> QED
    BY <2>1, <2>2, <2>6, <2>7, <2>8 DEF TypeOK
<1>2. ASSUME NEW p \in Pids, Exit(p) PROVE TypeOK'
  BY <1>2 DEF Exit, TypeOK, database, cycle
<1>3. CASE StartRun
  <2>1. clock' \in Nat /\ runs' \subseteq 1..clock'
    BY <1>3 DEF StartRun, TypeOK
  <2> QED
    BY <1>3, <2>1 DEF StartRun, TypeOK, host
<1>4. CASE CollectProcesses
  <2>1. \A p \in Pids : holder[p] # None => holder[p] \in Programs
    BY DEF TypeOK
  <2>2. processes' \subseteq ProcessType
    BY <1>4, <1>now, <2>1 DEF CollectProcesses, TypeOK, ProcessType
  <2>3. batch' \in BatchType
    BY <1>4, <2>1 DEF CollectProcesses
  <2> QED
    BY <1>4, <2>2, <2>3 DEF CollectProcesses, TypeOK, host
<1>5. CASE CollectBehavior
  <2>1. PICK active \in SUBSET {p \in Pids : holder[p] # None} :
          behavior' = behavior \cup
            {[kind |-> kind, at |-> StartedAt(clock), key |-> KeyOf(kind, p),
              by |-> holder[p], event |-> 0] : p \in active, kind \in {"socket", "dns"}}
    BY <1>5 DEF CollectBehavior
  <2> DEFINE row(kind, p) == [kind |-> kind, at |-> StartedAt(clock), key |-> KeyOf(kind, p),
                              by |-> holder[p], event |-> 0]
             socket == [p \in active |-> row("socket", p)]
             dns == [p \in active |-> row("dns", p)]
             sockets == {socket[p] : p \in active}
             questions == {dns[p] : p \in active}
  <2>2. behavior' = behavior \cup sockets \cup questions
    <3>1. {row(kind, p) : p \in active, kind \in {"socket", "dns"}}
            = {row("socket", p) : p \in active} \cup {row("dns", p) : p \in active}
      <4> HIDE DEF row
      <4> QED
        OBVIOUS
    <3>2. behavior' = behavior \cup {row(kind, p) : p \in active, kind \in {"socket", "dns"}}
      BY <2>1
    <3>3. sockets = {row("socket", p) : p \in active} /\ questions = {row("dns", p) : p \in active}
      <4> HIDE DEF row
      <4> QED
        OBVIOUS
    <3> HIDE DEF row, sockets, questions
    <3> QED
      BY <3>1, <3>2, <3>3
  <2>3. \A p \in active : p \in Pids /\ holder[p] \in Programs
    BY DEF TypeOK
  <2>4. \A p \in active : socket[p] \in PidType /\ dns[p] \in NameType
    BY <1>now, <2>3 DEF KeyOf, PidType, NameType
  <2>5. IsFiniteSet(active)
    BY FS_Subset, ConstantsAssumption
  <2> HIDE DEF socket, dns
  <2>6. IsFiniteSet(sockets) /\ IsFiniteSet(questions)
    BY <2>5, ImageFinite
  <2>7. sockets \subseteq PidType /\ questions \subseteq NameType
    BY <2>4
  <2> HIDE DEF sockets, questions
  <2>8. IsFiniteSet(behavior \cup sockets)
    BY <2>6, FS_Union DEF TypeOK
  <2>9. IsFiniteSet(behavior') /\ behavior' \subseteq PidType \cup NameType /\ behavior \subseteq behavior'
    BY <2>2, <2>6, <2>7, <2>8, FS_Union DEF TypeOK
  <2>10. related' \in [Programs -> SUBSET behavior']
    BY <1>5, <2>9 DEF CollectBehavior, TypeOK
  <2> QED
    BY <1>5, <2>9, <2>10 DEF CollectBehavior, TypeOK, host
<1>6. CASE CollectLaunchItems
  BY <1>6 DEF CollectLaunchItems, TypeOK, host, database
<1>after. AfterCollector \in Stages /\ Nobody \in BatchType /\ Nothing \in [Programs -> SUBSET behavior]
  BY DEF AfterCollector, Nobody, Nothing
<1>7. CASE Judge
  BY <1>7, <1>after DEF Judge, TypeOK, host, database
<1>8. CASE CycleFails
  <2>1. budget' \in [spawns : Nat, faults : Nat, resets : Nat]
    BY <1>8 DEF CycleFails, TypeOK
  <2>2. pc' \in Stages
    BY <1>8, <1>after DEF CycleFails
  <2> QED
    BY <1>8, <1>after, <2>1, <2>2 DEF CycleFails, TypeOK, host, database
<1>9. CASE ResetBaseline
  BY <1>9 DEF ResetBaseline, TypeOK, host, cycle
<1>10. CASE Correlate
  BY <1>10, CorrelatedType DEF Correlate, TypeOK, host, database
<1>11. CASE CorrelateBlindly
  <2>1. related' \in [Programs -> SUBSET behavior]
    BY <1>11, <1>after, CorrelatedType DEF CorrelateBlindly
  <2>2. budget' \in [spawns : Nat, faults : Nat, resets : Nat]
    BY <1>11 DEF CorrelateBlindly, TypeOK
  <2> QED
    BY <1>11, <2>1, <2>2 DEF CorrelateBlindly, TypeOK, host, database
<1>12. CASE UNCHANGED vars
  BY <1>12 DEF vars, TypeOK
<1> QED
  BY <1>1, <1>2, <1>3, <1>4, <1>5, <1>6, <1>7, <1>8, <1>9, <1>10, <1>11, <1>12 DEF Next

-----------------------------------------------------------------------------
(***************************************************************************)
(* The parts of the invariant.                                             *)
(***************************************************************************)

\* A run enters the table as its newest, and leaves it with all the others.
LEMMA RunsNext == TypeOK /\ RunsInv /\ [Next]_vars => RunsInv'
<1> SUFFICES ASSUME TypeOK, RunsInv, [Next]_vars PROVE RunsInv'
  OBVIOUS
<1>1. CASE StartRun
  <2> SUFFICES ASSUME NEW r \in runs', NEW q \in 1..clock', r <= q PROVE q \in runs'
    BY DEF RunsInv
  <2>1. clock' = clock + 1 /\ runs' = runs \cup {clock + 1} /\ clock \in Nat /\ runs \subseteq 1..clock
    BY <1>1 DEF StartRun, TypeOK
  <2>2. CASE q = clock + 1
    BY <2>1, <2>2
  <2>3. CASE q # clock + 1
    <3>1. q \in 1..clock /\ r \in runs
      BY <2>1, <2>3
    <3> QED
      BY <2>1, <3>1 DEF RunsInv
  <2> QED
    BY <2>2, <2>3
<1>2. CASE ResetBaseline
  BY <1>2 DEF ResetBaseline, RunsInv
<1>3. CASE \E p \in Pids : Exit(p) \/ \E a \in Programs : Spawn(p, a)
  <2>1. UNCHANGED <<runs, clock>>
    BY <1>3 DEF Spawn, Exit, cycle, database
  <2> QED
    BY <2>1 DEF RunsInv
<1>4. CASE CollectProcesses \/ CollectBehavior
  <2>1. UNCHANGED <<runs, clock>>
    BY <1>4 DEF CollectProcesses, CollectBehavior
  <2> QED
    BY <2>1 DEF RunsInv
<1>5. CASE CollectLaunchItems \/ Correlate \/ CorrelateBlindly \/ Judge \/ CycleFails \/ UNCHANGED vars
  <2>1. UNCHANGED <<runs, clock>>
    BY <1>5 DEF CollectLaunchItems, Correlate, CorrelateBlindly, Judge, CycleFails, database, vars
  <2> QED
    BY <2>1 DEF RunsInv
<1> QED
  BY <1>1, <1>2, <1>3, <1>4, <1>5 DEF Next

\* A row is written by who holds the PID; a PID that goes to another program
\* has its change of hands stamped no earlier than the rows there are.
LEMMA OwnerNext == TypeOK /\ OwnerInv /\ [Next]_vars => OwnerInv'
<1> SUFFICES ASSUME TypeOK, OwnerInv, [Next]_vars PROVE OwnerInv'
  OBVIOUS
<1>now. Now \in Nat /\ StartedAt(clock) \in Nat /\ StartedAt(clock) <= Now
  BY DEF TypeOK, Now, StartedAt
<1>1. ASSUME NEW p \in Pids, NEW a \in Programs, Spawn(p, a) PROVE OwnerInv'
  <2>1. /\ \A q \in Pids \ {p} : holder'[q] = holder[q] /\ last'[q] = last[q] /\ changed'[q] = changed[q]
        /\ holder'[p] = a /\ last'[p] = a
        /\ changed'[p] = IF last[p] \in {None, a} THEN changed[p] ELSE Now
        /\ processes' = processes /\ Now' = Now
    BY <1>1 DEF Spawn, TypeOK, cycle, Now, StartedAt
  \* What was known of a PID's owner is known after the change of hands.
  <2>2. ASSUME NEW q \in Pids, NEW by \in Programs, NEW at \in Nat, at <= Now,
               by = last[q] \/ at <= changed[q]
        PROVE  by = last'[q] \/ at <= changed'[q]
    <3>1. CASE q # p
      BY <2>1, <2>2, <3>1
    <3>2. CASE q = p /\ last[p] \in {None, a}
      BY <2>1, <2>2, <3>2, ConstantsAssumption
    <3>3. CASE q = p /\ last[p] \notin {None, a}
      BY <2>1, <2>2, <3>3
    <3> QED
      BY <3>1, <3>2, <3>3
  <2>3. \A q \in Pids : holder'[q] \in {None, last'[q]}
    BY <2>1 DEF OwnerInv
  <2>4. ASSUME NEW row \in processes
        PROVE  row.at <= Now /\ (row.exe = last'[row.pid] \/ row.at <= changed'[row.pid])
    <3>1. row.at <= Now /\ (row.exe = last[row.pid] \/ row.at <= changed[row.pid])
      BY DEF OwnerInv
    <3>2. row.at \in Nat /\ row.pid \in Pids /\ row.exe \in Programs
      BY Rows
    <3> QED
      BY <2>2, <3>1, <3>2
  <2>5. ASSUME NEW row \in behavior'
        PROVE  /\ row.at <= Now
               /\ row.kind # "dns" => row.by = last'[row.key] \/ row.at <= changed'[row.key]
    <3>1. CASE row \in behavior
      <4>1. /\ row.at <= Now
            /\ row.kind # "dns" => row.by = last[row.key] \/ row.at <= changed[row.key]
        BY <3>1 DEF OwnerInv
      <4>2. row.at \in Nat /\ row.by \in Programs /\ (row.kind # "dns" => row.key \in Pids)
        BY <3>1, Rows
      <4> QED
        BY <2>2, <4>1, <4>2
    <3>2. CASE row \notin behavior
      <4>1. row.at = Now /\ row.key = p /\ row.by = a
        BY <1>1, <3>2 DEF Spawn
      <4> QED
        BY <1>now, <2>1, <4>1
    <3> QED
      BY <3>1, <3>2
  <2> QED
    BY <2>1, <2>3, <2>4, <2>5 DEF OwnerInv
<1>2. ASSUME NEW p \in Pids, Exit(p) PROVE OwnerInv'
  <2>1. \A q \in Pids : holder'[q] \in {None, last[q]}
    BY <1>2 DEF Exit, TypeOK, OwnerInv
  <2>2. UNCHANGED <<processes, behavior, last, changed, clock>>
    BY <1>2 DEF Exit, database, cycle
  <2> QED
    BY <2>1, <2>2 DEF OwnerInv, Now, StartedAt
<1>holds. \A p \in Pids : holder[p] # None => holder[p] = last[p]
  BY DEF OwnerInv
<1>3. CASE StartRun
  <2>1. Now' \in Nat /\ Now <= Now'
    BY <1>3 DEF StartRun, TypeOK, Now, StartedAt
  <2>2. UNCHANGED <<holder, last, changed, processes, behavior>>
    BY <1>3 DEF StartRun, host
  <2>3. \A row \in processes \cup behavior : row.at \in Nat /\ row.at <= Now
    BY Rows DEF OwnerInv
  <2>4. \A row \in processes \cup behavior : row.at <= Now'
    BY <1>now, <2>1, <2>3
  <2> QED
    BY <2>2, <2>4 DEF OwnerInv
<1>4. CASE CollectProcesses
  <2>1. UNCHANGED <<holder, last, changed, behavior, clock>>
    BY <1>4 DEF CollectProcesses, host
  <2>2. \A row \in processes' \ processes :
          row.at = StartedAt(clock) /\ row.exe = last[row.pid]
    BY <1>4, <1>holds DEF CollectProcesses
  <2>3. \A row \in processes' :
          row.at <= Now /\ (row.exe = last[row.pid] \/ row.at <= changed[row.pid])
    BY <1>now, <2>2 DEF OwnerInv
  <2>4. Now' = Now
    BY <2>1 DEF Now, StartedAt
  <2> QED
    BY <2>1, <2>3, <2>4 DEF OwnerInv
<1>5. CASE CollectBehavior
  <2>1. UNCHANGED <<holder, last, changed, processes, clock>>
    BY <1>5 DEF CollectBehavior, host
  <2>2. ASSUME NEW row \in behavior', row \notin behavior
        PROVE  row.at = StartedAt(clock) /\ (row.kind # "dns" => row.by = last[row.key])
    <3>1. PICK p \in Pids, kind \in {"socket", "dns"} :
            /\ holder[p] # None
            /\ row = [kind |-> kind, at |-> StartedAt(clock), key |-> KeyOf(kind, p),
                      by |-> holder[p], event |-> 0]
      BY <1>5, <2>2 DEF CollectBehavior
    <3> QED
      BY <1>holds, <3>1 DEF KeyOf
  <2>3. \A row \in behavior' :
          /\ row.at <= Now
          /\ row.kind # "dns" => row.by = last[row.key] \/ row.at <= changed[row.key]
    BY <1>now, <2>2 DEF OwnerInv
  <2>4. Now' = Now
    BY <2>1 DEF Now, StartedAt
  <2> QED
    BY <2>1, <2>3, <2>4 DEF OwnerInv
<1>6. CASE CollectLaunchItems \/ Judge \/ CycleFails \/ ResetBaseline \/ Correlate
           \/ CorrelateBlindly \/ UNCHANGED vars
  <2>1. UNCHANGED <<holder, last, changed, processes, behavior, clock>>
    BY <1>6 DEF CollectLaunchItems, Judge, CycleFails, ResetBaseline, Correlate, CorrelateBlindly,
                host, database, cycle, vars
  <2> QED
    BY <2>1 DEF OwnerInv, Now, StartedAt
<1> QED
  BY <1>1, <1>2, <1>3, <1>4, <1>5, <1>6 DEF Next

\* Judging and failing drop the context; correlating follows collecting.
LEMMA RelatedNext == RelatedInv /\ [Next]_vars => RelatedInv'
<1> SUFFICES ASSUME RelatedInv, [Next]_vars PROVE RelatedInv'
  OBVIOUS
<1>1. AfterCollector \notin {"correlate", "judge"}
  BY DEF AfterCollector
<1>2. CASE \E p \in Pids : Exit(p) \/ \E a \in Programs : Spawn(p, a)
  BY <1>2 DEF Exit, Spawn, cycle, RelatedInv
<1>3. CASE StartRun \/ CollectProcesses \/ CollectBehavior \/ CollectLaunchItems
  BY <1>3 DEF StartRun, CollectProcesses, CollectBehavior, CollectLaunchItems, RelatedInv
<1>4. CASE Judge \/ CycleFails
  BY <1>1, <1>4 DEF Judge, CycleFails, RelatedInv
<1>5. CASE Correlate \/ CorrelateBlindly
  BY <1>5 DEF Correlate, CorrelateBlindly, RelatedInv
<1>6. CASE ResetBaseline \/ UNCHANGED vars
  BY <1>6 DEF ResetBaseline, vars, cycle, RelatedInv
<1> QED
  BY <1>2, <1>3, <1>4, <1>5, <1>6 DEF Next

\* What is correlated with an entry was done by it, or by one the PID went
\* to or came from in the window: both rows are of the PID and in the window,
\* and one of them is not of the PID's last owner.
LEMMA OthersHandedOver ==
    ASSUME TypeOK, RunsInv, OwnerInv,
           NEW a \in Programs, NEW running, NEW context \in Contexts(a, running),
           NEW row \in context, row.kind # "dns", row.by # a
    PROVE  changed[row.key] >= Previously \/ PriorRuns = {}
<1>1. row \in behavior /\ row.at >= Since /\ row.key \in Links(a, running).pids
  BY ContextMembers DEF Within
<1>2. PICK seen \in processes : seen.at >= Since /\ seen.exe = a /\ seen.pid = row.key
  <2>1. CASE batch.collector = "processes"
    <3>1. row.key \in PidsOfProcess(a)
      BY <1>1, <2>1 DEF Links
    <3>2. PICK seen \in processes : seen.at = StartedAt(clock) /\ seen.exe = a /\ seen.pid = row.key
      BY <3>1 DEF PidsOfProcess
    <3>3. Since \in Nat /\ StartedAt(clock) \in Nat /\ Since <= StartedAt(clock)
      BY SinceIsPrevious DEF TypeOK, StartedAt
    <3> QED
      BY <3>2, <3>3
  <2>2. CASE batch.collector # "processes"
    <3>1. row.key \in PidsByExecutable(a)
      BY <1>1, <2>2 DEF Links
    <3> QED
      BY <3>1 DEF PidsByExecutable, Within
  <2> QED
    BY <2>1, <2>2
<1>3. row.at \in Nat /\ seen.at \in Nat /\ row.key \in Pids /\ Since \in Nat /\ changed[row.key] \in Nat
  BY <1>1, Rows, SinceIsPrevious DEF TypeOK
<1>4. row.by = last[row.key] \/ row.at <= changed[row.key]
  BY <1>1 DEF OwnerInv
<1>5. seen.exe = last[row.key] \/ seen.at <= changed[row.key]
  BY <1>2 DEF OwnerInv
<1>6. changed[row.key] >= Since
  BY <1>1, <1>2, <1>3, <1>4, <1>5
<1> QED
  BY <1>6, SinceIsPrevious

\* What an entry did in the window is found under its PIDs.
LEMMA OwnIsFound ==
    ASSUME TypeOK, RunsInv, batch.collector # "none",
           NEW a \in Programs, NEW row \in behavior,
           row.kind \notin {"dns", "exec"}, row.at >= Previously,
           NEW seen \in processes, seen.exe = a, seen.pid = row.key,
           seen.at = StartedAt(clock) \/ (seen.at >= Previously /\ batch.collector = "launch_items")
    PROVE  row \in ByPid("socket", Links(a, TRUE))
<1>1. row.at \in Nat /\ seen.at \in Nat /\ row.kind = "socket"
  BY Rows
<1>2. Since \in Nat /\ StartedAt(clock) \in Nat /\ Since <= StartedAt(clock) /\ (Since = 0 \/ Since = Previously)
  BY SinceIsPrevious DEF TypeOK, StartedAt
<1>3. row \in Within(behavior)
  BY <1>1, <1>2 DEF Within
<1>4. row.key \in Links(a, TRUE).pids
  <2>1. CASE batch.collector = "processes"
    <3>1. row.key \in PidsOfProcess(a)
      BY <2>1 DEF PidsOfProcess
    <3> QED
      BY <2>1, <3>1 DEF Links
  <2>2. CASE batch.collector # "processes"
    <3>1. seen.at >= Since
      BY <1>1, <1>2
    <3>2. row.key \in PidsByExecutable(a)
      BY <3>1 DEF PidsByExecutable, Within
    <3> QED
      BY <2>2, <3>2 DEF Links
  <2> QED
    BY <2>1, <2>2
<1> QED
  BY <1>1, <1>3, <1>4 DEF ByPid

\* Who owns what is in a context is settled when it is correlated; a PID that
\* changes hands later only makes the change more recent.
LEMMA OwnNext ==
    TypeOK /\ RunsInv /\ OwnerInv /\ RelatedInv /\ OwnOrHandedOver /\ [Next]_vars => OwnOrHandedOver'
<1> SUFFICES ASSUME TypeOK, RunsInv, OwnerInv, RelatedInv, OwnOrHandedOver, [Next]_vars
             PROVE  OwnOrHandedOver'
  OBVIOUS
<1>1. ASSUME related' = Nothing PROVE OwnOrHandedOver'
  BY <1>1 DEF OwnOrHandedOver, Nothing
<1>2. ASSUME NEW running, related' \in Correlated(running), UNCHANGED <<changed, runs, clock>>
      PROVE  OwnOrHandedOver'
  <2>1. ASSUME NEW a \in Programs, NEW row \in related'[a], row.kind # "dns", row.by # a
        PROVE  changed[row.key] >= Previously \/ PriorRuns = {}
    <3>1. related'[a] \in Contexts(a, running)
      BY <1>2, <2>1, CorrelatedContexts
    <3> QED
      BY <2>1, <3>1, OthersHandedOver
  <2>2. Previously' = Previously /\ PriorRuns' = PriorRuns
    BY <1>2 DEF Previously, PriorRuns, StartedAt
  <2> QED
    BY <1>2, <2>1, <2>2 DEF OwnOrHandedOver
<1>3. ASSUME NEW p \in Pids, NEW a \in Programs, Spawn(p, a) PROVE OwnOrHandedOver'
  <2>1. UNCHANGED <<related, runs, clock>>
    BY <1>3 DEF Spawn, cycle
  <2>2. Previously' = Previously /\ PriorRuns' = PriorRuns
    BY <2>1 DEF Previously, PriorRuns, StartedAt
  <2>3. Previously \in Int /\ Now \in Nat /\ Previously <= Now
    BY DEF Previously, StartedAt, Now, TypeOK
  <2>4. \A q \in Pids : changed[q] \in Nat /\ changed'[q] \in {changed[q], Now}
    BY <1>3 DEF Spawn, TypeOK
  <2>5. \A b \in Programs : \A row \in related[b] : row.kind # "dns" => row.key \in Pids
    BY Rows DEF TypeOK
  <2>6. ASSUME NEW b \in Programs, NEW row \in related[b], row.kind # "dns", row.by # b
        PROVE  changed'[row.key] >= Previously \/ PriorRuns = {}
    <3>1. changed[row.key] >= Previously \/ PriorRuns = {}
      BY <2>6 DEF OwnOrHandedOver
    <3>2. changed'[row.key] \in {changed[row.key], Now}
      BY <2>4, <2>5, <2>6
    <3> QED
      BY <2>3, <3>1, <3>2
  <2> QED
    BY <2>1, <2>2, <2>6 DEF OwnOrHandedOver
<1>4. CASE Correlate
  BY <1>2, <1>4 DEF Correlate, host, database
<1>5. CASE CorrelateBlindly
  BY <1>1, <1>2, <1>5 DEF CorrelateBlindly, host, database
<1>6. CASE Judge \/ CycleFails
  BY <1>1, <1>6 DEF Judge, CycleFails
<1>7. CASE StartRun \/ CollectProcesses \/ CollectBehavior \/ CollectLaunchItems
  <2>1. related' = Nothing
    BY <1>7 DEF StartRun, CollectProcesses, CollectBehavior, CollectLaunchItems, RelatedInv
  <2> QED
    BY <1>1, <2>1
<1>8. CASE ResetBaseline
  <2>1. related' = Nothing
    BY <1>8 DEF ResetBaseline, RelatedInv, cycle
  <2> QED
    BY <1>1, <2>1
<1>9. CASE (\E p \in Pids : Exit(p)) \/ UNCHANGED vars
  <2>1. UNCHANGED <<related, runs, clock, changed>>
    BY <1>9 DEF Exit, vars, database, cycle
  <2> QED
    BY <2>1 DEF OwnOrHandedOver, Previously, PriorRuns, StartedAt
<1> QED
  BY <1>3, <1>4, <1>5, <1>6, <1>7, <1>8, <1>9 DEF Next

\* Nothing is left out when everything could be read, and what happens until
\* the entries are judged adds no socket that was seen before.
LEMMA WholeNext ==
    TypeOK /\ RunsInv /\ RelatedInv /\ LastCycleIsThere /\ [Next]_vars => LastCycleIsThere'
<1> SUFFICES ASSUME TypeOK, RunsInv, RelatedInv, LastCycleIsThere, [Next]_vars
             PROVE  LastCycleIsThere'
  OBVIOUS
<1>1. ASSUME pc' # "judge" \/ ~complete' PROVE LastCycleIsThere'
  BY <1>1 DEF LastCycleIsThere
<1>2. CASE Correlate
  <2>1. related' \in Correlated(TRUE) /\ UNCHANGED <<batch, behavior, processes, clock>>
        /\ pc = "correlate"
    BY <1>2 DEF Correlate, host, database
  <2>2. batch.collector # "none" /\ batch.entries \subseteq Programs
    BY <2>1 DEF RelatedInv, TypeOK, BatchType
  <2>3. ASSUME NEW a \in batch.entries, NEW row \in behavior, NEW seen \in processes,
               row.kind \notin {"dns", "exec"}, row.at >= Previously,
               seen.exe = a, seen.pid = row.key,
               seen.at = StartedAt(clock) \/ (seen.at >= Previously /\ batch.collector = "launch_items")
        PROVE  \/ row \in related'[a]
               \/ Cardinality({other \in related'[a] : other.kind = row.kind}) >= MaxRelated
    <3>1. a \in Programs
      BY <2>2
    <3>2. related'[a] \in Contexts(a, TRUE)
      BY <2>1, <3>1, CorrelatedContexts
    <3>3. row \in ByPid("socket", Links(a, TRUE))
      BY <2>2, <2>3, <3>1, OwnIsFound
    <3>4. row.kind = "socket"
      BY <2>3, Rows
    <3> QED
      BY <3>2, <3>3, <3>4, SocketsAreThere
  <2>4. Previously' = Previously
    BY <2>1 DEF Previously, StartedAt
  <2> QED
    BY <2>1, <2>3, <2>4 DEF LastCycleIsThere, StartedAt
<1>3. ASSUME NEW p \in Pids, NEW a \in Programs, Spawn(p, a) PROVE LastCycleIsThere'
  <2>1. UNCHANGED <<pc, complete, related, batch, processes, clock>>
    BY <1>3 DEF Spawn, cycle
  <2>2. \A row \in behavior' : row.kind \notin {"dns", "exec"} => row \in behavior
    BY <1>3 DEF Spawn
  <2>3. Previously' = Previously
    BY <2>1 DEF Previously, StartedAt
  <2> QED
    BY <2>1, <2>2, <2>3 DEF LastCycleIsThere, StartedAt
<1>4. CASE (\E p \in Pids : Exit(p)) \/ UNCHANGED vars
  <2>1. UNCHANGED <<pc, complete, related, batch, processes, behavior, clock>>
    BY <1>4 DEF Exit, vars, database, cycle
  <2>2. Previously' = Previously
    BY <2>1 DEF Previously, StartedAt
  <2> QED
    BY <2>1, <2>2 DEF LastCycleIsThere, StartedAt
<1>5. CASE CorrelateBlindly
  BY <1>1, <1>5 DEF CorrelateBlindly
<1>6. CASE StartRun \/ CollectProcesses \/ CollectBehavior \/ CollectLaunchItems
  BY <1>1, <1>6 DEF StartRun, CollectProcesses, CollectBehavior, CollectLaunchItems
<1>7. CASE Judge \/ CycleFails
  <2>1. pc' # "judge"
    BY <1>7 DEF Judge, CycleFails, AfterCollector
  <2> QED
    BY <1>1, <2>1
<1>8. CASE ResetBaseline
  <2>1. pc' # "judge"
    BY <1>8 DEF ResetBaseline, cycle
  <2> QED
    BY <1>1, <2>1
<1> QED
  BY <1>2, <1>3, <1>4, <1>5, <1>6, <1>7, <1>8 DEF Next

-----------------------------------------------------------------------------
(***************************************************************************)
(* The theorems.                                                           *)
(***************************************************************************)

\* Whatever the host does between the steps of a cycle, PIDs are of the
\* programs the rows say, until they changed hands, and context is of its
\* entry.
THEOREM Invariance == Spec => []IInv
<1>1. Init => IInv
  <2> SUFFICES ASSUME Init PROVE IInv
    OBVIOUS
  <2>1. RunsInv /\ RelatedInv
    BY DEF Init, RunsInv, RelatedInv
  <2>2. OwnerInv
    BY DEF Init, OwnerInv
  <2>3. OwnOrHandedOver /\ LastCycleIsThere
    BY DEF Init, OwnOrHandedOver, LastCycleIsThere, Nothing
  <2> QED
    BY <2>1, <2>2, <2>3, TypeInit DEF IInv, ContextIsOwnAndWhole
<1>2. IInv /\ [Next]_vars => IInv'
  BY TypeNext, RunsNext, OwnerNext, RelatedNext, OwnNext, WholeNext DEF IInv, ContextIsOwnAndWhole
<1> QED
  BY <1>1, <1>2, PTL DEF Spec

\* Every variable has its type in every reachable state, and the behaviour
\* stored is finite at any time, so that a cap on it counts.
THEOREM TypeCorrect == Spec => []TypeOK
<1>1. IInv => TypeOK
  BY DEF IInv
<1> QED
  BY <1>1, Invariance, PTL

\* What the judge is told an artifact does is its own, or of a program its PID
\* changed hands with since the previous run started; and no socket of that
\* time is left out but for a full cap or a failed read.
THEOREM ContextCorrect == Spec => []ContextIsOwnAndWhole
<1>1. IInv => ContextIsOwnAndWhole
  BY DEF IInv
<1> QED
  BY <1>1, Invariance, PTL

=============================================================================
