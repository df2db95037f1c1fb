--------------------------- MODULE CollectorProofs ---------------------------
(***************************************************************************)
(* The safety properties of the collectors, for every value of their       *)
(* constants: first of StreamingWorker, for every batch size, every        *)
(* interval and any number of rows, crashes, faults and ends of the        *)
(* process; then of HostScan, for any number of places and entries, any    *)
(* two states of the host at the beginning and the end of a collection,    *)
(* and any words of an entry read before the host moves on.  The two share *)
(* nothing but this module: no step of one is a step of the other.         *)
(***************************************************************************)
EXTENDS StreamingWorker, HostScan, FiniteSetTheorems, SequenceTheorems, TLAPS

-----------------------------------------------------------------------------
(***************************************************************************)
(* The inductive invariant, in named parts.                                *)
(***************************************************************************)

TableRow == [session : Nat, row : Nat]
SessionRow == [finished : BOOLEAN, row_count : Nat]
Budgets == [crashes : Nat, faults : Nat, kills : Nat]
Labels == {"off", "loop", "open", "stream", "flush", "drain", "close",
           "outcome", "sleep", "finished", "died"}

\* Everything but the backoff, of which only the passing of time is told.
TypeOK ==
    /\ table \in Seq(TableRow) /\ sessions \in Seq(SessionRow)
    /\ pc \in Labels /\ stop \in BOOLEAN /\ crashed \in BOOLEAN
    /\ buffer \in Seq(Nat)
    /\ rowsWritten \in Nat /\ rowsBefore \in Nat /\ attempt \in Nat
    /\ yielded \in Nat /\ streak \in Nat
    /\ level \in {"none", "warning", "error"}
    /\ sinceFlush \in Nat /\ elapsed \in Nat /\ uptime \in Nat
    /\ budget \in Budgets

\* The buffer is in use while a session streams, and newer than the table.
BufferInv ==
    /\ pc \notin {"stream", "flush", "drain"} => buffer = <<>>
    /\ \A i, j \in DOMAIN buffer : i < j => buffer[i] < buffer[j]
    /\ \A i \in DOMAIN buffer : buffer[i] <= yielded
    /\ \A i \in DOMAIN table, j \in DOMAIN buffer : table[i].row < buffer[j]

\* The table holds rows that were yielded, of sessions that were opened.
TableInv ==
    /\ StoredOnceInOrder
    /\ \A i \in DOMAIN table : /\ table[i].row <= yielded
                               /\ table[i].session <= Session

\* The counters of the open session tell its rows; no other is written to.
CountInv ==
    /\ RowCountTrue
    /\ rowsBefore <= rowsWritten
    /\ pc \in {"stream", "flush", "drain", "close"} =>
         /\ Session > 0
         /\ ~sessions[Session].finished
         /\ SessionRows = Cardinality(RowsOf(Session))

\* The restart count never exceeds the streak of crashes, because a session
\* has not streamed for longer than its turn has lasted.
StreakInv ==
    /\ ErrorsMeanFlapping
    /\ attempt <= streak
    /\ uptime <= HealthyReset /\ elapsed <= HealthyReset
    /\ pc \in {"stream", "flush", "drain", "close", "outcome"} => uptime <= elapsed

IInv == TypeOK /\ BufferInv /\ TableInv /\ CountInv /\ StreakInv

-----------------------------------------------------------------------------
(***************************************************************************)
(* Lemmas on the operators of the model.                                   *)
(***************************************************************************)

\* Sizes, intervals and thresholds are numbers.
LEMMA ConstantsTyped ==
    /\ BatchSize \in Nat /\ EscalateAt \in Nat \ {0} /\ BaseDelay \in Nat
    /\ FlushInterval \in Nat /\ HealthyReset \in Nat /\ MaxDelay \in Nat
  BY ConstantsAssumption

\* The count the next crash starts from is the old one or none.
LEMMA AttemptsBounded ==
    ASSUME attempt \in Nat
    PROVE  AttemptsSoFar \in Nat /\ AttemptsSoFar <= attempt
  BY DEF AttemptsSoFar

\* The elements of the sequences, by their indices.
LEMMA ElementsTyped ==
    ASSUME TypeOK
    PROVE  /\ Len(table) \in Nat /\ DOMAIN table = 1..Len(table)
           /\ \A i \in DOMAIN table : table[i].row \in Nat /\ table[i].session \in Nat
           /\ Len(buffer) \in Nat /\ DOMAIN buffer = 1..Len(buffer)
           /\ \A i \in DOMAIN buffer : buffer[i] \in Nat
           /\ Session \in Nat /\ DOMAIN sessions = 1..Session
           /\ \A s \in DOMAIN sessions : sessions[s].row_count \in Nat
<1>1. /\ Len(table) \in Nat /\ DOMAIN table = 1..Len(table)
      /\ Len(buffer) \in Nat /\ DOMAIN buffer = 1..Len(buffer)
      /\ Session \in Nat /\ DOMAIN sessions = 1..Session
  BY LenProperties DEF TypeOK, Session
<1>2. \A i \in DOMAIN table : table[i] \in TableRow
  BY <1>1, ElementOfSeq DEF TypeOK
<1>3. \A i \in DOMAIN buffer : buffer[i] \in Nat
  BY <1>1, ElementOfSeq DEF TypeOK
<1>4. \A s \in DOMAIN sessions : sessions[s] \in SessionRow
  BY <1>1, ElementOfSeq DEF TypeOK, Session
<1> QED
  BY <1>1, <1>2, <1>3, <1>4 DEF TableRow, SessionRow

\* A flush appends the buffer's rows, stamped with the session, in order.
LEMMA FlushAppends ==
    ASSUME TypeOK, Flush
    PROVE  /\ table' \in Seq(TableRow)
           /\ Len(table') = Len(table) + Len(buffer)
           /\ \A i \in DOMAIN table : i \in DOMAIN table' /\ table'[i] = table[i]
           /\ \A i \in DOMAIN table' \ DOMAIN table :
                /\ i - Len(table) \in DOMAIN buffer
                /\ table'[i] = [session |-> Session, row |-> buffer[i - Len(table)]]
           /\ \A i \in DOMAIN buffer : Len(table) + i \in DOMAIN table' \ DOMAIN table
<1> DEFINE new == Stamped(buffer)
<1>1. /\ Len(buffer) \in Nat /\ DOMAIN buffer = 1..Len(buffer)
      /\ Len(table) \in Nat /\ DOMAIN table = 1..Len(table) /\ Session \in Nat
  BY ElementsTyped
<1>2. \A i \in DOMAIN buffer : new[i] = [session |-> Session, row |-> buffer[i]]
  BY DEF Stamped
<1>3. new \in Seq(TableRow) /\ Len(new) = Len(buffer)
  <2>0. \A i \in DOMAIN buffer : buffer[i] \in Nat
    BY <1>1, ElementOfSeq DEF TypeOK
  <2>1. \A i \in DOMAIN buffer : [session |-> Session, row |-> buffer[i]] \in TableRow
    BY <1>1, <2>0 DEF TableRow
  <2>2. new \in [1..Len(buffer) -> TableRow]
    BY <1>1, <1>2, <2>1 DEF Stamped
  <2>3. new \in Seq(TableRow)
    BY <1>1, <2>2, SeqDef
  <2> QED
    BY <1>1, <2>2, <2>3, LenProperties
<1>4. table' = table \o new
  BY DEF Flush
<1>5. /\ table \o new \in Seq(TableRow)
      /\ Len(table \o new) = Len(table) + Len(new)
      /\ \A i \in 1..Len(table) + Len(new) :
           (table \o new)[i] = IF i <= Len(table) THEN table[i] ELSE new[i - Len(table)]
  BY <1>3, ConcatProperties DEF TypeOK
<1>6. DOMAIN table' = 1..Len(table) + Len(buffer)
  BY <1>3, <1>4, <1>5, LenProperties
<1> HIDE DEF new
<1> QED
  BY <1>1, <1>2, <1>3, <1>4, <1>5, <1>6

\* Opening a session appends an unfinished one.
LEMMA OpenAppends ==
    ASSUME TypeOK, OpenSession
    PROVE  /\ sessions' \in Seq(SessionRow)
           /\ Session' = Session + 1
           /\ \A s \in DOMAIN sessions : s \in DOMAIN sessions' /\ sessions'[s] = sessions[s]
           /\ \A s \in DOMAIN sessions' \ DOMAIN sessions : s = Session'
           /\ Session' \in DOMAIN sessions' /\ ~sessions'[Session'].finished
<1> DEFINE new == [finished |-> FALSE, row_count |-> 0]
<1>1. new \in SessionRow
  BY DEF SessionRow
<1>2. sessions' = Append(sessions, new)
  BY DEF OpenSession
<1>3. /\ sessions' \in Seq(SessionRow) /\ Len(sessions') = Len(sessions) + 1
      /\ \A s \in 1..Len(sessions) : sessions'[s] = sessions[s]
      /\ sessions'[Len(sessions) + 1] = new
  BY <1>1, <1>2, AppendProperties DEF TypeOK
<1>4. DOMAIN sessions' = 1..Len(sessions) + 1 /\ DOMAIN sessions = 1..Len(sessions)
      /\ Len(sessions) \in Nat
  BY <1>3, LenProperties DEF TypeOK
<1> QED
  BY <1>3, <1>4 DEF Session

\* A row goes to the end of the buffer.
LEMMA YieldAppends ==
    ASSUME TypeOK, YieldRow
    PROVE  /\ buffer' \in Seq(Nat)
           /\ Len(buffer') = Len(buffer) + 1
           /\ \A i \in DOMAIN buffer : i \in DOMAIN buffer' /\ buffer'[i] = buffer[i]
           /\ \A i \in DOMAIN buffer' \ DOMAIN buffer :
                i = Len(buffer) + 1 /\ buffer'[i] = yielded + 1
<1>1. yielded' \in Nat /\ yielded' = yielded + 1 /\ buffer' = Append(buffer, yielded')
  BY DEF YieldRow, TypeOK
<1>2. /\ buffer' \in Seq(Nat) /\ Len(buffer') = Len(buffer) + 1
      /\ \A i \in 1..Len(buffer) : buffer'[i] = buffer[i]
      /\ buffer'[Len(buffer) + 1] = yielded'
  BY <1>1, AppendProperties DEF TypeOK
<1>3. DOMAIN buffer' = 1..Len(buffer) + 1 /\ DOMAIN buffer = 1..Len(buffer)
      /\ Len(buffer) \in Nat
  BY <1>2, LenProperties DEF TypeOK
<1> QED
  BY <1>1, <1>2, <1>3

-----------------------------------------------------------------------------
(***************************************************************************)
(* Type correctness.                                                       *)
(***************************************************************************)

\* The worker, its source and its tables start well typed.
LEMMA TypeInit == Init => TypeOK
<1> SUFFICES ASSUME Init PROVE TypeOK
  OBVIOUS
<1>1. table \in Seq(TableRow) /\ sessions \in Seq(SessionRow) /\ buffer \in Seq(Nat)
  BY EmptySeq DEF Init
<1>2. budget \in Budgets
  BY DEF Init, NoWork, Budgets
<1> QED
  BY <1>1, <1>2 DEF Init, TypeOK, Labels

\* A step adds to one entry of the budget.
LEMMA BudgetUpdates ==
    ASSUME NEW b \in Budgets
    PROVE  /\ [b EXCEPT !.crashes = @ + 1] \in Budgets
           /\ [b EXCEPT !.faults = @ + 1] \in Budgets
           /\ [b EXCEPT !.kills = @ + 1] \in Budgets
  BY DEF Budgets

\* A closed session counts as many rows as the worker wrote since it opened.
LEMMA CloseUpdates ==
    ASSUME TypeOK, CountInv, CloseSession
    PROVE  /\ sessions' \in Seq(SessionRow)
           /\ Session' = Session
           /\ sessions'[Session].row_count = SessionRows
           /\ \A s \in DOMAIN sessions : s # Session => sessions'[s] = sessions[s]
<1> DEFINE new == [finished |-> TRUE, row_count |-> SessionRows]
<1>1. Session \in Nat /\ DOMAIN sessions = 1..Session /\ Session \in 1..Session
  BY LenProperties DEF TypeOK, CountInv, CloseSession, Session
<1>2. new \in SessionRow
  BY DEF SessionRow, SessionRows, TypeOK, CountInv
<1>3. sessions' = [sessions EXCEPT ![Session] = new]
  BY DEF CloseSession
<1>4. sessions' \in Seq(SessionRow) /\ Len(sessions') = Len(sessions)
  BY <1>1, <1>2, <1>3, ExceptSeq DEF TypeOK, Session
<1>5. sessions'[Session] = new /\ \A s \in DOMAIN sessions : s # Session => sessions'[s] = sessions[s]
  BY <1>1, <1>3
<1> QED
  BY <1>4, <1>5 DEF Session

\* Every step of the worker, its source and its clock keeps the types.
LEMMA TypeNext == TypeOK /\ CountInv /\ [Next]_vars => TypeOK'
<1> SUFFICES ASSUME TypeOK, CountInv, [Next]_vars PROVE TypeOK'
  OBVIOUS
<1>c. /\ FlushInterval \in Nat /\ HealthyReset \in Nat
      /\ AttemptsSoFar \in Nat /\ AttemptsSoFar <= attempt
  BY ConstantsTyped, AttemptsBounded DEF TypeOK
<1>f. Fault => budget' \in Budgets
  BY BudgetUpdates DEF Fault, TypeOK
<1> USE DEF Labels, database, counters, timers
<1>1. CASE Start
  BY <1>1 DEF Start, TypeOK
<1>2. CASE NextTurn
  BY <1>2 DEF NextTurn, TypeOK
<1>3. CASE OpenSession
  <2>1. sessions' \in Seq(SessionRow)
    BY <1>3, OpenAppends
  <2> QED
    BY <1>3, <2>1 DEF OpenSession, TypeOK
<1>4. CASE OpenFails
  BY <1>4, <1>f DEF OpenFails, TypeOK
<1>5. CASE FlushBatch \/ Drain
  <2>1. Flush
    BY <1>5 DEF FlushBatch, Drain
  <2>2. table' \in Seq(TableRow)
    BY <2>1, FlushAppends
  <2>3. buffer' \in Seq(Nat) /\ rowsWritten' \in Nat
    BY <2>1, LenProperties DEF Flush, TypeOK
  <2> QED
    BY <1>5, <2>2, <2>3 DEF FlushBatch, Drain, TypeOK
<1>6. CASE BatchFails
  BY <1>6, <1>f DEF BatchFails, TypeOK
<1>7. CASE DrainFails
  BY <1>7, <1>f DEF DrainFails, TypeOK
<1>8. CASE CloseSession
  <2>1. sessions' \in Seq(SessionRow)
    BY <1>8, CloseUpdates
  <2> QED
    BY <1>8, <2>1 DEF CloseSession, TypeOK
<1>9. CASE CloseFails
  BY <1>9, <1>f DEF CloseFails, TypeOK
<1>10. CASE CrashOutcome
  BY <1>10, <1>c DEF CrashOutcome, LevelOf, TypeOK
<1>11. CASE EndOutcome
  BY <1>11, <1>c DEF EndOutcome, TypeOK
<1>12. CASE Wake
  BY <1>12 DEF Wake, TypeOK
<1>13. CASE YieldRow
  <2>1. buffer' \in Seq(Nat)
    BY <1>13, YieldAppends
  <2> QED
    BY <1>13, <2>1 DEF YieldRow, TypeOK
<1>14. CASE SourceEnds \/ SourceCrashes
  <2>1. budget' \in Budgets
    BY <1>14, BudgetUpdates DEF SourceEnds, SourceCrashes, TypeOK
  <2> QED
    BY <1>14, <2>1 DEF SourceEnds, SourceCrashes, TypeOK
<1>15. CASE Stop
  BY <1>15 DEF Stop, TypeOK
<1>16. CASE Exit
  <2>1. budget' \in Budgets /\ buffer' \in Seq(Nat)
    BY <1>16, BudgetUpdates, EmptySeq DEF Exit, TypeOK
  <2> QED
    BY <1>16, <2>1 DEF Exit, TypeOK
<1>17. CASE Tick
  BY <1>17, <1>c DEF Tick, AtMost, TypeOK
<1>18. CASE UNCHANGED vars
  BY <1>18 DEF vars, TypeOK
<1> QED
  BY <1>1, <1>2, <1>3, <1>4, <1>5, <1>6, <1>7, <1>8, <1>9, <1>10, <1>11, <1>12,
     <1>13, <1>14, <1>15, <1>16, <1>17, <1>18 DEF Next, Work

-----------------------------------------------------------------------------
(***************************************************************************)
(* The buffer and the table.                                               *)
(***************************************************************************)

\* A step that flushes appends to the table; no other step touches it.
LEMMA TableChangesByFlush ==
    ASSUME [Next]_vars
    PROVE  \/ Flush /\ UNCHANGED <<sessions, yielded>> /\ pc \in {"flush", "drain"}
           \/ UNCHANGED table
<1> USE DEF database, counters, timers
<1>1. CASE Start \/ Work
  BY <1>1 DEF Start, Work, NextTurn, OpenSession, OpenFails, FlushBatch, BatchFails,
     Drain, DrainFails, CloseSession, CloseFails, CrashOutcome, EndOutcome, Wake
<1>2. CASE YieldRow \/ SourceEnds \/ SourceCrashes \/ Stop \/ Exit \/ Tick
  BY <1>2 DEF YieldRow, SourceEnds, SourceCrashes, Stop, Exit, Tick
<1>3. CASE UNCHANGED vars
  BY <1>3 DEF vars
<1> QED
  BY <1>1, <1>2, <1>3 DEF Next

\* A step keeps the buffer, in use or not, unless it empties, fills or flushes it.
LEMMA BufferChanges ==
    ASSUME [Next]_vars, pc \notin {"stream", "flush", "drain"} => buffer = <<>>
    PROVE  \/ /\ UNCHANGED <<table, buffer, yielded>>
              /\ pc' \notin {"stream", "flush", "drain"} => buffer' = <<>>
           \/ UNCHANGED <<table, yielded>> /\ buffer' = <<>>
           \/ Flush /\ UNCHANGED yielded
           \/ YieldRow
<1> USE DEF database, counters, timers
<1>1. CASE Start \/ NextTurn \/ OpenFails \/ CloseSession \/ CloseFails \/ CrashOutcome
           \/ EndOutcome \/ Wake \/ BatchFails \/ SourceEnds \/ SourceCrashes
  BY <1>1 DEF Start, NextTurn, OpenFails, CloseSession, CloseFails, CrashOutcome,
     EndOutcome, Wake, BatchFails, SourceEnds, SourceCrashes
<1>2. CASE Stop \/ Tick \/ UNCHANGED vars
  BY <1>2 DEF Stop, Tick, vars
<1>3. CASE OpenSession \/ DrainFails \/ Exit
  BY <1>3 DEF OpenSession, DrainFails, Exit
<1>4. CASE FlushBatch \/ Drain \/ YieldRow
  BY <1>4 DEF FlushBatch, Drain
<1> QED
  BY <1>1, <1>2, <1>3, <1>4 DEF Next, Work

\* Every step keeps the buffer newer than the table.
LEMMA BufferNext == IInv /\ [Next]_vars => BufferInv'
<1> SUFFICES ASSUME IInv, [Next]_vars PROVE BufferInv'
  OBVIOUS
<1> USE DEF IInv
<1>1. CASE /\ UNCHANGED <<table, buffer, yielded>>
           /\ pc' \notin {"stream", "flush", "drain"} => buffer' = <<>>
  BY <1>1 DEF BufferInv
<1>2. CASE buffer' = <<>>
  BY <1>2 DEF BufferInv
<1>3. CASE Flush
  BY <1>3, <1>2 DEF Flush
<1>4. CASE YieldRow
  <2>1. UNCHANGED table /\ yielded' = yielded + 1 /\ pc' \in {"stream", "flush"}
    BY <1>4 DEF YieldRow, database
  <2>2. /\ \A i \in DOMAIN buffer : i \in DOMAIN buffer' /\ buffer'[i] = buffer[i]
        /\ \A i \in DOMAIN buffer' \ DOMAIN buffer :
             i = Len(buffer) + 1 /\ buffer'[i] = yielded + 1
        /\ Len(buffer') = Len(buffer) + 1 /\ buffer' \in Seq(Nat)
    BY <1>4, YieldAppends
  <2>3. /\ DOMAIN buffer = 1..Len(buffer) /\ DOMAIN buffer' = 1..Len(buffer) + 1
        /\ Len(buffer) \in Nat /\ yielded \in Nat
        /\ \A i \in DOMAIN buffer : buffer[i] \in Nat
    BY <2>2, LenProperties, ElementOfSeq DEF TypeOK
  <2>4. \A i \in DOMAIN table : table[i].row \in Nat /\ table[i].row <= yielded
    BY ElementsTyped DEF TableInv
  <2>5. \A i, j \in DOMAIN buffer' : i < j => buffer'[i] < buffer'[j]
    BY <2>2, <2>3, SMTT(30) DEF BufferInv
  <2>6. \A i \in DOMAIN buffer' : buffer'[i] <= yielded'
    BY <2>1, <2>2, <2>3 DEF BufferInv
  <2>7. \A i \in DOMAIN table', j \in DOMAIN buffer' : table'[i].row < buffer'[j]
    BY <2>1, <2>2, <2>3, <2>4, SMTT(30) DEF BufferInv
  <2> QED
    BY <2>1, <2>5, <2>6, <2>7 DEF BufferInv
<1> QED
  BY <1>1, <1>2, <1>3, <1>4, BufferChanges DEF BufferInv

\* No step closes or forgets a session for good or takes back a row.
LEMMA MoreOfBoth ==
    ASSUME TypeOK, CountInv, [Next]_vars
    PROVE  Session' >= Session /\ yielded' >= yielded
<1> USE DEF database, counters, timers
<1>0. Session \in Nat /\ yielded \in Nat
  BY LenProperties DEF TypeOK, Session
<1>1. CASE OpenSession
  BY <1>0, <1>1, OpenAppends DEF OpenSession
<1>2. CASE CloseSession
  BY <1>0, <1>2, CloseUpdates DEF CloseSession
<1>3. CASE YieldRow
  BY <1>0, <1>3 DEF YieldRow, Session
<1>4. CASE UNCHANGED <<sessions, yielded>>
  BY <1>0, <1>4 DEF Session
<1>5. CASE Start \/ NextTurn \/ OpenFails \/ CloseFails \/ CrashOutcome \/ EndOutcome
           \/ Wake \/ FlushBatch \/ BatchFails \/ Drain \/ DrainFails
  BY <1>4, <1>5 DEF Start, NextTurn, OpenFails, CloseFails, CrashOutcome, EndOutcome,
     Wake, FlushBatch, BatchFails, Drain, DrainFails
<1>6. CASE SourceEnds \/ SourceCrashes \/ Stop \/ Exit \/ Tick \/ UNCHANGED vars
  BY <1>4, <1>6 DEF SourceEnds, SourceCrashes, Stop, Exit, Tick, vars
<1> QED
  BY <1>1, <1>2, <1>3, <1>5, <1>6 DEF Next, Work

\* Every step keeps the table in order and within the sessions.
LEMMA TableNext == IInv /\ [Next]_vars => TableInv'
<1> SUFFICES ASSUME IInv, [Next]_vars PROVE TableInv'
  OBVIOUS
<1> USE DEF IInv
<1>0. /\ Session \in Nat /\ yielded \in Nat
      /\ \A i \in DOMAIN table : table[i].row \in Nat /\ table[i].session \in Nat
      /\ \A i \in DOMAIN buffer : buffer[i] \in Nat
  BY ElementsTyped DEF TypeOK
<1>1. CASE UNCHANGED table
  <2>1. Session' >= Session /\ yielded' >= yielded /\ Session' \in Nat /\ yielded' \in Nat
    BY MoreOfBoth, TypeNext, LenProperties DEF TypeOK, Session
  <2> QED
    BY <1>0, <1>1, <2>1 DEF TableInv, StoredOnceInOrder
<1>2. CASE Flush /\ UNCHANGED <<sessions, yielded>>
  <2>1. /\ \A i \in DOMAIN table : i \in DOMAIN table' /\ table'[i] = table[i]
        /\ \A i \in DOMAIN table' \ DOMAIN table :
             /\ i - Len(table) \in DOMAIN buffer
             /\ table'[i] = [session |-> Session, row |-> buffer[i - Len(table)]]
        /\ table' \in Seq(TableRow) /\ Len(table') = Len(table) + Len(buffer)
    BY <1>2, FlushAppends
  <2>2. /\ DOMAIN table = 1..Len(table) /\ Len(table) \in Nat
        /\ DOMAIN table' \subseteq Nat
    BY <2>1, LenProperties DEF TypeOK
  <2>3. \A i \in DOMAIN table' \ DOMAIN table :
          /\ table'[i].session = Session
          /\ table'[i].row = buffer[i - Len(table)]
          /\ table'[i].row <= yielded
          /\ \A k \in DOMAIN table : k < i /\ table[k].row < table'[i].row
    BY <2>1, <2>2 DEF BufferInv
  <2>4. Session' = Session /\ yielded' = yielded
    BY <1>2 DEF Session
  <2>5. \A i \in DOMAIN table' : table'[i].row <= yielded' /\ table'[i].session <= Session'
    BY <1>0, <2>1, <2>3, <2>4 DEF TableInv
  <2>6. ASSUME NEW i \in DOMAIN table', NEW j \in DOMAIN table', i < j
        PROVE  table'[i].row < table'[j].row /\ table'[i].session <= table'[j].session
    <3>1. CASE j \in DOMAIN table
      <4>1. i \in DOMAIN table
        BY <2>2, <2>6, <3>1
      <4> QED
        BY <2>1, <2>6, <3>1, <4>1 DEF TableInv, StoredOnceInOrder
    <3>2. CASE i \in DOMAIN table /\ j \notin DOMAIN table
      BY <1>0, <2>1, <2>3, <3>2 DEF TableInv
    <3>3. CASE i \notin DOMAIN table /\ j \notin DOMAIN table
      <4>1. buffer[i - Len(table)] < buffer[j - Len(table)]
        BY <2>1, <2>2, <2>6, <3>3 DEF BufferInv
      <4> QED
        BY <1>0, <2>3, <3>3, <4>1
    <3> QED
      BY <2>2, <2>6, <3>1, <3>2, <3>3
  <2> QED
    BY <2>5, <2>6 DEF TableInv, StoredOnceInOrder
<1> QED
  BY <1>1, <1>2, TableChangesByFlush

-----------------------------------------------------------------------------
(***************************************************************************)
(* The counters and the sessions' row counts.                              *)
(***************************************************************************)

\* A session's rows are finitely many.
LEMMA RowsOfFinite ==
    ASSUME TypeOK, NEW s
    PROVE  IsFiniteSet(RowsOf(s)) /\ Cardinality(RowsOf(s)) \in Nat
<1>1. RowsOf(s) \in SUBSET (1..Len(table)) /\ IsFiniteSet(1..Len(table))
  BY ElementsTyped, FS_Interval DEF RowsOf
<1> QED
  BY <1>1, FS_Subset, FS_CardinalityType

\* A flush adds the buffer's length to the rows of the open session and
\* nothing to those of the others.
LEMMA FlushCounts ==
    ASSUME TypeOK, Flush, NEW s \in Nat
    PROVE  Cardinality(RowsOf(s))' =
             Cardinality(RowsOf(s)) + IF s = Session THEN Len(buffer) ELSE 0
<1> DEFINE new == Len(table) + 1 .. Len(table) + Len(buffer)
<1>1. /\ \A i \in DOMAIN table : i \in DOMAIN table' /\ table'[i] = table[i]
      /\ \A i \in DOMAIN table' \ DOMAIN table : table'[i].session = Session
      /\ table' \in Seq(TableRow) /\ Len(table') = Len(table) + Len(buffer)
  BY FlushAppends
<1>2. /\ DOMAIN table = 1..Len(table) /\ Len(table) \in Nat /\ Len(buffer) \in Nat
      /\ DOMAIN table' = 1..Len(table) + Len(buffer)
  BY <1>1, ElementsTyped, LenProperties
<1>3. DOMAIN table' \ DOMAIN table = new /\ DOMAIN table \cap new = {}
  BY <1>2
<1> HIDE DEF new
<1>4. IsFiniteSet(new) /\ Cardinality(new) = Len(buffer)
  <2> DEFINE a == Len(table) + 1
             b == Len(table) + Len(buffer)
  <2>1. a \in Int /\ b \in Int /\ (IF a > b THEN 0 ELSE b - a + 1) = Len(buffer)
    BY <1>2
  <2>2. new = a .. b
    BY DEF new
  <2> HIDE DEF a, b
  <2> QED
    BY <2>1, <2>2, FS_Interval
<1>5. CASE s = Session
  <2>1. RowsOf(s)' = RowsOf(s) \cup new
    BY <1>1, <1>3, <1>5 DEF RowsOf
  <2>2. RowsOf(s) \cap new = {}
    BY <1>3 DEF RowsOf
  <2>3. Cardinality(RowsOf(s) \cup new) =
          Cardinality(RowsOf(s)) + Cardinality(new) - Cardinality({})
    BY <1>4, <2>2, RowsOfFinite, FS_Union
  <2> QED
    BY <1>2, <1>4, <1>5, <2>1, <2>3, RowsOfFinite, FS_EmptySet
<1>6. CASE s # Session
  <2>1. RowsOf(s)' = RowsOf(s)
    BY <1>1, <1>3, <1>6 DEF RowsOf
  <2> QED
    BY <1>6, <2>1, RowsOfFinite
<1> QED
  BY <1>5, <1>6

\* Every step keeps the counters true to the rows.
LEMMA CountNext == IInv /\ [Next]_vars => CountInv'
<1> SUFFICES ASSUME IInv, [Next]_vars PROVE CountInv'
  OBVIOUS
<1> DEFINE Open == {"stream", "flush", "drain", "close"}
<1> USE DEF IInv, database, counters, timers
<1>0. /\ Session \in Nat /\ DOMAIN sessions = 1..Session
      /\ rowsWritten \in Nat /\ rowsBefore \in Nat
      /\ \A i \in DOMAIN table : table[i].session \in Nat /\ table[i].session <= Session
  BY ElementsTyped DEF TypeOK, TableInv
<1>1. CASE /\ UNCHANGED <<table, sessions, rowsBefore, rowsWritten>>
           /\ pc' \in Open => pc \in Open
  <2>1. \A s : RowsOf(s)' = RowsOf(s)
    BY <1>1 DEF RowsOf
  <2> QED
    BY <1>1, <2>1 DEF CountInv, RowCountTrue, Session, SessionRows
<1>2. CASE Start \/ NextTurn \/ OpenFails \/ CloseFails \/ CrashOutcome \/ EndOutcome
           \/ Wake \/ BatchFails \/ DrainFails
  BY <1>1, <1>2 DEF Start, NextTurn, OpenFails, CloseFails, CrashOutcome, EndOutcome,
     Wake, BatchFails, DrainFails
<1>3. CASE YieldRow \/ SourceEnds \/ SourceCrashes \/ Stop \/ Tick \/ UNCHANGED vars
  BY <1>1, <1>3 DEF YieldRow, SourceEnds, SourceCrashes, Stop, Tick, vars
<1>4. CASE Exit
  <2>1. /\ UNCHANGED <<table, sessions>> /\ rowsBefore' = 0 /\ rowsWritten' = 0
        /\ pc' = "off"
    BY <1>4 DEF Exit
  <2>2. \A s : RowsOf(s)' = RowsOf(s)
    BY <2>1 DEF RowsOf
  <2> QED
    BY <2>1, <2>2 DEF CountInv, RowCountTrue
<1>5. CASE OpenSession
  <2>1. UNCHANGED <<table, rowsWritten>> /\ rowsBefore' = rowsWritten
    BY <1>5 DEF OpenSession
  <2>2. /\ Session' = Session + 1
        /\ \A s \in DOMAIN sessions : s \in DOMAIN sessions' /\ sessions'[s] = sessions[s]
        /\ \A s \in DOMAIN sessions' \ DOMAIN sessions : s = Session'
        /\ ~sessions'[Session'].finished
    BY <1>5, OpenAppends
  <2>3. \A s : RowsOf(s)' = RowsOf(s)
    BY <2>1 DEF RowsOf
  <2>4. RowsOf(Session') = {}
    BY <1>0, <2>2 DEF RowsOf
  <2>5. RowsOf(Session)' = {}
    BY <2>1, <2>4 DEF RowsOf
  <2>6. RowCountTrue'
    BY <2>2, <2>3 DEF CountInv, RowCountTrue
  <2>7. SessionRows' = 0 /\ Cardinality(RowsOf(Session))' = 0
    BY <1>0, <2>1, <2>5, FS_EmptySet DEF SessionRows
  <2> QED
    BY <1>0, <2>1, <2>2, <2>6, <2>7 DEF CountInv
<1>6. CASE FlushBatch \/ Drain
  <2>1. /\ Flush /\ UNCHANGED <<sessions, rowsBefore>>
        /\ pc \in Open /\ pc' \in Open
        /\ rowsWritten' = rowsWritten + Len(buffer) /\ Len(buffer) \in Nat
    BY <1>6, ElementsTyped DEF FlushBatch, Drain, Flush
  <2>2. Session' = Session
    BY <2>1 DEF Session
  <2>3. \A s \in Nat : Cardinality(RowsOf(s))' =
          Cardinality(RowsOf(s)) + IF s = Session THEN Len(buffer) ELSE 0
    BY <2>1, FlushCounts
  <2>4. RowCountTrue'
    <3> SUFFICES ASSUME NEW s \in DOMAIN sessions', sessions'[s].finished
                 PROVE  sessions'[s].row_count = Cardinality(RowsOf(s))'
      BY DEF RowCountTrue
    <3>1. s \in DOMAIN sessions /\ sessions[s].finished /\ s \in Nat /\ s # Session
      BY <1>0, <2>1 DEF CountInv
    <3>2. sessions[s].row_count = Cardinality(RowsOf(s))
      BY <3>1 DEF CountInv, RowCountTrue
    <3> QED
      BY <2>1, <2>3, <3>1, <3>2, RowsOfFinite
  <2>5. SessionRows' = SessionRows + Len(buffer)
    BY <1>0, <2>1 DEF SessionRows
  <2>6. Cardinality(RowsOf(Session))' = Cardinality(RowsOf(Session)) + Len(buffer)
    <3>1. Cardinality(RowsOf(Session))' = Cardinality({i \in DOMAIN table' : table'[i].session = Session})
      BY <2>2 DEF RowsOf
    <3>2. PICK s \in Nat : s = Session
      BY <1>0
    <3> QED
      BY <2>3, <3>1, <3>2 DEF RowsOf
  <2> QED
    BY <1>0, <2>1, <2>2, <2>4, <2>5, <2>6 DEF CountInv
<1>7. CASE CloseSession
  <2>1. UNCHANGED <<table, rowsWritten, rowsBefore>> /\ pc' = "outcome" /\ pc = "close"
    BY <1>7 DEF CloseSession
  <2>2. /\ Session' = Session /\ sessions' \in Seq(SessionRow)
        /\ sessions'[Session].row_count = SessionRows
        /\ \A s \in DOMAIN sessions : s # Session => sessions'[s] = sessions[s]
    BY <1>7, CloseUpdates
  <2>3. DOMAIN sessions' = DOMAIN sessions
    BY <1>0, <2>2, LenProperties DEF Session
  <2>4. \A s : RowsOf(s)' = RowsOf(s)
    BY <2>1 DEF RowsOf
  <2>5. RowCountTrue'
    BY <2>1, <2>2, <2>3, <2>4 DEF CountInv, RowCountTrue
  <2> QED
    BY <2>1, <2>5 DEF CountInv
<1> QED
  BY <1>2, <1>3, <1>4, <1>5, <1>6, <1>7 DEF Next, Work

-----------------------------------------------------------------------------
(***************************************************************************)
(* The streak of crashes and the level they are reported at.               *)
(***************************************************************************)

\* Every step keeps the attempts within the streak, and errors to long streaks.
LEMMA StreakNext == IInv /\ [Next]_vars => StreakInv'
<1> SUFFICES ASSUME IInv, [Next]_vars PROVE StreakInv'
  OBVIOUS
<1> USE DEF IInv, database, counters, timers
<1>0. /\ EscalateAt \in Nat /\ HealthyReset \in Nat
      /\ AttemptsSoFar \in Nat /\ AttemptsSoFar <= attempt
      /\ attempt \in Nat /\ streak \in Nat /\ elapsed \in Nat /\ uptime \in Nat
  BY ConstantsTyped, AttemptsBounded DEF TypeOK
<1>1. CASE \/ Start \/ OpenSession \/ OpenFails \/ Wake
  BY <1>0, <1>1 DEF Start, OpenSession, OpenFails, Wake, StreakInv, ErrorsMeanFlapping
<1>2. CASE NextTurn
  BY <1>0, <1>2 DEF NextTurn, StreakInv, ErrorsMeanFlapping
<1>3. CASE FlushBatch \/ BatchFails \/ Drain \/ DrainFails \/ CloseSession \/ CloseFails
  BY <1>0, <1>3 DEF FlushBatch, BatchFails, Drain, DrainFails, CloseSession, CloseFails,
     StreakInv, ErrorsMeanFlapping
<1>4. CASE YieldRow \/ SourceEnds \/ SourceCrashes \/ Stop \/ UNCHANGED vars
  BY <1>0, <1>4 DEF YieldRow, SourceEnds, SourceCrashes, Stop, vars, StreakInv, ErrorsMeanFlapping
<1>5. CASE CrashOutcome
  <2>1. attempt' = AttemptsSoFar + 1 /\ level' = LevelOf(attempt') /\ pc' = "sleep"
        /\ streak' = (IF uptime >= HealthyReset THEN 1 ELSE streak + 1)
        /\ UNCHANGED <<uptime, elapsed>> /\ pc = "outcome"
    BY <1>5 DEF CrashOutcome
  <2>2. uptime >= HealthyReset => AttemptsSoFar = 0
    BY <1>0, <2>1 DEF StreakInv, AttemptsSoFar
  <2>3. attempt' <= streak'
    BY <1>0, <2>1, <2>2 DEF StreakInv
  <2>4. level' = "error" => attempt' >= EscalateAt
    BY <2>1 DEF LevelOf
  <2> QED
    BY <1>0, <2>1, <2>3, <2>4 DEF StreakInv, ErrorsMeanFlapping
<1>6. CASE EndOutcome
  BY <1>0, <1>6 DEF EndOutcome, StreakInv, ErrorsMeanFlapping
<1>7. CASE Exit
  BY <1>0, <1>7 DEF Exit, StreakInv, ErrorsMeanFlapping
<1>8. CASE Tick
  BY <1>0, <1>8 DEF Tick, AtMost, StreakInv, ErrorsMeanFlapping
<1> QED
  BY <1>1, <1>2, <1>3, <1>4, <1>5, <1>6, <1>7, <1>8 DEF Next, Work

-----------------------------------------------------------------------------
(***************************************************************************)
(* The theorems.                                                           *)
(***************************************************************************)

\* The invariant holds before the first session.
LEMMA InitIInv == Init => IInv
<1> SUFFICES ASSUME Init PROVE IInv
  OBVIOUS
<1>1. TypeOK /\ HealthyReset \in Nat
  BY TypeInit, ConstantsTyped
<1>2. DOMAIN table = {} /\ DOMAIN buffer = {} /\ DOMAIN sessions = {}
  BY DEF Init
<1>3. BufferInv /\ TableInv
  BY <1>2 DEF Init, BufferInv, TableInv, StoredOnceInOrder
<1>4. CountInv
  BY <1>2 DEF Init, CountInv, RowCountTrue
<1>5. StreakInv
  BY <1>1 DEF Init, StreakInv, ErrorsMeanFlapping
<1> QED
  BY <1>1, <1>3, <1>4, <1>5 DEF IInv

\* The invariant holds throughout.
THEOREM Invariance == Spec => []IInv
<1>1. IInv /\ [Next]_vars => IInv'
  BY TypeNext, BufferNext, TableNext, CountNext, StreakNext DEF IInv
<1> QED
  BY InitIInv, <1>1, PTL DEF Spec

\* Rows, sessions, counters and clocks keep their kinds; the row count of a
\* session is never negative.
THEOREM TypeCorrect == Spec => []TypeOK
  BY Invariance, PTL DEF IInv

\* Whatever fails or restarts, the table holds every row once and in order.
THEOREM StoredCorrect == Spec => []StoredOnceInOrder
<1>1. IInv => StoredOnceInOrder
  BY DEF IInv, TableInv
<1> QED
  BY <1>1, Invariance, PTL

\* Every closed session's row_count is the number of its rows in the table.
THEOREM RowCountCorrect == Spec => []RowCountTrue
<1>1. IInv => RowCountTrue
  BY DEF IInv, CountInv
<1> QED
  BY <1>1, Invariance, PTL

\* An ERROR means EscalateAt crashes in a row of sessions that were short.
THEOREM EscalationCorrect == Spec => []ErrorsMeanFlapping
<1>1. IInv => ErrorsMeanFlapping
  BY DEF IInv, StreakInv
<1> QED
  BY <1>1, Invariance, PTL

\* A step loses a yielded row only with the last flush of a session or with
\* the process.
THEOREM NoRowDropped == Spec => RowsKept
<1> DEFINE Kept == Stored \cup Buffered \subseteq (Stored \cup Buffered)'
<1>1. ASSUME IInv, [Next]_vars
      PROVE  Kept \/ (pc = "drain" /\ budget'.faults > budget.faults) \/ pc' = "off"
  <2> USE DEF IInv, database, counters, timers
  <2>1. CASE UNCHANGED <<table, buffer>>
    BY <2>1 DEF Stored, Buffered
  <2>2. CASE OpenSession
    <3>1. UNCHANGED table /\ buffer = buffer'
      BY <1>1, <2>2 DEF OpenSession, BufferInv
    <3> QED
      BY <2>1, <3>1
  <2>3. CASE DrainFails
    <3>1. budget \in Budgets /\ budget' = [budget EXCEPT !.faults = @ + 1] /\ pc = "drain"
      BY <1>1, <2>3 DEF DrainFails, Fault, TypeOK
    <3>2. budget'.faults = budget.faults + 1 /\ budget.faults \in Nat
      BY <3>1 DEF Budgets
    <3> QED
      BY <3>1, <3>2
  <2>4. CASE Exit
    BY <2>4 DEF Exit
  <2>5. CASE FlushBatch \/ Drain
    <3>1. Flush
      BY <2>5 DEF FlushBatch, Drain
    <3>2. /\ \A i \in DOMAIN table : i \in DOMAIN table' /\ table'[i] = table[i]
          /\ \A i \in DOMAIN buffer : /\ Len(table) + i \in DOMAIN table'
                                       /\ table'[Len(table) + i].row = buffer[i]
      <4>1. /\ \A i \in DOMAIN table : i \in DOMAIN table' /\ table'[i] = table[i]
            /\ \A i \in DOMAIN table' \ DOMAIN table :
                 /\ i - Len(table) \in DOMAIN buffer
                 /\ table'[i] = [session |-> Session, row |-> buffer[i - Len(table)]]
            /\ \A i \in DOMAIN buffer : Len(table) + i \in DOMAIN table' \ DOMAIN table
        BY <1>1, <3>1, FlushAppends
      <4>2. \A i \in DOMAIN buffer : (Len(table) + i) - Len(table) = i
        BY <1>1, ElementsTyped
      <4> QED
        BY <4>1, <4>2
    <3>3. \A r \in Stored : r \in Stored'
      BY <3>2 DEF Stored
    <3>4. \A r \in Buffered : r \in Stored'
      BY <3>2 DEF Stored, Buffered
    <3> QED
      BY <3>3, <3>4
  <2>6. CASE YieldRow
    <3>1. UNCHANGED table
      BY <2>6 DEF YieldRow
    <3>2. \A i \in DOMAIN buffer : i \in DOMAIN buffer' /\ buffer'[i] = buffer[i]
      BY <1>1, <2>6, YieldAppends
    <3> QED
      BY <3>1, <3>2 DEF Stored, Buffered
  <2>7. CASE \/ Start \/ NextTurn \/ OpenFails \/ BatchFails \/ CloseSession \/ CloseFails
             \/ CrashOutcome \/ EndOutcome \/ Wake
    BY <2>1, <2>7 DEF Start, NextTurn, OpenFails, BatchFails, CloseSession, CloseFails,
       CrashOutcome, EndOutcome, Wake
  <2>8. CASE SourceEnds \/ SourceCrashes \/ Stop \/ Tick \/ UNCHANGED vars
    BY <2>1, <2>8 DEF SourceEnds, SourceCrashes, Stop, Tick, vars
  <2> QED
    BY <1>1, <2>2, <2>3, <2>4, <2>5, <2>6, <2>7, <2>8 DEF Next, Work
<1>2. IInv /\ [Next]_vars =>
        [ \/ Kept
          \/ pc = "drain" /\ budget'.faults > budget.faults
          \/ pc' = "off" ]_vars
  BY <1>1
<1> QED
  BY <1>2, Invariance, PTL DEF Spec, RowsKept

-----------------------------------------------------------------------------
(***************************************************************************)
(*                          Snapshot collectors                            *)
(***************************************************************************)

-----------------------------------------------------------------------------
(***************************************************************************)
(* What a host shows: sequences of entries, each with a place of its own   *)
(* behind the headings.                                                    *)
(***************************************************************************)

\* Behind the first h elements, entries of P at different places.
OneEach(s, h, P) ==
    /\ h <= Len(s)
    /\ \A i \in (h + 1)..Len(s) : s[i] \in P
    /\ \A i, j \in (h + 1)..Len(s) : s[i]["id"] = s[j]["id"] => i = j

\* A new entry at the end.
LEMMA EntryAppended ==
    ASSUME NEW S, NEW P \in SUBSET S, NEW s \in Seq(S), NEW h \in Nat, OneEach(s, h, P),
           NEW e \in P, \A i \in (h + 1)..Len(s) : s[i]["id"] # e["id"]
    PROVE  Append(s, e) \in Seq(S) /\ OneEach(Append(s, e), h, P)
<1> DEFINE t == Append(s, e)
           N == Len(s)
<1>1. t \in Seq(S) /\ Len(t) = N + 1 /\ (\A k \in 1..N : t[k] = s[k]) /\ t[N + 1] = e
  BY AppendProperties
<1>2. N \in Nat
  BY LenProperties
<1> HIDE DEF t
<1>3. \A i \in (h + 1)..(N + 1) : (i \in 1..N /\ i \in (h + 1)..N) \/ i = N + 1
  BY <1>2
<1>4. OneEach(t, h, P)
  BY <1>1, <1>2, <1>3 DEF OneEach
<1> QED
  BY <1>1, <1>4 DEF t

\* An entry that becomes another of the same place.
LEMMA EntryReplaced ==
    ASSUME NEW S, NEW P \in SUBSET S, NEW s \in Seq(S), NEW h \in Nat, OneEach(s, h, P),
           NEW i \in (h + 1)..Len(s), NEW e \in P, e["id"] = s[i]["id"]
    PROVE  [s EXCEPT ![i] = e] \in Seq(S) /\ OneEach([s EXCEPT ![i] = e], h, P)
<1> DEFINE t == [s EXCEPT ![i] = e]
           N == Len(s)
<1>1. N \in Nat /\ s \in [1..N -> S]
  BY LenProperties
<1>2. i \in 1..N
  BY <1>1
<1>3. t \in [1..N -> S] /\ t[i] = e /\ \A k \in 1..N : k # i => t[k] = s[k]
  BY <1>1, <1>2
<1> HIDE DEF t
<1>4. t \in Seq(S) /\ Len(t) = N
  BY <1>1, <1>3, SeqDef, LenProperties
<1>5. \A k \in (h + 1)..N : k \in 1..N /\ t[k] \in P /\ t[k]["id"] = s[k]["id"]
  BY <1>1, <1>3 DEF OneEach
<1>6. OneEach(t, h, P)
  BY <1>4, <1>5 DEF OneEach
<1> QED
  BY <1>4, <1>6 DEF t

\* An entry that goes.
LEMMA EntryRemoved ==
    ASSUME NEW S, NEW P \in SUBSET S, NEW s \in Seq(S), NEW h \in Nat, OneEach(s, h, P),
           NEW i \in (h + 1)..Len(s)
    PROVE  RemoveAt(s, i) \in Seq(S) /\ OneEach(RemoveAt(s, i), h, P)
<1> DEFINE N == Len(s)
           before == i - 1
           from == i + 1
           front == SubSeq(s, 1, before)
           back == SubSeq(s, from, N)
           t == RemoveAt(s, i)
<1>1. N \in Nat /\ DOMAIN s = 1..N /\ i \in 1..N /\ \A k \in 1..N : s[k] \in S
  BY LenProperties
<1>2. /\ before \in Int /\ from \in Int /\ 1 \in Int /\ N \in Int
      /\ \A k \in 1..before : s[k] \in S
      /\ \A k \in from..N : s[k] \in S
  BY <1>1
<1>3. /\ front \in Seq(S) /\ Len(front) = (IF 1 <= before THEN before - 1 + 1 ELSE 0)
      /\ \A k \in 1..(before - 1 + 1) : front[k] = s[1 + k - 1]
  <2> HIDE DEF before
  <2> QED
    BY <1>2, SubSeqProperties
<1>4. /\ back \in Seq(S) /\ Len(back) = (IF from <= N THEN N - from + 1 ELSE 0)
      /\ \A k \in 1..(N - from + 1) : back[k] = s[from + k - 1]
  <2> HIDE DEF from, N
  <2> QED
    BY <1>2, SubSeqProperties
<1>5. t = front \o back
  BY DEF RemoveAt
<1> HIDE DEF front, back, t
<1>6. /\ t \in Seq(S) /\ Len(t) = Len(front) + Len(back)
      /\ \A k \in 1..(Len(front) + Len(back)) :
           t[k] = IF k <= Len(front) THEN front[k] ELSE back[k - Len(front)]
  BY <1>3, <1>4, <1>5, ConcatProperties
<1>61. before = i - 1 /\ from = i + 1
  OBVIOUS
<1> HIDE DEF before, from, N
<1>7. Len(front) = i - 1 /\ Len(back) = N - i
  BY <1>1, <1>3, <1>4, <1>61
<1>8. \A k \in 1..(i - 1) : front[k] = s[k]
  BY <1>1, <1>3, <1>61
<1>9. \A k \in 1..(N - i) : back[k] = s[i + k]
  <2> TAKE k \in 1..(N - i)
  <2>1. k \in 1..(N - from + 1) /\ from + k - 1 = i + k
    BY <1>1, <1>61
  <2> QED
    BY <1>4, <2>1
<1>10. /\ Len(t) = N - 1
       /\ \A k \in 1..(N - 1) : t[k] = IF k < i THEN s[k] ELSE s[k + 1]
  <2>1. Len(front) + Len(back) = N - 1
    BY <1>1, <1>7
  <2> SUFFICES ASSUME NEW k \in 1..(N - 1)
               PROVE  t[k] = IF k < i THEN s[k] ELSE s[k + 1]
    BY <1>6, <2>1
  <2>2. CASE k < i
    <3>1. k \in 1..(i - 1)
      BY <1>1, <2>2
    <3> QED
      BY <1>1, <1>6, <1>7, <1>8, <2>1, <2>2, <3>1
  <2>3. CASE ~(k < i)
    <3>1. k - (i - 1) \in 1..(N - i) /\ i + (k - (i - 1)) = k + 1 /\ ~(k <= i - 1)
      BY <1>1, <2>3
    <3> QED
      BY <1>1, <1>6, <1>7, <1>9, <2>1, <2>3, <3>1
  <2> QED
    BY <2>2, <2>3
<1>11. /\ h <= N
       /\ \A k \in (h + 1)..N : s[k] \in P
       /\ \A j, k \in (h + 1)..N : s[j]["id"] = s[k]["id"] => j = k
  BY DEF OneEach, N
<1> DEFINE at(k) == IF k < i THEN k ELSE k + 1
<1>12. /\ h <= N - 1
       /\ \A k \in (h + 1)..(N - 1) : at(k) \in (h + 1)..N /\ t[k] = s[at(k)]
       /\ \A j, k \in (h + 1)..(N - 1) : at(j) = at(k) => j = k
  BY <1>1, <1>10, <1>61 DEF N
<1> HIDE DEF at
<1>13. OneEach(t, h, P)
  <2>1. \A k \in (h + 1)..(N - 1) : t[k] \in P
    BY <1>11, <1>12
  <2>2. \A j, k \in (h + 1)..(N - 1) : t[j]["id"] = t[k]["id"] => j = k
    BY <1>11, <1>12
  <2> QED
    BY <1>10, <1>12, <2>1, <2>2 DEF OneEach
<1> QED
  BY <1>6, <1>13 DEF t

\* A heading, and then nothing, an entry, or two at different places.
LEMMA HeadedText ==
    ASSUME NEW S, NEW P \in SUBSET S, NEW heading \in Seq(S), NEW t \in Seq(S),
           OneEach(t, 0, P)
    PROVE  /\ heading \o t \in Seq(S)
           /\ OneEach(heading \o t, Len(heading), P)
<1> DEFINE u == heading \o t
           h == Len(heading)
           N == Len(t)
<1>1. /\ u \in Seq(S) /\ Len(u) = h + N
      /\ \A k \in 1..(h + N) : u[k] = IF k <= h THEN heading[k] ELSE t[k - h]
  BY ConcatProperties
<1>2. h \in Nat /\ N \in Nat
  BY LenProperties
<1> HIDE DEF u, h, N
<1>3. \A k \in (h + 1)..(h + N) : k - h \in (0 + 1)..N /\ u[k] = t[k - h]
  BY <1>1, <1>2
<1>4. /\ \A i \in (0 + 1)..N : t[i] \in P
      /\ \A i, j \in (0 + 1)..N : t[i]["id"] = t[j]["id"] => i = j
  BY DEF OneEach, N
<1>5. \A k \in (h + 1)..(h + N) : u[k] \in P
  BY <1>3, <1>4
<1>6. \A i, j \in (h + 1)..(h + N) : u[i]["id"] = u[j]["id"] => i = j
  <2> TAKE i, j \in (h + 1)..(h + N)
  <2>1. u[i]["id"] = u[j]["id"] => i - h = j - h
    BY <1>3, <1>4
  <2> QED
    BY <1>2, <2>1
<1>7. OneEach(u, h, P)
  BY <1>1, <1>2, <1>5, <1>6 DEF OneEach
<1> QED
  BY <1>1, <1>7 DEF u, h

\* A text of no entry, of one, and of two at different places.
LEMMA FewEntries ==
    ASSUME NEW S, NEW P \in SUBSET S
    PROVE  /\ <<>> \in Seq(S) /\ OneEach(<<>>, 0, P)
           /\ \A e \in P : <<e>> \in Seq(S) /\ OneEach(<<e>>, 0, P)
           /\ \A e, f \in P : e["id"] # f["id"] =>
                <<e, f>> \in Seq(S) /\ OneEach(<<e, f>>, 0, P)
<1>1. <<>> \in Seq(S) /\ OneEach(<<>>, 0, P)
  BY DEF OneEach
<1>2. ASSUME NEW e \in P
      PROVE  <<e>> \in Seq(S) /\ OneEach(<<e>>, 0, P)
  BY DEF OneEach
<1>3. ASSUME NEW e \in P, NEW f \in P, e["id"] # f["id"]
      PROVE  <<e, f>> \in Seq(S) /\ OneEach(<<e, f>>, 0, P)
  <2> DEFINE s == <<e, f>>
  <2>1. s \in Seq(S) /\ Len(s) = 2 /\ s[1] = e /\ s[2] = f
    BY <1>3
  <2> HIDE DEF s
  <2>2. \A i \in (0 + 1)..2 : i = 1 \/ i = 2
    OBVIOUS
  <2>3. OneEach(s, 0, P)
    BY <1>3, <2>1, <2>2 DEF OneEach
  <2> QED
    BY <2>1, <2>3 DEF s
<1> QED
  BY <1>1, <1>2, <1>3

-----------------------------------------------------------------------------
(***************************************************************************)
(* The inductive invariant of a scan: the host and the state it was first  *)
(* read in are of their types, and the outcome is what the collector makes *)
(* of the two states.                                                      *)
(***************************************************************************)

Entered == UNION {At(id) : id \in Ids}
Contents == ToSet(Headings(host, slice)) \cup Entered
HostStates == [tool : Tools(host, slice), place : Places(host, slice), entries : Seq(Contents)]
IsWorld(w) ==
    /\ w \in HostStates
    /\ OneEach(w.entries, Len(Headings(host, slice)), Entered)

ScanInv ==
    /\ host \in Hosts
    /\ slice \in SlicesOf(host)
    /\ IsWorld(world)
    /\ begun = Unread \/ IsWorld(begun)
    /\ \/ outcome = Unread
       \/ begun # Unread /\ outcome = Collect(host, slice, begun, world)

\* What is at a place says so.
LEMMA AtItsPlace ==
    \A id \in Ids : \A e \in At(id) : e \in Entered /\ e["id"] = id
<1> TAKE id \in Ids
<1> TAKE e \in At(id)
<1>1. PICK entry \in Entries(host, slice, id) : e = Placed(id, entry)
  BY DEF At
<1>2. e["id"] = id
  BY <1>1 DEF Placed
<1> QED
  BY <1>2 DEF Entered

\* The text of a host at first.
LEMMA TextTyped ==
    ASSUME host \in Hosts, slice \in SlicesOf(host), NEW text \in TextOf(Ids)
    PROVE  text \in Seq(Contents) /\ OneEach(text, Len(Headings(host, slice)), Entered)
<1> DEFINE heading == Headings(host, slice)
           Ones(id) == {<<one>> : one \in At(id)}
           Pairs(p) == {<<one, other>> : one \in At(p[1]), other \in At(p[2])}
           Different == {q \in Ids \X Ids : q[1] # q[2]}
           Few == UNION {{<<>>}, UNION {Ones(id) : id \in Ids},
                         UNION {Pairs(p) : p \in Different}}
<1>1. heading \in Seq(ToSet(heading))
  BY HeadingsAssumption
<1>2. heading \in Seq(Contents)
  <2>1. Len(heading) \in Nat /\ heading \in [1..Len(heading) -> ToSet(heading)]
    BY <1>1, LenProperties
  <2>2. ToSet(heading) \subseteq Contents
    BY DEF Contents
  <2>3. heading \in [1..Len(heading) -> Contents]
    BY <2>1, <2>2
  <2> QED
    BY <2>1, <2>3, SeqDef
<1>3. Entered \in SUBSET Contents
  BY DEF Contents
<1>4. PICK t \in Few : text = heading \o t
  BY DEF TextOf
<1>5. t \in Seq(Contents) /\ OneEach(t, 0, Entered)
  <2>1. CASE t = <<>>
    BY <1>3, <2>1, FewEntries
  <2>2. CASE t \in UNION {Ones(id) : id \in Ids}
    <3>1. PICK id \in Ids : t \in Ones(id)
      BY <2>2
    <3>2. PICK one \in At(id) : t = <<one>>
      BY <3>1
    <3>3. one \in Entered
      BY AtItsPlace
    <3> QED
      BY <1>3, <3>2, <3>3, FewEntries
  <2>3. CASE t \in UNION {Pairs(p) : p \in Different}
    <3> HIDE DEF Pairs, Different
    <3>1. PICK p \in Different : t \in Pairs(p)
      BY <2>3
    <3>2. p[1] \in Ids /\ p[2] \in Ids /\ p[1] # p[2]
      BY <3>1 DEF Different
    <3>3. PICK one \in At(p[1]), other \in At(p[2]) : t = <<one, other>>
      BY <3>1 DEF Pairs
    <3>4. one \in Entered /\ other \in Entered /\ one["id"] = p[1] /\ other["id"] = p[2]
      BY <3>2, <3>3, AtItsPlace
    <3> QED
      BY <1>3, <3>2, <3>3, <3>4, FewEntries
  <2> QED
    BY <1>4, <2>1, <2>2, <2>3
<1> HIDE DEF heading, Few, Ones, Pairs, Different
<1>6. text \in Seq(Contents) /\ OneEach(text, Len(heading), Entered)
  BY <1>2, <1>3, <1>4, <1>5, HeadedText
<1> QED
  BY <1>6 DEF heading

\* The invariant holds before the first read.
LEMMA ScanInvInit == ScanInit => ScanInv
<1> SUFFICES ASSUME ScanInit PROVE ScanInv
  OBVIOUS
<1>1. host \in Hosts /\ slice \in SlicesOf(host) /\ begun = Unread /\ outcome = Unread
  BY DEF ScanInit
<1>2. world \in [tool : Tools(host, slice), place : Places(host, slice), entries : TextOf(Ids)]
  BY DEF ScanInit
<1>3. world.entries \in TextOf(Ids)
  BY <1>2
<1>4. world.entries \in Seq(Contents)
        /\ OneEach(world.entries, Len(Headings(host, slice)), Entered)
  BY <1>1, <1>3, TextTyped
<1>5. IsWorld(world)
  BY <1>2, <1>4 DEF IsWorld, HostStates
<1> QED
  BY <1>1, <1>5 DEF ScanInv

\* A state of the host with other entries.
LEMMA OtherEntries ==
    ASSUME NEW w \in HostStates, NEW t \in Seq(Contents),
           OneEach(t, Len(Headings(host, slice)), Entered)
    PROVE  IsWorld([w EXCEPT !.entries = t])
BY DEF IsWorld, HostStates

\* Whatever the host does while it is read, it is a host.
LEMMA HostStepTyped ==
    ASSUME host \in Hosts, slice \in SlicesOf(host), IsWorld(world),
           ToolChanges \/ PlaceChanges \/ EntryChanges \/ EntryGoes \/ EntryAppears
    PROVE  IsWorld(world')
<1> DEFINE h == Len(Headings(host, slice))
           s == world.entries
           P == Entered
           S == Contents
<1>1. h \in Nat
  BY HeadingsAssumption, LenProperties
<1>2. world \in HostStates /\ s \in Seq(S) /\ OneEach(s, h, P) /\ P \in SUBSET S
  BY DEF IsWorld, HostStates, Contents
<1>3. Body(world) = (h + 1)..Len(s)
  BY DEF Body
<1>4. CASE ToolChanges
  <2>1. PICK tool \in Tools(host, slice) : world' = [world EXCEPT !.tool = tool]
    BY <1>4 DEF ToolChanges
  <2>2. world' \in HostStates /\ world'.entries = s
    BY <1>2, <2>1 DEF HostStates
  <2> QED
    BY <1>2, <2>2 DEF IsWorld
<1>5. CASE PlaceChanges
  <2>1. PICK place \in Places(host, slice) : world' = [world EXCEPT !.place = place]
    BY <1>5 DEF PlaceChanges
  <2>2. world' \in HostStates /\ world'.entries = s
    BY <1>2, <2>1 DEF HostStates
  <2> QED
    BY <1>2, <2>2 DEF IsWorld
<1>6. CASE EntryChanges
  <2>1. PICK i \in Body(world) : \E entry \in At(s[i]["id"]) :
          world' = [world EXCEPT !.entries[i] = entry]
    BY <1>6 DEF EntryChanges
  <2>2. PICK entry \in At(s[i]["id"]) : world' = [world EXCEPT !.entries[i] = entry]
    BY <2>1
  <2>3. i \in (h + 1)..Len(s)
    BY <1>3
  <2>4. s[i] \in P
    BY <1>2, <2>3 DEF OneEach
  <2>5. PICK id \in Ids : s[i] \in At(id)
    BY <2>4 DEF Entered
  <2>6. s[i]["id"] = id
    BY <2>5, AtItsPlace
  <2>7. entry \in P /\ entry["id"] = s[i]["id"]
    BY <2>6, AtItsPlace
  <2> DEFINE t == [s EXCEPT ![i] = entry]
  <2>8. world' = [world EXCEPT !.entries = t]
    BY <1>2, <2>2 DEF HostStates
  <2> HIDE DEF h, s, P, S
  <2>9. t \in Seq(S) /\ OneEach(t, h, P)
    BY <1>1, <1>2, <2>3, <2>7, EntryReplaced
  <2> HIDE DEF t
  <2> QED
    BY <1>2, <2>8, <2>9, OtherEntries DEF h, P, S
<1>7. CASE EntryGoes
  <2>1. PICK i \in Body(world) : world' = [world EXCEPT !.entries = RemoveAt(s, i)]
    BY <1>7 DEF EntryGoes
  <2> DEFINE t == RemoveAt(s, i)
  <2>2. i \in (h + 1)..Len(s)
    BY <1>3
  <2>3. world' = [world EXCEPT !.entries = t]
    BY <2>1
  <2> HIDE DEF h, s, P, S
  <2>4. t \in Seq(S) /\ OneEach(t, h, P)
    BY <1>1, <1>2, <2>2, EntryRemoved
  <2> HIDE DEF t
  <2> QED
    BY <1>2, <2>3, <2>4, OtherEntries DEF h, P, S
<1>8. CASE EntryAppears
  <2>1. PICK id \in Ids \ {s[i]["id"] : i \in Body(world)} :
          \E entry \in At(id) : world' = [world EXCEPT !.entries = Append(s, entry)]
    BY <1>8 DEF EntryAppears
  <2>2. PICK entry \in At(id) : world' = [world EXCEPT !.entries = Append(s, entry)]
    BY <2>1
  <2>3. entry \in P /\ entry["id"] = id
    BY <2>1, AtItsPlace
  <2>4. \A i \in (h + 1)..Len(s) : s[i]["id"] # entry["id"]
    BY <1>3, <2>1, <2>3
  <2> DEFINE t == Append(s, entry)
  <2>5. world' = [world EXCEPT !.entries = t]
    BY <2>2
  <2> HIDE DEF h, s, P, S
  <2>6. t \in Seq(S) /\ OneEach(t, h, P)
    BY <1>1, <1>2, <2>3, <2>4, EntryAppended
  <2> HIDE DEF t
  <2> QED
    BY <1>2, <2>5, <2>6, OtherEntries DEF h, P, S
<1> QED
  BY <1>4, <1>5, <1>6, <1>7, <1>8

\* Every step of the monitor and of the host keeps it.
LEMMA ScanInvNext == ScanInv /\ [ScanNext]_scanVars => ScanInv'
<1> SUFFICES ASSUME ScanInv, [ScanNext]_scanVars PROVE ScanInv'
  OBVIOUS
<1>1. CASE UNCHANGED scanVars
  BY <1>1 DEF scanVars, ScanInv, IsWorld, HostStates, Contents, Entered, At
<1>2. CASE Begin
  BY <1>2 DEF Begin, ScanInv, IsWorld, HostStates, Contents, Entered, At
<1>3. CASE Finish
  BY <1>3 DEF Finish, ScanInv, IsWorld, HostStates, Contents, Entered, At
<1>4. CASE ToolChanges \/ PlaceChanges \/ EntryChanges \/ EntryGoes \/ EntryAppears
  <2>1. HostStep
    BY <1>4 DEF ToolChanges, PlaceChanges, EntryChanges, EntryGoes, EntryAppears
  <2>2. /\ host' = host /\ slice' = slice /\ begun' = begun /\ outcome' = outcome
        /\ outcome = Unread
    BY <2>1 DEF HostStep
  <2>3. host \in Hosts /\ slice \in SlicesOf(host) /\ IsWorld(world)
    BY DEF ScanInv
  <2>4. IsWorld(world')
    BY <1>4, <2>3, HostStepTyped
  <2> QED
    BY <2>2, <2>4 DEF ScanInv, IsWorld, HostStates, Contents, Entered, At
<1> QED
  BY <1>1, <1>2, <1>3, <1>4 DEF ScanNext

-----------------------------------------------------------------------------
(***************************************************************************)
(* Which group of collectors a host gives a slice to.                      *)
(***************************************************************************)

\* Which of its groups macOS collects a slice with.
LEMMA MacosGroups ==
    ASSUME NEW name, NEW b, NEW a
    PROVE  /\ name \in PortableSlices => MacosHost(name, b, a) = PortableCollectors(name, b, a)
           /\ name \in AccountSlices =>
                MacosHost(name, b, a) = AccountCollectors(name, a, MacosAccounts(a))
           /\ name \in CaptureSlices => MacosHost(name, b, a) = Capture(name, b, a)
           /\ name \in MacosDeviceSlices => MacosHost(name, b, a) = MacosDevices(name, b, a)
           /\ name \in MacosSoftwareSlices => MacosHost(name, b, a) = MacosSoftware(name, b, a)
           /\ name \in FileSlices => MacosHost(name, b, a) = Files(name, b, a)
           /\ name \in NeighborSlices => MacosHost(name, b, a) = MacosNeighborhood(name, b, a)
           /\ name = "injection_env" => MacosHost(name, b, a) = MacosPersistence(b, a)
           /\ name \in ExposureSlices \cup {"promiscuous_ifaces"} =>
                MacosHost(name, b, a) = MacosExposure(name, b, a)
BY DEF MacosHost, PortableSlices, AccountSlices, CaptureSlices, MacosDeviceSlices,
       MacosSoftwareSlices, FileSlices, NeighborSlices, ExposureSlices

\* The same for Linux.
LEMMA LinuxGroups ==
    ASSUME NEW name, NEW b, NEW a
    PROVE  /\ name \in PortableSlices => LinuxHost(name, b, a) = PortableCollectors(name, b, a)
           /\ name \in AccountSlices =>
                LinuxHost(name, b, a) = AccountCollectors(name, a, LinuxAccounts(a))
           /\ name \in CaptureSlices => LinuxHost(name, b, a) = Capture(name, b, a)
           /\ name \in LinuxDeviceSlices => LinuxHost(name, b, a) = LinuxDevices(name, b, a)
           /\ name \in LinuxSoftwareSlices => LinuxHost(name, b, a) = LinuxSoftware(name, b, a)
           /\ name \in FileSlices => LinuxHost(name, b, a) = Files(name, b, a)
           /\ name \in NeighborSlices => LinuxHost(name, b, a) = LinuxNeighborhood(name, b, a)
           /\ name \in PersistenceSlices => LinuxHost(name, b, a) = LinuxPersistence(name, a)
           /\ name \in ExposureSlices \cup {"promiscuous_ifaces"} =>
                LinuxHost(name, b, a) = LinuxExposure(name, b, a)
BY DEF LinuxHost, PortableSlices, AccountSlices, CaptureSlices, LinuxDeviceSlices,
       LinuxSoftwareSlices, FileSlices, NeighborSlices, PersistenceSlices, ExposureSlices

\* The same for Windows.
LEMMA WindowsGroups ==
    ASSUME NEW name, NEW b, NEW a
    PROVE  /\ name \in PortableSlices => WindowsHost(name, b, a) = PortableCollectors(name, b, a)
           /\ name \in AccountSlices =>
                WindowsHost(name, b, a) = AccountCollectors(name, a, WindowsAccounts(a))
           /\ name \in WindowsNativeSlices => WindowsHost(name, b, a) = WindowsNative(name, b, a)
           /\ name \in NeighborSlices => WindowsHost(name, b, a) = WindowsNeighborhood(name, b, a)
           /\ name \in PersistenceSlices => WindowsHost(name, b, a) = WindowsPersistence(name, b, a)
           /\ name \in ExposureSlices => WindowsHost(name, b, a) = WindowsExposure(name, b, a)
BY DEF WindowsHost, PortableSlices, AccountSlices, WindowsNativeSlices, NeighborSlices,
       PersistenceSlices, ExposureSlices

-----------------------------------------------------------------------------
(***************************************************************************)
(* A missing tool.                                                         *)
(***************************************************************************)

\* Every slice of macOS that has a command of its own fails without it.
LEMMA MissingOnMacos ==
    ASSUME NEW b, NEW a, b.tool = "missing", a.tool = "missing",
           NEW name \in UNION {CaptureSlices, NeighborSlices, ExposureSlices,
                               MacosDeviceSlices \ {"system_integrity", "system_extensions"},
                               {"promiscuous_ifaces", "injection_env"}}
    PROVE  MacosHost(name, b, a).failed
<1> USE DEF CommandSnapshot, MissingTool, Failed
<1>1. CASE name \in CaptureSlices
  <2>1. Capture(name, b, a).failed
    BY <1>1 DEF Capture, NetworkFlows, DnsQueries, CaptureFails, Ranked, CaptureSlices
  <2> QED
    BY <1>1, <2>1, MacosGroups
<1>2. CASE name \in NeighborSlices
  <2>1. MacosNeighborhood(name, b, a).failed
    BY <1>2 DEF MacosNeighborhood, NeighborSlices
  <2> QED
    BY <1>2, <2>1, MacosGroups
<1>3. CASE name \in ExposureSlices \cup {"promiscuous_ifaces"}
  <2>1. MacosExposure(name, b, a).failed
    BY <1>3 DEF MacosExposure, ExposureSlices
  <2> QED
    BY <1>3, <2>1, MacosGroups
<1>4. CASE name = "injection_env"
  <2>1. MacosPersistence(b, a).failed
    BY DEF MacosPersistence
  <2> QED
    BY <1>4, <2>1, MacosGroups
<1>5. CASE name \in MacosDeviceSlices \ {"system_integrity", "system_extensions"}
  <2>1. MacosDevices(name, b, a).failed
    BY <1>5 DEF MacosDevices, MacosDeviceSlices, UsbDevices, Bluetooth, Wifi, MdmProfiles,
                KernelExtensions, SystemProfiler, ProfilerReport, ReportRows, Sections,
                JsonDocument, ReportEntries
  <2> QED
    BY <1>5, <2>1, MacosGroups
<1> QED
  BY <1>1, <1>2, <1>3, <1>4, <1>5

\* Every slice of Linux that has a command of its own fails without it.
LEMMA MissingOnLinux ==
    ASSUME NEW b, NEW a, b.tool = "missing", a.tool = "missing",
           NEW name \in UNION {CaptureSlices, NeighborSlices \ {"dns_resolvers"},
                               {"login_sessions", "promiscuous_ifaces", "trusted_roots"}}
    PROVE  LinuxHost(name, b, a).failed
<1> USE DEF CommandSnapshot, MissingTool, Failed
<1>1. CASE name \in CaptureSlices
  <2>1. Capture(name, b, a).failed
    BY <1>1 DEF Capture, NetworkFlows, DnsQueries, CaptureFails, Ranked, CaptureSlices
  <2> QED
    BY <1>1, <2>1, LinuxGroups
<1>2. CASE name \in NeighborSlices \ {"dns_resolvers"}
  <2>1. LinuxNeighborhood(name, b, a).failed
    BY <1>2 DEF LinuxNeighborhood, NeighborSlices
  <2> QED
    BY <1>2, <2>1, LinuxGroups
<1>3. CASE name \in {"login_sessions", "promiscuous_ifaces", "trusted_roots"}
  <2>1. LinuxExposure(name, b, a).failed
    BY <1>3 DEF LinuxExposure
  <2>2. name \in ExposureSlices \cup {"promiscuous_ifaces"}
    BY <1>3 DEF ExposureSlices
  <2> QED
    BY <2>1, <2>2, LinuxGroups
<1> QED
  BY <1>1, <1>2, <1>3

\* Every slice of Windows that has a command of its own fails without it.
LEMMA MissingOnWindows ==
    ASSUME NEW b, NEW a, b.tool = "missing", a.tool = "missing",
           NEW name \in UNION {NeighborSlices, ExposureSlices, PersistenceSlices,
                               WindowsNativeSlices \ {"wifi_state"}}
    PROVE  WindowsHost(name, b, a).failed
<1> USE DEF CommandSnapshot, MissingTool, Failed
<1>1. CASE name \in NeighborSlices
  <2>1. WindowsNeighborhood(name, b, a).failed
    BY <1>1 DEF WindowsNeighborhood, NeighborSlices
  <2> QED
    BY <1>1, <2>1, WindowsGroups
<1>2. CASE name \in ExposureSlices
  <2>1. WindowsExposure(name, b, a).failed
    BY <1>2 DEF WindowsExposure, ExposureSlices
  <2> QED
    BY <1>2, <2>1, WindowsGroups
<1>3. CASE name \in PersistenceSlices
  <2>1. WindowsPersistence(name, b, a).failed
    BY <1>3 DEF WindowsPersistence, PersistenceSlices
  <2> QED
    BY <1>3, <2>1, WindowsGroups
<1>4. CASE name \in WindowsNativeSlices \ {"wifi_state"}
  <2>1. WindowsNative(name, b, a).failed
    BY <1>4 DEF WindowsNative, WindowsNativeSlices, WindowsInstalledApps, WindowsLaunchItems,
                WindowsIntegrity, WindowsUsb, WindowsBluetooth, PowerShell, ReportRows,
                ReportEntries, Both
  <2> QED
    BY <1>4, <2>1, WindowsGroups
<1> QED
  BY <1>1, <1>2, <1>3, <1>4

\* On every platform, a slice whose command is missing throughout is a failed
\* collection (MissingToolError) and never an empty success.
THEOREM MissingIsVisible == ScanSpec => []MissingToolIsVisible
<1>1. ASSUME ScanInv, Ended, slice \in CommandSlices, "missing" = begun.tool, "missing" = world.tool
      PROVE  outcome.failed
  <2>1. outcome = Collect(host, slice, begun, world) /\ host \in Hosts
    BY <1>1 DEF ScanInv, Ended
  <2>2. CASE host = "Darwin"
    BY <1>1, <2>1, <2>2, MissingOnMacos DEF Collect, CommandSlices
  <2>3. CASE host = "Linux"
    BY <1>1, <2>1, <2>3, MissingOnLinux DEF Collect, CommandSlices
  <2>4. CASE host = "Windows"
    BY <1>1, <2>1, <2>4, MissingOnWindows DEF Collect, CommandSlices
  <2> QED
    BY <2>1, <2>2, <2>3, <2>4 DEF Hosts
<1>2. ScanInv => MissingToolIsVisible
  BY <1>1 DEF MissingToolIsVisible
<1> QED
  BY <1>2, ScanInvInit, ScanInvNext, PTL DEF ScanSpec

-----------------------------------------------------------------------------
(***************************************************************************)
(* The collectors that make every read at the end.                         *)
(***************************************************************************)

\* A collection is one of the host as it is at the end, but for a tool that
\* comes or goes meanwhile, which leaves it without rows.
AtTheEnd(b, a, collected, then) ==
    /\ collected = then \/ collected.rows = {}
    /\ ~collected.failed /\ b.tool = a.tool => collected = then

\* No parser makes a row of an empty text.
LEMMA EmptyText ==
    /\ Outcome(MacosArp(<<>>)).rows = {}
    /\ Outcome(MacosNdp(<<>>)).rows = {}
    /\ Outcome(MacosRoutes(<<>>)).rows = {}
    /\ Outcome(MacosDns(<<>>)).rows = {}
    /\ Outcome(MacosProxy(<<>>)).rows = {}
    /\ Outcome(Who(<<>>)).rows = {}
    /\ Outcome(MacosMountShares(<<>>)).rows = {}
    /\ Outcome(MacosPromisc(<<>>)).rows = {}
    /\ Outcome(MacosCert(<<>>)).rows = {}
    /\ \A variable, scope : Outcome(EnvValue(<<>>, variable, scope)).rows = {}
    /\ \A key : Outcome(IpNeigh(<<>>, key)).rows = {}
    /\ Outcome(IpRoutes(<<>>)).rows = {}
    /\ Outcome(LinuxPromisc(<<>>)).rows = {}
    /\ Outcome(LinuxTrustList(<<>>)).rows = {}
    /\ \A key : Outcome(PsNeighbor(<<>>, key)).rows = {}
    /\ Outcome(PsRoute(<<>>)).rows = {}
    /\ Outcome(PsDns(<<>>)).rows = {}
    /\ Outcome(WindowsProxy(<<>>)).rows = {}
    /\ Outcome(WindowsSession(<<>>)).rows = {}
    /\ Outcome(WindowsShares(<<>>)).rows = {}
    /\ Outcome(WindowsCert(<<>>)).rows = {}
    /\ Outcome(WindowsAppInit(<<>>)).rows = {}
    /\ Outcome(WindowsDriver(<<>>)).rows = {}
<1>1. ASSUME NEW rows, DOMAIN rows = {}
      PROVE  Outcome(rows).rows = {}
  BY <1>1 DEF Outcome, Failed
<1>2. /\ DOMAIN MacosArp(<<>>) = {}
      /\ DOMAIN MacosNdp(<<>>) = {}
      /\ DOMAIN MacosRoutes(<<>>) = {}
      /\ DOMAIN MacosDns(<<>>) = {}
      /\ DOMAIN MacosProxy(<<>>) = {}
      /\ DOMAIN Who(<<>>) = {}
      /\ DOMAIN MacosMountShares(<<>>) = {}
      /\ DOMAIN MacosPromisc(<<>>) = {}
      /\ DOMAIN MacosCert(<<>>) = {}
  BY DEF EachEntry, MacosArp, MacosNdp, MacosRoutes, MacosDns, MacosProxy, Who,
         MacosMountShares, MacosPromisc, MacosCert
<1>3. /\ \A variable, scope : DOMAIN EnvValue(<<>>, variable, scope) = {}
      /\ \A key : DOMAIN IpNeigh(<<>>, key) = {}
      /\ DOMAIN IpRoutes(<<>>) = {}
      /\ DOMAIN LinuxPromisc(<<>>) = {}
      /\ DOMAIN LinuxTrustList(<<>>) = {}
  BY DEF EachEntry, EnvValue, IpNeigh, IpRoutes, LinuxPromisc, LinuxTrustList
<1>4. /\ \A key : DOMAIN PsNeighbor(<<>>, key) = {}
      /\ DOMAIN PsRoute(<<>>) = {}
      /\ DOMAIN PsDns(<<>>) = {}
      /\ DOMAIN WindowsProxy(<<>>) = {}
      /\ DOMAIN WindowsSession(<<>>) = {}
      /\ DOMAIN WindowsShares(<<>>) = {}
      /\ DOMAIN WindowsCert(<<>>) = {}
      /\ DOMAIN WindowsAppInit(<<>>) = {}
      /\ DOMAIN WindowsDriver(<<>>) = {}
  BY DEF EachEntry, Objects, ObjectRow, PsNeighbor, PsRoute, PsDns, WindowsProxy,
         WindowsSession, WindowsShares, WindowsCert, WindowsAppInit, WindowsDriver
<1> QED
  BY <1>1, <1>2, <1>3, <1>4

\* The commands of macOS.
LEMMA MacosCommandsAtTheEnd ==
    ASSUME NEW b, NEW a
    PROVE  /\ \A name \in NeighborSlices :
                AtTheEnd(b, a, MacosNeighborhood(name, b, a), MacosNeighborhood(name, a, a))
           /\ \A name \in ExposureSlices \cup {"promiscuous_ifaces"} :
                AtTheEnd(b, a, MacosExposure(name, b, a), MacosExposure(name, a, a))
           /\ AtTheEnd(b, a, MacosPersistence(b, a), MacosPersistence(a, a))
<1> USE DEF CommandSnapshot, MissingTool, Failed
<1> Text(a) = <<>> \/ a.tool = "ok"
  BY DEF Text
<1>1. ASSUME NEW name \in NeighborSlices
      PROVE  AtTheEnd(b, a, MacosNeighborhood(name, b, a), MacosNeighborhood(name, a, a))
  BY EmptyText DEF AtTheEnd, MacosNeighborhood, NeighborSlices
<1>2. ASSUME NEW name \in ExposureSlices \cup {"promiscuous_ifaces"}
      PROVE  AtTheEnd(b, a, MacosExposure(name, b, a), MacosExposure(name, a, a))
  BY EmptyText DEF AtTheEnd, MacosExposure, ExposureSlices
<1>3. AtTheEnd(b, a, MacosPersistence(b, a), MacosPersistence(a, a))
  BY EmptyText DEF AtTheEnd, MacosPersistence
<1> QED
  BY <1>1, <1>2, <1>3

\* The commands of Linux.
LEMMA LinuxCommandsAtTheEnd ==
    ASSUME NEW b, NEW a
    PROVE  /\ \A name \in NeighborSlices :
                AtTheEnd(b, a, LinuxNeighborhood(name, b, a), LinuxNeighborhood(name, a, a))
           /\ \A name \in ExposureSlices \cup {"promiscuous_ifaces"} :
                AtTheEnd(b, a, LinuxExposure(name, b, a), LinuxExposure(name, a, a))
<1> USE DEF CommandSnapshot, FileSnapshot, MissingTool, Failed
<1> Text(a) = <<>> \/ a.tool = "ok"
  BY DEF Text
<1>1. ASSUME NEW name \in NeighborSlices
      PROVE  AtTheEnd(b, a, LinuxNeighborhood(name, b, a), LinuxNeighborhood(name, a, a))
  BY EmptyText DEF AtTheEnd, LinuxNeighborhood, NeighborSlices
<1>2. ASSUME NEW name \in ExposureSlices \cup {"promiscuous_ifaces"}
      PROVE  AtTheEnd(b, a, LinuxExposure(name, b, a), LinuxExposure(name, a, a))
  BY EmptyText DEF AtTheEnd, LinuxExposure, ExposureSlices
<1> QED
  BY <1>1, <1>2

\* The commands of Windows.
LEMMA WindowsCommandsAtTheEnd ==
    ASSUME NEW b, NEW a
    PROVE  /\ \A name \in NeighborSlices :
                AtTheEnd(b, a, WindowsNeighborhood(name, b, a), WindowsNeighborhood(name, a, a))
           /\ \A name \in ExposureSlices :
                AtTheEnd(b, a, WindowsExposure(name, b, a), WindowsExposure(name, a, a))
           /\ \A name \in PersistenceSlices :
                AtTheEnd(b, a, WindowsPersistence(name, b, a), WindowsPersistence(name, a, a))
<1> USE DEF CommandSnapshot, MissingTool, Failed
<1> Text(a) = <<>> \/ a.tool = "ok"
  BY DEF Text
<1>1. ASSUME NEW name \in NeighborSlices
      PROVE  AtTheEnd(b, a, WindowsNeighborhood(name, b, a), WindowsNeighborhood(name, a, a))
  BY EmptyText DEF AtTheEnd, WindowsNeighborhood, NeighborSlices
<1>2. ASSUME NEW name \in ExposureSlices
      PROVE  AtTheEnd(b, a, WindowsExposure(name, b, a), WindowsExposure(name, a, a))
  BY EmptyText DEF AtTheEnd, WindowsExposure, ExposureSlices
<1>3. ASSUME NEW name \in PersistenceSlices
      PROVE  AtTheEnd(b, a, WindowsPersistence(name, b, a), WindowsPersistence(name, a, a))
  BY EmptyText DEF AtTheEnd, WindowsPersistence, PersistenceSlices
<1> QED
  BY <1>1, <1>2, <1>3

\* What every host collects alike, and what reads once.
LEMMA OthersAtTheEnd ==
    ASSUME NEW b, NEW a
    PROVE  /\ \A name \in CaptureSlices : AtTheEnd(b, a, Capture(name, b, a), Capture(name, a, a))
           /\ \A name \in PortableSlices \ {"processes", "listening_ports", "disk_usage"} :
                PortableCollectors(name, b, a) = PortableCollectors(name, a, a)
           /\ \A name \in MacosDeviceSlices \ {"system_integrity"} :
                MacosDevices(name, b, a) = MacosDevices(name, a, a)
           /\ MacosSoftware("quarantine_events", b, a) = MacosSoftware("quarantine_events", a, a)
           /\ LinuxDevices("log_entries", b, a) = LinuxDevices("log_entries", a, a)
           /\ \A name \in WindowsNativeSlices \ {"launch_items"} :
                WindowsNative(name, b, a) = WindowsNative(name, a, a)
<1>1. \A name \in CaptureSlices : AtTheEnd(b, a, Capture(name, b, a), Capture(name, a, a))
  BY DEF AtTheEnd, Capture, NetworkFlows, DnsQueries, CaptureFails, Ranked, CaptureSlices, Failed
<1> QED
  BY <1>1 DEF PortableSlices, PortableCollectors, MacosDeviceSlices, MacosDevices, MacosSoftware,
              LinuxDevices, WindowsNativeSlices, WindowsNative

\* The slices that are read more than once, or at the beginning too.
ReadTwice(system) ==
    {"processes", "listening_ports", "disk_usage", "file_integrity", "file_scan",
     "setuid_files", "browser_extensions", "launch_items"}
      \cup (CASE system = "Darwin" -> {"installed_apps", "system_integrity"}
              [] system = "Linux" -> {"installed_apps", "system_integrity", "usb_devices",
                                      "bluetooth_devices", "wifi_state"}
              [] system = "Windows" -> {})

\* Every other slice is read at the end.
LEMMA ReadAtTheEnd ==
    ASSUME NEW system \in Hosts, NEW name \in SlicesOf(system) \ ReadTwice(system), NEW b, NEW a
    PROVE  AtTheEnd(b, a, Collect(system, name, b, a), Collect(system, name, a, a))
<1>1. \A collected : AtTheEnd(b, a, collected, collected)
  BY DEF AtTheEnd
<1>2. CASE system = "Darwin"
  <2>1. name \in UNION {AccountSlices, CaptureSlices, MacosDeviceSlices \ {"system_integrity"},
                        NeighborSlices, ExposureSlices, {"promiscuous_ifaces", "injection_env"},
                        {"quarantine_events"},
                        PortableSlices \ {"processes", "listening_ports", "disk_usage"}}
    BY <1>2 DEF SlicesOf, MacosSlices, ReadTwice, MacosSoftwareSlices, FileSlices, PortableSlices
  <2>2. AtTheEnd(b, a, MacosHost(name, b, a), MacosHost(name, a, a))
    <3>1. name = "quarantine_events" => name \in MacosSoftwareSlices
      BY DEF MacosSoftwareSlices
    <3> QED
      BY <1>1, <2>1, <3>1, MacosGroups, MacosCommandsAtTheEnd, OthersAtTheEnd
  <2> QED
    BY <1>2, <2>2 DEF Collect
<1>3. CASE system = "Linux"
  <2>1. name \in UNION {AccountSlices, CaptureSlices, {"log_entries", "promiscuous_ifaces"},
                        NeighborSlices, ExposureSlices, PersistenceSlices,
                        PortableSlices \ {"processes", "listening_ports", "disk_usage"}}
    BY <1>3 DEF SlicesOf, LinuxSlices, ReadTwice, LinuxSoftwareSlices, LinuxDeviceSlices,
                FileSlices, PortableSlices
  <2>2. AtTheEnd(b, a, LinuxHost(name, b, a), LinuxHost(name, a, a))
    <3>1. name = "log_entries" => name \in LinuxDeviceSlices
      BY DEF LinuxDeviceSlices
    <3> QED
      BY <1>1, <2>1, <3>1, LinuxGroups, LinuxCommandsAtTheEnd, OthersAtTheEnd
  <2> QED
    BY <1>3, <2>2 DEF Collect
<1>4. CASE system = "Windows"
  <2>1. name \in UNION {AccountSlices, NeighborSlices, ExposureSlices, PersistenceSlices,
                        WindowsNativeSlices \ {"launch_items"},
                        PortableSlices \ {"processes", "listening_ports", "disk_usage"}}
    BY <1>4 DEF SlicesOf, WindowsSlices, ReadTwice, PortableSlices
  <2>2. AtTheEnd(b, a, WindowsHost(name, b, a), WindowsHost(name, a, a))
    <3>1. CASE name \in UNION {NeighborSlices, ExposureSlices, PersistenceSlices}
      BY <3>1, WindowsGroups, WindowsCommandsAtTheEnd
    <3>2. CASE name \in WindowsNativeSlices \ {"launch_items"}
      BY <1>1, <3>2, WindowsGroups, OthersAtTheEnd
    <3>3. CASE name \in AccountSlices
      BY <1>1, <3>3, WindowsGroups
    <3>4. CASE name \in PortableSlices \ {"processes", "listening_ports", "disk_usage"}
      BY <1>1, <3>4, WindowsGroups, OthersAtTheEnd
    <3> QED
      BY <2>1, <3>1, <3>2, <3>3, <3>4
  <2> QED
    BY <1>4, <2>2 DEF Collect
<1> QED
  BY <1>2, <1>3, <1>4 DEF Hosts

-----------------------------------------------------------------------------
(***************************************************************************)
(* The collectors for which an entry counts as if it stood alone.          *)
(***************************************************************************)

\* One entry of a state of the host, on a host where there is nothing else.
AloneIn(v, w, j) ==
    /\ j \in DOMAIN w.entries
    /\ v.tool = w.tool /\ v.place = w.place /\ v.entries = <<w.entries[j]>>

\* A success holds the rows of its part.
Kept(part, whole) == ~whole.failed => part.rows \subseteq whole.rows

\* What two sources keep, they keep together.
LEMMA BothKept ==
    ASSUME NEW p1, NEW p2, NEW w1, NEW w2, Kept(p1, w1), Kept(p2, w2)
    PROVE  Kept(Both(p1, p2), Both(w1, w2))
BY DEF Kept, Both, Failed

\* The parsers of macOS take one line at a time.
LEMMA MacosParsersKeep ==
    ASSUME NEW s, NEW j \in DOMAIN s
    PROVE  /\ Kept(Outcome(MacosArp(<<s[j]>>)), Outcome(MacosArp(s)))
           /\ Kept(Outcome(MacosNdp(<<s[j]>>)), Outcome(MacosNdp(s)))
           /\ Kept(Outcome(MacosDns(<<s[j]>>)), Outcome(MacosDns(s)))
           /\ Kept(Outcome(MacosProxy(<<s[j]>>)), Outcome(MacosProxy(s)))
           /\ Kept(Outcome(Who(<<s[j]>>)), Outcome(Who(s)))
           /\ Kept(Outcome(MacosMountShares(<<s[j]>>)), Outcome(MacosMountShares(s)))
           /\ Kept(Outcome(MacosPromisc(<<s[j]>>)), Outcome(MacosPromisc(s)))
           /\ \A variable, scope : Kept(Outcome(EnvValue(<<s[j]>>, variable, scope)),
                                        Outcome(EnvValue(s, variable, scope)))
<1> USE DEF Kept, Outcome, EachEntry, Failed
<1>1. Kept(Outcome(MacosArp(<<s[j]>>)), Outcome(MacosArp(s)))
  BY DEF MacosArp
<1>2. Kept(Outcome(MacosNdp(<<s[j]>>)), Outcome(MacosNdp(s)))
  BY DEF MacosNdp
<1>3. Kept(Outcome(MacosDns(<<s[j]>>)), Outcome(MacosDns(s)))
  BY DEF MacosDns
<1>4. Kept(Outcome(MacosProxy(<<s[j]>>)), Outcome(MacosProxy(s)))
  BY DEF MacosProxy
<1>5. Kept(Outcome(Who(<<s[j]>>)), Outcome(Who(s)))
  BY DEF Who
<1>6. Kept(Outcome(MacosMountShares(<<s[j]>>)), Outcome(MacosMountShares(s)))
  BY DEF MacosMountShares
<1>7. Kept(Outcome(MacosPromisc(<<s[j]>>)), Outcome(MacosPromisc(s)))
  BY DEF MacosPromisc
<1>8. ASSUME NEW variable, NEW scope
      PROVE  Kept(Outcome(EnvValue(<<s[j]>>, variable, scope)),
                  Outcome(EnvValue(s, variable, scope)))
  BY DEF EnvValue
<1> HIDE DEF Kept, Outcome, EachEntry, Failed
<1> QED
  BY <1>1, <1>2, <1>3, <1>4, <1>5, <1>6, <1>7, <1>8

\* The parsers of Linux do.
LEMMA LinuxParsersKeep ==
    ASSUME NEW s, NEW j \in DOMAIN s
    PROVE  /\ \A key : Kept(Outcome(IpNeigh(<<s[j]>>, key)), Outcome(IpNeigh(s, key)))
           /\ Kept(Outcome(IpRoutes(<<s[j]>>)), Outcome(IpRoutes(s)))
           /\ Kept(Outcome(LinuxProxyEnv(<<s[j]>>)), Outcome(LinuxProxyEnv(s)))
           /\ Kept(Outcome(ProcMountsShares(<<s[j]>>)), Outcome(ProcMountsShares(s)))
           /\ Kept(Outcome(LinuxPromisc(<<s[j]>>)), Outcome(LinuxPromisc(s)))
           /\ Kept(Outcome(LinuxTrustList(<<s[j]>>)), Outcome(LinuxTrustList(s)))
           /\ Kept(Outcome(LdSoPreload(<<s[j]>>)), Outcome(LdSoPreload(s)))
           /\ Kept(Outcome(ProcModules(<<s[j]>>)), Outcome(ProcModules(s)))
<1> USE DEF Kept, Outcome, EachEntry, Failed
<1>1. ASSUME NEW key
      PROVE  Kept(Outcome(IpNeigh(<<s[j]>>, key)), Outcome(IpNeigh(s, key)))
  BY DEF IpNeigh
<1>2. Kept(Outcome(IpRoutes(<<s[j]>>)), Outcome(IpRoutes(s)))
  BY DEF IpRoutes
<1>3. Kept(Outcome(LinuxProxyEnv(<<s[j]>>)), Outcome(LinuxProxyEnv(s)))
  BY DEF LinuxProxyEnv
<1>4. Kept(Outcome(ProcMountsShares(<<s[j]>>)), Outcome(ProcMountsShares(s)))
  BY DEF ProcMountsShares
<1>5. Kept(Outcome(LinuxPromisc(<<s[j]>>)), Outcome(LinuxPromisc(s)))
  BY DEF LinuxPromisc
<1>6. Kept(Outcome(LinuxTrustList(<<s[j]>>)), Outcome(LinuxTrustList(s)))
  BY DEF LinuxTrustList
<1>7. Kept(Outcome(LdSoPreload(<<s[j]>>)), Outcome(LdSoPreload(s)))
  BY DEF LdSoPreload
<1>8. Kept(Outcome(ProcModules(<<s[j]>>)), Outcome(ProcModules(s)))
  BY DEF ProcModules
<1> HIDE DEF Kept, Outcome, EachEntry, Failed
<1> QED
  BY <1>1, <1>2, <1>3, <1>4, <1>5, <1>6, <1>7, <1>8

\* The parsers of Windows take one object at a time.
LEMMA WindowsParsersKeep ==
    ASSUME NEW s, NEW j \in DOMAIN s
    PROVE  /\ \A key : Kept(Outcome(PsNeighbor(<<s[j]>>, key)), Outcome(PsNeighbor(s, key)))
           /\ Kept(Outcome(PsRoute(<<s[j]>>)), Outcome(PsRoute(s)))
           /\ Kept(Outcome(PsDns(<<s[j]>>)), Outcome(PsDns(s)))
           /\ Kept(Outcome(WindowsProxy(<<s[j]>>)), Outcome(WindowsProxy(s)))
           /\ Kept(Outcome(WindowsSession(<<s[j]>>)), Outcome(WindowsSession(s)))
           /\ Kept(Outcome(WindowsShares(<<s[j]>>)), Outcome(WindowsShares(s)))
           /\ Kept(Outcome(WindowsCert(<<s[j]>>)), Outcome(WindowsCert(s)))
           /\ Kept(Outcome(WindowsAppInit(<<s[j]>>)), Outcome(WindowsAppInit(s)))
           /\ Kept(Outcome(WindowsDriver(<<s[j]>>)), Outcome(WindowsDriver(s)))
<1> USE DEF Kept, Outcome, EachEntry, Objects, ObjectRow, Failed
<1>1. ASSUME NEW key
      PROVE  Kept(Outcome(PsNeighbor(<<s[j]>>, key)), Outcome(PsNeighbor(s, key)))
  BY DEF PsNeighbor
<1>2. Kept(Outcome(PsRoute(<<s[j]>>)), Outcome(PsRoute(s)))
  BY DEF PsRoute
<1>3. Kept(Outcome(PsDns(<<s[j]>>)), Outcome(PsDns(s)))
  BY DEF PsDns
<1>4. Kept(Outcome(WindowsProxy(<<s[j]>>)), Outcome(WindowsProxy(s)))
  BY DEF WindowsProxy
<1>5. Kept(Outcome(WindowsSession(<<s[j]>>)), Outcome(WindowsSession(s)))
  BY DEF WindowsSession
<1>6. Kept(Outcome(WindowsShares(<<s[j]>>)), Outcome(WindowsShares(s)))
  BY DEF WindowsShares
<1>7. Kept(Outcome(WindowsCert(<<s[j]>>)), Outcome(WindowsCert(s)))
  BY DEF WindowsCert
<1>8. Kept(Outcome(WindowsAppInit(<<s[j]>>)), Outcome(WindowsAppInit(s)))
  BY DEF WindowsAppInit
<1>9. Kept(Outcome(WindowsDriver(<<s[j]>>)), Outcome(WindowsDriver(s)))
  BY DEF WindowsDriver
<1> HIDE DEF Kept, Outcome, EachEntry, Objects, ObjectRow, Failed
<1> QED
  BY <1>1, <1>2, <1>3, <1>4, <1>5, <1>6, <1>7, <1>8, <1>9

\* A certificate that has a hash of its own is shown with it.
LEMMA MacosCertKeeps ==
    ASSUME NEW S, NEW s \in Seq(S), NEW j \in DOMAIN s
    PROVE  Kept(Outcome(MacosCert(<<s[j]>>)), Outcome(MacosCert(s)))
<1>1. j \in Nat /\ 1 <= j /\ 1 \in Nat
  BY LenProperties
<1> DEFINE one == <<s[j]>>
<1>2. DOMAIN one = {1} /\ one[1] = s[j]
  OBVIOUS
<1>3. DOMAIN MacosCert(one) = {1} /\ DOMAIN MacosCert(s) = DOMAIN s
  BY <1>2 DEF MacosCert
<1>4. MacosCert(one)[1] = Skip \/ MacosCert(one)[1] = MacosCert(s)[j]
  <2> DEFINE Offers(certs, k, i) == /\ "hash" \in DOMAIN certs[k]
                                    /\ \A m \in k..(i - 1) : "label" \notin DOMAIN certs[m]
             Pending(certs, i) == {k \in 1..i : Offers(certs, k, i)}
             Newest(certs, i) == CHOOSE k \in Pending(certs, i) :
                                   \A m \in Pending(certs, i) : m <= k
  <2>1. MacosCert(one)[1] = IF "label" \in DOMAIN one[1] /\ Pending(one, 1) # {}
                            THEN [subject |-> one[1]["label"],
                                  fingerprint |-> one[Newest(one, 1)]["hash"]]
                            ELSE Skip
    BY <1>2 DEF MacosCert
  <2>2. MacosCert(s)[j] = IF "label" \in DOMAIN s[j] /\ Pending(s, j) # {}
                          THEN [subject |-> s[j]["label"],
                                fingerprint |-> s[Newest(s, j)]["hash"]]
                          ELSE Skip
    BY DEF MacosCert
  <2> SUFFICES ASSUME "label" \in DOMAIN s[j], Pending(one, 1) # {}
               PROVE  MacosCert(one)[1] = MacosCert(s)[j]
    BY <1>2, <2>1
  <2>3. Pending(one, 1) = {1} /\ "hash" \in DOMAIN s[j]
    BY <1>2
  <2>4. Newest(one, 1) = 1
    BY <2>3
  <2>5. j \in Pending(s, j) /\ \A m \in Pending(s, j) : m <= j
    BY <1>1, <2>3
  <2>6. Newest(s, j) = j
    <3>1. \A k \in Pending(s, j) : (\A m \in Pending(s, j) : m <= k) => k = j
      BY <1>1, <2>5
    <3> HIDE DEF Pending
    <3> QED
      BY <2>5, <3>1
  <2> HIDE DEF Pending, Newest
  <2> QED
    BY <1>2, <2>1, <2>2, <2>3, <2>4, <2>5, <2>6
<1> HIDE DEF one
<1>5. Kept(Outcome(MacosCert(one)), Outcome(MacosCert(s)))
  BY <1>3, <1>4 DEF Kept, Outcome, Failed
<1> QED
  BY <1>5 DEF one

\* One row of many.
LEMMA RowKept ==
    ASSUME NEW all, NEW j \in DOMAIN all, NEW one, DOMAIN one = {1}, one[1] = all[j]
    PROVE  Kept(Outcome(one), Outcome(all))
BY DEF Kept, Outcome, Failed

\* A collection holds its own rows.
LEMMA KeptItself == \A collected : Kept(collected, collected)
BY DEF Kept

\* What a command prints, and what a file holds, of one entry and of all.
LEMMA TextAlone ==
    ASSUME NEW w, NEW v, NEW j, AloneIn(v, w, j)
    PROVE  /\ MissingTool(v) = MissingTool(w) /\ FileReads(v) = FileReads(w)
           /\ \/ Text(v) = <<w.entries[j]>> /\ Text(w) = w.entries
              \/ Text(v) = Text(w)
BY DEF AloneIn, MissingTool, FileReads, Text

\* The commands of macOS, routes apart, whose headings count.
LEMMA MacosCommandsKeep ==
    ASSUME NEW S, NEW w, w.entries \in Seq(S), NEW v, NEW j, AloneIn(v, w, j)
    PROVE  /\ \A name \in NeighborSlices \ {"routes"} :
                Kept(MacosNeighborhood(name, v, v), MacosNeighborhood(name, w, w))
           /\ \A name \in ExposureSlices \cup {"promiscuous_ifaces"} :
                Kept(MacosExposure(name, v, v), MacosExposure(name, w, w))
           /\ Kept(MacosPersistence(v, v), MacosPersistence(w, w))
<1>1. /\ j \in DOMAIN w.entries /\ \A collected : Kept(collected, collected)
      /\ Kept(Outcome(MacosCert(<<w.entries[j]>>)), Outcome(MacosCert(w.entries)))
  BY MacosCertKeeps DEF AloneIn, Kept
<1> USE DEF CommandSnapshot
<1>2. ASSUME NEW name \in NeighborSlices \ {"routes"}
      PROVE  Kept(MacosNeighborhood(name, v, v), MacosNeighborhood(name, w, w))
  BY <1>1, TextAlone, MacosParsersKeep DEF MacosNeighborhood, NeighborSlices
<1>3. ASSUME NEW name \in ExposureSlices \cup {"promiscuous_ifaces"}
      PROVE  Kept(MacosExposure(name, v, v), MacosExposure(name, w, w))
  BY <1>1, TextAlone, MacosParsersKeep DEF MacosExposure, ExposureSlices
<1>4. Kept(MacosPersistence(v, v), MacosPersistence(w, w))
  BY <1>1, TextAlone, MacosParsersKeep DEF MacosPersistence
<1> QED
  BY <1>2, <1>3, <1>4

\* The commands of Linux, resolv.conf apart, whose search words count.
LEMMA LinuxCommandsKeep ==
    ASSUME NEW w, NEW v, NEW j, AloneIn(v, w, j)
    PROVE  /\ \A name \in NeighborSlices \ {"dns_resolvers"} :
                Kept(LinuxNeighborhood(name, v, v), LinuxNeighborhood(name, w, w))
           /\ \A name \in ExposureSlices \cup {"promiscuous_ifaces"} :
                Kept(LinuxExposure(name, v, v), LinuxExposure(name, w, w))
           /\ \A name \in PersistenceSlices :
                Kept(LinuxPersistence(name, v), LinuxPersistence(name, w))
<1>1. /\ j \in DOMAIN w.entries /\ \A collected : Kept(collected, collected)
      /\ v.entries = <<w.entries[j]>>
  BY DEF AloneIn, Kept
<1>2. Kept(Outcome(Who(<<w.entries[j]>>)), Outcome(Who(w.entries)))
  BY <1>1, MacosParsersKeep
<1> USE DEF CommandSnapshot, FileSnapshot
<1>3. ASSUME NEW name \in NeighborSlices \ {"dns_resolvers"}
      PROVE  Kept(LinuxNeighborhood(name, v, v), LinuxNeighborhood(name, w, w))
  <2>1. name \in {"arp_table", "ndp_neighbors", "routes"}
    BY DEF NeighborSlices
  <2>2. \A key : Kept(Outcome(IpNeigh(Text(v), key)), Outcome(IpNeigh(Text(w), key)))
    BY <1>1, TextAlone, LinuxParsersKeep
  <2>3. MissingTool(v) = MissingTool(w)
    BY TextAlone
  <2>4. CASE name = "routes"
    BY <1>1, <2>4, TextAlone, LinuxParsersKeep DEF LinuxNeighborhood
  <2>5. CASE name = "arp_table"
    BY <1>1, <2>2, <2>3, <2>5 DEF LinuxNeighborhood
  <2>6. CASE name = "ndp_neighbors"
    BY <1>1, <2>2, <2>3, <2>6 DEF LinuxNeighborhood
  <2> QED
    BY <2>1, <2>4, <2>5, <2>6
<1>4. ASSUME NEW name \in ExposureSlices \cup {"promiscuous_ifaces"}
      PROVE  Kept(LinuxExposure(name, v, v), LinuxExposure(name, w, w))
  BY <1>1, <1>2, TextAlone, LinuxParsersKeep DEF LinuxExposure, ExposureSlices
<1>5. ASSUME NEW name \in PersistenceSlices
      PROVE  Kept(LinuxPersistence(name, v), LinuxPersistence(name, w))
  BY <1>1, TextAlone, LinuxParsersKeep DEF LinuxPersistence, PersistenceSlices
<1> QED
  BY <1>3, <1>4, <1>5

\* The commands of Windows.
LEMMA WindowsCommandsKeep ==
    ASSUME NEW w, NEW v, NEW j, AloneIn(v, w, j)
    PROVE  /\ \A name \in NeighborSlices :
                Kept(WindowsNeighborhood(name, v, v), WindowsNeighborhood(name, w, w))
           /\ \A name \in ExposureSlices :
                Kept(WindowsExposure(name, v, v), WindowsExposure(name, w, w))
           /\ \A name \in PersistenceSlices :
                Kept(WindowsPersistence(name, v, v), WindowsPersistence(name, w, w))
<1>1. j \in DOMAIN w.entries /\ \A collected : Kept(collected, collected)
  BY DEF AloneIn, Kept
<1> USE DEF CommandSnapshot
<1>2. ASSUME NEW name \in NeighborSlices
      PROVE  Kept(WindowsNeighborhood(name, v, v), WindowsNeighborhood(name, w, w))
  BY <1>1, TextAlone, WindowsParsersKeep DEF WindowsNeighborhood, NeighborSlices
<1>3. ASSUME NEW name \in ExposureSlices
      PROVE  Kept(WindowsExposure(name, v, v), WindowsExposure(name, w, w))
  BY <1>1, TextAlone, WindowsParsersKeep DEF WindowsExposure, ExposureSlices
<1>4. ASSUME NEW name \in PersistenceSlices
      PROVE  Kept(WindowsPersistence(name, v, v), WindowsPersistence(name, w, w))
  BY <1>1, TextAlone, WindowsParsersKeep DEF WindowsPersistence, PersistenceSlices
<1> QED
  BY <1>2, <1>3, <1>4

\* The accounts and the keys of every system.
LEMMA AccountsKeep ==
    ASSUME NEW w, NEW v, NEW j, AloneIn(v, w, j)
    PROVE  /\ \A name \in AccountSlices \ {"privilege_config"} :
                \A one, all : Kept(AccountCollectors(name, v, one), AccountCollectors(name, w, all))
           /\ Kept(AccountCollectors("privilege_config", v, MacosAccounts(v)),
                   AccountCollectors("privilege_config", w, MacosAccounts(w)))
           /\ Kept(AccountCollectors("privilege_config", v, LinuxAccounts(v)),
                   AccountCollectors("privilege_config", w, LinuxAccounts(w)))
<1>1. j \in DOMAIN w.entries /\ v.entries = <<w.entries[j]>> /\ FileReads(v) = FileReads(w)
  BY TextAlone DEF AloneIn
<1>2. \/ Text(v) = <<w.entries[j]>> /\ Text(w) = w.entries
      \/ Text(v) = Text(w)
  BY TextAlone
<1> USE DEF EachEntry, FileSnapshot
<1>3. Kept(SshAuthorizedKeys(v), SshAuthorizedKeys(w))
  BY <1>1, RowKept, KeptItself DEF SshAuthorizedKeys
<1>4. Kept(HostsFileRows(v), HostsFileRows(w))
  BY <1>1, RowKept, KeptItself DEF HostsFileRows
<1>5. Kept(SshKnownHosts(v), SshKnownHosts(w))
  BY <1>1, RowKept, KeptItself DEF SshKnownHosts
<1>6. Kept(Sudoers(v), Sudoers(w))
  BY <1>1, RowKept, KeptItself DEF Sudoers
<1>7. Kept(MacosAccounts(v), MacosAccounts(w))
  BY <1>1, <1>2, RowKept, KeptItself DEF MacosAccounts
<1>8. Kept(LinuxAccounts(v), LinuxAccounts(w))
  BY <1>1, RowKept, KeptItself DEF LinuxAccounts
<1> HIDE DEF EachEntry, FileSnapshot
<1>9. /\ Kept(PrivilegeConfig(v, MacosAccounts(v)), PrivilegeConfig(w, MacosAccounts(w)))
      /\ Kept(PrivilegeConfig(v, LinuxAccounts(v)), PrivilegeConfig(w, LinuxAccounts(w)))
  BY <1>6, <1>7, <1>8, BothKept DEF PrivilegeConfig
<1> QED
  BY <1>3, <1>4, <1>5, <1>9 DEF AccountCollectors, AccountSlices

\* The devices of macOS, without its posture.
LEMMA MacosDevicesKeep ==
    ASSUME NEW w, NEW v, NEW j, AloneIn(v, w, j)
    PROVE  \A name \in MacosDeviceSlices \ {"system_integrity"} :
             Kept(MacosDevices(name, v, v), MacosDevices(name, w, w))
<1>1. j \in DOMAIN w.entries /\ v.entries = <<w.entries[j]>> /\ v.tool = w.tool
        /\ v.place = w.place
  BY DEF AloneIn
<1> USE DEF EachEntry, FileSnapshot, FileReads, SystemProfiler, ProfilerReport,
            ReportRows, Sections, ReportEntries, JsonDocument, MissingTool
<1>2. Kept(UsbDevices(v), UsbDevices(w))
  BY <1>1, RowKept, KeptItself DEF UsbDevices
<1>3. Kept(Bluetooth(v), Bluetooth(w))
  BY <1>1, RowKept, KeptItself DEF Bluetooth
<1>4. Kept(Wifi(v), Wifi(w))
  BY <1>1, RowKept, KeptItself DEF Wifi
<1>5. Kept(MdmProfiles(v), MdmProfiles(w))
  BY <1>1, RowKept, KeptItself DEF MdmProfiles
<1>6. Kept(KernelExtensions(v), KernelExtensions(w))
  BY <1>1, RowKept, KeptItself DEF KernelExtensions
<1>7. Kept(SystemExtensions(v), SystemExtensions(w))
  BY <1>1, RowKept, KeptItself DEF SystemExtensions
<1> QED
  BY <1>2, <1>3, <1>4, <1>5, <1>6, <1>7 DEF MacosDevices, MacosDeviceSlices

\* The native collectors of Windows that read once.
LEMMA WindowsNativeKeep ==
    ASSUME NEW w, NEW v, NEW j, AloneIn(v, w, j)
    PROVE  \A name \in WindowsNativeSlices \ {"launch_items"} :
             Kept(WindowsNative(name, v, v), WindowsNative(name, w, w))
<1>1. j \in DOMAIN w.entries /\ v.entries = <<w.entries[j]>> /\ v.tool = w.tool
  BY DEF AloneIn
<1> USE DEF EachEntry, PowerShell, ObjectRow, ReportRows, ReportEntries,
            JsonDocument, MissingTool
<1>2. Kept(WindowsInstalledApps(v), WindowsInstalledApps(w))
  BY <1>1, RowKept, KeptItself DEF WindowsInstalledApps
<1>3. Kept(WindowsIntegrity(v), WindowsIntegrity(w))
  BY <1>1, RowKept, KeptItself DEF WindowsIntegrity
<1>4. Kept(WindowsUsb(v), WindowsUsb(w))
  BY <1>1, RowKept, KeptItself DEF WindowsUsb
<1>5. Kept(WindowsBluetooth(v), WindowsBluetooth(w))
  BY <1>1, RowKept, KeptItself DEF WindowsBluetooth
<1>6. Kept(WindowsWifi(v), WindowsWifi(w))
  BY <1>1, RowKept, KeptItself DEF WindowsWifi, Text
<1> QED
  BY <1>2, <1>3, <1>4, <1>5, <1>6 DEF WindowsNative, WindowsNativeSlices

\* Sockets, interfaces, mounts, quarantined files and the log of Linux.
LEMMA OthersKeep ==
    ASSUME NEW w, NEW v, NEW j, AloneIn(v, w, j)
    PROVE  /\ \A name \in PortableSlices \ {"processes", "listening_ports", "disk_usage"} :
                Kept(PortableCollectors(name, v, v), PortableCollectors(name, w, w))
           /\ Kept(Quarantine(v), Quarantine(w))
           /\ Kept(LogEntries(v), LogEntries(w))
<1>1. j \in DOMAIN w.entries /\ v.entries = <<w.entries[j]>> /\ v.tool = w.tool
        /\ v.place = w.place
  BY DEF AloneIn
<1> USE DEF EachEntry, FileSnapshot, FileReads
<1>2. Kept(NetworkConnections(v), NetworkConnections(w))
  BY <1>1, RowKept, KeptItself DEF NetworkConnections, Visible
<1>3. Kept(NetworkInterfaces(v), NetworkInterfaces(w))
  BY <1>1, RowKept, KeptItself DEF NetworkInterfaces
<1>4. Kept(HostResources(v), HostResources(w))
  BY KeptItself DEF HostResources
<1>5. Kept(Mounts(v), Mounts(w))
  BY <1>1, RowKept, KeptItself DEF Mounts
<1>6. Kept(Quarantine(v), Quarantine(w))
  BY <1>1, RowKept, KeptItself DEF Quarantine
<1>7. Kept(Outcome(EachFrom("journal", JournalRow, Text(v))),
           Outcome(EachFrom("journal", JournalRow, Text(w))))
  BY <1>1, RowKept, KeptItself DEF EachFrom, From, Text
<1>8. Kept(FileSnapshot(v, LAMBDA lines : EachFrom("file", LogLineRow, lines)),
           FileSnapshot(w, LAMBDA lines : EachFrom("file", LogLineRow, lines)))
  BY <1>1, RowKept, KeptItself DEF EachFrom, From
<1>9. Kept(LogEntries(v), LogEntries(w))
  BY <1>7, <1>8, BothKept DEF LogEntries
<1> QED
  BY <1>2, <1>3, <1>4, <1>5, <1>6, <1>9 DEF PortableCollectors, PortableSlices

\* The slices in which one entry may decide the row of another.
RelatedOn(system) ==
    {"disk_usage", "network_flows", "dns_queries", "file_scan", "listening_ports",
     "file_integrity", "system_integrity"}
      \cup (CASE system = "Linux" -> {"launch_items", "dns_resolvers"}
              [] system = "Windows" -> {"privilege_config"}
              [] system = "Darwin" -> {"routes"})

\* A slice that is read at the end, in which no entry decides the row of
\* another, holds the rows that each entry would have alone.
LEMMA EachKept ==
    ASSUME NEW system \in Hosts, NEW name \in SlicesOf(system) \ ReadTwice(system),
           name \notin RelatedOn(system),
           NEW S, NEW w, w.entries \in Seq(S), NEW v, NEW j, AloneIn(v, w, j)
    PROVE  Kept(Collect(system, name, v, v), Collect(system, name, w, w))
<1> DEFINE Portables == PortableSlices \ {"processes", "listening_ports", "disk_usage"}
<1>1. /\ name \in Portables =>
           Kept(PortableCollectors(name, v, v), PortableCollectors(name, w, w))
      /\ name \in AccountSlices \ {"privilege_config"} =>
           \A one, all : Kept(AccountCollectors(name, v, one), AccountCollectors(name, w, all))
  BY OthersKeep, AccountsKeep
<1>2. CASE system = "Darwin"
  <2>1. name \in UNION {AccountSlices, MacosDeviceSlices \ {"system_integrity"},
                        NeighborSlices \ {"routes"}, ExposureSlices \cup {"promiscuous_ifaces"},
                        {"injection_env", "quarantine_events"}, Portables}
    BY <1>2 DEF SlicesOf, MacosSlices, ReadTwice, RelatedOn, MacosSoftwareSlices, FileSlices,
                CaptureSlices, NeighborSlices, PortableSlices
  <2>2. Kept(MacosHost(name, v, v), MacosHost(name, w, w))
    <3>1. CASE name \in AccountSlices
      BY <1>1, <3>1, MacosGroups, AccountsKeep
    <3>2. CASE name \in MacosDeviceSlices \ {"system_integrity"}
      BY <3>2, MacosGroups, MacosDevicesKeep
    <3>3. CASE name \in NeighborSlices \ {"routes"}
      BY <3>3, MacosGroups, MacosCommandsKeep
    <3>4. CASE name \in ExposureSlices \cup {"promiscuous_ifaces"}
      BY <3>4, MacosGroups, MacosCommandsKeep
    <3>5. CASE name = "injection_env"
      BY <3>5, MacosGroups, MacosCommandsKeep
    <3>6. CASE name = "quarantine_events"
      <4>1. \A b, a : MacosHost(name, b, a) = Quarantine(a)
        BY <3>6, MacosGroups DEF MacosSoftwareSlices, MacosSoftware
      <4> QED
        BY <4>1, OthersKeep
    <3>7. CASE name \in Portables
      BY <1>1, <3>7, MacosGroups
    <3> QED
      BY <2>1, <3>1, <3>2, <3>3, <3>4, <3>5, <3>6, <3>7
  <2> QED
    BY <1>2, <2>2 DEF Collect
<1>3. CASE system = "Linux"
  <2>1. name \in UNION {AccountSlices, {"log_entries"},
                        NeighborSlices \ {"dns_resolvers"},
                        ExposureSlices \cup {"promiscuous_ifaces"}, PersistenceSlices, Portables}
    BY <1>3 DEF SlicesOf, LinuxSlices, ReadTwice, RelatedOn, LinuxSoftwareSlices,
                LinuxDeviceSlices, FileSlices, CaptureSlices, NeighborSlices, PortableSlices
  <2>2. Kept(LinuxHost(name, v, v), LinuxHost(name, w, w))
    <3>1. CASE name \in AccountSlices
      BY <1>1, <3>1, LinuxGroups, AccountsKeep
    <3>2. CASE name = "log_entries"
      <4>1. \A b, a : LinuxHost(name, b, a) = LinuxDevices(name, b, a)
        BY <3>2, LinuxGroups DEF LinuxDeviceSlices
      <4> QED
        BY <3>2, <4>1, OthersKeep DEF LinuxDevices
    <3>3. CASE name \in NeighborSlices \ {"dns_resolvers"}
      BY <3>3, LinuxGroups, LinuxCommandsKeep
    <3>4. CASE name \in ExposureSlices \cup {"promiscuous_ifaces"}
      BY <3>4, LinuxGroups, LinuxCommandsKeep
    <3>5. CASE name \in PersistenceSlices
      BY <3>5, LinuxGroups, LinuxCommandsKeep
    <3>6. CASE name \in Portables
      BY <1>1, <3>6, LinuxGroups
    <3> QED
      BY <2>1, <3>1, <3>2, <3>3, <3>4, <3>5, <3>6
  <2> QED
    BY <1>3, <2>2 DEF Collect
<1>4. CASE system = "Windows"
  <2>1. name \in UNION {AccountSlices \ {"privilege_config"},
                        WindowsNativeSlices \ {"launch_items"}, NeighborSlices,
                        ExposureSlices, PersistenceSlices, Portables}
    BY <1>4 DEF SlicesOf, WindowsSlices, ReadTwice, RelatedOn, PortableSlices
  <2>2. Kept(WindowsHost(name, v, v), WindowsHost(name, w, w))
    <3>1. CASE name \in AccountSlices \ {"privilege_config"}
      BY <1>1, <3>1, WindowsGroups
    <3>2. CASE name \in WindowsNativeSlices \ {"launch_items"}
      BY <3>2, WindowsGroups, WindowsNativeKeep
    <3>3. CASE name \in NeighborSlices
      BY <3>3, WindowsGroups, WindowsCommandsKeep
    <3>4. CASE name \in ExposureSlices
      BY <3>4, WindowsGroups, WindowsCommandsKeep
    <3>5. CASE name \in PersistenceSlices
      BY <3>5, WindowsGroups, WindowsCommandsKeep
    <3>6. CASE name \in Portables
      BY <1>1, <3>6, WindowsGroups
    <3> QED
      BY <2>1, <3>1, <3>2, <3>3, <3>4, <3>5, <3>6
  <2> QED
    BY <1>4, <2>2 DEF Collect
<1> QED
  BY <1>2, <1>3, <1>4 DEF Hosts

-----------------------------------------------------------------------------
(***************************************************************************)
(* The collectors that list their entries and read each of them later.     *)
(***************************************************************************)

\* An entry that is read later is one that is there then, at its place.
LEMMA LaterIsThere ==
    ASSUME NEW e, NEW w
    PROVE  \/ Later(e, w) = Gone
           \/ /\ w.place # "missing"
              /\ \E k \in DOMAIN w.entries :
                   Later(e, w) = w.entries[k] /\ w.entries[k]["id"] = e["id"]
BY DEF Later

\* No two entries are at one place.
Distinct(w) ==
    \A i, j \in DOMAIN w.entries : w.entries[i]["id"] = w.entries[j]["id"] => i = j

\* Of different places, the entry read later is the one at the place listed.
LEMMA LaterIsTheOne ==
    ASSUME NEW e, NEW w, Distinct(w), w.place # "missing",
           NEW k \in DOMAIN w.entries, w.entries[k]["id"] = e["id"]
    PROVE  Later(e, w) = w.entries[k]
<1> DEFINE m == CHOOSE i \in DOMAIN w.entries : w.entries[i]["id"] = e["id"]
<1>1. m \in DOMAIN w.entries /\ w.entries[m]["id"] = e["id"]
  OBVIOUS
<1>2. Later(e, w) = w.entries[m]
  BY <1>1 DEF Later
<1> HIDE DEF m
<1> QED
  BY <1>1, <1>2 DEF Distinct

\* What is read word by word is, word by word, what one of the two reads finds.
LEMMA MixedFields ==
    ASSUME NEW x, NEW y, NEW names, Pick(x, names) = Pick(y, names)
    PROVE  Pick(Mixed(x, y), names) = Pick(y, names)
<1>1. \A word : Get(Mixed(x, y), word) =
                  IF word \in FirstRead THEN Get(x, word) ELSE Get(y, word)
  BY DEF Mixed, Get
<1>2. ASSUME NEW word \in names
      PROVE  Get(x, word) = Get(y, word)
  <2>1. Pick(x, names)[word] = Get(x, word) /\ Pick(y, names)[word] = Get(y, word)
    BY DEF Pick
  <2> QED
    BY <2>1
<1>3. \A word \in names : Get(Mixed(x, y), word) = Get(y, word)
  BY <1>1, <1>2
<1> QED
  BY <1>3 DEF Pick

\* And it is the entry, if both reads find the same.
LEMMA MixedWithItself ==
    ASSUME NEW x, NEW names
    PROVE  Pick(Mixed(x, x), names) = Pick(x, names)
<1>1. \A word : Get(Mixed(x, x), word) = Get(x, word)
  BY DEF Mixed, Get
<1> QED
  BY <1>1 DEF Pick

\* The row of an entry, from what was listed and what is read. Of an interface
\* of Linux, only if a tool that was there also ran.
RowOf(system, name, ran, listed, file) ==
    CASE name = "processes" ->
           IF file = Gone THEN Skip ELSE Pick(Mixed(listed, file), ProcessFields)
      [] name = "setuid_files" ->
           IF file # Gone /\ Has(file, {"setuid"}) /\ ~Has(file, {"directory"})
           THEN Pick(file, {"id", "uid", "setuid"}) ELSE Skip
      [] name = "browser_extensions" ->
           (CASE Firefox(listed) -> FirefoxRow(file)
              [] ~Firefox(listed) /\ Torn(listed, file, "directory") -> Crash
              [] OTHER -> ChromiumRow(file))
      [] name = "launch_items" -> IF Readable(file) THEN Pick(file, LaunchFields) ELSE Skip
      [] name = "installed_apps" ->
           LET bundle == IF Readable(file) THEN file ELSE Gone
           IN  [path |-> listed["id"], bundle_id |-> Get(bundle, "bundle_id"),
                name |-> Get(bundle, "name")]
      [] name = "usb_devices" ->
           LET attrs == Mixed(Attributes(listed), Attributes(file))
           IN  IF Get(attrs, "vendor_id") # None \/ Get(attrs, "name") # None
               THEN Pick(attrs, UsbFields) ELSE Skip
      [] name = "bluetooth_devices" ->
           IF file = Gone /\ ~Torn(listed, file, "info") THEN Skip
           ELSE Ini(file, LAMBDA general :
                  [name |-> Get(general, "name"), address |-> listed["id"],
                   minor_type |-> Get(general, "minor_type")])
      [] name = "wifi_state" ->
           IF ran /\ file # Gone THEN Pick(file, WifiFields) ELSE Pick(Gone, WifiFields)
      [] name = "system_integrity" ->
           IF system = "Darwin" THEN MacosIntegrityRow(Mixed(listed, file))
           ELSE LinuxIntegrityRow(Mixed(listed, file))

ListedBy(name, w) == IF name \in {"processes", "system_integrity"} THEN w.entries ELSE Listed(w)
Ran(b, a) == b.tool # "missing" /\ a.tool = "ok"
WalkRows(system, name, b, a) ==
    [i \in DOMAIN ListedBy(name, b) |->
       RowOf(system, name, Ran(b, a), ListedBy(name, b)[i], Later(ListedBy(name, b)[i], a))]

Walks == UNION {{"Darwin"} \X {"processes", "setuid_files", "browser_extensions",
                               "launch_items", "installed_apps", "system_integrity"},
                {"Linux"} \X {"processes", "setuid_files", "browser_extensions", "usb_devices",
                              "bluetooth_devices", "wifi_state", "system_integrity"},
                {"Windows"} \X {"processes"}}

\* The profiles of Firefox that are closed end a walk with an error, and the
\* directory of a tree that has gone ends it as if the tree were empty.
Closed(name, b) == name = "browser_extensions" /\ DeniedProfiles(b)
Felled(name, b, a) ==
    /\ name = "setuid_files"
    /\ \E i \in DOMAIN Listed(b) : Torn(Listed(b)[i], Later(Listed(b)[i], a), "directory")

\* The walks are those of the collectors.
LEMMA WalkIsWalk ==
    ASSUME NEW system, NEW name, <<system, name>> \in Walks, NEW b, NEW a
    PROVE  Collect(system, name, b, a) =
             IF Closed(name, b) THEN Failed
             ELSE IF Felled(name, b, a) THEN Nothing ELSE Outcome(WalkRows(system, name, b, a))
<1> USE DEF WalkRows, RowOf, ListedBy, Ran, Closed, Felled
<1>1. CASE name = "processes"
  <2>1. Collect(system, name, b, a) = Processes(b, a)
    BY <1>1, MacosGroups, LinuxGroups, WindowsGroups DEF Walks, Collect, PortableSlices, PortableCollectors
  <2> QED
    BY <1>1, <2>1 DEF Processes
<1>2. CASE name = "setuid_files"
  <2>1. Collect(system, name, b, a) = SetuidFiles(b, a)
    BY <1>2, MacosGroups, LinuxGroups DEF Walks, Collect, FileSlices, Files
  <2> QED
    BY <1>2, <2>1 DEF SetuidFiles, Walk
<1>3. CASE name = "browser_extensions"
  <2>1. Collect(system, name, b, a) = BrowserExtensions(b, a)
    BY <1>3, MacosGroups, LinuxGroups DEF Walks, Collect, MacosSoftwareSlices, MacosSoftware,
                                          LinuxSoftwareSlices, LinuxSoftware
  <2> QED
    BY <1>3, <2>1 DEF BrowserExtensions, Walk
<1>4. CASE name = "launch_items"
  <2>1. Collect(system, name, b, a) = LaunchItems(b, a)
    BY <1>4, MacosGroups DEF Walks, Collect, MacosSoftwareSlices, MacosSoftware
  <2> QED
    BY <1>4, <2>1 DEF LaunchItems, Walk
<1>5. CASE name = "installed_apps"
  <2>1. Collect(system, name, b, a) = InstalledApps(b, a)
    BY <1>5, MacosGroups DEF Walks, Collect, MacosSoftwareSlices, MacosSoftware
  <2> QED
    BY <1>5, <2>1 DEF InstalledApps, Walk
<1>6. CASE name = "usb_devices"
  <2>1. Collect(system, name, b, a) = LinuxUsb(b, a)
    BY <1>6, LinuxGroups DEF Walks, Collect, LinuxDeviceSlices, LinuxDevices
  <2> QED
    BY <1>6, <2>1 DEF LinuxUsb, Walk
<1>7. CASE name = "bluetooth_devices"
  <2>1. Collect(system, name, b, a) = LinuxBluetooth(b, a)
    BY <1>7, LinuxGroups DEF Walks, Collect, LinuxDeviceSlices, LinuxDevices
  <2> QED
    BY <1>7, <2>1 DEF LinuxBluetooth, Walk, Ini
<1>8. CASE name = "wifi_state"
  <2>1. Collect(system, name, b, a) = LinuxWifi(b, a)
    BY <1>8, LinuxGroups DEF Walks, Collect, LinuxDeviceSlices, LinuxDevices
  <2> QED
    BY <1>8, <2>1 DEF LinuxWifi, Walk
<1>9. CASE name = "system_integrity" /\ system = "Darwin"
  <2>1. Collect(system, name, b, a) = MacosIntegrity(b, a)
    BY <1>9, MacosGroups DEF Collect, MacosDeviceSlices, MacosDevices
  <2> QED
    BY <1>9, <2>1 DEF MacosIntegrity, Posture, EachEntry
<1>10. CASE name = "system_integrity" /\ system = "Linux"
  <2>1. Collect(system, name, b, a) = LinuxIntegrity(b, a)
    BY <1>10, LinuxGroups DEF Collect, LinuxDeviceSlices, LinuxDevices
  <2> QED
    BY <1>10, <2>1 DEF LinuxIntegrity, Posture, EachEntry
<1> HIDE DEF WalkRows, RowOf, ListedBy, Ran, Closed, Felled
<1>11. \/ name \in {"processes", "setuid_files", "browser_extensions", "launch_items",
                    "installed_apps", "usb_devices", "bluetooth_devices", "wifi_state"}
       \/ name = "system_integrity" /\ system \in {"Darwin", "Linux"}
  BY DEF Walks
<1> QED
  BY <1>1, <1>2, <1>3, <1>4, <1>5, <1>6, <1>7, <1>8, <1>9, <1>10, <1>11

\* A row is stored iff it is one and no other raises.
LEMMA StoredRows ==
    ASSUME NEW rows
    PROVE  /\ Outcome(rows).failed <=> \E i \in DOMAIN rows : rows[i] = Crash
           /\ \A r : r \in Outcome(rows).rows <=>
                /\ \A i \in DOMAIN rows : rows[i] # Crash
                /\ r # Skip
                /\ \E i \in DOMAIN rows : rows[i] = r
BY DEF Outcome, Failed

\* A row that is stored is of a walk that came to its end.
LEMMA StoredByWalk ==
    ASSUME NEW system, NEW name, <<system, name>> \in Walks, NEW b, NEW a,
           NEW r \in Collect(system, name, b, a).rows
    PROVE  /\ r \notin {Skip, Crash}
           /\ \E i \in DOMAIN ListedBy(name, b) :
                r = RowOf(system, name, Ran(b, a), ListedBy(name, b)[i],
                          Later(ListedBy(name, b)[i], a))
<1> DEFINE rows == WalkRows(system, name, b, a)
<1>1. Failed.rows = {} /\ Nothing.rows = {}
  BY DEF Failed, Nothing
<1>2. r \in Outcome(rows).rows
  BY <1>1, WalkIsWalk
<1>3. DOMAIN rows = DOMAIN ListedBy(name, b) /\ \A i \in DOMAIN rows : rows[i] =
        RowOf(system, name, Ran(b, a), ListedBy(name, b)[i], Later(ListedBy(name, b)[i], a))
  BY DEF WalkRows
<1> HIDE DEF rows
<1> QED
  BY <1>2, <1>3, StoredRows

\* Whose rows are of a file that is read at once, and not there once it is gone.
Vanishing == {"setuid_files", "browser_extensions", "launch_items"}

\* An entry that is gone is no row, and the tool does not matter.
LEMMA RowsOfEntries ==
    ASSUME NEW system, NEW name \in Vanishing, NEW ran, NEW listed
    PROVE  /\ RowOf(system, name, ran, listed, Gone) \in {Skip, Crash}
           /\ \A other, file : RowOf(system, name, ran, listed, file) =
                               RowOf(system, name, other, listed, file)
<1>1. ~Opens(Gone) /\ ~Readable(Gone)
  BY DEF Opens, Readable
<1>2. FirefoxRow(Gone) = Skip /\ ChromiumRow(Gone) = Skip
  <2>1. FirefoxRow(Gone) = Skip
    BY <1>1 DEF FirefoxRow
  <2>2. ChromiumRow(Gone) = Skip
    BY <2>1 DEF ChromiumRow
  <2> QED
    BY <2>1, <2>2
<1>3. RowOf(system, name, ran, listed, Gone) \in {Skip, Crash}
  BY <1>1, <1>2 DEF RowOf, Vanishing
<1>4. ASSUME NEW other, NEW file
      PROVE  RowOf(system, name, ran, listed, file) = RowOf(system, name, other, listed, file)
  BY DEF RowOf, Vanishing
<1> QED
  BY <1>3, <1>4

\* Whose entries are read at once.
ReadAtOnce == Vanishing \cup {"installed_apps", "bluetooth_devices", "wifi_state"}

\* What is read decides the row, if it is what was listed, or at its place.
LEMMA RowOfWhatIsRead ==
    ASSUME NEW system, NEW name \in ReadAtOnce, NEW ran, NEW listed, NEW file,
           file # Gone, listed["id"] = file["id"],
           name = "browser_extensions" => Get(listed, "browser") = Get(file, "browser")
    PROVE  RowOf(system, name, ran, listed, file) = RowOf(system, name, ran, file, file)
<1>1. CASE name = "browser_extensions"
  <2>1. Firefox(listed) = Firefox(file)
    BY <1>1 DEF Firefox
  <2>2. ~Torn(listed, file, "directory") /\ ~Torn(file, file, "directory")
    BY DEF Torn
  <2> QED
    BY <1>1, <2>1, <2>2 DEF RowOf
<1>2. CASE name # "browser_extensions"
  BY <1>2 DEF RowOf, ReadAtOnce, Vanishing, Ini
<1> QED
  BY <1>1, <1>2

\* And so it is, if what was listed and what is read are of the same row.
LEMMA RowOfSteady ==
    ASSUME NEW system, NEW name, <<system, name>> \in Walks, name # "system_integrity",
           NEW ran, NEW one, NEW other, other # Gone, one["id"] = other["id"],
           name = "browser_extensions" => Get(one, "browser") = Get(other, "browser"),
           NEW r, r # Skip, RowOf(system, name, ran, one, one) = r,
           RowOf(system, name, ran, other, other) = r, one # Gone
    PROVE  RowOf(system, name, ran, one, other) = r
<1>1. CASE name \in ReadAtOnce
  BY <1>1, RowOfWhatIsRead
<1>2. CASE name = "processes"
  <2>1. r = Pick(Mixed(one, one), ProcessFields) /\ r = Pick(Mixed(other, other), ProcessFields)
    BY <1>2 DEF RowOf
  <2>2. r = Pick(one, ProcessFields) /\ r = Pick(other, ProcessFields)
    BY <2>1, MixedWithItself
  <2>3. r = Pick(Mixed(one, other), ProcessFields)
    BY <2>2, MixedFields
  <2> QED
    BY <1>2, <2>3 DEF RowOf
<1>3. CASE name = "usb_devices"
  <2> DEFINE Row(x, y) == IF Get(Mixed(x, y), "vendor_id") # None \/ Get(Mixed(x, y), "name") # None
                          THEN Pick(Mixed(x, y), UsbFields) ELSE Skip
             first == Attributes(one)
             last == Attributes(other)
  <2>1. \A e, f : RowOf(system, name, ran, e, f) = Row(Attributes(e), Attributes(f))
    BY <1>3 DEF RowOf
  <2>2. Row(first, first) = r /\ Row(last, last) = r
    BY <2>1
  <2> HIDE DEF first, last
  <2>3. r = Pick(Mixed(first, first), UsbFields) /\ r = Pick(Mixed(last, last), UsbFields)
    BY <2>2
  <2>4. r = Pick(first, UsbFields) /\ r = Pick(last, UsbFields)
    BY <2>3, MixedWithItself
  <2>5. r = Pick(Mixed(first, last), UsbFields)
    BY <2>4, MixedFields
  <2>6. \A x : /\ Pick(x, UsbFields)["vendor_id"] = Get(x, "vendor_id")
               /\ Pick(x, UsbFields)["name"] = Get(x, "name")
    BY DEF Pick, UsbFields
  <2>7. /\ Get(Mixed(first, last), "vendor_id") = Get(Mixed(last, last), "vendor_id")
        /\ Get(Mixed(first, last), "name") = Get(Mixed(last, last), "name")
    BY <2>3, <2>5, <2>6
  <2>8. Row(first, last) = r
    BY <2>2, <2>5, <2>7
  <2> HIDE DEF Row
  <2> QED
    BY <2>1, <2>8 DEF first, last
<1>4. name \in ReadAtOnce \cup {"processes", "usb_devices"}
  BY DEF Walks, ReadAtOnce, Vanishing
<1> QED
  BY <1>1, <1>2, <1>3, <1>4

\* A walk of a single entry.
LEMMA WalkAlone ==
    ASSUME NEW system, NEW name, <<system, name>> \in Walks, name # "system_integrity",
           NEW f, f # Gone, NEW v, v.entries = <<f>>,
           v.place # "missing", name = "processes" \/ v.place = "ok"
    PROVE  \A r : r \in Collect(system, name, v, v).rows <=>
             r = RowOf(system, name, Ran(v, v), f, f) /\ r \notin {Skip, Crash}
<1> DEFINE rows == WalkRows(system, name, v, v)
<1>1. ListedBy(name, v) = <<f>>
  BY DEF ListedBy, Listed
<1>2. Later(f, v) = f
  <2>1. DOMAIN v.entries = {1} /\ v.entries[1] = f
    OBVIOUS
  <2> QED
    BY <2>1 DEF Later
<1>3. DOMAIN rows = {1} /\ rows[1] = RowOf(system, name, Ran(v, v), f, f)
  BY <1>1, <1>2 DEF WalkRows
<1>4. ~Closed(name, v)
  BY DEF Closed, DeniedProfiles
<1>5. ~Felled(name, v, v)
  <2>1. \A i \in DOMAIN Listed(v) : Listed(v)[i] = f
    BY DEF Listed
  <2> QED
    BY <1>2, <2>1 DEF Felled, Torn
<1>6. Collect(system, name, v, v) = Outcome(rows)
  BY <1>4, <1>5, WalkIsWalk
<1> HIDE DEF rows
<1> QED
  BY <1>3, <1>6, StoredRows

\* The entries of one place are of one browser.
OneBrowser(b, a) ==
    \A i \in DOMAIN b.entries, k \in DOMAIN a.entries :
      b.entries[i]["id"] = a.entries[k]["id"] =>
        Get(b.entries[i], "browser") = Get(a.entries[k], "browser")

\* A row that such a walk stores is that of an entry as it is read.
LEMMA WalkReadsEntries ==
    ASSUME NEW system, NEW name \in Vanishing, <<system, name>> \in Walks, NEW b, NEW a,
           name = "browser_extensions" => OneBrowser(b, a),
           \A k \in DOMAIN a.entries : a.entries[k] # Gone,
           NEW r \in Collect(system, name, b, a).rows
    PROVE  /\ b.place = "ok" /\ a.place # "missing" /\ r \notin {Skip, Crash}
           /\ \E k \in DOMAIN a.entries :
                \A ran : r = RowOf(system, name, ran, a.entries[k], a.entries[k])
<1> DEFINE found == ListedBy(name, b)
<1>1. r \notin {Skip, Crash}
  BY StoredByWalk
<1>2. PICK i \in DOMAIN found : r = RowOf(system, name, Ran(b, a), found[i], Later(found[i], a))
  BY StoredByWalk
<1>3. b.place = "ok" /\ i \in DOMAIN b.entries /\ found[i] = b.entries[i]
  BY <1>2 DEF ListedBy, Listed, Vanishing
<1> HIDE DEF found
<1>4. Later(found[i], a) # Gone
  BY <1>1, <1>2, RowsOfEntries
<1>5. PICK k \in DOMAIN a.entries :
        Later(found[i], a) = a.entries[k] /\ a.entries[k]["id"] = found[i]["id"]
  BY <1>4, LaterIsThere
<1>6. a.place # "missing"
  BY <1>4, LaterIsThere
<1>7. r = RowOf(system, name, Ran(b, a), a.entries[k], a.entries[k])
  BY <1>2, <1>3, <1>5, RowOfWhatIsRead DEF OneBrowser, ReadAtOnce
<1>8. \A ran : r = RowOf(system, name, ran, a.entries[k], a.entries[k])
  BY <1>7, RowsOfEntries
<1> QED
  BY <1>1, <1>3, <1>6, <1>8

-----------------------------------------------------------------------------
(***************************************************************************)
(* The launch items of Windows: what runs at login is read first, what is  *)
(* scheduled last.                                                         *)
(***************************************************************************)

RunKeys(w) == PowerShell(w, LAMBDA item : From("command", RunKeyRow, item))
Tasks(w) == Outcome(EachFrom("line", SchtasksRow, Text(w)))

\* The two sources, and when each is read.
LEMMA WindowsItems ==
    ASSUME NEW b, NEW a
    PROVE  Collect("Windows", "launch_items", b, a) = Both(RunKeys(b), Tasks(a))
BY WindowsGroups DEF Collect, WindowsNativeSlices, WindowsNative, WindowsLaunchItems,
                     RunKeys, Tasks, PowerShell, ReportRows, ObjectRow, From, EachFrom, EachEntry

\* The registry: only a missing PowerShell fails it; its rows say where they
\* come from.
LEMMA RunKeysRead ==
    ASSUME NEW w
    PROVE  /\ RunKeys(w).failed <=> MissingTool(w)
           /\ \A r \in RunKeys(w).rows : r["scope"] = "registry_run"
<1> DEFINE entries == ReportEntries(w).entries
           rows == EachEntry(LAMBDA item : ObjectRow(LAMBDA it : From("command", RunKeyRow, it), item),
                             entries)
<1>1. RunKeys(w) = IF MissingTool(w) THEN Failed ELSE Outcome(rows)
  BY DEF RunKeys, PowerShell, ReportRows, ReportEntries
<1>2. \A item : RunKeyRow(item) # Crash /\ RunKeyRow(item)["scope"] = "registry_run"
  <2>1. \A item : "scope" \in DOMAIN RunKeyRow(item) /\ RunKeyRow(item)["scope"] = "registry_run"
    BY DEF RunKeyRow
  <2>2. "scope" \notin DOMAIN Crash
    BY DEF Crash
  <2> QED
    BY <2>1, <2>2
<1>3. Skip # Crash
  <2>1. DOMAIN Skip = {"skip"} /\ DOMAIN Crash = {"crash"}
    BY DEF Skip, Crash
  <2> QED
    BY <2>1
<1>4. \A i \in DOMAIN rows : rows[i] = Skip \/ \E item : rows[i] = RunKeyRow(item)
  BY DEF EachEntry, ObjectRow, From
<1> HIDE DEF rows
<1>5. \A i \in DOMAIN rows : rows[i] # Crash
  BY <1>2, <1>3, <1>4
<1>6. \A r \in Outcome(rows).rows : r["scope"] = "registry_run"
  BY <1>2, <1>4, StoredRows
<1>7. ~Outcome(rows).failed
  BY <1>5, StoredRows
<1> QED
  BY <1>1, <1>6, <1>7 DEF Failed

\* The scheduler: a failing schtasks has no tasks.
LEMMA TasksRead ==
    ASSUME NEW w
    PROVE  /\ ~Tasks(w).failed
           /\ Tasks(w).rows # {} => w.tool = "ok"
           /\ \A r \in Tasks(w).rows : r["scope"] = "scheduled_task"
<1> DEFINE rows == EachFrom("line", SchtasksRow, Text(w))
<1>1. Skip # Crash
  <2>1. DOMAIN Skip = {"skip"} /\ DOMAIN Crash = {"crash"}
    BY DEF Skip, Crash
  <2> QED
    BY <2>1
<1>2. \A line : \/ SchtasksRow(line) = Skip
                \/ /\ SchtasksRow(line) # Crash
                   /\ SchtasksRow(line)["scope"] = "scheduled_task"
  <2>1. \A line : \/ SchtasksRow(line) = Skip
                  \/ /\ "scope" \in DOMAIN SchtasksRow(line)
                     /\ SchtasksRow(line)["scope"] = "scheduled_task"
    BY DEF SchtasksRow
  <2>2. "scope" \notin DOMAIN Crash
    BY DEF Crash
  <2> QED
    BY <2>1, <2>2
<1>3. \A i \in DOMAIN rows : rows[i] = Skip \/ \E line : rows[i] = SchtasksRow(line)
  BY DEF EachFrom, EachEntry, From
<1>4. w.tool # "ok" => DOMAIN rows = {}
  BY DEF EachFrom, EachEntry, Text
<1>5. Tasks(w) = Outcome(rows)
  BY DEF Tasks
<1> HIDE DEF rows
<1>6. \A i \in DOMAIN rows : rows[i] # Crash
  BY <1>1, <1>2, <1>3
<1>7. \A r \in Outcome(rows).rows : r["scope"] = "scheduled_task"
  BY <1>2, <1>3, StoredRows
<1>8. ~Outcome(rows).failed
  BY <1>6, StoredRows
<1>9. Outcome(rows).rows # {} => w.tool = "ok"
  BY <1>4, StoredRows
<1> QED
  BY <1>5, <1>7, <1>8, <1>9

\* Each of the two is of one moment.
LEMMA WindowsItemsOfOneMoment ==
    ASSUME NEW b, NEW a, NEW r \in Collect("Windows", "launch_items", b, a).rows
    PROVE  \/ r \in Collect("Windows", "launch_items", b, b).rows
           \/ r \in Collect("Windows", "launch_items", a, a).rows
<1>1. ~RunKeys(b).failed /\ ~Tasks(a).failed /\ ~Tasks(b).failed
        /\ (r \in RunKeys(b).rows \/ r \in Tasks(a).rows)
  BY WindowsItems, RunKeysRead, TasksRead DEF Both, Failed
<1>2. CASE r \in RunKeys(b).rows
  BY <1>1, <1>2, WindowsItems DEF Both
<1>3. CASE r \in Tasks(a).rows
  <2>1. ~RunKeys(a).failed
    BY <1>3, RunKeysRead, TasksRead DEF MissingTool
  <2> QED
    BY <1>1, <1>3, <2>1, WindowsItems DEF Both
<1> QED
  BY <1>1, <1>2, <1>3

-----------------------------------------------------------------------------
(***************************************************************************)
(* What the invariant says of a state of the host.                         *)
(***************************************************************************)

Headed == {<<"Darwin", "routes">>, <<"Windows", "privilege_config">>}

\* A text without headings is entries, each what may be found at its place.
LEMMA BareWorld ==
    ASSUME host \in Hosts, slice \in SlicesOf(host), <<host, slice>> \notin Headed,
           NEW w, IsWorld(w)
    PROVE  /\ Headings(host, slice) = <<>>
           /\ w.entries \in Seq(Contents)
           /\ Body(w) = DOMAIN w.entries
           /\ Distinct(w)
           /\ \A k \in DOMAIN w.entries :
                \E entry \in Entries(host, slice, w.entries[k]["id"]) :
                  w.entries[k]["id"] \in Ids
                    /\ w.entries[k] = Placed(w.entries[k]["id"], entry)
           /\ \A k \in DOMAIN w.entries : w.entries[k] # Gone
<1>1. Headings(host, slice) = <<>>
  BY HeadingsAssumption DEF Headed
<1>2. w.entries \in Seq(Contents) /\ OneEach(w.entries, 0, Entered)
  BY <1>1 DEF IsWorld, HostStates
<1> DEFINE s == w.entries
<1>3. Len(s) \in Nat /\ DOMAIN s = 1..Len(s)
  BY <1>2, LenProperties
<1>4. Body(w) = DOMAIN s /\ (0 + 1)..Len(s) = DOMAIN s
  BY <1>1, <1>3 DEF Body
<1>5. /\ \A k \in DOMAIN s : s[k] \in Entered
      /\ \A i, j \in DOMAIN s : s[i]["id"] = s[j]["id"] => i = j
  BY <1>2, <1>4 DEF OneEach
<1>6. ASSUME NEW k \in DOMAIN s
      PROVE  \E entry \in Entries(host, slice, s[k]["id"]) :
               s[k]["id"] \in Ids /\ s[k] = Placed(s[k]["id"], entry)
  <2>1. PICK id \in Ids : s[k] \in At(id)
    BY <1>5, <1>6 DEF Entered
  <2>2. s[k]["id"] = id
    BY <2>1, AtItsPlace
  <2> QED
    BY <2>1, <2>2 DEF At
<1>7. ASSUME NEW k \in DOMAIN s
      PROVE  s[k] # Gone
  <2>1. PICK entry \in Entries(host, slice, s[k]["id"]) : s[k] = Placed(s[k]["id"], entry)
    BY <1>6, <1>7
  <2>2. "id" \in DOMAIN s[k]
    BY <2>1 DEF Placed
  <2>3. DOMAIN Gone = {"gone"}
    BY DEF Gone
  <2> QED
    BY <2>2, <2>3
<1> QED
  BY <1>1, <1>2, <1>4, <1>5, <1>6, <1>7 DEF Distinct

\* An entry alone on the host.
LEMMA AloneWorld ==
    ASSUME Headings(host, slice) = <<>>, NEW w \in HostStates, NEW k \in DOMAIN w.entries
    PROVE  /\ Alone(w, w.entries[k]).tool = w.tool
           /\ Alone(w, w.entries[k]).place = w.place
           /\ Alone(w, w.entries[k]).entries = <<w.entries[k]>>
           /\ AloneIn(Alone(w, w.entries[k]), w, k)
<1> DEFINE e == w.entries[k]
           one == <<e>>
<1>1. w.entries \in Seq(Contents)
  BY DEF HostStates
<1>2. e \in Contents
  BY <1>1, LenProperties
<1>3. one \in Seq(Contents)
  BY <1>2
<1> HIDE DEF one, e
<1>4. <<>> \o one = one
  BY <1>3, ConcatEmptySeq
<1>5. Alone(w, e) = [w EXCEPT !.entries = one]
  BY <1>4 DEF Alone, one
<1>6. Alone(w, e).tool = w.tool /\ Alone(w, e).place = w.place /\ Alone(w, e).entries = one
  BY <1>5 DEF HostStates
<1> QED
  BY <1>6 DEF AloneIn, one, e

\* What is kept of a browser's extension tells its browser by its place.
LEMMA SameBrowser ==
    ASSUME host \in {"Darwin", "Linux"}, slice = "browser_extensions",
           slice \in SlicesOf(host), NEW w, IsWorld(w), NEW v, IsWorld(v)
    PROVE  OneBrowser(w, v)
<1> SUFFICES ASSUME NEW i \in DOMAIN w.entries, NEW k \in DOMAIN v.entries,
                    w.entries[i]["id"] = v.entries[k]["id"]
             PROVE  Get(w.entries[i], "browser") = Get(v.entries[k], "browser")
  BY DEF OneBrowser
<1> DEFINE id == w.entries[i]["id"]
<1>1. host \in Hosts /\ <<host, slice>> \notin Headed
  BY DEF Hosts, Headed
<1>2. PICK one \in Entries(host, slice, id) : id \in Ids /\ w.entries[i] = Placed(id, one)
  BY <1>1, BareWorld
<1>3. PICK other \in Entries(host, slice, id) : v.entries[k] = Placed(id, other)
  BY <1>1, BareWorld
<1>4. Get(one, "browser") = Get(other, "browser")
  BY <1>2, EntriesAssumption
<1>5. \A entry : Get(Placed(id, entry), "browser") = Get(entry, "browser")
  BY DEF Get, Placed
<1> QED
  BY <1>2, <1>3, <1>4, <1>5

-----------------------------------------------------------------------------
(***************************************************************************)
(* Rows of one moment.                                                     *)
(***************************************************************************)

\* The invariant makes every stored row one of a moment.
LEMMA OneMoment == ScanInv => RowsAreOfOneMoment
<1> SUFFICES ASSUME ScanInv, Ended, slice \notin Composed, NEW r \in outcome.rows
             PROVE  r \in UNION {TrueOf(begun), TrueOf(world),
                                 TrueOf([world EXCEPT !.place = begun.place])}
  BY DEF RowsAreOfOneMoment
<1> DEFINE between == [world EXCEPT !.place = begun.place]
<1>1. /\ host \in Hosts /\ slice \in SlicesOf(host) /\ IsWorld(world) /\ IsWorld(begun)
      /\ outcome = Collect(host, slice, begun, world)
  BY DEF ScanInv, Ended
<1>2. \A w : RowsAt(w) = Collect(host, slice, w, w).rows /\ RowsAt(w) \subseteq TrueOf(w)
  BY DEF RowsAt, Moment, TrueOf
<1>3. CASE slice \notin ReadTwice(host)
  <2>1. AtTheEnd(begun, world, outcome, Collect(host, slice, world, world))
    BY <1>1, <1>3, ReadAtTheEnd
  <2>2. r \in RowsAt(world)
    BY <1>2, <2>1 DEF AtTheEnd
  <2> QED
    BY <1>2, <2>2
<1>4. CASE host = "Windows" /\ slice = "launch_items"
  <2>1. r \in RowsAt(begun) \/ r \in RowsAt(world)
    BY <1>1, <1>2, <1>4, WindowsItemsOfOneMoment
  <2> QED
    BY <1>2, <2>1
<1>5. CASE slice \in ReadTwice(host) /\ ~(host = "Windows" /\ slice = "launch_items")
  <2>1. slice \in Vanishing /\ <<host, slice>> \in Walks /\ <<host, slice>> \notin Headed
    BY <1>1, <1>5 DEF Composed, ReadTwice, Vanishing, Walks, Headed, Hosts, SlicesOf,
                      WindowsSlices, PortableSlices, AccountSlices, WindowsNativeSlices,
                      NeighborSlices, ExposureSlices, PersistenceSlices
  <2>2. slice \in Walked /\ slice # "system_integrity"
    BY <1>1, <2>1 DEF Walked, Walks, Vanishing
  <2>3. slice = "browser_extensions" => OneBrowser(begun, world)
    BY <1>1, <2>1, SameBrowser DEF Walks
  <2>4. \A k \in DOMAIN world.entries : world.entries[k] # Gone
    BY <1>1, <2>1, BareWorld
  <2>5. /\ begun.place = "ok" /\ world.place # "missing" /\ r \notin {Skip, Crash}
        /\ \E k \in DOMAIN world.entries :
             \A ran : r = RowOf(host, slice, ran, world.entries[k], world.entries[k])
    BY <1>1, <2>1, <2>3, <2>4, WalkReadsEntries
  <2>6. PICK k \in DOMAIN world.entries :
          \A ran : r = RowOf(host, slice, ran, world.entries[k], world.entries[k])
    BY <2>5
  <2>7. /\ world \in HostStates /\ begun \in HostStates
        /\ Headings(host, slice) = <<>> /\ \A w : w.entries = world.entries => Body(w) = Body(world)
        /\ Body(world) = DOMAIN world.entries
    BY <1>1, <2>1, BareWorld DEF IsWorld, Body
  <2>8. between \in HostStates /\ between.entries = world.entries /\ between.place = "ok"
    BY <2>5, <2>7 DEF HostStates
  <2> HIDE DEF between
  <2> DEFINE one == Alone(between, between.entries[k])
  <2>9. one.entries = <<between.entries[k]>> /\ one.place = between.place
    BY <2>7, <2>8, AloneWorld
  <2> HIDE DEF one
  <2>10. r \in Collect(host, slice, one, one).rows
    BY <2>1, <2>2, <2>4, <2>5, <2>6, <2>8, <2>9, WalkAlone
  <2>11. r \in RowsAt(Alone(between, between.entries[k])) /\ k \in Body(between)
    BY <1>2, <2>7, <2>8, <2>10 DEF one
  <2>12. r \in TrueOf(between)
    BY <2>2, <2>11 DEF TrueOf
  <2> QED
    BY <2>12 DEF between
<1> QED
  BY <1>3, <1>4, <1>5

\* A row that is stored was true of the host at one moment of the collection,
\* whatever the host has become between what a collector lists and what it reads
\* of it. Of the slices whose rows are put together from several reads it says
\* nothing.
THEOREM RowsOfOneMoment == ScanSpec => []RowsAreOfOneMoment
BY OneMoment, ScanInvInit, ScanInvNext, PTL DEF ScanSpec

-----------------------------------------------------------------------------
(***************************************************************************)
(* Rows that are there at both ends of a collection.                       *)
(***************************************************************************)

\* What lasts is read as it was when it was listed.
LEMMA LastingIsLater ==
    ASSUME NEW b, NEW a, b.place = a.place, Distinct(b),
           \A i \in DOMAIN b.entries : "id" \in DOMAIN b.entries[i],
           \A i \in DOMAIN b.entries : Later(b.entries[i], a) = b.entries[i]
    PROVE  \A i \in DOMAIN b.entries : Later(b.entries[i], b) = Later(b.entries[i], a)
<1> TAKE i \in DOMAIN b.entries
<1>1. b.entries[i] # Gone
  <2>1. DOMAIN Gone = {"gone"}
    BY DEF Gone
  <2> QED
    BY <2>1
<1>2. b.place # "missing"
  BY <1>1, LaterIsThere
<1> QED
  BY <1>2, LaterIsTheOne

\* Of what lasts, a collection says what it would have said at its beginning.
LEMMA LastingWalk ==
    ASSUME NEW system, NEW name, <<system, name>> \in Walks, NEW b, NEW a, b.tool = a.tool,
           \A i \in DOMAIN b.entries : Later(b.entries[i], b) = Later(b.entries[i], a)
    PROVE  Collect(system, name, b, a) = Collect(system, name, b, b)
<1>1. Ran(b, a) = Ran(b, b)
  BY DEF Ran
<1> DEFINE found == ListedBy(name, b)
<1>2. \A i \in DOMAIN found : Later(found[i], a) = Later(found[i], b)
  BY DEF ListedBy, Listed
<1>3. WalkRows(system, name, b, a) = WalkRows(system, name, b, b)
  BY <1>1, <1>2 DEF WalkRows
<1>4. Felled(name, b, a) <=> Felled(name, b, b)
  BY DEF Felled, Listed
<1> QED
  BY <1>3, <1>4, WalkIsWalk

\* The sockets of processes that keep their names.
LEMMA LastingPorts ==
    ASSUME NEW b, NEW a, b.tool = a.tool,
           \A i \in DOMAIN b.entries :
             ProcessName(Get(b.entries[i], "pid"), a) = ProcessName(Get(b.entries[i], "pid"), b)
    PROVE  ListeningPorts(b, a) = ListeningPorts(b, b)
BY DEF ListeningPorts, EachEntry

\* The launchers that last; the packages are read at the beginning anyway.
LEMMA LastingApps ==
    ASSUME NEW b, NEW a,
           \A i \in DOMAIN b.entries : Later(b.entries[i], b) = Later(b.entries[i], a)
    PROVE  LinuxInstalledApps(b, a) = LinuxInstalledApps(b, b)
<1> DEFINE found == Listed(b)
<1>1. \A i \in DOMAIN found : Later(found[i], a) = Later(found[i], b)
  BY DEF Listed
<1>2. DesktopEntries(b, a) = DesktopEntries(b, b)
  BY <1>1 DEF DesktopEntries, Walk, Ini
<1> QED
  BY <1>2 DEF LinuxInstalledApps

\* The units that last.
LEMMA LastingUnits ==
    ASSUME NEW b, NEW a,
           \A i \in DOMAIN b.entries : Later(b.entries[i], b) = Later(b.entries[i], a)
    PROVE  SystemdUnits(b, a) = SystemdUnits(b, b)
BY DEF SystemdUnits, Ini

\* A file is looked for by its place alone.
LEMMA LaterByPlace ==
    ASSUME NEW e, NEW f, e["id"] = f["id"], NEW w
    PROVE  Later(e, w) = Later(f, w)
BY DEF Later

\* A mount is told by its device.
LEMMA SteadyDisks ==
    ASSUME NEW b, NEW a,
           \A w \in {b, a} : \A i \in DOMAIN w.entries :
             Has(w.entries[i], {"device"}) => w.entries[i]["device"] = w.entries[i]["id"],
           ~DiskUsage(b, a).failed,
           NEW r \in DiskUsage(b, b).rows, r \in DiskUsage(a, a).rows
    PROVE  r \in DiskUsage(b, a).rows
<1> DEFINE Shown(w, i) == MountedDisks(w.entries)[i]
           Row(w, u, i) == IF Shown(w, i) = Skip \/ ~Opens(Later(w.entries[i], u)) THEN Skip
                           ELSE Pick(Shown(w, i), {"device", "mountpoint"})
           Rows(w, u) == [i \in DOMAIN MountedDisks(w.entries) |-> Row(w, u, i)]
<1>1. \A w, u : DiskUsage(w, u) = IF w.place # "ok" THEN Nothing ELSE Outcome(Rows(w, u))
  BY DEF DiskUsage
<1>2. \A w : DOMAIN MountedDisks(w.entries) = DOMAIN w.entries
  BY DEF MountedDisks
<1>3. \A w : \A i \in DOMAIN w.entries :
        \/ Shown(w, i) = Skip
        \/ Shown(w, i) = w.entries[i] /\ Has(w.entries[i], {"device"})
  BY DEF MountedDisks, Has
<1> HIDE DEF Shown
<1>4. b.place = "ok" /\ a.place = "ok"
  BY <1>1 DEF Nothing
<1>5. \A w, u : DOMAIN Rows(w, u) = DOMAIN w.entries
                  /\ \A i \in DOMAIN w.entries : Rows(w, u)[i] = Row(w, u, i)
  BY <1>2
<1> HIDE DEF Rows, Row
<1>6. r # Skip /\ \A i \in DOMAIN b.entries : Row(b, a, i) # Crash
  BY <1>1, <1>4, <1>5, StoredRows
<1>7. PICK i \in DOMAIN b.entries : r = Row(b, b, i)
  BY <1>1, <1>4, <1>5, StoredRows
<1>8. PICK k \in DOMAIN a.entries : r = Row(a, a, k)
  BY <1>1, <1>4, <1>5, StoredRows
<1>9. /\ Shown(b, i) # Skip /\ r = Pick(b.entries[i], {"device", "mountpoint"})
      /\ Shown(b, i) = b.entries[i] /\ Has(b.entries[i], {"device"})
  BY <1>3, <1>6, <1>7 DEF Row
<1>10. /\ Opens(Later(a.entries[k], a)) /\ r = Pick(a.entries[k], {"device", "mountpoint"})
       /\ Has(a.entries[k], {"device"})
  BY <1>3, <1>6, <1>8 DEF Row
<1>11. r["device"] = b.entries[i]["id"] /\ r["device"] = a.entries[k]["id"]
  BY <1>9, <1>10 DEF Pick, Get, Has
<1>12. b.entries[i]["id"] = a.entries[k]["id"]
  BY <1>11
<1>13. Later(b.entries[i], a) = Later(a.entries[k], a)
  BY <1>12, LaterByPlace
<1>14. Row(b, a, i) = r
  BY <1>9, <1>10, <1>13 DEF Row
<1> QED
  BY <1>1, <1>4, <1>5, <1>6, <1>14, StoredRows

\* A match is told by its path.
LEMMA SteadyMatches ==
    ASSUME NEW b, NEW a, ~FileScan(b, a).failed,
           NEW r \in FileScan(b, b).rows, r \in FileScan(a, a).rows
    PROVE  r \in FileScan(b, a).rows
<1> DEFINE Matches(w, i) == /\ ScanTurn(w.entries, i) \in 1..MaxFiles
                            /\ Opens(w.entries[i]) /\ ~Has(w.entries[i], {"huge"})
                            /\ Get(w.entries[i], "content") \in Matching
           Hash(file) == IF Opens(file) THEN Get(file, "content") ELSE None
           Row(w, u, i) == IF Matches(w, i)
                           THEN [path |-> w.entries[i]["id"], rule |-> w.entries[i]["content"],
                                 sha256 |-> Hash(Later(w.entries[i], u))]
                           ELSE Skip
           Rows(w, u) == [i \in DOMAIN w.entries |-> Row(w, u, i)]
<1>1. \A w, u : FileScan(w, u) = IF w.tool # "ok" THEN Nothing ELSE Outcome(Rows(w, u))
  BY DEF FileScan
<1>2. b.tool = "ok" /\ a.tool = "ok"
  BY <1>1 DEF Nothing
<1>3. \A w, u : DOMAIN Rows(w, u) = DOMAIN w.entries
                  /\ \A i \in DOMAIN w.entries : Rows(w, u)[i] = Row(w, u, i)
  OBVIOUS
<1> HIDE DEF Rows, Row
<1>4. r # Skip /\ \A i \in DOMAIN b.entries : Row(b, a, i) # Crash
  BY <1>1, <1>2, <1>3, StoredRows
<1>5. PICK i \in DOMAIN b.entries : r = Row(b, b, i)
  BY <1>1, <1>2, <1>3, StoredRows
<1>6. PICK k \in DOMAIN a.entries : r = Row(a, a, k)
  BY <1>1, <1>2, <1>3, StoredRows
<1> HIDE DEF Matches, Hash
<1>7. Matches(b, i) /\ r = [path |-> b.entries[i]["id"], rule |-> b.entries[i]["content"],
                            sha256 |-> Hash(Later(b.entries[i], b))]
  BY <1>4, <1>5 DEF Row
<1>8. r = [path |-> a.entries[k]["id"], rule |-> a.entries[k]["content"],
           sha256 |-> Hash(Later(a.entries[k], a))]
  BY <1>4, <1>6 DEF Row
<1>9. b.entries[i]["id"] = a.entries[k]["id"]
  BY <1>7, <1>8
<1>10. Later(b.entries[i], a) = Later(a.entries[k], a)
  BY <1>9, LaterByPlace
<1>11. Row(b, a, i) = r
  BY <1>7, <1>8, <1>10 DEF Row
<1> QED
  BY <1>1, <1>2, <1>3, <1>4, <1>11, StoredRows

\* A watched file is told by its path.
LEMMA SteadyFiles ==
    ASSUME NEW b, NEW a, ~FileIntegrity(b, a).failed,
           NEW r \in FileIntegrity(b, b).rows, r \in FileIntegrity(a, a).rows
    PROVE  r \in FileIntegrity(b, a).rows
<1> DEFINE At1(w, path) == Later([id |-> path], w)
           Hash(file) == IF Opens(file) THEN Get(file, "content") ELSE None
           Row(w, u, path) ==
             CASE At1(w, path) = Gone -> [path |-> path, sha256 |-> None, exists_flag |-> 0]
               [] At1(w, path) # Gone /\ Has(At1(w, path), {"sealed"}) -> Skip
               [] /\ At1(w, path) # Gone /\ ~Has(At1(w, path), {"sealed"})
                  /\ Has(At1(u, path), {"sealed"}) -> Crash
               [] OTHER -> [path |-> path, exists_flag |-> 1, sha256 |-> Hash(At1(u, path))]
           Rows(w, u) == {Row(w, u, path) : path \in WatchedFiles}
<1>1. \A w, u : FileIntegrity(w, u) =
        IF Crash \in Rows(w, u) THEN Failed ELSE [failed |-> FALSE, rows |-> Rows(w, u) \ {Skip}]
  BY DEF FileIntegrity
<1>2. \A w, u, path :
        \/ /\ At1(w, path) = Gone
           /\ Row(w, u, path) = [path |-> path, sha256 |-> None, exists_flag |-> 0]
        \/ At1(w, path) # Gone /\ Row(w, u, path) \in {Skip, Crash}
        \/ /\ At1(w, path) # Gone
           /\ Row(w, u, path) = [path |-> path, exists_flag |-> 1, sha256 |-> Hash(At1(u, path))]
  OBVIOUS
<1>3. \A path : Row(a, a, path) \notin {Skip, Crash} /\ Row(b, b, path) \notin {Skip, Crash} =>
        \/ /\ At1(b, path) = Gone /\ Row(b, a, path) = Row(b, b, path)
        \/ /\ At1(b, path) # Gone /\ Row(b, b, path)["exists_flag"] = 1
           /\ At1(a, path) # Gone =>
                Row(b, a, path) = Row(a, a, path)
           /\ At1(a, path) = Gone => Row(a, a, path)["exists_flag"] = 0
  OBVIOUS
<1>4. \A w, u : \A q \in FileIntegrity(w, u).rows :
        q \notin {Skip, Crash} /\ \E path \in WatchedFiles : q = Row(w, u, path)
  BY <1>1 DEF Failed
<1>5. PICK path \in WatchedFiles : r = Row(b, b, path)
  BY <1>4
<1>6. PICK other \in WatchedFiles : r = Row(a, a, other)
  BY <1>4
<1>7. r \notin {Skip, Crash}
  BY <1>4
<1>8. \A w, p : Row(w, w, p) \notin {Skip, Crash} => Row(w, w, p)["path"] = p
  BY <1>2
<1>9. other = path
  BY <1>5, <1>6, <1>7, <1>8
<1>10. r = Row(b, a, path)
  BY <1>3, <1>5, <1>6, <1>7, <1>9
<1> HIDE DEF Row
<1> QED
  BY <1>1, <1>5, <1>7, <1>10 DEF Failed

\* A jobs' scope is that of no unit.
LEMMA SteadyUnits ==
    ASSUME NEW b, NEW a, b.place = a.place,
           \A i \in DOMAIN a.entries : Has(a.entries[i], {"name"}) =>
             Has(a.entries[i], {"scope"}) /\ a.entries[i]["scope"] # "crontab",
           SystemdUnits(b, a) = SystemdUnits(b, b),
           ~LinuxLaunchItems(b, a).failed,
           NEW r \in LinuxLaunchItems(b, b).rows, r \in LinuxLaunchItems(a, a).rows
    PROVE  r \in LinuxLaunchItems(b, a).rows
<1>1. \A w : \A u \in Crontabs(w).rows : u["scope"] = "crontab"
  <2> DEFINE Line(lines, i) == "line" \in DOMAIN lines[i]
             Row(lines, i) == IF Line(lines, i)
                              THEN CronRow(lines[i], Cardinality({j \in 1..i : Line(lines, j)}))
                              ELSE Skip
             Rows(lines) == [i \in DOMAIN lines |-> Row(lines, i)]
  <2> TAKE w
  <2>1. Crontabs(w) = IF FileReads(w) THEN Outcome(Rows(w.entries)) ELSE Nothing
    BY DEF Crontabs, FileSnapshot
  <2>2. \A line, n : CronRow(line, n) = Skip \/ CronRow(line, n)["scope"] = "crontab"
    BY DEF CronRow
  <2>3. \A i \in DOMAIN Rows(w.entries) :
          Rows(w.entries)[i] = Skip \/ Rows(w.entries)[i]["scope"] = "crontab"
    BY <2>2
  <2> HIDE DEF Rows
  <2> QED
    BY <2>1, <2>3, StoredRows DEF Nothing
<1>2. \A u \in SystemdUnits(a, a).rows : u["scope"] # "crontab"
  <2> DEFINE units == a.entries
             Unit(i) == "name" \in DOMAIN units[i]
             Seen(i) == \E j \in 1..(i - 1) : Unit(j) /\ units[j]["name"] = units[i]["name"]
             Text1(i) == IniText(OfKind("name", Later(units[i], a)))
             Of(i) == UnitRow(units[i]["scope"], units[i]["name"], Text1(i))
             Row(i) == IF ~Unit(i) \/ Seen(i) THEN Skip
                       ELSE IF Text1(i) \in {Crash, Skip} THEN Text1(i) ELSE Of(i)
             Rows == [i \in DOMAIN units |-> Row(i)]
  <2>1. SystemdUnits(a, a) = IF a.place # "ok" THEN Nothing ELSE Outcome(Rows)
    BY DEF SystemdUnits, Ini
  <2>2. \A i \in DOMAIN Rows : Unit(i) => Of(i)["scope"] # "crontab"
    BY DEF UnitRow, Has
  <2>3. \A i \in DOMAIN Rows : Rows[i] \in {Skip, Crash} \/ Rows[i]["scope"] # "crontab"
    <3> HIDE DEF Of, Text1, Seen, Unit, units
    <3> QED
      BY <2>2
  <2> HIDE DEF Rows
  <2> QED
    BY <2>1, <2>3, StoredRows DEF Nothing
<1> QED
  BY <1>1, <1>2 DEF LinuxLaunchItems, Both, Failed

-----------------------------------------------------------------------------
(***************************************************************************)
(* The row that one place gives at both ends.                              *)
(***************************************************************************)

\* A walk that gives a row of one entry lists its directory, and reads it.
LEMMA AloneIsListed ==
    ASSUME NEW system, NEW name, <<system, name>> \in Walks, name # "system_integrity",
           NEW f, NEW v, v.entries = <<f>>,
           NEW r \in Collect(system, name, v, v).rows
    PROVE  v.place # "missing" /\ (name = "processes" \/ v.place = "ok")
<1>1. r # Skip /\ \E i \in DOMAIN ListedBy(name, v) :
         r = RowOf(system, name, Ran(v, v), ListedBy(name, v)[i], Later(ListedBy(name, v)[i], v))
  BY StoredByWalk
<1>2. name = "processes" \/ v.place = "ok"
  BY <1>1 DEF ListedBy, Listed
<1>3. ASSUME name = "processes" PROVE v.place # "missing"
  BY <1>1, <1>3, LaterIsThere DEF RowOf
<1> QED
  BY <1>2, <1>3

\* A walk finds at the end what the place shows then.
LEMMA SteadyWalk ==
    ASSUME NEW system, NEW name, <<system, name>> \in Walks, name # "system_integrity",
           NEW b, NEW a, b.tool = a.tool, b.place = a.place, Distinct(a),
           name = "browser_extensions" => OneBrowser(b, a),
           ~Collect(system, name, b, a).failed, ~Felled(name, b, a),
           NEW i \in DOMAIN b.entries, NEW k \in DOMAIN a.entries,
           b.entries[i] # Gone, a.entries[k] # Gone,
           b.entries[i]["id"] = a.entries[k]["id"],
           NEW v, AloneIn(v, b, i), NEW u, AloneIn(u, a, k),
           NEW r \in Collect(system, name, v, v).rows, r \in Collect(system, name, u, u).rows
    PROVE  r \in Collect(system, name, b, a).rows
<1> DEFINE one == b.entries[i]
           other == a.entries[k]
           rows == WalkRows(system, name, b, a)
<1>1. /\ u.entries = <<other>> /\ u.tool = a.tool /\ u.place = a.place
      /\ v.entries = <<one>> /\ v.tool = a.tool /\ v.place = a.place
  BY DEF AloneIn
<1>2. a.place # "missing" /\ (name = "processes" \/ b.place = "ok")
  BY <1>1, AloneIsListed
<1>3. /\ r = RowOf(system, name, Ran(u, u), other, other) /\ r \notin {Skip, Crash}
      /\ r = RowOf(system, name, Ran(v, v), one, one)
  BY <1>1, <1>2, WalkAlone
<1>4. Later(one, a) = other
  BY <1>2, LaterIsTheOne
<1>5. ListedBy(name, b) = b.entries
  BY <1>2 DEF ListedBy, Listed
<1>6. i \in DOMAIN rows /\ rows[i] = RowOf(system, name, Ran(b, a), one, other)
  BY <1>4, <1>5 DEF WalkRows
<1>7. Ran(b, a) = Ran(u, u) /\ Ran(b, a) = Ran(v, v)
  BY <1>1 DEF Ran
<1>8. name = "browser_extensions" => Get(one, "browser") = Get(other, "browser")
  BY DEF OneBrowser
<1> HIDE DEF rows
<1>9. rows[i] = r
  <2>1. one["id"] = other["id"] /\ one # Gone /\ other # Gone
    OBVIOUS
  <2>2. RowOf(system, name, Ran(b, a), one, one) = r
    BY <1>3, <1>7
  <2>3. RowOf(system, name, Ran(b, a), other, other) = r
    BY <1>3, <1>7
  <2> HIDE DEF one, other
  <2>4. RowOf(system, name, Ran(b, a), one, other) = r
    BY <1>3, <1>8, <2>1, <2>2, <2>3, RowOfSteady
  <2> QED
    BY <1>6, <2>4
<1>10. Collect(system, name, b, a) = Outcome(rows)
  BY WalkIsWalk DEF rows, Failed
<1> QED
  BY <1>3, <1>6, <1>9, <1>10, StoredRows

\* The run keys of the beginning and the tasks of the end.
LEMMA SteadyWindowsItems ==
    ASSUME NEW b, NEW a, NEW i, NEW k, NEW v, NEW u, AloneIn(v, b, i), AloneIn(u, a, k),
           ~Collect("Windows", "launch_items", b, a).failed,
           NEW r \in Collect("Windows", "launch_items", v, v).rows,
           r \in Collect("Windows", "launch_items", u, u).rows
    PROVE  r \in Collect("Windows", "launch_items", b, a).rows
<1>1. ASSUME NEW w, NEW p, NEW j, AloneIn(p, w, j)
      PROVE  Kept(RunKeys(p), RunKeys(w)) /\ Kept(Tasks(p), Tasks(w))
  <2>1. p.tool = w.tool /\ p.entries = <<w.entries[j]>> /\ j \in DOMAIN w.entries
    BY <1>1 DEF AloneIn
  <2>2. Kept(RunKeys(p), RunKeys(w))
    <3> DEFINE Rows(s) == EachEntry(LAMBDA item :
                            ObjectRow(LAMBDA it : From("command", RunKeyRow, it), item), s)
    <3>1. \A q : RunKeys(q) = IF MissingTool(q) THEN Failed ELSE Outcome(Rows(ReportEntries(q).entries))
      BY DEF RunKeys, PowerShell, ReportRows, ReportEntries
    <3>2. \/ ReportEntries(p).entries = ReportEntries(w).entries
          \/ /\ ReportEntries(p).entries = p.entries
             /\ ReportEntries(w).entries = w.entries
      BY <2>1 DEF ReportEntries, JsonDocument
    <3>3. DOMAIN Rows(p.entries) = {1} /\ Rows(p.entries)[1] = Rows(w.entries)[j]
            /\ j \in DOMAIN Rows(w.entries)
      BY <2>1 DEF EachEntry
    <3> HIDE DEF Rows
    <3>4. Kept(Outcome(Rows(p.entries)), Outcome(Rows(w.entries)))
      BY <3>3, RowKept
    <3>5. MissingTool(p) = MissingTool(w)
      BY <2>1 DEF MissingTool
    <3> QED
      BY <3>1, <3>2, <3>4, <3>5, KeptItself
  <2>3. Kept(Tasks(p), Tasks(w))
    <3> DEFINE Rows(s) == EachFrom("line", SchtasksRow, s)
    <3>1. DOMAIN Rows(p.entries) = {1} /\ Rows(p.entries)[1] = Rows(w.entries)[j]
            /\ j \in DOMAIN Rows(w.entries)
      BY <2>1 DEF EachFrom, EachEntry, From
    <3>2. \A q : Tasks(q) = Outcome(Rows(Text(q)))
      BY DEF Tasks
    <3> HIDE DEF Rows
    <3>3. Kept(Outcome(Rows(p.entries)), Outcome(Rows(w.entries)))
      BY <3>1, RowKept
    <3>4. Text(p) = Text(w) \/ (Text(p) = p.entries /\ Text(w) = w.entries)
      BY <2>1 DEF Text
    <3> QED
      BY <3>2, <3>3, <3>4, KeptItself
  <2> QED
    BY <2>2, <2>3
<1>2. Kept(RunKeys(v), RunKeys(b)) /\ Kept(Tasks(u), Tasks(a))
  BY <1>1
<1>3. ~RunKeys(b).failed /\ ~Tasks(a).failed
  BY WindowsItems DEF Both, Failed
<1>4. r \in RunKeys(v).rows \/ r \in Tasks(u).rows
  BY WindowsItems, RunKeysRead, TasksRead DEF Both, Failed
<1>5. r \in RunKeys(b).rows \/ r \in Tasks(a).rows
  BY <1>2, <1>3, <1>4 DEF Kept
<1> QED
  BY <1>3, <1>5, WindowsItems DEF Both

\* The applications of Linux: packages are read at the beginning, launchers
\* listed then and read at the end.
LEMMA SteadyApps ==
    ASSUME NEW b, NEW a, b.tool = a.tool, b.place = a.place, Distinct(a),
           ~LinuxInstalledApps(b, a).failed,
           NEW i \in DOMAIN b.entries, NEW k \in DOMAIN a.entries,
           SamePlace(b.entries[i], a.entries[k]),
           ~Has(a.entries[k], {"package", "desktop"}),
           NEW v, AloneIn(v, b, i), NEW u, AloneIn(u, a, k),
           NEW r \in LinuxInstalledApps(v, v).rows, r \in LinuxInstalledApps(u, u).rows
    PROVE  r \in LinuxInstalledApps(b, a).rows
<1> DEFINE one == b.entries[i]
           other == a.entries[k]
           Row(listed, file) ==
             IF ~Has(listed, {"desktop"}) THEN Skip
             ELSE Ini(OfKind("desktop", file), LAMBDA section : DesktopEntryRow(listed, section))
           Rows(w, p) == [j \in DOMAIN Listed(w) |-> Row(Listed(w)[j], Later(Listed(w)[j], p))]
<1>1. \A w, p : DesktopEntries(w, p) = Outcome(Rows(w, p))
  BY DEF DesktopEntries, Walk, Ini
<1>2. \A w, p : LinuxInstalledApps(w, p) = Both(DpkgPackages(w), DesktopEntries(w, p))
  BY DEF LinuxInstalledApps
<1>3. \A w, p : \A q : q \in LinuxInstalledApps(w, p).rows =>
        q \in DpkgPackages(w).rows \/ q \in DesktopEntries(w, p).rows
  BY <1>2 DEF Both, Failed
<1>4. ~DpkgPackages(b).failed /\ ~DesktopEntries(b, a).failed
  BY <1>2 DEF Both, Failed
<1>5. SUFFICES r \in DpkgPackages(b).rows \/ r \in DesktopEntries(b, a).rows
  BY <1>2, <1>4 DEF Both
<1>6. \A w, p, j : AloneIn(p, w, j) => Kept(DpkgPackages(p), DpkgPackages(w))
  <2> SUFFICES ASSUME NEW w, NEW p, NEW j, AloneIn(p, w, j)
               PROVE  Kept(DpkgPackages(p), DpkgPackages(w))
    OBVIOUS
  <2> DEFINE Of(s) == EachEntry(DpkgRow, s)
  <2>1. \A q : DpkgPackages(q) = IF q.tool = "missing" THEN Nothing ELSE Outcome(Of(Text(q)))
    BY DEF DpkgPackages
  <2>2. p.tool = w.tool /\ p.entries = <<w.entries[j]>> /\ j \in DOMAIN w.entries
    BY DEF AloneIn
  <2>3. DOMAIN Of(p.entries) = {1} /\ Of(p.entries)[1] = Of(w.entries)[j]
          /\ j \in DOMAIN Of(w.entries)
    BY <2>2 DEF EachEntry
  <2> HIDE DEF Of
  <2>4. Kept(Outcome(Of(p.entries)), Outcome(Of(w.entries)))
    BY <2>3, RowKept
  <2>5. Text(p) = Text(w) \/ (Text(p) = p.entries /\ Text(w) = w.entries)
    BY <2>2 DEF Text
  <2> QED
    BY <2>1, <2>2, <2>4, <2>5, KeptItself
<1>7. CASE r \in DpkgPackages(v).rows
  BY <1>4, <1>6, <1>7 DEF Kept
<1>8. CASE r \notin DpkgPackages(v).rows
  <2>1. r \in DesktopEntries(v, v).rows
    BY <1>3, <1>8
  <2>2. v.entries = <<one>> /\ u.entries = <<other>> /\ v.place = a.place /\ u.place = a.place
    BY DEF AloneIn
  <2> HIDE DEF one, other, Row
  <2>3. \A w : DOMAIN Rows(w, w) = DOMAIN Listed(w)
          /\ \A j \in DOMAIN Listed(w) : Rows(w, w)[j] = Row(Listed(w)[j], Later(Listed(w)[j], w))
    OBVIOUS
  <2>4. DOMAIN Rows(b, a) = DOMAIN Listed(b)
          /\ \A j \in DOMAIN Listed(b) : Rows(b, a)[j] = Row(Listed(b)[j], Later(Listed(b)[j], a))
    OBVIOUS
  <2> HIDE DEF Rows
  <2>5. r # Skip /\ \E j \in DOMAIN Listed(v) : r = Row(Listed(v)[j], Later(Listed(v)[j], v))
    BY <1>1, <2>1, <2>3, StoredRows
  <2>6. a.place = "ok" /\ r = Row(one, Later(one, v))
    BY <2>2, <2>5 DEF Listed
  <2>7. Has(one, {"desktop"})
    BY <2>5, <2>6 DEF Row
  <2>8. one["id"] = other["id"] /\ Source(one) = Source(other)
    BY DEF SamePlace, one, other
  <2>9. Has(other, {"desktop"}) /\ ~Has(other, {"package"})
    <3>1. "desktop" \in Source(one)
      BY <2>7 DEF Has, Source
    <3>2. "desktop" \in DOMAIN other
      BY <2>8, <3>1 DEF Source
    <3>3. ~Has(other, {"package", "desktop"})
      BY DEF other
    <3> QED
      BY <3>2, <3>3 DEF Has
  <2>10. r \notin DpkgPackages(u).rows
    <3>1. DpkgRow(other) = Skip
      BY <2>9 DEF DpkgRow, Has
    <3>2. \A j \in DOMAIN EachEntry(DpkgRow, Text(u)) : EachEntry(DpkgRow, Text(u))[j] = Skip
      BY <2>2, <3>1 DEF EachEntry, Text
    <3>3. r \notin Outcome(EachEntry(DpkgRow, Text(u))).rows
      BY <2>5, <3>2, StoredRows
    <3> QED
      BY <3>3 DEF DpkgPackages, Nothing
  <2>11. r \in DesktopEntries(u, u).rows
    BY <1>3, <2>10
  <2>12. r = Row(other, Later(other, u))
    <3>1. \E j \in DOMAIN Listed(u) : r = Row(Listed(u)[j], Later(Listed(u)[j], u))
      BY <1>1, <2>3, <2>11, StoredRows
    <3> QED
      BY <2>2, <3>1 DEF Listed
  <2>13. Later(other, u) = other
    <3>1. DOMAIN u.entries = {1} /\ u.entries[1] = other
      BY <2>2
    <3> QED
      BY <2>2, <2>6, <3>1 DEF Later
  <2>14. Later(one, a) = other
    BY <2>6, <2>8, LaterIsTheOne DEF other
  <2>15. Row(one, other) = Row(other, other)
    BY <2>7, <2>8, <2>9 DEF Row, DesktopEntryRow, Ini
  <2>16. Listed(b) = b.entries
    BY <2>6 DEF Listed
  <2>17. i \in DOMAIN Rows(b, a) /\ Rows(b, a)[i] = r
    BY <2>4, <2>12, <2>13, <2>14, <2>15, <2>16 DEF one
  <2>18. \A j \in DOMAIN Rows(b, a) : Rows(b, a)[j] # Crash
    BY <1>1, <1>4, StoredRows
  <2> QED
    BY <1>1, <2>5, <2>17, <2>18, StoredRows
<1> QED
  BY <1>7, <1>8

\* The slices that are neither read at the end, nor walks of one directory.
LEMMA OthersReadTwice ==
    ASSUME NEW system \in Hosts, NEW name \in SlicesOf(system) \cap ReadTwice(system),
           <<system, name>> \notin Walks
    PROVE  \/ /\ name = "listening_ports"
              /\ \A b, a : Collect(system, name, b, a) = ListeningPorts(b, a)
           \/ /\ name = "disk_usage"
              /\ \A b, a : Collect(system, name, b, a) = DiskUsage(b, a)
           \/ /\ name = "file_scan" /\ system # "Windows"
              /\ \A b, a : Collect(system, name, b, a) = FileScan(b, a)
           \/ /\ name = "file_integrity" /\ system # "Windows"
              /\ \A b, a : Collect(system, name, b, a) = FileIntegrity(b, a)
           \/ system = "Windows" /\ name = "launch_items"
           \/ /\ system = "Linux" /\ name = "launch_items"
              /\ \A b, a : Collect(system, name, b, a) = LinuxLaunchItems(b, a)
           \/ /\ system = "Linux" /\ name = "installed_apps"
              /\ \A b, a : Collect(system, name, b, a) = LinuxInstalledApps(b, a)
<1>1. name \in {"listening_ports", "disk_usage"}
        \/ (name \in {"file_scan", "file_integrity"} /\ system # "Windows")
        \/ (name = "launch_items" /\ system \in {"Linux", "Windows"})
        \/ (name = "installed_apps" /\ system = "Linux")
  <2>1. name \in ReadTwice(system) /\ name \in SlicesOf(system)
    OBVIOUS
  <2>2. CASE system = "Darwin"
    BY <2>1, <2>2 DEF ReadTwice, Walks
  <2>3. CASE system = "Linux"
    BY <2>1, <2>3 DEF ReadTwice, Walks
  <2>4. CASE system = "Windows"
    BY <2>1, <2>4 DEF ReadTwice, Walks, SlicesOf, WindowsSlices, PortableSlices, AccountSlices,
                      WindowsNativeSlices, NeighborSlices, ExposureSlices, PersistenceSlices
  <2> QED
    BY <2>2, <2>3, <2>4 DEF Hosts
<1>2. CASE name \in {"listening_ports", "disk_usage"}
  <2>1. \A b, a : Collect(system, name, b, a) = PortableCollectors(name, b, a)
    BY <1>2, MacosGroups, LinuxGroups, WindowsGroups DEF Hosts, Collect, PortableSlices
  <2> QED
    BY <1>2, <2>1 DEF PortableCollectors
<1>3. CASE name \in {"file_scan", "file_integrity"} /\ system # "Windows"
  <2>1. \A b, a : Collect(system, name, b, a) = Files(name, b, a)
    BY <1>3, MacosGroups, LinuxGroups DEF Hosts, Collect, FileSlices
  <2> QED
    BY <1>3, <2>1 DEF Files
<1>4. CASE system = "Linux" /\ name \in {"launch_items", "installed_apps"}
  <2>1. \A b, a : Collect(system, name, b, a) = LinuxSoftware(name, b, a)
    BY <1>4, LinuxGroups DEF Collect, LinuxSoftwareSlices
  <2> QED
    BY <1>4, <2>1 DEF LinuxSoftware
<1> QED
  BY <1>1, <1>2, <1>3, <1>4

\* What the places of mounts, units and launchers tell.
LEMMA EntriesTell ==
    ASSUME host \in Hosts, slice \in SlicesOf(host), <<host, slice>> \notin Headed,
           NEW w, IsWorld(w), NEW i \in DOMAIN w.entries
    PROVE  /\ "id" \in DOMAIN w.entries[i]
           /\ slice = "disk_usage" /\ Has(w.entries[i], {"device"}) =>
                w.entries[i]["device"] = w.entries[i]["id"]
           /\ host = "Linux" /\ slice = "launch_items" /\ Has(w.entries[i], {"name"}) =>
                Has(w.entries[i], {"scope"}) /\ w.entries[i]["scope"] # "crontab"
           /\ host = "Linux" /\ slice = "installed_apps" =>
                ~Has(w.entries[i], {"package", "desktop"})
<1> DEFINE id == w.entries[i]["id"]
<1>1. PICK entry \in Entries(host, slice, id) : id \in Ids /\ w.entries[i] = Placed(id, entry)
  BY BareWorld
<1> DEFINE e == w.entries[i]
<1> HIDE DEF id, e
<1>2. e = Placed(id, entry) /\ id = e["id"]
  BY <1>1 DEF id, e
<1>3. /\ DOMAIN e = {"id"} \cup DOMAIN entry
      /\ \A word \in DOMAIN entry : word # "id" => e[word] = entry[word]
  BY <1>2 DEF Placed
<1>4. slice = "disk_usage" /\ Has(e, {"device"}) => e["device"] = e["id"]
  <2>1. slice = "disk_usage" /\ Has(entry, {"device"}) => entry["device"] = id
    BY <1>1, EntriesAssumption
  <2> QED
    BY <1>2, <1>3, <2>1 DEF Has
<1>5. host = "Linux" /\ slice = "launch_items" /\ Has(e, {"name"}) =>
        Has(e, {"scope"}) /\ e["scope"] # "crontab"
  <2>1. host = "Linux" /\ slice = "launch_items" /\ Has(entry, {"name"}) =>
          Has(entry, {"scope"}) /\ entry["scope"] # "crontab"
    BY <1>1, EntriesAssumption
  <2> QED
    BY <1>3, <2>1 DEF Has
<1>6. host = "Linux" /\ slice = "installed_apps" => ~Has(e, {"package", "desktop"})
  <2>1. host = "Linux" /\ slice = "installed_apps" => ~Has(entry, {"package", "desktop"})
    BY <1>1, EntriesAssumption
  <2> QED
    BY <1>3, <2>1 DEF Has
<1>7. "id" \in DOMAIN e
  BY <1>3
<1> QED
  BY <1>4, <1>5, <1>6, <1>7 DEF e

\* A row that is there at the beginning and at the end is stored.
LEMMA SteadyRows ==
    ASSUME ScanInv, Ended, ~outcome.failed, SourceSteady,
           slice \notin Walked \cup {"listening_ports"} \/ Lasting,
           NEW r \in RowsAt(begun), r \in RowsAt(world)
    PROVE  r \in outcome.rows
<1>1. /\ host \in Hosts /\ slice \in SlicesOf(host) /\ IsWorld(world) /\ IsWorld(begun)
      /\ outcome = Collect(host, slice, begun, world)
      /\ begun.tool = world.tool /\ begun.place = world.place
  BY DEF ScanInv, Ended, SourceSteady
<1>2. /\ r \in Collect(host, slice, begun, begun).rows
      /\ r \in Collect(host, slice, world, world).rows
  BY DEF RowsAt, Moment
<1>3. CASE slice \notin ReadTwice(host)
  <2>1. AtTheEnd(begun, world, outcome, Collect(host, slice, world, world))
    BY <1>1, <1>3, ReadAtTheEnd
  <2> QED
    BY <1>1, <1>2, <2>1 DEF AtTheEnd
<1>4. ASSUME slice \in ReadTwice(host)
      PROVE  <<host, slice>> \notin Headed /\ Body(begun) = DOMAIN begun.entries
  <2>1. <<host, slice>> \notin Headed
    BY <1>4 DEF ReadTwice, Headed
  <2> QED
    BY <1>1, <2>1, BareWorld
<1>5. ASSUME slice \in ReadTwice(host), slice # "listening_ports", Lasting
      PROVE  \A i \in DOMAIN begun.entries :
               Later(begun.entries[i], begun) = Later(begun.entries[i], world)
  <2>1. \A i \in DOMAIN begun.entries : Later(begun.entries[i], world) = begun.entries[i]
    BY <1>4, <1>5 DEF Lasting
  <2>2. Distinct(begun) /\ \A i \in DOMAIN begun.entries : "id" \in DOMAIN begun.entries[i]
    BY <1>1, <1>4, <1>5, BareWorld, EntriesTell
  <2> QED
    BY <1>1, <2>1, <2>2, LastingIsLater
<1>6. CASE slice \in ReadTwice(host) /\ <<host, slice>> \in Walks
  <2>1. slice \in Walked /\ slice # "listening_ports"
    BY <1>6 DEF Walked, Walks
  <2> QED
    BY <1>1, <1>2, <1>5, <1>6, <2>1, LastingWalk
<1>7. CASE slice \in ReadTwice(host) /\ <<host, slice>> \notin Walks
  <2>1. CASE slice = "listening_ports" /\ outcome = ListeningPorts(begun, world)
               /\ Collect(host, slice, begun, begun) = ListeningPorts(begun, begun)
    <3>1. \A i \in DOMAIN begun.entries :
            ProcessName(Get(begun.entries[i], "pid"), world)
              = ProcessName(Get(begun.entries[i], "pid"), begun)
      BY <1>4, <1>7, <2>1 DEF Lasting
    <3> QED
      BY <1>1, <1>2, <2>1, <3>1, LastingPorts
  <2>2. CASE slice = "disk_usage" /\ \A b, a : Collect(host, slice, b, a) = DiskUsage(b, a)
    <3>1. \A w \in {begun, world} : \A i \in DOMAIN w.entries :
            Has(w.entries[i], {"device"}) => w.entries[i]["device"] = w.entries[i]["id"]
      BY <1>1, <1>4, <1>7, <2>2, EntriesTell
    <3> QED
      BY <1>1, <1>2, <2>2, <3>1, SteadyDisks
  <2>3. CASE slice = "file_scan" /\ \A b, a : Collect(host, slice, b, a) = FileScan(b, a)
    BY <1>1, <1>2, <2>3, SteadyMatches
  <2>7. CASE slice = "file_integrity" /\ \A b, a : Collect(host, slice, b, a) = FileIntegrity(b, a)
    BY <1>1, <1>2, <2>7, SteadyFiles
  <2>4. CASE host = "Windows" /\ slice = "launch_items"
    <3>1. /\ r \in RunKeys(begun).rows \/ r \in Tasks(begun).rows
          /\ r \in RunKeys(world).rows \/ r \in Tasks(world).rows
          /\ ~RunKeys(begun).failed /\ ~Tasks(world).failed
      BY <1>1, <1>2, <2>4, WindowsItems DEF Both, Failed
    <3>2. r \in RunKeys(begun).rows \/ r \in Tasks(world).rows
      BY <3>1, RunKeysRead, TasksRead
    <3> QED
      BY <1>1, <2>4, <3>1, <3>2, WindowsItems DEF Both
  <2>5. CASE host = "Linux" /\ slice = "launch_items"
               /\ \A b, a : Collect(host, slice, b, a) = LinuxLaunchItems(b, a)
    <3>1. Lasting
      BY <2>5 DEF Walked
    <3>2. SystemdUnits(begun, world) = SystemdUnits(begun, begun)
      BY <1>5, <1>7, <2>5, <3>1, LastingUnits
    <3>3. \A i \in DOMAIN world.entries : Has(world.entries[i], {"name"}) =>
            Has(world.entries[i], {"scope"}) /\ world.entries[i]["scope"] # "crontab"
      BY <1>1, <1>4, <1>7, <2>5, EntriesTell
    <3> QED
      BY <1>1, <1>2, <2>5, <3>2, <3>3, SteadyUnits
  <2>6. CASE host = "Linux" /\ slice = "installed_apps"
               /\ \A b, a : Collect(host, slice, b, a) = LinuxInstalledApps(b, a)
    <3>1. Lasting
      BY <2>6 DEF Walked
    <3>2. LinuxInstalledApps(begun, world) = LinuxInstalledApps(begun, begun)
      BY <1>5, <1>7, <2>6, <3>1, LastingApps
    <3> QED
      BY <1>1, <1>2, <2>6, <3>2
  <2> QED
    BY <1>1, <1>7, <2>1, <2>2, <2>3, <2>4, <2>5, <2>6, <2>7, OthersReadTwice
<1> QED
  BY <1>3, <1>6, <1>7

\* And so is the row that one place gives at both ends.
LEMMA SteadyPlace ==
    ASSUME ScanInv, Ended, ~outcome.failed, SourceSteady, slice \notin Related, TreeStands,
           NEW i \in Body(begun), NEW k \in Body(world),
           SamePlace(begun.entries[i], world.entries[k]),
           NEW r \in RowsAt(Alone(begun, begun.entries[i])),
           r \in RowsAt(Alone(world, world.entries[k]))
    PROVE  r \in outcome.rows
<1>1. /\ host \in Hosts /\ slice \in SlicesOf(host) /\ IsWorld(world) /\ IsWorld(begun)
      /\ outcome = Collect(host, slice, begun, world)
      /\ begun.tool = world.tool /\ begun.place = world.place
  BY DEF ScanInv, Ended, SourceSteady
<1>2. slice \notin RelatedOn(host) /\ <<host, slice>> \notin Headed
  BY DEF Related, RelatedOn, Headed
<1>3. /\ Headings(host, slice) = <<>> /\ world.entries \in Seq(Contents)
      /\ i \in DOMAIN begun.entries /\ k \in DOMAIN world.entries
      /\ Distinct(world) /\ begun \in HostStates /\ world \in HostStates
      /\ begun.entries[i] # Gone /\ world.entries[k] # Gone
      /\ Body(begun) = DOMAIN begun.entries
  BY <1>1, <1>2, BareWorld DEF IsWorld
<1> DEFINE v == Alone(begun, begun.entries[i])
           u == Alone(world, world.entries[k])
<1>4. AloneIn(v, begun, i) /\ AloneIn(u, world, k)
  BY <1>3, AloneWorld
<1>5. r \in Collect(host, slice, v, v).rows /\ r \in Collect(host, slice, u, u).rows
  BY DEF RowsAt, Moment
<1> HIDE DEF v, u
<1>6. begun.entries[i]["id"] = world.entries[k]["id"]
  BY DEF SamePlace
<1>7. CASE slice \notin ReadTwice(host)
  <2>1. AtTheEnd(begun, world, outcome, Collect(host, slice, world, world))
    BY <1>1, <1>7, ReadAtTheEnd
  <2>2. outcome = Collect(host, slice, world, world)
    BY <1>1, <2>1 DEF AtTheEnd
  <2>3. Kept(Collect(host, slice, u, u), Collect(host, slice, world, world))
    BY <1>1, <1>2, <1>3, <1>4, <1>7, EachKept
  <2> QED
    BY <1>5, <2>2, <2>3 DEF Kept
<1>8. CASE <<host, slice>> \in Walks
  <2>1. slice = "browser_extensions" => OneBrowser(begun, world)
    BY <1>1, <1>8, SameBrowser DEF Walks
  <2>2. ~Felled(slice, begun, world)
    BY <1>3 DEF Felled, TreeStands, Listed
  <2>3. slice # "system_integrity"
    BY <1>2 DEF RelatedOn
  <2> QED
    BY <1>1, <1>3, <1>4, <1>5, <1>6, <1>8, <2>1, <2>2, <2>3, SteadyWalk
<1>9. CASE slice \in ReadTwice(host) /\ <<host, slice>> \notin Walks
  <2>1. slice \notin {"listening_ports", "disk_usage", "file_scan", "file_integrity"}
          /\ ~(host = "Linux" /\ slice = "launch_items")
    BY <1>2 DEF RelatedOn
  <2>2. CASE host = "Windows" /\ slice = "launch_items"
    BY <1>1, <1>4, <1>5, <2>2, SteadyWindowsItems
  <2>3. CASE host = "Linux" /\ slice = "installed_apps"
               /\ \A b, a : Collect(host, slice, b, a) = LinuxInstalledApps(b, a)
    <3>1. ~Has(world.entries[k], {"package", "desktop"})
      BY <1>1, <1>2, <1>3, <2>3, EntriesTell
    <3> QED
      BY <1>1, <1>3, <1>4, <1>5, <2>3, <3>1, SteadyApps
  <2> QED
    BY <1>1, <1>9, <2>1, <2>2, <2>3, OthersReadTwice
<1> QED
  BY <1>7, <1>8, <1>9

\* A collection that the runner records as a success is complete: it has the rows
\* that are there at both ends, and those one place gives at both ends.
THEOREM SteadyIsStored == ScanSpec => []SteadyEntryIsStored
<1>1. ScanInv => SteadyEntryIsStored
  <2> SUFFICES ASSUME ScanInv, Ended, ~outcome.failed, SourceSteady
               PROVE  /\ slice \notin Walked \cup {"listening_ports"} \/ Lasting =>
                           RowsAt(begun) \cap RowsAt(world) \subseteq outcome.rows
                      /\ slice \notin Related /\ TreeStands =>
                           \A i \in Body(begun), k \in Body(world) :
                             SamePlace(begun.entries[i], world.entries[k]) =>
                               RowsAt(Alone(begun, begun.entries[i]))
                                 \cap RowsAt(Alone(world, world.entries[k])) \subseteq outcome.rows
    BY DEF SteadyEntryIsStored
  <2>1. ASSUME slice \notin Walked \cup {"listening_ports"} \/ Lasting,
               NEW r \in RowsAt(begun) \cap RowsAt(world)
        PROVE  r \in outcome.rows
    BY <2>1, SteadyRows
  <2>2. ASSUME slice \notin Related, TreeStands, NEW i \in Body(begun), NEW k \in Body(world),
               SamePlace(begun.entries[i], world.entries[k]),
               NEW r \in RowsAt(Alone(begun, begun.entries[i]))
                           \cap RowsAt(Alone(world, world.entries[k]))
        PROVE  r \in outcome.rows
    BY <2>2, SteadyPlace
  <2> QED
    BY <2>1, <2>2
<1> QED
  BY <1>1, ScanInvInit, ScanInvNext, PTL DEF ScanSpec
=============================================================================
