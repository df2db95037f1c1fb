------------------------- MODULE ControlPlaneProofs -------------------------
(***************************************************************************)
(* The safety properties of ControlPlane, for every number of requests,    *)
(* crashes and faults and for every set of commands and settings.          *)
(***************************************************************************)
EXTENDS ControlPlane, TLAPS

-----------------------------------------------------------------------------
(***************************************************************************)
(* The inductive invariant, in named parts.                                *)
(***************************************************************************)

\* The row and the operator's queue agree; there is no row before the first
\* write.
QueueInv ==
    /\ Len(queued) = control.command_nonce
    /\ control.command_nonce # 0 => control.command = queued[control.command_nonce]
    /\ ~control.exists => control = EmptyRow
    /\ pc # "down" => control.exists

\* The tick's copy is an earlier state of the row.
CopyInv ==
    /\ row.command_nonce <= control.command_nonce
    /\ row.command_nonce # 0 => row.command = queued[row.command_nonce]
    /\ row.scan_now_nonce <= control.scan_now_nonce
    /\ control.scan_now_applied <= control.scan_now_nonce

\* Where the command protocol stands: applied <= run <= copied <= queued.
CommandInv ==
    /\ CommandRunAsQueued
    /\ AckTellsWhatRan
    /\ lastRun.nonce <= control.command_nonce
    /\ pc = "command" => /\ lastRun.nonce <= row.command_nonce
                         /\ control.command_applied < row.command_nonce
    /\ pc = "ackCommand" => /\ lastRun.nonce = row.command_nonce
                            /\ control.command_applied < row.command_nonce
    /\ ~interrupted /\ pc # "ackCommand" => lastRun.nonce = control.command_applied

\* A cycle serves every request acknowledged so far.
ScanInv ==
    /\ LostScanIsDue
    /\ pc = "cycle" => control.scan_now_applied <= served

\* What the copy says about pause and scan-now is what held at the read.
QuietInv ==
    /\ row.exists /\ quiet => row.paused /\ ~ScanNow
    /\ PauseObeyedWhenRead

IInv ==
    /\ TypeOK
    /\ QueueInv
    /\ CopyInv
    /\ CommandInv
    /\ ScanInv
    /\ QuietInv
    /\ IntentKept

-----------------------------------------------------------------------------
(***************************************************************************)
(* Lemmas on the two row-building operators.                               *)
(***************************************************************************)

\* Every row the system builds is well typed.
LEMMA ConstantRowsTyped == DefaultRow \in ControlRow /\ EmptyRow \in ControlRow
<1>1. DefaultRow \in ControlRow
  BY DEF ControlRow, DefaultRow, Outcomes, Statuses
<1> QED
  BY <1>1 DEF ControlRow, EmptyRow

\* What ensure and a seeding make of the row is a row.
LEMMA RowsTyped ==
    ASSUME TypeOK
    PROVE  Ensured \in ControlRow /\ \A s \in Settings : Seeded(s) \in ControlRow
<1>1. Ensured \in ControlRow
  BY ConstantRowsTyped DEF TypeOK, Ensured
<1>2. ASSUME NEW s \in Settings PROVE Seeded(s) \in ControlRow
  BY ConstantRowsTyped DEF TypeOK, Seeded, ControlRow
<1> QED
  BY <1>1, <1>2

\* Every column update the two processes make keeps the row well typed.
LEMMA RowUpdates ==
    ASSUME NEW r \in ControlRow
    PROVE  /\ r.scan_now_nonce \in Nat /\ r.command_nonce \in Nat
           /\ \A p \in BOOLEAN : [r EXCEPT !.paused = p] \in ControlRow
           /\ \A s \in Settings : [r EXCEPT !.settings = s] \in ControlRow
           /\ \A n \in Nat : [r EXCEPT !.scan_now_nonce = n] \in ControlRow
           /\ \A n \in Nat : [r EXCEPT !.scan_now_applied = n] \in ControlRow
           /\ \A c \in Commands, n \in Nat :
                [r EXCEPT !.command = c, !.command_nonce = n] \in ControlRow
           /\ \A st \in Statuses : [r EXCEPT !.status = st] \in ControlRow
           /\ \A n \in Nat, o \in Outcomes :
                [r EXCEPT !.command_applied = n, !.command_result = o] \in ControlRow
<1>1. r.scan_now_nonce \in Nat /\ r.command_nonce \in Nat
  BY DEF ControlRow
<1>2. ASSUME NEW p \in BOOLEAN PROVE [r EXCEPT !.paused = p] \in ControlRow
  BY DEF ControlRow
<1>3. ASSUME NEW s \in Settings PROVE [r EXCEPT !.settings = s] \in ControlRow
  BY DEF ControlRow
<1>4. ASSUME NEW n \in Nat PROVE [r EXCEPT !.scan_now_nonce = n] \in ControlRow
  BY DEF ControlRow
<1>5. ASSUME NEW n \in Nat PROVE [r EXCEPT !.scan_now_applied = n] \in ControlRow
  BY DEF ControlRow
<1>6. ASSUME NEW c \in Commands, NEW n \in Nat
      PROVE  [r EXCEPT !.command = c, !.command_nonce = n] \in ControlRow
  BY DEF ControlRow
<1>7. ASSUME NEW st \in Statuses PROVE [r EXCEPT !.status = st] \in ControlRow
  BY DEF ControlRow
<1>8. ASSUME NEW n \in Nat, NEW o \in Outcomes
      PROVE  [r EXCEPT !.command_applied = n, !.command_result = o] \in ControlRow
  BY DEF ControlRow
<1> QED
  BY <1>1, <1>2, <1>3, <1>4, <1>5, <1>6, <1>7, <1>8

\* A heartbeat writes the status or counts a fault.
LEMMA HeartbeatTyped ==
    ASSUME TypeOK, NEW status \in Statuses, Heartbeat(status)
    PROVE  control' \in ControlRow /\ faults' \in Nat
<1>1. control \in ControlRow /\ faults \in Nat
  BY DEF TypeOK
<1>2. [control EXCEPT !.status = status] \in ControlRow
  BY <1>1, RowUpdates
<1>3. CASE control' = [control EXCEPT !.status = status] /\ UNCHANGED faults
  BY <1>1, <1>2, <1>3
<1>4. CASE faults' = faults + 1 /\ UNCHANGED control
  BY <1>1, <1>4
<1> QED
  BY <1>3, <1>4 DEF Heartbeat

\* Inserting the missing row changes none of the columns the invariant
\* reads; a new row is seeded with settings.
SameColumns(r) ==
    /\ r.exists
    /\ r.paused = control.paused
    /\ r.scan_now_nonce = control.scan_now_nonce
    /\ r.scan_now_applied = control.scan_now_applied
    /\ r.command = control.command
    /\ r.command_nonce = control.command_nonce
    /\ r.command_applied = control.command_applied
    /\ r.command_result = control.command_result

\* Neither touches what was asked for or acknowledged; seeding leaves an
\* existing row as it is.
LEMMA NewRow ==
    ASSUME TypeOK, QueueInv
    PROVE  /\ SameColumns(Ensured) /\ Ensured.settings = control.settings
           /\ \A s \in Settings :
                SameColumns(Seeded(s)) /\ (control.exists => Seeded(s) = control)
<1>1. CASE control.exists
  BY <1>1 DEF SameColumns, Ensured, Seeded
<1>2. CASE ~control.exists
  <2>1. control = EmptyRow
    BY <1>2 DEF QueueInv
  <2> QED
    BY <1>2, <2>1 DEF SameColumns, Ensured, Seeded, EmptyRow, DefaultRow
<1> QED
  BY <1>1, <1>2

-----------------------------------------------------------------------------
(***************************************************************************)
(* Type correctness.                                                       *)
(***************************************************************************)

\* The row and the loop start well typed.
LEMMA TypeInit == Init => TypeOK
<1> SUFFICES ASSUME Init PROVE TypeOK
  OBVIOUS
<1>1. control \in ControlRow /\ row \in ControlRow
  BY ConstantRowsTyped DEF Init
<1>2. queued \in Seq(Commands)
  BY DEF Init
<1>3. lastRun \in [nonce : Nat, command : Commands \cup {Unset}, result : Outcomes]
  BY DEF Init, Outcomes
<1> QED
  BY <1>1, <1>2, <1>3 DEF Init, TypeOK, Labels

\* Every step of the dashboard and of the loop keeps the types.
LEMMA TypeNext == TypeOK /\ [Next]_vars => TypeOK'
<1> SUFFICES ASSUME TypeOK, [Next]_vars PROVE TypeOK'
  OBVIOUS
<1>r. /\ DefaultRow \in ControlRow /\ EmptyRow \in ControlRow
      /\ Ensured \in ControlRow /\ \A s \in Settings : Seeded(s) \in ControlRow
  BY RowsTyped, ConstantRowsTyped
<1> USE DEF TypeOK, loop, budget, history, database
<1>1. ASSUME NEW p \in BOOLEAN, SetPaused(p) PROVE TypeOK'
  <2>1. control' \in ControlRow
    BY <1>1, <1>r, RowUpdates DEF SetPaused
  <2> QED
    BY <1>1, <2>1 DEF SetPaused
<1>2. ASSUME NEW s \in Settings, ChangeSettings(s) PROVE TypeOK'
  <2>1. control' \in ControlRow
    BY <1>2, <1>r, RowUpdates DEF ChangeSettings
  <2> QED
    BY <1>2, <2>1 DEF ChangeSettings
<1>3. CASE BumpScanNow
  <2>1. control' \in ControlRow
    <3>0. Ensured.scan_now_nonce \in Nat
      BY <1>r, RowUpdates
    <3>1. Ensured.scan_now_nonce + 1 \in Nat
      BY <3>0
    <3>2. [Ensured EXCEPT !.scan_now_nonce = Ensured.scan_now_nonce + 1] \in ControlRow
      BY <1>r, <3>1, RowUpdates
    <3> QED
      BY <1>3, <3>2 DEF BumpScanNow
  <2> QED
    BY <1>3, <2>1 DEF BumpScanNow
<1>4. ASSUME NEW c \in Commands, QueueCommand(c) PROVE TypeOK'
  <2>1. control' \in ControlRow
    <3>0. Ensured.command_nonce \in Nat
      BY <1>r, RowUpdates
    <3>1. Ensured.command_nonce + 1 \in Nat
      BY <3>0
    <3>2. [Ensured EXCEPT !.command = c, !.command_nonce = Ensured.command_nonce + 1]
            \in ControlRow
      BY <1>r, <3>1, RowUpdates
    <3> QED
      BY <1>4, <3>2 DEF QueueCommand
  <2> QED
    BY <1>4, <2>1 DEF QueueCommand
<1>5. CASE Start
  BY <1>5, <1>r DEF Start, Labels
<1>6. CASE Signal
  BY <1>6 DEF Signal
<1>7. CASE Stop
  BY <1>7, <1>r DEF Stop, Labels
<1>8. CASE Kill
  BY <1>8, <1>r DEF Kill, Die, Labels
<1>9. CASE ReadSucceeds
  BY <1>9 DEF ReadSucceeds, PollRead, Labels
<1>10. CASE ReadFails
  BY <1>10, <1>r DEF ReadFails, PollRead, Labels
<1>11. CASE RunCommand
  BY <1>11 DEF RunCommand, Labels, Outcomes, ControlRow
<1>12. CASE AckCommand
  <2>1. control' \in ControlRow
    <3>1. control \in ControlRow /\ row.command_nonce \in Nat
      BY RowUpdates
    <3>2. lastRun.result \in Outcomes
      OBVIOUS
    <3>3. [control EXCEPT !.command_applied = row.command_nonce,
                          !.command_result = lastRun.result] \in ControlRow
      BY <3>1, <3>2, RowUpdates
    <3> QED
      BY <1>12, <3>3 DEF AckCommand
  <2> QED
    BY <1>12, <2>1 DEF AckCommand, Labels
<1>13. CASE AckFails
  BY <1>13, <1>r DEF AckFails, Die, Labels
<1>14. CASE Idle
  <2>1. control' \in ControlRow /\ faults' \in Nat
    <3>1. (IF row.paused THEN "paused" ELSE "running") \in Statuses
      BY DEF Statuses
    <3> QED
      BY <1>14, <3>1, HeartbeatTyped DEF Idle
  <2> QED
    BY <1>14, <1>r, <2>1 DEF Idle, Labels
<1>15. CASE AckScanNow
  <2>1. control' \in ControlRow
    <3>1. control \in ControlRow /\ row.scan_now_nonce \in Nat
      BY RowUpdates
    <3>2. [control EXCEPT !.scan_now_applied = row.scan_now_nonce] \in ControlRow
      BY <3>1, RowUpdates
    <3> QED
      BY <1>15, <3>2 DEF AckScanNow
  <2> QED
    BY <1>15, <2>1 DEF AckScanNow, Labels
<1>16. CASE BeginScan
  <2>1. control' \in ControlRow /\ faults' \in Nat
    BY <1>16, HeartbeatTyped DEF BeginScan, Statuses
  <2>2. served' \in Nat
    BY <1>16 DEF BeginScan, ControlRow
  <2> QED
    BY <1>16, <2>1, <2>2 DEF BeginScan, Labels
<1>17. CASE FinishCycle
  BY <1>17, <1>r DEF FinishCycle, Labels
<1>18. CASE IntervalElapses
  BY <1>18 DEF IntervalElapses
<1>19. CASE UNCHANGED vars
  BY <1>19 DEF vars
<1> QED
  BY <1>1, <1>2, <1>3, <1>4, <1>5, <1>6, <1>7, <1>8, <1>9, <1>10, <1>11, <1>12,
     <1>13, <1>14, <1>15, <1>16, <1>17, <1>18, <1>19 DEF Next, Dashboard, Tick

\* Every variable keeps its type in every behaviour.
THEOREM TypeCorrect == Spec => []TypeOK
<1>1. Init => TypeOK
  BY TypeInit
<1>2. TypeOK /\ [Next]_vars => TypeOK'
  BY TypeNext
<1> QED
  BY <1>1, <1>2, PTL DEF Spec
-----------------------------------------------------------------------------
(***************************************************************************)
(* Inductiveness, one lemma per part.                                      *)
(***************************************************************************)

\* The operator's queue grows with the nonce.
LEMMA QueueNext == IInv /\ [Next]_vars => QueueInv'
<1> SUFFICES ASSUME IInv, [Next]_vars PROVE QueueInv'
  OBVIOUS
<1>t. control \in ControlRow /\ row \in ControlRow /\ queued \in Seq(Commands)
      /\ lastRun \in [nonce : Nat, command : Commands \cup {Unset}, result : Outcomes]
      /\ served \in Nat
  BY DEF IInv, TypeOK
<1>n. /\ SameColumns(Ensured) /\ Ensured.settings = control.settings
      /\ \A s \in Settings :
           SameColumns(Seeded(s)) /\ (control.exists => Seeded(s) = control)
  BY NewRow DEF IInv
<1>r. Ensured \in ControlRow /\ EmptyRow \in ControlRow
  BY RowsTyped, ConstantRowsTyped DEF IInv
<1>i. QueueInv
  BY DEF IInv
<1> USE DEF ControlRow, database, loop, budget, history, QueueInv
<1>1. ASSUME NEW p \in BOOLEAN, SetPaused(p) PROVE QueueInv'
  BY <1>1, <1>t, <1>i, <1>n, <1>r DEF SetPaused, SameColumns
<1>2. ASSUME NEW s \in Settings, ChangeSettings(s) PROVE QueueInv'
  BY <1>2, <1>t, <1>i, <1>n, <1>r DEF ChangeSettings, SameColumns
<1>3. CASE BumpScanNow
  BY SMTT(40), <1>3, <1>t, <1>i, <1>n, <1>r DEF BumpScanNow, SameColumns
<1>4. ASSUME NEW c \in Commands, QueueCommand(c) PROVE QueueInv'
  BY SMTT(40), <1>4, <1>t, <1>i, <1>n, <1>r DEF QueueCommand, SameColumns
<1>5. CASE Start
  BY SMTT(40), <1>5, <1>t, <1>i, <1>n, <1>r DEF Start, SameColumns, EmptyRow, DefaultRow
<1>6. CASE Signal
  BY <1>6, <1>t, <1>i DEF Signal
<1>7. CASE Stop
  BY <1>7, <1>t, <1>i DEF Stop, EmptyRow, DefaultRow
<1>8. CASE Kill
  BY <1>8, <1>t, <1>i DEF Kill, Die, EmptyRow, DefaultRow
<1>9. CASE ReadSucceeds
  BY <1>9, <1>t, <1>i DEF ReadSucceeds, PollRead
<1>10. CASE ReadFails
  BY <1>10, <1>t, <1>i DEF ReadFails, PollRead, EmptyRow, DefaultRow
<1>11. CASE RunCommand
  BY <1>11, <1>t, <1>i DEF RunCommand
<1>12. CASE AckCommand
  BY <1>12, <1>t, <1>i DEF AckCommand
<1>13. CASE AckFails
  BY <1>13, <1>t, <1>i DEF AckFails, Die, EmptyRow, DefaultRow
<1>14. CASE Idle
  BY SMTT(40), <1>14, <1>t, <1>i DEF Idle, Heartbeat, EmptyRow, DefaultRow
<1>15. CASE AckScanNow
  BY <1>15, <1>t, <1>i DEF AckScanNow
<1>16. CASE BeginScan
  BY <1>16, <1>t, <1>i DEF BeginScan, Heartbeat
<1>17. CASE FinishCycle
  BY <1>17, <1>t, <1>i DEF FinishCycle, EmptyRow, DefaultRow
<1>18. CASE IntervalElapses
  BY <1>18, <1>t, <1>i DEF IntervalElapses
<1>19. CASE UNCHANGED vars
  BY <1>19, <1>t, <1>i DEF vars
<1> QED
  BY <1>1, <1>2, <1>3, <1>4, <1>5, <1>6, <1>7, <1>8, <1>9, <1>10, <1>11, <1>12, <1>13, <1>14, <1>15, <1>16, <1>17, <1>18, <1>19
  DEF Next, Dashboard, Tick

\* The copy never gets ahead of the row.
LEMMA CopyNext == IInv /\ [Next]_vars => CopyInv'
<1> SUFFICES ASSUME IInv, [Next]_vars PROVE CopyInv'
  OBVIOUS
<1>t. control \in ControlRow /\ row \in ControlRow /\ queued \in Seq(Commands)
      /\ lastRun \in [nonce : Nat, command : Commands \cup {Unset}, result : Outcomes]
      /\ served \in Nat
  BY DEF IInv, TypeOK
<1>n. /\ SameColumns(Ensured) /\ Ensured.settings = control.settings
      /\ \A s \in Settings :
           SameColumns(Seeded(s)) /\ (control.exists => Seeded(s) = control)
  BY NewRow DEF IInv
<1>r. Ensured \in ControlRow /\ EmptyRow \in ControlRow
  BY RowsTyped, ConstantRowsTyped DEF IInv
<1>i. CopyInv /\ QueueInv
  BY DEF IInv
<1> USE DEF ControlRow, database, loop, budget, history, CopyInv, QueueInv, ScanNow, CommandPending
<1>1. ASSUME NEW p \in BOOLEAN, SetPaused(p) PROVE CopyInv'
  BY <1>1, <1>t, <1>i, <1>n, <1>r DEF SetPaused, SameColumns
<1>2. ASSUME NEW s \in Settings, ChangeSettings(s) PROVE CopyInv'
  BY <1>2, <1>t, <1>i, <1>n, <1>r DEF ChangeSettings, SameColumns
<1>3. CASE BumpScanNow
  BY SMTT(40), <1>3, <1>t, <1>i, <1>n, <1>r DEF BumpScanNow, SameColumns
<1>4. ASSUME NEW c \in Commands, QueueCommand(c) PROVE CopyInv'
  BY SMTT(40), <1>4, <1>t, <1>i, <1>n, <1>r DEF QueueCommand, SameColumns
<1>5. CASE Start
  BY SMTT(40), <1>5, <1>t, <1>i, <1>n, <1>r DEF Start, SameColumns, EmptyRow, DefaultRow
<1>6. CASE Signal
  BY <1>6, <1>t, <1>i DEF Signal
<1>7. CASE Stop
  BY <1>7, <1>t, <1>i DEF Stop, EmptyRow, DefaultRow
<1>8. CASE Kill
  BY <1>8, <1>t, <1>i DEF Kill, Die, EmptyRow, DefaultRow
<1>9. CASE ReadSucceeds
  BY <1>9, <1>t, <1>i DEF ReadSucceeds, PollRead
<1>10. CASE ReadFails
  BY <1>10, <1>t, <1>i DEF ReadFails, PollRead, EmptyRow, DefaultRow
<1>11. CASE RunCommand
  BY <1>11, <1>t, <1>i DEF RunCommand
<1>12. CASE AckCommand
  BY <1>12, <1>t, <1>i DEF AckCommand
<1>13. CASE AckFails
  BY <1>13, <1>t, <1>i DEF AckFails, Die, EmptyRow, DefaultRow
<1>14. CASE Idle
  BY SMTT(40), <1>14, <1>t, <1>i DEF Idle, Heartbeat, EmptyRow, DefaultRow
<1>15. CASE AckScanNow
  BY <1>15, <1>t, <1>i DEF AckScanNow
<1>16. CASE BeginScan
  BY <1>16, <1>t, <1>i DEF BeginScan, Heartbeat
<1>17. CASE FinishCycle
  BY <1>17, <1>t, <1>i DEF FinishCycle, EmptyRow, DefaultRow
<1>18. CASE IntervalElapses
  BY <1>18, <1>t, <1>i DEF IntervalElapses
<1>19. CASE UNCHANGED vars
  BY <1>19, <1>t, <1>i DEF vars
<1> QED
  BY <1>1, <1>2, <1>3, <1>4, <1>5, <1>6, <1>7, <1>8, <1>9, <1>10, <1>11, <1>12, <1>13, <1>14, <1>15, <1>16, <1>17, <1>18, <1>19
  DEF Next, Dashboard, Tick

\* Each command step advances one of run and applied.
LEMMA CommandNext == IInv /\ [Next]_vars => CommandInv'
<1> SUFFICES ASSUME IInv, [Next]_vars PROVE CommandInv'
  OBVIOUS
<1>t. control \in ControlRow /\ row \in ControlRow /\ queued \in Seq(Commands)
      /\ lastRun \in [nonce : Nat, command : Commands \cup {Unset}, result : Outcomes]
      /\ served \in Nat
  BY DEF IInv, TypeOK
<1>n. /\ SameColumns(Ensured) /\ Ensured.settings = control.settings
      /\ \A s \in Settings :
           SameColumns(Seeded(s)) /\ (control.exists => Seeded(s) = control)
  BY NewRow DEF IInv
<1>r. Ensured \in ControlRow /\ EmptyRow \in ControlRow
  BY RowsTyped, ConstantRowsTyped DEF IInv
<1>i. CommandInv /\ CopyInv /\ QueueInv
  BY DEF IInv
<1> USE DEF ControlRow, database, loop, budget, history, CommandInv, CopyInv, QueueInv, CommandRunAsQueued, AckTellsWhatRan, CommandPending
<1>1. ASSUME NEW p \in BOOLEAN, SetPaused(p) PROVE CommandInv'
  BY <1>1, <1>t, <1>i, <1>n, <1>r DEF SetPaused, SameColumns
<1>2. ASSUME NEW s \in Settings, ChangeSettings(s) PROVE CommandInv'
  BY <1>2, <1>t, <1>i, <1>n, <1>r DEF ChangeSettings, SameColumns
<1>3. CASE BumpScanNow
  BY SMTT(40), <1>3, <1>t, <1>i, <1>n, <1>r DEF BumpScanNow, SameColumns
<1>4. ASSUME NEW c \in Commands, QueueCommand(c) PROVE CommandInv'
  BY SMTT(40), <1>4, <1>t, <1>i, <1>n, <1>r DEF QueueCommand, SameColumns
<1>5. CASE Start
  BY SMTT(40), <1>5, <1>t, <1>i, <1>n, <1>r DEF Start, SameColumns, EmptyRow, DefaultRow
<1>6. CASE Signal
  BY <1>6, <1>t, <1>i DEF Signal
<1>7. CASE Stop
  BY <1>7, <1>t, <1>i DEF Stop, EmptyRow, DefaultRow
<1>8. CASE Kill
  BY <1>8, <1>t, <1>i DEF Kill, Die, EmptyRow, DefaultRow
<1>9. CASE ReadSucceeds
  BY <1>9, <1>t, <1>i DEF ReadSucceeds, PollRead
<1>10. CASE ReadFails
  BY <1>10, <1>t, <1>i DEF ReadFails, PollRead, EmptyRow, DefaultRow
<1>11. CASE RunCommand
  BY <1>11, <1>t, <1>i DEF RunCommand
<1>12. CASE AckCommand
  BY <1>12, <1>t, <1>i DEF AckCommand
<1>13. CASE AckFails
  BY <1>13, <1>t, <1>i DEF AckFails, Die, EmptyRow, DefaultRow
<1>14. CASE Idle
  BY SMTT(40), <1>14, <1>t, <1>i DEF Idle, Heartbeat, EmptyRow, DefaultRow
<1>15. CASE AckScanNow
  BY <1>15, <1>t, <1>i DEF AckScanNow
<1>16. CASE BeginScan
  BY <1>16, <1>t, <1>i DEF BeginScan, Heartbeat
<1>17. CASE FinishCycle
  BY <1>17, <1>t, <1>i DEF FinishCycle, EmptyRow, DefaultRow
<1>18. CASE IntervalElapses
  BY <1>18, <1>t, <1>i DEF IntervalElapses
<1>19. CASE UNCHANGED vars
  BY <1>19, <1>t, <1>i DEF vars
<1> QED
  BY <1>1, <1>2, <1>3, <1>4, <1>5, <1>6, <1>7, <1>8, <1>9, <1>10, <1>11, <1>12, <1>13, <1>14, <1>15, <1>16, <1>17, <1>18, <1>19
  DEF Next, Dashboard, Tick

\* Due is only given up by a cycle that served every acknowledged request.
LEMMA ScanNext == IInv /\ [Next]_vars => ScanInv'
<1> SUFFICES ASSUME IInv, [Next]_vars PROVE ScanInv'
  OBVIOUS
<1>t. control \in ControlRow /\ row \in ControlRow /\ queued \in Seq(Commands)
      /\ lastRun \in [nonce : Nat, command : Commands \cup {Unset}, result : Outcomes]
      /\ served \in Nat
  BY DEF IInv, TypeOK
<1>n. /\ SameColumns(Ensured) /\ Ensured.settings = control.settings
      /\ \A s \in Settings :
           SameColumns(Seeded(s)) /\ (control.exists => Seeded(s) = control)
  BY NewRow DEF IInv
<1>r. Ensured \in ControlRow /\ EmptyRow \in ControlRow
  BY RowsTyped, ConstantRowsTyped DEF IInv
<1>i. ScanInv /\ CopyInv
  BY DEF IInv
<1> USE DEF ControlRow, database, loop, budget, history, ScanInv, CopyInv, LostScanIsDue, ScanNow
<1>1. ASSUME NEW p \in BOOLEAN, SetPaused(p) PROVE ScanInv'
  BY <1>1, <1>t, <1>i, <1>n, <1>r DEF SetPaused, SameColumns
<1>2. ASSUME NEW s \in Settings, ChangeSettings(s) PROVE ScanInv'
  BY <1>2, <1>t, <1>i, <1>n, <1>r DEF ChangeSettings, SameColumns
<1>3. CASE BumpScanNow
  BY SMTT(40), <1>3, <1>t, <1>i, <1>n, <1>r DEF BumpScanNow, SameColumns
<1>4. ASSUME NEW c \in Commands, QueueCommand(c) PROVE ScanInv'
  BY SMTT(40), <1>4, <1>t, <1>i, <1>n, <1>r DEF QueueCommand, SameColumns
<1>5. CASE Start
  BY SMTT(40), <1>5, <1>t, <1>i, <1>n, <1>r DEF Start, SameColumns, EmptyRow, DefaultRow
<1>6. CASE Signal
  BY <1>6, <1>t, <1>i DEF Signal
<1>7. CASE Stop
  BY <1>7, <1>t, <1>i DEF Stop, EmptyRow, DefaultRow
<1>8. CASE Kill
  BY <1>8, <1>t, <1>i DEF Kill, Die, EmptyRow, DefaultRow
<1>9. CASE ReadSucceeds
  BY <1>9, <1>t, <1>i DEF ReadSucceeds, PollRead
<1>10. CASE ReadFails
  BY <1>10, <1>t, <1>i DEF ReadFails, PollRead, EmptyRow, DefaultRow
<1>11. CASE RunCommand
  BY <1>11, <1>t, <1>i DEF RunCommand
<1>12. CASE AckCommand
  BY <1>12, <1>t, <1>i DEF AckCommand
<1>13. CASE AckFails
  BY <1>13, <1>t, <1>i DEF AckFails, Die, EmptyRow, DefaultRow
<1>14. CASE Idle
  BY SMTT(40), <1>14, <1>t, <1>i DEF Idle, Heartbeat, EmptyRow, DefaultRow
<1>15. CASE AckScanNow
  BY <1>15, <1>t, <1>i DEF AckScanNow
<1>16. CASE BeginScan
  BY <1>16, <1>t, <1>i DEF BeginScan, Heartbeat
<1>17. CASE FinishCycle
  BY <1>17, <1>t, <1>i DEF FinishCycle, EmptyRow, DefaultRow
<1>18. CASE IntervalElapses
  BY <1>18, <1>t, <1>i DEF IntervalElapses
<1>19. CASE UNCHANGED vars
  BY <1>19, <1>t, <1>i DEF vars
<1> QED
  BY <1>1, <1>2, <1>3, <1>4, <1>5, <1>6, <1>7, <1>8, <1>9, <1>10, <1>11, <1>12, <1>13, <1>14, <1>15, <1>16, <1>17, <1>18, <1>19
  DEF Next, Dashboard, Tick

\* The decision to scan follows the copy.
LEMMA QuietNext == IInv /\ [Next]_vars => QuietInv'
<1> SUFFICES ASSUME IInv, [Next]_vars PROVE QuietInv'
  OBVIOUS
<1>t. control \in ControlRow /\ row \in ControlRow /\ queued \in Seq(Commands)
      /\ lastRun \in [nonce : Nat, command : Commands \cup {Unset}, result : Outcomes]
      /\ served \in Nat
  BY DEF IInv, TypeOK
<1>n. /\ SameColumns(Ensured) /\ Ensured.settings = control.settings
      /\ \A s \in Settings :
           SameColumns(Seeded(s)) /\ (control.exists => Seeded(s) = control)
  BY NewRow DEF IInv
<1>r. Ensured \in ControlRow /\ EmptyRow \in ControlRow
  BY RowsTyped, ConstantRowsTyped DEF IInv
<1>i. QuietInv
  BY DEF IInv
<1> USE DEF ControlRow, database, loop, budget, history, QuietInv, PauseObeyedWhenRead, ScanNow
<1>1. ASSUME NEW p \in BOOLEAN, SetPaused(p) PROVE QuietInv'
  BY <1>1, <1>t, <1>i, <1>n, <1>r DEF SetPaused, SameColumns
<1>2. ASSUME NEW s \in Settings, ChangeSettings(s) PROVE QuietInv'
  BY <1>2, <1>t, <1>i, <1>n, <1>r DEF ChangeSettings, SameColumns
<1>3. CASE BumpScanNow
  BY SMTT(40), <1>3, <1>t, <1>i, <1>n, <1>r DEF BumpScanNow, SameColumns
<1>4. ASSUME NEW c \in Commands, QueueCommand(c) PROVE QuietInv'
  BY SMTT(40), <1>4, <1>t, <1>i, <1>n, <1>r DEF QueueCommand, SameColumns
<1>5. CASE Start
  BY SMTT(40), <1>5, <1>t, <1>i, <1>n, <1>r DEF Start, SameColumns, EmptyRow, DefaultRow
<1>6. CASE Signal
  BY <1>6, <1>t, <1>i DEF Signal
<1>7. CASE Stop
  BY <1>7, <1>t, <1>i DEF Stop, EmptyRow, DefaultRow
<1>8. CASE Kill
  BY <1>8, <1>t, <1>i DEF Kill, Die, EmptyRow, DefaultRow
<1>9. CASE ReadSucceeds
  BY <1>9, <1>t, <1>i DEF ReadSucceeds, PollRead
<1>10. CASE ReadFails
  BY <1>10, <1>t, <1>i DEF ReadFails, PollRead, EmptyRow, DefaultRow
<1>11. CASE RunCommand
  BY <1>11, <1>t, <1>i DEF RunCommand
<1>12. CASE AckCommand
  BY <1>12, <1>t, <1>i DEF AckCommand
<1>13. CASE AckFails
  BY <1>13, <1>t, <1>i DEF AckFails, Die, EmptyRow, DefaultRow
<1>14. CASE Idle
  BY SMTT(40), <1>14, <1>t, <1>i DEF Idle, Heartbeat, EmptyRow, DefaultRow
<1>15. CASE AckScanNow
  BY <1>15, <1>t, <1>i DEF AckScanNow
<1>16. CASE BeginScan
  BY <1>16, <1>t, <1>i DEF BeginScan, Heartbeat
<1>17. CASE FinishCycle
  BY <1>17, <1>t, <1>i DEF FinishCycle, EmptyRow, DefaultRow
<1>18. CASE IntervalElapses
  BY <1>18, <1>t, <1>i DEF IntervalElapses
<1>19. CASE UNCHANGED vars
  BY <1>19, <1>t, <1>i DEF vars
<1> QED
  BY <1>1, <1>2, <1>3, <1>4, <1>5, <1>6, <1>7, <1>8, <1>9, <1>10, <1>11, <1>12, <1>13, <1>14, <1>15, <1>16, <1>17, <1>18, <1>19
  DEF Next, Dashboard, Tick

\* Only the operator writes pause and settings.
LEMMA IntentNext == IInv /\ [Next]_vars => IntentKept'
<1> SUFFICES ASSUME IInv, [Next]_vars PROVE IntentKept'
  OBVIOUS
<1>t. control \in ControlRow /\ row \in ControlRow /\ queued \in Seq(Commands)
      /\ lastRun \in [nonce : Nat, command : Commands \cup {Unset}, result : Outcomes]
      /\ served \in Nat
  BY DEF IInv, TypeOK
<1>n. /\ SameColumns(Ensured) /\ Ensured.settings = control.settings
      /\ \A s \in Settings :
           SameColumns(Seeded(s)) /\ (control.exists => Seeded(s) = control)
  BY NewRow DEF IInv
<1>r. Ensured \in ControlRow /\ EmptyRow \in ControlRow
  BY RowsTyped, ConstantRowsTyped DEF IInv
<1>i. IntentKept /\ QueueInv
  BY DEF IInv
<1> USE DEF ControlRow, database, loop, budget, history, IntentKept, QueueInv
<1>1. ASSUME NEW p \in BOOLEAN, SetPaused(p) PROVE IntentKept'
  BY <1>1, <1>t, <1>i, <1>n, <1>r DEF SetPaused, SameColumns
<1>2. ASSUME NEW s \in Settings, ChangeSettings(s) PROVE IntentKept'
  BY <1>2, <1>t, <1>i, <1>n, <1>r DEF ChangeSettings, SameColumns
<1>3. CASE BumpScanNow
  BY SMTT(40), <1>3, <1>t, <1>i, <1>n, <1>r DEF BumpScanNow, SameColumns
<1>4. ASSUME NEW c \in Commands, QueueCommand(c) PROVE IntentKept'
  BY SMTT(40), <1>4, <1>t, <1>i, <1>n, <1>r DEF QueueCommand, SameColumns
<1>5. CASE Start
  BY SMTT(40), <1>5, <1>t, <1>i, <1>n, <1>r DEF Start, SameColumns, EmptyRow, DefaultRow
<1>6. CASE Signal
  BY <1>6, <1>t, <1>i DEF Signal
<1>7. CASE Stop
  BY <1>7, <1>t, <1>i DEF Stop, EmptyRow, DefaultRow
<1>8. CASE Kill
  BY <1>8, <1>t, <1>i DEF Kill, Die, EmptyRow, DefaultRow
<1>9. CASE ReadSucceeds
  BY <1>9, <1>t, <1>i DEF ReadSucceeds, PollRead
<1>10. CASE ReadFails
  BY <1>10, <1>t, <1>i DEF ReadFails, PollRead, EmptyRow, DefaultRow
<1>11. CASE RunCommand
  BY <1>11, <1>t, <1>i DEF RunCommand
<1>12. CASE AckCommand
  BY <1>12, <1>t, <1>i DEF AckCommand
<1>13. CASE AckFails
  BY <1>13, <1>t, <1>i DEF AckFails, Die, EmptyRow, DefaultRow
<1>14. CASE Idle
  BY SMTT(40), <1>14, <1>t, <1>i DEF Idle, Heartbeat, EmptyRow, DefaultRow
<1>15. CASE AckScanNow
  BY <1>15, <1>t, <1>i DEF AckScanNow
<1>16. CASE BeginScan
  BY <1>16, <1>t, <1>i DEF BeginScan, Heartbeat
<1>17. CASE FinishCycle
  BY <1>17, <1>t, <1>i DEF FinishCycle, EmptyRow, DefaultRow
<1>18. CASE IntervalElapses
  BY <1>18, <1>t, <1>i DEF IntervalElapses
<1>19. CASE UNCHANGED vars
  BY <1>19, <1>t, <1>i DEF vars
<1> QED
  BY <1>1, <1>2, <1>3, <1>4, <1>5, <1>6, <1>7, <1>8, <1>9, <1>10, <1>11, <1>12, <1>13, <1>14, <1>15, <1>16, <1>17, <1>18, <1>19
  DEF Next, Dashboard, Tick

-----------------------------------------------------------------------------
(***************************************************************************)
(* The invariant and what follows from it.                                 *)
(***************************************************************************)

\* The invariant holds before anything was queued or run.
LEMMA InductiveInit == Init => IInv
<1> SUFFICES ASSUME Init PROVE IInv
  OBVIOUS
<1>1. TypeOK
  BY TypeInit
<1>2. QueueInv
  BY DEF Init, QueueInv, EmptyRow, DefaultRow
<1>3. CopyInv
  BY DEF Init, CopyInv, EmptyRow, DefaultRow
<1>4. CommandInv
  BY DEF Init, CommandInv, CommandRunAsQueued, AckTellsWhatRan, EmptyRow, DefaultRow
<1>5. ScanInv /\ QuietInv
  BY DEF Init, ScanInv, QuietInv, LostScanIsDue, PauseObeyedWhenRead, EmptyRow,
         DefaultRow
<1>6. IntentKept
  BY DEF Init, IntentKept, EmptyRow, DefaultRow
<1> QED
  BY <1>1, <1>2, <1>3, <1>4, <1>5, <1>6 DEF IInv

\* Every step keeps all of its parts.
LEMMA InductiveNext == IInv /\ [Next]_vars => IInv'
  BY TypeNext, QueueNext, CopyNext, CommandNext, ScanNext, QuietNext, IntentNext
     DEF IInv

\* So it holds throughout.
LEMMA Inductive == Spec => []IInv
<1>1. Init => IInv
  BY InductiveInit
<1>2. IInv /\ [Next]_vars => IInv'
  BY InductiveNext
<1> QED
  BY <1>1, <1>2, PTL DEF Spec

\* The command that runs under a nonce is the one queued under it, whatever
\* is queued meanwhile and however often the monitor dies.
THEOREM CommandsRunAsQueued == Spec => []CommandRunAsQueued
<1>1. IInv => CommandRunAsQueued
  BY DEF IInv, CommandInv
<1> QED
  BY <1>1, Inductive, PTL

\* No command is acknowledged that has not run, and the result shown is its
\* own.
THEOREM AcksTellWhatRan == Spec => []AckTellsWhatRan
<1>1. IInv => AckTellsWhatRan
  BY DEF IInv, CommandInv
<1> QED
  BY <1>1, Inductive, PTL

\* A command runs again only if the monitor died before acknowledging it.
THEOREM RunsOnceUnlessInterrupted == Spec => []OnceUnlessInterrupted
<1>1. IInv => OnceUnlessInterrupted
  BY DEF IInv, CommandInv, OnceUnlessInterrupted, TypeOK, ControlRow
<1> QED
  BY <1>1, Inductive, PTL

\* An acknowledged scan request whose cycle never started leaves the monitor
\* due.
THEOREM LostScansAreDue == Spec => []LostScanIsDue
<1>1. IInv => LostScanIsDue
  BY DEF IInv, ScanInv
<1> QED
  BY <1>1, Inductive, PTL

\* A monitor that could read the row obeys pause.
THEOREM PauseIsObeyed == Spec => []PauseObeyedWhenRead
<1>1. IInv => PauseObeyedWhenRead
  BY DEF IInv, QuietInv
<1> QED
  BY <1>1, Inductive, PTL

\* Pause and settings survive everything but the operator.
THEOREM IntentIsKept == Spec => []IntentKept
<1>1. IInv => IntentKept
  BY DEF IInv
<1> QED
  BY <1>1, Inductive, PTL

-----------------------------------------------------------------------------
(***************************************************************************)
(* The command protocol implements OneShot.                                *)
(***************************************************************************)

\* An empty row is a trigger that nothing was asked of.
LEMMA TriggerInit == Init => CommandTrigger!Init
  BY DEF Init, CommandTrigger!Init, EmptyRow, DefaultRow

\* Queueing is a request, running a command acts on it (or stutters, when it
\* runs again), acknowledging acknowledges; all else stutters.
LEMMA TriggerNext == IInv /\ [Next]_vars => [CommandTrigger!Next]_(CommandTrigger!vars)
<1> SUFFICES ASSUME IInv, [Next]_vars
             PROVE  [CommandTrigger!Next]_(CommandTrigger!vars)
  OBVIOUS
<1>t. control \in ControlRow /\ row \in ControlRow
      /\ lastRun \in [nonce : Nat, command : Commands \cup {Unset}, result : Outcomes]
  BY DEF IInv, TypeOK
<1>n. /\ SameColumns(Ensured)
      /\ \A s \in Settings : SameColumns(Seeded(s))
  BY NewRow DEF IInv
<1>r. Ensured \in ControlRow
  BY RowsTyped DEF IInv
<1>i. CommandInv /\ CopyInv
  BY DEF IInv
<1> USE DEF ControlRow, database, loop, budget, history, CommandTrigger!vars
<1>1. ASSUME NEW p \in BOOLEAN, SetPaused(p) PROVE UNCHANGED CommandTrigger!vars
  BY <1>1, <1>t, <1>n, <1>r DEF SetPaused, SameColumns
<1>2. ASSUME NEW s \in Settings, ChangeSettings(s) PROVE UNCHANGED CommandTrigger!vars
  BY <1>2, <1>t, <1>n, <1>r DEF ChangeSettings, SameColumns
<1>3. CASE BumpScanNow
  BY <1>3, <1>t, <1>n, <1>r DEF BumpScanNow, SameColumns
<1>4. ASSUME NEW c \in Commands, QueueCommand(c) PROVE CommandTrigger!Request
  BY <1>4, <1>t, <1>n, <1>r DEF QueueCommand, SameColumns, CommandTrigger!Request
<1>5. CASE Start
  BY <1>5, <1>t, <1>n DEF Start, SameColumns
<1>6. CASE RunCommand
  <2>1. CASE lastRun.nonce = row.command_nonce
    BY <1>6, <1>t, <2>1 DEF RunCommand
  <2>2. CASE lastRun.nonce # row.command_nonce
    BY <1>6, <1>t, <1>i, <2>2
       DEF RunCommand, CommandInv, CopyInv, CommandTrigger!Next, CommandTrigger!Act
  <2> QED
    BY <2>1, <2>2
<1>7. CASE AckCommand
  BY <1>7, <1>t, <1>i
     DEF AckCommand, CommandInv, CommandTrigger!Next, CommandTrigger!Acknowledge
<1>8. CASE Idle \/ AckScanNow \/ BeginScan
  BY <1>8, <1>t DEF Idle, AckScanNow, BeginScan, Heartbeat
<1>9. CASE Signal \/ Stop \/ Kill \/ AckFails \/ ReadSucceeds \/ ReadFails
             \/ FinishCycle \/ IntervalElapses \/ UNCHANGED vars
  BY <1>9 DEF Signal, Stop, Kill, AckFails, Die, ReadSucceeds, ReadFails, PollRead,
              FinishCycle, IntervalElapses, vars
<1> QED
  BY <1>1, <1>2, <1>3, <1>4, <1>5, <1>6, <1>7, <1>8, <1>9
  DEF Next, Dashboard, Tick, CommandTrigger!Next

\* However dashboard writes, faults and crashes interleave with the loop, the
\* command nonces behave as the one-shot trigger the row is documented to be.
THEOREM CommandsImplementOneShot == Spec => CommandTriggerSpec
<1>1. Init => CommandTrigger!Init
  BY TriggerInit
<1>2. IInv /\ [Next]_vars => [CommandTrigger!Next]_(CommandTrigger!vars)
  BY TriggerNext
<1> QED
  BY <1>1, <1>2, Inductive, PTL DEF Spec, CommandTriggerSpec, CommandTrigger!Spec
=============================================================================
