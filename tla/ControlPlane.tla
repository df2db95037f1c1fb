---------------------------- MODULE ControlPlane ----------------------------
(***************************************************************************)
(* The control row of the shared SQLite database and the two processes     *)
(* that talk through it: the dashboard writes intent (pause, settings,     *)
(* scan-now, maintenance commands) and the monitor's control loop reads    *)
(* the row once per poll tick, obeys, and writes acknowledgements and its  *)
(* status back.  There is no other channel between them.                   *)
(*                                                                         *)
(* One action is one database transaction of one process, with the local   *)
(* computation around it.  The row the loop works from (row) is a copy     *)
(* taken at the start of the tick, so everything the loop decides may be   *)
(* stale by the time it writes.                                            *)
(***************************************************************************)
EXTENDS Naturals, Sequences

CONSTANTS
    Commands,       \* MaintenanceCommand values
    Settings,       \* values of the (interval, judge, enrich) columns
    Unset,          \* those columns are NULL; also "no command"
    MaxRequests,    \* bound on each of the two nonces
    MaxCrashes,     \* bound on kills and stop signals together
    MaxFaults       \* bound on failed database calls of the loop

ASSUME ConstantsAssumption ==
    /\ Unset \notin Commands \cup Settings
    /\ Settings # {}
    /\ MaxRequests \in Nat
    /\ MaxCrashes \in Nat
    /\ MaxFaults \in Nat

VARIABLES
    control,        \* the ControlState row
    pc,             \* where the control loop's thread is in its tick
    row,            \* the tick's local copy of the row
    due,            \* monotonic() has reached next_scan
    stopping,       \* shutdown_event is set
    crashes,        \* kills and signals so far
    faults,         \* failed database calls so far
    (***********************************************************************)
    (* History variables, read by properties only.                         *)
    (***********************************************************************)
    queued,         \* the commands queued, in order
    lastRun,        \* nonce and command of the last command executed
    interrupted,    \* the loop died between a command and its ack
    served,         \* scan requests made before the last cycle started
    quiet,          \* when the tick read the row, no scan was wanted
    intent          \* what the operator last chose

database == <<control>>
loop == <<pc, row, due, stopping>>
budget == <<crashes, faults>>
history == <<queued, lastRun, interrupted, served, quiet, intent>>
vars == <<control, pc, row, due, stopping, crashes, faults,
          queued, lastRun, interrupted, served, quiet, intent>>

Statuses == {"none", "running", "scanning", "paused"}
Outcomes == {"none", "done", "error"}

Labels == {"down", "wait", "command", "ackCommand", "decide", "scan", "cycle"}

ControlRow ==
    [exists : BOOLEAN, paused : BOOLEAN, settings : Settings \cup {Unset},
     scan_now_nonce : Nat, scan_now_applied : Nat,
     command : Commands \cup {Unset}, command_nonce : Nat,
     command_applied : Nat, command_result : Outcomes, status : Statuses]

\* The column defaults; what _ensure_row inserts.  With exists = FALSE it is
\* also how the loop sees a row it could not read: `read_control() or {}`,
\* every .get() falling back to 0 or None.
DefaultRow ==
    [exists |-> TRUE, paused |-> FALSE, settings |-> Unset,
     scan_now_nonce |-> 0, scan_now_applied |-> 0,
     command |-> Unset, command_nonce |-> 0,
     command_applied |-> 0, command_result |-> "none", status |-> "none"]

EmptyRow == [DefaultRow EXCEPT !.exists = FALSE]

Init ==
    /\ control = EmptyRow
    /\ pc = "down"
    /\ row = EmptyRow
    /\ due = FALSE
    /\ stopping = FALSE
    /\ crashes = 0
    /\ faults = 0
    /\ queued = <<>>
    /\ lastRun = [nonce |-> 0, command |-> Unset, result |-> "none"]
    /\ interrupted = FALSE
    /\ served = 0
    /\ quiet = FALSE
    /\ intent = [paused |-> FALSE, settings |-> Unset]

-----------------------------------------------------------------------------
(***************************************************************************)
(* The dashboard.  Every write first makes sure the row exists.            *)
(***************************************************************************)

\* The row after _ensure_row: column defaults when there was none.
Ensured == IF control.exists THEN control ELSE DefaultRow

SetPaused(p) ==
    /\ control' = [Ensured EXCEPT !.paused = p]
    /\ intent' = [intent EXCEPT !.paused = p]
    /\ UNCHANGED <<loop, budget, queued, lastRun, interrupted, served, quiet>>

ChangeSettings(s) ==
    /\ control' = [Ensured EXCEPT !.settings = s]
    /\ intent' = [intent EXCEPT !.settings = s]
    /\ UNCHANGED <<loop, budget, queued, lastRun, interrupted, served, quiet>>

BumpScanNow ==
    /\ control.scan_now_nonce < MaxRequests
    /\ control' = [Ensured EXCEPT !.scan_now_nonce = @ + 1]
    /\ UNCHANGED <<loop, budget, history>>

\* One slot: a command queued before the loop has read the previous one
\* replaces it.
QueueCommand(c) ==
    /\ control.command_nonce < MaxRequests
    /\ control' = [Ensured EXCEPT !.command = c, !.command_nonce = @ + 1]
    /\ queued' = Append(queued, c)
    /\ UNCHANGED <<loop, budget, lastRun, interrupted, served, quiet, intent>>

Dashboard ==
    \/ \E p \in BOOLEAN : SetPaused(p)
    \/ \E s \in Settings : ChangeSettings(s)
    \/ BumpScanNow
    \/ \E c \in Commands : QueueCommand(c)

-----------------------------------------------------------------------------
(***************************************************************************)
(* The monitor's life: start, graceful stop, kill.                         *)
(***************************************************************************)

\* Slip: the insert overwrites a row that exists.
SeededAgain(s) ==
    [Ensured EXCEPT !.settings = s, !.paused = FALSE]

\* The row after ensure_control_row(seed): the startup settings go into a new
\* row only.
Seeded(s) == IF control.exists THEN control
             ELSE [DefaultRow EXCEPT !.settings = s]

\* Slip: the first scan waits for a full interval.
StartLater ==
    /\ pc = "down"
    /\ \E s \in Settings : control' = Seeded(s)
    /\ pc' = "wait"
    /\ due' = FALSE
    /\ stopping' = FALSE
    /\ UNCHANGED <<row, budget, history>>

\* Boot: seed the row, then poll at once with next_scan = now.
Start ==
    /\ pc = "down"
    /\ \E s \in Settings : control' = Seeded(s)
    /\ pc' = "wait"
    /\ due' = TRUE
    /\ stopping' = FALSE
    /\ UNCHANGED <<row, budget, history>>

\* SIGINT or SIGTERM: request_shutdown sets the event; the tick in progress
\* goes on.
Signal ==
    /\ crashes < MaxCrashes
    /\ pc # "down" /\ ~stopping
    /\ stopping' = TRUE
    /\ crashes' = crashes + 1
    /\ UNCHANGED <<database, pc, row, due, faults, history>>

\* run_forever leaves its loop at the top, once the event is set.
Stop ==
    /\ pc = "wait" /\ stopping
    /\ pc' = "down"
    /\ row' = EmptyRow
    /\ UNCHANGED <<database, due, stopping, budget, history>>

\* The process is gone, wherever it was: its locals with it.
Die ==
    /\ pc # "down"
    /\ pc' = "down"
    /\ row' = EmptyRow
    /\ interrupted' = (interrupted \/ pc = "ackCommand")
    /\ UNCHANGED <<database, due, stopping, queued, lastRun, served, quiet, intent>>

\* SIGKILL, power loss, or a second signal (os._exit).
Kill ==
    /\ crashes < MaxCrashes
    /\ crashes' = crashes + 1
    /\ Die
    /\ UNCHANGED faults

-----------------------------------------------------------------------------
(***************************************************************************)
(* One tick of the control loop.                                           *)
(***************************************************************************)

CommandPending(r) == r.command_nonce # r.command_applied
ScanNow == row.scan_now_nonce # row.scan_now_applied

\* Slip: a paused monitor leaves maintenance for later.
PollReadSkippingPaused(r) ==
    /\ pc = "wait" /\ ~stopping
    /\ row' = r
    /\ pc' = IF CommandPending(r) /\ ~r.paused THEN "command" ELSE "decide"
    /\ quiet' = (control.paused /\ control.scan_now_nonce = control.scan_now_applied)
    /\ UNCHANGED <<database, due, stopping, crashes, queued, lastRun,
                   interrupted, served, intent>>

\* The tick's only read of the row.
PollRead(r) ==
    /\ pc = "wait" /\ ~stopping
    /\ row' = r
    /\ pc' = IF CommandPending(r) THEN "command" ELSE "decide"
    /\ quiet' = (control.paused /\ control.scan_now_nonce = control.scan_now_applied)
    /\ UNCHANGED <<database, due, stopping, crashes, queued, lastRun,
                   interrupted, served, intent>>

ReadSucceeds == PollRead(control) /\ UNCHANGED faults

\* read_control logs a database error and returns None.
ReadFails ==
    /\ faults < MaxFaults
    /\ faults' = faults + 1
    /\ PollRead(EmptyRow)

\* Slip: the nonce as read, but the command the row names by now.
RunCommandNow ==
    /\ pc = "command"
    /\ \E result \in {"done", "error"} :
         lastRun' = [nonce |-> row.command_nonce, command |-> control.command,
                     result |-> result]
    /\ pc' = "ackCommand"
    /\ UNCHANGED <<database, row, due, stopping, budget, queued, interrupted,
                   served, quiet, intent>>

\* Maintenance runs the command of the row as read.  An error is an outcome
\* like any other.
RunCommand ==
    /\ pc = "command"
    /\ \E result \in {"done", "error"} :
         lastRun' = [nonce |-> row.command_nonce, command |-> row.command,
                     result |-> result]
    /\ pc' = "ackCommand"
    /\ UNCHANGED <<database, row, due, stopping, budget, queued, interrupted,
                   served, quiet, intent>>

\* Slip: the row's nonce by now, so a command queued meanwhile is lost.
AckCommandNow ==
    /\ pc = "ackCommand"
    /\ control' = [control EXCEPT !.command_applied = control.command_nonce,
                                  !.command_result = lastRun.result]
    /\ interrupted' = FALSE
    /\ pc' = "decide"
    /\ UNCHANGED <<row, due, stopping, budget, queued, lastRun, served, quiet,
                   intent>>

\* Slip: only a success is acknowledged.
AckCommandIfDone ==
    /\ pc = "ackCommand"
    /\ control' = [control EXCEPT
                     !.command_applied = IF lastRun.result = "done"
                                         THEN row.command_nonce ELSE @,
                     !.command_result = lastRun.result]
    /\ interrupted' = FALSE
    /\ pc' = "decide"
    /\ UNCHANGED <<row, due, stopping, budget, queued, lastRun, served, quiet,
                   intent>>

\* ack_command copies the nonce as read, not the nonce the row has by now.
AckCommand ==
    /\ pc = "ackCommand"
    /\ control' = [control EXCEPT !.command_applied = row.command_nonce,
                                  !.command_result = lastRun.result]
    /\ interrupted' = FALSE
    /\ pc' = "decide"
    /\ UNCHANGED <<row, due, stopping, budget, queued, lastRun, served, quiet,
                   intent>>

\* _heartbeat writes the status; its failure is logged and changes nothing.
Heartbeat(status) ==
    \/ control' = [control EXCEPT !.status = status] /\ UNCHANGED faults
    \/ faults < MaxFaults /\ faults' = faults + 1 /\ UNCHANGED control

\* Nothing to do in this tick.
Idle ==
    /\ pc = "decide" /\ ~ScanNow
    /\ row.paused \/ ~due
    /\ Heartbeat(IF row.paused THEN "paused" ELSE "running")
    /\ pc' = "wait"
    /\ row' = EmptyRow
    /\ UNCHANGED <<due, stopping, crashes, history>>

\* Slip: pause wins over scan-now, after the request was acknowledged.
AckScanNowUnlessPaused ==
    /\ pc = "decide" /\ ScanNow
    /\ control' = [control EXCEPT !.scan_now_applied = row.scan_now_nonce]
    /\ pc' = IF row.paused THEN "wait" ELSE "scan"
    /\ UNCHANGED <<row, due, stopping, budget, history>>

\* Scan-now runs one cycle even while paused; acknowledged before it runs.
AckScanNow ==
    /\ pc = "decide" /\ ScanNow
    /\ control' = [control EXCEPT !.scan_now_applied = row.scan_now_nonce]
    /\ pc' = "scan"
    /\ UNCHANGED <<row, due, stopping, budget, history>>

\* Slip: due is all a scheduled scan needs.
BeginScanThoughPaused ==
    /\ \/ pc = "scan"
       \/ pc = "decide" /\ ~ScanNow /\ due
    /\ Heartbeat("scanning")
    /\ pc' = "cycle"
    /\ served' = control.scan_now_nonce
    /\ UNCHANGED <<row, due, stopping, crashes, queued, lastRun, interrupted,
                   quiet, intent>>

\* Slip: no scan while the row says one is running.
BeginScanUnlessShown ==
    /\ \/ pc = "scan"
       \/ pc = "decide" /\ ~ScanNow /\ ~row.paused /\ due
    /\ row.status # "scanning"
    /\ Heartbeat("scanning")
    /\ pc' = "cycle"
    /\ served' = control.scan_now_nonce
    /\ UNCHANGED <<row, due, stopping, crashes, queued, lastRun, interrupted,
                   quiet, intent>>

\* The heartbeat that announces the scan, and the call of _run_cycle.
BeginScan ==
    /\ \/ pc = "scan"
       \/ pc = "decide" /\ ~ScanNow /\ ~row.paused /\ due
    /\ Heartbeat("scanning")
    /\ pc' = "cycle"
    /\ served' = control.scan_now_nonce
    /\ UNCHANGED <<row, due, stopping, crashes, queued, lastRun, interrupted,
                   quiet, intent>>

\* The cycle returned or failed (logged): either way the next one is due an
\* interval after this one started.
FinishCycle ==
    /\ pc = "cycle"
    /\ pc' = "wait"
    /\ due' = FALSE
    /\ row' = EmptyRow
    /\ UNCHANGED <<database, stopping, budget, history>>

\* The interval runs out.
IntervalElapses ==
    /\ pc # "down" /\ ~due
    /\ due' = TRUE
    /\ UNCHANGED <<database, pc, row, stopping, budget, history>>

\* A write outside any handler fails (ack_command, ack_scan_now): the
\* exception leaves run_forever and ends the monitor.
AckFails ==
    /\ pc = "ackCommand" \/ (pc = "decide" /\ ScanNow)
    /\ faults < MaxFaults
    /\ faults' = faults + 1
    /\ Die
    /\ UNCHANGED crashes

Tick ==
    \/ ReadSucceeds \/ ReadFails
    \/ RunCommand \/ AckCommand \/ AckFails
    \/ Idle \/ AckScanNow \/ BeginScan \/ FinishCycle

Next ==
    \/ Dashboard
    \/ Start \/ Signal \/ Stop \/ Kill
    \/ Tick
    \/ IntervalElapses

Spec == Init /\ [][Next]_vars

\* The loop's thread keeps running, time passes, and the service manager
\* starts the monitor again (Restart=always).  Faults are bounded, so they
\* stop; the operator owes nothing.
Fairness ==
    /\ WF_vars(Start) /\ WF_vars(Stop)
    /\ WF_vars(Tick)
    /\ WF_vars(IntervalElapses)

FairSpec == Spec /\ Fairness

-----------------------------------------------------------------------------
(***************************************************************************)
(* Properties.                                                             *)
(***************************************************************************)

\* Every variable has its type.
TypeOK ==
    /\ control \in ControlRow
    /\ pc \in Labels
    /\ row \in ControlRow
    /\ due \in BOOLEAN
    /\ stopping \in BOOLEAN
    /\ crashes \in Nat
    /\ faults \in Nat
    /\ queued \in Seq(Commands)
    /\ lastRun \in [nonce : Nat, command : Commands \cup {Unset},
                    result : Outcomes]
    /\ interrupted \in BOOLEAN
    /\ served \in Nat
    /\ quiet \in BOOLEAN
    /\ intent \in [paused : BOOLEAN, settings : Settings \cup {Unset}]

\* The command the loop runs under nonce n is the n-th one queued, however
\* many are queued while it runs and however often it is run again
\* (_run_pending_command works from one read of the row).
CommandRunAsQueued ==
    lastRun.nonce # 0 =>
        /\ lastRun.nonce \in DOMAIN queued
        /\ queued[lastRun.nonce] = lastRun.command

\* An acknowledged command has run, and the result on the row is the result
\* of that run: a command queued while another runs is never swallowed by
\* the acknowledgement of the first (the lost update the nonce pair is for).
AckTellsWhatRan ==
    /\ control.command_applied <= lastRun.nonce
    /\ control.command_applied = lastRun.nonce =>
           control.command_result = lastRun.result

\* A command is run a second time only after the monitor died between the
\* run and its acknowledgement.
OnceUnlessInterrupted ==
    pc = "command" /\ ~interrupted => lastRun.nonce < row.command_nonce

\* A scan request whose acknowledgement was written and whose cycle never
\* started (the process died in between) leaves the monitor due: it scans at
\* its first unpaused tick.
LostScanIsDue ==
    served < control.scan_now_applied => due \/ pc \in {"scan", "down"}

\* A monitor that managed to read a row which was paused, with no scan
\* request pending, does not scan in that tick.
PauseObeyedWhenRead ==
    pc \in {"scan", "cycle"} /\ row.exists => ~quiet

\* Pause and settings are what the operator last chose, across monitor
\* starts, stops and crashes (ensure_control_row seeds a new row only).
IntentKept ==
    /\ control.paused = intent.paused
    /\ intent.settings # Unset => control.settings = intent.settings

\* Every maintenance command is eventually acknowledged, itself or covered by
\* a newer one, through crashes, restarts and failed acknowledgements.
CommandAcked ==
    \A n \in 1..MaxRequests :
        control.command_nonce >= n ~> control.command_applied >= n

\* As long as the process is not killed or stopped, every scan request is
\* followed by a cycle that starts after it, paused or not.
ScanServed ==
    \A n \in 1..MaxRequests :
        control.scan_now_nonce >= n ~> served >= n \/ crashes > 0

\* Unless the operator pauses it, the monitor scans again and again.
KeepsScanning == []<>(pc = "cycle" \/ control.paused)

\* The command half of the row is a one-shot trigger: act, then acknowledge.
CommandTrigger == INSTANCE OneShot WITH
    nonce <- control.command_nonce,
    acted <- lastRun.nonce,
    applied <- control.command_applied

\* The command protocol, crashes and re-runs included, implements OneShot.
CommandTriggerSpec == CommandTrigger!Spec
=============================================================================
