-------------------------- MODULE CollectionCycle --------------------------
(***************************************************************************)
(* One scan after another on the shared database: apply the operator's     *)
(* corrections, open a run, drive every snapshot collector (write its      *)
(* rows, judge what has no verdict, mark what was seen), judge the streamed *)
(* rows, close the run, prune.  Any database call may fail and the process *)
(* may die between any two of them; meanwhile streaming workers add rows   *)
(* and the dashboard records corrections and reads which findings are      *)
(* active.                                                                 *)
(*                                                                         *)
(* A run is known by its number, which also stands for started_at.  An     *)
(* artifact stands for one (collector, content_hash) pair.                 *)
(***************************************************************************)
EXTENDS Naturals, Sequences, SequencesExt

CONSTANTS
    Order,          \* the snapshot collectors, in the order a cycle drives them
    Streams,        \* the streaming collectors
    Artifacts,      \* what can be found on the host
    CollectorOf,    \* the collector that finds it
    MaxRuns,        \* bound on cycles started
    MaxFaults,      \* bound on failed calls and crashes together
    MaxCorrections, \* bound on operator corrections
    MaxCommands     \* bound on maintenance commands

Collectors == ToSet(Order) \cup Streams
Verdicts == {"benign", "malicious"}
Labels == {"false_positive", "confirmed"}

\* A host lists each of its collectors once.
ASSUME ConstantsAssumption ==
    /\ Order \in Seq(ToSet(Order))
    /\ \A i, j \in DOMAIN Order : i # j => Order[i] # Order[j]
    /\ Streams \cap ToSet(Order) = {}
    /\ CollectorOf \in [Artifacts -> Collectors]
    /\ {MaxRuns, MaxFaults, MaxCorrections, MaxCommands} \subseteq Nat

VARIABLES
    (***********************************************************************)
    (* The database.                                                       *)
    (***********************************************************************)
    clock,      \* number of runs ever started; the newest started_at
    runs,       \* CollectionRun rows
    finished,   \* those with a finished_at
    rows,       \* snapshot rows: <<run, artifact>>
    events,     \* streamed rows: <<clock when written, artifact>>
    verdicts,   \* Judgement rows
    feedback,   \* FeedbackRow rows
    (***********************************************************************)
    (* The cycle's thread.                                                 *)
    (***********************************************************************)
    pc,
    run,        \* the run in progress
    todo,       \* collectors still to drive
    observed,   \* what the collector at hand returned
    settings,   \* the control row as read when the cycle started
    pending,    \* corrections read and not yet applied
    (***********************************************************************)
    (* Budgets and history, read by bounds and properties only.            *)
    (***********************************************************************)
    budget,
    okIn,       \* the last run in which each collector succeeded
    judgedIn,   \* clock when an artifact got its verdict
    excused,    \* corrections overtaken by a newer one or by a new verdict
    found       \* every snapshot row there ever was

telemetry == <<clock, runs, finished, rows>>
findings == <<verdicts, feedback>>
thread == <<pc, run, todo, observed, settings, pending>>
history == <<okIn, judgedIn, excused, found>>
vars == <<clock, runs, finished, rows, events, verdicts, feedback,
          pc, run, todo, observed, settings, pending,
          budget, okIn, judgedIn, excused, found>>

-----------------------------------------------------------------------------

None == [kind |-> "none"]
Judgement(v, seen) == [kind |-> "judgement", verdict |-> v, seen |-> seen]
Correction(l, applied) == [kind |-> "correction", label |-> l, applied |-> applied]

Judged(a) == verdicts[a] # None
Corrected(a) == feedback[a] # None

\* FEEDBACK_VERDICTS.
Pinned(label) == IF label = "confirmed" THEN "malicious" ELSE "benign"

NoPending == [a \in Artifacts |-> "none"]

ControlReads == [disabled : SUBSET Collectors, judge : BOOLEAN]

\* The row could not be read: nothing disabled, judging as started with.
BlindRead == [disabled |-> {}, judge |-> TRUE]

Init ==
    /\ clock = 0 /\ runs = {} /\ finished = {} /\ rows = {} /\ events = {}
    /\ verdicts = [a \in Artifacts |-> None]
    /\ feedback = [a \in Artifacts |-> None]
    /\ pc = "idle" /\ run = 0 /\ todo = <<>> /\ observed = {}
    /\ settings = BlindRead
    /\ pending = NoPending
    /\ budget = [faults |-> 0, corrections |-> 0, commands |-> 0]
    /\ okIn = [c \in Collectors |-> 0]
    /\ judgedIn = [a \in Artifacts |-> 0]
    /\ excused = {}
    /\ found = {}

\* A database call fails, or the process dies.
Fault ==
    /\ budget.faults < MaxFaults
    /\ budget' = [budget EXCEPT !.faults = @ + 1]

-----------------------------------------------------------------------------
(***************************************************************************)
(* The start of a cycle.                                                   *)
(***************************************************************************)

\* scan: read the settings, then the corrections not applied yet (a SELECT of
\* its own, before the transaction that applies them).
BeginCycle ==
    /\ pc = "idle" /\ clock < MaxRuns
    /\ settings' \in ControlReads
    /\ pending' = [a \in Artifacts |->
                     IF Corrected(a) /\ ~feedback[a].applied
                     THEN feedback[a].label ELSE "none"]
    /\ pc' = "feedback"
    /\ UNCHANGED <<telemetry, events, findings, run, todo, observed, budget, history>>

\* Slip: applied is set on every row there is by now.
ApplyFeedbackToAll ==
    /\ pc = "feedback"
    /\ LET taken == {a \in Artifacts : pending[a] # "none"} IN
         /\ verdicts' = [a \in Artifacts |->
              IF a \in taken /\ Judged(a)
              THEN [verdicts[a] EXCEPT !.verdict = Pinned(pending[a])]
              ELSE verdicts[a]]
         /\ feedback' = [a \in Artifacts |->
              IF Corrected(a) THEN [feedback[a] EXCEPT !.applied = TRUE]
              ELSE feedback[a]]
         /\ excused' = (excused \ taken)
              \cup {a \in taken : feedback[a].label # pending[a]}
    /\ pending' = NoPending
    /\ pc' = "start"
    /\ UNCHANGED <<telemetry, events, run, todo, observed, settings, budget,
                   okIn, judgedIn, found>>

\* The transaction: pin each verdict that still exists, mark the row applied
\* whatever its label is by now.
ApplyFeedback ==
    /\ pc = "feedback"
    /\ LET taken == {a \in Artifacts : pending[a] # "none"} IN
         /\ verdicts' = [a \in Artifacts |->
              IF a \in taken /\ Judged(a)
              THEN [verdicts[a] EXCEPT !.verdict = Pinned(pending[a])]
              ELSE verdicts[a]]
         /\ feedback' = [a \in Artifacts |->
              IF a \in taken THEN [feedback[a] EXCEPT !.applied = TRUE]
              ELSE feedback[a]]
         /\ excused' = (excused \ taken)
              \cup {a \in taken : feedback[a].label # pending[a]}
    /\ pending' = NoPending
    /\ pc' = "start"
    /\ UNCHANGED <<telemetry, events, run, todo, observed, settings, budget,
                   okIn, judgedIn, found>>

\* apply_feedback is best effort: a failure rolls back and the cycle goes on.
FeedbackFails ==
    /\ pc = "feedback"
    /\ Fault
    /\ pending' = NoPending
    /\ pc' = "start"
    /\ UNCHANGED <<telemetry, events, findings, run, todo, observed, settings, history>>

StartRun ==
    /\ pc = "start"
    /\ clock' = clock + 1
    /\ run' = clock'
    /\ runs' = runs \cup {run'}
    /\ todo' = Order
    /\ pc' = "collect"
    /\ UNCHANGED <<finished, rows, events, findings, observed, settings, pending,
                   budget, history>>

-----------------------------------------------------------------------------
(***************************************************************************)
(* One collector after another.                                            *)
(***************************************************************************)

Current == Head(todo)
FoundBy(c) == {a \in Artifacts : CollectorOf[a] = c}

SkipDisabled ==
    /\ pc = "collect" /\ todo # <<>>
    /\ Current \in settings.disabled
    /\ todo' = Tail(todo)
    /\ UNCHANGED <<telemetry, events, findings, pc, run, observed, settings,
                   pending, budget, history>>

\* collect and write: the rows of one collector go in one transaction.
Collect ==
    /\ pc = "collect" /\ todo # <<>>
    /\ Current \notin settings.disabled
    /\ observed' \in SUBSET FoundBy(Current)
    /\ rows' = rows \cup ({run} \X observed')
    /\ found' = found \cup ({run} \X observed')
    /\ pc' = "judge"
    /\ UNCHANGED <<clock, runs, finished, events, findings, run, todo, settings,
                   pending, budget, okIn, judgedIn, excused>>

\* New verdicts for those the judge answered, last_seen_at NULL.  A row that
\* exists stays as it is (ON CONFLICT DO NOTHING).
NewVerdicts(answered) ==
    /\ \E v \in [answered -> Verdicts] :
         verdicts' = [a \in Artifacts |->
             IF a \in answered THEN Judgement(v[a], 0) ELSE verdicts[a]]
    /\ judgedIn' = [a \in Artifacts |->
             IF a \in answered THEN clock ELSE judgedIn[a]]
    /\ excused' = excused \cup
             {a \in answered : Corrected(a) /\ feedback[a].applied}

\* _judge_snapshot: the unjudged artifacts of this run.  The judge may leave
\* any of them out (cap, malformed reply, unanswered batch).
JudgeSnapshot ==
    /\ pc = "judge"
    /\ IF settings.judge
       THEN \E answered \in SUBSET {a \in observed : ~Judged(a)} :
                NewVerdicts(answered)
       ELSE UNCHANGED <<verdicts, judgedIn, excused>>
    /\ pc' = "touch"
    /\ UNCHANGED <<telemetry, events, feedback, run, todo, observed, settings,
                   pending, budget, okIn, found>>

\* Slip: only what judging looked at is marked.
TouchJudgmentsIfJudging ==
    /\ pc = "touch"
    /\ verdicts' = [a \in Artifacts |->
         IF settings.judge /\ a \in observed /\ Judged(a)
         THEN [verdicts[a] EXCEPT !.seen = run] ELSE verdicts[a]]
    /\ okIn' = [okIn EXCEPT ![Current] = run]
    /\ todo' = Tail(todo)
    /\ pc' = "collect"
    /\ observed' = {}
    /\ UNCHANGED <<telemetry, events, feedback, run, settings, pending, budget,
                   judgedIn, excused, found>>

\* Slip: every verdict of the collector is marked.
TouchAllJudgments ==
    /\ pc = "touch"
    /\ verdicts' = [a \in Artifacts |->
         IF a \in FoundBy(Current) /\ Judged(a)
         THEN [verdicts[a] EXCEPT !.seen = run] ELSE verdicts[a]]
    /\ okIn' = [okIn EXCEPT ![Current] = run]
    /\ todo' = Tail(todo)
    /\ pc' = "collect"
    /\ observed' = {}
    /\ UNCHANGED <<telemetry, events, feedback, run, settings, pending, budget,
                   judgedIn, excused, found>>

\* touch_judgments: what was observed is marked seen in this run, judging on
\* or off.
TouchJudgments ==
    /\ pc = "touch"
    /\ verdicts' = [a \in Artifacts |->
         IF a \in observed /\ Judged(a)
         THEN [verdicts[a] EXCEPT !.seen = run] ELSE verdicts[a]]
    /\ okIn' = [okIn EXCEPT ![Current] = run]
    /\ todo' = Tail(todo)
    /\ pc' = "collect"
    /\ observed' = {}
    /\ UNCHANGED <<telemetry, events, feedback, run, settings, pending, budget,
                   judgedIn, excused, found>>

\* Collecting, writing, judging or touching raised: _collect_guarded records
\* the error and goes on with the next collector, what was written stays.
CollectorFails ==
    /\ pc \in {"collect", "judge", "touch"} /\ todo # <<>>
    /\ Fault
    /\ todo' = Tail(todo)
    /\ pc' = "collect"
    /\ observed' = {}
    /\ UNCHANGED <<telemetry, events, findings, run, settings, pending, history>>

\* A stop requested meanwhile: no further collector, no streaming verdicts.
Shutdown ==
    /\ pc = "collect"
    /\ todo' = <<>>
    /\ pc' = "end"
    /\ UNCHANGED <<telemetry, events, findings, run, observed, settings,
                   pending, budget, history>>

-----------------------------------------------------------------------------
(***************************************************************************)
(* The end of a cycle.                                                     *)
(***************************************************************************)

\* _judge_streaming: each stream not disabled; a failure of one is logged.
JudgeStreaming ==
    /\ pc = "collect" /\ todo = <<>>
    /\ IF settings.judge
       THEN \E answered \in SUBSET {a \in Artifacts :
                  /\ CollectorOf[a] \in Streams \ settings.disabled
                  /\ \E n \in 0..clock : <<n, a>> \in events
                  /\ ~Judged(a)} :
              NewVerdicts(answered)
       ELSE UNCHANGED <<verdicts, judgedIn, excused>>
    /\ pc' = "end"
    /\ UNCHANGED <<telemetry, events, feedback, run, todo, observed, settings,
                   pending, budget, okIn, found>>

EndRun ==
    /\ pc = "end"
    /\ finished' = finished \cup {run}
    /\ pc' = "rotate"
    /\ UNCHANGED <<clock, runs, rows, events, findings, run, todo, observed,
                   settings, pending, budget, history>>

\* Slip: newest first.
GoesAfter(r, k) == r > k

\* Which of two completed runs prune_to_size deletes first.
GoesBefore(r, k) == r < k

\* prune_to_size: completed runs go oldest first, with their rows and the
\* streamed rows older than the oldest run kept, until the file is small
\* enough (after any number of them) or one is left.
PruneToSize ==
    \E gone \in SUBSET finished :
        LET kept == finished \ gone IN
          /\ gone # {} => kept # {}
          /\ \A r \in gone, k \in kept : GoesBefore(r, k)
          /\ runs' = runs \ gone
          /\ finished' = kept
          /\ rows' = {w \in rows : w[1] \notin gone}
          /\ events' = {e \in events :
                          gone # {} => \E k \in kept : k <= e[1]}
          /\ UNCHANGED clock

Reset == /\ run' = 0 /\ todo' = <<>> /\ observed' = {}
         /\ settings' = BlindRead /\ pending' = NoPending

Rotate ==
    /\ pc = "rotate"
    /\ PruneToSize
    /\ pc' = "idle"
    /\ Reset
    /\ UNCHANGED <<findings, budget, history>>

\* A database call outside any handler fails and the exception ends the cycle
\* (start_run, write_error, end_run, ...), or the process dies: the run, if
\* opened, keeps finished_at NULL.
CycleFails ==
    /\ pc # "idle"
    /\ Fault
    /\ pc' = "idle"
    /\ Reset
    /\ UNCHANGED <<telemetry, events, findings, history>>

Cycle ==
    \/ BeginCycle \/ ApplyFeedback \/ FeedbackFails \/ StartRun
    \/ SkipDisabled \/ Collect \/ JudgeSnapshot \/ TouchJudgments
    \/ CollectorFails \/ Shutdown
    \/ JudgeStreaming \/ EndRun \/ Rotate \/ CycleFails

-----------------------------------------------------------------------------
(***************************************************************************)
(* Maintenance commands; the control loop runs them between cycles.        *)
(***************************************************************************)

Maintain ==
    /\ pc = "idle"
    /\ budget.commands < MaxCommands
    /\ budget' = [budget EXCEPT !.commands = @ + 1]
    /\ UNCHANGED thread

Prune == Maintain /\ PruneToSize /\ UNCHANGED <<findings, history>>

\* clear_judgements.
Rejudge ==
    /\ Maintain
    /\ verdicts' = [a \in Artifacts |-> None]
    /\ UNCHANGED <<telemetry, events, feedback, history>>

\* reset_baseline drops the runs and leaves their rows.
ResetBaseline ==
    /\ Maintain
    /\ runs' = {} /\ finished' = {}
    /\ UNCHANGED <<clock, rows, events, findings, history>>

\* clear_data keeps the corrections.
ClearData ==
    /\ Maintain
    /\ runs' = {} /\ finished' = {} /\ rows' = {} /\ events' = {}
    /\ verdicts' = [a \in Artifacts |-> None]
    /\ UNCHANGED <<clock, feedback, history>>

-----------------------------------------------------------------------------
(***************************************************************************)
(* The other writers.                                                      *)
(***************************************************************************)

\* A streaming worker flushes a row (disabled or not: workers start once).
StreamRow(a) ==
    /\ CollectorOf[a] \in Streams
    /\ events' = events \cup {<<clock, a>>}
    /\ UNCHANGED <<telemetry, findings, thread, budget, history>>

\* record_feedback: the latest label wins and has yet to be applied.  The
\* operator labels a finding on the screen, which may be gone by now.
RecordFeedback(a, label) ==
    /\ judgedIn[a] # 0
    /\ budget.corrections < MaxCorrections
    /\ budget' = [budget EXCEPT !.corrections = @ + 1]
    /\ feedback' = [feedback EXCEPT ![a] = Correction(label, FALSE)]
    /\ UNCHANGED <<telemetry, events, verdicts, thread, history>>

Next ==
    \/ Cycle
    \/ Prune \/ Rejudge \/ ResetBaseline \/ ClearData
    \/ \E a \in Artifacts : StreamRow(a)
    \/ \E a \in Artifacts, l \in Labels : RecordFeedback(a, l)

Spec == Init /\ [][Next]_vars

-----------------------------------------------------------------------------
(***************************************************************************)
(* What the dashboard shows.                                               *)
(***************************************************************************)

\* The runs latest_run chooses from, and the one it returns (0 for none).
Candidates == IF finished # {} THEN finished ELSE runs
Newest(S) == IF S = {} THEN 0 ELSE CHOOSE r \in S : \A q \in S : q <= r
Latest == Newest(Candidates)

\* The finding's status in the dashboard; the rest are resolved.
Active(a) == Judged(a) /\ verdicts[a].seen >= Latest

-----------------------------------------------------------------------------
(***************************************************************************)
(* Properties.                                                             *)
(***************************************************************************)

\* A finding the dashboard calls active was found on the host: its artifact
\* has a row in the run it was last seen in, whatever failed in between and
\* whatever was pruned.
ActiveWasObserved ==
    \A a \in Artifacts :
        Active(a) /\ Latest # 0 => <<verdicts[a].seen, a>> \in rows

\* A finding that the displayed run has a row for, and that was judged by
\* then, is active when its collector ended that run without an error:
\* judging being off, the judge failing elsewhere, crashes and prunes do not
\* resolve it.
ObservedIsActive ==
    \A a \in Artifacts :
        /\ Judged(a) /\ judgedIn[a] <= Latest
        /\ Latest \in finished /\ <<Latest, a>> \in rows
        /\ okIn[CollectorOf[a]] = Latest
        => Active(a)

\* A finding changes between active and resolved only when the cycle marks
\* it seen or a newer run is displayed: not when old runs are pruned, and not
\* when a cycle starts or fails.
StatusFollowsTheCycle ==
    [][\A a \in Artifacts :
          /\ Judged(a) /\ Judged(a)' /\ Active(a) # Active(a)'
          /\ Latest' # 0
          => verdicts[a].seen' > verdicts[a].seen \/ Latest' > Latest]_vars

\* An applied correction pins the verdict, unless a newer correction arrived
\* while it was being applied or the finding was judged again afterwards.
CorrectionHolds ==
    \A a \in Artifacts \ excused :
        Corrected(a) /\ feedback[a].applied /\ Judged(a)
            => verdicts[a].verdict = Pinned(feedback[a].label)

=============================================================================
