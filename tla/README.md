# A TLA+ verification of avai

avai watches one host. A *monitor* process runs collectors over the operating
system, stores what they find in a SQLite file, asks a language model what it
makes of it, and writes reports. A *dashboard* process serves pages from the
same file. This directory models the parts of it whose correctness depends on
the order in which things happen, and the collectors that turn tools and files
into rows, checks them with TLC and proves what matters most with TLAPS.

Paths below are relative to `src/avai/` of the repository.

## The system

| component | state | operations | talks to |
|---|---|---|---|
| control row: `dashboard/control.py`, `host_monitor/sink_admin.py` (`ControlStore`), `models.py` (`ControlState`) | one database row: pause, settings, two nonce/applied pairs, command and result, heartbeat | pause, resume, settings, scan-now, queue a command; read, acknowledge, heartbeat | dashboard and control loop, only through the row |
| control loop: `host_monitor/control_loop.py`, `main.py` | the tick's copy of the row, `next_scan`, the shutdown event | one tick per poll: run the pending command, acknowledge, idle or scan | row, maintenance, collection cycle, signals |
| collection cycle: `host_monitor/runner.py`, `sink_stores.py` | runs, snapshot rows, verdicts with `last_seen_at`, corrections | apply corrections, open a run, collect, judge, touch, judge streams, report, close, rotate | sink, judging pipeline, collectors |
| maintenance and retention: `control_loop.py` (`Maintenance`), `sink_admin.py` (`Retention`) | the same tables and the size of the file | prune, clear, rejudge, renarrate, reset baseline | between cycles, on the loop's thread |
| streaming workers: `host_monitor/streaming.py`, `supervision.py`, `runtime/stream_source.py` | per worker a thread, a stop event, a buffer, a session row, an attempt count | open, pump, flush, close, back off, stop | child processes, sink |
| judging pipeline: `finding_stages.py`, `judge.py`, `verifier.py`, `investigator.py` | none of its own | baseline, correlate, enrich, judge in batches, verify, investigate | language model, enrichment, sink (reads) |
| enrichment: `enrichers/` | evidence cache, token buckets, feeds | look up, fetch with retries, cache, chain | HTTP services |
| reports: `cycle_steps.py`, `risk.py`, `narrator.py`, `coverage.py` | narrative, risk, rule-status, rule-inventory and coverage rows | one step each at the end of a cycle | sink, language model |
| schema bootstrap: `db_bootstrap.py`, `db_migrate.py`, `migrations/` | the schema | create, add columns, migrate at every start of either process | the file |
| liveness: `dashboard/control.py` (`MonitorLiveness`), `control_loop.py` (`ProgressHeartbeat`) | `last_seen_at` of the control row | beat, read | dashboard, cycle |
| dashboard queries, routes, TTL cache | a cache of query results | read-only | the file |
| snapshot collectors, host capabilities: `host_monitor/collectors/`, `hosts/`, `runtime/`, the three `*_collectors.py` | none but the compiled YARA rules | read one slice of the operating system | commands, files, sockets |
| host name registration, launching: `hostsfile.py`, `dashboard/serve.py`, `cli.py` | the managed block of the hosts file | install, remove, ensure at launch | the file system, the user's editor |

What is hard about it: two processes and several threads share one database and
nothing else; every database call may fail; the monitor is killed and started
again by a service manager; a copy of a row is acted upon after the row has
changed; status is derived by comparing timestamps that were written at
different moments. `PROJECT.json` lists each such hazard at its line.

## The modules

| module | models | composed of |
|---|---|---|
| `OneShot` | what a nonce/applied pair promises (abstract) | |
| `ControlPlane` | control row, dashboard writes, control loop, process life | refines `OneShot` |
| `MCControlPlane` | symmetry for TLC | `ControlPlane` |
| `ControlPlaneProofs` | theorems | `ControlPlane`, TLAPS |
| `CollectionCycle` | cycles, findings, corrections, maintenance, retention, what the dashboard shows | |
| `Baseline` | what the judge is told of an artifact's past: novelty, drift | reads the state of `CollectionCycle` |
| `MCCollectionCycle` | collectors and artifacts for TLC | `CollectionCycle`, `Baseline` |
| `CollectionCycleProofs` | theorems | `Baseline`, TLAPS |
| `JudgePipeline` | one collector's findings on their way to a stored verdict | |
| `JudgePipelineProofs` | theorems | `JudgePipeline`, TLAPS |
| `Correlation` | what processes did, put beside processes and launch items over reused PIDs | |
| `MCCorrelation` | symmetry for TLC | `Correlation` |
| `CorrelationProofs` | theorems | `Correlation`, TLAPS |
| `Enrichment` | threat-intelligence lookups in time | |
| `MCEnrichment` | a small instance for TLC | `Enrichment` |
| `EnrichmentProofs` | theorems | `Enrichment`, TLAPS |
| `StreamingWorker` | one streaming worker with its source, its clock and its database | |
| `SchemaBootstrap` | creating and migrating the file, by several processes at once | |
| `HostsFile` | the managed block, its transforms, and who reads and replaces the file | |
| `Launch` | the start of the product: bootstrap, then hosts notice, port, serving | `SchemaBootstrap`, `HostsFile` |
| `MCLaunch` | deployments and files for TLC | `Launch` |
| `LaunchProofs` | theorems on the bootstrap, alone and as `Launch` runs it, and on the hosts file | `Launch`, TLAPS |
| `HostSources` | commands, files, directories: what each way of reading makes of a failure | |
| `TextParsers` | the parsers of one text | `HostSources` |
| `HostCollectors` | the collectors that do more than parse one text | `TextParsers` |
| `HostScan` | one collection of one slice on one platform while the host changes | `HostCollectors` |
| `MCHostScan` | what may be found in each source, for TLC | `HostScan` |
| `CollectorProofs` | theorems on the streaming worker and, apart from them, on the collection of a slice | `StreamingWorker`, `HostScan`, TLAPS |
| `Reporting` | the four reports at the end of a cycle | |
| `MCReporting` | postures and rule sets for TLC | `Reporting` |
| `ReportingProofs` | theorems | `Reporting`, TLAPS |

### ControlPlane

One action is one database transaction of one process together with the local
computation around it. `control` is the row; `row` is the copy the tick works
from, taken by `PollRead` at the start of the tick and dropped at its end;
`pc` is where the thread is: `wait` between ticks, `command` and `ackCommand`
inside `_run_pending_command`, `decide` and `scan` in the rest of `_tick`,
`cycle` while a cycle runs, `down` when there is no process. A failed read gives
the loop an empty row, as `read_control() or {}` does. A failed
`write_heartbeat` is logged and changes nothing; a failed acknowledgement is
handled nowhere and ends the process (`AckFails`). `due` says whether
`monotonic() >= next_scan`; `IntervalElapses` sets it, a finished cycle clears
it. The settings columns are one value, since the loop only hands them on.
`disabled_collectors` is left to `CollectionCycle`, which reads it.

History variables (`queued`, `lastRun`, `interrupted`, `served`, `quiet`,
`intent`) record what was queued, what ran, and what the operator chose; no
guard reads them, except that `RunCommand` hands its result to `AckCommand`
through `lastRun`, as the code does in a local.

### CollectionCycle

A run is its number, which also stands for `started_at`; an artifact stands for
a (collector, content hash) pair. `pc` follows `scan()`: corrections (read, then
applied in a transaction of its own), `start_run`, then per collector collect
and write, judge, touch, then the streams, `end_run` and rotation. A collector
that raises (`CollectorFails`) leaves what it has written and the cycle goes on;
any other failure, or the death of the process, ends the cycle where it is
(`CycleFails`). A stop request (`Shutdown`) ends the loop early and the run is
closed all the same. The judge may answer for any subset of what it is asked,
with any verdict: caps, malformed replies and failed batches are all subsets.
`PruneToSize` takes any number of the oldest completed runs but the last, the
file's size being abstracted. The streaming workers add rows, and the dashboard
records corrections, between any two steps. `Latest` and `Active` are the
dashboard's own reading of the tables. `found` is history: every snapshot row there ever was,
so that a property can speak of what a prune has taken away.

Collectors without judging write rows that no property here tells apart from
others, and are left out. The control row's `judge_enabled` and
`disabled_collectors` are read at the start of a cycle with any value.

### StreamingWorker

Rows are numbered in the order the source yields them, so order and duplicates
can be seen. Timers count ticks and saturate where the code stops telling values
apart, and time passes at every step, so that a database call may take long. The
source may end by itself, crash, yield a row after the stop was requested, and
ends once the stop is set (the watchdog of `ChildProcess`). `Exit` ends the
process wherever the worker is, which covers a kill as well as a shutdown whose
join timed out on this daemon thread.

### Baseline

No variables of its own: `Baseline` computes, in every state of
`CollectionCycle` in which an artifact is about to be judged (`Described`), what
`HostBaseline` and `PresenceWindow` would say of it. Runs are numbered, so a
run's start and its rows' `collected_at` are even numbers, and a row streamed
between two runs is odd. `NovelWasAbsent` counts the retained runs the artifact is
missing from, and then says of every row there ever was (`found`) that one of the
learning period belongs to a run older than every completed run that is left: what
was found and judged late becomes novel by a prune, and by nothing else.

### JudgePipeline

One pass takes what has no verdict (in any order, as the query has none), caps
it, judges it batch by batch, re-checks malicious verdicts, investigates unknown
ones and stores the result in one transaction, where the first of two judgments
on one artifact stays. A reply is a sequence of items with an index and a
verdict: it may leave entries out, repeat them, or name others. A failed call
costs its batch, any other exception the pass. `said` and the fields `first`
and `check` are history.

`CollectionCycle` sees this pipeline as "any verdicts for any subset of what was
asked", which every pass of `JudgePipeline` is. What correlation adds to an entry
is `Correlation`'s; YARA context adds text and is left out.

### Correlation

Programs start and end under a few PIDs at any moment (`Spawn`, `Exit`); a
program is the artifact that a process of it is, and the launch item that starts
it. A cycle reads the processes, judges them, reads sockets and questions, and
judges the launch items; every row stays in its table with its PID or its process
name and the time of its run (`by`, the program that did it, is history, as are
`changed` and `last`). `Links`, `ByPid`, `ByName`, `Capped` and `Lineage` are the
stage's reads within the window `Since`; `Correlate` takes any context they allow,
`CorrelateBlindly` is a read that fails. `ContextIsOwnAndWhole` has two halves.
`OwnOrHandedOver`: behaviour of another program is put beside an entry only if the
PID changed hands since the previous run started, or no run is left before this
one. `LastCycleIsThere`: what the program did since then, under a PID it was seen
to have, is put beside it unless a cap or a failed read takes it away. Ports,
flows and connections are read alike and are one table; questions are looked up
by process name, so that programs of one name share them, and neither half is
about them.

### Enrichment

The stage loops over entries, an entry over indicators, the chain over sources:
`entries`, `todo` and `lookups` are what is left of each loop, `call` is the
request under way. `now` moves where the code waits: for the jittered backoff,
for the token of the host's bucket, for the reply, and for a short Retry-After.
Every source sets a host of its own, so a bucket is named by its source. A lookup
ends in evidence or in nothing; a refusal, a 429 not worth waiting for and used-up
attempts are swallowed by the chain. A feed is fetched as a whole and dated with
the moment the refresh began. `told` dates each piece of evidence with the moment
the source itself said so, which the code does not keep. Sources that need no
request (the local deny-list) are not in the chain of the model.

### SchemaBootstrap

The file is its tables, its indexes one by one, the columns that came later than
their tables, and the rows of Alembic's version table, of which there should be
one. The indexes of a table that no revision makes are told apart by nothing, and
one (`"rest"`) stands for the last of them. SQLite commits every DDL
statement on its own (the driver opens no transaction before one), so one action
is one statement, and other processes and crashes come in between. `proc[p].todo`
is what `create_all`, and after it `ColumnMigration`, found missing when it
looked, `left` the indexes still to come of the table at hand, in any order;
`at` and `stmt` are where Alembic is in its plan.

What Alembic itself does is external and modelled from its contract: both `stamp`
and `upgrade` read the rows of the version table (`ReadHeads`); if there is none
they look whether the table exists and create it, in two statements
(`LookForVersions`, `CreateVersions`); a version is then recorded by an INSERT, if
none was read, or by an UPDATE or DELETE that must match the row that was read
(`Recordable`: the number of matched rows is checked, and the version is the key
of its row). Each revision is recorded after its statements. Two rows of one line
are refused when the next plan is made (`PlanUpgrade`).

The twelve revisions are
sequences of the statements they execute, one definition per file. `deployment`
says who runs under which account, which decides who may write a file that is
not relaxed yet, and whether the desktop application orders the two starts.

### HostsFile and Launch

The file is a sequence of lines, a line an address and a name or a comment. An
actor (the launching dashboard, the command line) reads, transforms what it read
and replaces the file; the user edits between any two steps. `access` is what
the operating system lets it do. `Launch` runs the hosts notice and the bind after
the dashboard's bootstrap, in the deployments where it is of interest.

### HostSources, TextParsers, HostCollectors, HostScan

A *world* is what a collector finds at one moment: the state of the tool it runs,
of the file or directory it reads, and the entries there. An entry maps the words
a parser looks for to values; a word that is missing, a keyword that ends its
line (`Cut`) and a file that cannot be read or parsed are what makes parsers
differ. A row is cut down to the fields the collector is judged on, because that
is what `Digest.of_row` hashes: two rows are one artifact iff they are equal.
`HostSources` has one operator for each way of reading and what it makes of a
failure (`CommandRunner.json` raises, `text` answers with nothing, a missing
binary raises in `CommandSnapshot`). A collector is an operator of two worlds,
the one its first reads find and the one its last reads find; where it lists a
directory and reads the files afterwards, the list is of the first and the content
of the second. Where it reads one entry bit by bit (the attributes of a process or
of a USB device, the tools behind a posture) the constant `FirstRead` says which
words are read before the host moves on, and the row is made of the one and the
other (`Mixed`); a test that succeeds before and whose read fails after is `Torn`.
TLC checks one such cut, the proofs hold for every one.

`HostScan` picks platform and slice and lets the host change between `Begin` and
`Finish`. A collection sees the host in two states only, however many changes led
from the one to the other: one whose reads fall into three or more different
states of the host is not represented. Three sets name what the properties except:
the slices whose rows are put together from several reads (`Composed`), those where
one entry decides another's row (`Related`) and those whose collector lists its
entries, or asks for their parts, one after the other (`Walked`). `Composed` is
`processes`, `system_integrity`, `file_integrity`, `listening_ports`, `file_scan`,
`disk_usage` and `installed_apps`, and on Linux `launch_items`, `usb_devices`,
`bluetooth_devices` and `wifi_state`. (The posture of Windows is one script, which
the model runs at one moment; it is excepted with the others, since the script
asks its tools one by one.)

What is true of a moment (`TrueOf`) is the rows a collection would have then and,
for a walk, the row of each entry alone (`Alone`): one entry that raises fails the
whole collection, but not what is true of the others. `RowsAreOfOneMoment` says
that a stored row of a slice outside `Composed` is true of the beginning or of the
end, or of the end with the directory as open as it was at the beginning: what it
is about is that a list of one moment and files of another do not mix.
`SteadyEntryIsStored` says of a
collection that is recorded as a success, with its tool and its directory the
same at both ends, that it has every row both ends would have had, provided that
what a walk listed is still there unchanged when it is read (`Lasting`); and, where
no other entry has a say and no directory has gone from the tree of setuid files
(`TreeStands`), every row that one place alone would have given at both
ends. `MissingToolIsVisible` is about the slices of `CommandSlices`, those with a
command of their own whose absence raises; `netsh`, `dpkg-query`, `iw` and `dscl`
are left out, since without them the code answers with fewer rows or none by
intent.

### Reporting

`pc` follows `CollectionCycle._report`: narrative, risk, rule status, coverage. A
step's guarded calls fail in any combination (`Breaking`); the one unguarded call
is an action of its own (`PreviousRiskFails`). A narrative is the set of findings
it tells of (the digest the code compares is over their hashes), an assessment is
the status it was made for, a score is its points, its drivers and its
explanation. `compiled` lives in the process and is lost with it; everything else
is in the file. `failed` is history.

## What is checked

| run | instance | shows |
|---|---|---|
| `control_safety` | 2 commands, 2 settings, 2 requests of each kind, 1 kill or signal, 1 fault, symmetric | the six safety properties and the refinement of `OneShot` |
| `control_live` | 1 of each, under fairness | every command is acknowledged, every request served, an unpaused monitor scans for ever |
| `cycle_findings` | 2 collectors, 2 artifacts, 3 cycles, 1 fault, 1 maintenance command | active and resolved, novel and intermittent agree with what the runs found |
| `cycle_corrections` | a snapshot and a streamed artifact, 2 cycles, 2 corrections, 1 maintenance command | applied corrections pin the verdict |
| `worker` | batches of 2, 3 rows, 2 crashes, 1 fault, 1 process end | rows, counts, escalation, restart and stop |
| `judging` | 4 artifacts, batches of 2, cap 3, 1 of each second opinion, 1 fault | verdicts belong to their artifacts, are checked and revised as allowed, and all come in the end |
| `correlation` | 2 PIDs, 2 programs of one name, 3 runs, 2 starts of processes, 1 item of a kind kept, 1 fault, 1 reset, symmetric | behaviour beside a finding is its own or of a PID that changed hands in the window, and the last cycle is all there |
| `enrichment` | a feed and two APIs, 1 package, 3 advisories, cap 2, 3 attempts, 2 cycles, 1 bad reply | recent evidence, pacing, each asked once, bounded stalls |
| `startup` | monitor, dashboard and `avai migrate` on a fresh, an unstamped and a half-migrated file, up to 3 starts, 1 crash; 6 hosts files (without a block, with one, damaged, with two), 4 kinds of access, 1 user edit, 2 commands | the version is earned, a start alone makes every table, column and revision and the indexes of what it found missing, every start that succeeds serves every revision; user lines survive |
| `bootstrap_race` | 2 starts on a file from before Alembic | violation: both succeed and a table is missing |
| `scan` | every slice of 3 platforms, up to 2 entries with each word missing or damaged in turn, each state of tool and place, one cut in the reading of an entry, 1 change during the collection | rows of one moment outside `Composed`; what is there at both ends is stored; missing tools visible |
| `reporting` | 2 findings, 4 observations, 3 rule sets of which two look alike, 3 cycles, 1 fault, 1 kill | reports tell about their cycle |

Bounds. Two requests are what it takes for one to arrive while another is being
served, and the newer one makes the older one's nonce stale. One kill and one
fault already combine with each other and with every interleaving; what a second
one adds is a repetition, and the proofs cover any number. Three cycles give a
completed run to prune, a displayed one and a run in progress. Two artifacts of
two collectors let one be touched while the other's collector fails. Batches of
two with three rows give a full batch and a remainder; two crashes reach the
escalation threshold of the instance; the intervals of one or two ticks let a
timer be short of, at and beyond its limit. Four artifacts under a cap of three
in batches of two give a full batch, a remainder and a deferred entry. Three
advisories under a cap of two, one reported twice, separate "distinct" from
"first two"; rests of 0 and 3 between the cycles leave cached rows and the feed
fresh, stale, or one of each. Three runs put a PID's earlier owner before, in and
behind the window, two starts of processes reuse a PID or spread a program over
two, and a cap of one is reached. Two starts of avai are what it takes to race, a third
repairs what a crash left. Two entries let one be odd, move or go while the other
stays, and one change during a collection is what tells one moment from two. The
properties are proved for any two states of the host at the ends of a collection,
and so for any number of changes between them; what a collection sees at a third
moment is not in the model. Deadlock is not
checked where the system really stops: `CollectionCycle` when `MaxRuns` cycles
are used up, `JudgePipeline` when everything is judged, `Correlation` when its runs and starts
are used up, `Enrichment` when the
last batch is done, `Launch` when its starts and commands are used up,
`HostScan` when the collection has ended, `Reporting` when its cycles are.

Fairness. `ControlPlane`: the loop's thread goes on with its tick, the interval
elapses, a stopped loop leaves, and the monitor is started again (the
repository's unit file says `Restart=always`, README.md:527). Nothing is assumed
of the operator. `StreamingWorker`: its thread goes on, time passes, and a source
ends once the stop is set, which is the contract of `StreamingCollector.stream`.
`JudgePipeline`: some step is taken as long as one is possible, because every
model call has a timeout and the control loop goes on scanning.
Failures and kills are bounded by constants, so they stop.

Each property of a passing run is shown to say something by a changed operator
that stands next to the original under a comment starting with "Slip": with it
in the original's place TLC finds the property violated.

### Findings

1. `bootstrap_race`: `DdlRace` takes "already exists" for a sign that somebody
   else finishes the schema. Both starts may think so: one loses a table to the
   other, goes on to the revisions and creates that table's index, on which the
   other's `create_all` stops too. The tables that were still to come and that no
   revision creates (`ssh_known_hosts`) are missing until the next start.

The models also have these behaviours of the code, without a run that calls them
wrong: a failed read of the control row reads as "not paused" (`ReadFails`); a
completed run in which a collector failed, was disabled or was not reached
resolves its findings (`Active`); the flush interval is looked at only when a row
arrives (`YieldRow`); waiting for a slow database counts towards a healthy
session (`Tick`, `AttemptsSoFar`); rows of one streaming session count as one run
for the drift signal (`times_seen`), so that a steady streamed artifact looks
intermittent; an empty feed is fetched again for every lookup (`FeedIsFresh`).

Two more places are modelled as the code has them and not called wrong: a
correction whose finding was dropped by *rejudge* or *clear* is not applied to
the new verdict (`CorrectionHolds` excuses it, `apply_feedback`'s docstring says
so), and a tailed child process that exits ends its worker (`on_completed`).

Where the code parts from its own comments without a run that shows it:

- a correction changed between `apply_feedback`'s SELECT and its first UPDATE is
  marked applied and never applied (`ApplyFeedback`; `CorrectionHolds` excuses
  it); models.py:162-163 says `applied` flips once the verdict is corrected;
- a PID that is reused after the previous run started brings the behaviour of its
  earlier owner with it, and after *reset_baseline* a first cycle has no previous
  run and so no window over the rows that were left (`Since`); sink_stores.py:182
  says PID reuse cannot pollute correlation. As processes are judged before this
  cycle's sockets are read, what a process is judged with for the first time, if
  it is new, is from streamed execs or from an earlier owner;
- verdicts on streamed artifacts keep `last_seen_at` NULL, because
  `touch_judgments` is called for snapshots only (runner.py:228); models.py:54
  says the next snapshot cycle touches it;
- an error while a worker opens its next session (`OpenFails`) leaves `_run` and
  ends the thread; streaming.py:116-117 says the worker does not die;
- the investigator runs after the skeptic (`StartInvestigate`), so that its
  malicious verdicts are stored unexamined; verifier.py:3-5 says every malicious
  verdict is re-examined;
- the lookups for one entry (`NextEntry`, one beat each) may add up to more than
  the liveness window; constants.py:45-49 says a busy monitor never reads as
  offline;
- the previous risk row is read outside every guard (`PreviousRiskFails`), which
  ends the cycle before `end_run`; cycle_steps.py:1-3 calls every step best-effort;
- only a missing hosts file is expected when it is read (`ReadEscapes`): a file
  that may not be read, or is not UTF-8, ends the dashboard's launch;
  hostsfile.py:349-351 says a missing entry must never stop serving;
- an artifact found in a run of the learning period and judged late is novel once
  that run is pruned (`is_novel`): with `MinRuns` of 1, found unjudged in run 1,
  absent from run 2 and found again in run 3, it is novel in run 3 if run 1 has gone
  meanwhile, for its first sighting and the end of the learning both move;
  sink_stores.py:163-164 says pruning cannot fake novelty (`NovelWasAbsent` names
  this case and no other);
- a bootstrap killed between a table and its indexes (`CreateIndex`) leaves the
  table without those no revision makes, for ever: `create_all` passes over a table
  that is there, and `ColumnMigration` adds columns only, without the index a model
  declares for them (that of `judgements.novel` in a file from before it);
  db_bootstrap.py:133 says the bootstrap brings the database to the current schema
  (`AloneCompletes` promises the indexes of tables found missing, and those of the
  revisions);
- two migrators that start on a file without a version may both insert one
  (`Recordable`): if the second inserts the baseline beside a later version of the
  first, two rows are left, and every later start is refused over them
  (`PlanUpgrade`), until somebody deletes one; db_bootstrap.py:133 again.
  `AloneCompletes` excuses the start that meets such a file;
- a directory that goes while `rglob` walks its tree raises inside the walk and is
  caught around the whole of it (integrity.py:358-361; `Torn`), so that all the
  files of the tree are missing from a collection recorded as a success, and their
  findings read as resolved; `SteadyEntryIsStored` excuses it (`TreeStands`). This is
  `rglob` of Python 3.11, the oldest the project admits;
- the rule inventory is replaced only when the number of rules differs
  (`Replaced`), across restarts as well; `write_yara_rules` says the rule set is
  static within a process. `compile_stats` and inventory are two transactions.

And what a user of the collectors may not expect, all in `HostCollectors` and its
sources: a tool that exists and fails gives the empty text and so an empty,
successful collection; a truncated line after a keyword (`Cut`) fails the whole
slice; a unit file or desktop entry that is not UTF-8 fails the whole slice, an
unreadable one is a row with nothing but its label; the label of a cron job
carries its line number, so that a line inserted above makes new artifacts of
the jobs below; flags of a neighbour and users of a kernel module are judged
fields and change by themselves; a Firefox profile directory that may not be listed
fails the slice of every browser (`DeniedProfiles`: its `iterdir` is in no `try`), and
so does a directory of a Chromium extension removed between `is_dir` and `iterdir`;
rows are put together from reads at different moments (`Composed`), so that a
watched file may be stored as existing without a digest, a process or USB device
with the name of one moment and the rest of another, a posture that never was, and
a Bluetooth device with nothing but its address when its file goes between
`is_file` and the read; resolvers seen as sockets count once and drop
out first under the cap; the Windows and Linux postures report unknown as off.
The proofs of `HostScan` needed, and so its properties now say, what one change
to the host cannot show and two can: an item that a walk listed and that has moved
to another path or PID before it is read is missed, though a row equal to its own
is there before and after; a port that passes to another process of the same name
may be stored without a name; one entry on which a parser raises fails
the slice and with it the rows of all the others; and a `tcpdump` that vanishes
between the look at PATH and the run raises (`CaptureFails`), where every other
command is then an empty text.
In `Reporting`, a posture fact that is unknown costs no points, a verdict that
changes without a change of the set of active findings is not told again, and the
coverage fingerprint cannot tell two rule sets with equal counts, sources and
categories apart. In `SchemaBootstrap`, `avai migrate` on an empty file fails at
the second revision, and a late stamp writes the baseline over a version another
process has recorded (the version may go back; it never goes too far).
In `HostsFile`, a line the user adds between read and replacement is lost, and an
end marker before a begin marker makes every install append another block.

## What is proved

Eight modules hold theorems, each beside its component's module, and one of them
(`CollectorProofs`) beside two that share nothing but their subject. Together they
prove, for every value of the constants, every safety property of the passing
runs; what is left to TLC is listed at the end of this section. A property is
seldom inductive: each module's `IInv` is the conjunction of named parts that is, each
part has one lemma that every action preserves it, and the theorems follow from
`Init => IInv`, `IInv /\ [Next]_vars => IInv'` and `IInv => property` (or, for a
property of steps, `IInv /\ [Next]_vars => [A]_vars`). TLC checked each `IInv` on
its run's instance before it was proved.

| module | theorems | what `IInv` adds to the properties, and why |
|---|---|---|
| `ControlPlaneProofs` | types; the six safety properties of `control_safety`; the refinement of `OneShot` | `QueueInv`: the row's nonce counts the queued commands; `CopyInv`: the tick's copy is an older state of the row; `CommandInv`: what is acknowledged has run, what is about to run is newer; `ScanInv`, `QuietInv`: where the tick is decides what is due |
| `CollectionCycleProofs` | `ActiveWasObserved`, `ObservedIsActive`, `CorrectionHolds`, `StatusFollowsTheCycle`; of `Baseline` `NovelWasAbsent`, `SteadyIsNotIntermittent` | `RunInv`: the open run is the newest; `RowsInv`: which collectors' rows it has yet; `SeenInv`: a `last_seen_at` has its row or lies behind the displayed run; `MarkedInv`: a collector that succeeded has marked what it found; a pending correction exists; `FoundInv`: what was found and has no row any more was found in a run older than all that are kept |
| `CollectorProofs`, worker | types; `StoredOnceInOrder`, `RowCountTrue`, `ErrorsMeanFlapping`, `RowsKept` | `BufferInv`: the buffer is newer than the table and empty outside a session; `CountInv`: the open session's counters tell its rows; `StreakInv`: the attempt counter never exceeds the streak of crashes, because a session has not streamed longer than its turn lasted |
| `CollectorProofs`, slices | `RowsAreOfOneMoment`, `SteadyEntryIsStored`, `MissingToolIsVisible` | `ScanInv`: the host at both ends is entries at places of their own behind the headings, and the outcome is what the collector makes of the two. The rest is about the collectors |
| `JudgePipelineProofs` | types; `JudgmentsAreWhatWasSaid`, `RevisedOnlyAsAllowed`, `MaliciousWasChecked` | `StageInv`: what one judgment may look like at each stage; `SkepticInv`: whoever was asked and whoever is queued are the first `MaxVerify` of those called malicious |
| `CorrelationProofs` | types; `ContextIsOwnAndWhole` | `OwnerInv`: a row tells the PID's last program, or is older than the last change of hands; `RunsInv`: the runs left are the newest; contexts exist between correlating and judging only |
| `EnrichmentProofs` | types; `EachAskedOnce`, `Paced`, `EvidenceIsRecent`, `StallIsBounded` | `PlanInv`: asked and still to ask, taken together, are settled when a subject is taken up and once more when it is chained; `BucketInv`: a token is dated with its request; `AgeInv`: a row is no older than its source's feed may be; `StallInv`: the time a request has taken before its n-th attempt |
| `LaunchProofs`, schema | `VersionIsEarned`, `ReadyHasRevisions`, `AloneCompletes`, for `SchemaSpec` and, as `Launch` implements it, for `LaunchSpec` | `ProgressInv`: what a bootstrap has behind it is done, whoever did it; `AloneInv`: what one that nobody overlaps has made and has left, index by index; `EndedInv`: what it leaves stays as it is, because after its end nobody stamps the file again, but for two rows of version |
| `LaunchProofs`, hosts file | types; `OtherLinesVerbatim`, `InstallIsReversible` for `LaunchSpec` | `HostsTyped`: the file, and the text an actor works on, is a sequence of lines that are an address and a name. The rest is about the transforms: `RewriteIsRead`, a dictionary that is written is read back as the same dictionary |
| `ReportingProofs` | `ReportsAreCurrent` | each report is current from its step to the end of the cycle; each score continues the one before it |

The refinement of `OneShot` maps the row's nonce, the last command run and the
applied nonce; every action but `QueueCommand`, `RunCommand` and `AckCommand`
stutters. That of `SchemaSpec` by `LaunchSpec` is a step simulation as well:
what the dashboard does after its bootstrap leaves the schema alone.

Assumptions. Bounds are numbers, and no proof needs them to be small. Beyond that,
each with its reason in the module that states it: a pass is given finitely many
artifacts (`JudgePipeline`), a host has finitely many PIDs (`Correlation`), rule
sets are finite (`Reporting`); no collector is enabled twice and none is both a
snapshot and a stream (`CollectionCycle`); the registry builds every source once,
ids come as lists, and the reply time and each jittered backoff have a longest
value (`WorldAssumption` of `Enrichment`); a file left by an earlier build has
what each of its versions promises, and no index without its table (`InstancesAssumption` of `SchemaBootstrap`); a hosts file is a
sequence of lines (`LinesAssumption` of `HostsFile`); only of
`netstat -rn` and `net localgroup` do the headings matter to the parser
(`HeadingsAssumption` of `HostScan`), and the place
of a browser's extension, of a mount and of a unit tells its browser, its device
and its scope, while no entry is a package and a launcher at once
(`EntriesAssumption`). TLC evaluates all of them on the runs. The models' fault counters bound nothing in
the proofs.

How. Each module that needs induction over numbers proves `SetInduction` (a set
with 0 and closed under successor has every number) from the well-foundedness of
`<`, as the library's own theorem takes an operator and cannot be instantiated
here; induction then runs over a set comprehension. `Loop` shows with it that a
loop over a sequence, written as a recursive function, is defined at all.
For this the models write their loops as recursive functions (`Indexed`,
`Asking`, `AdvisoryIds`, `Backed`, `Gathered`) where `SelectSeq` or `FoldLeft` would have been
shorter, and what is left of a loop whose order does not matter as a set (`todo`
of `SchemaBootstrap`).

The hosts file. What an action does to the file is a transform, so its two
theorems rest on lemmas about sequences. `Before`, `Block` and `After` of a file
that `Rewrite` made are what went in, because the first markers of the result are
the ones it wrote: no entry is a marker, and what comes before is cut at the first
marker. `Gathered` of the entries of one name after another gives the names in
order, and for one name its addresses. Installing appends a name or replaces its
addresses (`InstallAdds`), removing takes it out (`RemoveTakes`), and composing the
two with `RewriteIsRead` is `InstallIsReversible`. When the last name goes, the
block goes with its markers, and a second block behind it would become the
managed one: that is why `Intact` asks that there is none, and why
`OtherLinesVerbatim` compares what is outside the block (`Unmanaged`) with the new
file or with what is outside its block.

The slices. What a collection stores is a function of the two ends, so the three
theorems are about every collector of every platform, taken in four ways.
Most read once, at the end, and a tool that comes or goes meanwhile can only leave
them without rows (`AtTheEnd`, `ReadAtTheEnd`). Where entries do not matter to each
other, a success holds the rows each would have alone (`Kept`, `EachKept`): parser
by parser, as every parser maps lines to rows one by one, but for the certificates
of macOS, where a digest waits for its label (`MacosCertKeeps`). The walks of one
directory are one operator (`WalkRows`, `RowOf`): what is at an entry's place is read as if it stood alone
(`WalkReadsEntries`, `SteadyWalk`), where it is read at once; where it is read word by
word, two reads that agree on the row agree on every mixture of them
(`MixedFields`). A directory that goes ends the walk (`Felled`), with an error or
with nothing. The rest is settled one by one: the two sources of launch items on
Windows and Linux are told apart by the scope of their rows (`RunKeysRead`,
`TasksRead`, `SteadyUnits`), mounts by their device (`SteadyDisks`), matches by
their path (`SteadyMatches`), packages and launchers by their source (`SteadyApps`),
and the ports last as long as the names of their processes (`LastingPorts`).

Not proved, and why:

- liveness (`CommandAcked`, `ScanServed`, `KeepsScanning`, `CrashRestarts`,
  `StopEnds`, `EventuallyJudged`): it depends on fairness, which is outside what
  the prover handles here;
- `RaceIsBenign`: it is false (`bootstrap_race`).

## What is not modelled, and the plan

In this order:

1. `Indicators`: which indicators a row yields, and the gates of
   the registry; the parsers of the event streams.
2. `Monitor`: control plane, cycle and workers composed, with the heartbeat of
   `Enrichment` and the window of the dashboard.
3. Dashboard queries with rules of their own: grouping, paging and status filters
   against the reference reading `Active`; the TTL cache of the auth page.

Abstracted in what is modelled: columns that are not judged; in the collectors,
the YARA compiler, the redaction of matches, decoding of binary fields, the state of
the host at a third moment of a collection, and the
walk of nested listings, of which the entries are the result, and a directory that
goes the only failure; in the bootstrap,
downgrades, the types of columns and the inside of Alembic beyond its version table; in the hosts file, line ends and the mode of
the temporary file; in the reports, the words. Each SELECT of the dashboard sees
its own snapshot, so a page may mix two moments; no model states otherwise.

Left out for good: dashboard pages and read-only queries without rules of their
own, the `Sink` facade, the wording of prompts and reports, packaging.
