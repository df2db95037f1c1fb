-------------------------- MODULE SchemaBootstrap --------------------------
(***************************************************************************)
(* Schema creation and forward migration of the shared SQLite file.  The   *)
(* monitor and the dashboard run the same bootstrap on every start: create *)
(* the missing tables, add the missing columns, stamp a file Alembic never *)
(* saw, apply the pending revisions, relax the permissions.  SQLite        *)
(* commits every DDL statement on its own, so two bootstraps interleave    *)
(* between any two statements and a crash can fall between them.           *)
(***************************************************************************)
EXTENDS Integers, Sequences, SequencesExt

CONSTANTS
    Instances,      \* [deployment, db]: who runs the bootstrap on what file
    MaxCrashes      \* bound: bootstraps killed half way
                    \* (deployment.starts bounds the bootstraps begun)

VARIABLES
    db,             \* the file: tables, indexes, columns, versions, owner, shared
    deployment,     \* the deployment chosen in the initial state
    proc,           \* every process's progress through its bootstrap
    starts, crashes

schemaVars == <<db, deployment, proc, starts, crashes>>

\* create_all walks the models in the order they are defined, and the
\* enrichment model is registered last.
CycleTables == <<"collection_runs", "collector_errors", "judgements",
    "incident_narratives", "risk_scores", "yara_coverage">>
StateTables == <<"streaming_sessions", "feedback", "control_state">>
HostTables == <<"processes", "network_connections", "listening_ports",
    "network_flows", "network_interfaces", "usb_devices",
    "bluetooth_devices", "wifi_state", "launch_items">>
EventTables == <<"quarantine_events", "browser_extensions",
    "system_integrity", "auth_events", "log_entries", "file_integrity",
    "yara_status", "yara_rule", "file_scan">>
SoftwareTables == <<"installed_apps", "process_exec_events", "mounts",
    "setuid_files", "mdm_profiles", "kernel_extensions", "system_extensions",
    "dns_queries", "ssh_authorized_keys", "hosts_file", "privilege_config">>
NetworkTables == <<"arp_table", "ndp_neighbors", "routes", "dns_resolvers",
    "proxy_config", "login_sessions", "network_shares",
    "promiscuous_ifaces">>
PostureTables == <<"trusted_roots", "injection_env", "kernel_modules",
    "host_resources", "disk_usage", "ssh_known_hosts">>
EvidenceTable == <<"enrichment_evidence">>

ModelTables == CycleTables \o StateTables \o HostTables \o EventTables
    \o SoftwareTables \o NetworkTables \o PostureTables \o EvidenceTable
ModelColumns == <<<<"judgements", "novel">>, <<"file_scan", "meta_json">>,
    <<"file_scan", "strings_json">>>>
VersionTable == "alembic_version"

\* The packaged revisions, each a sequence of statements that commit one by
\* one; the first is the baseline and does nothing.
Table(t) == [do |-> "table", on |-> <<t>>]
Index(t, c) == [do |-> "index", on |-> <<t, c>>]
Column(t, c) == [do |-> "column", on |-> <<t, c>>]

Baseline == <<>>
PerfIndexes == <<Index("collection_runs", "started_at"),
    Index("judgements", "created_at"),
    Index("enrichment_evidence", "indicator_value")>>
ControlStateTable == <<Table("control_state")>>
ResourceTables == <<Table("host_resources"), Table("disk_usage"),
    Index("host_resources", "run_id"), Index("host_resources", "content_hash"),
    Index("disk_usage", "run_id"), Index("disk_usage", "content_hash"),
    Index("disk_usage", "mountpoint")>>
FileScanTable == <<Table("file_scan"), Index("file_scan", "run_id"),
    Index("file_scan", "content_hash"), Index("file_scan", "path"),
    Index("file_scan", "sha256")>>
FileScanMeta == <<Column("file_scan", "meta_json")>>
YaraStatusTable == <<Table("yara_status")>>
YaraRuleTable == <<Table("yara_rule"), Index("yara_rule", "identifier"),
    Index("yara_rule", "source"), Index("yara_rule", "category")>>
FileScanStrings == <<Column("file_scan", "strings_json")>>
YaraCoverageTable == <<Table("yara_coverage"), Index("yara_coverage", "created_at")>>
FeedbackTable == <<Table("feedback"), Index("feedback", "created_at")>>
LogEntriesTable == <<Table("log_entries"), Index("log_entries", "run_id"),
    Index("log_entries", "content_hash"), Index("log_entries", "source"),
    Index("log_entries", "unit"), Index("log_entries", "level"),
    Index("log_entries", "event_timestamp")>>

Revisions == <<Baseline, PerfIndexes, ControlStateTable, ResourceTables,
    FileScanTable, FileScanMeta, YaraStatusTable, YaraRuleTable,
    FileScanStrings, YaraCoverageTable, FeedbackTable, LogEntriesTable>>
Latest == Len(Revisions)

\* The indexes some revision makes. Every other index of a model is made by
\* create_all and by nothing else, so what matters of them is whether the
\* last one was: one member of the set stands for the rest of a table's.
RevisionIndexes == {s.on : s \in
    {q \in UNION {ToSet(Revisions[r]) : r \in 1..Latest} : q.do = "index"}}
Revised == {"control_state", "yara_status", "collection_runs",
    "enrichment_evidence", "host_resources", "disk_usage", "file_scan",
    "yara_rule", "yara_coverage", "feedback", "log_entries"}
IndexesOf(t) == {i \in RevisionIndexes : i[1] = t}
    \union (IF t \in Revised THEN {} ELSE {<<t, "rest">>})

\* versions holds the rows of the version table.
Fresh == [tables |-> {}, indexes |-> {}, columns |-> {}, versions |-> {},
          owner |-> "nobody", shared |-> FALSE]

Working == {"create", "create_index", "inspect", "columns", "tables",
            "heads", "look", "version_table", "steps", "upgrade", "alter",
            "relax"}
\* missing: the tables create_all was to make; todo: what is left of a list;
\* left: the indexes left of a table; heads: the rows of the version table
\* when Alembic read them.
Down == [pc |-> "down", missing |-> {}, todo |-> {}, left |-> {},
         command |-> "upgrade", heads |-> {}, at |-> 0, stmt |-> 1,
         alone |-> TRUE]
Procs == {"monitor", "dashboard", "migrate"}
Others(p) == {q \in DOMAIN deployment.user \ {p} : proc[q].pc \in Working}

(***************************************************************************)
(* The file.                                                               *)
(***************************************************************************)
User(p) == deployment.user[p]
Owns(p) == User(p) \in {"root", db.owner}
CanWrite(p) == Owns(p) \/ db.shared

HasDone(file, s) ==
    CASE s.do = "table" -> s.on[1] \in file.tables
      [] s.do = "index" -> s.on \in file.indexes
      [] s.do = "column" -> s.on \in file.columns

Has(s) == HasDone(db, s)

DoneUpTo(n, file) ==
    \A r \in 1..n : \A i \in DOMAIN Revisions[r] : HasDone(file, Revisions[r][i])

\* What earlier builds may have left: of their own bootstraps this holds too.
ASSUME InstancesAssumption ==
    \A i \in Instances :
        /\ DOMAIN i.deployment.user \subseteq Procs
        /\ \A p \in DOMAIN i.deployment.user : i.deployment.user[p] # "nobody"
        /\ DOMAIN i.db = DOMAIN Fresh
        /\ \A index \in i.db.indexes : index[1] \in i.db.tables
        /\ i.db.versions \subseteq 1..Latest
        /\ i.db.versions # {} => VersionTable \in i.db.tables
        /\ \A v \in i.db.versions : DoneUpTo(v, i.db)

\* create_all builds a table with every column of the model; a revision
\* builds it as it was when the revision was written.
CreateFull(t) == [db EXCEPT !.tables = @ \union {t},
    !.columns = @ \union {c \in ToSet(ModelColumns) : c[1] = t}]

Apply(s) ==
    CASE s.do = "table" -> [db EXCEPT !.tables = @ \union {s.on[1]}]
      [] s.do = "index" -> [db EXCEPT !.indexes = @ \union {s.on}]
      [] s.do = "column" -> [db EXCEPT !.columns = @ \union {s.on}]

\* A statement on a table that is not there fails; creating one never does.
Possible(s) == s.do = "table" \/ s.on[1] \in db.tables

\* Everything the models declare but the indexes, and the newest revision.
Served ==
    /\ ToSet(ModelTables) \subseteq db.tables
    /\ ToSet(ModelColumns) \subseteq db.columns
    /\ DoneUpTo(Latest, db)
    /\ db.versions = {Latest}

Indexed(t) == IndexesOf(t) \subseteq db.indexes
Complete == Served /\ \A t \in ToSet(ModelTables) : Indexed(t)

\* What of a set comes first in an order.
First(order, todo) ==
    order[CHOOSE i \in DOMAIN order :
            order[i] \in todo /\ \A j \in DOMAIN order : order[j] \in todo => i <= j]

(***************************************************************************)
(* The steps of one bootstrap.                                             *)
(***************************************************************************)
Idle == UNCHANGED <<deployment, starts, crashes>>

Go(p, pc) == proc' = [proc EXCEPT ![p].pc = pc]

Fails(p) == Go(p, "failed") /\ UNCHANGED db

CreateAll(p) == IF p = "migrate" THEN {} ELSE ToSet(ModelTables) \ db.tables

\* The missing tables are looked up once, before the first is created.
\* `avai migrate` runs Alembic only; in the desktop app the dashboard's
\* bootstrap ends before the monitor's begins.
Start(p) ==
    /\ proc[p].pc \in {"down", "ready", "failed"}
    /\ starts < deployment.starts
    /\ deployment.sequential =>
          /\ Others(p) = {}
          /\ p = "monitor" => proc["dashboard"].pc = "ready"
    /\ proc' = [q \in Procs |->
          IF q = p
          THEN [Down EXCEPT
                 !.pc = IF p = "migrate" THEN "tables" ELSE "create",
                 !.missing = CreateAll(p), !.todo = CreateAll(p),
                 !.alone = Others(p) = {}]
          ELSE IF q \in Others(p) THEN [proc[q] EXCEPT !.alone = FALSE]
          ELSE proc[q]]
    /\ db' = [db EXCEPT !.owner = IF @ = "nobody" THEN User(p) ELSE @]
    /\ starts' = starts + 1
    /\ UNCHANGED <<deployment, crashes>>

\* Slip: whoever made the table is left to finish the schema.
LoseRaceAndLeave(p) ==
    /\ proc' = [proc EXCEPT ![p].pc = "relax", ![p].todo = {}, ![p].left = {}]
    /\ UNCHANGED db

\* Another bootstrap made the table first: "already exists" is taken as
\* benign, and the rest of this create_all is not executed.
LoseRace(p) ==
    /\ proc' = [proc EXCEPT ![p].pc = "inspect", ![p].todo = {}, ![p].left = {}]
    /\ UNCHANGED db

CreateTable(p) ==
    /\ proc[p].pc = "create" /\ proc[p].todo # {}
    /\ LET t == First(ModelTables, proc[p].todo) IN
       \/ t \in db.tables /\ LoseRace(p)
       \/ t \notin db.tables /\ ~CanWrite(p) /\ Fails(p)
       \/ /\ t \notin db.tables /\ CanWrite(p)
          /\ db' = CreateFull(t)
          /\ proc' = IF IndexesOf(t) = {}
                     THEN [proc EXCEPT ![p].todo = @ \ {t}]
                     ELSE [proc EXCEPT ![p].pc = "create_index",
                                       ![p].left = IndexesOf(t)]
    /\ Idle

\* SQLAlchemy keeps the indexes of a table in a set: they come in any order,
\* and none says IF NOT EXISTS.
CreateIndex(p) ==
    /\ proc[p].pc = "create_index"
    /\ \E i \in proc[p].left :
       IF i \in db.indexes THEN LoseRace(p)
       ELSE /\ db' = [db EXCEPT !.indexes = @ \union {i}]
            /\ proc' = IF proc[p].left = {i}
                  THEN [proc EXCEPT ![p].pc = "create", ![p].left = {},
                          ![p].todo = @ \ {First(ModelTables, @)}]
                  ELSE [proc EXCEPT ![p].left = @ \ {i}]
    /\ Idle

CreateDone(p) ==
    /\ proc[p].pc = "create" /\ proc[p].todo = {}
    /\ Go(p, "inspect")
    /\ UNCHANGED db /\ Idle

\* Slip: the tables that are not there are looked at.
InspectMissing(p) ==
    /\ proc[p].pc = "inspect"
    /\ proc' = [proc EXCEPT ![p].pc = "columns", ![p].todo =
          {c \in ToSet(ModelColumns) : c[1] \notin db.tables}]
    /\ UNCHANGED db /\ Idle

\* Only tables that are live now are looked at.
Inspect(p) ==
    /\ proc[p].pc = "inspect"
    /\ proc' = [proc EXCEPT ![p].pc = "columns", ![p].todo =
          {c \in ToSet(ModelColumns) : c[1] \in db.tables /\ c \notin db.columns}]
    /\ UNCHANGED db /\ Idle

AddColumn(p) ==
    /\ proc[p].pc = "columns" /\ proc[p].todo # {}
    /\ LET c == First(ModelColumns, proc[p].todo) IN
       \/ /\ c \in db.columns
          /\ proc' = [proc EXCEPT ![p].todo = @ \ {c}]
          /\ UNCHANGED db
       \/ c \notin db.columns /\ ~CanWrite(p) /\ Fails(p)
       \/ /\ c \notin db.columns /\ CanWrite(p)
          /\ db' = [db EXCEPT !.columns = @ \union {c}]
          /\ proc' = [proc EXCEPT ![p].todo = @ \ {c}]
    /\ Idle

ColumnsDone(p) ==
    /\ proc[p].pc = "columns" /\ proc[p].todo = {}
    /\ Go(p, "tables")
    /\ UNCHANGED db /\ Idle

\* A file with tables that Alembic never saw is stamped first.
ReadTables(p) ==
    /\ proc[p].pc = "tables"
    /\ proc' = [proc EXCEPT ![p].pc = "heads", ![p].command =
          IF db.tables # {} /\ VersionTable \notin db.tables
          THEN "stamp" ELSE "upgrade"]
    /\ UNCHANGED db /\ Idle

\* Both Alembic commands read the rows of the version table first. Only if
\* there is none do they make sure of the table, by a look and a CREATE.
ReadHeads(p) ==
    /\ proc[p].pc = "heads"
    /\ proc' = [proc EXCEPT ![p].heads = db.versions,
                            ![p].pc = IF db.versions = {} THEN "look" ELSE "steps"]
    /\ UNCHANGED db /\ Idle

LookForVersions(p) ==
    /\ proc[p].pc = "look"
    /\ Go(p, IF VersionTable \in db.tables THEN "steps" ELSE "version_table")
    /\ UNCHANGED db /\ Idle

CreateVersions(p) ==
    /\ proc[p].pc = "version_table"
    /\ IF VersionTable \in db.tables \/ ~CanWrite(p) THEN Fails(p)
       ELSE /\ db' = [db EXCEPT !.tables = @ \union {VersionTable}]
            /\ Go(p, "steps")
    /\ Idle

\* A revision is recorded by an INSERT where no row was read, and otherwise in
\* place of the rows that were read. They must still be there, and the version
\* is the key of its row: it cannot be written twice.
Recordable(p, from, to) ==
    CanWrite(p) /\ from \subseteq db.versions /\ to \notin db.versions
Records(from, to) == db' = [db EXCEPT !.versions = (@ \ from) \union {to}]

Stamped(p) ==
    proc' = [proc EXCEPT ![p] = [@ EXCEPT !.pc = "heads", !.command = "upgrade", !.heads = {}]]
Planned(p, at) ==
    [proc EXCEPT ![p] = [@ EXCEPT !.pc = "upgrade", !.heads = {}, !.at = at, !.stmt = 1]]

\* Slip: the file is stamped with the newest revision.
StampHead(p) ==
    /\ proc[p].pc = "steps" /\ proc[p].command = "stamp"
    /\ IF Recordable(p, proc[p].heads, Latest)
       THEN Records(proc[p].heads, Latest) /\ Stamped(p)
       ELSE Fails(p)
    /\ Idle

\* Stamping puts the baseline in place of whatever version was read: nothing
\* is done if it was the baseline.
Stamp(p) ==
    /\ proc[p].pc = "steps" /\ proc[p].command = "stamp"
    /\ IF 1 \in proc[p].heads THEN UNCHANGED db /\ Stamped(p)
       ELSE IF Recordable(p, proc[p].heads, 1)
            THEN Records(proc[p].heads, 1) /\ Stamped(p)
            ELSE Fails(p)
    /\ Idle

\* Every later revision is planned from the version that was read; versions of
\* one line are refused.
PlanUpgrade(p) ==
    /\ proc[p].pc = "steps" /\ proc[p].command = "upgrade"
    /\ \/ /\ proc[p].heads = {}
          /\ proc' = Planned(p, 0) /\ UNCHANGED db
       \/ \E v \in proc[p].heads :
             IF proc[p].heads = {v} THEN proc' = Planned(p, v) /\ UNCHANGED db
             ELSE Fails(p)
    /\ Idle

Statements(p) == Revisions[proc[p].at + 1]
NextStatement(p) == Statements(p)[proc[p].stmt]
Pending(p) == proc[p].at < Latest /\ proc[p].stmt <= Len(Statements(p))
StatementDone(p) ==
    [proc EXCEPT ![p].pc = "upgrade", ![p].stmt = @ + 1]

\* Tables and indexes say IF NOT EXISTS; a column is looked up and added in
\* two statements, and a duplicate is an error here.
RunStatement(p) ==
    /\ proc[p].pc = "upgrade" /\ Pending(p)
    /\ LET s == NextStatement(p) IN
       \/ ~Possible(s) /\ Fails(p)
       \/ Possible(s) /\ Has(s) /\ proc' = StatementDone(p) /\ UNCHANGED db
       \/ /\ Possible(s) /\ ~Has(s) /\ s.do = "column"
          /\ Go(p, "alter") /\ UNCHANGED db
       \/ Possible(s) /\ ~Has(s) /\ s.do # "column" /\ ~CanWrite(p) /\ Fails(p)
       \/ /\ Possible(s) /\ ~Has(s) /\ s.do # "column" /\ CanWrite(p)
          /\ db' = Apply(s) /\ proc' = StatementDone(p)
    /\ Idle

AlterTable(p) ==
    /\ proc[p].pc = "alter"
    /\ IF Has(NextStatement(p)) \/ ~CanWrite(p) THEN Fails(p)
       ELSE db' = Apply(NextStatement(p)) /\ proc' = StatementDone(p)
    /\ Idle

\* The new version is written over the one the step started from, the baseline
\* in a row of its own; an update that matches no row is an error.
RecordVersion(p) ==
    LET from == {proc[p].at} \ {0} IN
    /\ proc[p].pc = "upgrade" /\ proc[p].at < Latest /\ ~Pending(p)
    /\ IF Recordable(p, from, proc[p].at + 1)
       THEN /\ Records(from, proc[p].at + 1)
            /\ proc' = [proc EXCEPT ![p].at = @ + 1, ![p].stmt = 1]
       ELSE Fails(p)
    /\ Idle

UpgradeDone(p) ==
    /\ proc[p].pc = "upgrade" /\ proc[p].at = Latest
    /\ Go(p, IF p = "migrate" THEN "ready" ELSE "relax")
    /\ UNCHANGED db /\ Idle

\* Only the owner may change the mode; anyone else is ignored.
Relax(p) ==
    /\ proc[p].pc = "relax"
    /\ db' = [db EXCEPT !.shared = @ \/ Owns(p)]
    /\ Go(p, "ready")
    /\ Idle

Crash(p) ==
    /\ proc[p].pc \in Working
    /\ crashes < MaxCrashes
    /\ proc' = [proc EXCEPT ![p] = Down]
    /\ crashes' = crashes + 1
    /\ UNCHANGED <<db, deployment, starts>>

Bootstrap(p) ==
    \/ Start(p) \/ CreateTable(p) \/ CreateIndex(p) \/ CreateDone(p)
    \/ Inspect(p) \/ AddColumn(p) \/ ColumnsDone(p)
    \/ ReadTables(p) \/ ReadHeads(p) \/ LookForVersions(p) \/ CreateVersions(p)
    \/ Stamp(p) \/ PlanUpgrade(p)
    \/ RunStatement(p) \/ AlterTable(p) \/ RecordVersion(p)
    \/ UpgradeDone(p) \/ Relax(p) \/ Crash(p)

SchemaInit ==
    /\ \E i \in Instances : deployment = i.deployment /\ db = i.db
    /\ proc = [p \in Procs |-> Down]
    /\ starts = 0 /\ crashes = 0

SchemaNext == \E p \in DOMAIN deployment.user : Bootstrap(p)
SchemaSpec == SchemaInit /\ [][SchemaNext]_schemaVars

(***************************************************************************)
(* Properties.                                                             *)
(***************************************************************************)
\* The recorded version never promises a revision whose statements are not
\* all in the file, whatever was killed or overtaken in between: the next
\* start may skip what the version says is done.
VersionIsEarned == \A v \in db.versions : DoneUpTo(v, db)

\* A start of the monitor or the dashboard that nobody overlaps ends with every
\* table, column and revision in place, on a fresh file, on one an older build
\* left, and on one a bootstrap died in, and with every index of the tables it
\* found missing. (Not of those it found: create_all passes over a table that
\* is there, and only the indexes of the revisions come back.) If it fails, the
\* file is another user's, or an earlier race has left two rows of version.
AloneCompletes ==
    \A p \in DOMAIN deployment.user \ {"migrate"} : proc[p].alone =>
        /\ proc[p].pc = "ready" => Served /\ \A t \in proc[p].missing : Indexed(t)
        /\ proc[p].pc = "failed" /\ Owns(p) => \E v, w \in db.versions : v # w

\* Whoever reports success, even after losing a race, serves a file in
\* which every revision's tables, columns and indexes exist.
ReadyHasRevisions ==
    \A p \in DOMAIN deployment.user :
        proc[p].pc = "ready" => DoneUpTo(Latest, db)

\* DdlRace's claim: the resulting schema is identical either way, so the
\* loser can safely continue.
RaceIsBenign ==
    (\A p \in DOMAIN deployment.user : proc[p].pc = "ready") => Complete
=============================================================================
