------------------------------ MODULE MCLaunch ------------------------------
(***************************************************************************)
(* Instances of the bootstrap: a database from before Alembic and one from *)
(* a build in the middle of the revisions.                                 *)
(***************************************************************************)
EXTENDS Launch

Without(names) == ToSet(ModelTables) \ names

OldFile(tables, unindexed, columns, versions, owner) ==
    [tables |-> tables, columns |-> columns, versions |-> versions,
     indexes |-> UNION {IndexesOf(t) : t \in tables \ (unindexed \union {VersionTable})},
     owner |-> owner, shared |-> FALSE]

\* Tables but no version table; the judgements index came later.
BeforeAlembic ==
    OldFile(Without({"feedback", "control_state", "log_entries",
                     "ssh_known_hosts"}),
            {"judgements"}, {<<"file_scan", "meta_json">>}, {}, "alice")

\* Created by the build whose last revision was the fifth.
FifthRevision ==
    OldFile(Without({"yara_status", "yara_rule", "yara_coverage",
                     "feedback", "log_entries"}) \union {VersionTable},
            {}, {<<"judgements", "novel">>}, {5}, "root")

\* Killed at the end of create_all, before the stamp.
Unstamped == OldFile(Without({"ssh_known_hosts"}), {}, ToSet(ModelColumns), {}, "alice")

\* A first create_all killed in the middle.
Begun == OldFile(ToSet(CycleTables \o StateTables \o HostTables \o EventTables),
                 {"file_scan"}, ToSet(ModelColumns), {}, "root")

Deployment(users, sequential, hasHosts, n) ==
    [user |-> users, sequential |-> sequential, hosts |-> hasHosts, starts |-> n]

RootMonitor(n) ==
    Deployment([monitor |-> "root", dashboard |-> "alice"], FALSE, FALSE, n)
Desktop ==
    Deployment([p \in {"monitor", "dashboard"} |-> "alice"], TRUE, FALSE, 3)
WithMigrate ==
    Deployment([p \in {"dashboard", "migrate"} |-> "alice"], FALSE, FALSE, 2)
DashboardOnly == Deployment([dashboard |-> "alice"], FALSE, TRUE, 1)

On(deployments, files) ==
    {[deployment |-> d, db |-> f] : d \in deployments, f \in files}

MCInstances ==
    On({Desktop, WithMigrate}, {Fresh, BeforeAlembic, FifthRevision})
    \union On({RootMonitor(2)}, {Begun, BeforeAlembic, FifthRevision})
    \union On({RootMonitor(3)}, {Unstamped})
    \union On({DashboardOnly}, {Fresh})
RaceInstances == On({RootMonitor(2)}, {BeforeAlembic})

Own == Entry("v4", "localhost")
Mine == Entry("v4", Dashboard)
Other == Entry("v4", "other")

MCHostsFiles == {<<>>, <<Own, Mine>>, <<Own, Begin, Note, Other, End>>,
                 <<Begin, Note, Mine, End, Own>>, <<End, Own>>,
                 <<Begin, Note, Mine, End, Begin, Note, Other, End>>}
MCAccesses == {[read |-> "ok", write |-> w] : w \in {"ok", "denied", "busy"}}
                \union {[read |-> "refused", write |-> "ok"]}
MCUserLines == {Mine}
=============================================================================
