------------------------------- MODULE Launch -------------------------------
(***************************************************************************)
(* Starting the product: the bootstrap every process runs, and what the    *)
(* dashboard does once its schema is in place: tell whether avai.local     *)
(* reaches it, bind its port, serve.                                       *)
(***************************************************************************)
EXTENDS SchemaBootstrap, HostsFile

VARIABLES
    server      \* "off", "notice", "binding", "serving", "refused"

launchVars == <<schemaVars, hostsVars, server>>

\* The hosts file is exercised in the deployments that say so, while a
\* dashboard is up: it shares no state with the bootstrap before that.
WithHosts == deployment.hosts /\ proc["dashboard"].pc = "ready"

\* avai dashboard: schema first, then the hosts notice, then the port.
BeginServing ==
    /\ WithHosts /\ server = "off"
    /\ Ask("dashboard", "ensure", Dashboard)
    /\ server' = "notice"
    /\ UNCHANGED schemaVars

\* HostsError is quiet; what escapes it ends the dashboard.
HostsNotice ==
    /\ server = "notice" /\ actor["dashboard"].pc = "rest"
    /\ server' = IF actor["dashboard"].outcome = "crash" THEN "crashed" ELSE "binding"
    /\ UNCHANGED <<schemaVars, hostsVars>>

Bind ==
    /\ server = "binding"
    /\ server' \in {"serving", "refused"}
    /\ UNCHANGED <<schemaVars, hostsVars>>

\* A relaunch finds the schema complete, so only its later steps are taken.
Quit ==
    /\ server \in {"serving", "refused", "crashed"}
    /\ server' = "off"
    /\ UNCHANGED <<schemaVars, hostsVars>>

HostsCommand ==
    /\ WithHosts
    /\ \E do \in {"install", "remove"} : \E name \in {Dashboard, "other"} :
          Ask("command", do, name)
    /\ UNCHANGED <<schemaVars, server>>

HostsActivity ==
    /\ WithHosts
    /\ UserEdits \/ \E a \in DOMAIN actor : HostsStep(a)
    /\ UNCHANGED <<schemaVars, server>>

Bootstraps ==
    /\ server = "off" /\ commands = 0
    /\ SchemaNext
    /\ UNCHANGED <<hostsVars, server>>

LaunchInit ==
    /\ SchemaInit /\ HostsInit
    /\ server = "off"
    /\ ~deployment.hosts => hosts = <<>> /\ access = [read |-> "ok", write |-> "ok"]

LaunchNext ==
    \/ Bootstraps \/ BeginServing \/ HostsNotice \/ Bind \/ Quit
    \/ HostsCommand \/ HostsActivity

LaunchSpec == LaunchInit /\ [][LaunchNext]_launchVars
=============================================================================
