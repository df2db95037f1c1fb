---------------------------- MODULE TextParsers ----------------------------
(* The parsers of tool and file output (net_collectors.py,                   *)
(* exposure_collectors.py, persistence_collectors.py and the Windows ones):  *)
(* from the lines or objects of one text to the rows of a snapshot.          *)
(* Each parser maps a sequence of entries to a sequence of rows; Skip and    *)
(* Crash stand for a line it passes over and a line it raises on.            *)
EXTENDS HostSources

IncompleteMac == "(incomplete)"
Address(mac) == IF mac = IncompleteMac THEN None ELSE mac

-----------------------------------------------------------------------------
(* Neighbours, routes and resolvers                                          *)

MacosArpRow(line) ==
  CASE ~Has(line, {"ip", "at", "on"}) -> Skip
    [] line["at"] = Cut -> Crash
    [] OTHER -> [ip |-> line["ip"], mac |-> Address(line["at"]),
                 interface |-> IF line["on"] = Cut THEN None ELSE line["on"],
                 flags |-> Get(line, "flags")]
MacosArp(lines) == EachEntry(MacosArpRow, lines)

\* The state column, or the expiry column where a line ends before it
MacosNdpRow(line) ==
  IF Has(line, {"header"}) \/ ~Has(line, {"ip", "mac", "interface"}) THEN Skip
  ELSE [ip |-> line["ip"], mac |-> Address(line["mac"]), interface |-> line["interface"],
        state |-> IF "state" \in DOMAIN line THEN line["state"] ELSE Get(line, "expire")]
\* Slip: the first line that is no neighbour ends the table
MacosNdpSlip(lines) ==
  [i \in DOMAIN lines |-> IF \E j \in 1..i : MacosNdpRow(lines[j]) = Skip THEN Skip
                          ELSE MacosNdpRow(lines[i])]
MacosNdp(lines) == EachEntry(MacosNdpRow, lines)

\* Gateways with a dot or a colon that are not hardware addresses
NextHops == {"10.0.0.1", "fe80::1"}
RouteColumns == {"destination", "gateway", "flags", "interface"}

MacosRouteRow(line) ==
  IF /\ Has(line, RouteColumns)
     /\ line["destination"] = "default" \/ line["gateway"] \in NextHops
  THEN Pick(line, RouteColumns)
  ELSE Skip

\* Only the lines under a heading of their own section are routes
MacosRoutes(lines) ==
  LET Blank(i) == Has(lines[i], {"blank"})
      Headed(i) == \E j \in 1..(i - 1) : /\ Has(lines[j], {"header"})
                                         /\ ~\E k \in j..i : Blank(k)
  IN  [i \in DOMAIN lines |-> IF Headed(i) THEN MacosRouteRow(lines[i]) ELSE Skip]

\* One block of scutil --dns: a resolver with its server, searches, interface
MacosDnsRow(block) ==
  CASE \E name \in {"server", "search"} : Get(block, name) = Cut -> Crash
    [] ~Has(block, {"server"}) -> Skip
    [] OTHER -> [server |-> block["server"], scope |-> Get(block, "scope"),
                 search |-> Get(block, "search"), interface |-> Get(block, "interface")]
MacosDns(blocks) == EachEntry(MacosDnsRow, blocks)

\* KeywordTokens.after: the word behind a keyword, an IndexError at the end
Dangling(line, keywords) == \E name \in keywords : Get(line, name) = Cut

\* ip neigh: an address, keyword pairs, and the state as the last word
NeighWords(line) ==
  LET Length(name) ==
        IF name \notin DOMAIN line THEN 0 ELSE IF line[name] = Cut THEN 1 ELSE 2
  IN  1 + Length("dev") + Length("lladdr") + (IF "state" \in DOMAIN line THEN 1 ELSE 0)
LastWord(line) ==
  CASE "state" \in DOMAIN line -> line["state"]
    [] "lladdr" \in DOMAIN line -> line["lladdr"]
    [] OTHER -> Get(line, "dev")
IpNeighRow(line, stateKey) ==
  CASE NeighWords(line) < 3 -> Skip
    [] Dangling(line, {"lladdr", "dev"}) -> Crash
    [] OTHER -> [name \in {"ip", "mac", "interface", stateKey} |->
                   CASE name = "ip" -> line["ip"]
                     [] name = "mac" -> Get(line, "lladdr")
                     [] name = "interface" -> Get(line, "dev")
                     [] OTHER -> LastWord(line)]
IpNeigh(lines, stateKey) == EachEntry(LAMBDA line : IpNeighRow(line, stateKey), lines)

IpRouteRow(line) ==
  CASE ~Has(line, {"destination"}) -> Skip
    [] Dangling(line, {"via", "dev", "proto"}) -> Crash
    [] line["destination"] # "default" /\ ~Has(line, {"via"}) -> Skip
    [] OTHER -> [destination |-> line["destination"], gateway |-> Get(line, "via"),
                 interface |-> Get(line, "dev"), flags |-> Get(line, "proto")]
IpRoutes(lines) == EachEntry(IpRouteRow, lines)

\* resolv.conf: every server is given all the search words of the file
ResolvConf(lines) ==
  LET Live(i) == ~Has(lines[i], {"comment"})
      searches == {lines[i]["search"] : i \in {j \in DOMAIN lines :
                                                 Live(j) /\ Has(lines[j], {"search"})}}
      Row(i) == IF Live(i) /\ Get(lines[i], "server") \notin {None, Cut}
                THEN [server |-> lines[i]["server"], scope |-> "resolv.conf",
                      search |-> searches, interface |-> None]
                ELSE Skip
  IN  [i \in DOMAIN lines |-> Row(i)]

PsNeighbor(objects, stateKey) ==
  LET Row(o) == [name \in {"ip", "mac", "interface", stateKey} |->
                   CASE name = "ip" -> Get(o, "IPAddress")
                     [] name = "mac" -> Get(o, "LinkLayerAddress")
                     [] name = "interface" -> Get(o, "InterfaceAlias")
                     [] OTHER -> Get(o, "State")]
  IN  Objects(Row, objects)

PsRoute(objects) ==
  LET Kept(o) == \/ Get(o, "DestinationPrefix") \in {"0.0.0.0/0", "::/0"}
                 \/ Get(o, "NextHop") \notin {None, "0.0.0.0", "::"}
      Row(o) == IF Kept(o)
                THEN [destination |-> Get(o, "DestinationPrefix"),
                      gateway |-> Get(o, "NextHop"),
                      interface |-> Get(o, "InterfaceAlias"),
                      flags |-> Get(o, "RouteMetric")]
                ELSE Skip
  IN  Objects(Row, objects)

PsDns(objects) ==
  LET Row(o) == IF Has(o, {"ServerAddresses"})
                THEN [server |-> o["ServerAddresses"], scope |-> "dns-client",
                      search |-> None, interface |-> Get(o, "InterfaceAlias")]
                ELSE Skip
  IN  Objects(Row, objects)

-----------------------------------------------------------------------------
(* Exposure: sessions, proxies, shares, promiscuous interfaces, roots        *)

WhoRow(line) ==
  IF Has(line, {"user", "tty"})
  THEN [user |-> line["user"], tty |-> line["tty"],
        source |-> IF "source" \in DOMAIN line THEN line["source"] ELSE "local"]
  ELSE Skip
Who(lines) == EachEntry(WhoRow, lines)

\* scutil --proxy: the keys of one proxy type, or of the PAC setting
MacosProxyRow(keys) ==
  CASE Get(keys, "enable") # "1" -> Skip
    [] Get(keys, "kind") = "pac" ->
         [scope |-> "pac", host |-> None, port |-> None, pac_url |-> Get(keys, "url")]
    [] OTHER -> [scope |-> Get(keys, "kind"), host |-> Get(keys, "host"),
                 port |-> Get(keys, "port"), pac_url |-> None]
MacosProxy(settings) == EachEntry(MacosProxyRow, settings)

NetFilesystems == {"smbfs", "nfs", "nfs4", "afpfs", "webdav", "cifs", "ftp"}
ShareFields == {"remote", "mountpoint", "fstype"}
ShareRow(line) ==
  IF Has(line, ShareFields) /\ Get(line, "fstype") \in NetFilesystems
  THEN Pick(line, ShareFields) ELSE Skip
MacosMountShares(lines) == EachEntry(ShareRow, lines)
ProcMountsShares(lines) == EachEntry(ShareRow, lines)

\* The flag words between < and >
Promiscuous == {"UP,PROMISC"}
PromiscRow(interface, flags) ==
  [interface |-> interface, flags |-> flags,
   promiscuous |-> IF flags \in Promiscuous THEN 1 ELSE 0]
MacosPromiscRow(line) ==
  CASE ~Has(line, {"interface"}) -> Skip
    [] Get(line, "flags") = Cut -> Crash
    [] OTHER -> PromiscRow(line["interface"],
                           IF "flags" \in DOMAIN line THEN line["flags"] ELSE "")
MacosPromisc(lines) == EachEntry(MacosPromiscRow, lines)
LinuxPromiscRow(line) ==
  IF Has(line, {"index", "interface", "flags"}) /\ line["flags"] # Cut
  THEN PromiscRow(line["interface"], line["flags"]) ELSE Skip
LinuxPromisc(lines) == EachEntry(LinuxPromiscRow, lines)

\* security find-certificate prints a hash line, then the attributes with the
\* label: a label takes the last hash that no label has taken
MacosCert(certs) ==
  LET Offers(j, i) == /\ "hash" \in DOMAIN certs[j]
                      /\ \A k \in j..(i - 1) : "label" \notin DOMAIN certs[k]
      Pending(i) == {j \in 1..i : Offers(j, i)}
      Row(i) ==
        IF "label" \in DOMAIN certs[i] /\ Pending(i) # {}
        THEN LET last == CHOOSE j \in Pending(i) : \A k \in Pending(i) : k <= j
             IN  [subject |-> certs[i]["label"], fingerprint |-> certs[last]["hash"]]
        ELSE Skip
  IN  [i \in DOMAIN certs |-> Row(i)]

ProxyVariables == {"http_proxy", "https_proxy", "ftp_proxy", "all_proxy"}
LinuxProxyEnvRow(line) ==
  IF Has(line, {"comment"}) \/ Get(line, "name") \notin ProxyVariables \/ ~Has(line, {"value"})
  THEN Skip
  ELSE [scope |-> line["name"], host |-> line["value"], port |-> None, pac_url |-> None]
LinuxProxyEnv(lines) == EachEntry(LinuxProxyEnvRow, lines)

LinuxTrustListRow(line) ==
  CASE ~Has(line, {"label"}) -> Skip
    [] OTHER -> [subject |-> line["label"], fingerprint |-> None]
LinuxTrustList(lines) == EachEntry(LinuxTrustListRow, lines)

WindowsProxy(objects) ==
  LET Row(o) ==
        CASE Has(o, {"ProxyEnable"}) ->
               [scope |-> "winhttp", host |-> Get(o, "host"), port |-> Get(o, "port"),
                pac_url |-> Get(o, "AutoConfigURL")]
          [] Has(o, {"AutoConfigURL"}) ->
               [scope |-> "pac", host |-> None, port |-> None, pac_url |-> o["AutoConfigURL"]]
          [] OTHER -> Skip
  IN  Objects(Row, objects)

\* query user prints a heading first
WindowsSessionRow(line) ==
  IF Has(line, {"header"}) \/ ~Has(line, {"user", "tty"}) THEN Skip
  ELSE [user |-> line["user"], tty |-> line["tty"], source |-> "local"]
WindowsSession(lines) == EachEntry(WindowsSessionRow, lines)

WindowsShares(objects) ==
  LET Row(o) == [remote |-> <<Get(o, "ServerName"), Get(o, "ShareName")>>,
                 mountpoint |-> Get(o, "ShareName"), fstype |-> "smb"]
  IN  Objects(Row, objects)

WindowsCert(objects) ==
  LET Row(o) == [subject |-> Get(o, "Subject"), fingerprint |-> Get(o, "Thumbprint")]
  IN  Objects(Row, objects)

-----------------------------------------------------------------------------
(* Persistence: known hosts, injected libraries, kernel modules              *)

KnownKeyTypes == {"ssh-rsa", "ssh-ed25519"}
\* Digest.ssh_fingerprint: a key that is not base64 has none
Fingerprint(key) == IF key = "not-base64" THEN None ELSE key

KnownHostsRow(line) ==
  IF \/ Has(line, {"comment"}) \/ ~Has(line, {"host", "key_type", "key"})
     \/ Get(line, "key_type") \notin KnownKeyTypes
  THEN Skip
  ELSE [host |-> line["host"], key_type |-> line["key_type"],
        fingerprint |-> Fingerprint(line["key"])]

EnvValue(lines, variable, scope) ==
  EachEntry(LAMBDA line : IF Has(line, {"value"})
                          THEN [scope |-> scope, variable |-> variable, value |-> line["value"]]
                          ELSE Skip, lines)

LdSoPreload(lines) ==
  EachEntry(LAMBDA line : IF Has(line, {"comment"}) \/ ~Has(line, {"library"}) THEN Skip
                          ELSE [scope |-> "ld.so.preload", variable |-> "LD_PRELOAD",
                                value |-> line["library"]], lines)

WindowsAppInit(objects) ==
  LET Row(o) == IF Has(o, {"AppInit_DLLs"})
                THEN [scope |-> "AppInit_DLLs", variable |-> "AppInit_DLLs",
                      value |-> o["AppInit_DLLs"]]
                ELSE Skip
  IN  Objects(Row, objects)

ProcModules(lines) ==
  EachEntry(LAMBDA line : IF Has(line, {"name", "size", "refcount", "used_by"})
                          THEN [name |-> line["name"], size |-> line["size"],
                                used_by |-> IF line["used_by"] = "-" THEN None
                                            ELSE line["used_by"]]
                          ELSE Skip, lines)

WindowsDriver(lines) ==
  EachEntry(LAMBDA line : IF Has(line, {"header"}) \/ ~Has(line, {"name", "display"}) THEN Skip
                          ELSE [name |-> line["name"], size |-> None,
                                used_by |-> line["display"]], lines)

-----------------------------------------------------------------------------
(* Windows tools                                                             *)

\* net localgroup: the names between the rule and the footer are one row
LocalGroup(lines) ==
  LET Starts == {i \in DOMAIN lines : Has(lines[i], {"rule"})}
      start == CHOOSE i \in Starts : \A j \in Starts : i <= j
      Body(i) == i > start /\ ~\E k \in (start + 1)..i : Has(lines[k], {"footer"})
      members == IF Starts = {} THEN {}
                 ELSE {lines[i]["member"] : i \in {j \in DOMAIN lines :
                                                     Body(j) /\ Has(lines[j], {"member"})}}
  IN  IF members = {} THEN <<>>
      ELSE <<[kind |-> "group", subject |-> "Administrators", detail |-> members]>>

RunKeyRow(item) ==
  [scope |-> "registry_run", label |-> Get(item, "name"), program |-> Get(item, "command"),
   schedule |-> "run_at_load"]

\* Nine columns, the second the task and the ninth its command
SchtasksRow(line) ==
  IF Has(line, {"header"}) \/ ~Has(line, {"task", "command"}) \/ Get(line, "task") = "" THEN Skip
  ELSE [scope |-> "scheduled_task", label |-> line["task"], program |-> line["command"],
        schedule |-> None]

WindowsAppRow(item) ==
  [bundle_id |-> Get(item, "PSChildName"), name |-> Get(item, "DisplayName"),
   path |-> Get(item, "InstallLocation")]

UsbPnpRow(item) ==
  [name |-> Get(item, "FriendlyName"), vendor_id |-> Get(item, "VID_"),
   product_id |-> Get(item, "PID_"), manufacturer |-> Get(item, "Manufacturer")]

BluetoothPnpRow(item) ==
  [name |-> Get(item, "FriendlyName"), address |-> Get(item, "DEV_"), minor_type |-> None]

\* netsh wlan: blocks of "key : value" lines, kept when they name an interface
NetshWlanRow(block) ==
  IF Has(block, {"name"})
  THEN [ssid |-> Get(block, "ssid"), bssid |-> Get(block, "bssid"),
        security |-> Get(block, "authentication")]
  ELSE Skip

\* A signal the script could not read is reported as off
SecurityPostureRow(payload) ==
  LET On(name, words) == IF Get(payload, name) \in words THEN 1 ELSE 0
  IN  [filevault_active |-> On("bitlocker", {"1", "On"}),
       firewall_global_state |-> On("firewall", {"true", "1", "on"}),
       gatekeeper_assessments_enabled |->
         IF On("realtime", {"true", "1", "on"}) = 1 \/ Get(payload, "secureboot") = "true"
         THEN 1 ELSE 0,
       remote_login_enabled |-> On("rdp_deny", {"0"}),
       screen_sharing_enabled |-> On("rdp_deny", {"0"}),
       remote_management_enabled |-> On("winrm", {"running"})]
=============================================================================
