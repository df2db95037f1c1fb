-------------------------- MODULE HostCollectors --------------------------
(* The snapshot collectors that do more than parse one text                  *)
(* (host_monitor/collectors, hosts/windows_collectors.py): what each one     *)
(* returns when it starts in the world `before` and its later reads find the *)
(* world `after`. A collector that reads once reads `after`; one that reads  *)
(* an entry word by word reads some words before and some after.             *)
EXTENDS TextParsers, TLC

CONSTANTS
  MaxFlows,     \* NetworkFlowsCollector.MAX_FLOWS
  MaxQueries,   \* DnsQueriesCollector.MAX_QUERIES
  MaxFiles,     \* constants.YARA_MAX_FILES_PER_CYCLE
  WatchedFiles  \* constants.WATCHED_FILES, the same in every cycle

ASSUME CapsAreNatural == {MaxFlows, MaxQueries, MaxFiles} \subseteq Nat

\* A collector with several sources: an entry belongs to the one whose word it
\* has, and is nothing to the others.
From(name, Row(_), entry) == IF name \in DOMAIN entry THEN Row(entry) ELSE Skip
EachFrom(name, Row(_), entries) ==
  EachEntry(LAMBDA entry : From(name, Row, entry), entries)
OfKind(name, file) == IF name \in DOMAIN file THEN file ELSE Gone

-----------------------------------------------------------------------------
(* Launch items, keys, hosts file and privileges (persistence.py)            *)

\* The schedule stands for the argument, account and schedule columns
LaunchFields == {"scope", "label", "program", "schedule"}
\* Slip: the program is taken when the directory is listed, the rest later
LaunchItemsSlip(before, after) ==
  Walk(before, after, LAMBDA listed, file :
    IF Readable(file) THEN [Pick(file, LaunchFields) EXCEPT !["program"] = Get(listed, "program")]
    ELSE Skip)
LaunchItems(before, after) ==
  Walk(before, after, LAMBDA listed, file :
    IF Readable(file) THEN Pick(file, LaunchFields) ELSE Skip)

\* SystemdUnit.row: an empty unit file is a row with nothing but its label
UnitRow(scope, name, unit) ==
  [scope |-> scope, label |-> name, program |-> Get(unit, "program"),
   schedule |-> Get(unit, "schedule")]

\* The first unit of a name in directory order hides the others of that name,
\* before it is read
SystemdUnits(before, after) ==
  LET units == before.entries
      Unit(i) == "name" \in DOMAIN units[i]
      Seen(i) == \E j \in 1..(i - 1) : Unit(j) /\ units[j]["name"] = units[i]["name"]
      Row(i) == IF ~Unit(i) \/ Seen(i) THEN Skip
                ELSE Ini(OfKind("name", Later(units[i], after)),
                         LAMBDA file : UnitRow(units[i]["scope"], units[i]["name"], file))
  IN  IF before.place # "ok" THEN Nothing
      ELSE Outcome([i \in DOMAIN units |-> Row(i)])

\* CronJob.parse: a system crontab has a user column, a user's has an owner
CronRow(line, lineno) ==
  IF \/ Has(line, {"comment"}) \/ Has(line, {"assignment"})
     \/ ~Has(line, {"cron", "program"}) \/ ~(Has(line, {"user"}) \/ Has(line, {"owner"}))
  THEN Skip
  ELSE [scope |-> "crontab", label |-> ToString(lineno), program |-> line["program"],
        schedule |-> line["cron"]]
\* The label of a job carries its line number
Crontabs(world) ==
  LET Line(lines, i) == "line" \in DOMAIN lines[i]
      Row(lines, i) == IF Line(lines, i)
                       THEN CronRow(lines[i], Cardinality({j \in 1..i : Line(lines, j)}))
                       ELSE Skip
  IN  FileSnapshot(world, LAMBDA lines : [i \in DOMAIN lines |-> Row(lines, i)])

LinuxLaunchItems(before, after) == Both(SystemdUnits(before, after), Crontabs(after))

WindowsLaunchItems(before, after) ==
  Both(PowerShell(before, LAMBDA item : From("command", RunKeyRow, item)),
       Outcome(EachFrom("line", SchtasksRow, Text(after))))

\* AuthorizedKeysParser: the key type may follow options
AuthorizedKeyRow(line) ==
  IF \/ Has(line, {"comment"}) \/ Has(line, {"locked"})
     \/ Get(line, "key_type") \notin KnownKeyTypes \/ ~Has(line, {"key"})
  THEN Skip
  ELSE [path |-> Get(line, "path"), owner |-> Get(line, "owner"),
        key_type |-> line["key_type"], fingerprint |-> Fingerprint(line["key"])]
SshAuthorizedKeys(world) ==
  FileSnapshot(world, LAMBDA lines : EachEntry(AuthorizedKeyRow, lines))

\* The known_hosts of every home that can be read
SshKnownHosts(world) ==
  FileSnapshot(world, LAMBDA lines : EachEntry(
    LAMBDA line : IF Has(line, {"locked"}) THEN Skip ELSE KnownHostsRow(line), lines))

HostsFileRow(line) ==
  IF Has(line, {"ip", "hostnames"}) THEN Pick(line, {"ip", "hostnames"}) ELSE Skip
HostsFileRows(world) ==
  FileSnapshot(world, LAMBDA lines : EachEntry(HostsFileRow, lines))

PrivilegeRow(kind, subject, detail) == [kind |-> kind, subject |-> subject, detail |-> detail]
SudoersRow(line) ==
  IF Has(line, {"rule", "subject"}) /\ ~Has(line, {"directive"}) /\ ~Has(line, {"locked"})
  THEN PrivilegeRow("sudoers", line["subject"], line["rule"]) ELSE Skip
Sudoers(world) == FileSnapshot(world, LAMBDA lines : EachEntry(SudoersRow, lines))

\* /etc/group and /etc/passwd (LinuxPrivilegedAccounts)
LinuxAccountRow(line) ==
  CASE Has(line, {"group", "members"}) /\ Get(line, "group") \in {"sudo", "wheel", "admin"} ->
         PrivilegeRow("group", line["group"], line["members"])
    [] Has(line, {"account", "uid"}) /\ Get(line, "uid") = "0" ->
         PrivilegeRow("account", line["account"], "uid=0")
    [] OTHER -> Skip
LinuxAccounts(world) == FileSnapshot(world, LAMBDA lines : EachEntry(LinuxAccountRow, lines))

\* dscl (MacOSPrivilegedAccounts): a tool that fails is a group with nobody in it
MacosAccountRow(line) ==
  CASE Has(line, {"group", "members"}) /\ Get(line, "group") \in {"admin", "wheel"} ->
         PrivilegeRow("group", line["group"], line["members"])
    [] Has(line, {"account", "uid"}) /\ Get(line, "uid") = "0" ->
         PrivilegeRow("account", line["account"], "uid=0")
    [] OTHER -> Skip
MacosAccounts(world) == Outcome(EachEntry(MacosAccountRow, Text(world)))

WindowsAccounts(world) == Outcome(LocalGroup(Text(world)))

PrivilegeConfig(world, accounts) == Both(Sudoers(world), accounts)

-----------------------------------------------------------------------------
(* Sockets and captured packets (network.py, runtime/probes.py)              *)

\* PsutilConnections.visible: without root, only the sockets of the processes
\* this user may inspect
Visible(socket, world) == world.tool = "ok" \/ ~Has(socket, {"foreign"})

NetworkConnections(world) ==
  Outcome(EachEntry(LAMBDA socket :
    IF Has(socket, {"status"}) /\ Visible(socket, world)
    THEN Pick(socket, {"raddr_ip", "raddr_port", "status"}) ELSE Skip, world.entries))

\* The process that has the pid when it is asked for its name
ProcessName(pid, world) ==
  LET named == {i \in DOMAIN world.entries : /\ Get(world.entries[i], "pid") = pid
                                              /\ Has(world.entries[i], {"process_name"})}
  IN  IF pid = None \/ named = {} THEN None
      ELSE world.entries[CHOOSE i \in named : TRUE]["process_name"]

\* The sockets are listed first, and their processes asked for their names then
ListeningPorts(before, after) ==
  LET Row(socket) ==
        IF Get(socket, "status") # "LISTEN" \/ ~Visible(socket, before) THEN Skip
        ELSE [process_name |-> ProcessName(Get(socket, "pid"), after),
              laddr |-> Get(socket, "laddr")]
  IN  Outcome(EachEntry(Row, before.entries))

\* The first Limit of the ranked keys: most counted first, then first met
Ranked(keys, Count(_), First(_), limit) ==
  LET Ahead(one, other) == \/ Count(one) > Count(other)
                           \/ Count(one) = Count(other) /\ First(one) < First(other)
  IN  {key \in keys : Cardinality({other \in keys : Ahead(other, key)}) < limit}

Positions(sequence, value) == {i \in DOMAIN sequence : sequence[i] = value}
Least(positions) == CHOOSE i \in positions : \A j \in positions : i <= j

\* TcpdumpLine.flow and FlowTable.aggregate: a packet without an interface of
\* its own is on the one tcpdump listens on
FlowFields == {"iface", "proto", "dst_ip", "dst_port"}
FlowOf(packet) ==
  IF ~Has(packet, {"dst_ip", "dst_port"}) THEN Skip
  ELSE [iface |-> IF "iface" \in DOMAIN packet THEN packet["iface"] ELSE "en0",
        proto |-> IF "proto" \in DOMAIN packet THEN packet["proto"] ELSE "ip",
        dst_ip |-> packet["dst_ip"], dst_port |-> packet["dst_port"]]

\* The binary is looked up, and not there any more when it is run: both raise
CaptureFails(before, after) == "missing" \in {before.tool, after.tool}

\* Slip: the capture runs without looking for the binary first
NetworkFlowsSlip(before, after) ==
  LET flows == EachEntry(FlowOf, after.entries)
      keys == {flows[i] : i \in DOMAIN flows} \ {Skip}
  IN  [failed |-> FALSE,
       rows |-> IF after.tool # "ok" THEN {}
                ELSE Ranked(keys, LAMBDA key : Cardinality(Positions(flows, key)),
                            LAMBDA key : Least(Positions(flows, key)), MaxFlows)]
\* TcpdumpCapture.record keeps what was captured before a timeout
NetworkFlows(before, after) ==
  LET flows == EachEntry(FlowOf, after.entries)
      keys == {flows[i] : i \in DOMAIN flows} \ {Skip}
  IN  IF CaptureFails(before, after) THEN Failed
      ELSE [failed |-> FALSE,
            rows |-> Ranked(keys, LAMBDA key : Cardinality(Positions(flows, key)),
                            LAMBDA key : Least(Positions(flows, key)), MaxFlows)]

QuestionOf(packet) ==
  IF ~Has(packet, {"qname", "server_ip"}) THEN Skip
  ELSE Pick(packet, {"qname", "qtype", "server_ip"})
DohResolvers == {"1.1.1.1", "8.8.8.8"}
DohRow(socket) ==
  IF /\ Get(socket, "raddr_port") = "443" /\ Get(socket, "raddr_ip") \in DohResolvers
     /\ Has(socket, {"pid"})
  THEN [qname |-> "doh", qtype |-> "DoH", server_ip |-> socket["raddr_ip"]]
  ELSE Skip

\* The encrypted resolvers of the connection table come behind the questions
\* of as many packets, and are counted once
DnsQueries(before, after) ==
  LET asked == EachFrom("packet", QuestionOf, after.entries)
      doh == EachFrom("status", DohRow, after.entries)
      both == asked \o doh
      questions == {asked[i] : i \in DOMAIN asked} \ {Skip}
      resolvers == {doh[i] : i \in DOMAIN doh} \ {Skip}
      Count(key) == IF key \in questions THEN Cardinality(Positions(asked, key)) ELSE 1
  IN  IF CaptureFails(before, after) THEN Failed
      ELSE [failed |-> FALSE,
            rows |-> Ranked(questions \cup resolvers, Count,
                            LAMBDA key : Least(Positions(both, key)), MaxQueries)]

\* Not judged: the rows of one name per interface
NetworkInterfaces(world) ==
  Outcome(EachEntry(LAMBDA address : Pick(address, {"name"}), world.entries))

-----------------------------------------------------------------------------
(* Software (software.py)                                                    *)

ExtensionFields == {"browser", "extension_id", "name", "permissions"}
\* The extension's own directory is tested, then listed without a guard; its
\* manifest is read with one
FirefoxRow(addon) ==
  IF ~Readable(addon) THEN Skip
  ELSE IF "scalar" \in DOMAIN addon THEN Crash ELSE Pick(addon, ExtensionFields)
ChromiumRow(extension) ==
  IF extension # Gone /\ Has(extension, {"sealed"}) THEN Crash ELSE FirefoxRow(extension)
\* The directory of the profiles is listed in a try for Chromium, and without
\* one for Firefox
Firefox(entry) == Get(entry, "browser") = "firefox"
DeniedProfiles(before) ==
  before.place = "denied" /\ \E i \in DOMAIN before.entries : Firefox(before.entries[i])
BrowserExtensions(before, after) ==
  IF DeniedProfiles(before) THEN Failed
  ELSE Walk(before, after, LAMBDA listed, extension :
         CASE Firefox(listed) -> FirefoxRow(extension)
           [] ~Firefox(listed) /\ Torn(listed, extension, "directory") -> Crash
           [] OTHER -> ChromiumRow(extension))

\* The database is opened without a guard
Quarantine(world) ==
  CASE world.place = "missing" -> Nothing
    [] world.place = "denied" -> Failed
    [] OTHER -> Outcome(EachEntry(LAMBDA event :
                  Pick(event, {"agent_bundle_id", "agent_name", "origin_url"}),
                  world.entries))

\* An application whose Info.plist cannot be read is a row with only its path
InstalledApps(before, after) ==
  Walk(before, after, LAMBDA listed, app :
    LET bundle == IF Readable(app) THEN app ELSE Gone
    IN  [path |-> listed["id"], bundle_id |-> Get(bundle, "bundle_id"),
         name |-> Get(bundle, "name")])

\* A missing dpkg-query is a host without packages
DpkgRow(line) ==
  IF Has(line, {"package", "status", "version"}) /\ Get(line, "status") = "installed"
  THEN [path |-> line["package"], bundle_id |-> line["package"], name |-> line["package"]]
  ELSE Skip
DpkgPackages(world) ==
  IF world.tool = "missing" THEN Nothing ELSE Outcome(EachEntry(DpkgRow, Text(world)))

DesktopEntryRow(listed, section) ==
  IF Has(section, {"section"})
  THEN [path |-> listed["id"], bundle_id |-> listed["id"], name |-> Get(section, "name")]
  ELSE Skip
DesktopEntries(before, after) ==
  Walk(before, after, LAMBDA listed, file :
    IF ~Has(listed, {"desktop"}) THEN Skip
    ELSE Ini(OfKind("desktop", file), LAMBDA section : DesktopEntryRow(listed, section)))

LinuxInstalledApps(before, after) == Both(DpkgPackages(before), DesktopEntries(before, after))

MdmProfileRow(item) ==
  IF Has(item, {"scalar"}) \/ ~Has(item, {"identifier"}) THEN Skip
  ELSE Pick(item, {"identifier", "display_name", "organization"})
MdmProfiles(world) == ProfilerReport(world, MdmProfileRow)

KernelExtensionRow(kext) ==
  IF Has(kext, {"scalar"}) THEN Skip
  ELSE [bundle_id |-> Get(kext, "bundle_id"), name |-> Get(kext, "name"), team_id |-> None]
KernelExtensions(world) == ProfilerReport(world, KernelExtensionRow)

SystemExtensions(world) ==
  FileSnapshot(world, LAMBDA extensions : EachEntry(
    LAMBDA ext : IF Has(ext, {"scalar"}) THEN Skip ELSE Pick(ext, {"bundle_id", "team_id"}),
    extensions))

WindowsInstalledApps(world) == PowerShell(world, WindowsAppRow)

-----------------------------------------------------------------------------
(* Devices (devices.py)                                                      *)

UsbFields == {"name", "vendor_id", "product_id", "manufacturer"}
UsbDevices(world) == SystemProfiler(world, LAMBDA item : Pick(item, UsbFields))
WindowsUsb(world) == PowerShell(world, UsbPnpRow)

BluetoothFields == {"name", "address", "minor_type"}
Bluetooth(world) ==
  SystemProfiler(world, LAMBDA device :
    IF Has(device, {"scalar"}) THEN Skip ELSE Pick(device, BluetoothFields))
WindowsBluetooth(world) == PowerShell(world, BluetoothPnpRow)

WifiFields == {"ssid", "bssid", "security"}
Wifi(world) == SystemProfiler(world, LAMBDA iface : Pick(iface, WifiFields))
WindowsWifi(world) == Outcome(EachEntry(NetshWlanRow, Text(world)))

\* Every attribute is a file of its own. One that cannot be read is an attribute
\* the device lacks; a device with neither a vendor nor a product is no device
Attributes(device) == IF Opens(device) THEN device ELSE Gone
LinuxUsb(before, after) ==
  Walk(before, after, LAMBDA listed, device :
    LET attrs == Mixed(Attributes(listed), Attributes(device))
    IN  IF Get(attrs, "vendor_id") # None \/ Get(attrs, "name") # None
        THEN Pick(attrs, UsbFields) ELSE Skip)

\* BluezDevice: without an info file it is no device; one that is unreadable, or
\* gone when it is read, makes a device with only its address
LinuxBluetooth(before, after) ==
  Walk(before, after, LAMBDA listed, info :
    IF info = Gone /\ ~Torn(listed, info, "info") THEN Skip
    ELSE Ini(info, LAMBDA general :
           [name |-> Get(general, "name"), address |-> listed["id"],
            minor_type |-> Get(general, "minor_type")]))

\* An interface iw tells nothing of is still a row
LinuxWifi(before, after) ==
  Walk(before, after, LAMBDA listed, link :
    IF before.tool # "missing" /\ after.tool = "ok" /\ link # Gone
    THEN Pick(link, WifiFields) ELSE Pick(Gone, WifiFields))

-----------------------------------------------------------------------------
(* Processes, disks and mounts (system.py, runtime/probes.py, mounts.py)     *)

ProcessFields == {"name", "exe", "cmdline", "username"}
\* process_iter passes over a process that is gone, and reads the others
\* attribute by attribute; one it may not read is None
Processes(before, after) ==
  Outcome([i \in DOMAIN before.entries |->
    LET proc == Later(before.entries[i], after)
    IN  IF proc = Gone THEN Skip ELSE Pick(Mixed(before.entries[i], proc), ProcessFields)])

HostResources(world) == Outcome(<<[name |-> "host"]>>)

\* MountTable.parts: kernel filesystems are passed over, the first mount of a
\* mountpoint is the one kept; a mount that does not answer is left out
PseudoFilesystems == {"proc", "overlay", "tmpfs"}
MountedDisks(lines) ==
  LET Kept(i) == /\ Has(lines[i], {"device", "mountpoint", "fstype"})
                 /\ Get(lines[i], "fstype") \notin PseudoFilesystems
      First(i) == ~\E j \in 1..(i - 1) :
                     Kept(j) /\ lines[j]["mountpoint"] = lines[i]["mountpoint"]
  IN  [i \in DOMAIN lines |-> IF Kept(i) THEN IF First(i) THEN lines[i] ELSE Skip ELSE Skip]
DiskUsage(before, after) ==
  LET parts == MountedDisks(before.entries)
      Row(i) == IF parts[i] = Skip \/ ~Opens(Later(before.entries[i], after)) THEN Skip
                ELSE Pick(parts[i], {"device", "mountpoint"})
  IN  IF before.place # "ok" THEN Nothing
      ELSE Outcome([i \in DOMAIN parts |-> Row(i)])

Mounts(world) ==
  FileSnapshot(world, LAMBDA parts : EachEntry(
    LAMBDA part : Pick(part, {"device", "mountpoint", "fstype", "opts"}), parts))

-----------------------------------------------------------------------------
(* Integrity, logs and signatures (integrity.py, logs.py, file_scan.py)      *)

\* TriState.any_on: on beats off, and off beats not knowing
AnyOn(signals) ==
  CASE "1" \in signals -> "1" [] "0" \in signals -> "0" [] OTHER -> None

\* NetworkServiceControl.inspect: a service is on if it is enabled or listening
ServiceEnabled(host) == AnyOn({Get(host, "enabled"), Get(host, "listening")})

\* One row from the answers of several commands, files and tables of sockets,
\* each asked at its own time
Posture(Row(_), before, after) ==
  Outcome(EachEntry(LAMBDA host : Row(Mixed(host, Later(host, after))), before.entries))

MacosIntegrityRow(host) ==
  [filevault_active |-> Get(host, "filevault"), firewall_global_state |-> Get(host, "alf"),
   gatekeeper_assessments_enabled |-> Get(host, "spctl"),
   remote_login_enabled |-> ServiceEnabled(host)]
MacosIntegrity(before, after) == Posture(MacosIntegrityRow, before, after)

\* LinuxSecurityPosture: systemctl, dmsetup and ufw.conf that say nothing say
\* no; only sshd has an answer for not knowing
LinuxIntegrityRow(host) ==
  LET Yes(name) == IF Get(host, name) = "1" THEN "1" ELSE "0"
  IN  [filevault_active |-> Yes("luks"),
       firewall_global_state |-> AnyOn({Yes("ufw"), Yes("firewalld")}),
       gatekeeper_assessments_enabled |-> AnyOn({Yes("selinux"), Yes("apparmor")}),
       remote_login_enabled |-> ServiceEnabled(host),
       screen_sharing_enabled |-> AnyOn({Yes("vnc"), Get(host, "vnc_port")})]
LinuxIntegrity(before, after) == Posture(LinuxIntegrityRow, before, after)

\* One script asks for everything
WindowsIntegrity(world) == PowerShell(world, SecurityPostureRow)

\* A watched file is a row: there, there and unreadable, or not there; only one
\* whose directory is closed to the monitor has none. lstat comes first. Before
\* the digest is_file, which raises if the directory has been closed meanwhile
FileIntegrity(before, after) ==
  LET Row(path) ==
        LET found == Later([id |-> path], before)
            file == Later([id |-> path], after)
        IN  CASE found = Gone -> [path |-> path, sha256 |-> None, exists_flag |-> 0]
              [] found # Gone /\ Has(found, {"sealed"}) -> Skip
              [] found # Gone /\ ~Has(found, {"sealed"}) /\ Has(file, {"sealed"}) -> Crash
              [] OTHER -> [path |-> path, exists_flag |-> 1,
                           sha256 |-> IF Opens(file) THEN Get(file, "content") ELSE None]
      rows == {Row(path) : path \in WatchedFiles}
  IN  IF Crash \in rows THEN Failed ELSE [failed |-> FALSE, rows |-> rows \ {Skip}]

\* A directory of the tree that goes before it is listed ends the walk, and the
\* tree counts as empty
SetuidFiles(before, after) ==
  IF \E i \in DOMAIN Listed(before) :
       Torn(Listed(before)[i], Later(Listed(before)[i], after), "directory")
  THEN Nothing
  ELSE Walk(before, after, LAMBDA listed, file :
         IF file # Gone /\ Has(file, {"setuid"}) /\ ~Has(file, {"directory"})
         THEN Pick(file, {"id", "uid", "setuid"}) ELSE Skip)

\* Not judged. The journal is left out when journalctl is missing or times out
JournalRow(line) == IF Has(line, {"broken"}) THEN Skip ELSE Pick(line, {"message"})
LogLineRow(line) == Pick(line, {"message"})
LogEntries(world) ==
  Both(Outcome(EachFrom("journal", JournalRow, Text(world))),
       FileSnapshot(world, LAMBDA lines : EachFrom("file", LogLineRow, lines)))

\* ScanTargets.paths: a path listed twice is scanned once; 0 is no turn
ScanTurn(targets, i) ==
  LET Again(k) == \E j \in 1..(k - 1) : targets[j]["id"] = targets[k]["id"]
  IN  IF Again(i) THEN 0 ELSE Cardinality({j \in 1..i : ~Again(j)})

\* The rules match the content a file has, its digest is taken from the file
\* then; a rule set that does not compile scans nothing
Matching == {"evil", "worse"}
FileScan(before, after) ==
  LET targets == before.entries
      Hash(i) == LET file == Later(targets[i], after)
                 IN  IF Opens(file) THEN Get(file, "content") ELSE None
      Row(i) == IF /\ ScanTurn(targets, i) \in 1..MaxFiles
                   /\ Opens(targets[i]) /\ ~Has(targets[i], {"huge"})
                   /\ Get(targets[i], "content") \in Matching
                THEN [path |-> targets[i]["id"], rule |-> targets[i]["content"],
                      sha256 |-> Hash(i)]
                ELSE Skip
  IN  IF before.tool # "ok" THEN Nothing
      ELSE Outcome([i \in DOMAIN targets |-> Row(i)])
=============================================================================
