----------------------------- MODULE HostScan -----------------------------
(* One collection of one snapshot slice on one kind of host                  *)
(* (host_monitor/hosts, runner.py): the platform decides which source the    *)
(* slice is read from, the collector makes its first reads in one state of   *)
(* the host and its last in another, and the monitor records either every    *)
(* row or the failure. What the host does between, it sees at these two      *)
(* moments only.                                                             *)
EXTENDS HostCollectors, SequencesExt

CONSTANTS
  Ids,            \* the places an entry can be at
  Entries(_, _, _), \* Entries(host, slice, id): what may be found there
  Headings(_, _), \* Headings(host, slice): what the text begins with
  Tools(_, _),    \* Tools(host, slice): the states of the command that matter
  Places(_, _),   \* Places(host, slice): the states of the file that matter
  MaxEdits        \* changes to the host while it is read

ASSUME MaxEditsIsNatural == MaxEdits \in Nat

VARIABLES host, slice, world, begun, outcome, edits
scanVars == <<host, slice, world, begun, outcome, edits>>

-----------------------------------------------------------------------------
(* The collectors every platform builds (hosts/portable.py)                  *)

PortableSlices == {"processes", "network_connections", "listening_ports",
                   "network_interfaces", "host_resources", "disk_usage", "mounts"}
PortableCollectors(name, b, a) ==
  CASE name = "processes" -> Processes(b, a)
    [] name = "network_connections" -> NetworkConnections(a)
    [] name = "listening_ports" -> ListeningPorts(b, a)
    [] name = "network_interfaces" -> NetworkInterfaces(a)
    [] name = "host_resources" -> HostResources(a)
    [] name = "disk_usage" -> DiskUsage(b, a)
    [] name = "mounts" -> Mounts(a)

AccountSlices == {"ssh_authorized_keys", "hosts_file", "privilege_config", "ssh_known_hosts"}
AccountCollectors(name, w, accounts) ==
  CASE name = "ssh_authorized_keys" -> SshAuthorizedKeys(w)
    [] name = "hosts_file" -> HostsFileRows(w)
    [] name = "privilege_config" -> PrivilegeConfig(w, accounts)
    [] name = "ssh_known_hosts" -> SshKnownHosts(w)

CaptureSlices == {"network_flows", "dns_queries"}
Capture(name, b, a) ==
  CASE name = "network_flows" -> NetworkFlows(b, a)
    [] name = "dns_queries" -> DnsQueries(b, a)

FileSlices == {"file_integrity", "file_scan", "setuid_files"}
Files(name, b, a) ==
  CASE name = "file_integrity" -> FileIntegrity(b, a)
    [] name = "file_scan" -> FileScan(b, a)
    [] name = "setuid_files" -> SetuidFiles(b, a)

NeighborSlices == {"arp_table", "ndp_neighbors", "routes", "dns_resolvers"}
ExposureSlices == {"proxy_config", "login_sessions", "network_shares", "trusted_roots"}

-----------------------------------------------------------------------------
(* MacOSHost                                                                 *)

MacosDeviceSlices == {"usb_devices", "bluetooth_devices", "wifi_state", "system_integrity",
                      "mdm_profiles", "kernel_extensions", "system_extensions"}
MacosDevices(name, b, a) ==
  CASE name = "usb_devices" -> UsbDevices(a)
    [] name = "bluetooth_devices" -> Bluetooth(a)
    [] name = "wifi_state" -> Wifi(a)
    [] name = "system_integrity" -> MacosIntegrity(b, a)
    [] name = "mdm_profiles" -> MdmProfiles(a)
    [] name = "kernel_extensions" -> KernelExtensions(a)
    [] name = "system_extensions" -> SystemExtensions(a)

MacosSoftwareSlices == {"launch_items", "quarantine_events", "browser_extensions",
                        "installed_apps"}
MacosSoftware(name, b, a) ==
  CASE name = "launch_items" -> LaunchItems(b, a)
    [] name = "quarantine_events" -> Quarantine(a)
    [] name = "browser_extensions" -> BrowserExtensions(b, a)
    [] name = "installed_apps" -> InstalledApps(b, a)

MacosNeighborhood(name, b, a) ==
  CASE name = "arp_table" -> CommandSnapshot(b, a, MacosArp)
    [] name = "ndp_neighbors" -> CommandSnapshot(b, a, MacosNdp)
    [] name = "routes" -> CommandSnapshot(b, a, MacosRoutes)
    [] name = "dns_resolvers" -> CommandSnapshot(b, a, MacosDns)

MacosExposure(name, b, a) ==
  CASE name = "proxy_config" -> CommandSnapshot(b, a, MacosProxy)
    [] name = "login_sessions" -> CommandSnapshot(b, a, Who)
    [] name = "network_shares" -> CommandSnapshot(b, a, MacosMountShares)
    [] name = "promiscuous_ifaces" -> CommandSnapshot(b, a, MacosPromisc)
    [] name = "trusted_roots" -> CommandSnapshot(b, a, MacosCert)

MacosPersistence(b, a) ==
  CommandSnapshot(b, a, LAMBDA lines : EnvValue(lines, "DYLD_INSERT_LIBRARIES", "launchd"))

MacosSlices ==
  UNION {PortableSlices, AccountSlices, CaptureSlices, MacosDeviceSlices, MacosSoftwareSlices,
         FileSlices, NeighborSlices, ExposureSlices, {"promiscuous_ifaces", "injection_env"}}
MacosHost(name, b, a) ==
  CASE name \in PortableSlices -> PortableCollectors(name, b, a)
    [] name \in AccountSlices -> AccountCollectors(name, a, MacosAccounts(a))
    [] name \in CaptureSlices -> Capture(name, b, a)
    [] name \in MacosDeviceSlices -> MacosDevices(name, b, a)
    [] name \in MacosSoftwareSlices -> MacosSoftware(name, b, a)
    [] name \in FileSlices -> Files(name, b, a)
    [] name \in NeighborSlices -> MacosNeighborhood(name, b, a)
    [] name = "injection_env" -> MacosPersistence(b, a)
    [] OTHER -> MacosExposure(name, b, a)

-----------------------------------------------------------------------------
(* LinuxHost                                                                 *)

LinuxDeviceSlices == {"log_entries", "usb_devices", "bluetooth_devices", "wifi_state",
                      "system_integrity"}
LinuxDevices(name, b, a) ==
  CASE name = "log_entries" -> LogEntries(a)
    [] name = "usb_devices" -> LinuxUsb(b, a)
    [] name = "bluetooth_devices" -> LinuxBluetooth(b, a)
    [] name = "wifi_state" -> LinuxWifi(b, a)
    [] name = "system_integrity" -> LinuxIntegrity(b, a)

LinuxSoftwareSlices == {"launch_items", "browser_extensions", "installed_apps"}
LinuxSoftware(name, b, a) ==
  CASE name = "launch_items" -> LinuxLaunchItems(b, a)
    [] name = "browser_extensions" -> BrowserExtensions(b, a)
    [] name = "installed_apps" -> LinuxInstalledApps(b, a)

LinuxNeighborhood(name, b, a) ==
  CASE name = "arp_table" -> CommandSnapshot(b, a, LAMBDA lines : IpNeigh(lines, "flags"))
    [] name = "ndp_neighbors" -> CommandSnapshot(b, a, LAMBDA lines : IpNeigh(lines, "state"))
    [] name = "routes" -> CommandSnapshot(b, a, IpRoutes)
    [] name = "dns_resolvers" -> FileSnapshot(a, ResolvConf)

LinuxExposure(name, b, a) ==
  CASE name = "proxy_config" -> FileSnapshot(a, LinuxProxyEnv)
    [] name = "login_sessions" -> CommandSnapshot(b, a, Who)
    [] name = "network_shares" -> FileSnapshot(a, ProcMountsShares)
    [] name = "promiscuous_ifaces" -> CommandSnapshot(b, a, LinuxPromisc)
    [] name = "trusted_roots" -> CommandSnapshot(b, a, LinuxTrustList)

PersistenceSlices == {"injection_env", "kernel_modules"}
LinuxPersistence(name, w) ==
  CASE name = "injection_env" -> FileSnapshot(w, LdSoPreload)
    [] name = "kernel_modules" -> FileSnapshot(w, ProcModules)

LinuxSlices ==
  UNION {PortableSlices, AccountSlices, CaptureSlices, LinuxDeviceSlices, LinuxSoftwareSlices,
         FileSlices, NeighborSlices, ExposureSlices, PersistenceSlices, {"promiscuous_ifaces"}}
LinuxHost(name, b, a) ==
  CASE name \in PortableSlices -> PortableCollectors(name, b, a)
    [] name \in AccountSlices -> AccountCollectors(name, a, LinuxAccounts(a))
    [] name \in CaptureSlices -> Capture(name, b, a)
    [] name \in LinuxDeviceSlices -> LinuxDevices(name, b, a)
    [] name \in LinuxSoftwareSlices -> LinuxSoftware(name, b, a)
    [] name \in FileSlices -> Files(name, b, a)
    [] name \in NeighborSlices -> LinuxNeighborhood(name, b, a)
    [] name \in PersistenceSlices -> LinuxPersistence(name, a)
    [] OTHER -> LinuxExposure(name, b, a)

-----------------------------------------------------------------------------
(* WindowsHost                                                               *)

WindowsNativeSlices == {"installed_apps", "launch_items", "system_integrity", "usb_devices",
                        "bluetooth_devices", "wifi_state"}
WindowsNative(name, b, a) ==
  CASE name = "installed_apps" -> WindowsInstalledApps(a)
    [] name = "launch_items" -> WindowsLaunchItems(b, a)
    [] name = "system_integrity" -> WindowsIntegrity(a)
    [] name = "usb_devices" -> WindowsUsb(a)
    [] name = "bluetooth_devices" -> WindowsBluetooth(a)
    [] name = "wifi_state" -> WindowsWifi(a)

WindowsNeighborhood(name, b, a) ==
  CASE name = "arp_table" -> CommandSnapshot(b, a, LAMBDA items : PsNeighbor(items, "flags"))
    [] name = "ndp_neighbors" -> CommandSnapshot(b, a, LAMBDA items : PsNeighbor(items, "state"))
    [] name = "routes" -> CommandSnapshot(b, a, PsRoute)
    [] name = "dns_resolvers" -> CommandSnapshot(b, a, PsDns)

WindowsExposure(name, b, a) ==
  CASE name = "proxy_config" -> CommandSnapshot(b, a, WindowsProxy)
    [] name = "login_sessions" -> CommandSnapshot(b, a, WindowsSession)
    [] name = "network_shares" -> CommandSnapshot(b, a, WindowsShares)
    [] name = "trusted_roots" -> CommandSnapshot(b, a, WindowsCert)

WindowsPersistence(name, b, a) ==
  CASE name = "injection_env" -> CommandSnapshot(b, a, WindowsAppInit)
    [] name = "kernel_modules" -> CommandSnapshot(b, a, WindowsDriver)

WindowsSlices ==
  UNION {PortableSlices, AccountSlices, WindowsNativeSlices, NeighborSlices, ExposureSlices,
         PersistenceSlices}
WindowsHost(name, b, a) ==
  CASE name \in PortableSlices -> PortableCollectors(name, b, a)
    [] name \in AccountSlices -> AccountCollectors(name, a, WindowsAccounts(a))
    [] name \in WindowsNativeSlices -> WindowsNative(name, b, a)
    [] name \in NeighborSlices -> WindowsNeighborhood(name, b, a)
    [] name \in PersistenceSlices -> WindowsPersistence(name, b, a)
    [] OTHER -> WindowsExposure(name, b, a)

\* HostFactory.create
Hosts == {"Darwin", "Linux", "Windows"}
SlicesOf(system) ==
  CASE system = "Darwin" -> MacosSlices
    [] system = "Linux" -> LinuxSlices
    [] system = "Windows" -> WindowsSlices
Collect(system, name, b, a) ==
  CASE system = "Darwin" -> MacosHost(name, b, a)
    [] system = "Linux" -> LinuxHost(name, b, a)
    [] system = "Windows" -> WindowsHost(name, b, a)

-----------------------------------------------------------------------------
(* The scan                                                                  *)

\* Two tools print a heading of their own; the place of a browser's extension,
\* of a mount and of a unit tells its browser, its device and its scope; a line
\* of dpkg-query is no .desktop file.
ASSUME HeadingsAssumption ==
  \A system \in Hosts : \A name \in SlicesOf(system) :
    /\ Headings(system, name) \in Seq(ToSet(Headings(system, name)))
    /\ <<system, name>> \notin {<<"Darwin", "routes">>, <<"Windows", "privilege_config">>} =>
         Headings(system, name) = <<>>
ASSUME EntriesAssumption ==
  \A id \in Ids :
    /\ \A system \in {"Darwin", "Linux"} :
         \A one, other \in Entries(system, "browser_extensions", id) :
           Get(one, "browser") = Get(other, "browser")
    /\ \A system \in Hosts : \A mount \in Entries(system, "disk_usage", id) :
         Has(mount, {"device"}) => mount["device"] = id
    /\ \A unit \in Entries("Linux", "launch_items", id) :
         Has(unit, {"name"}) => Has(unit, {"scope"}) /\ unit["scope"] # "crontab"
    /\ \A app \in Entries("Linux", "installed_apps", id) : ~Has(app, {"package", "desktop"})

Unread == [unread |-> "unread"]

Placed(id, entry) ==
  [word \in {"id"} \cup DOMAIN entry |-> IF word = "id" THEN id ELSE entry[word]]
At(id) == {Placed(id, entry) : entry \in Entries(host, slice, id)}
TextOf(placed) == {Headings(host, slice) \o text : text \in
  UNION {{<<>>},
         UNION {{<<one>> : one \in At(id)} : id \in placed},
         UNION {{<<one, other>> : one \in At(p[1]), other \in At(p[2])} :
                  p \in {q \in placed \X placed : q[1] # q[2]}}}}

ScanInit ==
  /\ host \in Hosts
  /\ slice \in SlicesOf(host)
  /\ world \in [tool : Tools(host, slice), place : Places(host, slice), entries : TextOf(Ids)]
  /\ begun = Unread
  /\ outcome = Unread
  /\ edits = 0

\* SnapshotCollector.collect makes its first read
Begin ==
  /\ begun = Unread
  /\ begun' = world
  /\ UNCHANGED <<host, slice, world, outcome, edits>>

\* The last read, and the runner stores the rows or writes the error
Finish ==
  /\ begun # Unread /\ outcome = Unread
  /\ outcome' = Collect(host, slice, begun, world)
  /\ UNCHANGED <<host, slice, world, begun, edits>>

\* The host goes on while it is read
HostStep ==
  /\ begun # Unread /\ outcome = Unread
  /\ edits < MaxEdits
  /\ edits' = edits + 1
  /\ UNCHANGED <<host, slice, begun, outcome>>

Body(w) == (Len(Headings(host, slice)) + 1)..Len(w.entries)

ToolChanges == HostStep /\ \E tool \in Tools(host, slice) \ {world.tool} :
  world' = [world EXCEPT !.tool = tool]
PlaceChanges == HostStep /\ \E place \in Places(host, slice) \ {world.place} :
  world' = [world EXCEPT !.place = place]
\* A line or a file becomes another of the source it belongs to
Source(entry) == DOMAIN entry \cap {"package", "desktop", "line", "packet", "status", "journal",
                                 "directory", "info"}
EntryChanges == HostStep /\ \E i \in Body(world) :
  \E entry \in At(world.entries[i]["id"]) \ {world.entries[i]} :
    /\ Source(entry) = Source(world.entries[i])
    /\ world' = [world EXCEPT !.entries[i] = entry]
EntryGoes == HostStep /\ \E i \in Body(world) :
  world' = [world EXCEPT !.entries = RemoveAt(@, i)]
EntryAppears == HostStep /\ \E id \in Ids \ {world.entries[i]["id"] : i \in Body(world)} :
  \E entry \in At(id) : world' = [world EXCEPT !.entries = Append(@, entry)]

ScanNext == \/ Begin \/ Finish
            \/ ToolChanges \/ PlaceChanges \/ EntryChanges \/ EntryGoes \/ EntryAppears
ScanSpec == ScanInit /\ [][ScanNext]_scanVars

-----------------------------------------------------------------------------
(* Properties                                                                *)

Ended == outcome # Unread
Moment(w) == Collect(host, slice, w, w)
RowsAt(w) == Moment(w).rows

\* Slices whose rows are put together from several reads, and may be true of no
\* moment: a process and a USB device read attribute by attribute; the posture,
\* asked of several tools (of a script that asks them, on Windows); a watched
\* file and the digest taken after; a port and the name of the process that
\* held it; a rule that matched and the digest taken after; a mount and whether
\* anything answers there then; and an item that is listed and turns out to be
\* unreadable or gone, which leaves a row with only its name.
Composed == {"processes", "system_integrity", "file_integrity", "listening_ports", "file_scan",
             "disk_usage", "installed_apps"}
  \cup (IF host = "Linux"
        THEN {"launch_items", "usb_devices", "bluetooth_devices", "wifi_state"} ELSE {})

\* Slices whose collector lists its entries and reads each of them later, or
\* asks for what makes up an entry one thing after the other
Walked == {"processes", "setuid_files", "browser_extensions", "system_integrity"} \cup
  (CASE host = "Darwin" -> {"launch_items", "installed_apps"}
     [] host = "Linux" -> {"launch_items", "installed_apps", "usb_devices",
                           "bluetooth_devices", "wifi_state"}
     [] host = "Windows" -> {})

\* What is true of a moment: the rows of a collection then and, where entries
\* are read one by one, the rows of each of them (one that raises fails them all).
Alone(w, entry) == [w EXCEPT !.entries = Headings(host, slice) \o <<entry>>]
TrueOf(w) ==
  RowsAt(w) \cup
    (IF slice \in Walked THEN UNION {RowsAt(Alone(w, w.entries[i])) : i \in Body(w)} ELSE {})

\* A row that is stored, of a slice whose rows are read at once, was true of the
\* host at one moment of the collection, its beginning or its end: listing a
\* directory and then reading the files in it does not mix two states of a file.
\* (A file can be read after its directory can no longer be listed.)
RowsAreOfOneMoment ==
  Ended /\ slice \notin Composed =>
    outcome.rows \subseteq UNION {TrueOf(begun), TrueOf(world),
                                 TrueOf([world EXCEPT !.place = begun.place])}

\* Slices in which one entry decides the row of another: unit files and
\* mounts that share a name, capped tables, line numbers in the label, headings
\* of a section, search words of a whole file, one row for a whole group, names
\* of processes, signals joined into one answer, and an absence that is a row.
Related == {"disk_usage", "network_flows", "dns_queries", "file_scan", "listening_ports",
            "file_integrity", "system_integrity"}
  \cup (CASE host = "Linux" -> {"launch_items", "dns_resolvers"}
          [] host = "Windows" -> {"privilege_config"}
          [] host = "Darwin" -> {"routes"})

SourceSteady == <<begun.tool, begun.place>> = <<world.tool, world.place>>

\* One place, shown by the same of the slice's sources
SamePlace(one, other) == one["id"] = other["id"] /\ Source(one) = Source(other)

\* What a collector reads of an entry after it has listed it has not changed:
\* the entries themselves, and the names of the processes behind the sockets
Lasting ==
  \A i \in Body(begun) :
    IF slice = "listening_ports"
    THEN LET pid == Get(begun.entries[i], "pid")
         IN  ProcessName(pid, world) = ProcessName(pid, begun)
    ELSE Later(begun.entries[i], world) = begun.entries[i]

\* No directory of the tree of setuid files goes before it is listed itself,
\* which would leave the tree without rows, and the collection a success
TreeStands ==
  slice = "setuid_files" =>
    \A i \in Body(begun) :
      ~Torn(begun.entries[i], Later(begun.entries[i], world), "directory")

\* A collection that is recorded as a success is complete, whatever else comes,
\* goes or is damaged meanwhile: a row that is there at the beginning and at the
\* end is stored, if what is listed first and read later lasts, and so is the
\* row that one place gives at both ends, if no other entry has a say in it.
SteadyEntryIsStored ==
  Ended /\ ~outcome.failed /\ SourceSteady =>
    /\ slice \notin Walked \cup {"listening_ports"} \/ Lasting =>
         RowsAt(begun) \cap RowsAt(world) \subseteq outcome.rows
    /\ slice \notin Related /\ TreeStands =>
         \A i \in Body(begun), j \in Body(world) :
           LET one == begun.entries[i]
               other == world.entries[j]
           IN  SamePlace(one, other) =>
                 RowsAt(Alone(begun, one)) \cap RowsAt(Alone(world, other)) \subseteq outcome.rows

\* The slices with a command of their own to read (CommandSnapshot,
\* PowerShell, system_profiler, tcpdump)
CommandSlices ==
  CASE host = "Darwin" ->
         UNION {CaptureSlices, NeighborSlices, ExposureSlices,
                MacosDeviceSlices \ {"system_integrity", "system_extensions"},
                {"promiscuous_ifaces", "injection_env"}}
    [] host = "Linux" ->
         UNION {CaptureSlices, NeighborSlices \ {"dns_resolvers"},
                {"login_sessions", "promiscuous_ifaces", "trusted_roots"}}
    [] host = "Windows" ->
         UNION {NeighborSlices, ExposureSlices, PersistenceSlices,
                WindowsNativeSlices \ {"wifi_state"}}

\* A missing tool is a visible gap, not a clean empty result (row_source.py).
MissingToolIsVisible ==
  Ended /\ slice \in CommandSlices /\ "missing" = begun.tool /\ "missing" = world.tool =>
    outcome.failed
=============================================================================
