----------------------------- MODULE MCHostScan -----------------------------
(* What a host may show each collector: the full entry of each kind, the     *)
(* entry with any one of its words missing, a keyword that ends its line,    *)
(* and the ways a file can be damaged.                                       *)
EXTENDS HostScan

\* The entry with one of its words gone; with a keyword at the end of a line
Short(entry) ==
  {[name \in DOMAIN entry \ {word} |-> entry[name]] : word \in DOMAIN entry}
Ending(entry, words) == {[entry EXCEPT ![word] = Cut] : word \in words}
Flagged(entry, flags) == {(flag :> "yes") @@ entry : flag \in flags}
Whole(entry) == {entry} \cup Short(entry)
Lines(entry, words) == Whole(entry) \cup Ending(entry, words)
File(entry, flags) == Whole(entry) \cup Flagged(entry, flags)

MCIds == {"10.0.0.1", "10.0.0.2"}
Other(id) == CHOOSE other \in MCIds : other # id

\* Some words of every kind of entry that is read word by word, and both tests
MCFirstRead == {"name", "exe", "filevault", "enabled", "luks", "ufw", "vnc", "directory", "info"}

-----------------------------------------------------------------------------
Socket(id) == [status |-> "LISTEN", pid |-> "7", laddr |-> id]
Remote(id) == [status |-> "ESTABLISHED", raddr_ip |-> id, raddr_port |-> "443"]

PortableEntries(name, id) ==
  CASE name = "processes" -> Whole([name |-> id, exe |-> "x", username |-> "alice"])
    [] name = "network_connections" -> File(Remote(id), {"foreign"})
    [] name = "listening_ports" ->
         Flagged(Socket(id), {"foreign"}) \cup Whole(Socket(id))
           \cup {[pid |-> "7", process_name |-> word] : word \in {"sshd", "nc"}}
    [] name = "network_interfaces" -> Whole([name |-> id])
    [] name = "host_resources" -> {<<>>}
    [] name = "disk_usage" ->
         File([device |-> id, mountpoint |-> "/", fstype |-> "ext4"], {"locked"})
           \cup {[device |-> id, mountpoint |-> "/", fstype |-> "tmpfs"]}
    [] name = "mounts" ->
         Whole([device |-> id, mountpoint |-> "/", fstype |-> "ext4", opts |-> "rw"])

AccountEntries(system, name, id) ==
  CASE name = "ssh_authorized_keys" ->
         UNION {File([path |-> id, owner |-> "bob", key_type |-> "ssh-rsa", key |-> key],
                     {"comment", "locked"}) : key \in {"k", "not-base64"}}
    [] name = "hosts_file" -> Whole([ip |-> id, hostnames |-> "a b"])
    [] name = "ssh_known_hosts" ->
         File([host |-> id, key_type |-> "ssh-rsa", key |-> "k"], {"comment", "locked"})
    [] name = "privilege_config" ->
         File([rule |-> "ALL", subject |-> id], {"directive", "locked"})
           \cup (IF system = "Windows" THEN {[member |-> id], [footer |-> "ok"], [rule |-> "--"]}
                 ELSE {[group |-> "admin", members |-> id], [group |-> "staff", members |-> id],
                       [account |-> id, uid |-> "0"], [account |-> id, uid |-> "501"]})

CaptureEntries(name, id) ==
  CASE name = "network_flows" ->
         Whole([iface |-> "en1", proto |-> "tcp", dst_ip |-> id, dst_port |-> "80"])
    [] name = "dns_queries" ->
         Whole([packet |-> "p", qname |-> id, qtype |-> "A", server_ip |-> "9.9.9.9"])
           \cup Whole([status |-> "up", raddr_ip |-> "1.1.1.1", raddr_port |-> "443",
                       pid |-> "7"])

FilesEntries(name, id) ==
  CASE name = "file_integrity" -> File([content |-> "c"], {"locked", "sealed"})
    [] name = "file_scan" ->
         {[content |-> word] : word \in {"evil", "worse", "fine"}}
           \cup Flagged([content |-> "evil"], {"locked", "huge"})
    [] name = "setuid_files" ->
         File([uid |-> "0", setuid |-> "1"], {"locked"}) \cup {[directory |-> "yes"]}

Share(id) == [remote |-> id, mountpoint |-> "/mnt", fstype |-> "nfs"]

-----------------------------------------------------------------------------
MacosEntries(name, id) ==
  CASE name = "usb_devices" -> Whole([name |-> id, vendor_id |-> "v"])
    [] name = "bluetooth_devices" -> File([name |-> id, address |-> "a"], {"scalar"})
    [] name = "wifi_state" -> Whole([ssid |-> id, bssid |-> "b", security |-> "wpa2"])
    [] name = "system_integrity" ->
         Whole([filevault |-> "1", alf |-> "0", enabled |-> "0", listening |-> "1"])
    [] name = "mdm_profiles" -> File([identifier |-> id, display_name |-> "p"], {"scalar"})
    [] name = "kernel_extensions" -> File([bundle_id |-> id, name |-> "k"], {"scalar"})
    [] name = "system_extensions" -> File([bundle_id |-> id, team_id |-> "t"], {"scalar"})
    [] name = "launch_items" ->
         File([scope |-> "agent", label |-> id, program |-> "x", schedule |-> "daily"],
              {"locked", "broken"})
    [] name = "quarantine_events" -> Whole([agent_bundle_id |-> id, origin_url |-> "u"])
    [] name = "browser_extensions" ->
         LET browser == IF id = "10.0.0.1" THEN "chrome" ELSE "firefox"
         IN  {extension \in File([browser |-> browser, extension_id |-> id, name |-> "x"],
                                 {"locked", "broken", "sealed", "scalar", "directory"}) :
                "browser" \in DOMAIN extension}
    [] name = "installed_apps" -> File([bundle_id |-> id, name |-> "x"], {"locked", "broken"})
    [] name = "arp_table" ->
         UNION {Lines([ip |-> id, at |-> mac, on |-> "en0", flags |-> "p"], {"at", "on"}) :
                mac \in {"m", IncompleteMac}}
    [] name = "ndp_neighbors" ->
         File([ip |-> id, mac |-> "m", interface |-> "en0", expire |-> "1s", state |-> "S"],
              {"header"})
    [] name = "routes" ->
         Whole([destination |-> "default", gateway |-> id, flags |-> "UG", interface |-> "en0"])
           \cup {[destination |-> "10/8", gateway |-> word, flags |-> "U", interface |-> "en0"] :
                  word \in {id, "link#4"}} \cup {[blank |-> "yes"], [header |-> "yes"]}
    [] name = "dns_resolvers" ->
         Lines([server |-> id, search |-> "lan", interface |-> "en0"], {"server", "search"})
    [] name = "proxy_config" ->
         {[kind |-> "http", enable |-> word, host |-> id, port |-> "1"] : word \in {"0", "1"}}
           \cup {[kind |-> "pac", enable |-> "1", url |-> id]}
    [] name = "network_shares" -> Whole(Share(id)) \cup {[Share(id) EXCEPT !.fstype = "apfs"]}
    [] name = "promiscuous_ifaces" ->
         {[interface |-> id, flags |-> word] : word \in {"UP", "UP,PROMISC", Cut}}
           \cup {[interface |-> id]}
    [] name = "trusted_roots" -> Whole([hash |-> id, label |-> "ca"])
    [] name = "injection_env" -> Whole([value |-> id])

LinuxEntries(name, id) ==
  CASE name = "log_entries" ->
         {[journal |-> "j", message |-> id], [file |-> "f", message |-> id],
          [journal |-> "j", message |-> id, broken |-> "yes"]}
    [] name = "usb_devices" -> File([name |-> id, vendor_id |-> "v"], {"locked"})
    [] name = "bluetooth_devices" ->
         File([name |-> "mouse", minor_type |-> "hid"], {"locked", "broken", "garbled", "info"})
    [] name = "wifi_state" -> Whole([ssid |-> id, bssid |-> "b", security |-> "wpa2"])
    [] name = "system_integrity" ->
         Whole([luks |-> "1", ufw |-> "0", firewalld |-> "1", enabled |-> "1", vnc |-> "0",
                vnc_port |-> "1"])
    [] name = "launch_items" ->
         {[name |-> "sshd", scope |-> word, program |-> id] : word \in {"system", "user"}}
           \cup Flagged([name |-> "sshd", scope |-> "system", program |-> id],
                        {"locked", "broken", "garbled"})
           \cup {[line |-> "l", cron |-> "@daily", program |-> id, owner |-> "bob"],
                 [line |-> "l", cron |-> "@daily", program |-> id]}
    [] name = "browser_extensions" -> MacosEntries(name, id)
    [] name = "installed_apps" ->
         Whole([package |-> id, status |-> "installed", version |-> "1"])
           \cup File([desktop |-> "d", section |-> "s", name |-> id],
                     {"locked", "broken", "garbled"})
    [] name \in {"arp_table", "ndp_neighbors"} ->
         {line \in Lines([ip |-> id, dev |-> "eth0", lladdr |-> "m", state |-> "REACHABLE"],
                         {"dev", "lladdr"}) : "ip" \in DOMAIN line}
    [] name = "routes" ->
         UNION {Lines([destination |-> word, via |-> id, dev |-> "eth0"], {"via", "dev"}) :
                word \in {"default", "10/8"}}
    [] name = "dns_resolvers" ->
         {[server |-> id], [search |-> id], [server |-> Cut], [comment |-> "c"]}
    [] name = "proxy_config" ->
         File([name |-> "http_proxy", value |-> id], {"comment"})
           \cup {[name |-> "PATH", value |-> id]}
    [] name = "network_shares" -> MacosEntries(name, id)
    [] name = "promiscuous_ifaces" ->
         UNION {Whole([index |-> "1", interface |-> id, flags |-> word]) :
                word \in {"UP", "UP,PROMISC", Cut}}
    [] name = "trusted_roots" -> Whole([label |-> id])
    [] name = "injection_env" -> File([library |-> id], {"comment"})
    [] name = "kernel_modules" ->
         UNION {Whole([name |-> id, size |-> "1", refcount |-> "0", used_by |-> word]) :
                word \in {"-", "snd"}}

WindowsEntries(name, id) ==
  CASE name = "installed_apps" ->
         File([PSChildName |-> id, DisplayName |-> "x"], {"scalar"})
    [] name = "launch_items" ->
         File([name |-> "n", command |-> id], {"scalar"})
           \cup Whole([line |-> "l", task |-> id, command |-> "x"])
    [] name = "system_integrity" ->
         Whole([bitlocker |-> "On", firewall |-> "true", rdp_deny |-> "0", winrm |-> "running"])
    [] name = "usb_devices" -> File([FriendlyName |-> id, VID_ |-> "v"], {"scalar"})
    [] name = "bluetooth_devices" -> File([FriendlyName |-> id, DEV_ |-> "a"], {"scalar"})
    [] name = "wifi_state" -> Whole([name |-> "Wi-Fi", ssid |-> id, authentication |-> "w"])
    [] name \in {"arp_table", "ndp_neighbors"} ->
         File([IPAddress |-> id, LinkLayerAddress |-> "m", State |-> "Stale"], {"scalar"})
    [] name = "routes" ->
         UNION {File([DestinationPrefix |-> word, NextHop |-> id], {"scalar"}) :
                word \in {"0.0.0.0/0", "10.0.0.0/8"}}
    [] name = "dns_resolvers" ->
         File([ServerAddresses |-> id, InterfaceAlias |-> "e"], {"scalar"})
    [] name = "proxy_config" ->
         File([ProxyEnable |-> "1", host |-> id, AutoConfigURL |-> "u"], {"scalar"})
    [] name = "network_shares" -> File([ServerName |-> id, ShareName |-> "s"], {"scalar"})
    [] name = "trusted_roots" -> File([Subject |-> id, Thumbprint |-> "t"], {"scalar"})
    [] name = "injection_env" -> File([AppInit_DLLs |-> id], {"scalar"})
    [] name = "kernel_modules" -> File([name |-> id, display |-> "d"], {"header"})

MCEntries(system, name, id) ==
  CASE name \in PortableSlices -> PortableEntries(name, id)
    [] name \in AccountSlices -> AccountEntries(system, name, id)
    [] name \in CaptureSlices -> CaptureEntries(name, id)
    [] name \in FileSlices -> FilesEntries(name, id)
    [] name = "login_sessions" ->
         File([user |-> id, tty |-> "t", source |-> "s"], {"header"})
    [] system = "Darwin" -> MacosEntries(name, id)
    [] system = "Linux" -> LinuxEntries(name, id)
    [] OTHER -> WindowsEntries(name, id)

\* netstat -rn and net localgroup begin with a heading
MCHeadings(system, name) ==
  CASE system = "Darwin" /\ name = "routes" -> <<[header |-> "Internet:"]>>
    [] system = "Windows" /\ name = "privilege_config" -> <<[rule |-> "-----"]>>
    [] OTHER -> <<>>

-----------------------------------------------------------------------------
\* Slices no command is run for, and slices no file or directory is read for
NoCommand(system, name) ==
  \/ name \in {"processes", "network_interfaces", "host_resources", "disk_usage", "mounts",
               "ssh_authorized_keys", "hosts_file", "ssh_known_hosts", "file_integrity",
               "setuid_files", "browser_extensions", "system_extensions", "quarantine_events"}
  \/ system # "Windows" /\ name = "launch_items"
  \/ system = "Darwin" /\ name \in {"installed_apps", "system_integrity"}
  \/ system = "Linux" /\ name \in {"privilege_config", "dns_resolvers", "proxy_config",
                                   "network_shares", "usb_devices", "bluetooth_devices",
                                   "system_integrity"} \cup PersistenceSlices
ReadsFiles(system, name) ==
  \/ name \in {"disk_usage", "mounts", "setuid_files", "browser_extensions",
               "quarantine_events", "system_extensions"} \cup AccountSlices
  \/ system = "Darwin" /\ name \in {"installed_apps", "launch_items"}
  \/ system = "Linux" /\ name \in {"dns_resolvers", "proxy_config", "network_shares",
                                   "usb_devices", "bluetooth_devices", "wifi_state",
                                   "log_entries", "installed_apps", "launch_items"}
                                    \cup PersistenceSlices

MCTools(system, name) ==
  IF NoCommand(system, name) THEN {"ok"} ELSE {"ok", "missing", "failing", "junk"}
MCPlaces(system, name) ==
  IF ReadsFiles(system, name) THEN {"ok", "missing", "denied"} ELSE {"ok"}
=============================================================================
