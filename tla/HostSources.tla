---------------------------- MODULE HostSources ----------------------------
(* What a snapshot collector reads from, and how each way of reading treats  *)
(* a source that is missing, failing or damaged (host_monitor/runtime).      *)
(*                                                                           *)
(* A world is what a collector finds on the host at one moment:              *)
(*   tool     the state of the command it runs: "ok", "missing" from PATH,   *)
(*            "failing" (a non-zero exit, or a timeout), or "junk" (it ends  *)
(*            well, and prints no JSON);                                     *)
(*   place    the state of the file or the directory it reads: "ok",         *)
(*            "missing", or "denied";                                        *)
(*   entries  the lines, objects, files or sockets found there, in order.    *)
(* An entry is a function from the names of the words the parser looks for   *)
(* to the words; a word that is not there is not in the domain, and Cut      *)
(* stands where a keyword ends its line.                                     *)
(*                                                                           *)
(* A row is cut down to the fields its collector is judged on: it is what    *)
(* content_hash digests, so two rows are one artifact iff they are equal.    *)
EXTENDS Naturals, Sequences, FiniteSets

\* Where the host moves on while one entry is read: these words of it are read
\* before, the others after.
CONSTANT FirstRead

None == "<none>"
Cut == "<cut>"

\* Rows that are not rows: the parser drops the entry, or raises on it.
Skip == [skip |-> "skip"]
Crash == [crash |-> "crash"]

Has(entry, names) == names \subseteq DOMAIN entry

\* dict.get, and a keyword's operand
Get(entry, name) == IF name \in DOMAIN entry THEN entry[name] ELSE None
Pick(entry, names) == [name \in names |-> Get(entry, name)]

\* What list(collect()) comes to: every row, or the exception of one of them.
Failed == [failed |-> TRUE, rows |-> {}]
Outcome(rows) ==
  IF \E i \in DOMAIN rows : rows[i] = Crash THEN Failed
  ELSE [failed |-> FALSE, rows |-> {rows[i] : i \in DOMAIN rows} \ {Skip}]
Both(first, second) ==
  IF first.failed \/ second.failed THEN Failed
  ELSE [failed |-> FALSE, rows |-> first.rows \cup second.rows]
Nothing == [failed |-> FALSE, rows |-> {}]

EachEntry(Row(_), entries) == [i \in DOMAIN entries |-> Row(entries[i])]

-----------------------------------------------------------------------------
(* CommandRunner: the same process run, with three ways to fail.             *)

\* json: a missing binary, a timeout, a non-zero exit and what is not JSON
\* all raise
JsonDocument(world) == world.tool = "ok"
\* text: a missing binary, a timeout or a non-zero exit is the empty string
Text(world) == IF world.tool = "ok" THEN world.entries ELSE <<>>

\* CommandSnapshot.rows: the binary is looked up first, then run; a missing
\* one is an error and a failing one an empty text
MissingTool(world) == world.tool = "missing"
CommandSnapshot(before, after, Parse(_)) ==
  IF MissingTool(before) THEN Failed ELSE Outcome(Parse(Text(after)))

\* FileSnapshot.rows: a file that cannot be read is not parsed
FileReads(world) == world.place = "ok"
FileSnapshot(world, Parse(_)) ==
  IF FileReads(world) THEN Outcome(Parse(world.entries)) ELSE Nothing

\* SystemProfiler.sections: every failure reaches the collector
Sections(world) == [failed |-> ~JsonDocument(world), entries |-> world.entries]

\* ProfilerReport.entries: only a missing binary does
ReportEntries(world) ==
  [failed |-> MissingTool(world),
   entries |-> IF JsonDocument(world) THEN world.entries ELSE <<>>]

\* PsJson.objects: what is not an object is passed over
ObjectRow(Row(_), entry) == IF Has(entry, {"scalar"}) THEN Skip ELSE Row(entry)
Objects(Row(_), entries) == EachEntry(LAMBDA entry : ObjectRow(Row, entry), entries)

\* The row of each entry of a report
ReportRows(report, Row(_)) ==
  IF report.failed THEN Failed ELSE Outcome(EachEntry(Row, report.entries))

SystemProfiler(world, Row(_)) == ReportRows(Sections(world), Row)
ProfilerReport(world, Row(_)) == ReportRows(ReportEntries(world), Row)
\* PowerShell.json and the collectors' PsJson().objects
PowerShell(world, Row(_)) ==
  ReportRows(ReportEntries(world), LAMBDA entry : ObjectRow(Row, entry))

-----------------------------------------------------------------------------
(* Walks: the directory is listed at one moment and each file is read later. *)

\* The file now at a listed path, or nothing. A directory that can no longer
\* be listed can still be read from.
Gone == [gone |-> "gone"]
Later(entry, world) ==
  IF world.place # "missing" /\ \E i \in DOMAIN world.entries : world.entries[i]["id"] = entry["id"]
  THEN world.entries[CHOOSE i \in DOMAIN world.entries :
                       world.entries[i]["id"] = entry["id"]]
  ELSE Gone

\* What is read of an entry word by word: some as it was listed, the rest as it
\* is later
Mixed(listed, later) ==
  [word \in (DOMAIN listed \cap FirstRead) \cup (DOMAIN later \ FirstRead) |->
     IF word \in FirstRead THEN listed[word] ELSE later[word]]

\* What a test has found there before the host moves on, and the read that
\* follows does not find any more
Torn(listed, later, word) == later = Gone /\ word \in DOMAIN listed \cap FirstRead

Opens(entry) == entry # Gone /\ "locked" \notin DOMAIN entry

\* Path.read_text in a try, HostPaths.read_plist, JsonFile.load: a file that
\* is gone, unreadable or does not parse is not there
Readable(entry) == Opens(entry) /\ "broken" \notin DOMAIN entry

\* ConfigParser.read in a try for configparser.Error and OSError. The library
\* itself passes over a file it cannot open, as if it were empty; text that is
\* not UTF-8 raises what neither catches.
IniText(entry) ==
  CASE ~Opens(entry) -> Gone
    [] Has(entry, {"garbled"}) -> Crash
    [] Has(entry, {"broken"}) -> Skip
    [] OTHER -> entry
Ini(entry, Row(_)) ==
  LET text == IniText(entry) IN IF text \in {Crash, Skip} THEN text ELSE Row(text)

\* VisibleFiles.files: a directory that cannot be listed holds nothing
Listed(world) == IF world.place = "ok" THEN world.entries ELSE <<>>

\* One directory, listed before and read after
Walk(before, after, Row(_, _)) ==
  LET found == Listed(before)
  IN  Outcome([i \in DOMAIN found |-> Row(found[i], Later(found[i], after))])
=============================================================================
