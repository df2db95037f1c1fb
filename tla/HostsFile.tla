----------------------------- MODULE HostsFile -----------------------------
(***************************************************************************)
(* The managed block avai keeps in the OS hosts file: a transform of the   *)
(* file's lines, and the actors that read the file, transform what they    *)
(* read and replace the file with the result.  Nothing locks the file      *)
(* between the read and the replacement.                                   *)
(***************************************************************************)
EXTENDS Integers, Sequences, SequencesExt

CONSTANTS
    HostsFiles,     \* what the file may hold at first, sequences of lines
    Accesses,       \* what the OS lets the process do (see Access)
    UserLines,      \* lines the user adds or takes away
    MaxEdits,       \* bound: edits by the user
    MaxCommands     \* bound: hosts commands and dashboard launches

VARIABLES
    hosts,          \* the file, a sequence of lines
    access,         \* [read |-> ..., write |-> ...], fixed at first
    actor,          \* progress of the launching dashboard and of the command
    edits, commands

hostsVars == <<hosts, access, actor, edits, commands>>

Begin == [ip |-> "#", name |-> "begin"]
End == [ip |-> "#", name |-> "end"]
Note == [ip |-> "#", name |-> "note"]
Entry(ip, name) == [ip |-> ip, name |-> name]
Active(line) == line.ip # "#"
Dashboard == "avai.local"
Loopback == <<"v4", "v6">>

\* A file is a sequence of lines, and those have an address and a name.
ASSUME LinesAssumption ==
    /\ \A file \in HostsFiles : file \in Seq(ToSet(file))
    /\ \A l \in UserLines \cup UNION {ToSet(file) : file \in HostsFiles} :
          l = Entry(l.ip, l.name)

FirstAt(lines, line) == SelectInSeq(lines, LAMBDA l : l = line)

\* Markers that are missing or in the wrong order leave an empty block.
WellFormed(lines) ==
    /\ FirstAt(lines, Begin) # 0
    /\ FirstAt(lines, Begin) < FirstAt(lines, End)
Before(lines) ==
    IF WellFormed(lines) THEN SubSeq(lines, 1, FirstAt(lines, Begin) - 1) ELSE lines
After(lines) ==
    IF WellFormed(lines) THEN SubSeq(lines, FirstAt(lines, End) + 1, Len(lines)) ELSE <<>>
Block(lines) ==
    IF WellFormed(lines)
    THEN SubSeq(lines, FirstAt(lines, Begin) + 1, FirstAt(lines, End) - 1)
    ELSE <<>>

AppendNew(seq, e) == IF e \in ToSet(seq) THEN seq ELSE Append(seq, e)

\* The values of the lines that have one, each where it first appears.
Gathered(lines, value) ==
    LET upTo[i \in 0..Len(lines)] ==
            IF i = 0 THEN <<>>
            ELSE IF lines[i] \in DOMAIN value
                 THEN AppendNew(upTo[i - 1], value[lines[i]])
                 ELSE upTo[i - 1]
    IN upTo[Len(lines)]

\* The block as a dictionary, in the order of its names.
Entries(lines) == {l \in ToSet(Block(lines)) : Active(l)}
Names(lines) == Gathered(Block(lines), [l \in Entries(lines) |-> l.name])
Addresses(lines, name) ==
    Gathered(Block(lines), [l \in {k \in Entries(lines) : k.name = name} |-> l.ip])

Resolves(lines, name) == \E l \in ToSet(lines) : Active(l) /\ l.name = name

EntriesOf(name, ips) == [i \in DOMAIN ips |-> Entry(ips[i], name)]

\* Slip: only entries are kept around the block.
RewriteEntries(lines, names, ips) ==
    SelectSeq(Before(lines), Active)
    \o (IF names = <<>> THEN <<>>
        ELSE <<Begin, Note>>
             \o FlattenSeq([i \in DOMAIN names |-> EntriesOf(names[i], ips[i])])
             \o <<End>>)
    \o SelectSeq(After(lines), Active)

Rewrite(lines, names, ips) ==
    Before(lines)
    \o (IF names = <<>> THEN <<>>
        ELSE <<Begin, Note>>
             \o FlattenSeq([i \in DOMAIN names |-> EntriesOf(names[i], ips[i])])
             \o <<End>>)
    \o After(lines)

WithMapping(lines, name) ==
    LET names == AppendNew(Names(lines), name) IN
    IF Addresses(lines, name) = Loopback THEN lines
    ELSE Rewrite(lines, names,
            [i \in DOMAIN names |-> IF names[i] = name THEN Loopback
                                    ELSE Addresses(lines, names[i])])

\* Slip: the whole block goes with the name.
WithoutBlock(lines, name) ==
    IF name \notin ToSet(Names(lines)) THEN lines ELSE Rewrite(lines, <<>>, <<>>)

WithoutMapping(lines, name) ==
    LET names == RemoveFirst(Names(lines), name) IN
    IF name \notin ToSet(Names(lines)) THEN lines
    ELSE Rewrite(lines, names,
                 [i \in DOMAIN names |-> Addresses(lines, names[i])])

(***************************************************************************)
(* The actors.                                                             *)
(***************************************************************************)
Resting == [pc |-> "rest", do |-> "none", name |-> Dashboard, text |-> <<>>,
            outcome |-> "none"]
Ends(a, outcome) == actor' = [actor EXCEPT ![a] = [Resting EXCEPT !.outcome = outcome]]
HostsIdle == UNCHANGED <<access, edits, commands>>

\* The command line runs install or remove; the launching dashboard looks
\* whether the name resolves before it installs.
Ask(a, do, name) ==
    /\ actor[a].pc = "rest"
    /\ commands < MaxCommands
    /\ actor' = [actor EXCEPT ![a] =
                    [Resting EXCEPT !.pc = IF do = "ensure" THEN "resolve" ELSE "read",
                                    !.do = do, !.name = name]]
    /\ commands' = commands + 1
    /\ UNCHANGED <<hosts, access, edits>>

\* Only a missing file is expected; any other failure to read the file
\* escapes as it is, past the handlers for HostsError.
ReadEscapes(a) ==
    /\ actor[a].pc \in {"resolve", "read"}
    /\ access.read # "ok"
    /\ Ends(a, "crash")
    /\ UNCHANGED hosts /\ HostsIdle

CheckResolves(a) ==
    /\ actor[a].pc = "resolve"
    /\ access.read = "ok"
    /\ IF Resolves(hosts, actor[a].name) THEN Ends(a, "unchanged")
       ELSE actor' = [actor EXCEPT ![a].pc = "read"]
    /\ UNCHANGED hosts /\ HostsIdle

Transformed(a) ==
    IF actor[a].do = "remove" THEN WithoutMapping(actor[a].text, actor[a].name)
    ELSE WithMapping(actor[a].text, actor[a].name)

ReadHosts(a) ==
    /\ actor[a].pc = "read"
    /\ access.read = "ok"
    /\ actor' = [actor EXCEPT ![a].pc = "write", ![a].text = hosts]
    /\ UNCHANGED hosts /\ HostsIdle

\* Written to a temporary file and moved over the old one.
ReplaceHosts(a) ==
    /\ actor[a].pc = "write"
    /\ IF Transformed(a) = actor[a].text
       THEN Ends(a, "unchanged") /\ UNCHANGED hosts
       ELSE /\ access.write = "ok"
            /\ hosts' = Transformed(a)
            /\ Ends(a, IF actor[a].do = "remove" THEN "removed" ELSE "created")
    /\ HostsIdle

\* No privilege asks for it; any other failure is a HostsError.
ReplaceFails(a) ==
    /\ actor[a].pc = "write"
    /\ Transformed(a) # actor[a].text
    /\ access.write # "ok"
    /\ Ends(a, IF access.write = "denied" THEN "needs_privilege" ELSE "error")
    /\ UNCHANGED hosts /\ HostsIdle

UserEdits ==
    /\ edits < MaxEdits
    /\ \/ \E l \in UserLines : hosts' = Append(hosts, l) \/ hosts' = <<l>> \o hosts
       \/ \E i \in DOMAIN hosts : hosts[i] \in UserLines /\ hosts' = RemoveAt(hosts, i)
    /\ edits' = edits + 1
    /\ UNCHANGED <<access, actor, commands>>

HostsStep(a) ==
    \/ ReadEscapes(a) \/ CheckResolves(a) \/ ReadHosts(a)
    \/ ReplaceHosts(a) \/ ReplaceFails(a)

HostsInit ==
    /\ hosts \in HostsFiles
    /\ access \in Accesses
    /\ actor = [a \in {"dashboard", "command"} |-> Resting]
    /\ edits = 0 /\ commands = 0

(***************************************************************************)
(* Properties.                                                             *)
(***************************************************************************)
\* What is left of a file without its managed block.
Unmanaged(lines) == Before(lines) \o After(lines)

\* Replacing the file keeps every line that was read outside the managed
\* block, verbatim and in order, whether a block remains or the last name of it
\* was removed, and every line when the markers are damaged (HostsTable: all
\* other lines verbatim).
OtherLinesVerbatim == [][
    \A a \in DOMAIN actor :
        actor[a].pc = "write" /\ actor'[a].pc = "rest" /\ hosts' # hosts =>
            IF WellFormed(actor[a].text)
            THEN Unmanaged(actor[a].text) \in {hosts', Unmanaged(hosts')}
            ELSE IsPrefix(actor[a].text, hosts')]_hostsVars

\* With one intact block and no second one behind it, or with no markers at all,
\* installing twice is installing once, the name then resolves, and removing it
\* leaves the user's lines and the other names (the block's edits are idempotent
\* and reversible).
Intact(lines) ==
    IF WellFormed(lines) THEN ~WellFormed(After(lines))
    ELSE {Begin, End} \cap ToSet(lines) = {}

InstallIsReversible ==
    LET once == WithMapping(hosts, Dashboard)
        undone == WithoutMapping(once, Dashboard)
    IN Intact(hosts) =>
        /\ WithMapping(once, Dashboard) = once
        /\ Resolves(once, Dashboard)
        /\ Unmanaged(undone) = Unmanaged(hosts)
        /\ Addresses(undone, Dashboard) = <<>>
        /\ \A n \in ToSet(Names(hosts)) \ {Dashboard} :
              Addresses(undone, n) = Addresses(hosts, n)
=============================================================================
