------------------------------ MODULE SshSetup ------------------------------
(* What the agent says of the SSH server's settings (readSSH in            *)
(* internal/collect/setup.go): sshd_config and what it includes are read   *)
(* line by line as sshd reads them, the first value of a keyword winning,  *)
(* except that some of the files may not be read by the agent.             *)
EXTENDS Integers, Sequences, FiniteSets, SequencesExt

CONSTANTS
    Mains,          \* contents of sshd_config to try: sequences of lines
    DropIns,        \* contents of the files of the folder it includes
    Keywords,       \* the keywords that are read
    MaxSSHDepth, MaxSSHFiles, MaxSSHPorts

\* A line sets a keyword, begins a Match block, includes the folder's files or
\* adds a port.  Main is sshd_config; the others are the folder's, in order.
Set(k, v) == [what |-> "set", key |-> k, value |-> v]
MatchLine == [what |-> "match", key |-> "", value |-> ""]
IncludeLine == [what |-> "include", key |-> "", value |-> ""]
PortLine(n) == [what |-> "port", key |-> "", value |-> n]
Main == 1
Included == <<2, 3>>
ConfigFiles == {Main} \cup ToSet(Included)
Folder == 0

\* The lines that are read set one of the keywords; none has the value
\* "unknown", with which sshd would not start.
ASSUME SshAssumptions ==
    /\ {MaxSSHDepth, MaxSSHFiles} \subseteq Nat /\ MaxSSHPorts \in Nat \ {0}
    /\ \A t \in Mains \cup DropIns :
        /\ Len(t) \in Nat /\ DOMAIN t = 1..Len(t)
        /\ \A i \in 1..Len(t) : t[i].what = "set" => t[i].key \in Keywords /\ t[i].value # "unknown"

VARIABLES
    content,    \* file -> its lines
    may,        \* file or Folder -> "read", "denied", or "broken" off before its last line
    frames,     \* the files being read, the innermost first: [file, line, inMatch, depth]
    begun,      \* files begun so far
    values,     \* keyword -> the value that was decided, for those that were
    ports, match,   \* ports met, and keywords a Match block sets
    sshBlocked, \* a file that could have decided something could not be read
    ssh         \* the result, or NoSetup

sshVars == <<content, may, frames, begun, values, ports, match, sshBlocked, ssh>>
NoSetup == [set |-> FALSE]

Frame(f, inMatch, depth) == [file |-> f, line |-> 0, inMatch |-> inMatch, depth |-> depth]

SshWorld ==
    /\ content \in {[f \in ConfigFiles |-> IF f = Main THEN m ELSE IF f = 2 THEN d ELSE e] :
                       m \in Mains, d \in DropIns, e \in DropIns}
    /\ may \in [ConfigFiles \cup {Folder} -> {"read", "denied", "broken"}]
    /\ may[Folder] # "broken"

SshStart ==
    /\ frames = <<Frame(Main, FALSE, 0)>> /\ begun = 0
    /\ values = <<>> /\ ports = {} /\ match = {} /\ sshBlocked = FALSE
    /\ ssh = NoSetup

SshInit == SshWorld /\ SshStart

-----------------------------------------------------------------------------
Top == Head(frames)
Line == content[Top.file][Top.line]
LinesRead(f) == IF may[f] = "broken" THEN Len(content[f]) - 1 ELSE Len(content[f])

\* The reading goes on with the next line of the innermost file.
NextLine(inMatch) == <<[Top EXCEPT !.line = @ + 1, !.inMatch = inMatch]>> \o Tail(frames)

\* What could not be read may have decided whatever nothing has decided yet,
\* unless all of it is inside a Match block.
CannotRead(inMatch) == sshBlocked' = (sshBlocked \/ ~inMatch)

\* A file is opened, left out because of their number, or found closed.
OpenFile ==
    /\ frames # <<>> /\ Top.line = 0
    /\ begun' = begun + 1
    /\ IF begun' > MaxSSHFiles THEN frames' = Tail(frames) /\ UNCHANGED sshBlocked
       ELSE IF may[Top.file] = "denied" THEN frames' = Tail(frames) /\ CannotRead(Top.inMatch)
       ELSE frames' = NextLine(Top.inMatch) /\ UNCHANGED sshBlocked
    /\ UNCHANGED <<content, may, values, ports, match, ssh>>

AtLine(what) ==
    /\ frames # <<>> /\ Top.line \in 1..LinesRead(Top.file)
    /\ Line.what = what

\* From here to the end of this file everything is for some users only.
BeginMatch ==
    /\ AtLine("match")
    /\ frames' = NextLine(TRUE)
    /\ UNCHANGED <<content, may, begun, values, ports, match, sshBlocked, ssh>>

\* The folder's files come in between, as deep as sshd goes; one the agent
\* cannot list may hold files sshd reads.
Include ==
    /\ AtLine("include")
    /\ LET inc == [i \in DOMAIN Included |-> Frame(Included[i], Top.inMatch, Top.depth + 1)] IN
       IF Top.depth + 1 > MaxSSHDepth THEN frames' = NextLine(Top.inMatch) /\ UNCHANGED sshBlocked
       ELSE IF may[Folder] = "denied" THEN frames' = NextLine(Top.inMatch) /\ CannotRead(Top.inMatch)
       ELSE frames' = inc \o NextLine(Top.inMatch) /\ UNCHANGED sshBlocked
    /\ UNCHANGED <<content, may, begun, values, ports, match, ssh>>

AddPort ==
    /\ AtLine("port")
    /\ ports' = IF Top.inMatch \/ Cardinality(ports) >= MaxSSHPorts THEN ports
                ELSE ports \cup {Line.value}
    /\ frames' = NextLine(Top.inMatch)
    /\ UNCHANGED <<content, may, begun, values, match, sshBlocked, ssh>>

DecidesFirst(k) == k \notin DOMAIN values               \* mutant of Decides

\* The first value wins; after a file that was not read none may be the first.
Decides(k) == k \notin DOMAIN values /\ ~sshBlocked

SetKeyword ==
    /\ AtLine("set")
    /\ match' = IF Top.inMatch THEN match \cup {Line.key} ELSE match
    /\ values' = IF ~Top.inMatch /\ Decides(Line.key)
                 THEN [k \in DOMAIN values \cup {Line.key} |->
                          IF k = Line.key THEN Line.value ELSE values[k]]
                 ELSE values
    /\ frames' = NextLine(Top.inMatch)
    /\ UNCHANGED <<content, may, begun, ports, sshBlocked, ssh>>

\* The end of a file, or where reading it broke off.
EndOfFile ==
    /\ frames # <<>> /\ Top.line > Max({0, LinesRead(Top.file)})
    /\ IF may[Top.file] = "broken" THEN CannotRead(Top.inMatch) ELSE UNCHANGED sshBlocked
    /\ frames' = Tail(frames)
    /\ UNCHANGED <<content, may, begun, values, ports, match, ssh>>

\* What is told of a keyword: what decided it, unknown, or sshd's default.
resolveKeyword(k) ==
    IF k \in DOMAIN values THEN values[k] ELSE IF sshBlocked THEN "unknown" ELSE "default"

ReadSSH ==
    /\ frames = <<>> /\ ssh = NoSetup
    /\ ssh' = [set |-> TRUE, values |-> [k \in Keywords |-> resolveKeyword(k)],
               ports |-> IF sshBlocked THEN {} ELSE IF ports = {} THEN {22} ELSE ports,
               match |-> match]
    /\ UNCHANGED <<content, may, frames, begun, values, ports, match, sshBlocked>>

SshNext == OpenFile \/ BeginMatch \/ Include \/ AddPort \/ SetKeyword \/ EndOfFile \/ ReadSSH

SshSpec == SshInit /\ [][SshNext]_sshVars

-----------------------------------------------------------------------------
(* What sshd itself makes of the same files, all of which it may read.     *)

\* The lines of a file that hold for everybody.
ForAll(t) == {i \in DOMAIN t : \A j \in 1..i : t[j].what # "match"}

\* What comes first, of those that say anything.
First(g) == LET some == {i \in DOMAIN g : g[i] # {}} IN IF some = {} THEN {} ELSE g[Min(some)]

\* The value a line gives to a keyword, if any, and the ports it adds; an
\* Include stands for what the folder's files say.
LineSets(l, k, folder) ==
    IF l.what = "set" /\ l.key = k THEN {l.value}
    ELSE IF l.what = "include" THEN First([j \in DOMAIN Included |-> folder[Included[j]].values[k]])
    ELSE {}
LinePorts(l, folder) ==
    IF l.what = "port" THEN {l.value}
    ELSE IF l.what = "include" THEN UNION {folder[f].ports : f \in ToSet(Included)}
    ELSE {}

\* What the lines S of the file t say together.
Silent == [values |-> [k \in Keywords |-> {}], ports |-> {}]
FileSays(t, S, folder) ==
    [values |-> [k \in Keywords |-> First([i \in S |-> LineSets(t[i], k, folder)])],
     ports |-> UNION {LinePorts(t[i], folder) : i \in S}]

\* What each of the files c says, when files are followed d deep.
Sshd(c) ==
    LET says[d \in 0..MaxSSHDepth + 1] ==
        [f \in ConfigFiles |->
            IF d = 0 THEN Silent ELSE FileSays(c[f], ForAll(c[f]), says[d - 1])]
    IN  says

WholeConfig == Sshd(content)[MaxSSHDepth + 1][Main]
SshdValue(k) == IF WholeConfig.values[k] = {} THEN "default" ELSE CHOOSE v \in WholeConfig.values[k] : TRUE
SshdPorts == IF WholeConfig.ports = {} THEN {22} ELSE WholeConfig.ports

\* A setting that is told is the one sshd has, whatever files the agent may
\* not read, wherever they are included and whatever Match blocks surround
\* them; where it cannot know it says so. Files past the number that is read
\* are the exception: the code leaves them out and tells the rest. The ports
\* told are sshd's, and all of them unless there are more than it keeps.
SshNeverGuessed ==
    ssh.set /\ begun <= MaxSSHFiles =>
        /\ \A k \in Keywords : ssh.values[k] \in {"unknown", SshdValue(k)}
        /\ ssh.ports \subseteq SshdPorts
        /\ ssh.ports \in {{}, SshdPorts} \/ Cardinality(ssh.ports) = MaxSSHPorts
        /\ (\A f \in DOMAIN may : may[f] = "read") => "unknown" \notin {ssh.values[k] : k \in Keywords}
=============================================================================
