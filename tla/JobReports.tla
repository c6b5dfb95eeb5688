----------------------------- MODULE JobReports -----------------------------
(* Reports of wrapped jobs: `infranest-agent run --job NAME -- COMMAND`    *)
(* (internal/jobrun), the drop folder it leaves its report in, and the     *)
(* agent's side of that folder (internal/jobs).  Wrappers, whoever else    *)
(* writes to the folder, and the agent share nothing but the folder and    *)
(* take one system call at a time.                                         *)
EXTENDS Integers, Sequences, FiniteSets, FiniteSetsExt, Functions

CONSTANTS
    Wrappers,       \* runs of the wrapper; each has a report id of its own
    Litter,         \* ids of files in the folder that no wrapper wrote
    CommandLines,   \* id -> the arguments it may be given, sequences of words
    Codes,          \* exit codes a command may end with
    Outputs,        \* what a command may write: [out, err], sequences of lines
    MaxLines, MaxPerPush, MaxWaiting,       \* limits of the report and of Take
    Hour, MaxAge,   \* age at which a partial file, and a report, is given up
    Faults,         \* calls that may fail: "write", "rename", "read", "remove", "copy"
    MaxTime         \* bound on the clock

ASSUME JobAssumptions ==
    /\ Wrappers \cap Litter = {}
    /\ MaxLines \in Nat \ {0} /\ MaxPerPush \in Nat \ {0} /\ MaxWaiting \in Nat \ {0}
    /\ Hour \in Nat /\ MaxAge \in Nat /\ MaxTime \in Nat
    /\ Codes \subseteq 0..255

\* What a line a command writes is to the wrapper: "secret" is something Mask
\* recognises; "begin", "key", "rest" and "end" are of a private key, of which
\* Mask recognises the first line and a body line of the usual length, and not
\* a short one (the last of the body mostly is) nor the line that ends it.
Lines == {"plain", "secret", "begin", "key", "rest", "end"}

ASSUME OutputsAssumption == Outputs \subseteq [out : Seq(Lines), err : Seq(Lines)]

VARIABLES
    wrapper,    \* id -> where its process is and what it will exit with
    cmd,        \* id -> "none", "running" or "ended": the wrapped command
    asked,      \* id -> stops asked of the wrapper and not yet passed on
    report,     \* id -> the report Run made
    folder,     \* the files: [id, form, mod]
    phase, look, found, out,    \* the agent: its step, and Take's lists
    now,        \* the clock
    fate,       \* history: id -> how its report left the folder
    wrote       \* history: id -> what the command wrote

vars == <<wrapper, cmd, asked, report, folder, phase, look, found, out, now, fate, wrote>>
job == <<wrapper, cmd, asked, report, wrote>>
agent == <<phase, look, found, out>>

\* Whether a call succeeds: it may fail where it is among the faults.
Succeeds(f) == IF f \in Faults THEN BOOLEAN ELSE {TRUE}

-----------------------------------------------------------------------------
(* The wrapper's command line.                                             *)

\* Whether `run` was given to the wrapper rather than to the service.
Wants(args) == \E i \in DOMAIN args : args[i] \in {"--job", "--"}

NoOptions == [ok |-> TRUE, job |-> "unset", quiet |-> FALSE, command |-> <<>>]
BadOptions == [NoOptions EXCEPT !.ok = FALSE]

\* What the words from i on say; a later --job wins over an earlier one.
Words(args) ==
    LET n == Len(args)
        from[i \in 1..n + 2] ==
          IF i > n THEN NoOptions
          ELSE CASE args[i] = "--" -> [NoOptions EXCEPT !.command = SubSeq(args, i + 1, n)]
                 [] args[i] = "--job" ->
                      IF i = n THEN BadOptions
                      ELSE [from[i + 2] EXCEPT !.job = IF @ = "unset" THEN args[i + 1] ELSE @]
                 [] args[i] = "--no-output" -> [from[i + 1] EXCEPT !.quiet = TRUE]
                 [] OTHER -> BadOptions
    IN  from[1]

\* A run needs a name, neither blank nor too long, and a command.
Parse(args) ==
    LET o == Words(args)
    IN  [o EXCEPT !.ok = @ /\ o.job \notin {"unset", "blank", "long"} /\ o.command # <<>>]

-----------------------------------------------------------------------------
(* The output of a failed run, in Lines until it is "masked".              *)

\* tailBuffer: the last lines written to one output.
LastN(s, n) == SubSeq(s, Max({1, Len(s) - n + 1}), Len(s))
tailBuffer(s) == LastN(s, MaxLines)

LastLinesShared(o, e) == LastN(e \o o, MaxLines)        \* mutant of lastLines

\* Up to half the room is kept for the error output, which comes last.
lastLines(o, e) ==
    LET keepErr == IF Len(e) > MaxLines \div 2 /\ o # <<>> THEN MaxLines \div 2
                   ELSE Min({Len(e), MaxLines})
    IN  LastN(o, MaxLines - keepErr) \o LastN(e, keepErr)

Mask(l) == IF l \in {"secret", "begin", "key"} THEN "masked" ELSE l

\* Line i comes after a key's first line, and no last line since.
InKey(s, i) == \E j \in 1..i - 1 : s[j] = "begin" /\ \A k \in j + 1..i - 1 : s[k] # "end"

\* Every line masked, and everything from a key's first to its last line.
MaskLines(s) == [i \in 1..Len(s) |-> IF InKey(s, i) THEN "masked" ELSE Mask(s[i])]

Clipped(r) == [r EXCEPT !.output = LastN(@, MaxLines)]

NoReport == [job |-> "", code |-> 0, signal |-> FALSE, error |-> FALSE,
             output |-> <<>>, withheld |-> FALSE]

\* The report on a run that ended with this code.
Told(r, quiet, o) ==
    Clipped(IF r.code = 0 THEN r
            ELSE IF quiet THEN [r EXCEPT !.withheld = TRUE]
            ELSE [r EXCEPT !.output =
                    MaskLines(lastLines(tailBuffer(o.out), tailBuffer(o.err)))])

\* The reports as a push carries them, with or without output as the server
\* asks.
Reports(S, withOutput) ==
    {LET r == report[id] IN
     IF ~withOutput /\ r.output # <<>> THEN [r EXCEPT !.output = <<>>, !.withheld = TRUE]
     ELSE r : id \in S}

-----------------------------------------------------------------------------
(* Files and wrappers.                                                     *)
Forms == {"tmp", "json", "other"}
At(id, form) == {f \in folder : f.id = id /\ f.form = form}

Silent == [out |-> <<>>, err |-> <<>>]
Idle == [pc |-> "asked", code |-> 0, quiet |-> FALSE, said |-> FALSE]

Init ==
    /\ wrapper = [w \in Wrappers |-> Idle]
    /\ cmd = [w \in Wrappers |-> "none"]
    /\ asked = [w \in Wrappers |-> 0]
    /\ report = [w \in Wrappers |-> NoReport]
    /\ folder = {} /\ now = 0
    /\ phase = "idle" /\ look = {} /\ found = {} /\ out = {}
    /\ fate = [w \in Wrappers |-> "none"]
    /\ wrote = [w \in Wrappers |-> Silent]

\* Arguments that do not parse, or a binary with borrowed rights: the wrapper
\* says so and nothing runs.
Refuse(w, args) ==
    /\ wrapper[w].pc = "asked" /\ Wants(args)
    /\ wrapper' = [wrapper EXCEPT ![w].pc = "exit", ![w].said = TRUE,
                                  ![w].code = IF Parse(args).ok THEN 126 ELSE 2]
    /\ UNCHANGED <<cmd, asked, report, folder, agent, now, fate, wrote>>

\* Run up to signal.Notify, from which on a stop is kept in a channel.
Begin(w, args) ==
    /\ wrapper[w].pc = "asked" /\ Wants(args) /\ Parse(args).ok
    /\ wrapper' = [wrapper EXCEPT ![w].pc = "ready", ![w].quiet = Parse(args).quiet]
    /\ report' = [report EXCEPT ![w].job = Parse(args).job]
    /\ UNCHANGED <<cmd, asked, folder, agent, now, fate, wrote>>

\* What Run concludes, and leaves Main to write down and to exit with.
Concluded(w, r, o) ==
    /\ report' = [report EXCEPT ![w] = Told(r, wrapper[w].quiet, o)]
    /\ wrapper' = [wrapper EXCEPT ![w].pc = "write", ![w].code = r.code]
    /\ asked' = [asked EXCEPT ![w] = 0]
    /\ wrote' = [wrote EXCEPT ![w] = o]

Start(w) ==
    /\ wrapper[w].pc = "ready"
    /\ wrapper' = [wrapper EXCEPT ![w].pc = "running"]
    /\ cmd' = [cmd EXCEPT ![w] = "running"]
    /\ UNCHANGED <<asked, report, folder, agent, now, fate, wrote>>

\* It never started: the shell's codes for not found and not executable.
StartFails(w, c) ==
    /\ wrapper[w].pc = "ready" /\ c \in {126, 127}
    /\ Concluded(w, [report[w] EXCEPT !.code = c, !.error = TRUE], Silent)
    /\ UNCHANGED <<cmd, folder, agent, now, fate>>

\* The goroutine that passes a stop on while the command runs.
Forward(w) ==
    /\ wrapper[w].pc = "running" /\ asked[w] > 0
    /\ asked' = [asked EXCEPT ![w] = @ - 1]
    /\ UNCHANGED <<wrapper, cmd, report, folder, agent, now, fate, wrote>>

\* The command ends by itself or by a signal (128 + 15), and Wait returns.
\* When passing its output on failed, Wait returns that error for a command
\* that ended with 0, and the run is taken for one that never started.
Ends(w, c, o) ==
    /\ wrapper[w].pc = "running"
    /\ cmd' = [cmd EXCEPT ![w] = "ended"]
    /\ \E copied \in Succeeds("copy") :
         LET code == IF c = 0 /\ ~copied THEN 126 ELSE c IN
         Concluded(w, [report[w] EXCEPT !.code = code, !.signal = (c = 143), !.error = (code # c)], o)
    /\ UNCHANGED <<folder, agent, now, fate>>

\* jobs.Write up to the rename; a call that fails leaves no partial file.
\* The error is said and the run exits with the code it has.
WriteTmp(w) ==
    /\ wrapper[w].pc = "write"
    /\ \E written \in Succeeds("write") :
         IF written
         THEN /\ folder' = folder \cup {[id |-> w, form |-> "tmp", mod |-> now]}
              /\ wrapper' = [wrapper EXCEPT ![w].pc = "rename"]
         ELSE /\ wrapper' = [wrapper EXCEPT ![w].pc = "exit", ![w].said = TRUE]
              /\ UNCHANGED folder
    /\ UNCHANGED <<cmd, asked, report, agent, now, fate, wrote>>

RenameUnchecked(w) ==                                   \* mutant of Rename
    /\ wrapper[w].pc = "rename"
    /\ folder' = {f \in folder : f.id # w} \cup {[f EXCEPT !.form = "json"] : f \in At(w, "tmp")}
    /\ wrapper' = [wrapper EXCEPT ![w].pc = "exit"]
    /\ UNCHANGED <<cmd, asked, report, agent, now, fate, wrote>>

\* The rename commits the report, unless it fails, as it does when the agent has
\* taken the partial file for one that was left behind; the partial file goes.
Rename(w) ==
    /\ wrapper[w].pc = "rename"
    /\ \E renamed \in Succeeds("rename") :
         LET made == {[f EXCEPT !.form = "json"] : f \in IF renamed THEN At(w, "tmp") ELSE {}} IN
         /\ folder' = (folder \ At(w, "tmp")) \cup made
         /\ wrapper' = [wrapper EXCEPT ![w].pc = "exit", ![w].said = made = {}]
    /\ UNCHANGED <<cmd, asked, report, agent, now, fate, wrote>>

CatchesNothing(w) == FALSE                              \* mutant of Catches

\* From Notify to the end of Run a stop is kept for the command; before and
\* after, it ends the wrapper.
Catches(w) == wrapper[w].pc \in {"ready", "running"}

\* Cron, a shutdown or Ctrl-C asks the wrapper to stop (once, as a bound).
Stop(w) ==
    /\ wrapper[w].pc \notin {"exit", "killed"} /\ asked[w] = 0
    /\ IF Catches(w)
       THEN asked' = [asked EXCEPT ![w] = 1] /\ UNCHANGED wrapper
       ELSE wrapper' = [wrapper EXCEPT ![w].pc = "killed"] /\ UNCHANGED asked
    /\ UNCHANGED <<cmd, report, folder, agent, now, fate, wrote>>

\* Anyone may write to the folder: a file that is no report, by its name, kind
\* or size ("other") or only by what is in it.
Drop(id, form) ==
    /\ form \in {"json", "other"}
    /\ \A f \in folder : f.id # id
    /\ folder' = folder \cup {[id |-> id, form |-> form, mod |-> now]}
    /\ UNCHANGED <<job, agent, now, fate>>

-----------------------------------------------------------------------------
(* The agent: Take, the push, and Remove.                                  *)

\* os.Remove of these files; errors are ignored.  Why the reports among them
\* go is noted, where they do go.
Unlink(S, why) ==
    \E all \in Succeeds("remove") : \E S1 \in IF all THEN {S} ELSE SUBSET S :
        LET gone == {f \in folder : \E g \in S1 : f.id = g.id /\ f.form = g.form} IN
        /\ folder' = folder \ gone
        /\ fate' = [w \in Wrappers |->
                      IF \E f \in gone : f.id = w /\ f.form = "json" THEN why ELSE fate[w]]

TakeList ==
    /\ phase = "idle"
    /\ phase' = "look" /\ look' = {<<f.id, f.form>> : f \in folder}
    /\ found' = {} /\ out' = {}
    /\ UNCHANGED <<job, folder, now, fate>>

Expired(f) == now - f.mod > Hour

\* One entry, in the order of the listing (names are random, so any fixed
\* order will do): gone since the listing (renamed, say) is passed over; a partial
\* file has an hour; what is no report or too old to be sent goes.
Look ==
    /\ phase = "look" /\ look # {}
    /\ LET entry == CHOOSE e \in look : TRUE
           form == entry[2]
           here == At(entry[1], form) IN
       /\ look' = look \ {entry}
       /\ CASE form = "tmp" ->
                 /\ Unlink({f \in here : Expired(f)}, "early")
                 /\ UNCHANGED found
            [] form = "other" -> Unlink(here, "other") /\ UNCHANGED found
            [] form = "json" ->
                 /\ Unlink({f \in here : now - f.mod > MaxAge}, "aged")
                 /\ found' = found \cup {f \in here : now - f.mod <= MaxAge}
    /\ UNCHANGED <<job, phase, out, now>>

KeepNewest(keep) == \A d \in found \ keep, k \in keep : d.mod <= k.mod

\* Sorted by time, in any order among equals; the oldest beyond MaxWaiting go.
Trim ==
    /\ phase = "look" /\ look = {}
    /\ \E keep \in SUBSET found :
         /\ Cardinality(keep) = Min({Cardinality(found), MaxWaiting})
         /\ KeepNewest(keep)
         /\ Unlink(found \ keep, "crowded")
         /\ found' = keep
    /\ phase' = "read"
    /\ UNCHANGED <<job, look, out, now>>

\* The oldest of those left, as long as the push has room.  What is no report,
\* or could not be read, is deleted.
Read(f) ==
    /\ phase = "read" /\ f \in found /\ Cardinality(out) < MaxPerPush
    /\ \A g \in found : f.mod <= g.mod
    /\ found' = found \ {f}
    /\ \E readable \in Succeeds("read") :
         IF f.id \in Wrappers /\ f \in folder /\ readable
         THEN out' = out \cup {f} /\ UNCHANGED <<folder, fate>>
         ELSE Unlink({f}, "unread") /\ UNCHANGED out
    /\ UNCHANGED <<job, phase, look, now>>

TakeDone ==
    /\ phase = "read" /\ (found = {} \/ Cardinality(out) = MaxPerPush)
    /\ phase' = "push" /\ found' = {}
    /\ UNCHANGED <<job, folder, look, out, now, fate>>

RemoveNothing(S) == UNCHANGED <<folder, fate>>          \* mutant of RemoveSent
RemoveSent(S) == Unlink(S, "sent")

Accepted ==
    /\ phase = "push" /\ phase' = "idle" /\ out' = {}
    /\ RemoveSent(out)
    /\ UNCHANGED <<job, look, found, now>>

\* A push that fails leaves the files for the next one.
Failed ==
    /\ phase = "push" /\ phase' = "idle" /\ out' = {}
    /\ UNCHANGED <<job, folder, look, found, now, fate>>

\* Time passes; a wrapper may be paused for as long as it takes.
Tick ==
    /\ now < MaxTime
    /\ now' = now + 1
    /\ UNCHANGED <<job, folder, agent, fate>>

Wrapped(w) ==
    \/ \E args \in CommandLines[w] : Refuse(w, args) \/ Begin(w, args)
    \/ Start(w)
    \/ \E c \in {126, 127} : StartFails(w, c)
    \/ Forward(w)
    \/ \E c \in Codes, o \in Outputs : Ends(w, c, o)
    \/ WriteTmp(w) \/ Rename(w)

Agent ==
    \/ TakeList
    \/ Look \/ Trim
    \/ \E f \in found : Read(f)
    \/ TakeDone
    \/ Accepted \/ Failed

Next ==
    \/ \E w \in Wrappers : Wrapped(w) \/ Stop(w)
    \/ \E id \in Litter, form \in Forms : Drop(id, form)
    \/ Agent
    \/ Tick

Spec == Init /\ [][Next]_vars

\* The agent keeps pushing, a push succeeds now and then, a stop that waits in
\* the channel is read, and time passes.
Fairness ==
    /\ WF_vars(Agent) /\ SF_vars(Accepted)
    /\ \A w \in Wrappers : WF_vars(Forward(w))
    /\ WF_vars(Tick)

FairSpec == Spec /\ Fairness

-----------------------------------------------------------------------------
(* Properties                                                              *)

\* A run of the wrapper that exits has its report in the folder, or sent, or
\* given up for its age or for newer ones, or has said that it could not
\* report: jobs.Write's error paths, against an agent that lists, looks, trims
\* and removes between any two of its calls, and however long it was paused.
NoSilentLoss ==
    \A w \in Wrappers :
        wrapper[w].pc = "exit" =>
            \/ wrapper[w].said
            \/ At(w, "json") # {}
            \/ fate[w] \in {"sent", "aged", "crowded"}

\* A stop never ends the wrapper while its command runs on without it: Run
\* asks for the signals before it starts the command and lets go of them after
\* the command has ended.
NoOrphan == \A w \in Wrappers : wrapper[w].pc = "killed" => cmd[w] # "running"

\* Every short line of a key that is near enough to the end of an output to be
\* kept has its key's first line in the half of the room that output is sure of.
KeysNear(s) ==
    \A p \in DOMAIN s :
        s[p] = "rest" /\ p > Len(s) - MaxLines =>
            \E j \in 1..p - 1 : /\ j > Len(s) - MaxLines \div 2 /\ s[j] = "begin"
                               /\ \A k \in j + 1..p - 1 : s[k] # "end"

\* What a push carries of a job's output is what was asked for: nothing where
\* the wrapper or the server's setting withholds it or the job succeeded, and
\* otherwise at most MaxLines lines that end with the last error line of the
\* command, whatever else it wrote, without any line Mask recognises, and
\* without any line of a private key that begins within the last MaxLines \div 2
\* lines of its output.  (The lines are cut before they are masked: of a key
\* that begins further back, the short lines may be told.)
OutputAsAsked ==
    \A f \in out, asks \in BOOLEAN : \A r \in Reports({f.id}, asks) :
        LET o == wrote[f.id]
            due == asks /\ r.code # 0 /\ ~wrapper[f.id].quiet IN
        /\ ~due => r.output = <<>>
        /\ due /\ o.err # <<>> =>
              r.output # <<>> /\ r.output[Len(r.output)] \in {o.err[Len(o.err)], "masked"}
        /\ Len(r.output) <= MaxLines
        /\ Range(r.output) \cap {"secret", "begin", "key"} = {}
        /\ KeysNear(o.out) /\ KeysNear(o.err) => "rest" \notin Range(r.output)

\* Everything a wrapper leaves in the folder leaves it in the end: a partial file
\* by its age at the latest, and a report that stays young enough by being sent,
\* unless newer ones crowd it out; nothing else anyone leaves there, and no
\* failed push, keeps it waiting for ever.  (What stays young is what the bound
\* on the clock leaves below MaxAge.)
FolderDrains ==
    \A w \in Wrappers :
        /\ (\E f \in At(w, "tmp") : f.mod + Hour < MaxTime) ~> At(w, "tmp") = {}
        /\ (\E f \in At(w, "json") : f.mod + MaxAge >= MaxTime) ~> fate[w] \in {"sent", "crowded"}

=============================================================================
