--------------------------- MODULE JournalReader ----------------------------
(* The two questions the agent asks of systemd's journal: a unit's last    *)
(* lines, and one hour's errors and warnings (internal/journal/journal.go  *)
(* and file.go).  The files are listed, opened, and walked backwards from  *)
(* the newest entry under bounds; journald rotates its file meanwhile, and *)
(* what cannot be opened or read is passed over without a word.            *)
EXTENDS Integers, Sequences, FiniteSets, FiniteSetsExt, SequencesExt, Sums

CONSTANTS
    Journals,       \* journals to try: sequences of files, in the order of their names
    AskedUnit,      \* the unit whose lines are asked for
    SinceTime, UntilTime,   \* the window of the lines; SinceTime is also the hour
    HourEnd,
    MaxScan,        \* entries read for one question
    MaxLines, MaxLineBytes, MaxSnippetBytes, MaxUnits

\* A file is the sequence of its entries, oldest first; the first of a journal
\* is the one being written.  An entry has a time, a unit or None, a priority
\* (syslog's number, negative when it has none), whether it is a login record - by
\* its facility, its program or the kernel's audit -, whether the facility is auth
\* or authpriv, whether its words are a refused login's, and its message: a number
\* of lines of a size, 0 when it is stored compressed, or Torn when the entry
\* itself cannot be read.
Torn == -1
None == 0
Whole(e) == e.bytes # Torn
Entry == [at : Nat \ {0}, seq : Nat, unit : Nat, priority : Int, login : BOOLEAN, auth : BOOLEAN,
          refused : BOOLEAN, lines : Nat \ {0}, bytes : Nat \cup {Torn}]

Tail0(f) == IF f = <<>> THEN 0 ELSE f[Len(f)].at        \* zero when the file is empty

\* journald numbers what it writes, and its clock is not set back meanwhile: a
\* file is in order, and one of two files ended before the other began.
Written(f) == \A i, k \in DOMAIN f : i < k => f[i].seq < f[k].seq /\ f[i].at <= f[k].at
Precedes(f, g) ==
    Tail0(f) < Tail0(g) /\ \A i \in DOMAIN f, k \in DOMAIN g : f[i].seq < g[k].seq
InOrder(j) ==
    /\ \A a \in DOMAIN j : Written(j[a])
    /\ \A a, b \in DOMAIN j :
         a = b \/ j[a] = <<>> \/ j[b] = <<>> \/ Precedes(j[a], j[b]) \/ Precedes(j[b], j[a])

ASSUME JournalAssumptions ==
    /\ \A j \in Journals : j \in Seq(Seq(Entry)) /\ InOrder(j)
    /\ {SinceTime, UntilTime, HourEnd, MaxScan, MaxLines, MaxLineBytes, MaxSnippetBytes} \subseteq Nat
    /\ MaxUnits \in Nat

VARIABLES
    journal,    \* the files as they are
    question,   \* "lines" or "hour"
    stage,      \* "list", "open", "files", "entries" or "done"
    names,      \* the files that were listed
    opened,     \* the entries of those that were opened, newest file first
    place,      \* entries of the first of them still to be walked
    ofFile,     \* entries scanned in it
    scanned,    \* entries scanned before it
    found,      \* entries kept for the lines, newest first
    compressed, \* messages that were not read
    counts,     \* unit -> [errors, warnings], for the units met
    refusals,   \* refused logins counted
    cut,        \* countHour: more than it reads
    reply,      \* the answer, or NoReply
    unread      \* history: the entries of files that were not opened, and of the
                \* parts of a file that could not be read

readerVars == <<journal, question, stage, names, opened, place, ofFile, scanned, found, compressed,
                counts, refusals, cut, reply, unread>>
NoReply == [done |-> FALSE]
walkVars == <<place, ofFile, scanned, found, compressed, counts, refusals, cut>>

ReaderWorld == journal \in Journals /\ question \in {"lines", "hour"}

ReaderStart ==
    /\ stage = "list" /\ names = {} /\ opened = <<>>
    /\ place = 0 /\ ofFile = 0 /\ scanned = 0
    /\ found = <<>> /\ compressed = 0 /\ counts = <<>> /\ refusals = 0 /\ cut = FALSE
    /\ reply = NoReply /\ unread = {}

ReaderInit == ReaderWorld /\ ReaderStart

-----------------------------------------------------------------------------
\* systemFiles.
ListFiles ==
    /\ stage = "list"
    /\ stage' = "open" /\ names' = DOMAIN journal
    /\ UNCHANGED <<journal, question, opened, walkVars, reply, unread>>

\* journald closes the file it writes, under a new name, and begins another.
Rotate ==
    /\ stage \in {"list", "open"} /\ Len(journal) = 2
    /\ journal' = <<<<>>, journal[2], journal[1]>>
    /\ UNCHANGED <<question, stage, names, opened, walkVars, reply, unread>>

AsNamed(S) ==                                           \* mutant of ByTail
    [k \in 1..Cardinality(S) |-> CHOOSE j \in S : Cardinality({i \in S : i <= j}) = k]

\* The files by the time of their newest entry, the newest first, and by name
\* where it is the same.
ByTail(S) ==
    LET first(i, j) == \/ Tail0(journal[i]) > Tail0(journal[j])
                       \/ Tail0(journal[i]) = Tail0(journal[j]) /\ i <= j
    IN  [k \in 1..Cardinality(S) |-> CHOOSE j \in S : Cardinality({i \in S : first(i, j)}) = k]

AllEntries == UNION {ToSet(journal[i]) : i \in DOMAIN journal}

\* open: what is under the names that were listed, but for the files that cannot
\* be opened, or whose header is damaged or of a newer format.
OpenFiles ==
    /\ stage = "open"
    /\ stage' = "files"
    /\ \E readable \in SUBSET names :
         LET order == ByTail(readable) IN opened' = [i \in DOMAIN order |-> journal[order[i]]]
    /\ unread' = AllEntries \ UNION {ToSet(opened'[i]) : i \in DOMAIN opened'}
    /\ UNCHANGED <<journal, question, names, walkVars, reply>>

\* The loop over the files goes on, passing over one that is too old.
Enough == (question = "lines" /\ Len(found) >= MaxLines) \/ scanned >= MaxScan

\* The walk begins at the end of the file, or where the chain of its entry arrays
\* is torn: File.arrays lists them from the oldest, so the newest are lost.
NextFile ==
    /\ stage = "files" /\ opened # <<>> /\ ~Enough
    /\ LET file == Head(opened)
           t == Tail0(file)
       IN  IF t # 0 /\ t < SinceTime
           THEN opened' = Tail(opened) /\ UNCHANGED <<stage, place, ofFile, unread>>
           ELSE /\ stage' = "entries" /\ ofFile' = 0 /\ UNCHANGED opened
                /\ place' \in 0..Len(file)
                /\ unread' = unread \cup {file[i] : i \in place' + 1..Len(file)}
    /\ UNCHANGED <<journal, question, names, scanned, found, compressed, counts, refusals,
                   cut, reply>>

EndBackwardQuietly ==                                   \* mutant of EndBackward
    /\ stage' = "files" /\ opened' = Tail(opened)
    /\ scanned' = scanned + ofFile'
    /\ UNCHANGED cut

\* Backward's loop ends: at the start of the file, at its bound, at an entry
\* that is too old, or because enough lines were found.
EndBackward ==
    /\ stage' = "files" /\ opened' = Tail(opened)
    /\ scanned' = scanned + ofFile'
    /\ cut' = (cut \/ (question = "hour" /\ scanned' >= MaxScan))

\* What becomes of an entry when a unit's lines are asked for.
KeepLine(e) ==
    /\ UNCHANGED <<counts, refusals>>
    /\ LET mine == e.unit = AskedUnit /\ e.at <= UntilTime /\ e.priority <= 6 /\ ~e.login
       IN  /\ found' = IF mine /\ e.bytes > 0 THEN Append(found, e) ELSE found
           /\ compressed' = IF mine /\ e.bytes = 0 THEN compressed + 1 ELSE compressed

\* An error or a warning of a unit, and a refused login.
Counts(e) == e.unit # None /\ e.priority \in 0..4
Refusal(e) == e.auth /\ e.bytes > 0 /\ e.refused

\* And when an hour is counted.
CountEntry(e) ==
    /\ UNCHANGED <<found, compressed>>
    /\ refusals' = IF e.at < HourEnd /\ Refusal(e) THEN refusals + 1 ELSE refusals
    /\ LET was == IF e.unit \in DOMAIN counts THEN counts[e.unit] ELSE [errors |-> 0, warnings |-> 0]
           now == IF e.priority <= 3 THEN [was EXCEPT !.errors = @ + 1]
                  ELSE [was EXCEPT !.warnings = @ + 1]
       IN  counts' = IF e.at < HourEnd /\ Counts(e)
                     THEN [u \in DOMAIN counts \cup {e.unit} |-> IF u = e.unit THEN now ELSE counts[u]]
                     ELSE counts

\* The bound on entries holds for all files together.
Bounded(n) == scanned + n >= MaxScan

\* One entry of the walk.
ScanEntry ==
    /\ stage = "entries" /\ place > 0 /\ ~Bounded(ofFile)
    /\ LET e == Head(opened)[place] IN
       IF ~Whole(e)
       THEN place' = place - 1 /\ UNCHANGED <<stage, opened, ofFile, scanned, found, compressed, counts,
                                        refusals, cut>>
       ELSE /\ ofFile' = ofFile + 1
            /\ place' = place - 1
            /\ IF e.at < SinceTime
               THEN EndBackward /\ UNCHANGED <<found, compressed, counts, refusals>>
               ELSE /\ IF question = "lines" THEN KeepLine(e) ELSE CountEntry(e)
                    /\ IF question = "lines" /\ Len(found') >= MaxLines THEN EndBackward
                       ELSE UNCHANGED <<stage, opened, scanned, cut>>
    /\ UNCHANGED <<journal, question, names, reply, unread>>

EndWalk ==
    /\ stage = "entries" /\ (place = 0 \/ Bounded(ofFile))
    /\ UNCHANGED <<place, ofFile, found, compressed, counts, refusals>> /\ EndBackward
    /\ UNCHANGED <<journal, question, names, reply, unread>>

\* eachEntry cannot read the array it has come to, and says nothing of it.
ReadFails ==
    /\ stage = "entries" /\ place > 0
    /\ UNCHANGED <<place, ofFile, found, compressed, counts, refusals>> /\ EndBackward
    /\ unread' = unread \cup {Head(opened)[i] : i \in 1..place}
    /\ UNCHANGED <<journal, question, names, reply>>

-----------------------------------------------------------------------------
Clipped(e) == Min({e.bytes, MaxLineBytes})

\* The messages are cut into lines (found is newest first): the lines of the k
\* newest, and the message the nth line from the end is of.
Rows(k) == Total([i \in 1..k |-> found[i].lines])
Row(n) == found[Min({k \in DOMAIN found : n <= Rows(k)})]

\* The oldest lines go until the rest fits.
Fitting ==
    LET total(n) == Total([i \in 1..n |-> Clipped(Row(i))])
        most == Min({Rows(Len(found)), 2 * MaxLines})
    IN  [i \in 1..Max({n \in 0..most : total(n) <= MaxSnippetBytes}) |-> Row(i)]

\* The noisiest units, errors before warnings.
Noisiest ==
    LET louder(u, v) == \/ counts[u].errors > counts[v].errors
                        \/ /\ counts[u].errors = counts[v].errors
                           /\ \/ counts[u].warnings > counts[v].warnings
                              \/ counts[u].warnings = counts[v].warnings /\ u <= v
        met == DOMAIN counts
    IN  [k \in 1..Min({Cardinality(met), MaxUnits}) |->
            CHOOSE v \in met : Cardinality({u \in met : louder(u, v)}) = k]

Answered ==
    /\ stage = "files" /\ (opened = <<>> \/ Enough)
    /\ stage' = "done"
    /\ cut' = (cut \/ (question = "hour" /\ opened # <<>>))
    /\ reply' = IF question = "lines"
                THEN [done |-> TRUE, lines |-> Reverse(Fitting), compressed |-> compressed,
                      truncated |-> Len(Fitting) < Rows(Len(found))
                                    \/ \E i \in DOMAIN found : found[i].bytes > MaxLineBytes]
                ELSE [done |-> TRUE, units |-> [i \in DOMAIN Noisiest |-> <<Noisiest[i], counts[Noisiest[i]]>>],
                      more |-> Cardinality(DOMAIN counts) - Len(Noisiest),
                      refusals |-> refusals, partial |-> cut']
    /\ UNCHANGED <<journal, question, names, opened, place, ofFile, scanned, found, compressed, counts,
                   refusals, unread>>

ReaderNext ==
    \/ ListFiles \/ Rotate \/ OpenFiles \/ NextFile
    \/ ScanEntry \/ EndWalk \/ ReadFails \/ Answered

ReaderSpec == ReaderInit /\ [][ReaderNext]_readerVars

-----------------------------------------------------------------------------
(* Properties                                                              *)

\* A unit's lines are its newest ones, oldest first, from whichever files they
\* are in, never a login record, and only the oldest message may have lost lines:
\* nothing of the unit that could be read in the window is newer than a line that
\* is told.  What could not be read may be, and the answer does not show it.
LinesNewest ==
    reply.done /\ question = "lines" =>
        LET lines == reply.lines
            told == ToSet(lines)
            mine == {e \in AllEntries : e.unit = AskedUnit /\ e.at \in SinceTime..UntilTime
                                     /\ e.priority <= 6 /\ ~e.login /\ e.bytes > 0}
        IN  /\ told \subseteq mine
            /\ \A i, j \in DOMAIN lines : i < j => lines[i].seq <= lines[j].seq
            /\ \A e \in mine \ (told \cup unread), l \in told : e.seq < l.seq
            /\ \A e \in told : e = lines[1] \/ Cardinality({i \in DOMAIN lines : lines[i] = e}) = e.lines

\* An hour that is not called partial is counted in full, as far as it could be
\* read: every error and warning of a unit, and every refused login.  What could
\* not be read does not make it partial.
HourHonest ==
    reply.done /\ question = "hour" =>
        LET hour == {e \in AllEntries \ unread : Whole(e) /\ e.at >= SinceTime /\ e.at < HourEnd}
            exact(u) == [errors |-> Cardinality({e \in hour : e.unit = u /\ e.priority \in 0..3}),
                         warnings |-> Cardinality({e \in hour : e.unit = u /\ e.priority = 4})]
        IN  reply.partial \/
            /\ \A i \in DOMAIN reply.units : reply.units[i][2] = exact(reply.units[i][1])
            /\ Len(reply.units) + reply.more = Cardinality({e.unit : e \in {x \in hour : Counts(x)}})
            /\ reply.refusals = Cardinality({e \in hour : Refusal(e)})
=============================================================================
