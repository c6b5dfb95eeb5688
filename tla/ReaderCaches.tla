---------------------------- MODULE ReaderCaches ----------------------------
(* The readers that keep their answer until a file changes: CronReader     *)
(* (internal/collect/cron.go) and SetupReader (setup.go).  Each knows a    *)
(* file by what stat says of it; the first takes that before it reads, the *)
(* second after.                                                           *)
EXTENDS Integers, Sequences, FiniteSets, SequencesExt

CONSTANTS
    CacheWorlds,    \* what to look at: [reader, changes], the kinds of changes that occur
    MaxCronFiles,   \* entries of a folder the fingerprint notes
    MaxStamps       \* bound on the changes of files

ASSUME CacheAssumptions ==
    /\ \A w \in CacheWorlds :
          w.reader \in {"cron", "setup"} /\ w.changes \subseteq {"write", "create", "remove", "chmod"}
    /\ MaxCronFiles \in Nat \ {0} /\ MaxStamps \in Nat

\* The machine: a crontab, anacron's program and table, and a run-parts folder
\* with its entries in order.
Entries == <<"backup.bak", "rotate">>
Tables == {"crontab", "anacron", "anacrontab"}      \* cronFingerprint notes them by name
FileNames == Tables \cup ToSet(Entries)

VARIABLES
    world,      \* which of CacheWorlds
    disk,       \* file -> [there, stamp, open, text]; open: readable, or executable for a script
    folder,     \* the folder's own stamp
    stamps,     \* changes so far
    read,       \* "idle" or "reading"
    toRead,     \* files still to be read
    gathered,   \* file -> what was read of it
    fp,         \* the fingerprint this read goes by
    fingerprint, \* the fingerprint kept, or NoPrint
    answer,     \* the answer kept
    unseen      \* history: files that changed since they were read, as the print cannot show

cacheVars == <<world, disk, folder, stamps, read, toRead, gathered, fp, fingerprint, answer, unseen>>

NoPrint == <<>>
NotYet == "not yet"

\* A crontab may run the folder at a time of its own ("timed"), at that time
\* unless anacron is installed ("either"), or not mention it ("other").
Texts(f) == CASE f = "crontab" -> {"timed", "either", "other"}
              [] f = "anacrontab" -> {"daily", "other"}
              [] OTHER -> {"other"}

CacheStart ==
    /\ disk = [f \in FileNames |-> [there |-> f # "anacron", stamp |-> 0, open |-> TRUE,
                                    text |-> IF f = "crontab" THEN "either" ELSE "other"]]
    /\ folder = 0 /\ stamps = 0
    /\ read = "idle" /\ toRead = {} /\ gathered = [f \in FileNames |-> NotYet]
    /\ fp = NoPrint /\ fingerprint = NoPrint /\ answer = {} /\ unseen = {}

CacheInit == world \in CacheWorlds /\ CacheStart

-----------------------------------------------------------------------------
\* The print that was taken when the last read began, or ended.
LastPrint == IF read = "reading" THEN fp ELSE fingerprint

\* Whether a change of a file leaves its mark out of the print by which it will be
\* looked for: SetupReader takes its print after the read, so that what changes
\* between the two is on it; and of the cron files the print has no mode, and no
\* trace of a table that came after it and is gone again.
Unseen(kind, f) ==
    /\ f \notin toRead
    /\ \/ world.reader = "setup" /\ read = "reading"
       \/ world.reader = "cron" /\ kind = "chmod"
       \/ /\ world.reader = "cron" /\ kind = "remove" /\ f \in Tables
          /\ LastPrint # NoPrint /\ LastPrint[2][f] = -1

\* Files change at any time, while they are read too.
Changes(kind, f) ==
    /\ kind \in world.changes /\ stamps < MaxStamps
    /\ stamps' = stamps + 1
    /\ unseen' = IF Unseen(kind, f) THEN unseen \cup {f} ELSE unseen
    /\ UNCHANGED <<world, read, toRead, gathered, fp, fingerprint, answer>>

WriteFile(f, text) ==
    /\ Changes("write", f) /\ disk[f].there /\ text \in Texts(f) \ {disk[f].text}
    /\ disk' = [disk EXCEPT ![f].text = text, ![f].stamp = stamps']
    /\ UNCHANGED folder

CreateFile(f) ==
    /\ Changes("create", f) /\ ~disk[f].there
    /\ disk' = [disk EXCEPT ![f].there = TRUE, ![f].stamp = stamps']
    /\ folder' = IF f \in ToSet(Entries) THEN stamps' ELSE folder

RemoveFile(f) ==
    /\ Changes("remove", f) /\ disk[f].there
    /\ disk' = [disk EXCEPT ![f].there = FALSE]
    /\ folder' = IF f \in ToSet(Entries) THEN stamps' ELSE folder

\* A change of mode moves neither size nor modification time.
Chmod(f) ==
    /\ Changes("chmod", f) /\ disk[f].there
    /\ disk' = [disk EXCEPT ![f].open = ~@]
    /\ UNCHANGED folder

-----------------------------------------------------------------------------
\* What a read finds of a file.
Reads(f) == IF ~disk[f].there THEN "absent" ELSE IF ~disk[f].open THEN "closed" ELSE disk[f].text

\* cronFiles: leftovers and what cannot be run are passed over.
Scripts(g) == {f \in ToSet(Entries) \ {"backup.bak"} : g[f] \notin {"absent", "closed"}}

\* readCron: the scripts of a folder have the time of the line that runs it,
\* or anacron's period when anacron does, or none that is known.
readCron(g) ==
    LET byCrontab == g["crontab"] \in {"timed", "either"}
        byAnacron == IF byCrontab THEN g["crontab"] = "either" /\ g["anacron"] # "absent"
                     ELSE g["anacrontab"] = "daily"
        schedule == IF byAnacron THEN "period" ELSE IF byCrontab THEN "time" ELSE "none"
    IN  {<<s, schedule>> : s \in Scripts(g)}

\* The setup is made of everything that was read (SshSetup has it in detail).
readSetup(g) == {<<f, g[f]>> : f \in FileNames}

Conclude(g) == IF world.reader = "cron" THEN readCron(g) ELSE readSetup(g)

\* cronFingerprint: names, sizes and modification times, and of the folder as
\* many entries as are noted.
cronFingerprint ==
    LET present == SelectSeq(Entries, LAMBDA e : disk[e].there)
        noted == {present[i] : i \in DOMAIN present \cap 1..MaxCronFiles}
        at(f) == IF disk[f].there THEN disk[f].stamp ELSE -1
    IN  <<folder, [f \in Tables \cup noted |-> at(f)]>>

\* fingerprintOf: of every file that was looked at, the mode as well.
fingerprintOf ==
    <<folder, [f \in FileNames |-> IF disk[f].there THEN <<disk[f].stamp, disk[f].open>> ELSE <<>>]>>

Fingerprint == IF world.reader = "cron" THEN cronFingerprint ELSE fingerprintOf

\* Read is called: the answer kept stands while the fingerprint does.
ReadFresh ==
    /\ read = "idle" /\ fingerprint # NoPrint /\ Fingerprint = fingerprint
    /\ UNCHANGED cacheVars

PrintNever(reader) == FALSE                             \* mutant of PrintBefore

\* Whether the fingerprint that is kept was taken before the files were read.
PrintBefore(reader) == reader = "cron"

BeginRead ==
    /\ read = "idle" /\ (fingerprint = NoPrint \/ Fingerprint # fingerprint)
    /\ read' = "reading" /\ toRead' = FileNames
    /\ gathered' = [f \in FileNames |-> NotYet]
    /\ fp' = IF PrintBefore(world.reader) THEN Fingerprint ELSE NoPrint
    /\ unseen' = {}
    /\ UNCHANGED <<world, disk, folder, stamps, fingerprint, answer>>

ReadFile(f) ==
    /\ read = "reading" /\ f \in toRead
    /\ toRead' = toRead \ {f}
    /\ gathered' = [gathered EXCEPT ![f] = Reads(f)]
    /\ UNCHANGED <<world, disk, folder, stamps, read, fp, fingerprint, answer, unseen>>

EndRead ==
    /\ read = "reading" /\ toRead = {}
    /\ read' = "idle"
    /\ answer' = Conclude(gathered)
    /\ fingerprint' = IF fp # NoPrint THEN fp ELSE Fingerprint
    /\ gathered' = [f \in FileNames |-> NotYet] /\ fp' = NoPrint
    /\ UNCHANGED <<world, disk, folder, stamps, toRead, unseen>>

CacheNext ==
    \/ \E f \in FileNames : CreateFile(f) \/ RemoveFile(f) \/ Chmod(f) \/ ReadFile(f)
    \/ \E f \in FileNames, text \in {"timed", "either", "daily", "other"} : WriteFile(f, text)
    \/ ReadFresh \/ BeginRead \/ EndRead

CacheSpec == CacheInit /\ [][CacheNext]_cacheVars

-----------------------------------------------------------------------------
(* Properties                                                              *)

\* An answer that would be given again without reading is the one a read would
\* give now, although the files may change while they are read, in every way and
\* at every moment but those the print cannot show (Unseen).  There an answer
\* stays stale until another change, against what both readers promise, to keep
\* it "until a file changes": SetupReader's order of read and print loses every
\* change that falls between the two.
CachesFresh ==
    read = "idle" /\ fingerprint # NoPrint /\ fingerprint = Fingerprint /\ unseen = {} =>
        answer = Conclude([f \in FileNames |-> Reads(f)])
=============================================================================
