-------------------------------- MODULE Spool --------------------------------
(***************************************************************************)
(* internal/spool: the directory of one-reading files, one system call at  *)
(* a time, so that a crash can fall between any two of them.  One process  *)
(* uses it; what may differ from the happy path is where that process      *)
(* dies, which calls fail, what a power cut does to files that were never  *)
(* synced, and what the clock says when the process starts again (Run      *)
(* numbers readings from time.Now().UnixNano()).                           *)
(***************************************************************************)
EXTENDS SpoolNames

CONSTANTS
    PerRun,       \* bound: readings added by one run
    Worlds,       \* [faults, starts, forward]: the calls that may fail (see Fault),
                  \* the clock readings runs start from, and whether a restart
                  \* never reads an earlier one
    MaxHarm       \* bound: files one power cut may harm

Starts == UNION {w.starts : w \in Worlds}

\* A run adds far fewer readings than the clock's nanoseconds advance, so two
\* runs never use the same name.
ASSUME StartsAssumption ==
    /\ Starts \subseteq Nat
    /\ PerRun \in Nat
    /\ \A s, t \in Starts : s < t => s + PerRun < t

ASSUME WorldsAssumption ==
    /\ \A w \in Worlds : /\ w.faults \subseteq {"write", "rename", "list", "read", "remove"}
                         /\ w.forward \in BOOLEAN
    /\ MaxHarm \in Nat

VARIABLES
    world,       \* which of Worlds; it never changes
    dir,         \* the committed files, <seq>.json
    tmp,         \* the partial files, <seq>.json.tmp
    damaged,     \* committed files that do not hold valid JSON
    pc,          \* the call the process is in
    start,       \* the clock when this run began
    seq,         \* the run loop's sequence number
    used,        \* the clock readings runs have started from
    list,        \* the names the current call has still to visit
    entries,     \* what Take has collected, or Drop has still to remove
    result       \* how the last Add or Take returned

vars == <<world, dir, tmp, damaged, pc, start, seq, used, list, entries, result>>
disk == <<dir, tmp, damaged>>
run  == <<world, start, seq, used>>

Fault(call) == call \in world.faults

\* The name visited next: every loop goes through the sorted listing.
First(S) == CHOOSE n \in S : \A m \in S : n <= m

\* What the clock may read when a run begins.
MayStart(s) ==
    /\ s \in world.starts \ used
    /\ world.forward => \A t \in used : t < s

Init ==
    /\ world \in Worlds
    /\ dir = {} /\ tmp = {} /\ damaged = {}
    /\ pc = "down"
    /\ start = 0 /\ seq = 0 /\ used = {}
    /\ list = {} /\ entries = {}
    /\ result = "none"

-----------------------------------------------------------------------------
(* New: make the directory and sweep the partial files of earlier runs.  A *)
(* directory that cannot be listed is left unswept, and a file that cannot *)
(* be removed is left.                                                     *)
NoSweep == UNCHANGED tmp                                        \* mutant of SweepPartials

SweepPartials ==
    \/ tmp' = {}
    \/ Fault("remove") /\ tmp' \in SUBSET tmp
    \/ Fault("list") /\ UNCHANGED tmp

New(s) ==
    /\ pc = "down"
    /\ MayStart(s)
    /\ SweepPartials
    /\ start' = s /\ seq' = s /\ used' = used \cup {s}
    /\ pc' = "idle" /\ result' = "none"
    /\ UNCHANGED <<world, dir, damaged, list, entries>>

\* Add: the partial file is written, or the write failed (a full disk) and
\* what it left is removed.
AddWrite ==
    /\ pc = "idle"
    /\ seq < start + PerRun
    /\ seq' = seq + 1
    /\ \/ /\ tmp' = tmp \cup {seq'}
          /\ pc' = "rename" /\ result' = "none"
       \/ /\ Fault("write")
          /\ \/ tmp' = tmp
             \/ Fault("remove") /\ tmp' = tmp \cup {seq'}
          /\ pc' = "idle" /\ result' = "adderror"
    /\ UNCHANGED <<world, dir, damaged, start, used, list, entries>>

\* The rename commits the reading, or failed and the partial file is removed.
AddRename ==
    /\ pc = "rename"
    /\ \/ /\ tmp' = tmp \ {seq}
          /\ dir' = dir \cup {seq}
          /\ pc' = "trimlist" /\ UNCHANGED result
       \/ /\ Fault("rename")
          /\ \/ tmp' = tmp \ {seq}
             \/ Fault("remove") /\ tmp' = tmp
          /\ pc' = "idle" /\ result' = "adderror" /\ UNCHANGED dir
    /\ UNCHANGED <<damaged, run, list, entries>>

\* trim: list once, then remove what is in excess.  A failed listing makes
\* Add return an error although the reading is committed.
TrimList ==
    /\ pc = "trimlist"
    /\ \/ list' = Surplus(dir) /\ pc' = "trim" /\ UNCHANGED result
       \/ Fault("list") /\ pc' = "idle" /\ result' = "adderror" /\ UNCHANGED list
    /\ UNCHANGED <<disk, run, entries>>

TrimOne ==
    /\ pc = "trim" /\ list # {}
    /\ LET n == First(list) IN
         /\ list' = list \ {n}
         /\ \/ /\ dir' = dir \ {n}
               /\ damaged' = damaged \ {n}
            \/ Fault("remove") /\ UNCHANGED <<dir, damaged>>
    /\ UNCHANGED <<tmp, pc, run, entries, result>>

TrimDone ==
    /\ pc = "trim" /\ list = {}
    /\ pc' = "idle" /\ result' = "added"
    /\ UNCHANGED <<disk, run, list, entries>>

-----------------------------------------------------------------------------
(* Take: list, then read the oldest MaxBatch one by one.                   *)
TakeList ==
    /\ pc = "idle"
    /\ \/ list' = Oldest(dir, MaxBatch) /\ pc' = "read" /\ result' = "none"
       \/ Fault("list") /\ pc' = "idle" /\ result' = "takeerror" /\ UNCHANGED list
    /\ entries' = {}
    /\ UNCHANGED <<disk, run>>

TakeFailed ==
    /\ list' = {} /\ entries' = {}
    /\ pc' = "idle" /\ result' = "takeerror"
    /\ UNCHANGED <<dir, damaged>>

ReadFailsRemoved(n) ==                                          \* mutant of ReadFails
    /\ Fault("read")
    /\ list' = list \ {n} /\ dir' = dir \ {n} /\ damaged' = damaged \ {n}
    /\ UNCHANGED <<entries, pc, result>>

\* A file that cannot be read fails the whole Take.
ReadFails(n) ==
    /\ Fault("read")
    /\ TakeFailed

ReadDamagedBlocks(n) == n \in damaged /\ TakeFailed   \* mutant of ReadDamaged

\* One that is not JSON is removed and skipped.
ReadDamaged(n) ==
    /\ n \in damaged
    /\ list' = list \ {n}
    /\ \/ dir' = dir \ {n} /\ damaged' = damaged \ {n}
       \/ Fault("remove") /\ UNCHANGED <<dir, damaged>>
    /\ UNCHANGED <<entries, pc, result>>

ReadSound(n) ==
    /\ n \notin damaged
    /\ list' = list \ {n} /\ entries' = entries \cup {n}
    /\ UNCHANGED <<dir, damaged, pc, result>>

TakeRead ==
    /\ pc = "read" /\ list # {}
    /\ LET n == First(list) IN ReadFails(n) \/ ReadDamaged(n) \/ ReadSound(n)
    /\ UNCHANGED <<tmp, run>>

TakeDone ==
    /\ pc = "read" /\ list = {}
    /\ pc' = "taken" /\ result' = "took"
    /\ UNCHANGED <<disk, run, list, entries>>

-----------------------------------------------------------------------------
(* The caller's decision after the push: the batch is settled and dropped, *)
(* or it is kept for the next attempt.                                     *)
DropBegin ==
    /\ pc = "taken"
    /\ pc' = "drop"
    /\ UNCHANGED <<disk, run, list, entries, result>>

Keep ==
    /\ pc = "taken"
    /\ pc' = "idle" /\ entries' = {}
    /\ UNCHANGED <<disk, run, list, result>>

\* Drop removes the batch file by file.
DropOne ==
    /\ pc = "drop" /\ entries # {}
    /\ LET n == First(entries) IN
         /\ entries' = entries \ {n}
         /\ \/ dir' = dir \ {n}
            \/ Fault("remove") /\ UNCHANGED dir
    /\ UNCHANGED <<tmp, damaged, pc, run, list, result>>

DropDone ==
    /\ pc = "drop" /\ entries = {}
    /\ pc' = "idle"
    /\ UNCHANGED <<disk, run, list, entries, result>>

-----------------------------------------------------------------------------
(* The process dies between any two calls.  Nothing here was synced, so a  *)
(* power cut may leave committed files empty.                              *)
Crash(D) ==
    /\ pc # "down"
    /\ \E s \in Starts : MayStart(s)        \* bound: one run per start
    /\ Cardinality(D) <= MaxHarm
    /\ damaged' = damaged \cup D
    /\ pc' = "down" /\ list' = {} /\ entries' = {} /\ result' = "none"
    /\ UNCHANGED <<dir, tmp, run>>

Call ==
    \/ AddWrite \/ AddRename \/ TrimList \/ TrimOne \/ TrimDone
    \/ TakeList \/ TakeRead \/ TakeDone
    \/ DropBegin \/ Keep \/ DropOne \/ DropDone

Next ==
    \/ \E s \in Starts : New(s)
    \/ Call
    \/ \E D \in SUBSET dir : Crash(D)

Spec == Init /\ [][Next]_vars

\* The process keeps running, is restarted when it died, and is not refused
\* by the server for ever.
Fairness ==
    /\ WF_vars(Call)
    /\ WF_vars(\E s \in Starts : New(s))
    /\ SF_vars(DropBegin)

FairSpec == Spec /\ Fairness

-----------------------------------------------------------------------------
(* Properties                                                              *)

\* When Add has returned nil, at most Max readings are on disk: the cap that
\* keeps a machine that cannot reach InfraNest from filling its own disk.  It
\* has to hold after any number of crashes between a rename and its trim, as
\* long as the disk lets files be removed.
AddBounds ==
    result = "added" /\ ~Fault("remove") => Cardinality(dir) <= Max

\* When Add has returned nil, the reading it was given is on disk: the spool
\* evicts the oldest rather than refusing the newest, unless the clock went
\* back and made the newest the oldest by name.
AddKeepsReading == result = "added" /\ world.forward => seq \in dir

\* A running agent leaves at most the one partial file it is writing, whatever
\* earlier runs left: the sweep in New and the removals in Add see to it where
\* the directory can be listed and files removed.
PartialsBounded ==
    pc # "down" /\ ~Fault("remove") /\ ~Fault("list") =>
        tmp \subseteq IF pc = "rename" THEN {seq} ELSE {}

\* The spool keeps its promise to its caller at every system call and across
\* every crash: see ReadingStore.
Store == INSTANCE ReadingStore WITH
    held <- dir,
    spoiled <- damaged,
    offered <- IF pc \in {"taken", "drop"} THEN entries ELSE {}

KeepsPromise == Store!StoreSpec

\* Every reading on disk leaves it in the end, as long as the server settles
\* batches now and then and reads do not fail for ever: no damaged file may
\* block the head of the spool.
Drains ==
    \A n \in {s + k : s \in Starts, k \in 1..PerRun} :
        n \in dir /\ world.faults \cap {"read", "list", "remove"} = {} ~> n \notin dir

=============================================================================
