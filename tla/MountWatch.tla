----------------------------- MODULE MountWatch -----------------------------
(* How a reading measures the mounted filesystems (readMounts in           *)
(* internal/collect/linux.go, mountwatch.go): every mount is probed in a   *)
(* goroutine of its own against one deadline, because a statfs on a share  *)
(* whose server is gone never returns; what did not answer is left alone   *)
(* for a while.                                                            *)
EXTENDS Integers, Sequences, FiniteSets, Functions

CONSTANTS
    Points,         \* mount points, numbered in the order of their names
    Filesystem,     \* point -> the filesystem mounted there
    Device,         \* point -> the device it is mounted from, by name
    Capacity,          \* filesystem -> its size
    Usages,         \* what may be used of a filesystem
    Unfillable,     \* points that are no disk: a bind-mounted file, say
    Retry,          \* how long a mount that did not answer is skipped, in ticks
    MaxStuck        \* bound on the goroutines stuck at one mount

ASSUME MountAssumptions ==
    /\ Points \subseteq Nat /\ IsFiniteSet(Points)
    /\ Unfillable \subseteq Points
    /\ DOMAIN Filesystem = Points /\ DOMAIN Device = Points
    /\ Retry \in Nat \ {0} /\ MaxStuck \in Nat \ {0}

VARIABLES
    used,       \* filesystem -> what is used of it
    wedged,     \* points whose server is gone
    stuck,      \* point -> goroutines abandoned there
    until,      \* point -> ticks for which it is still skipped, -1 if it is not
    probing,    \* whether readMounts is in probeMounts
    started,    \* points whose answer has not been received
    running,    \* points whose goroutine has not answered
    ch,         \* the answers waiting in the channel, in the order they came
    measured,   \* point -> what statfs said was used, where it was asked
    mounts,     \* the mounts received, in the order they were
    reading,    \* what readMounts returned last
    probed,     \* history: the points of that collection that were not skipped
    whole,      \* history: all of them answered in time
    busy,       \* history: filesystems written to since the probes were started
    givenUp     \* history: point -> ticks since a probe of it was given up

mountVars == <<used, wedged, stuck, until, probing, started, running, ch, measured, mounts,
               reading, probed, whole, busy, givenUp>>
probe == <<probing, started, running, ch, measured, mounts>>
told == <<reading, probed, whole>>

Filesystems == Range(Filesystem)

MountInit ==
    /\ used \in [Filesystems -> Usages] /\ busy = {}
    /\ measured = [p \in Points |-> used[Filesystem[p]]]
    /\ wedged = {}
    /\ stuck = [p \in Points |-> 0]
    /\ until = [p \in Points |-> -1]
    /\ probing = FALSE /\ started = {} /\ running = {} /\ ch = <<>> /\ mounts = <<>>
    /\ reading = <<>> /\ probed = {} /\ whole = FALSE
    /\ givenUp = [p \in Points |-> 0]

-----------------------------------------------------------------------------
Unsorted(s) == s                                        \* mutant of sortMounts

\* The mounts in the order of their names (a point is met once).
sortMounts(s) ==
    LET rank(p) == Cardinality({q \in Range(s) : q <= p})
    IN  [i \in 1..Cardinality(Range(s)) |-> CHOOSE p \in Range(s) : rank(p) = i]

\* What dedupeMounts takes for one filesystem: the same device, size and usage.
\* It would never take two without a device for one.
Alike(p, q) ==
    /\ Device[p] # "" /\ Device[p] = Device[q]
    /\ Capacity[Filesystem[p]] = Capacity[Filesystem[q]] /\ measured[p] = measured[q]

\* The first of the mounts that are alike.
dedupeMounts(s) ==
    LET first(i) == \A j \in 1..i - 1 : ~Alike(s[i], s[j])
        kept == {i \in DOMAIN s : first(i)}
        nth(k) == CHOOSE i \in kept : Cardinality({j \in kept : j <= i}) = k
    IN  [k \in 1..Cardinality(kept) |-> s[nth(k)]]

\* A skipped mount is skipped until its time is up; it is forgotten then.
blocked(p) == until[p] >= 0

BlockNothing(S) == until                                \* mutant of block

block(S) == [p \in Points |-> IF p \in S THEN Retry ELSE until[p]]

\* readMounts up to probeMounts' loop: a goroutine for every mount not skipped.
StartProbes ==
    /\ ~probing
    /\ \A p \in Points : ~blocked(p) /\ p \in wedged => stuck[p] < MaxStuck
    /\ probing' = TRUE
    /\ started' = {p \in Points : ~blocked(p)} /\ running' = started'
    /\ ch' = <<>> /\ mounts' = <<>>
    /\ probed' = started' /\ whole' = FALSE /\ busy' = {}
    /\ UNCHANGED <<used, wedged, stuck, until, measured, reading, givenUp>>

\* statMount returns in one of the goroutines, with what is used at the time,
\* and sends its answer.
Answer(p) ==
    /\ p \in running \ wedged
    /\ measured' = [measured EXCEPT ![p] = used[Filesystem[p]]]
    /\ running' = running \ {p} /\ ch' = Append(ch, p)
    /\ UNCHANGED <<used, wedged, stuck, until, probing, started, mounts, told, busy, givenUp>>

\* The loop receives the next answer; a mount that is no disk is left out.
Receive ==
    /\ probing /\ ch # <<>>
    /\ started' = started \ {Head(ch)} /\ ch' = Tail(ch)
    /\ mounts' = IF Head(ch) \in Unfillable THEN mounts ELSE Append(mounts, Head(ch))
    /\ UNCHANGED <<used, wedged, stuck, until, probing, running, measured, told, busy, givenUp>>

\* Every probe was answered.
AllAnswered ==
    /\ probing /\ started = {}
    /\ probing' = FALSE /\ mounts' = <<>>
    /\ reading' = dedupeMounts(sortMounts(mounts)) /\ whole' = TRUE
    /\ UNCHANGED <<used, wedged, stuck, until, started, running, ch, measured, probed, busy, givenUp>>

\* The deadline comes first, or is picked although an answer waits too: what
\* has not been received is blocked, and its goroutine, if it hangs, stays.
\* The mounts are returned as they came.
Deadline ==
    /\ probing /\ started # {}
    /\ probing' = FALSE /\ started' = {} /\ running' = {} /\ ch' = <<>> /\ mounts' = <<>>
    /\ until' = block(started)
    /\ stuck' = [p \in Points |-> IF p \in running \cap wedged THEN stuck[p] + 1 ELSE stuck[p]]
    /\ givenUp' = [p \in Points |-> IF p \in started THEN 0 ELSE givenUp[p]]
    /\ reading' = dedupeMounts(mounts) /\ whole' = FALSE
    /\ UNCHANGED <<used, wedged, measured, probed, busy>>

\* A server goes away, or comes back and releases what hangs at its mount.
Wedge(p) ==
    /\ p \notin wedged
    /\ wedged' = wedged \cup {p}
    /\ UNCHANGED <<used, stuck, until, probe, told, busy, givenUp>>

Release(p) ==
    /\ p \in wedged
    /\ wedged' = wedged \ {p}
    /\ stuck' = [stuck EXCEPT ![p] = 0]
    /\ UNCHANGED <<used, until, probe, told, busy, givenUp>>

\* Files are written and removed; it matters while a filesystem is being probed.
Write(f, u) ==
    /\ u # used[f] /\ \E p \in running : Filesystem[p] = f
    /\ used' = [used EXCEPT ![f] = u] /\ busy' = busy \cup {f}
    /\ UNCHANGED <<wedged, stuck, until, probe, told, givenUp>>

\* Time passes between collections.
MountTick ==
    /\ ~probing
    /\ until' = [p \in Points |-> IF until[p] >= 0 THEN until[p] - 1 ELSE -1]
    /\ givenUp' = [p \in Points |-> IF givenUp[p] <= Retry THEN givenUp[p] + 1 ELSE givenUp[p]]
    /\ UNCHANGED <<used, wedged, stuck, probe, told, busy>>

MountNext ==
    \/ StartProbes \/ Receive \/ AllAnswered \/ Deadline \/ MountTick
    \/ \E p \in Points : Answer(p) \/ Wedge(p) \/ Release(p)
    \/ \E f \in Filesystems, u \in Usages : Write(f, u)

MountSpec == MountInit /\ [][MountNext]_mountVars

-----------------------------------------------------------------------------
(* Properties                                                              *)

\* Points of one filesystem, mounted from one device.
SameDisk(p, q) == Device[p] # "" /\ Device[p] = Device[q] /\ Filesystem[p] = Filesystem[q]

\* Where all that were probed answered, in whatever order the goroutines finish:
\* of the points one device is mounted at, the first by name is reported and no
\* other, unless the filesystem was written to between its probes (they measure
\* its usage, by which dedupeMounts tells filesystems apart, one after the other);
\* and no point is left out but for one of the same device and size.
\* dedupeMounts keeps the first, so the order has to be fixed before it.
SurvivorSteady ==
    LET disks == probed \ Unfillable IN
    whole => \A p \in disks :
        /\ Filesystem[p] \notin busy /\ p \in Range(reading) =>
              \A q \in disks : SameDisk(p, q) => p <= q
        /\ \E q \in disks : q \in Range(reading) /\ q <= p /\ (q = p \/ Alike(p, q))

\* While goroutines hang at a mount, another is started there only when the
\* skip has run out since the last was given up: one dead share costs a
\* goroutine every Retry, and not one every collection.
RetryPaced ==
    [][\A p \in Points : p \in running' \ running /\ stuck[p] > 0 => givenUp[p] > Retry]_mountVars
=============================================================================
