------------------------------ MODULE Trackers ------------------------------
(* What the collector concludes from two readings of the same thing:       *)
(* restarts of a container from its start times (containers.go), traffic   *)
(* of a device from its counters (traffic.go), and the CPU share of a      *)
(* process from its ticks (readProcesses in linux.go).  Between two        *)
(* readings the thing may have gone, come back, started over, or become    *)
(* another with the same name.                                             *)
EXTENDS Integers, FiniteSets, FiniteSetsExt, Sums

CONSTANTS
    Containers, MaxStamp,   \* containers; start times are 1..MaxStamp
    ForgetAfter,            \* how long the tracker remembers one not seen
    MaxContainers,          \* containers a reading carries
    MaxRestarts,            \* bound on the restarts of a container
    Devices, Width,         \* interfaces or disks; counters are modulo 2^Width
    MaxDisks,               \* disks a reading has a row for
    MaxMoved,               \* bound on the bytes received between two readings
    MaxIn, MaxOut,          \* bounds on a device's two counters
    Pids, MaxLives,         \* process ids; bound on the processes started
    MaxTicks,               \* bound on the CPU ticks of a process
    TopFew                  \* processes a reading keeps

ASSUME TrackerAssumptions ==
    /\ MaxStamp \in Nat \ {0} /\ ForgetAfter \in Nat /\ MaxRestarts \in Nat
    /\ MaxContainers \in Nat \ {0}
    /\ IsFiniteSet(Devices) /\ Width \in Nat \ {0} /\ 2 ^ Width \in Nat \ {0}
    /\ MaxDisks \in Nat /\ MaxMoved \in Nat
    /\ MaxIn \in 0..2 ^ Width - 1 /\ MaxOut \in 0..2 ^ Width - 1
    /\ MaxLives \in Nat /\ MaxTicks \in Nat /\ TopFew \in Nat \ {0}

VARIABLES
    container,  \* c -> start time of the running container, 0 if it is gone
    seen,       \* c -> [start, age, restarts] of the tracker, or Untracked
    carried,    \* c -> restarts, for the containers the reading carries
    restarted,  \* history: c -> restarts since the tracker met it
    counters,   \* d -> [in, out], or NoDevice
    prev,       \* the last reading of all of them, or NoReading
    moved,      \* history: bytes received since that reading
    rate,       \* bytes received per that reading's interval, or NoRate
    rows,       \* d -> bytes received, for the devices told one by one
    rateWas,    \* history: what was received in that interval
    process,    \* pid -> [life, start, ticks], or NoProcess
    lives,      \* history: processes started so far; also the boot clock
    walk,       \* readProcesses: "idle", or "first" between its two passes
    first,      \* pid -> what the first pass read, or NoProcess
    share       \* pid -> [life, ticks]: CPU share reported, as ticks, or NoShare

containerVars == <<container, seen, carried, restarted>>
trafficVars == <<counters, prev, moved, rate, rows, rateWas>>
processVars == <<process, lives, walk, first, share>>
trackerVars == <<containerVars, trafficVars, processVars>>

Untracked == [start |-> 0, age |-> 0, restarts |-> -1]
NoDevice == [in |-> -1, out |-> -1]
NoReading == [d \in {} |-> 0]
NoRate == -1
NoProcess == [life |-> 0, start |-> 0, ticks |-> 0]
NoShare == [life |-> 0, ticks |-> -1]

TrackerInit ==
    /\ container = [c \in Containers |-> 0]
    /\ seen = [c \in Containers |-> Untracked]
    /\ carried = <<>> /\ restarted = [c \in Containers |-> 0]
    /\ counters = [d \in Devices |-> NoDevice]
    /\ prev = NoReading /\ moved = 0 /\ rate = NoRate /\ rows = <<>> /\ rateWas = 0
    /\ process = [p \in Pids |-> NoProcess] /\ lives = 0
    /\ walk = "idle"
    /\ first = [p \in Pids |-> NoProcess]
    /\ share = [p \in Pids |-> NoShare]

-----------------------------------------------------------------------------
(* Containers.                                                             *)

\* A container starts: its start time is the clock's, which may have been set
\* back since the last one.
ContainerStarts(c, at) ==
    /\ restarted[c] < MaxRestarts
    /\ container' = [container EXCEPT ![c] = at]
    /\ restarted' = [restarted EXCEPT ![c] = IF seen[c] = Untracked THEN 0 ELSE @ + 1]
    /\ UNCHANGED <<seen, carried, trafficVars, processVars>>

ContainerStops(c) ==
    /\ container[c] # 0
    /\ container' = [container EXCEPT ![c] = 0]
    /\ UNCHANGED <<seen, carried, restarted, trafficVars, processVars>>

ObserveSticky(e, at) ==                                 \* mutant of observe
    IF e = Untracked THEN [start |-> at, age |-> 0, restarts |-> 0]
    ELSE [e EXCEPT !.age = 0, !.restarts = IF at > e.start THEN @ + 1 ELSE @]

\* One sighting: the first is a baseline, a later start is one restart.
observe(e, at) ==
    IF e = Untracked THEN [start |-> at, age |-> 0, restarts |-> 0]
    ELSE [e EXCEPT !.age = 0,
                   !.restarts = IF at > e.start THEN @ + 1 ELSE @,
                   !.start = IF at > @ THEN at ELSE @]

forget(e) == IF e # Untracked /\ e.age > ForgetAfter THEN Untracked ELSE e

\* Most restarts first, so that the cap cuts no container in a loop; then by id.
Carry(told) ==
    LET more(c, d) == told[c] > told[d] \/ (told[c] = told[d] /\ c < d)
        fit == {c \in DOMAIN told : Cardinality({d \in DOMAIN told : more(d, c)}) < MaxContainers}
    IN  [c \in fit |-> told[c]]

\* collectContainers after some time: the containers that run and whose start
\* time could be asked for are observed, the others are told without a count,
\* and the tracker forgets.
CollectContainers(asked, elapsed) ==
    /\ elapsed \in {1, ForgetAfter + 1}
    /\ LET aged(e) == IF e = Untracked THEN e
                      ELSE [e EXCEPT !.age = Min({@ + elapsed, ForgetAfter + 1})]
           seen1(c) == IF container[c] # 0 /\ c \in asked THEN observe(aged(seen[c]), container[c])
                       ELSE aged(seen[c])
           here == {c \in Containers : container[c] # 0}
       IN  /\ seen' = [c \in Containers |-> forget(seen1(c))]
           /\ carried' = Carry([c \in here |-> IF c \in asked THEN seen1(c).restarts ELSE 0])
           /\ restarted' = [c \in Containers |->
                              IF seen[c] = Untracked \/ seen'[c] = Untracked THEN 0 ELSE restarted[c]]
    /\ UNCHANGED <<container, trafficVars, processVars>>

-----------------------------------------------------------------------------
(* Traffic.                                                                *)
Modulus == 2 ^ Width

\* Bytes pass; a device appears or starts over at zero, or goes.
Moves(d, in, out) ==
    /\ counters[d] # NoDevice /\ moved + in <= MaxMoved
    /\ counters[d].in + in <= MaxIn /\ counters[d].out + out <= MaxOut
    /\ counters' = [counters EXCEPT ![d] = [in |-> @.in + in, out |-> @.out + out]]
    /\ moved' = moved + in
    /\ UNCHANGED <<prev, rate, rows, rateWas, containerVars, processVars>>

DeviceResets(d) ==
    /\ counters' = [counters EXCEPT ![d] = [in |-> 0, out |-> 0]]
    /\ UNCHANGED <<prev, moved, rate, rows, rateWas, containerVars, processVars>>

DeviceGoes(d) ==
    /\ counters[d] # NoDevice
    /\ counters' = [counters EXCEPT ![d] = NoDevice]
    /\ UNCHANGED <<prev, moved, rate, rows, rateWas, containerVars, processVars>>

ComparableIn(was, now) == was # NoDevice /\ now # NoDevice      \* mutant of Comparable

\* A device that is new, has gone, or of which either counter went backwards
\* is left out.
Comparable(was, now) ==
    was # NoDevice /\ now # NoDevice /\ now.in >= was.in /\ now.out >= was.out

Compared(was, now) == {d \in Devices : Comparable(was[d], now[d])}

\* Unsigned arithmetic.
Passed(was, now, d) == (now[d].in - was[d].in) % Modulus

\* The sum over the devices that can be compared.
rates(was, now) == Total([d \in Compared(was, now) |-> Passed(was, now, d)])

\* A row for each of them, or for the busiest: any few, as far as bytes tell.
perDisk(was, now) ==
    LET all == Compared(was, now)
    IN  {[d \in few |-> Passed(was, now, d)] : few \in kSubset(Min({MaxDisks, Cardinality(all)}), all)}

\* observe: the reading replaces the last in any case, also one of a file that
\* could not be read; there is a rate when both were and a second has passed.
ObserveTraffic(soon, readable) ==
    /\ prev' = IF readable THEN counters ELSE NoReading
    /\ IF prev = NoReading \/ ~readable \/ soon THEN rate' = NoRate /\ rows' = <<>>
       ELSE rate' = rates(prev, counters) /\ rows' \in perDisk(prev, counters)
    /\ rateWas' = moved /\ moved' = 0
    /\ UNCHANGED <<counters, containerVars, processVars>>

-----------------------------------------------------------------------------
(* Processes.                                                              *)

\* A process starts under a free pid, works, or ends.
ProcessStarts(p) ==
    /\ process[p] = NoProcess /\ lives < MaxLives
    /\ lives' = lives + 1
    /\ process' = [process EXCEPT ![p] = [life |-> lives', start |-> lives', ticks |-> 0]]
    /\ UNCHANGED <<walk, first, share, containerVars, trafficVars>>

ProcessWorks(p) ==
    /\ process[p] # NoProcess /\ process[p].ticks < MaxTicks
    /\ process' = [process EXCEPT ![p].ticks = @ + 1]
    /\ UNCHANGED <<lives, walk, first, share, containerVars, trafficVars>>

ProcessEnds(p) ==
    /\ process[p] # NoProcess
    /\ process' = [process EXCEPT ![p] = NoProcess]
    /\ UNCHANGED <<lives, walk, first, share, containerVars, trafficVars>>

\* The few that are kept: those with the most memory, which may be any.
topByMemory(S) == kSubset(Min({TopFew, Cardinality(S)}), S)

\* The walk over /proc.
FirstPass(top) ==
    /\ walk = "idle"
    /\ top \in topByMemory({p \in Pids : process[p] # NoProcess})
    /\ walk' = "first"
    /\ first' = [p \in Pids |-> IF p \in top THEN process[p] ELSE NoProcess]
    /\ share' = [p \in Pids |-> NoShare]
    /\ UNCHANGED <<process, lives, containerVars, trafficVars>>

SameByTicks(was, now) == now.ticks >= was.ticks         \* mutant of SameProcess

\* The same process wears the pid, told by its start time; its counter cannot
\* have gone backwards.
SameProcess(was, now) == now.start = was.start /\ now.ticks >= was.ticks

\* The second pass, over the few: a share for those still there.
SecondPass ==
    /\ walk = "first"
    /\ walk' = "idle"
    /\ share' = [p \in Pids |->
          IF first[p] # NoProcess /\ process[p] # NoProcess /\ SameProcess(first[p], process[p])
          THEN [life |-> process[p].life, ticks |-> process[p].ticks - first[p].ticks]
          ELSE NoShare]
    /\ UNCHANGED <<process, lives, first, containerVars, trafficVars>>

ContainerNext ==
    \/ \E c \in Containers : ContainerStops(c) \/ \E at \in 1..MaxStamp : ContainerStarts(c, at)
    \/ \E asked \in SUBSET Containers, elapsed \in {1, ForgetAfter + 1} :
          CollectContainers(asked, elapsed)

TrafficNext ==
    \/ \E d \in Devices : DeviceResets(d) \/ DeviceGoes(d)
    \/ \E d \in Devices : Moves(d, 1, 0) \/ Moves(d, 0, 1)
    \/ \E soon, readable \in BOOLEAN : ObserveTraffic(soon, readable)

ProcessNext ==
    \/ \E p \in Pids : ProcessStarts(p) \/ ProcessWorks(p) \/ ProcessEnds(p)
    \/ \E top \in SUBSET Pids : FirstPass(top)
    \/ SecondPass

TrackerSpec == TrackerInit /\ [][ContainerNext \/ TrafficNext \/ ProcessNext]_trackerVars

-----------------------------------------------------------------------------
(* Properties                                                              *)

\* The tracker never reports more restarts of a container than there were
\* since it met it, however start times and sightings fell, whatever was
\* forgotten, and whether the reading had room for it.
RestartsReal ==
    /\ \A c \in Containers : seen[c] # Untracked => seen[c].restarts <= restarted[c]
    /\ \A c \in DOMAIN carried : carried[c] > 0 => carried[c] <= restarted[c]

\* A rate is never more than what really passed in its interval, whichever
\* devices came, went or started over, and the rows never more than the rate.
RateReal ==
    rate # NoRate =>
        rate <= rateWas /\ Total(rows) <= rate

\* A CPU share is the work of the process it is reported for, also when the
\* pid was reused by one that has done more.
ShareOwn ==
    walk = "idle" =>
        \A p \in Pids : share[p] # NoShare => first[p].life = share[p].life
=============================================================================
