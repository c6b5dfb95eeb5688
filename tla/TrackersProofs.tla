--------------------------- MODULE TrackersProofs ---------------------------
(***************************************************************************)
(* Theorems about Trackers, for any containers, start times, devices,      *)
(* processes and limits: no restart is reported that did not happen, no    *)
(* byte that did not pass, and no process is told the work of another.     *)
(***************************************************************************)
EXTENDS Trackers, FiniteSetTheorems, TLAPS

-----------------------------------------------------------------------------
(* Containers.                                                             *)
Entry == [start : Nat, age : Nat, restarts : Nat]

ContainerType ==
    /\ container \in [Containers -> Nat]
    /\ seen \in [Containers -> Entry \cup {Untracked}]
    /\ restarted \in [Containers -> Nat]

\* A container that runs since later than the tracker knows has been started
\* since, which the tracker has not counted yet.
NotCountedYet ==
    \A c \in Containers :
        seen[c] # Untracked /\ container[c] > seen[c].start => seen[c].restarts < restarted[c]

\* What a reading carried is what the tracker has, or had when it did.
CarriedKnown ==
    \A c \in DOMAIN carried :
        carried[c] \in Nat /\ (carried[c] > 0 => c \in Containers /\ seen[c] # Untracked)

ContainerInv == ContainerType /\ NotCountedYet /\ CarriedKnown /\ RestartsReal

LEMMA TrackedEntry ==
  ASSUME NEW e \in Entry \cup {Untracked}
  PROVE  e # Untracked <=> e \in Entry
BY DEF Entry, Untracked

\* Time passing changes the age of an entry and nothing else.
Aged(e, elapsed) == IF e = Untracked THEN e
                    ELSE [e EXCEPT !.age = Min({@ + elapsed, ForgetAfter + 1})]

LEMMA AgedEntry ==
  ASSUME NEW e \in Entry, NEW elapsed \in Nat
  PROVE  /\ Aged(e, elapsed) \in Entry
         /\ Aged(e, elapsed).start = e.start /\ Aged(e, elapsed).restarts = e.restarts
<1> DEFINE n == Min({e.age + elapsed, ForgetAfter + 1})
<1>1. n \in Nat
  <2>1. e.age + elapsed \in Nat /\ ForgetAfter + 1 \in Nat
    BY TrackerAssumptions DEF Entry
  <2>2. \A a, b \in Nat : Min({a, b}) \in Nat
    BY DEF Min
  <2> QED  BY <2>1, <2>2
<1>2. Aged(e, elapsed) = [e EXCEPT !.age = n]
  BY TrackedEntry DEF Aged
<1> HIDE DEF n
<1> QED  BY <1>1, <1>2 DEF Entry

\* A sighting of an entry that is known: its start only grows, and a restart
\* is counted where it does.
LEMMA SightingOfKnown ==
  ASSUME NEW e \in Entry, NEW at \in Nat
  PROVE  /\ observe(e, at) \in Entry /\ observe(e, at).age = 0
         /\ observe(e, at).start = IF at > e.start THEN at ELSE e.start
         /\ observe(e, at).restarts = IF at > e.start THEN e.restarts + 1 ELSE e.restarts
<1>1. e # Untracked
  BY TrackedEntry
<1>2. PICK x \in Nat, y \in Nat, z \in Nat : e = [start |-> x, age |-> z, restarts |-> y]
  BY DEF Entry
<1>3. CASE at > x
  <2>1. observe(e, at) = [start |-> at, age |-> 0, restarts |-> y + 1]
    BY <1>1, <1>2, <1>3 DEF observe
  <2>2. [start |-> at, age |-> 0, restarts |-> y + 1] \in Entry
    BY DEF Entry
  <2> QED  BY <1>2, <1>3, <2>1, <2>2
<1>4. CASE ~(at > x)
  <2>1. observe(e, at) = [start |-> x, age |-> 0, restarts |-> y]
    BY <1>1, <1>2, <1>4 DEF observe
  <2>2. [start |-> x, age |-> 0, restarts |-> y] \in Entry
    BY DEF Entry
  <2> QED  BY <1>2, <1>4, <2>1, <2>2
<1> QED  BY <1>3, <1>4

\* What a collection makes of one entry.
Seen1(asked, elapsed, c) ==
    IF container[c] # 0 /\ c \in asked THEN observe(Aged(seen[c], elapsed), container[c])
    ELSE Aged(seen[c], elapsed)

LEMMA SeenAfter ==
  ASSUME ContainerInv, NEW asked, NEW elapsed \in Nat, NEW c \in Containers
  PROVE  LET e == Seen1(asked, elapsed, c) IN
         /\ e \in Entry \cup {Untracked} /\ forget(e) \in {e, Untracked}
         /\ seen[c] = Untracked /\ e # Untracked => e.restarts = 0 /\ e.start = container[c]
         /\ seen[c] # Untracked =>
              /\ e # Untracked
              /\ e.restarts <= restarted[c]
              /\ container[c] > e.start => e.restarts < restarted[c]
         /\ container[c] # 0 /\ c \in asked => forget(e) = e /\ e # Untracked
<1> DEFINE e == Seen1(asked, elapsed, c)
           a == Aged(seen[c], elapsed)
<1>1. /\ container[c] \in Nat /\ restarted[c] \in Nat /\ ForgetAfter \in Nat
      /\ seen[c] \in Entry \cup {Untracked}
  BY TrackerAssumptions DEF ContainerInv, ContainerType
<1>2. \A x \in Entry : x.age = 0 => forget(x) = x
  BY <1>1 DEF forget, Entry
<1>3. forget(e) \in {e, Untracked}
  BY DEF forget
<1>4. CASE seen[c] = Untracked
  <2>1. a = Untracked
    BY <1>4 DEF Aged
  <2>2. CASE container[c] # 0 /\ c \in asked
    <3>1. e = [start |-> container[c], age |-> 0, restarts |-> 0]
      BY <2>1, <2>2 DEF Seen1, observe
    <3>2. e \in Entry /\ e.age = 0 /\ e.restarts = 0 /\ e.start = container[c]
      BY <1>1, <3>1 DEF Entry
    <3> QED  BY <1>2, <1>3, <1>4, <3>2, TrackedEntry
  <2>3. CASE ~(container[c] # 0 /\ c \in asked)
    <3>1. e = Untracked
      BY <2>1, <2>3 DEF Seen1
    <3> QED  BY <1>3, <1>4, <2>3, <3>1
  <2> QED  BY <2>2, <2>3
<1>5. CASE seen[c] # Untracked
  <2>1. seen[c] \in Entry
    BY <1>1, <1>5
  <2>2. a \in Entry /\ a.start = seen[c].start /\ a.restarts = seen[c].restarts
    BY <2>1, AgedEntry
  <2>3. /\ seen[c].restarts <= restarted[c]
        /\ container[c] > seen[c].start => seen[c].restarts < restarted[c]
    BY <1>5 DEF ContainerInv, NotCountedYet, RestartsReal
  <2>4. seen[c].restarts \in Nat /\ seen[c].start \in Nat
    BY <2>1 DEF Entry
  <2> HIDE DEF a
  <2>5. CASE container[c] # 0 /\ c \in asked
    <3>1. e = observe(a, container[c])
      BY <2>5 DEF Seen1, a
    <3>2. /\ e \in Entry /\ e.age = 0
          /\ e.start = IF container[c] > a.start THEN container[c] ELSE a.start
          /\ e.restarts = IF container[c] > a.start THEN a.restarts + 1 ELSE a.restarts
      <4> HIDE DEF e
      <4> QED  BY <1>1, <2>2, <3>1, SightingOfKnown
    <3> HIDE DEF e
    <3>3. e.restarts <= restarted[c] /\ ~(container[c] > e.start)
      <4>1. CASE container[c] > seen[c].start
        BY <1>1, <2>2, <2>3, <2>4, <3>2, <4>1
      <4>2. CASE ~(container[c] > seen[c].start)
        BY <1>1, <2>2, <2>3, <2>4, <3>2, <4>2
      <4> QED  BY <4>1, <4>2
    <3>4. forget(e) = e
      BY <1>2, <3>2
    <3> QED  BY <1>3, <1>5, <3>2, <3>3, <3>4, TrackedEntry DEF e
  <2>6. CASE ~(container[c] # 0 /\ c \in asked)
    <3>1. e = a
      BY <2>6 DEF Seen1, a
    <3> QED  BY <1>3, <1>5, <2>2, <2>3, <2>6, <3>1, TrackedEntry
  <2> QED  BY <2>5, <2>6
<1> QED  BY <1>4, <1>5

\* A reading carries what was told, for some of the containers told.
LEMMA CarriesSome ==
  ASSUME NEW told
  PROVE  \A c \in DOMAIN Carry(told) : c \in DOMAIN told /\ Carry(told)[c] = told[c]
BY DEF Carry

LEMMA CollectStep ==
  ASSUME ContainerInv, NEW asked, NEW elapsed \in {1, ForgetAfter + 1},
         CollectContainers(asked, elapsed)
  PROVE  ContainerInv'
<1> DEFINE e(c) == Seen1(asked, elapsed, c)
           here == {c \in Containers : container[c] # 0}
           told == [c \in here |-> IF c \in asked THEN e(c).restarts ELSE 0]
<1>1. elapsed \in Nat
  BY TrackerAssumptions
<1>2. /\ seen' = [c \in Containers |-> forget(e(c))]
      /\ carried' = Carry(told)
      /\ restarted' = [c \in Containers |->
                         IF seen[c] = Untracked \/ seen'[c] = Untracked THEN 0 ELSE restarted[c]]
      /\ container' = container
  BY DEF CollectContainers, Seen1, Aged
<1>3. \A c \in Containers :
         /\ e(c) \in Entry \cup {Untracked} /\ forget(e(c)) \in {e(c), Untracked}
         /\ seen[c] = Untracked /\ e(c) # Untracked => e(c).restarts = 0 /\ e(c).start = container[c]
         /\ seen[c] # Untracked =>
              /\ e(c) # Untracked
              /\ e(c).restarts <= restarted[c]
              /\ container[c] > e(c).start => e(c).restarts < restarted[c]
         /\ container[c] # 0 /\ c \in asked => forget(e(c)) = e(c) /\ e(c) # Untracked
  BY <1>1, SeenAfter
<1> HIDE DEF e
<1>4. ContainerType'
  BY <1>2, <1>3 DEF ContainerInv, ContainerType
<1>5. \A c \in Containers : container[c] \in Nat /\ restarted[c] \in Nat
  BY DEF ContainerInv, ContainerType
<1>6. NotCountedYet'
  BY <1>2, <1>3, <1>5 DEF NotCountedYet
<1>7. \A c \in Containers : seen'[c] # Untracked => seen'[c].restarts <= restarted'[c]
  BY <1>2, <1>3, <1>5
<1>8. \A c \in DOMAIN carried' :
         /\ carried'[c] \in Nat
         /\ carried'[c] > 0 =>
              c \in Containers /\ seen'[c] # Untracked /\ carried'[c] = seen'[c].restarts
  <2> SUFFICES ASSUME NEW c \in DOMAIN carried'
               PROVE  /\ carried'[c] \in Nat
                      /\ carried'[c] > 0 => /\ c \in Containers /\ seen'[c] # Untracked
                                            /\ carried'[c] = seen'[c].restarts
    OBVIOUS
  <2>1. c \in here /\ carried'[c] = told[c]
    BY <1>2, CarriesSome
  <2>2. c \in Containers /\ container[c] # 0
    BY <2>1
  <2>3. CASE c \in asked
    <3>1. carried'[c] = e(c).restarts /\ e(c) \in Entry /\ seen'[c] = e(c)
      BY <1>2, <1>3, <2>1, <2>2, <2>3
    <3> QED  BY <1>3, <2>2, <2>3, <3>1, TrackedEntry DEF Entry
  <2>4. CASE c \notin asked
    BY <2>1, <2>4
  <2> QED  BY <2>3, <2>4
<1> QED  BY <1>4, <1>6, <1>7, <1>8 DEF ContainerInv, CarriedKnown, RestartsReal

-----------------------------------------------------------------------------
(* Processes.                                                              *)
Process == [life : Nat, start : Nat, ticks : Nat]

ProcessType ==
    /\ process \in [Pids -> Process] /\ first \in [Pids -> Process]
    /\ lives \in Nat

\* No two processes have a start time in common, the boot clock's.
StartTells == \A p \in Pids : process[p].life = process[p].start /\ first[p].life = first[p].start

ProcessInv == ProcessType /\ StartTells /\ ShareOwn

LEMMA ProcessStep ==
  ASSUME ProcessInv, ProcessNext
  PROVE  ProcessInv'
<1> USE DEF ProcessInv, ProcessType, StartTells, ShareOwn
<1>1. ASSUME NEW p \in Pids, ProcessStarts(p)
      PROVE  ProcessInv'
  <2>1. /\ lives' = lives + 1 /\ UNCHANGED <<walk, first, share>>
        /\ process' = [process EXCEPT ![p] = [life |-> lives', start |-> lives', ticks |-> 0]]
    BY <1>1 DEF ProcessStarts
  <2>2. lives' \in Nat /\ [life |-> lives', start |-> lives', ticks |-> 0] \in Process
    BY <2>1 DEF Process
  <2> QED  BY <2>1, <2>2
<1>2. ASSUME NEW p \in Pids, ProcessWorks(p)
      PROVE  ProcessInv'
  <2>1. /\ process' = [process EXCEPT ![p].ticks = @ + 1]
        /\ UNCHANGED <<lives, walk, first, share>>
    BY <1>2 DEF ProcessWorks
  <2> DEFINE new == [process[p] EXCEPT !.ticks = @ + 1]
  <2>2. process' = [process EXCEPT ![p] = new]
    BY <2>1
  <2>3. new \in Process /\ new.life = process[p].life /\ new.start = process[p].start
    BY DEF Process
  <2> HIDE DEF new
  <2> QED  BY <2>1, <2>2, <2>3
<1>3. ASSUME NEW p \in Pids, ProcessEnds(p)
      PROVE  ProcessInv'
  <2>1. NoProcess \in Process /\ NoProcess.life = NoProcess.start
    BY DEF NoProcess, Process
  <2> QED  BY <1>3, <2>1 DEF ProcessEnds
<1>4. ASSUME NEW top \in SUBSET Pids, FirstPass(top)
      PROVE  ProcessInv'
  <2>1. NoProcess \in Process /\ NoProcess.life = NoProcess.start
    BY DEF NoProcess, Process
  <2> QED  BY <1>4, <2>1 DEF FirstPass
<1>5. CASE SecondPass
  <2>1. \A p \in Pids : share'[p] # NoShare =>
          /\ share'[p] = [life |-> process[p].life, ticks |-> process[p].ticks - first[p].ticks]
          /\ process[p].start = first[p].start
    BY <1>5 DEF SecondPass, SameProcess
  <2> QED  BY <1>5, <2>1 DEF SecondPass
<1> QED  BY <1>1, <1>2, <1>3, <1>4, <1>5 DEF ProcessNext

-----------------------------------------------------------------------------
(* Traffic.                                                                *)
Device == [in : 0..MaxIn, out : 0..MaxOut] \cup {NoDevice}

TrafficType ==
    /\ counters \in [Devices -> Device]
    /\ prev = NoReading \/ prev \in [Devices -> Device]
    /\ moved \in Nat /\ rateWas \in Nat

\* What the counters of the devices in both readings have grown by.
Both(was, now) == {d \in Devices : was[d] # NoDevice /\ now[d] # NoDevice}
Grown(was, now) == {x \in Devices \X (1..Modulus) :
                      x[1] \in Both(was, now) /\ x[2] <= now[x[1]].in - was[x[1]].in}

\* A counter grows by what passes, and only by that.  A device counts here also
\* while its other counter is behind, as it may catch up.
GrownPassed == prev # NoReading => Cardinality(Grown(prev, counters)) <= moved

TrafficInv == TrafficType /\ GrownPassed /\ RateReal

LEMMA DeviceShape ==
  ASSUME NEW f \in [Devices -> Device], NEW d \in Devices, f[d] # NoDevice
  PROVE  /\ f[d] \in [in : 0..MaxIn, out : 0..MaxOut]
         /\ f[d].in \in Nat /\ f[d].out \in Nat /\ f[d].in < Modulus
<1>1. f[d] \in [in : 0..MaxIn, out : 0..MaxOut]
  BY DEF Device
<1>2. PICK m \in Nat : m = Modulus /\ MaxIn \in 0..m - 1 /\ MaxOut \in Nat
  BY TrackerAssumptions DEF Modulus
<1> QED  BY <1>1, <1>2

LEMMA GrownFinite ==
  ASSUME NEW was, NEW now
  PROVE  /\ IsFiniteSet(Grown(was, now)) /\ Cardinality(Grown(was, now)) \in Nat
<1>1. Modulus \in Nat
  BY TrackerAssumptions DEF Modulus
<1>2. IsFiniteSet(1..Modulus)
  BY <1>1, FS_Interval
<1>3. IsFiniteSet(Devices \X (1..Modulus))
  BY <1>2, TrackerAssumptions, FS_Product
<1>4. Grown(was, now) \subseteq Devices \X (1..Modulus)
  BY DEF Grown
<1> QED  BY <1>3, <1>4, FS_Subset, FS_CardinalityType

\* Unsigned subtraction is subtraction where the counter did not go backwards.
LEMMA PassedIsGrowth ==
  ASSUME NEW was \in [Devices -> Device], NEW now \in [Devices -> Device],
         NEW d \in Compared(was, now)
  PROVE  /\ d \in Both(was, now) /\ Passed(was, now, d) = now[d].in - was[d].in
         /\ Passed(was, now, d) \in 0..Modulus
<1>1. d \in Devices /\ was[d] # NoDevice /\ now[d] # NoDevice /\ now[d].in >= was[d].in
  BY DEF Compared, Comparable
<1>2. PICK m \in Nat, a \in Nat, b \in Nat :
        m = Modulus /\ a = was[d].in /\ b = now[d].in /\ a <= b /\ b < m
  BY <1>1, DeviceShape, TrackerAssumptions DEF Modulus
<1>3. (b - a) % m = b - a
  <2>1. PICK x \in Nat : x = b - a /\ x < m
    BY <1>2
  <2>2. x % m = x
    BY <2>1
  <2> QED  BY <2>1, <2>2
<1>4. Passed(was, now, d) = b - a
  BY <1>2, <1>3 DEF Passed
<1>5. Passed(was, now, d) \in 0..m
  BY <1>2, <1>4
<1> QED  BY <1>1, <1>2, <1>4, <1>5 DEF Both

\* So a rate is at most what the counters have grown by, and rows of some of
\* the devices add up to no more than the rate.
LEMMA TotalsBounded ==
  ASSUME NEW was \in [Devices -> Device], NEW now \in [Devices -> Device],
         NEW few \in SUBSET Compared(was, now)
  PROVE  /\ rates(was, now) \in Nat /\ rates(was, now) <= Cardinality(Grown(was, now))
         /\ Total([d \in few |-> Passed(was, now, d)]) <= rates(was, now)
<1> DEFINE all == [d \in Compared(was, now) |-> Passed(was, now, d)]
           some == [d \in few |-> Passed(was, now, d)]
<1>1. Bytes(all) \subseteq Grown(was, now)
  <2> SUFFICES ASSUME NEW d \in Compared(was, now), NEW i \in 1..Passed(was, now, d)
               PROVE  <<d, i>> \in Grown(was, now)
    BY DEF Bytes
  <2>1. PICK m \in Nat : m = Modulus
    BY TrackerAssumptions DEF Modulus
  <2>2. Passed(was, now, d) \in 0..m
    BY <2>1, PassedIsGrowth, Zenon
  <2>3. PICK p \in Nat : p = Passed(was, now, d) /\ p <= m
    BY <2>2
  <2>4. i \in 1..m /\ i <= p
    BY <2>3, <2>1
  <2>5. d \in Both(was, now) /\ p = now[d].in - was[d].in
    BY <2>3, PassedIsGrowth
  <2>6. d \in Devices
    BY DEF Compared
  <2> QED  BY <2>1, <2>3, <2>4, <2>5, <2>6 DEF Grown
<1>2. Bytes(some) \subseteq Bytes(all)
  BY DEF Bytes
<1> HIDE DEF all, some
<1>3. IsFiniteSet(Bytes(all)) /\ Cardinality(Bytes(all)) <= Cardinality(Grown(was, now))
  BY <1>1, GrownFinite, FS_Subset
<1>4. Cardinality(Bytes(some)) <= Cardinality(Bytes(all))
  BY <1>2, <1>3, FS_Subset
<1>5. Cardinality(Bytes(all)) \in Nat
  BY <1>3, FS_CardinalityType
<1>6. rates(was, now) = Cardinality(Bytes(all)) /\ Total(some) = Cardinality(Bytes(some))
  BY DEF rates, Total, all
<1> QED  BY <1>3, <1>4, <1>5, <1>6 DEF some

\* A device that starts over or goes has grown by nothing.
LEMMA ResetShrinks ==
  ASSUME TrafficInv, NEW d \in Devices, NEW x,
         x = NoDevice \/ x = [in |-> 0, out |-> 0],
         counters' = [counters EXCEPT ![d] = x], UNCHANGED <<prev, moved, rate, rows, rateWas>>
  PROVE  TrafficInv'
<1>1. x \in Device
  BY TrackerAssumptions DEF Device
<1>2. TrafficType'
  BY <1>1 DEF TrafficInv, TrafficType
<1>3. ASSUME prev # NoReading
      PROVE  Cardinality(Grown(prev, counters')) <= moved
  <2>1. prev \in [Devices -> Device] /\ moved \in Nat
    BY <1>3 DEF TrafficInv, TrafficType
  <2>2. ASSUME NEW y \in Grown(prev, counters')
        PROVE  y \in Grown(prev, counters)
    <3>1. /\ y \in Devices \X (1..Modulus) /\ y[1] \in Both(prev, counters')
          /\ y[2] <= counters'[y[1]].in - prev[y[1]].in
      BY <2>2 DEF Grown
    <3>2. y[1] \in Devices /\ prev[y[1]] # NoDevice /\ counters'[y[1]] # NoDevice
      BY <3>1 DEF Both
    <3>3. y[1] # d
      <4> SUFFICES ASSUME y[1] = d PROVE FALSE
        OBVIOUS
      <4>1. counters'[d] = [in |-> 0, out |-> 0]
        BY <3>2 DEF TrafficInv, TrafficType
      <4>2. PICK a \in Nat, i \in Nat : a = prev[d].in /\ i = y[2] /\ i >= 1
        BY <2>1, <3>1, <3>2, DeviceShape
      <4>3. i <= 0 - a
        BY <3>1, <4>1, <4>2
      <4> QED  BY <4>2, <4>3
    <3>4. counters'[y[1]] = counters[y[1]]
      BY <3>2, <3>3 DEF TrafficInv, TrafficType
    <3> QED  BY <3>1, <3>2, <3>4 DEF Grown, Both
  <2>3. Cardinality(Grown(prev, counters')) <= Cardinality(Grown(prev, counters))
    BY <2>2, GrownFinite, FS_Subset
  <2>4. Cardinality(Grown(prev, counters)) <= moved
    BY <1>3 DEF TrafficInv, GrownPassed
  <2>5. Cardinality(Grown(prev, counters')) \in Nat /\ Cardinality(Grown(prev, counters)) \in Nat
    BY GrownFinite
  <2> QED  BY <2>1, <2>3, <2>4, <2>5
<1> QED  BY <1>2, <1>3 DEF TrafficInv, GrownPassed, RateReal

\* A byte that is received is one more.
LEMMA MovesStep ==
  ASSUME TrafficInv, NEW d \in Devices, NEW in \in {0, 1}, NEW outs \in {0, 1}, Moves(d, in, outs)
  PROVE  TrafficInv'
<1>1. /\ counters[d] # NoDevice
      /\ counters' = [counters EXCEPT ![d] = [in |-> @.in + in, out |-> @.out + outs]]
      /\ counters[d].in + in <= MaxIn /\ counters[d].out + outs <= MaxOut
      /\ moved' = moved + in /\ UNCHANGED <<prev, rate, rows, rateWas>>
  BY DEF Moves
<1>2. PICK a \in Nat, b \in Nat : a = counters[d].in /\ b = counters[d].out
  BY <1>1, DeviceShape DEF TrafficInv, TrafficType
<1>3. PICK x : x = [in |-> a + in, out |-> b + outs]
  OBVIOUS
<1>4. x \in [in : 0..MaxIn, out : 0..MaxOut] /\ x.in = a + in
  <2>1. MaxIn \in Int /\ MaxOut \in Int
    BY TrackerAssumptions
  <2>2. a + in \in 0..MaxIn /\ b + outs \in 0..MaxOut
    BY <1>1, <1>2, <2>1
  <2> QED  BY <1>3, <2>2
<1>5. counters' = [counters EXCEPT ![d] = x] /\ x \in Device
  BY <1>1, <1>2, <1>3, <1>4 DEF Device
<1>6. counters'[d] = x /\ \A e \in Devices : e # d => counters'[e] = counters[e]
  BY <1>5 DEF TrafficInv, TrafficType
<1>7. TrafficType'
  BY <1>1, <1>5 DEF TrafficInv, TrafficType
<1>8. ASSUME prev # NoReading
      PROVE  Cardinality(Grown(prev, counters')) <= moved + in
  <2>1. prev \in [Devices -> Device] /\ moved \in Nat
    BY <1>8 DEF TrafficInv, TrafficType
  <2>2. PICK n \in Nat : n = Cardinality(Grown(prev, counters)) /\ n <= moved
    BY <1>8, GrownFinite DEF TrafficInv, GrownPassed
  <2>3. PICK n2 \in Nat : n2 = Cardinality(Grown(prev, counters'))
    BY GrownFinite
  <2>4. PICK new : new = <<d, a + 1 - prev[d].in>>
    OBVIOUS
  <2>5. ASSUME NEW y \in Grown(prev, counters'), y \notin Grown(prev, counters)
        PROVE  in = 1 /\ y = new
    <3>1. /\ y \in Devices \X (1..Modulus) /\ y[1] \in Both(prev, counters')
          /\ y[2] <= counters'[y[1]].in - prev[y[1]].in
      BY <2>5 DEF Grown
    <3>2. y[1] \in Devices /\ prev[y[1]] # NoDevice
      BY <3>1 DEF Both
    <3>3. y[1] = d
      <4> SUFFICES ASSUME y[1] # d PROVE FALSE
        OBVIOUS
      <4>1. counters'[y[1]] = counters[y[1]]
        BY <1>6, <3>2
      <4> QED  BY <2>5, <3>1, <4>1 DEF Grown, Both
    <3>4. PICK p \in Nat, i \in Nat : p = prev[d].in /\ i = y[2]
      BY <2>1, <3>1, <3>2, <3>3, DeviceShape
    <3>5. i <= a + in - p
      BY <1>4, <1>6, <3>1, <3>3, <3>4
    <3>6. ~(i <= a - p)
      BY <1>1, <1>2, <2>5, <3>1, <3>2, <3>3, <3>4 DEF Grown, Both
    <3>7. in = 1 /\ i = a + 1 - p
      BY <3>5, <3>6
    <3>8. y = <<y[1], y[2]>>
      BY <3>1
    <3> QED  BY <2>4, <3>3, <3>4, <3>7, <3>8
  <2>6. CASE in = 0
    <3>1. Grown(prev, counters') \subseteq Grown(prev, counters)
      BY <2>5, <2>6
    <3>2. n2 <= n
      BY <2>2, <2>3, <3>1, GrownFinite, FS_Subset
    <3> QED  BY <2>1, <2>2, <2>3, <2>6, <3>2
  <2>7. CASE in = 1
    <3>1. Grown(prev, counters') \subseteq Grown(prev, counters) \cup {new}
      BY <2>5
    <3>2. PICK G : G = Grown(prev, counters)
      OBVIOUS
    <3>3. IsFiniteSet(G) /\ Cardinality(G) = n
      BY <2>2, <3>2, GrownFinite
    <3>4. IsFiniteSet(G \cup {new}) /\ Cardinality(G \cup {new}) <= n + 1
      <4>1. /\ IsFiniteSet(G \cup {new})
            /\ Cardinality(G \cup {new}) = IF new \in G THEN Cardinality(G) ELSE Cardinality(G) + 1
        BY <3>3, FS_AddElement
      <4> QED  BY <3>3, <4>1
    <3>5. n2 <= Cardinality(G \cup {new})
      BY <2>3, <3>1, <3>2, <3>4, FS_Subset
    <3>6. Cardinality(G \cup {new}) \in Nat
      BY <3>4, FS_CardinalityType
    <3> QED  BY <2>1, <2>2, <2>3, <2>7, <3>4, <3>5, <3>6
  <2> QED  BY <2>6, <2>7
<1> QED  BY <1>1, <1>7, <1>8 DEF TrafficInv, GrownPassed, RateReal

LEMMA ObserveStep ==
  ASSUME TrafficInv, NEW soon, NEW readable, ObserveTraffic(soon, readable)
  PROVE  TrafficInv'
<1>1. /\ prev' = counters \/ prev' = NoReading
      /\ counters' = counters /\ rateWas' = moved /\ moved' = 0
  BY DEF ObserveTraffic
<1>2. TrafficType'
  BY <1>1 DEF TrafficInv, TrafficType
<1>3. Grown(counters, counters) = {}
  <2> SUFFICES ASSUME NEW y \in Grown(counters, counters)
               PROVE  FALSE
    OBVIOUS
  <2>1. /\ y \in Devices \X (1..Modulus) /\ y[1] \in Both(counters, counters)
        /\ y[2] <= counters[y[1]].in - counters[y[1]].in
    BY DEF Grown
  <2>2. y[1] \in Devices /\ counters[y[1]] # NoDevice
    BY <2>1 DEF Both
  <2>3. PICK a \in Nat, i \in Nat : a = counters[y[1]].in /\ i = y[2] /\ i >= 1
    BY <2>1, <2>2, DeviceShape DEF TrafficInv, TrafficType
  <2>4. i <= a - a
    BY <2>1, <2>3
  <2> QED  BY <2>3, <2>4
<1>4. GrownPassed'
  <2>1. Cardinality(Grown(counters, counters)) = 0
    BY <1>3, FS_EmptySet
  <2>2. CASE prev' = NoReading
    BY <2>2 DEF GrownPassed
  <2>3. CASE prev' = counters
    <3>1. Grown(prev, counters)' = Grown(counters, counters)
      BY <1>1, <2>3 DEF Grown, Both
    <3>2. Cardinality(Grown(prev, counters))' = 0
      BY <2>1, <3>1
    <3> QED  BY <1>1, <3>2 DEF GrownPassed
  <2> QED  BY <1>1, <2>2, <2>3
<1>5. RateReal'
  <2>1. CASE prev = NoReading \/ ~readable \/ soon
    BY <2>1 DEF ObserveTraffic, RateReal
  <2>2. CASE ~(prev = NoReading \/ ~readable \/ soon)
    <3>1. rate' = rates(prev, counters) /\ rows' \in perDisk(prev, counters)
      BY <2>2 DEF ObserveTraffic
    <3>2. PICK few \in SUBSET Compared(prev, counters) :
            rows' = [d \in few |-> Passed(prev, counters, d)]
      BY <3>1 DEF perDisk, kSubset
    <3>3. /\ prev \in [Devices -> Device] /\ counters \in [Devices -> Device]
          /\ moved \in Nat /\ Cardinality(Grown(prev, counters)) <= moved
      BY <2>2 DEF TrafficInv, TrafficType, GrownPassed
    <3>4. PICK n \in Nat, r \in Nat :
            /\ n = Cardinality(Grown(prev, counters)) /\ r = rates(prev, counters) /\ r <= n
            /\ Total(rows') <= r
      BY <3>2, <3>3, GrownFinite, TotalsBounded
    <3>5. r <= moved
      BY <3>3, <3>4
    <3> QED  BY <1>1, <3>1, <3>4, <3>5 DEF RateReal, Total, Bytes
  <2> QED  BY <2>1, <2>2
<1> QED  BY <1>2, <1>4, <1>5 DEF TrafficInv

LEMMA TrafficStep ==
  ASSUME TrafficInv, TrafficNext
  PROVE  TrafficInv'
<1>1. ASSUME NEW d \in Devices, DeviceResets(d) PROVE TrafficInv'
  BY <1>1, ResetShrinks DEF DeviceResets
<1>2. ASSUME NEW d \in Devices, DeviceGoes(d) PROVE TrafficInv'
  BY <1>2, ResetShrinks DEF DeviceGoes
<1>3. ASSUME NEW d \in Devices, Moves(d, 1, 0) \/ Moves(d, 0, 1) PROVE TrafficInv'
  BY <1>3, MovesStep
<1> QED  BY <1>1, <1>2, <1>3, ObserveStep DEF TrafficNext

-----------------------------------------------------------------------------
(* The theorems.                                                           *)

LEMMA ContainerStep ==
  ASSUME ContainerInv, ContainerNext
  PROVE  ContainerInv'
<1>1. ASSUME NEW c \in Containers, NEW at \in 1..MaxStamp, ContainerStarts(c, at)
      PROVE  ContainerInv'
  <2>1. /\ container' = [container EXCEPT ![c] = at]
        /\ restarted' = [restarted EXCEPT ![c] = IF seen[c] = Untracked THEN 0 ELSE @ + 1]
        /\ UNCHANGED <<seen, carried>>
    BY <1>1 DEF ContainerStarts
  <2>2. at \in Nat /\ \A d \in Containers : restarted[d] \in Nat
    BY TrackerAssumptions DEF ContainerInv, ContainerType
  <2>3. ContainerType'
    BY <2>1, <2>2 DEF ContainerInv, ContainerType
  <2>4. \A d \in Containers : seen[d] # Untracked => seen[d].restarts \in Nat
    BY TrackedEntry DEF ContainerInv, ContainerType, Entry
  <2>5. NotCountedYet'
    <3>1. seen[c] # Untracked => seen[c].restarts < restarted'[c]
      <4>1. seen[c] # Untracked => restarted'[c] = restarted[c] + 1
        BY <2>1 DEF ContainerInv, ContainerType
      <4>2. seen[c] # Untracked => seen[c].restarts <= restarted[c]
        BY DEF ContainerInv, RestartsReal
      <4> QED  BY <2>2, <2>4, <4>1, <4>2
    <3>2. \A d \in Containers : d # c =>
             container'[d] = container[d] /\ restarted'[d] = restarted[d]
      BY <2>1 DEF ContainerInv, ContainerType
    <3> QED  BY <2>1, <3>1, <3>2 DEF ContainerInv, NotCountedYet
  <2>6. \A d \in Containers : seen[d] # Untracked => restarted[d] <= restarted'[d]
    <3>1. restarted \in [Containers -> Nat]
      BY DEF ContainerInv, ContainerType
    <3>2. \A d \in Containers : seen[d] # Untracked =>
             restarted'[d] = IF d = c THEN restarted[d] + 1 ELSE restarted[d]
      BY <2>1, <3>1
    <3> QED  BY <2>2, <3>2
  <2>7. \A d \in Containers : seen[d] # Untracked => seen[d].restarts <= restarted'[d]
    BY <2>1, <2>2, <2>4, <2>6 DEF ContainerInv, RestartsReal, ContainerType
  <2>8. \A d \in DOMAIN carried : carried[d] > 0 => carried[d] <= restarted'[d]
    <3>1. restarted' \in [Containers -> Nat]
      BY <2>3 DEF ContainerType
    <3> QED  BY <2>2, <2>6, <3>1 DEF ContainerInv, CarriedKnown, RestartsReal
  <2> QED  BY <2>1, <2>3, <2>5, <2>7, <2>8 DEF ContainerInv, CarriedKnown, RestartsReal
<1>2. ASSUME NEW c \in Containers, ContainerStops(c)
      PROVE  ContainerInv'
  <2>1. container' = [container EXCEPT ![c] = 0] /\ UNCHANGED <<seen, carried, restarted>>
    BY <1>2 DEF ContainerStops
  <2>2. \A d \in Containers : seen[d] # Untracked => seen[d].start \in Nat
    BY TrackedEntry DEF ContainerInv, ContainerType, Entry
  <2>3. ContainerType' /\ NotCountedYet'
    BY <2>1, <2>2 DEF ContainerInv, ContainerType, NotCountedYet
  <2> QED  BY <2>1, <2>3 DEF ContainerInv, CarriedKnown, RestartsReal
<1> QED  BY <1>1, <1>2, CollectStep DEF ContainerNext

\* However start times and sightings fall, and whatever the tracker forgot,
\* it reports no more restarts of a container than there were.
THEOREM RestartsAreReal == TrackerSpec => []RestartsReal
<1>1. TrackerInit => ContainerInv
  BY DEF TrackerInit, ContainerInv, ContainerType, NotCountedYet, CarriedKnown, RestartsReal
<1>2. ASSUME ContainerInv, UNCHANGED containerVars
      PROVE  ContainerInv'
  BY <1>2 DEF containerVars, ContainerInv, ContainerType, NotCountedYet, CarriedKnown, RestartsReal
<1>3. ASSUME TrafficNext \/ ProcessNext \/ UNCHANGED trackerVars
      PROVE  UNCHANGED containerVars
  BY <1>3 DEF TrafficNext, DeviceResets, DeviceGoes, Moves, ObserveTraffic, ProcessNext,
     ProcessStarts, ProcessWorks, ProcessEnds, FirstPass, SecondPass, trackerVars
<1>4. ContainerInv /\ [ContainerNext \/ TrafficNext \/ ProcessNext]_trackerVars => ContainerInv'
  BY <1>2, <1>3, ContainerStep
<1>5. ContainerInv => RestartsReal
  BY DEF ContainerInv
<1> QED  BY <1>1, <1>4, <1>5, PTL DEF TrackerSpec

\* Whichever devices come, go or start over between two readings, a rate is
\* never more than what really passed, nor its rows more than the rate.
THEOREM RatesAreReal == TrackerSpec => []RateReal
<1>1. TrackerInit => TrafficInv
  <2> SUFFICES ASSUME TrackerInit PROVE TrafficInv
    OBVIOUS
  <2>1. NoDevice \in Device
    BY DEF Device
  <2> QED  BY <2>1 DEF TrackerInit, TrafficInv, TrafficType, GrownPassed, RateReal
<1>2. ASSUME TrafficInv, UNCHANGED trafficVars
      PROVE  TrafficInv'
  BY <1>2 DEF trafficVars, TrafficInv, TrafficType, GrownPassed, Grown, Both, RateReal
<1>3. ASSUME ContainerNext \/ ProcessNext \/ UNCHANGED trackerVars
      PROVE  UNCHANGED trafficVars
  BY <1>3 DEF ContainerNext, ContainerStarts, ContainerStops, CollectContainers, ProcessNext,
     ProcessStarts, ProcessWorks, ProcessEnds, FirstPass, SecondPass, trackerVars
<1>4. TrafficInv /\ [ContainerNext \/ TrafficNext \/ ProcessNext]_trackerVars => TrafficInv'
  BY <1>2, <1>3, TrafficStep
<1>5. TrafficInv => RateReal
  BY DEF TrafficInv
<1> QED  BY <1>1, <1>4, <1>5, PTL DEF TrackerSpec

\* Whatever process wears a pid at the second pass, a CPU share is told of the
\* process the first pass saw.
THEOREM SharesAreOwn == TrackerSpec => []ShareOwn
<1>1. TrackerInit => ProcessInv
  <2>1. NoProcess \in Process /\ NoProcess.life = NoProcess.start
    BY DEF NoProcess, Process
  <2> QED  BY <2>1 DEF TrackerInit, ProcessInv, ProcessType, StartTells, ShareOwn
<1>2. ASSUME ProcessInv, UNCHANGED processVars
      PROVE  ProcessInv'
  BY <1>2 DEF processVars, ProcessInv, ProcessType, StartTells, ShareOwn
<1>3. ASSUME TrafficNext \/ ContainerNext \/ UNCHANGED trackerVars
      PROVE  UNCHANGED processVars
  BY <1>3 DEF TrafficNext, DeviceResets, DeviceGoes, Moves, ObserveTraffic, ContainerNext,
     ContainerStarts, ContainerStops, CollectContainers, trackerVars
<1>4. ProcessInv /\ [ContainerNext \/ TrafficNext \/ ProcessNext]_trackerVars => ProcessInv'
  BY <1>2, <1>3, ProcessStep
<1>5. ProcessInv => ShareOwn
  BY DEF ProcessInv
<1> QED  BY <1>1, <1>4, <1>5, PTL DEF TrackerSpec
=============================================================================
