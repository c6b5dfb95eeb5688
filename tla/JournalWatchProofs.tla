------------------------ MODULE JournalWatchProofs ------------------------
(***************************************************************************)
(* Theorems about JournalWatch, for any units, limits, faults and bounds.  *)
(***************************************************************************)
EXTENDS JournalWatch, OrderProofs, SequenceTheorems

\* The larger of two numbers.
LEMMA MaxPair ==
    ASSUME NEW a \in Int, NEW b \in Int
    PROVE  Max({a, b}) = IF a >= b THEN a ELSE b
<1>1. CASE a >= b
  <2>1. \A x \in {a, b} : (\A y \in {a, b} : x >= y) => x = a
    BY <1>1
  <2>2. a \in {a, b} /\ \A y \in {a, b} : a >= y
    BY <1>1
  <2> QED
    BY <1>1, <2>1, <2>2 DEF Max
<1>2. CASE b > a
  <2>1. \A x \in {a, b} : (\A y \in {a, b} : x >= y) => x = b
    BY <1>2
  <2>2. b \in {a, b} /\ \A y \in {a, b} : b >= y
    BY <1>2
  <2> QED
    BY <1>2, <2>1, <2>2 DEF Max
<1> QED
  BY <1>1, <1>2

\* Newest keeps the end of a sequence, in order.
LEMMA NewestIsEnd ==
    ASSUME NEW S, NEW s \in Seq(S), NEW limit \in Nat \ {0}
    PROVE  /\ Newest(s, limit) \in Seq(S)
           /\ Len(Newest(s, limit)) = IF Len(s) <= limit THEN Len(s) ELSE limit
           /\ \A i \in 1..Len(Newest(s, limit)) :
                Newest(s, limit)[i] = s[i + (Len(s) - Len(Newest(s, limit)))]
<1> DEFINE first == IF Len(s) <= limit THEN 1 ELSE Len(s) - limit + 1
<1>1. Max({1, Len(s) - limit + 1}) = first
  BY MaxPair
<1>2. Newest(s, limit) = SubSeq(s, first, Len(s))
  BY <1>1 DEF Newest
<1>3. first \in Int /\ Len(s) \in Nat /\ first >= 1 /\ first <= Len(s) + 1
  OBVIOUS
<1>4. \A i \in first..Len(s) : s[i] \in S
  BY <1>3
<1>5. /\ SubSeq(s, first, Len(s)) \in Seq(S)
      /\ Len(SubSeq(s, first, Len(s))) = IF first <= Len(s) THEN Len(s) - first + 1 ELSE 0
      /\ \A i \in 1..(Len(s) - first + 1) : SubSeq(s, first, Len(s))[i] = s[first + i - 1]
  <2> HIDE DEF first
  <2> QED
    BY <1>3, <1>4, SubSeqProperties
<1>6. Len(Newest(s, limit)) = Len(s) - first + 1
  <2> HIDE DEF first
  <2> QED
    BY <1>2, <1>3, <1>5
<1>7. \A i \in 1..Len(Newest(s, limit)) : Newest(s, limit)[i] = s[i + (Len(s) - Len(Newest(s, limit)))]
  <2> SUFFICES ASSUME NEW i \in 1..Len(Newest(s, limit))
               PROVE  Newest(s, limit)[i] = s[i + (Len(s) - Len(Newest(s, limit)))]
    OBVIOUS
  <2>1. first + i - 1 = i + (Len(s) - Len(Newest(s, limit)))
    BY <1>3, <1>6
  <2>2. Newest(s, limit)[i] = s[first + i - 1]
    BY <1>2, <1>5, <1>6
  <2> QED
    BY <2>1, <2>2
<1>8. Len(s) - first + 1 = IF Len(s) <= limit THEN Len(s) ELSE limit
  BY <1>3
<1> QED
  BY <1>2, <1>5, <1>6, <1>7, <1>8

\* Whole hours that have passed do not exceed the time.
LEMMA WholeHours ==
    ASSUME NEW n \in Nat, NEW h \in Nat \ {0}
    PROVE  n \div h \in Int /\ h * (n \div h) <= n
OBVIOUS

\* An hour is not longer for being later.
LEMMA HoursMonotonic ==
    ASSUME NEW a \in Nat, NEW b \in Nat, NEW h \in Nat, a <= b
    PROVE  h * a <= h * b
OBVIOUS

-----------------------------------------------------------------------------
\* What a unit's counter may read: it is never the missing key.
Counters == count \in [Units -> Nat]

LEMMA CountersType == Spec => []Counters
<1>1. Init => Counters
  BY DEF Init, Counters
<1>2. Counters /\ [Next]_vars => Counters'
  BY DEF Counters, Next, vars, machine, Tick, Fail, Recover, Restart, Collect, CollectUnanswered,
     PushBegin, PushLands, PushFails, Crash
<1> QED
  BY <1>1, <1>2, PTL DEF Spec

\* What is remembered of a unit's restarts ends with the watch on it (the loop
\* over w.restarts in observeJournal).  Given that a counter that was read is
\* a number, it is inductive as it stands: a collection sets the counter of
\* every unit it notes times or a loop for.
THEOREM RestartsForgotten == Spec => []Forgets
<1>1. Init => Forgets
  BY DEF Init, Forgets
<1>2. ASSUME Counters, Forgets, [Next]_vars PROVE Forgets'
  <2> USE <1>2 DEF Forgets
  <2>1. CASE Collect
    <3> PICK answer, left, mute, silent :
            Observe(answer, Units \ left, mute, silent)
      BY <2>1 DEF Collect, Unanswered
    <3>1. Remember(Units \ left, mute, silent)
      BY DEF Observe
    <3> SUFFICES ASSUME NEW u \in Units, restarts'[u] = None
                 PROVE  restartTimes'[u] = <<>> /\ loopSent'[u] = 0
      OBVIOUS
    <3>2. count[u] # None
      BY DEF Counters, None
    <3>3. CASE u \notin Units \ left
      BY <3>1, <3>3 DEF Remember
    <3>4. CASE u \in Units \ left /\ u \in silent
      BY <3>1, <3>4 DEF Remember
    <3>5. CASE u \in Units \ left /\ u \notin silent
      BY <3>1, <3>2, <3>5 DEF Remember
    <3> QED
      BY <3>3, <3>4, <3>5
  <2>2. CASE Crash
    BY <2>2 DEF Crash, Forgotten
  <2>3. CASE UNCHANGED memory
    BY <2>3 DEF memory
  <2> QED
    BY <2>1, <2>2, <2>3 DEF Next, Tick, Fail, Recover, Restart, CollectUnanswered, PushBegin,
       PushLands, PushFails, vars
<1> QED
  BY <1>1, <1>2, CountersType, PTL DEF Spec

-----------------------------------------------------------------------------
\* The inductive invariant behind HoursOnce: the hours that wait ascend from
\* what was delivered to what was counted, and that hour is over.
HoursCounted ==
    /\ now \in Nat /\ now >= Epoch
    /\ counted \in Nat /\ landed \in Nat /\ landed <= counted
    /\ Hour * (counted + 1) <= now
    /\ hours \in Seq(Nat)
    /\ \A i \in 1..Len(hours) : landed < hours[i] /\ hours[i] <= counted
    /\ \A i \in 1..(Len(hours) - 1) : hours[i] < hours[i + 1]

LEMMA HoursCountedImplies == HoursCounted => HoursOnce
<1> SUFFICES ASSUME HoursCounted, NEW i \in 1..Len(hours)
             PROVE  /\ hours[i] > (IF i = 1 THEN landed ELSE hours[i - 1])
                    /\ Hour * (hours[i] + 1) <= now
  BY DEF HoursCounted, HoursOnce
<1>1. hours[i] > (IF i = 1 THEN landed ELSE hours[i - 1])
  <2>1. CASE i = 1
    BY <2>1 DEF HoursCounted
  <2>2. CASE i # 1
    <3>1. i - 1 \in 1..(Len(hours) - 1) /\ (i - 1) + 1 = i
      BY <2>2 DEF HoursCounted
    <3>2. hours[i - 1] < hours[(i - 1) + 1]
      BY <3>1 DEF HoursCounted
    <3>3. hours[i - 1] \in Nat /\ hours[i] \in Nat
      BY <3>1 DEF HoursCounted
    <3> QED
      BY <2>2, <3>1, <3>2, <3>3
  <2> QED
    BY <2>1, <2>2
<1>2. hours[i] \in Nat /\ hours[i] + 1 <= counted + 1
  BY DEF HoursCounted
<1>3. Hour \in Nat
  BY LimitsAssumption
<1>4. Hour * (hours[i] + 1) <= Hour * (counted + 1)
  BY <1>2, <1>3, HoursMonotonic DEF HoursCounted
<1>5. Hour * (hours[i] + 1) \in Int /\ Hour * (counted + 1) \in Int
  BY <1>2, <1>3 DEF HoursCounted
<1> QED
  BY <1>1, <1>4, <1>5 DEF HoursCounted

\* A push that finds an hour to count appends it and keeps the invariant.
LEMMA PushKeepsHours ==
    ASSUME HoursCounted, PushBegin PROVE HoursCounted'
<1>1. CASE UNCHANGED <<hours, counted>>
  BY <1>1 DEF HoursCounted, PushBegin, machine, history
<1>2. CASE /\ counted < EndedHour
           /\ hours' = Newest(Append(hours, EndedHour), MaxHours)
           /\ counted' = EndedHour
  <2> DEFINE s == Append(hours, EndedHour)
  <2>1. Hour \in Nat \ {0} /\ MaxHours \in Nat \ {0}
    BY LimitsAssumption
  <2>2. EndedHour \in Nat /\ Hour * (EndedHour + 1) <= now
    <3>1. now \div Hour \in Int /\ Hour * (now \div Hour) <= now
      BY <2>1, WholeHours DEF HoursCounted
    <3>2. EndedHour + 1 = now \div Hour
      BY <3>1 DEF EndedHour
    <3>3. EndedHour \in Int
      BY <3>1 DEF EndedHour
    <3> QED
      BY <1>2, <3>1, <3>2, <3>3 DEF HoursCounted
  <2>3. /\ s \in Seq(Nat) /\ Len(s) = Len(hours) + 1
        /\ \A i \in 1..Len(hours) : s[i] = hours[i]
        /\ s[Len(hours) + 1] = EndedHour
    BY <2>2, AppendProperties DEF HoursCounted
  <2>4. \A i \in 1..Len(s) : landed < s[i] /\ s[i] <= EndedHour
    BY <1>2, <2>2, <2>3 DEF HoursCounted
  <2>5. \A i \in 1..(Len(s) - 1) : s[i] < s[i + 1]
    BY <1>2, <2>2, <2>3 DEF HoursCounted
  <2> DEFINE k == Len(s) - Len(hours')
  <2>6. /\ hours' \in Seq(Nat) /\ k \in Nat
        /\ \A i \in 1..Len(hours') : hours'[i] = s[i + k]
    <3> DEFINE t == Newest(s, MaxHours)
    <3>1. /\ t \in Seq(Nat)
          /\ Len(t) = IF Len(s) <= MaxHours THEN Len(s) ELSE MaxHours
          /\ \A i \in 1..Len(t) : t[i] = s[i + (Len(s) - Len(t))]
      <4> HIDE DEF s, t
      <4> QED
        BY <2>1, <2>3, NewestIsEnd DEF t
    <3>2. hours' = t
      BY <1>2
    <3> HIDE DEF s, t
    <3>3. Len(s) \in Nat /\ Len(t) \in Nat /\ Len(t) <= Len(s)
      BY <2>1, <2>3, <3>1
    <3> QED
      BY <3>1, <3>2, <3>3
  <2>7. \A i \in 1..Len(hours') : landed < hours'[i] /\ hours'[i] <= EndedHour
    <3> SUFFICES ASSUME NEW i \in 1..Len(hours')
                 PROVE  landed < hours'[i] /\ hours'[i] <= EndedHour
      OBVIOUS
    <3> HIDE DEF s
    <3>1. i + k \in 1..Len(s)
      BY <2>3, <2>6
    <3> QED
      BY <2>4, <2>6, <3>1
  <2>8. \A i \in 1..(Len(hours') - 1) : hours'[i] < hours'[i + 1]
    <3> SUFFICES ASSUME NEW i \in 1..(Len(hours') - 1) PROVE hours'[i] < hours'[i + 1]
      OBVIOUS
    <3> HIDE DEF s
    <3>1. /\ i \in 1..Len(hours') /\ i + 1 \in 1..Len(hours')
          /\ i + k \in 1..(Len(s) - 1) /\ (i + 1) + k = (i + k) + 1
      BY <2>3, <2>6
    <3>2. s[i + k] < s[(i + k) + 1]
      BY <2>5, <3>1
    <3> QED
      BY <2>6, <3>1, <3>2
  <2>9. now' = now /\ landed' = landed
    BY DEF PushBegin, machine, history
  <2> QED
    BY <1>2, <2>2, <2>6, <2>7, <2>8, <2>9 DEF HoursCounted
<1> QED
  BY <1>1, <1>2 DEF PushBegin

\* An hour is counted once and after it has ended, whatever pushes fail and
\* however often the process starts again (journalForPush, journalDelivered).
THEOREM HoursCountedOnce == Spec => []HoursOnce
<1>1. Init => HoursCounted
  BY LimitsAssumption, EpochAssumption DEF Init, HoursCounted
<1>2. ASSUME HoursCounted, [Next]_vars PROVE HoursCounted'
  <2> USE <1>2
  <2>1. CASE PushBegin
    BY <2>1, PushKeepsHours
  <2>2. CASE PushLands
    <3>1. landed' \in Nat /\ landed' <= counted
      BY <2>2 DEF PushLands, HoursCounted, Last
    <3> QED
      BY <2>2, <3>1 DEF PushLands, HoursCounted, machine
  <2>3. CASE Crash
    <3>1. now' = now /\ hours' = <<>> /\ counted' = 0 /\ landed' = 0
      BY <2>3 DEF Crash, Forgotten, machine
    <3>2. Hour * (0 + 1) <= now /\ now \in Nat /\ now >= Epoch
      BY LimitsAssumption, EpochAssumption DEF HoursCounted
    <3>3. <<>> \in Seq(Nat) /\ Len(<<>>) = 0
      BY EmptySeq
    <3> QED
      BY <3>1, <3>2, <3>3 DEF HoursCounted
  <2>4. CASE now' = now + 1 /\ UNCHANGED <<hours, counted, landed>>
    <3>1. Hour * (counted + 1) \in Int
      BY LimitsAssumption DEF HoursCounted
    <3>2. Hour * (counted + 1) <= now + 1 /\ now + 1 >= Epoch
      BY <3>1, LimitsAssumption DEF HoursCounted
    <3> QED
      BY <2>4, <3>2 DEF HoursCounted
  <2>5. CASE UNCHANGED <<now, hours, counted, landed>>
    BY <2>5 DEF HoursCounted
  <2> QED
    BY <2>1, <2>2, <2>3, <2>4, <2>5 DEF Next, Tick, Fail, Recover, Restart, Collect,
       CollectUnanswered, PushFails, vars, machine, queues, history
<1> QED
  BY <1>1, <1>2, HoursCountedImplies, PTL DEF Spec

-----------------------------------------------------------------------------
(* The parts a collection is made of.                                      *)

\* The smaller of two numbers.
LEMMA MinPair ==
    ASSUME NEW a \in Int, NEW b \in Int
    PROVE  Min({a, b}) = IF a <= b THEN a ELSE b
<1>1. CASE a <= b
  <2>1. \A x \in {a, b} : (\A y \in {a, b} : x <= y) => x = a
    BY <1>1
  <2>2. a \in {a, b} /\ \A y \in {a, b} : a <= y
    BY <1>1
  <2> QED
    BY <1>1, <2>1, <2>2 DEF Min
<1>2. CASE b < a
  <2>1. \A x \in {a, b} : (\A y \in {a, b} : x <= y) => x = b
    BY <1>2
  <2>2. b \in {a, b} /\ \A y \in {a, b} : b <= y
    BY <1>2
  <2> QED
    BY <1>2, <2>1, <2>2 DEF Min
<1> QED
  BY <1>1, <1>2

\* What is dropped first is not missed later: the newest of all is the newest
\* of what was kept and what came.
LEMMA NewestOfNewest ==
    ASSUME NEW S, NEW s \in Seq(S), NEW t \in Seq(S), NEW limit \in Nat \ {0}
    PROVE  Newest(Newest(s, limit) \o t, limit) = Newest(s \o t, limit)
<1> DEFINE k == Newest(s, limit)
           a == k \o t
           b == s \o t
           x == Newest(a, limit)
           y == Newest(b, limit)
<1>1. /\ k \in Seq(S) /\ Len(k) = IF Len(s) <= limit THEN Len(s) ELSE limit
      /\ \A i \in 1..Len(k) : k[i] = s[i + (Len(s) - Len(k))]
  BY NewestIsEnd
<1> HIDE DEF k
<1>2. /\ a \in Seq(S) /\ Len(a) = Len(k) + Len(t)
      /\ \A i \in 1..Len(k) + Len(t) : a[i] = IF i <= Len(k) THEN k[i] ELSE t[i - Len(k)]
  BY <1>1, ConcatProperties
<1>3. /\ b \in Seq(S) /\ Len(b) = Len(s) + Len(t)
      /\ \A i \in 1..Len(s) + Len(t) : b[i] = IF i <= Len(s) THEN s[i] ELSE t[i - Len(s)]
  BY ConcatProperties
<1> HIDE DEF a, b
<1>4. /\ x \in Seq(S) /\ Len(x) = IF Len(a) <= limit THEN Len(a) ELSE limit
      /\ \A i \in 1..Len(x) : x[i] = a[i + (Len(a) - Len(x))]
  BY <1>2, NewestIsEnd
<1>5. /\ y \in Seq(S) /\ Len(y) = IF Len(b) <= limit THEN Len(b) ELSE limit
      /\ \A i \in 1..Len(y) : y[i] = b[i + (Len(b) - Len(y))]
  BY <1>3, NewestIsEnd
<1> HIDE DEF x, y
<1>6. PICK n \in Nat, m \in Nat, j \in Nat : n = Len(s) /\ m = Len(t) /\ j = Len(k)
  BY <1>1, LenProperties
<1>7. /\ j = IF n <= limit THEN n ELSE limit
      /\ Len(a) = j + m /\ Len(b) = n + m
  BY <1>1, <1>2, <1>3, <1>6
<1>8. PICK l \in Nat : l = Len(x) /\ l <= j + m /\ l = Len(y)
  BY <1>4, <1>5, <1>6, <1>7
<1>9. ASSUME NEW i \in 1..l
      PROVE  x[i] = y[i]
  <2> DEFINE c == i + (j + m - l)
             d == i + (n + m - l)
  <2>1. x[i] = a[c] /\ y[i] = b[d]
    <3>1. i \in 1..Len(x) /\ i \in 1..Len(y)
      BY <1>8
    <3>2. x[i] = a[i + (Len(a) - Len(x))] /\ y[i] = b[i + (Len(b) - Len(y))]
      BY <1>4, <1>5, <3>1
    <3>3. i + (Len(a) - Len(x)) = c /\ i + (Len(b) - Len(y)) = d
      BY <1>7, <1>8
    <3> QED
      BY <3>2, <3>3
  <2>2. c \in 1..j + m /\ d \in 1..n + m /\ j <= n
    BY <1>7, <1>8
  <2>3. a[c] = (IF c <= j THEN k[c] ELSE t[c - j]) /\ b[d] = IF d <= n THEN s[d] ELSE t[d - n]
    BY <1>2, <1>3, <1>6, <2>2
  <2>4. c - j = d - n /\ (c <= j <=> d <= n) /\ c + (n - j) = d
    BY <1>8
  <2>5. ASSUME c <= j
        PROVE  k[c] = s[c + (n - j)]
    <3>1. c \in 1..Len(k)
      BY <1>6, <2>2, <2>5
    <3> HIDE DEF c
    <3> QED
      BY <1>1, <1>6, <3>1
  <2> HIDE DEF c, d
  <2> QED
    BY <2>1, <2>3, <2>4, <2>5
<1>10. x = y
  BY <1>4, <1>5, <1>8, <1>9, SeqEqual
<1> QED
  BY <1>10 DEF x, y, a, b, k

\* What the machine and the watch hold.
MachineType ==
    /\ now \in Nat
    /\ state \in [Units -> {"active", "failed"}]
    /\ since \in [Units -> Nat] /\ \A u \in Units : since[u] <= now
    /\ count \in [Units -> Nat]

\* What is found comes from the units that failed anew or loop, in whatever
\* order: Before orders it.
LEMMA EventsOrdered ==
    ASSUME MachineType, NEW seen \in SUBSET Units, NEW mute, NEW silent,
           NEW all, all = FailureEvents(seen, mute) \cup LoopEvents(seen, silent)
    PROVE  /\ IsFiniteSet(all)
           /\ Orders({p \in all \X all : ~Before(p[2], p[1])}, all)
<1> DEFINE fu == {v \in seen : NewFailure(mute, v)}
           lu == {v \in seen \ silent : Looping(v)}
<1>1. fu \subseteq Units /\ lu \subseteq Units /\ Units \subseteq Nat /\ IsFiniteSet(Units)
  BY LimitsAssumption
<1>2. IsFiniteSet(fu) /\ IsFiniteSet(lu)
  BY <1>1, FS_Subset
<1>3. IsFiniteSet(FailureEvents(seen, mute)) /\ IsFiniteSet(LoopEvents(seen, silent))
  <2>1. FailureEvents(seen, mute) =
          {[unit |-> u, event |-> "failed", at |-> IF u \in mute THEN now ELSE since[u]] : u \in fu}
    BY DEF FailureEvents
  <2>2. LoopEvents(seen, silent) = {[unit |-> u, event |-> "restart_loop", at |-> now] : u \in lu}
    BY DEF LoopEvents
  <2> DEFINE f == [u \in fu |->
               [unit |-> u, event |-> "failed", at |-> IF u \in mute THEN now ELSE since[u]]]
             l == [u \in lu |-> [unit |-> u, event |-> "restart_loop", at |-> now]]
  <2> HIDE DEF fu, lu
  <2>3. f \in Surjection(fu, FailureEvents(seen, mute))
    BY <2>1 DEF Surjection
  <2>4. l \in Surjection(lu, LoopEvents(seen, silent))
    BY <2>2 DEF Surjection
  <2> HIDE DEF f, l
  <2> QED
    BY <1>2, <2>3, <2>4, FS_Surjection
<1>4. IsFiniteSet(all)
  BY <1>3, FS_Union
<1>5. \A d \in all : d.unit \in Nat /\ d.event \in {"failed", "restart_loop"}
  BY <1>1 DEF FailureEvents, LoopEvents
<1>6. \A d, e \in all : d.unit = e.unit /\ (d.event = "failed" <=> e.event = "failed") => d = e
  BY DEF FailureEvents, LoopEvents
<1>7. \A d, e \in all : ~Before(d, e) /\ ~Before(e, d) => d = e
  BY <1>5, <1>6 DEF Before
<1>8. \A d, e \in all : ~Before(d, e) \/ ~Before(e, d)
  BY <1>5 DEF Before
<1>9. \A d, e, f \in all : ~Before(e, d) /\ ~Before(f, e) => ~Before(f, d)
  BY <1>5 DEF Before
<1> DEFINE R == {p \in all \X all : ~Before(p[2], p[1])}
<1>10. \A d, e \in all : <<d, e>> \in R <=> ~Before(e, d)
  OBVIOUS
<1> HIDE DEF R
<1>11. Orders(R, all)
  BY <1>7, <1>8, <1>9, <1>10 DEF Orders
<1> QED
  BY <1>4, <1>11 DEF R

\* So what is found is a sequence of such events, and what is read is its start.
LEMMA ReadIsFound ==
    ASSUME MachineType, NEW seen \in SUBSET Units, NEW mute, NEW silent,
           NEW all, all = FailureEvents(seen, mute) \cup LoopEvents(seen, silent)
    PROVE  Read(Found(seen, mute, silent)) \in Seq(all)
<1> DEFINE found == Found(seen, mute, silent)
<1>1. PICK R : R = {p \in all \X all : ~Before(p[2], p[1])}
  OBVIOUS
<1>2. IsFiniteSet(all) /\ Orders(R, all)
  BY <1>1, EventsOrdered
<1>3. PICK n \in Nat : n = Cardinality(all)
  BY <1>2, FS_CardinalityType
<1>4. found = [i \in 1..n |-> CHOOSE d \in all : Cardinality({e \in all : ~Before(d, e)}) = i]
  BY <1>3 DEF Found
<1>5. ASSUME NEW d \in all
      PROVE  Rank(all, R, d) = Cardinality({e \in all : ~Before(d, e)})
  <2>1. {e \in all : <<e, d>> \in R} = {e \in all : ~Before(d, e)}
    BY <1>1
  <2> QED
    BY <2>1 DEF Rank
<1>6. \A i \in 1..n : \E d \in all : Rank(all, R, d) = i
  BY <1>2, <1>3, RankOnto
<1>7. \A i \in 1..n : found[i] \in all
  <2> SUFFICES ASSUME NEW i \in 1..n
               PROVE  found[i] \in all
    OBVIOUS
  <2>1. \E d \in all : Cardinality({e \in all : ~Before(d, e)}) = i
    BY <1>5, <1>6
  <2> QED
    BY <1>4, <2>1
<1>8. found \in [1..n -> all]
  BY <1>4, <1>7
<1> HIDE DEF found
<1>9. found \in Seq(all) /\ Len(found) = n
  BY <1>8, SeqDef, LenProperties
<1>10. MaxReads \in Nat
  BY LimitsAssumption
<1>11. PICK m \in Nat : m = Min({MaxReads, n}) /\ m <= n
  BY <1>10, MinPair
<1>12. Read(found) = SubSeq(found, 1, m)
  BY <1>9, <1>11 DEF Read
<1>13. \A i \in 1..m : found[i] \in all
  BY <1>7, <1>11
<1> QED
  BY <1>12, <1>13, SubSeqProperties DEF found

\* What a collection that was answered does, with what it read.
CollectDoes(seen, mute, silent, read) ==
    /\ \A u \in Units : state[u] = "failed" => u \in seen
    /\ "stamp" \notin Faults => mute = {}
    /\ read \in Seq(FailureEvents(seen, mute) \cup LoopEvents(seen, silent))
    /\ Remember(seen, mute, silent)
    /\ events' = Newest(events \o read, MaxEvents)
    /\ backlog' = backlog \o read
    /\ told' = told \cup {<<d.unit, since[d.unit]>> : d \in {e \in Range(read) : e.event = "failed"}}
    /\ witnessed' = [u \in Units |->
            IF u \notin seen \/ (restarts[u] = None /\ u \notin silent) THEN 0 ELSE witnessed[u]]
    /\ UNCHANGED <<now, state, since, count>>

LEMMA CollectEffect ==
    ASSUME MachineType, Collect
    PROVE  \E seen, mute, silent \in SUBSET Units : \E read :
              mute \subseteq seen /\ silent \subseteq seen /\ CollectDoes(seen, mute, silent, read)
<1>1. PICK answer \in Statuses :
      \E left \in Unanswered("enabled", {u \in Units : state[u] # "failed"}) :
      \E mute \in Unanswered("stamp", Units \ left) :
      \E silent \in Unanswered("counter", Units \ left) :
           Observe(answer, Units \ left, mute, silent)
  BY DEF Collect
<1>2. PICK left \in Unanswered("enabled", {u \in Units : state[u] # "failed"}) :
      \E mute \in Unanswered("stamp", Units \ left) :
      \E silent \in Unanswered("counter", Units \ left) :
           Observe(answer, Units \ left, mute, silent)
  BY <1>1
<1> DEFINE seen == Units \ left
<1>3. PICK mute \in Unanswered("stamp", seen), silent \in Unanswered("counter", seen) :
           Observe(answer, seen, mute, silent)
  BY <1>2
<1>4. seen \in SUBSET Units /\ mute \in SUBSET seen /\ silent \in SUBSET seen
  BY DEF Unanswered
<1>5. \A u \in Units : state[u] = "failed" => u \in seen
  BY DEF Unanswered
<1>6. "stamp" \notin Faults => mute = {}
  BY DEF Unanswered, Fault
<1> HIDE DEF seen
<1> DEFINE read == IF answer = "readable" THEN Read(Found(seen, mute, silent)) ELSE <<>>
           all == FailureEvents(seen, mute) \cup LoopEvents(seen, silent)
<1>7. read \in Seq(all)
  <2>1. <<>> \in Seq(all)
    BY EmptySeq
  <2>2. Read(Found(seen, mute, silent)) \in Seq(all)
    BY <1>4, ReadIsFound
  <2> QED
    BY <2>1, <2>2
<1>8. UNCHANGED <<now, state, since, count>>
  BY DEF Collect, machine
<1>9. CollectDoes(seen, mute, silent, read)
  BY <1>3, <1>5, <1>6, <1>7, <1>8 DEF CollectDoes, Observe
<1> QED
  BY <1>4, <1>9

LEMMA MachineTyped == Spec => []MachineType
<1>1. Init => MachineType
  BY LimitsAssumption DEF Init, MachineType
<1>2. ASSUME MachineType, [Next]_vars PROVE MachineType'
  <2>1. CASE UNCHANGED <<state, since, count>> /\ (now' = now \/ now' = now + 1)
    BY <1>2, <2>1 DEF MachineType
  <2>2. ASSUME NEW u \in Units, Fail(u) PROVE MachineType'
    <3>1. now' = now + 1 /\ since' = [since EXCEPT ![u] = now + 1] /\ count' = count
          /\ state' = [state EXCEPT ![u] = "failed"]
      BY <2>2 DEF Fail
    <3> QED
      BY <1>2, <3>1 DEF MachineType
  <2>3. ASSUME NEW u \in Units, Recover(u) PROVE MachineType'
    BY <1>2, <2>3 DEF MachineType, Recover
  <2>4. ASSUME NEW u \in Units, Restart(u) PROVE MachineType'
    BY <1>2, <2>4 DEF MachineType, Restart
  <2> QED
    BY <1>2, <2>1, <2>2, <2>3, <2>4 DEF Next, Tick, Collect, CollectUnanswered, PushBegin,
       PushLands, PushFails, Crash, vars, machine
<1> QED
  BY <1>1, <1>2, PTL DEF Spec

-----------------------------------------------------------------------------
(* What waits for a push.                                                  *)

Event == [unit : Units, event : {"failed", "restart_loop"}, at : Nat]

\* The inductive invariant behind NewestWait: what was queued are events.
Queued == backlog \in Seq(Event) /\ NewestWait

\* Nothing is the newest of nothing.
LEMMA NewestOfNone == Newest(<<>>, MaxEvents) = <<>>
<1>1. MaxEvents \in Nat \ {0} /\ <<>> \in Seq({}) /\ Len(<<>>) = 0
  BY LimitsAssumption, EmptySeq
<1>2. PICK none \in Seq({}) : none = <<>> /\ Len(none) = 0
  BY <1>1
<1>3. /\ Newest(none, MaxEvents) \in Seq({})
      /\ Len(Newest(none, MaxEvents)) = IF Len(none) <= MaxEvents THEN Len(none) ELSE MaxEvents
  BY <1>1, NewestIsEnd
<1>4. Len(Newest(none, MaxEvents)) = 0
  BY <1>1, <1>2, <1>3
<1> QED
  BY <1>2, <1>3, <1>4, EmptySeq

LEMMA EventsAreEvents ==
    ASSUME MachineType, NEW seen \in SUBSET Units, NEW mute, NEW silent
    PROVE  FailureEvents(seen, mute) \cup LoopEvents(seen, silent) \subseteq Event
<1>1. \A u \in Units : since[u] \in Nat /\ now \in Nat
  BY DEF MachineType
<1>2. FailureEvents(seen, mute) \subseteq Event
  BY <1>1 DEF FailureEvents, Event
<1>3. LoopEvents(seen, silent) \subseteq Event
  BY <1>1 DEF LoopEvents, Event
<1> QED
  BY <1>2, <1>3

LEMMA EventsQueued == Spec => []Queued
<1>1. Init => Queued
  BY NewestOfNone, EmptySeq DEF Init, Queued, NewestWait
<1>2. ASSUME MachineType, Queued, [Next]_vars PROVE Queued'
  <2>1. CASE Collect
    <3>1. PICK seen, mute, silent, read :
            seen \in SUBSET Units /\ CollectDoes(seen, mute, silent, read)
      BY <1>2, <2>1, CollectEffect
    <3>2. read \in Seq(Event)
      <4> DEFINE all == FailureEvents(seen, mute) \cup LoopEvents(seen, silent)
      <4>1. all \subseteq Event
        BY <1>2, <3>1, EventsAreEvents
      <4>2. read \in Seq(all)
        BY <3>1 DEF CollectDoes
      <4> HIDE DEF all
      <4> QED
        BY <4>1, <4>2, SeqMonotonic
    <3>3. events' = Newest(Newest(backlog, MaxEvents) \o read, MaxEvents) /\ backlog' = backlog \o read
      BY <1>2, <3>1 DEF CollectDoes, Queued, NewestWait
    <3>4. MaxEvents \in Nat \ {0}
      BY LimitsAssumption
    <3>5. events' = Newest(backlog \o read, MaxEvents)
      BY <1>2, <3>2, <3>3, <3>4, NewestOfNewest DEF Queued
    <3>6. backlog \o read \in Seq(Event)
      BY <1>2, <3>2, ConcatProperties DEF Queued
    <3> QED
      BY <3>3, <3>5, <3>6 DEF Queued, NewestWait
  <2>2. CASE PushLands \/ Crash
    <3>1. events' = <<>> /\ backlog' = <<>>
      BY <2>2 DEF PushLands, Crash, Forgotten
    <3> QED
      BY <3>1, NewestOfNone, EmptySeq DEF Queued, NewestWait
  <2>3. CASE UNCHANGED <<events, backlog>>
    BY <1>2, <2>3 DEF Queued, NewestWait
  <2> QED
    BY <1>2, <2>1, <2>2, <2>3 DEF Next, Tick, Fail, Recover, Restart, CollectUnanswered, PushBegin,
       PushFails, vars, queues, history
<1> QED
  BY <1>1, <1>2, MachineTyped, PTL DEF Spec

\* What waits for a push that lands is the newest of all that was queued since
\* the last one did: observeJournal cuts what it appends to, journalDelivered
\* empties it, and cutting twice is cutting once.
THEOREM NewestAlwaysWait == Spec => []NewestWait
<1>1. Queued => NewestWait
  BY DEF Queued
<1> QED
  BY <1>1, EventsQueued, PTL

-----------------------------------------------------------------------------
(* A failure is told once.                                                 *)

\* The inductive invariant behind ToldOnce: of what was told, the failures that
\* last are remembered with their moment, and none lies ahead.
ToldRemembered ==
    /\ told \subseteq Units \X Nat
    /\ \A f \in told : /\ f[2] <= now
                       /\ state[f[1]] = "failed" /\ since[f[1]] = f[2] => failed[f[1]] = f[2]

\* A collection tells only failures that are not remembered, and remembers
\* every failure there is.
LEMMA CollectTellsNew ==
    ASSUME MachineType, ToldRemembered, "stamp" \notin Faults,
           NEW seen \in SUBSET Units, NEW mute, NEW silent, NEW read,
           CollectDoes(seen, mute, silent, read), NEW d \in Range(read), d.event = "failed"
    PROVE  d.unit \in Units /\ state[d.unit] = "failed" /\ <<d.unit, since[d.unit]>> \notin told
<1>1. d \in FailureEvents(seen, mute) \cup LoopEvents(seen, silent)
  <2> DEFINE all == FailureEvents(seen, mute) \cup LoopEvents(seen, silent)
  <2>1. read \in Seq(all)
    BY DEF CollectDoes
  <2> HIDE DEF all
  <2>2. \A i \in DOMAIN read : read[i] \in all
    BY <2>1, LenProperties, ElementOfSeq
  <2>3. d \in all
    BY <2>2 DEF Range
  <2> QED
    BY <2>3 DEF all
<1>2. d.unit \in seen /\ NewFailure(mute, d.unit)
  BY <1>1 DEF FailureEvents, LoopEvents
<1>3. state[d.unit] = "failed" /\ failed[d.unit] # since[d.unit]
  BY <1>2 DEF NewFailure, Moment, CollectDoes
<1> QED
  BY <1>2, <1>3 DEF ToldRemembered

LEMMA ToldStep ==
    ASSUME "stamp" \notin Faults, MachineType, ToldRemembered, [Next]_vars
    PROVE  ToldRemembered'
<1>1. CASE Collect
  <2>1. PICK seen, mute, silent, read :
          seen \in SUBSET Units /\ CollectDoes(seen, mute, silent, read)
    BY <1>1, CollectEffect
  <2> DEFINE new == {<<d.unit, since[d.unit]>> : d \in {e \in Range(read) : e.event = "failed"}}
  <2>2. told' = told \cup new /\ UNCHANGED <<now, state, since>>
    BY <2>1 DEF CollectDoes
  <2>3. \A f \in new : f \in Units \X Nat /\ f[2] <= now /\ f[2] = since[f[1]]
    BY <2>1, CollectTellsNew DEF MachineType
  <2>4. ASSUME NEW u \in Units, state[u] = "failed"
        PROVE  failed'[u] = since[u]
    BY <2>1, <2>4 DEF CollectDoes, Remember, Moment
  <2> HIDE DEF new
  <2> QED
    BY <2>2, <2>3, <2>4 DEF ToldRemembered
<1>2. ASSUME NEW u \in Units, Fail(u) PROVE ToldRemembered'
  <2>1. /\ now' = now + 1 /\ since' = [since EXCEPT ![u] = now + 1]
        /\ state' = [state EXCEPT ![u] = "failed"] /\ UNCHANGED <<told, failed>>
    BY <1>2 DEF Fail, history, memory
  <2>2. ASSUME NEW f \in told
        PROVE  /\ f[2] <= now'
               /\ state'[f[1]] = "failed" /\ since'[f[1]] = f[2] => failed'[f[1]] = f[2]
    <3>1. f[1] \in Units /\ f[2] \in Nat /\ f[2] <= now /\ now \in Nat
      BY DEF ToldRemembered, MachineType
    <3>2. f[2] # now + 1 /\ f[2] <= now + 1
      BY <3>1
    <3>3. CASE f[1] = u
      BY <2>1, <3>1, <3>2, <3>3 DEF MachineType
    <3>4. CASE f[1] # u
      BY <2>1, <3>1, <3>2, <3>4 DEF MachineType, ToldRemembered
    <3> QED
      BY <3>3, <3>4
  <2> QED
    BY <2>1, <2>2 DEF ToldRemembered
<1>3. ASSUME NEW u \in Units, Recover(u) PROVE ToldRemembered'
  <2>1. /\ now' = now /\ since' = [since EXCEPT ![u] = 0]
        /\ state' = [state EXCEPT ![u] = "active"] /\ UNCHANGED <<told, failed>>
    BY <1>3 DEF Recover, history, memory
  <2> QED
    BY <2>1 DEF ToldRemembered, MachineType
<1>4. CASE Crash
  BY <1>4 DEF Crash, Forgotten, ToldRemembered
<1>5. CASE UNCHANGED <<state, since, failed, told>> /\ (now' = now \/ now' = now + 1)
  BY <1>5 DEF ToldRemembered, MachineType
<1> QED
  BY <1>1, <1>2, <1>3, <1>4, <1>5 DEF Next, Tick, Restart, CollectUnanswered, PushBegin, PushLands,
     PushFails, vars, machine, history, memory

\* A failure that has been told is not queued again (w.failed in
\* observeJournal), whatever was delivered, dropped or failed in between, as
\* long as systemd answers when the unit changed: without its moment a failure
\* that lasts reads as another one.
THEOREM FailureToldOnce ==
    ASSUME "stamp" \notin Faults
    PROVE  Spec => ToldOnce
<1>1. Init => ToldRemembered
  BY DEF Init, ToldRemembered
<1>2. MachineType /\ ToldRemembered /\ [Next]_vars => ToldRemembered'
  BY ToldStep
<1>3. ASSUME MachineType, Queued, ToldRemembered, [Next]_vars,
             NEW i \in Len(backlog) + 1..Len(backlog'), backlog'[i].event = "failed"
      PROVE  <<backlog'[i].unit, since[backlog'[i].unit]>> \notin told
  <2>1. CASE Collect
    <3>1. PICK seen, mute, silent, read :
            seen \in SUBSET Units /\ CollectDoes(seen, mute, silent, read)
      BY <1>3, <2>1, CollectEffect
    <3> DEFINE all == FailureEvents(seen, mute) \cup LoopEvents(seen, silent)
    <3>2. all \subseteq Event
      BY <1>3, <3>1, EventsAreEvents
    <3>3. read \in Seq(all) /\ backlog' = backlog \o read
      BY <3>1 DEF CollectDoes
    <3> HIDE DEF all
    <3>4. read \in Seq(Event) /\ backlog \in Seq(Event)
      BY <1>3, <3>2, <3>3, SeqMonotonic DEF Queued
    <3>5. PICK n \in Nat, m \in Nat : n = Len(backlog) /\ m = Len(read) /\ DOMAIN read = 1..m
      BY <3>4, LenProperties
    <3>6. /\ Len(backlog') = n + m
          /\ \A j \in 1..n + m : backlog'[j] = IF j <= n THEN backlog[j] ELSE read[j - n]
      BY <3>3, <3>4, <3>5, ConcatProperties
    <3>7. i \in n + 1..n + m
      BY <1>3, <3>5, <3>6
    <3>8. backlog'[i] = read[i - n] /\ i - n \in 1..m
      BY <3>6, <3>7
    <3>9. backlog'[i] \in Range(read)
      BY <3>5, <3>8 DEF Range
    <3> QED
      BY <1>3, <3>1, <3>9, CollectTellsNew
  <2>2. CASE PushLands \/ Crash
    <3>1. backlog' = <<>> /\ Len(backlog) \in Nat
      BY <1>3, <2>2, LenProperties DEF PushLands, Crash, Forgotten, Queued
    <3>2. Len(backlog') = 0
      BY <3>1, EmptySeq
    <3>3. FALSE
      BY <1>3, <3>1, <3>2
    <3> QED
      BY <3>3
  <2>3. CASE UNCHANGED backlog
    <3>1. Len(backlog) \in Nat /\ Len(backlog') = Len(backlog)
      BY <1>3, <2>3, LenProperties DEF Queued
    <3>2. FALSE
      BY <1>3, <3>1
    <3> QED
      BY <3>2
  <2> QED
    BY <1>3, <2>1, <2>2, <2>3 DEF Next, Tick, Fail, Recover, Restart, CollectUnanswered, PushBegin,
       PushFails, vars, history
<1>4. MachineType /\ Queued /\ ToldRemembered /\ [Next]_vars =>
        [\A i \in Len(backlog) + 1..Len(backlog') :
            backlog'[i].event = "failed" =>
                <<backlog'[i].unit, since[backlog'[i].unit]>> \notin told]_vars
  BY <1>3
<1>5. Spec => []ToldRemembered
  BY <1>1, <1>2, MachineTyped, PTL DEF Spec
<1> QED
  BY <1>4, <1>5, MachineTyped, EventsQueued, PTL DEF Spec, ToldOnce

-----------------------------------------------------------------------------
(* A loop is told for restarts that happened.                              *)

\* The restarts noted against a unit, and with them those that its counter has
\* on what was last read of it, are among those it had since it is watched.
Accounted(u) ==
    \/ witnessed[u] >= LoopRestarts
    \/ /\ Len(restartTimes[u]) <= witnessed[u]
       /\ restarts[u] # None /\ count[u] > restarts[u] =>
            Len(restartTimes[u]) + (count[u] - restarts[u]) <= witnessed[u]

\* The inductive invariant behind NoFalseLoop.
RestartsWitnessed ==
    /\ restarts \in [Units -> Nat \cup {None}]
    /\ restartTimes \in [Units -> Seq(Nat)]
    /\ witnessed \in [Units -> Nat]
    /\ \A u \in Units : restarts[u] = None => restartTimes[u] = <<>>
    /\ \A u \in Units : Accounted(u)

\* Noting adds what the counter has gained, and no more than LoopRestarts.
LEMMA NotedLength ==
    ASSUME MachineType, RestartsWitnessed, NEW u \in Units
    PROVE  /\ Noted(u) \in Seq(Nat)
           /\ Len(Noted(u)) <= Len(restartTimes[u]) +
                (IF restarts[u] # None /\ count[u] > restarts[u] THEN count[u] - restarts[u] ELSE 0)
           /\ restarts[u] = None => Noted(u) = <<>>
<1>1. /\ restartTimes[u] \in Seq(Nat) /\ restarts[u] \in Nat \cup {None} /\ count[u] \in Nat
      /\ now \in Nat /\ LoopRestarts \in Nat
  BY LimitsAssumption DEF MachineType, RestartsWitnessed
<1>2. PICK n \in Nat : n = Len(restartTimes[u])
  BY <1>1, LenProperties
<1>3. CASE restarts[u] # None /\ count[u] > restarts[u]
  <2>1. PICK g \in Nat : g = count[u] - restarts[u]
    BY <1>1, <1>3
  <2>2. PICK m \in Nat : m = Min({g, LoopRestarts}) /\ m <= g
    BY <1>1, MinPair
  <2>3. PICK t : t = [i \in 1..m |-> now]
    OBVIOUS
  <2>4. t \in Seq(Nat) /\ Len(t) = m
    BY <1>1, <2>3
  <2>5. Noted(u) = restartTimes[u] \o t
    BY <1>3, <2>1, <2>2, <2>3 DEF Noted
  <2>6. Noted(u) \in Seq(Nat) /\ Len(Noted(u)) = n + m
    BY <1>1, <1>2, <2>4, <2>5, ConcatProperties
  <2>7. n + m <= n + g
    BY <2>2
  <2> QED
    BY <1>2, <1>3, <2>1, <2>6, <2>7
<1>4. CASE ~(restarts[u] # None /\ count[u] > restarts[u])
  <2>1. Noted(u) = restartTimes[u]
    BY <1>4 DEF Noted
  <2> QED
    BY <1>1, <1>2, <1>4, <2>1 DEF RestartsWitnessed
<1> QED
  BY <1>3, <1>4

\* Dropping what is older than a day makes it no longer.
LEMMA RecentLength ==
    ASSUME MachineType, NEW u \in Units, Noted(u) \in Seq(Nat)
    PROVE  Recent(u) \in Seq(Nat) /\ Len(Recent(u)) <= Len(Noted(u))
<1>1. PICK noted \in Seq(Nat) : noted = Noted(u)
  OBVIOUS
<1>2. PICK n \in Nat : n = Len(noted) /\ DOMAIN noted = 1..n
  BY LenProperties
<1>3. PICK kept : kept = {i \in 1..n : now - noted[i] < Day}
  OBVIOUS
<1>4. kept \subseteq 1..n /\ kept \in SUBSET Int
  BY <1>3
<1>5. IsFiniteSet(1..n) /\ Cardinality(1..n) = n
  BY FS_Interval
<1>6. IsFiniteSet(kept) /\ Cardinality(kept) <= n
  BY <1>4, <1>5, FS_Subset
<1>7. PICK c \in Nat : c = Cardinality(kept)
  BY <1>6, FS_CardinalityType
<1>8. Recent(u) = [k \in 1..c |-> noted[CHOOSE i \in kept : Cardinality({j \in kept : j <= i}) = k]]
  BY <1>1, <1>2, <1>3, <1>7 DEF Recent
<1>9. \A k \in 1..c : \E i \in kept : Cardinality({j \in kept : j <= i}) = k
  <2>1. PICK R : R = UpTo(kept)
    OBVIOUS
  <2>2. Orders(R, kept)
    BY <1>4, <2>1, NumbersOrdered
  <2>3. \A k \in 1..c : \E i \in kept : Rank(kept, R, i) = k
    BY <1>6, <1>7, <2>2, RankOnto
  <2>4. ASSUME NEW i \in kept
        PROVE  Rank(kept, R, i) = Cardinality({j \in kept : j <= i})
    <3>1. {j \in kept : <<j, i>> \in R} = {j \in kept : j <= i}
      BY <2>1 DEF UpTo
    <3> QED
      BY <3>1 DEF Rank
  <2> QED
    BY <2>3, <2>4
<1>10. ASSUME NEW k \in 1..c
       PROVE  Recent(u)[k] \in Nat
  <2>1. PICK i \in kept : i = CHOOSE j \in kept : Cardinality({h \in kept : h <= j}) = k
    BY <1>9
  <2>2. Recent(u)[k] = noted[i]
    BY <1>8, <2>1
  <2>3. i \in 1..Len(noted)
    BY <1>2, <1>4
  <2> QED
    BY <2>2, <2>3, ElementOfSeq
<1>11. Recent(u) \in [1..c -> Nat]
  BY <1>8, <1>10
<1>12. Recent(u) \in Seq(Nat) /\ Len(Recent(u)) = c
  BY <1>11
<1> QED
  BY <1>1, <1>2, <1>6, <1>7, <1>12

LEMMA CollectKeepsAccount ==
    ASSUME MachineType, RestartsWitnessed, Collect
    PROVE  RestartsWitnessed'
<1>1. PICK seen, mute, silent, read :
        seen \in SUBSET Units /\ CollectDoes(seen, mute, silent, read) /\ silent \subseteq seen
  BY CollectEffect
<1>2. Remember(seen, mute, silent) /\ count' = count
  BY <1>1 DEF CollectDoes
<1>3. /\ DOMAIN restarts' = Units /\ DOMAIN restartTimes' = Units /\ DOMAIN witnessed' = Units
      /\ restarts' = [u \in Units |-> restarts'[u]]
      /\ restartTimes' = [u \in Units |-> restartTimes'[u]]
      /\ witnessed' = [u \in Units |-> witnessed'[u]]
  BY <1>1, <1>2 DEF CollectDoes, Remember
<1>4. ASSUME NEW u \in Units
      PROVE  /\ restarts'[u] \in Nat \cup {None} /\ restartTimes'[u] \in Seq(Nat)
             /\ witnessed'[u] \in Nat
             /\ restarts'[u] = None => restartTimes'[u] = <<>>
             /\ Accounted(u)'
  <2>1. /\ restarts[u] \in Nat \cup {None} /\ restartTimes[u] \in Seq(Nat) /\ witnessed[u] \in Nat
        /\ restarts[u] = None => restartTimes[u] = <<>>
        /\ count[u] \in Nat /\ count'[u] = count[u] /\ LoopRestarts \in Nat
        /\ Accounted(u)
    BY <1>2, LimitsAssumption DEF MachineType, RestartsWitnessed
  <2>2. <<>> \in Seq(Nat) /\ Len(<<>>) = 0 /\ None \notin Nat
    BY EmptySeq DEF None
  <2>3. CASE u \notin seen
    <3>1. restarts'[u] = None /\ witnessed'[u] = 0 /\ restartTimes'[u] = <<>>
      BY <1>1, <1>2, <2>1, <2>3 DEF CollectDoes, Remember
    <3> QED
      BY <2>2, <3>1 DEF Accounted
  <2>4. CASE u \in silent
    <3>1. u \in seen
      BY <1>1, <2>4
    <3>2. UNCHANGED <<restarts[u], restartTimes[u], witnessed[u]>>
      BY <1>1, <1>2, <2>4, <3>1 DEF CollectDoes, Remember
    <3> QED
      BY <2>1, <3>2 DEF Accounted
  <2>5. CASE u \in seen /\ u \notin silent
    <3>1. /\ restarts'[u] = count[u] /\ restartTimes'[u] = Recent(u)
          /\ witnessed'[u] = IF restarts[u] = None THEN 0 ELSE witnessed[u]
      BY <1>1, <1>2, <2>5 DEF CollectDoes, Remember
    <3>2. /\ Noted(u) \in Seq(Nat)
          /\ Len(Noted(u)) <= Len(restartTimes[u]) +
               (IF restarts[u] # None /\ count[u] > restarts[u] THEN count[u] - restarts[u] ELSE 0)
          /\ restarts[u] = None => Noted(u) = <<>>
      BY NotedLength
    <3>3. Recent(u) \in Seq(Nat) /\ Len(Recent(u)) <= Len(Noted(u))
      BY <3>2, RecentLength
    <3>4. PICK n \in Nat, m \in Nat, r \in Nat :
            n = Len(restartTimes[u]) /\ m = Len(Noted(u)) /\ r = Len(Recent(u))
      BY <2>1, <3>2, <3>3, LenProperties
    <3>5. witnessed'[u] >= LoopRestarts \/ r <= witnessed'[u]
      <4>1. CASE restarts[u] = None
        <5>1. m = 0
          BY <2>2, <3>2, <3>4, <4>1
        <5>2. r = 0 /\ witnessed'[u] = 0
          BY <3>1, <3>3, <3>4, <4>1, <5>1
        <5> QED
          BY <5>2
      <4>2. CASE restarts[u] # None
        <5>1. PICK c \in Nat, was \in Nat, h \in Nat :
                c = count[u] /\ was = restarts[u] /\ h = witnessed[u]
          BY <2>1, <4>2
        <5>2. h >= LoopRestarts \/ (n <= h /\ (c > was => n + (c - was) <= h))
          BY <2>1, <3>4, <4>2, <5>1 DEF Accounted
        <5>3. m <= n + (IF c > was THEN c - was ELSE 0)
          BY <3>2, <3>4, <4>2, <5>1
        <5>4. r <= m /\ witnessed'[u] = h
          BY <3>1, <3>3, <3>4, <4>2, <5>1
        <5> QED
          BY <5>2, <5>3, <5>4
      <4> QED
        BY <4>1, <4>2
    <3>6. ~(count'[u] > restarts'[u]) /\ restarts'[u] # None
      BY <2>1, <2>2, <3>1
    <3>7. Accounted(u)'
      BY <3>1, <3>4, <3>5, <3>6 DEF Accounted
    <3> QED
      BY <2>1, <3>1, <3>3, <3>6, <3>7
  <2> QED
    BY <1>1, <2>3, <2>4, <2>5
<1> QED
  BY <1>3, <1>4 DEF RestartsWitnessed

LEMMA RestartsWitnessedAlways == Spec => []RestartsWitnessed
<1>1. Init => RestartsWitnessed
  BY EmptySeq DEF Init, RestartsWitnessed, Accounted, None
<1>2. ASSUME MachineType, RestartsWitnessed, [Next]_vars PROVE RestartsWitnessed'
  <2>1. CASE Collect
    BY <1>2, <2>1, CollectKeepsAccount
  <2>2. ASSUME NEW u \in Units, Recover(u) PROVE RestartsWitnessed'
    <3>1. count' = [count EXCEPT ![u] = 0] /\ UNCHANGED <<restarts, restartTimes, witnessed>>
      BY <2>2 DEF Recover, memory, history
    <3>2. ASSUME NEW v \in Units PROVE Accounted(v)'
      <4>1. Accounted(v) /\ restarts[v] \in Nat \cup {None} /\ count[v] \in Nat
        BY <1>2 DEF RestartsWitnessed, MachineType
      <4>2. CASE v = u
        <5>1. count'[v] = 0
          BY <1>2, <3>1, <4>2 DEF MachineType
        <5>2. ~(restarts[v] # None /\ count'[v] > restarts[v])
          BY <4>1, <5>1
        <5> QED
          BY <3>1, <4>1, <5>2 DEF Accounted
      <4>3. CASE v # u
        <5>1. count'[v] = count[v]
          BY <1>2, <3>1, <4>3 DEF MachineType
        <5> QED
          BY <3>1, <4>1, <5>1 DEF Accounted
      <4> QED
        BY <4>2, <4>3
    <3> QED
      BY <1>2, <3>1, <3>2 DEF RestartsWitnessed
  <2>3. ASSUME NEW u \in Units, Restart(u) PROVE RestartsWitnessed'
    <3>1. /\ count' = [count EXCEPT ![u] = count[u] + 1] /\ UNCHANGED <<restarts, restartTimes>>
          /\ witnessed' = [witnessed EXCEPT ![u] =
                IF witnessed[u] < LoopRestarts THEN witnessed[u] + 1 ELSE witnessed[u]]
      BY <2>3 DEF Restart, memory
    <3>2. ASSUME NEW v \in Units PROVE Accounted(v)' /\ witnessed'[v] \in Nat
      <4>1. /\ Accounted(v) /\ restarts[v] \in Nat \cup {None} /\ count[v] \in Nat
            /\ witnessed[v] \in Nat /\ LoopRestarts \in Nat /\ restartTimes[v] \in Seq(Nat)
        BY <1>2, LimitsAssumption DEF RestartsWitnessed, MachineType
      <4>2. CASE v = u
        <5>1. /\ count'[v] = count[v] + 1
              /\ witnessed'[v] = IF witnessed[v] < LoopRestarts THEN witnessed[v] + 1 ELSE witnessed[v]
          BY <1>2, <3>1, <4>2 DEF MachineType, RestartsWitnessed
        <5>2. PICK n \in Nat : n = Len(restartTimes[v])
          BY <4>1, LenProperties
        <5>3. \/ witnessed'[v] >= LoopRestarts
              \/ n <= witnessed'[v] /\ (restarts[v] # None /\ count'[v] > restarts[v] =>
                                          n + (count'[v] - restarts[v]) <= witnessed'[v])
          <6>1. PICK h \in Nat, k \in Nat : h = witnessed[v] /\ k = count[v]
            BY <4>1
          <6>2. \/ h >= LoopRestarts
                \/ n <= h /\ (restarts[v] # None /\ k > restarts[v] => n + (k - restarts[v]) <= h)
            BY <4>1, <5>2, <6>1 DEF Accounted
          <6>3. count'[v] = k + 1 /\ witnessed'[v] = IF h < LoopRestarts THEN h + 1 ELSE h
            BY <5>1, <6>1, Zenon
          <6>4. CASE h >= LoopRestarts
            <7>1. witnessed'[v] = h
              BY <4>1, <6>3, <6>4
            <7> QED
              BY <6>4, <7>1
          <6>5. CASE h < LoopRestarts /\ restarts[v] = None
            BY <4>1, <6>2, <6>3, <6>5
          <6>6. CASE h < LoopRestarts /\ restarts[v] # None
            <7>1. PICK was \in Nat : was = restarts[v]
              BY <4>1, <6>6
            <7>2. n <= h /\ (k > was => n + (k - was) <= h)
              BY <4>1, <6>2, <6>6, <7>1
            <7>3. n + (k + 1 - was) <= h + 1 \/ ~(k + 1 > was)
              BY <7>2
            <7> QED
              BY <6>3, <6>6, <7>1, <7>2, <7>3
          <6> QED
            BY <4>1, <6>4, <6>5, <6>6
        <5> QED
          BY <3>1, <4>1, <5>1, <5>2, <5>3 DEF Accounted
      <4>3. CASE v # u
        <5>1. count'[v] = count[v] /\ witnessed'[v] = witnessed[v]
          BY <1>2, <3>1, <4>3 DEF MachineType, RestartsWitnessed
        <5> QED
          BY <3>1, <4>1, <5>1 DEF Accounted
      <4> QED
        BY <4>2, <4>3
    <3>3. witnessed' \in [Units -> Nat]
      <4>1. DOMAIN witnessed' = Units /\ witnessed' = [v \in Units |-> witnessed'[v]]
        BY <1>2, <3>1 DEF RestartsWitnessed
      <4> QED
        BY <3>2, <4>1
    <3> QED
      BY <1>2, <3>1, <3>2, <3>3 DEF RestartsWitnessed
  <2>4. CASE Crash
    <3>1. /\ restarts' = [u \in Units |-> None] /\ restartTimes' = [u \in Units |-> <<>>]
          /\ witnessed' = witnessed
      BY <2>4 DEF Crash, Forgotten
    <3>2. \A u \in Units : Accounted(u)'
      BY <1>2, <3>1 DEF RestartsWitnessed, Accounted
    <3> QED
      BY <1>2, <3>1, <3>2, EmptySeq DEF RestartsWitnessed
  <2>5. CASE UNCHANGED <<count, restarts, restartTimes, witnessed>>
    BY <1>2, <2>5 DEF RestartsWitnessed, Accounted
  <2> QED
    BY <1>2, <2>1, <2>2, <2>3, <2>4, <2>5 DEF Next, Tick, Fail, CollectUnanswered, PushBegin,
       PushLands, PushFails, vars, machine, memory, history
<1> QED
  BY <1>1, <1>2, MachineTyped, PTL DEF Spec

\* A loop is told for restarts that happened: what observeJournal notes against
\* a unit never exceeds the restarts the unit had since it is watched, although
\* its counter starts again or goes unread and the unit leaves and comes back.
THEOREM LoopsAreReal == Spec => []NoFalseLoop
<1>1. RestartsWitnessed => NoFalseLoop
  <2> SUFFICES ASSUME RestartsWitnessed, NEW u \in Units
               PROVE  Min({Len(restartTimes[u]), LoopRestarts}) <= witnessed[u]
    BY DEF NoFalseLoop
  <2>1. /\ LoopRestarts \in Nat /\ restartTimes[u] \in Seq(Nat) /\ witnessed[u] \in Nat
        /\ Accounted(u)
    BY LimitsAssumption DEF RestartsWitnessed
  <2>2. PICK n \in Nat : n = Len(restartTimes[u])
    BY <2>1, LenProperties
  <2>3. Min({n, LoopRestarts}) = IF n <= LoopRestarts THEN n ELSE LoopRestarts
    BY <2>1, MinPair
  <2>4. witnessed[u] >= LoopRestarts \/ n <= witnessed[u]
    BY <2>1, <2>2 DEF Accounted
  <2> QED
    BY <2>1, <2>2, <2>3, <2>4
<1> QED
  BY <1>1, RestartsWitnessedAlways, PTL
=============================================================================
