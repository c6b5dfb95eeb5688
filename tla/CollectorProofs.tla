--------------------------- MODULE CollectorProofs ---------------------------
(***************************************************************************)
(* Theorems about MountWatch, UnitReading and SshSetup, for any mounts,    *)
(* units, files and limits: in whatever order probes, answers, signals and *)
(* deadlines fall, the same mount survives, a dead share is retried at its *)
(* pace, every answer is kept for its question and no failed unit drops    *)
(* from the list; and no setting of the SSH server is guessed.             *)
(***************************************************************************)
EXTENDS MountWatch, UnitReading, SshSetup, OrderProofs, SequenceTheorems

-----------------------------------------------------------------------------
(* MountWatch.                                                             *)

\* Sorted mounts are the same mounts, in the order of their names.
LEMMA SortedMounts ==
  ASSUME NEW s, Range(s) \in SUBSET Points
  PROVE  sortMounts(s) = Ordered(Range(s)) /\ Range(s) \in SUBSET Nat /\ IsFiniteSet(Range(s))
BY MountAssumptions, FS_Subset DEF sortMounts, Ordered, RankIn

\* Of mounts in the order of their names, the first of those alike is kept.
LEMMA DedupeKeepsFirst ==
  ASSUME NEW D \in SUBSET Points
  PROVE  Range(dedupeMounts(Ordered(D))) = {p \in D : \A q \in D : Alike(p, q) => p <= q}
<1> DEFINE s == Ordered(D)
           n == Cardinality(D)
           firsts == {i \in DOMAIN s : \A j \in 1..i - 1 : ~Alike(s[i], s[j])}
<1>1. D \in SUBSET Nat /\ IsFiniteSet(D)
  BY MountAssumptions, FS_Subset
<1>2. /\ n \in Nat /\ s \in Seq(D) /\ Len(s) = n /\ Range(s) = D
      /\ \A i, j \in 1..n : i < j => s[i] < s[j]
  BY <1>1, OrderedShape
<1>3. DOMAIN s = 1..n /\ \A i \in 1..n : s[i] \in D
  BY <1>2, LenProperties, ElementOfSeq
<1>4. firsts \in SUBSET Nat /\ IsFiniteSet(firsts)
  <2>1. firsts \subseteq 1..n
    BY <1>3
  <2>2. n \in Nat
    BY <1>2
  <2>3. IsFiniteSet(1..n) /\ 1..n \subseteq Nat
    <3> HIDE DEF n
    <3> QED  BY <2>2, FS_Interval
  <2> QED  BY <2>1, <2>3, FS_Subset
<1>5. dedupeMounts(s) = [k \in 1..Cardinality(firsts) |-> s[Ordered(firsts)[k]]]
  <2> HIDE DEF s
  <2>1. dedupeMounts(s) = [k \in 1..Cardinality(firsts) |-> s[CHOOSE i \in firsts : RankIn(firsts, i) = k]]
    BY DEF dedupeMounts, RankIn
  <2> HIDE DEF firsts
  <2>2. \A k \in 1..Cardinality(firsts) :
           Ordered(firsts)[k] = CHOOSE i \in firsts : RankIn(firsts, i) = k
    BY DEF Ordered
  <2> QED  BY <2>1, <2>2
<1>6. Range(Ordered(firsts)) = firsts /\ DOMAIN Ordered(firsts) = 1..Cardinality(firsts)
  BY <1>4, OrderedShape DEF Ordered
<1>7. Range(dedupeMounts(s)) = {s[i] : i \in firsts}
  <2> HIDE DEF firsts, s
  <2> QED  BY <1>5, <1>6 DEF Range
<1>8. \A p \in D : \E i \in 1..n : s[i] = p
  BY <1>2, <1>3 DEF Range
<1> HIDE DEF s, n
<1>9. ASSUME NEW i \in 1..n
      PROVE  i \in firsts <=> \A q \in D : Alike(s[i], q) => s[i] <= q
  <2>1. i \in Nat /\ s[i] \in D /\ s[i] \in Nat
    <3>1. s[i] \in D
      BY <1>3
    <3>2. n \in Nat
      BY <1>2
    <3>3. i \in Nat
      BY <3>2
    <3>4. s[i] \in Nat
      BY <1>1, <3>1
    <3> QED  BY <3>1, <3>3, <3>4
  <2>2. ASSUME i \in firsts, NEW q \in D, Alike(s[i], q)
        PROVE  s[i] <= q
    <3>1. PICK j \in 1..n : s[j] = q
      BY <1>8
    <3>2. j \notin 1..i - 1
      BY <2>2, <3>1
    <3>3. j = i \/ i < j
      BY <1>2, <3>2
    <3>4. q \in Nat
      BY <1>1
    <3> QED  BY <1>2, <2>1, <3>1, <3>3, <3>4
  <2>3. ASSUME \A q \in D : Alike(s[i], q) => s[i] <= q
        PROVE  i \in firsts
    <3>1. ASSUME NEW j \in 1..i - 1, Alike(s[i], s[j])
          PROVE  FALSE
      <4>1. j \in 1..n /\ j < i
        BY <1>2
      <4>2. s[j] \in D /\ s[j] \in Nat /\ s[j] < s[i]
        BY <1>1, <1>2, <1>3, <4>1
      <4>3. s[i] <= s[j]
        BY <2>3, <3>1, <4>2
      <4> QED  BY <2>1, <4>2, <4>3
    <3> QED  BY <1>3, <3>1
  <2> QED  BY <2>2, <2>3
<1>10. firsts \subseteq 1..n
  BY <1>3
<1> HIDE DEF firsts
<1>11. \A p : p \in {s[i] : i \in firsts} <=>
              p \in D /\ \A q \in D : Alike(p, q) => p <= q
  BY <1>3, <1>8, <1>9, <1>10
<1> QED  BY <1>7, <1>11 DEF s

LEMMA RangeOfAppend ==
  ASSUME NEW S, NEW s \in Seq(S), NEW x \in S
  PROVE  Append(s, x) \in Seq(S) /\ Range(Append(s, x)) = Range(s) \cup {x}
<1>1. /\ Append(s, x) \in Seq(S) /\ Len(s) \in Nat
      /\ DOMAIN s = 1..Len(s) /\ DOMAIN Append(s, x) = 1..Len(s) + 1
      /\ \A i \in 1..Len(s) : Append(s, x)[i] = s[i]
      /\ Append(s, x)[Len(s) + 1] = x
  BY LenProperties
<1>2. 1..Len(s) + 1 = 1..Len(s) \cup {Len(s) + 1}
  BY <1>1
<1> QED  BY <1>1, <1>2 DEF Range

LEMMA HeadAndTail ==
  ASSUME NEW S, NEW s \in Seq(S), s # <<>>
  PROVE  /\ Head(s) \in S /\ Head(s) \in Range(s)
         /\ Tail(s) \in Seq(S) /\ Range(Tail(s)) \subseteq Range(s)
<1>1. Len(s) \in Nat \ {0} /\ DOMAIN s = 1..Len(s) /\ Head(s) = s[1]
  BY EmptySeq, LenProperties
<1>2. /\ Head(s) \in S /\ Tail(s) \in Seq(S) /\ Len(Tail(s)) = Len(s) - 1
      /\ \A i \in 1..Len(Tail(s)) : Tail(s)[i] = s[i + 1]
  BY HeadTailProperties
<1>3. DOMAIN Tail(s) = 1..Len(s) - 1
  BY <1>2, LenProperties
<1>4. \A i \in 1..Len(s) - 1 : i + 1 \in 1..Len(s) /\ Tail(s)[i] = s[i + 1]
  BY <1>1, <1>2
<1>5. 1 \in 1..Len(s)
  BY <1>1
<1> QED  BY <1>1, <1>2, <1>3, <1>4, <1>5 DEF Range

\* The state of a collection of mounts: types, and what is where.
MountType ==
    /\ until \in [Points -> Nat \cup {-1}] /\ givenUp \in [Points -> Nat]
    /\ stuck \in [Points -> Nat]
    /\ probed \subseteq Points /\ mounts \in Seq(Points) /\ ch \in Seq(Points)
    /\ DOMAIN measured = Points /\ DOMAIN used = Filesystems

\* A point has its goroutine running, its answer in the channel or received.
ProbesApart ==
    /\ running \subseteq started /\ started \subseteq probed
    /\ \A p \in Range(ch) : p \in probed /\ p \notin running
    /\ ~probing => running = {}

\* What was measured of a filesystem that nobody wrote to since is still so.
MeasuredStill ==
    probing => \A p \in probed \ running :
                  Filesystem[p] \notin busy => measured[p] = used[Filesystem[p]]

\* What was received so far and can be filled is what the list holds.
ReceivedListed == probing => Range(mounts) = (probed \ started) \ Unfillable

\* Where a goroutine hangs, the time since it was given up and the time the
\* mount is still skipped make up the retry.
SkipCounts ==
    \A p \in Points : stuck[p] > 0 =>
        IF until[p] = -1 THEN givenUp[p] > Retry ELSE givenUp[p] + until[p] >= Retry

MountInv ==
    /\ MountType /\ ProbesApart /\ MeasuredStill /\ ReceivedListed /\ SkipCounts
    /\ SurvivorSteady /\ (whole => ~probing)

\* A point has the first of those alike before it or at it.
LEMMA FirstAlike ==
  ASSUME NEW D \in SUBSET Points, NEW p \in D
  PROVE  \E q \in D : /\ q <= p /\ (q = p \/ Alike(p, q))
                       /\ \A r \in D : Alike(q, r) => q <= r
<1> DEFINE A == {q \in D : q = p \/ Alike(p, q)}
<1>1. A \in SUBSET Nat /\ IsFiniteSet(A) /\ p \in A
  <2>1. IsFiniteSet(D) /\ D \subseteq Nat
    BY MountAssumptions, FS_Subset
  <2>2. IsFiniteSet(A)
    BY <2>1, FS_Subset
  <2> QED  BY <2>1, <2>2
<1> HIDE DEF A
<1>2. PICK q \in A : \A r \in A : q <= r
  BY <1>1, LeastOf
<1> USE DEF A
<1>3. ASSUME NEW r \in D, Alike(q, r) PROVE q <= r
  <2>1. Alike(p, r) \/ r = p
    BY <1>2, <1>3 DEF Alike
  <2> QED  BY <1>2, <2>1
<1>4. q <= p
  BY <1>1, <1>2
<1> QED  BY <1>2, <1>3, <1>4

LEMMA SteadyStays ==
  ASSUME SurvivorSteady, UNCHANGED <<measured, reading, probed, whole, busy>>
  PROVE  SurvivorSteady'
<1>1. \A p, q : Alike(p, q)' <=> Alike(p, q)
  BY DEF Alike
<1> QED  BY <1>1 DEF SurvivorSteady

LEMMA MountInitHolds ==
  ASSUME MountInit
  PROVE  MountInv
<1>1. <<>> \in Seq(Points) /\ Range(<<>>) = {}
  BY EmptySeq DEF Range
<1> QED
  BY <1>1 DEF MountInit, MountInv, MountType, ProbesApart, MeasuredStill, ReceivedListed,
              SkipCounts, SurvivorSteady

LEMMA MountStep ==
  ASSUME MountInv, [MountNext]_mountVars
  PROVE  MountInv'
<1> USE DEF MountInv
<1>1. CASE StartProbes
  <2>1. <<>> \in Seq(Points) /\ Range(<<>>) = {}
    BY EmptySeq DEF Range
  <2>2. MountType' /\ ProbesApart' /\ MeasuredStill' /\ ReceivedListed'
    BY <1>1, <2>1 DEF StartProbes, MountType, ProbesApart, MeasuredStill, ReceivedListed
  <2>3. SkipCounts' /\ SurvivorSteady' /\ ~whole'
    BY <1>1 DEF StartProbes, SkipCounts, SurvivorSteady
  <2> QED  BY <2>2, <2>3
<1>2. ASSUME NEW p \in Points, Answer(p)
      PROVE  MountInv'
  <2>1. p \in running /\ running' = running \ {p} /\ ch' = Append(ch, p)
    BY <1>2 DEF Answer
  <2>2. ch' \in Seq(Points) /\ Range(ch') = Range(ch) \cup {p}
    BY <2>1, RangeOfAppend DEF MountType
  <2>3. /\ probing
        /\ UNCHANGED <<used, wedged, stuck, until, probing, started, mounts, reading, probed, whole,
                       busy, givenUp>>
    BY <1>2, <2>1 DEF Answer, ProbesApart, told
  <2>4. measured' = [measured EXCEPT ![p] = used[Filesystem[p]]]
    BY <1>2 DEF Answer
  <2>5. DOMAIN measured' = Points
    BY <2>4 DEF MountType
  <2>9. MountType'
    BY <2>2, <2>3, <2>5 DEF MountType
  <2>10. SkipCounts' /\ ReceivedListed' /\ ProbesApart'
    BY <2>1, <2>2, <2>3 DEF SkipCounts, ReceivedListed, ProbesApart
  <2>6. SurvivorSteady'
    BY <2>3 DEF SurvivorSteady
  <2>7. MeasuredStill'
    <3>1. \A q \in Points : measured'[q] = IF q = p THEN used[Filesystem[p]] ELSE measured[q]
      BY <2>4 DEF MountType
    <3> QED  BY <2>1, <2>3, <3>1 DEF MeasuredStill, MountType
  <2> QED  BY <2>3, <2>6, <2>7, <2>9, <2>10
<1>3. CASE Receive
  <2> DEFINE h == Head(ch)
  <2>1. /\ probing /\ ch # <<>> /\ started' = started \ {h} /\ ch' = Tail(ch)
        /\ mounts' = IF h \in Unfillable THEN mounts ELSE Append(mounts, h)
        /\ UNCHANGED <<used, wedged, stuck, until, probing, running, measured, reading, probed, whole,
                       busy, givenUp>>
    BY <1>3 DEF Receive, told
  <2>2. h \in Range(ch) /\ h \in Points /\ Tail(ch) \in Seq(Points) /\ Range(Tail(ch)) \subseteq Range(ch)
    BY <2>1, HeadAndTail DEF MountType
  <2> HIDE DEF h
  <2>3. h \in probed /\ h \notin running
    BY <2>2 DEF ProbesApart
  <2>4. mounts' \in Seq(Points) /\ Range(mounts') = Range(mounts) \cup ({h} \ Unfillable)
    <3>1. CASE h \in Unfillable
      BY <2>1, <3>1 DEF MountType
    <3>2. CASE h \notin Unfillable
      BY <2>1, <2>2, <3>2, RangeOfAppend DEF MountType
    <3> QED  BY <3>1, <3>2
  <2>5. MountType' /\ SkipCounts' /\ SurvivorSteady' /\ MeasuredStill'
    BY <2>1, <2>2, <2>4 DEF MountType, SkipCounts, SurvivorSteady, MeasuredStill
  <2>6. ProbesApart'
    BY <2>1, <2>2, <2>3 DEF ProbesApart
  <2>7. ReceivedListed'
    BY <2>1, <2>3, <2>4 DEF ReceivedListed, ProbesApart
  <2> QED  BY <2>1, <2>5, <2>6, <2>7
<1>4. CASE AllAnswered
  <2>1. /\ probing /\ started = {} /\ ~probing' /\ mounts' = <<>>
        /\ reading' = dedupeMounts(sortMounts(mounts))
        /\ UNCHANGED <<used, wedged, stuck, until, started, running, ch, measured, probed, busy, givenUp>>
    BY <1>4 DEF AllAnswered
  <2>2. Range(mounts) = probed \ Unfillable
    BY <2>1 DEF ReceivedListed
  <2>3. Range(mounts) \in SUBSET Points
    BY <2>2 DEF MountType
  <2>4. reading' = dedupeMounts(Ordered(probed \ Unfillable))
    BY <2>1, <2>2, <2>3, SortedMounts
  <2> DEFINE D == probed \ Unfillable
  <2>5. Range(reading') = {p \in D : \A q \in D : Alike(p, q) => p <= q}
    BY <2>2, <2>3, <2>4, DedupeKeepsFirst
  <2>6. running = {} /\ D \in SUBSET Points
    BY <2>1, <2>2, <2>3 DEF ProbesApart
  <2>7. ASSUME NEW p \in D, Filesystem[p] \notin busy, p \in Range(reading'),
               NEW q \in D, SameDisk(p, q)
        PROVE  p <= q
    <3>1. measured[p] = used[Filesystem[p]] /\ measured[q] = used[Filesystem[q]]
      BY <2>1, <2>6, <2>7 DEF MeasuredStill, SameDisk
    <3>2. Alike(p, q)
      BY <2>7, <3>1 DEF Alike, SameDisk
    <3> QED  BY <2>5, <2>7, <3>2
  <2>8. ASSUME NEW p \in D
        PROVE  \E q \in D : q \in Range(reading') /\ q <= p /\ (q = p \/ Alike(p, q))
    <3>1. PICK q \in D : /\ q <= p /\ (q = p \/ Alike(p, q))
                         /\ \A r \in D : Alike(q, r) => q <= r
      BY <2>6, FirstAlike
    <3> QED  BY <2>5, <3>1
  <2>9. SurvivorSteady'
    <3>1. probed' = probed /\ busy' = busy
      BY <2>1
    <3>2. ASSUME NEW p \in D
          PROVE  /\ Filesystem[p] \notin busy' /\ p \in Range(reading') =>
                      \A q \in D : SameDisk(p, q) => p <= q
                 /\ \E q \in D : q \in Range(reading') /\ q <= p /\ (q = p \/ Alike(p, q))
      BY <2>7, <2>8, <3>1
    <3> HIDE DEF D
    <3>3. D = probed' \ Unfillable
      BY <3>1 DEF D
    <3>4. measured' = measured
      BY <2>1
    <3>5. \A p, q : Alike(p, q)' <=> Alike(p, q)
      BY <3>4 DEF Alike
    <3>6. \A p \in probed' \ Unfillable :
            /\ Filesystem[p] \notin busy' /\ p \in Range(reading') =>
                  \A q \in probed' \ Unfillable : SameDisk(p, q) => p <= q
            /\ \E q \in probed' \ Unfillable :
                  q \in Range(reading') /\ q <= p /\ (q = p \/ Alike(p, q)')
      BY ONLY <3>2, <3>3, <3>5
    <3> QED  BY ONLY <3>6 DEF SurvivorSteady
  <2>10. <<>> \in Seq(Points)
    BY EmptySeq
  <2>11. MountType' /\ ProbesApart' /\ MeasuredStill' /\ ReceivedListed' /\ SkipCounts'
    BY <2>1, <2>6, <2>10 DEF MountType, ProbesApart, MeasuredStill, ReceivedListed, SkipCounts
  <2> QED  BY <2>1, <2>9, <2>11
<1>5. CASE Deadline
  <2>1. <<>> \in Seq(Points) /\ Range(<<>>) = {}
    BY EmptySeq DEF Range
  <2>2. /\ until' = [p \in Points |-> IF p \in started THEN Retry ELSE until[p]]
        /\ stuck' = [p \in Points |-> IF p \in running \cap wedged THEN stuck[p] + 1 ELSE stuck[p]]
        /\ givenUp' = [p \in Points |-> IF p \in started THEN 0 ELSE givenUp[p]]
        /\ ~probing' /\ started' = {} /\ running' = {} /\ ch' = <<>> /\ mounts' = <<>>
        /\ ~whole' /\ UNCHANGED <<used, wedged, measured, probed, busy>>
    BY <1>5 DEF Deadline, block
  <2>3. Retry \in Nat /\ Retry # -1
    BY MountAssumptions
  <2>4. ProbesApart' /\ MeasuredStill' /\ ReceivedListed' /\ SurvivorSteady'
    BY <2>1, <2>2 DEF ProbesApart, MeasuredStill, ReceivedListed, SurvivorSteady
  <2>6. MountType'
    BY <2>1, <2>2, <2>3 DEF MountType
  <2>5. SkipCounts'
    BY <2>2, <2>3 DEF MountType, SkipCounts, ProbesApart
  <2> QED  BY <2>2, <2>4, <2>5, <2>6
<1>6. ASSUME NEW p \in Points, Wedge(p) \/ Release(p)
      PROVE  MountInv'
  <2>1. /\ UNCHANGED <<used, until, probing, started, running, ch, measured, mounts, reading, probed,
                       whole, busy, givenUp>>
        /\ UNCHANGED stuck \/ stuck' = [stuck EXCEPT ![p] = 0]
    BY <1>6 DEF Wedge, Release, probe, told
  <2>5. ProbesApart' /\ MeasuredStill' /\ ReceivedListed' /\ (whole' => ~probing')
    BY <2>1 DEF ProbesApart, MeasuredStill, ReceivedListed
  <2>4. SurvivorSteady'
    BY <2>1, SteadyStays
  <2>2. CASE UNCHANGED stuck
    BY <2>1, <2>2, <2>4, <2>5 DEF MountType, SkipCounts
  <2>3. CASE stuck' = [stuck EXCEPT ![p] = 0]
    <3>1. stuck' \in [Points -> Nat]
      BY <2>3 DEF MountType
    <3>2. MountType'
      BY <2>1, <3>1 DEF MountType
    <3>3. SkipCounts'
      BY <2>1, <2>3 DEF MountType, SkipCounts
    <3> QED  BY <2>4, <2>5, <3>2, <3>3
  <2> QED  BY <2>1, <2>2, <2>3
<1>7. CASE MountTick
  <2>1. /\ until' = [p \in Points |-> IF until[p] >= 0 THEN until[p] - 1 ELSE -1]
        /\ givenUp' = [p \in Points |-> IF givenUp[p] <= Retry THEN givenUp[p] + 1 ELSE givenUp[p]]
        /\ UNCHANGED <<used, wedged, stuck, probing, started, running, ch, measured, mounts, reading,
                       probed, whole, busy>>
    BY <1>7 DEF MountTick, probe, told
  <2>2. MountType'
    BY <2>1, MountAssumptions DEF MountType
  <2>3. SkipCounts'
    BY <2>1, MountAssumptions DEF MountType, SkipCounts
  <2>4. ProbesApart' /\ MeasuredStill' /\ ReceivedListed'
    BY <2>1 DEF ProbesApart, MeasuredStill, ReceivedListed
  <2>5. SurvivorSteady'
    BY <2>1, SteadyStays
  <2> QED  BY <2>1, <2>2, <2>3, <2>4, <2>5
<1>8. CASE UNCHANGED mountVars
  <2>1. UNCHANGED <<used, stuck, until, probing, started, running, ch, measured, mounts, reading,
                    probed, whole, busy, givenUp>>
    BY <1>8 DEF mountVars
  <2>2. MountType' /\ SkipCounts'
    BY <2>1 DEF MountType, SkipCounts
  <2>3. ProbesApart' /\ MeasuredStill' /\ ReceivedListed'
    BY <2>1 DEF ProbesApart, MeasuredStill, ReceivedListed
  <2>4. SurvivorSteady'
    BY <2>1, SteadyStays
  <2> QED  BY <2>1, <2>2, <2>3, <2>4
<1>9. ASSUME NEW f \in Filesystems, NEW u \in Usages, Write(f, u)
      PROVE  MountInv'
  <2>1. /\ running # {} /\ used' = [used EXCEPT ![f] = u] /\ busy' = busy \cup {f}
        /\ UNCHANGED <<wedged, stuck, until, probing, started, running, ch, measured, mounts, reading,
                       probed, whole, givenUp>>
    BY <1>9 DEF Write, probe, told
  <2>2. probing /\ ~whole
    BY <2>1 DEF ProbesApart
  <2>3. MountType' /\ ProbesApart' /\ ReceivedListed' /\ SkipCounts' /\ SurvivorSteady'
    BY <2>1, <2>2 DEF MountType, ProbesApart, ReceivedListed, SkipCounts, SurvivorSteady
  <2>4. \A g \in Filesystems : g # f => used'[g] = used[g]
    BY <2>1 DEF MountType
  <2>5. \A p \in Points : Filesystem[p] \in Filesystems
    BY MountAssumptions DEF Filesystems, Range
  <2>6. MeasuredStill'
    BY <2>1, <2>4, <2>5 DEF MeasuredStill, MountType
  <2> QED  BY <2>1, <2>2, <2>3, <2>6
<1> QED  BY <1>1, <1>2, <1>3, <1>4, <1>5, <1>6, <1>7, <1>8, <1>9 DEF MountNext

LEMMA MountsInvariant == MountSpec => []MountInv
<1>1. MountInit => MountInv
  BY MountInitHolds
<1>2. MountInv /\ [MountNext]_mountVars => MountInv'
  BY MountStep
<1> QED  BY <1>1, <1>2, PTL DEF MountSpec

\* In whatever order the goroutines finish and whoever writes to a disk meanwhile,
\* when all that were probed answered, of the points of one device whose filesystem
\* nobody wrote to only the first by name is reported, and no point is left out but
\* for one that is alike.
THEOREM SameMountSurvives == MountSpec => []SurvivorSteady
<1>1. MountInv => SurvivorSteady
  BY DEF MountInv
<1> QED  BY <1>1, MountsInvariant, PTL

\* A goroutine is added to those that hang at a mount only when the skip has
\* run out since the last was given up.
THEOREM DeadShareRetriedAtPace == MountSpec => RetryPaced
<1>1. ASSUME MountInv, [MountNext]_mountVars, NEW p \in Points,
             p \in running' \ running, stuck[p] > 0
      PROVE  givenUp[p] > Retry
  <2>1. CASE StartProbes
    <3>1. ~(until[p] >= 0)
      BY <1>1, <2>1 DEF StartProbes, blocked
    <3>2. until[p] = -1
      BY <1>1, <3>1 DEF MountInv, MountType
    <3> QED  BY <1>1, <3>2 DEF MountInv, SkipCounts
  <2>2. CASE ~StartProbes
    <3>1. running' \subseteq running
      BY <1>1, <2>2 DEF MountNext, Receive, AllAnswered, Deadline, MountTick, Answer, Wedge,
         Release, Write, probe, mountVars
    <3> QED  BY <1>1, <3>1
  <2> QED  BY <2>1, <2>2
<1>2. MountInv /\ [MountNext]_mountVars =>
        [\A p \in Points : p \in running' \ running /\ stuck[p] > 0 => givenUp[p] > Retry]_mountVars
  BY <1>1
<1> QED  BY <1>2, MountsInvariant, PTL DEF MountSpec, RetryPaced

-----------------------------------------------------------------------------
(* UnitReading: the list.                                                  *)
LEMMA LeastIsMin ==
  ASSUME NEW S \in SUBSET Nat, IsFiniteSet(S), S # {}
  PROVE  Min(S) \in S /\ \A u \in S : Min(S) <= u
<1>1. \E m \in S : \A u \in S : m <= u
  BY LeastOf
<1> QED  BY <1>1 DEF Min

\* The list holds units of those to be listed, at least one of any, and all
\* the failures where there is room for them.
LEMMA ServicesSorted ==
  ASSUME NEW S \in SUBSET UnitNames
  PROVE  LET t == SortServices(S)
             bad == {u \in S : listed[u]} IN
         /\ t \in Seq(UnitNames) /\ Range(t) \subseteq S
         /\ S # {} => t # <<>> /\ Range(t) # {}
         /\ Cardinality(bad) <= MaxServices => bad \subseteq Range(t)
<1> DEFINE A == {u \in S : listed[u]}
           B == {u \in S : ~listed[u]}
           a == Ordered(A)
           b == Ordered(B)
           o == a \o b
           t == SortServices(S)
<1>1. /\ A \in SUBSET Nat /\ B \in SUBSET Nat /\ A \subseteq S /\ B \subseteq S
      /\ IsFiniteSet(A) /\ IsFiniteSet(B) /\ A \cup B = S
  BY UnitAssumptions, FS_Subset
<1>2. MaxServices \in Nat /\ MaxServices > 0
  BY UnitAssumptions
<1>3. /\ Cardinality(A) \in Nat /\ Cardinality(B) \in Nat
      /\ A # {} => Cardinality(A) # 0
      /\ B # {} => Cardinality(B) # 0
  BY <1>1, FS_CardinalityType, FS_EmptySet
<1>4. t = FirstOf(o)
  BY DEF SortServices, ByName, Ordered, RankIn
<1> HIDE DEF A, B
<1>5. /\ a \in Seq(A) /\ Len(a) = Cardinality(A) /\ Range(a) = A
      /\ b \in Seq(B) /\ Len(b) = Cardinality(B)
  BY <1>1, OrderedShape
<1> HIDE DEF a, b
<1>6. a \in Seq(S) /\ b \in Seq(S)
  BY <1>1, <1>5, SeqMonotonic
<1>7. /\ o \in Seq(S) /\ Len(o) = Cardinality(A) + Cardinality(B)
      /\ \A i \in 1..Cardinality(A) + Cardinality(B) :
           o[i] = IF i <= Cardinality(A) THEN a[i] ELSE b[i - Cardinality(A)]
  <2>1. /\ o \in Seq(S) /\ Len(o) = Len(a) + Len(b)
        /\ \A i \in 1..Len(a) + Len(b) : o[i] = IF i <= Len(a) THEN a[i] ELSE b[i - Len(a)]
    BY <1>6, ConcatProperties
  <2> HIDE DEF o
  <2> QED  BY <1>5, <2>1
<1> HIDE DEF o
<1>8. PICK n \in Nat : n = Len(o)
  BY <1>7, LenProperties
<1>9. PICK m \in Nat : m = Min({n, MaxServices})
  BY <1>2 DEF Min
<1>10. m = IF n <= MaxServices THEN n ELSE MaxServices
  BY <1>2, <1>9 DEF Min
<1>11. t = SubSeq(o, 1, m)
  BY <1>4, <1>8, <1>9 DEF FirstOf
<1> HIDE DEF t
<1>12. \A i \in 1..m : o[i] \in S
  <2>1. 1..m \subseteq 1..n
    BY <1>2, <1>10
  <2> QED  BY <1>7, <1>8, <2>1, ElementOfSeq
<1>13. /\ t \in Seq(S) /\ Len(t) = m
       /\ \A i \in 1..m : t[i] = o[i]
  BY <1>11, <1>12, SubSeqProperties
<1>14. DOMAIN t = 1..m
  BY <1>13, LenProperties
<1>15. t \in Seq(UnitNames) /\ Range(t) \subseteq S
  BY <1>12, <1>13, <1>14, SeqMonotonic DEF Range
<1>16. ASSUME S # {}
       PROVE  t # <<>> /\ Range(t) # {}
  <2>1. n # 0
    BY <1>1, <1>3, <1>7, <1>8, <1>16
  <2>2. m # 0 /\ 1 \in 1..m
    BY <1>2, <1>10, <2>1
  <2> QED  BY <1>13, <1>14, <2>2, EmptySeq DEF Range
<1>17. ASSUME Cardinality(A) <= MaxServices, NEW u \in A
       PROVE  u \in Range(t)
  <2>1. PICK i \in 1..Cardinality(A) : a[i] = u
    BY <1>5, LenProperties DEF Range
  <2>2. Cardinality(A) <= m
    BY <1>2, <1>3, <1>7, <1>8, <1>10, <1>17
  <2>3. i \in 1..m /\ i \in 1..Cardinality(A) + Cardinality(B) /\ i <= Cardinality(A)
    BY <1>3, <2>2
  <2>4. t[i] = u
    BY <1>7, <1>13, <2>1, <2>3
  <2> QED  BY <1>14, <2>3, <2>4 DEF Range
<1> QED  BY <1>15, <1>16, <1>17 DEF A, t

\* What a unit is asked about.
LEMMA PlanShape ==
  ASSUME NEW u
  PROVE  /\ Len(Plan(u)) \in {1, 4, 6}
         /\ \A i \in 1..Len(Plan(u)) :
              /\ Plan(u)[i] \in Questions
              /\ Plan(u)[i] = "status" <=> i = 6
              /\ Plan(u)[i] = "code" => i = 5 /\ Len(Plan(u)) = 6
              /\ Plan(u)[i] = "enabled" => services = <<>> /\ ~listed[u]
<1>1. \/ Plan(u) = <<"fragment">>
      \/ Plan(u) = <<"changed", "restarts", "memory", "result", "code", "status">>
      \/ Plan(u) = <<"enabled", "changed", "restarts", "memory">> /\ services = <<>> /\ ~listed[u]
  BY DEF Plan
<1>2. CASE Plan(u) = <<"fragment">>
  BY <1>2 DEF Questions
<1>3. CASE Plan(u) = <<"changed", "restarts", "memory", "result", "code", "status">>
  BY <1>3 DEF Questions
<1>4. CASE Plan(u) = <<"enabled", "changed", "restarts", "memory">> /\ services = <<>> /\ ~listed[u]
  BY <1>4 DEF Questions
<1> QED  BY <1>1, <1>2, <1>3, <1>4

-----------------------------------------------------------------------------
(* UnitReading: the invariant, in parts.                                   *)
Currents == {0} \cup UnitNames
About == {NoAnswer} \cup (Questions \cup {"hello", "list"}) \X Currents
Call == [serial : Nat, about : About]
Message == [kind : {"return", "error", "signal"}, serial : Nat, about : About,
            broken : SUBSET UnitNames]

UnitType ==
    /\ broken \subseteq UnitNames /\ serial \in Nat /\ current \in Currents
    /\ member \in Questions \cup {"none", "hello", "list"}
    /\ owed \subseteq Call /\ inbox \in Seq(Message)
    /\ got \in [Questions -> {NoAnswer} \cup About \X About]
    /\ kept \subseteq UnitNames /\ services \in Seq(UnitNames)
    /\ listed = <<>> \/ listed \in [UnitNames -> BOOLEAN]

\* What carries the serial of the call that is out is about its question, and
\* nothing carries a later one.
Fits(ser, about) ==
    ser <= serial /\ (ser = serial /\ member # "none" => about = <<member, current>>)

SerialsTell ==
    /\ \A o \in owed : Fits(o.serial, o.about)
    /\ \A m \in Range(inbox) : m.kind # "signal" => Fits(m.serial, m.about)

\* The question that is out is the one the place in the collection asks.
InPlan ==
    /\ units = "none" \/ bus = "hello" => listed = <<>>
    /\ bus = "hello" => member # "list"
    /\ listed = <<>> => /\ step = 1 /\ got = NoAnswers /\ services = <<>> /\ units # "done"
                        /\ member \in {"none", "hello", "list"}
    /\ listed # <<>> => member \in Questions \cup {"none"}
    /\ listed # <<>> /\ units = "reading" => step \in 1..Len(Plan(current)) /\ current \in UnitNames
    /\ member # "none" => units = "reading"
    /\ member \in Questions => member = Plan(current)[step]

\* A status is kept with its code; a code waits for its status only between
\* the two questions; and a unit starts without answers.
Paired ==
    /\ got["status"] # NoAnswer => got["code"] # NoAnswer
    /\ got["code"] # NoAnswer /\ got["status"] = NoAnswer => step = 6
    /\ step # 1 /\ units = "reading" => got["status"] = NoAnswer
    /\ step = 1 /\ member \in Questions => got = NoAnswers

Matched == \A q \in Questions : got[q] # NoAnswer => got[q][1] = got[q][2]

\* The failures among the units gone through are kept, and then in the list.
FailuresKept ==
    LET bad == {u \in UnitNames : listed[u]} IN
    listed # <<>> =>
        /\ services = <<>> /\ units = "reading" => \A u \in bad : u < current => u \in kept
        /\ services # <<>> \/ units = "done" =>
             (Cardinality(bad) <= MaxServices => bad \subseteq Range(services))

UnitInv == UnitType /\ SerialsTell /\ InPlan /\ Paired /\ Matched /\ FailuresKept

-----------------------------------------------------------------------------
(* UnitReading: what the steps do.                                         *)

\* A message that is read is one of those on their way; the others stay.
LEMMA InboxTail ==
  ASSUME UnitInv, inbox # <<>>
  PROVE  /\ Head(inbox) \in Message /\ Head(inbox) \in Range(inbox)
         /\ Tail(inbox) \in Seq(Message) /\ Range(Tail(inbox)) \subseteq Range(inbox)
BY HeadAndTail DEF UnitInv, UnitType

\* The answer to the call that is out is about its question.
LEMMA AnswerFits ==
  ASSUME UnitInv, Readable, AnswersUs(Head(inbox))
  PROVE  /\ Head(inbox) \in Message
         /\ Head(inbox).about = <<member, current>>
  <1>1. Head(inbox) \in Message /\ Head(inbox) \in Range(inbox)
    BY InboxTail DEF Readable
  <1> QED  BY <1>1 DEF UnitInv, SerialsTell, Fits, Readable, AnswersUs

\* Before an answer about a unit is kept, its status is not known.
LEMMA BeforeAnswer ==
  ASSUME UnitInv, member \in Questions
  PROVE  /\ units = "reading" /\ listed # <<>> /\ listed \in [UnitNames -> BOOLEAN]
         /\ current \in UnitNames /\ step \in 1..Len(Plan(current))
         /\ member = Plan(current)[step] /\ got["status"] = NoAnswer
         /\ step \in Nat
<1>1. member # "none" /\ member \notin {"hello", "list"}
  BY DEF Questions
<1>2. /\ units = "reading" /\ listed # <<>> /\ listed \in [UnitNames -> BOOLEAN]
      /\ current \in UnitNames /\ step \in 1..Len(Plan(current)) /\ member = Plan(current)[step]
  BY <1>1 DEF UnitInv, InPlan, UnitType
<1>3. got["status"] = NoAnswer
  BY <1>2 DEF UnitInv, Paired, NoAnswers, Questions
<1>4. Len(Plan(current)) \in Nat
  BY PlanShape
<1> QED  BY <1>2, <1>3, <1>4

\* Going on to the next question or unit, or to the list.
LEMMA AdvanceEffect ==
  ASSUME UnitInv, member \in Questions, NEW in \in BOOLEAN, member # "enabled" => in, Advance(in)
  PROVE  /\ listed' = listed /\ kept' \subseteq UnitNames
         /\ services' \in Seq(UnitNames) /\ current' \in UnitNames
         /\ bus' # "hello"
         /\ in /\ step < Len(Plan(current)) =>
              step' = step + 1 /\ UNCHANGED <<current, services, units>>
         /\ ~(in /\ step < Len(Plan(current))) =>
              (step' = 1 /\ units' = "reading") \/ (step' = step /\ units' = "done")
         /\ FailuresKept'
<1> DEFINE bad == {u \in UnitNames : listed[u]}
<1>1. /\ units = "reading" /\ listed # <<>> /\ listed \in [UnitNames -> BOOLEAN]
      /\ current \in UnitNames /\ bus # "hello"
      /\ kept \subseteq UnitNames /\ services \in Seq(UnitNames)
      /\ UnitNames \subseteq Nat /\ IsFiniteSet(UnitNames)
  BY BeforeAnswer, UnitAssumptions DEF UnitInv, UnitType, InPlan
<1>2. kept' = (IF in THEN kept \cup {current} ELSE kept) /\ listed' = listed
  BY DEF Advance
<1>3. services = <<>> => \A u \in bad : u <= current => u \in kept'
  <2> SUFFICES ASSUME services = <<>>, NEW u \in bad, u <= current
               PROVE  u \in kept'
    OBVIOUS
  <2>1. u \in Nat /\ current \in Nat /\ u \in UnitNames /\ listed[u]
    BY <1>1
  <2>2. CASE u = current
    <3>1. member # "enabled"
      BY <2>1, <2>2, BeforeAnswer, PlanShape
    <3> QED  BY <1>2, <2>2, <3>1
  <2>3. CASE u # current
    <3>1. u < current
      BY <2>1, <2>3
    <3>2. u \in kept
      BY <1>1, <2>1, <3>1 DEF UnitInv, FailuresKept
    <3> QED  BY <1>2, <3>2
  <2> QED  BY <2>2, <2>3
<1>4. kept' \subseteq UnitNames
  BY <1>1, <1>2
<1>5. services # <<>> => (Cardinality(bad) <= MaxServices => bad \subseteq Range(services))
  BY <1>1 DEF UnitInv, FailuresKept
<1>6. CASE in /\ step < Len(Plan(current))
  <2>1. step' = step + 1 /\ UNCHANGED <<bus, current, services, units>>
    BY <1>6 DEF Advance
  <2>2. kept \subseteq kept'
    BY <1>2
  <2>3. FailuresKept'
    BY <1>1, <1>2, <2>1, <2>2 DEF UnitInv, FailuresKept
  <2> QED  BY <1>1, <1>2, <1>4, <1>6, <2>1, <2>3
<1>7. CASE ~(in /\ step < Len(Plan(current))) /\ Rest # {}
  <2>1. current' = Min(Rest) /\ step' = 1 /\ UNCHANGED <<bus, services, units>>
    BY <1>7 DEF Advance
  <2>2. Rest \subseteq UnitNames /\ Rest \in SUBSET Nat /\ IsFiniteSet(Rest)
    BY <1>1, FS_Subset DEF Rest
  <2>3. current' \in Rest /\ \A u \in Rest : current' <= u
    BY <1>7, <2>1, <2>2, LeastIsMin
  <2>4. ASSUME services = <<>>, NEW u \in bad, u < current'
        PROVE  u \in kept'
    <3>1. u \in Nat /\ current \in Nat /\ current' \in Nat /\ u \in UnitNames
      BY <1>1, <2>2, <2>3
    <3>2. u \notin Rest
      BY <2>3, <2>4, <3>1
    <3>3. u <= current
      BY <2>4, <3>1, <3>2 DEF Rest
    <3> QED  BY <1>3, <2>4, <3>3
  <2>5. FailuresKept'
    BY <1>1, <1>2, <1>5, <2>1, <2>4 DEF FailuresKept
  <2> QED  BY <1>1, <1>2, <1>4, <1>7, <2>1, <2>2, <2>3, <2>5
<1>8. ASSUME services = <<>>, Rest = {}
      PROVE  bad \subseteq kept'
  <2> SUFFICES ASSUME NEW u \in bad
               PROVE  u <= current
    BY <1>3, <1>8
  <2>1. u \in UnitNames /\ u \in Nat /\ current \in Nat
    BY <1>1
  <2> QED  BY <1>8, <2>1 DEF Rest
<1>9. CASE ~(in /\ step < Len(Plan(current))) /\ Rest = {} /\ services = <<>> /\ kept' # {}
  <2>1. /\ services' = SortServices(kept') /\ current' = Min(Range(services')) /\ step' = 1
        /\ UNCHANGED <<bus, units>>
    BY <1>9 DEF Advance
  <2>2. /\ services' \in Seq(UnitNames) /\ Range(services') \subseteq kept'
        /\ services' # <<>> /\ Range(services') # {}
        /\ Cardinality({u \in kept' : listed[u]}) <= MaxServices =>
             {u \in kept' : listed[u]} \subseteq Range(services')
    BY <1>4, <1>9, <2>1, ServicesSorted
  <2>3. bad = {u \in kept' : listed[u]}
    BY <1>4, <1>8, <1>9
  <2>4. /\ Range(services') \in SUBSET Nat /\ IsFiniteSet(Range(services'))
        /\ Range(services') \subseteq UnitNames
    BY <1>1, <1>4, <2>2, FS_Subset
  <2>5. current' \in UnitNames
    BY <2>1, <2>2, <2>4, LeastIsMin
  <2>6. FailuresKept'
    BY <1>1, <1>2, <2>2, <2>3 DEF FailuresKept
  <2> QED  BY <1>1, <1>2, <1>4, <1>9, <2>1, <2>2, <2>5, <2>6
<1>10. CASE ~(in /\ step < Len(Plan(current))) /\ Rest = {} /\ ~(services = <<>> /\ kept' # {})
  <2>1. units' = "done" /\ bus' = "closed" /\ UNCHANGED <<current, step, services>>
    BY <1>10 DEF Advance, Collected
  <2>2. Cardinality(bad) <= MaxServices => bad \subseteq Range(services)
    BY <1>5, <1>8, <1>10
  <2>3. FailuresKept'
    BY <1>1, <1>2, <2>1, <2>2 DEF FailuresKept
  <2> QED  BY <1>1, <1>2, <1>4, <1>10, <2>1, <2>3
<1> QED  BY <1>6, <1>7, <1>9, <1>10

\* Keeping an answer: it stays matched, and a status comes with its code.
LEMMA KeepEffect ==
  ASSUME UnitInv, member \in Questions, NEW answer \in {NoAnswer} \cup About \X About,
         answer # NoAnswer => answer[1] = answer[2], KeepAnswer(answer)
  PROVE  /\ got' \in [Questions -> {NoAnswer} \cup About \X About]
         /\ Matched'
         /\ member = "status" => (got'["status"] # NoAnswer <=> got'["code"] # NoAnswer)
         /\ member # "status" => got'["status"] = NoAnswer
         /\ member \notin {"status", "code"} => got'["code"] = got["code"]
<1>1. got \in [Questions -> {NoAnswer} \cup About \X About] /\ {"status", "code"} \subseteq Questions
  BY DEF UnitInv, UnitType, Questions
<1>2. got["status"] = NoAnswer
  BY BeforeAnswer
<1>3. CASE member = "status" /\ got' = [got EXCEPT !["code"] = NoAnswer]
  <2>1. got' = [got EXCEPT !["code"] = NoAnswer]
    BY <1>3
  <2>2. Matched'
    BY <1>1, <2>1 DEF UnitInv, Matched
  <2> QED  BY <1>1, <1>2, <1>3, <2>1, <2>2
<1>4. CASE /\ got' = [got EXCEPT ![member] = answer]
           /\ member = "status" => answer # NoAnswer /\ got["code"] # NoAnswer
  <2>1. got' = [got EXCEPT ![member] = answer]
    BY <1>4
  <2>2. Matched'
    BY <1>1, <2>1 DEF UnitInv, Matched
  <2> QED  BY <1>1, <1>2, <1>4, <2>1, <2>2
<1> QED  BY <1>3, <1>4 DEF KeepAnswer

\* The two together: an answer about a unit, or the lack of one.
LEMMA AnsweredStep ==
  ASSUME UnitInv, member \in Questions, member' = "none",
         UNCHANGED <<broken, serial, owed>>,
         inbox' \in Seq(Message), Range(inbox') \subseteq Range(inbox),
         NEW answer \in {NoAnswer} \cup About \X About,
         answer # NoAnswer => answer[1] = answer[2], KeepAnswer(answer),
         NEW in \in BOOLEAN, member # "enabled" => in, Advance(in)
  PROVE  UnitInv'
<1>1. /\ listed' = listed /\ kept' \subseteq UnitNames
      /\ services' \in Seq(UnitNames) /\ current' \in UnitNames
      /\ bus' # "hello"
      /\ in /\ step < Len(Plan(current)) =>
           step' = step + 1 /\ UNCHANGED <<current, services, units>>
      /\ ~(in /\ step < Len(Plan(current))) =>
           (step' = 1 /\ units' = "reading") \/ (step' = step /\ units' = "done")
      /\ FailuresKept'
  BY AdvanceEffect
<1>2. /\ got' \in [Questions -> {NoAnswer} \cup About \X About]
      /\ Matched'
      /\ member = "status" => (got'["status"] # NoAnswer <=> got'["code"] # NoAnswer)
      /\ member # "status" => got'["status"] = NoAnswer
      /\ member \notin {"status", "code"} => got'["code"] = got["code"]
  BY KeepEffect
<1>3. /\ units = "reading" /\ listed # <<>> /\ listed \in [UnitNames -> BOOLEAN]
      /\ step \in 1..Len(Plan(current)) /\ member = Plan(current)[step]
      /\ got["status"] = NoAnswer /\ step \in Nat
  BY BeforeAnswer
<1>4. Len(Plan(current)) \in {1, 4, 6} /\ Len(Plan(current))' \in {1, 4, 6}
  <2>1. Len(Plan(current)) \in {1, 4, 6}
    BY PlanShape
  <2>2. \/ Plan(current)' = <<"fragment">>
        \/ Plan(current)' = <<"changed", "restarts", "memory", "result", "code", "status">>
        \/ Plan(current)' = <<"enabled", "changed", "restarts", "memory">>
    BY DEF Plan
  <2>3. Len(Plan(current))' \in {1, 4, 6}
    BY <2>2
  <2> QED  BY <2>1, <2>3
<1>5. UnitType'
  BY <1>1, <1>2, <1>3 DEF UnitInv, UnitType, Currents
<1>6. SerialsTell'
  BY DEF UnitInv, SerialsTell, Fits
<1>7. InPlan'
  <2>1. in /\ step < Len(Plan(current)) => step' \in 1..Len(Plan(current))
    BY <1>1, <1>3, <1>4
  <2>2. in /\ step < Len(Plan(current)) => Plan(current)' = Plan(current)
    BY <1>1 DEF Plan
  <2>3. 1 \in 1..Len(Plan(current))'
    <3>1. PICK n \in {1, 4, 6} : n = Len(Plan(current))'
      BY <1>4
    <3>2. 1 \in 1..n
      BY <3>1
    <3> QED  BY <3>1, <3>2
  <2>4. units' = "reading" => step' \in 1..Len(Plan(current))'
    <3>1. CASE in /\ step < Len(Plan(current))
      <4>1. Len(Plan(current))' = Len(Plan(current))
        BY <2>2, <3>1
      <4> QED  BY <2>1, <3>1, <4>1
    <3>2. CASE ~(in /\ step < Len(Plan(current)))
      <4>1. units' = "reading" => step' = 1
        BY <1>1, <3>2
      <4> QED  BY <2>3, <4>1
    <3> QED  BY <3>1, <3>2
  <2>5. member' \notin Questions
    BY DEF Questions
  <2> QED  BY <1>1, <1>3, <2>4, <2>5 DEF InPlan
<1>8. Paired'
  <2>1. CASE member = "status"
    <3>1. step = 6
      BY <1>3, <2>1, PlanShape
    <3>2. ~(step < Len(Plan(current)))
      <4>1. PICK n \in {1, 4, 6} : n = Len(Plan(current))
        BY <1>4
      <4>2. ~(6 < n)
        OBVIOUS
      <4> QED  BY <3>1, <4>1, <4>2
    <3>3. step' = 1 \/ units' = "done"
      BY <1>1, <3>2
    <3>4. member' \notin Questions
      BY DEF Questions
    <3>5. got'["status"] # NoAnswer <=> got'["code"] # NoAnswer
      BY <1>2, <2>1
    <3> QED  BY <3>3, <3>4, <3>5 DEF Paired
  <2>2. CASE member = "code"
    <3>1. step = 5 /\ Len(Plan(current)) = 6
      BY <1>3, <2>2, PlanShape
    <3>2. step' = 6
      BY <1>1, <2>2, <3>1
    <3> QED  BY <1>2, <2>2, <3>2 DEF Paired, Questions
  <2>3. CASE member \notin {"status", "code"}
    <3>1. step # 6
      BY <1>3, <2>3, PlanShape
    <3>2. got["code"] = NoAnswer
      BY <1>3, <3>1 DEF UnitInv, Paired
    <3> QED  BY <1>2, <2>3, <3>2 DEF Paired, Questions
  <2> QED  BY <2>1, <2>2, <2>3
<1> QED  BY <1>1, <1>2, <1>5, <1>6, <1>7, <1>8 DEF UnitInv

-----------------------------------------------------------------------------
(* UnitReading: the steps.                                                 *)

\* The question that is asked is the one the place in the collection calls for.
LEMMA QuestionFits ==
  ASSUME UnitInv, units = "reading"
  PROVE  /\ Question \in Questions \cup {"hello", "list"}
         /\ Question # "none"
         /\ Question \in Questions <=> listed # <<>>
         /\ Question \in Questions => Question = Plan(current)[step]
         /\ bus = "hello" => Question # "list"
<1>1. CASE bus = "hello"
  <2>1. Question = "hello"
    BY <1>1 DEF Question
  <2>2. listed = <<>>
    BY <1>1 DEF UnitInv, InPlan
  <2> QED  BY <2>1, <2>2 DEF Questions
<1>2. CASE bus # "hello" /\ listed = <<>>
  <2>1. Question = "list"
    BY <1>2 DEF Question
  <2> QED  BY <1>2, <2>1 DEF Questions
<1>3. CASE bus # "hello" /\ listed # <<>>
  <2>1. Question = Plan(current)[step]
    BY <1>3 DEF Question
  <2>2. step \in 1..Len(Plan(current))
    BY <1>3 DEF UnitInv, InPlan
  <2>3. Plan(current)[step] \in Questions
    BY <2>2, PlanShape
  <2>4. "none" \notin Questions
    BY DEF Questions
  <2> QED  BY <1>3, <2>1, <2>3, <2>4
<1> QED  BY <1>1, <1>2, <1>3

LEMMA UnitInitHolds ==
  UnitInit => UnitInv
<1> SUFFICES ASSUME UnitInit
             PROVE  UnitInv
  OBVIOUS
<1> USE DEF UnitInit, UnitWorld, UnitStart
<1>1. UnitType
  BY DEF UnitType, Currents, NoAnswers, Call
<1>2. SerialsTell
  BY DEF SerialsTell, Range
<1>3. InPlan
  BY DEF InPlan, Questions
<1>4. Paired /\ Matched
  BY DEF Paired, Matched, NoAnswers, Questions
<1>5. FailuresKept
  BY DEF FailuresKept
<1> QED  BY <1>1, <1>2, <1>3, <1>4, <1>5 DEF UnitInv

\* What a step leaves alone of the collection.
LEMMA SameList ==
  ASSUME UnitInv, UNCHANGED <<list, member>>, bus' = "hello" => bus = "hello"
  PROVE  InPlan' /\ Paired' /\ Matched' /\ FailuresKept'
<1>1. UNCHANGED <<listed, current, step, got, kept, services, units, member>>
  BY DEF list
<1>2. InPlan'
  <2>1. Plan(current)' = Plan(current)
    BY <1>1 DEF Plan
  <2> QED  BY <1>1, <2>1 DEF UnitInv, InPlan
<1>3. Paired' /\ Matched'
  BY <1>1 DEF UnitInv, Paired, Matched
<1>4. FailuresKept'
  BY <1>1 DEF UnitInv, FailuresKept
<1> QED  BY <1>2, <1>3, <1>4

LEMMA DialStep ==
  ASSUME UnitInv, Dial
  PROVE  UnitInv'
<1>1. /\ member = "none" /\ listed = <<>> /\ units = "none"
      /\ step = 1 /\ got = NoAnswers /\ services = <<>>
  BY DEF UnitInv, InPlan, Dial
<1>2. units' \in {"reading", "failed"}
      /\ UNCHANGED <<broken, serial, owed, inbox, member, listed, current, step, got,
                     kept, services>>
  BY DEF Dial
<1>3. UnitType'
  BY <1>2 DEF UnitInv, UnitType
<1>4. SerialsTell'
  BY <1>2 DEF UnitInv, SerialsTell, Fits
<1>5. InPlan'
  BY <1>1, <1>2 DEF InPlan, Questions
<1>6. Paired' /\ Matched'
  BY <1>1, <1>2 DEF Paired, Matched, NoAnswers, Questions
<1>7. FailuresKept'
  BY <1>1, <1>2 DEF FailuresKept
<1> QED  BY <1>3, <1>4, <1>5, <1>6, <1>7 DEF UnitInv

LEMMA BusDiesStep ==
  ASSUME UnitInv, BusDies
  PROVE  UnitInv'
<1>1. InPlan' /\ Paired' /\ Matched' /\ FailuresKept'
  BY SameList DEF BusDies
<1>2. UnitType' /\ SerialsTell'
  BY DEF UnitInv, UnitType, SerialsTell, Fits, BusDies, list
<1> QED  BY <1>1, <1>2 DEF UnitInv

\* A call: its serial is later than any other's.
LEMMA AskStep ==
  ASSUME UnitInv, Ask(Question)
  PROVE  UnitInv'
<1> DEFINE q == Question
           o == [serial |-> serial + 1, about |-> <<q, current>>]
<1>1. /\ q \in Questions \cup {"hello", "list"} /\ q # "none"
      /\ q \in Questions <=> listed # <<>>
      /\ q \in Questions => q = Plan(current)[step]
      /\ bus = "hello" => q # "list"
  BY QuestionFits DEF Ask
<1>2. /\ member = "none" /\ units = "reading" /\ member' = q /\ serial' = serial + 1
      /\ owed' \subseteq owed \cup {o}
      /\ got' = IF step = 1 THEN NoAnswers ELSE got
      /\ UNCHANGED <<broken, bus, inbox, listed, current, step, kept, services, units>>
  BY DEF Ask
<1> HIDE DEF q
<1>3. serial \in Nat /\ current \in Currents
  BY DEF UnitInv, UnitType
<1>4. o \in Call
  <2>1. <<q, current>> \in About
    BY <1>1, <1>3 DEF About
  <2> QED  BY <1>3, <2>1 DEF Call
<1>5. NoAnswers \in [Questions -> {NoAnswer} \cup About \X About]
  BY DEF NoAnswers
<1>6. UnitType'
  <2>1. owed' \subseteq Call
    BY <1>2, <1>4 DEF UnitInv, UnitType
  <2>2. got' \in [Questions -> {NoAnswer} \cup About \X About]
    BY <1>2, <1>5 DEF UnitInv, UnitType
  <2> HIDE DEF o
  <2> QED  BY <1>1, <1>2, <2>1, <2>2 DEF UnitInv, UnitType
<1>7. SerialsTell'
  <2>1. ASSUME NEW c \in owed'
        PROVE  Fits(c.serial, c.about)'
    <3>1. CASE c = o
      BY <1>2, <1>3, <3>1 DEF Fits
    <3>2. CASE c \in owed
      <4>1. c.serial \in Nat /\ c.serial <= serial
        BY <3>2 DEF UnitInv, UnitType, SerialsTell, Fits, Call
      <4> QED  BY <1>2, <1>3, <4>1 DEF Fits
    <3> QED  BY <1>2, <2>1, <3>1, <3>2
  <2>2. ASSUME NEW m \in Range(inbox), m.kind # "signal"
        PROVE  Fits(m.serial, m.about)'
    <3>1. m \in Message
      BY <2>2, LenProperties, ElementOfSeq DEF UnitInv, UnitType, Range
    <3>2. m.serial \in Nat /\ m.serial <= serial
      BY <2>2, <3>1 DEF UnitInv, SerialsTell, Fits, Message
    <3> QED  BY <1>2, <1>3, <3>2 DEF Fits
  <2>3. Range(inbox') = Range(inbox)
    BY <1>2
  <2> QED  BY <2>1, <2>2, <2>3 DEF SerialsTell
<1> HIDE DEF o
<1>8. InPlan'
  <2>1. Plan(current)' = Plan(current)
    BY <1>2 DEF Plan
  <2>2. q \notin Questions => q \in {"hello", "list"}
    BY <1>1
  <2> QED  BY <1>1, <1>2, <2>1, <2>2 DEF UnitInv, InPlan
<1>9. Paired'
  <2>1. CASE step = 1
    BY <1>2, <2>1 DEF Paired, NoAnswers, Questions
  <2>2. CASE step # 1
    BY <1>2, <2>2 DEF UnitInv, Paired
  <2> QED  BY <2>1, <2>2
<1>10. Matched'
  BY <1>2 DEF UnitInv, Matched, NoAnswers
<1>11. FailuresKept'
  BY <1>2 DEF UnitInv, FailuresKept
<1> QED  BY <1>6, <1>7, <1>8, <1>9, <1>10, <1>11 DEF UnitInv


\* What the bus says is one message more.
LEMMA MessageStep ==
  ASSUME UnitInv, NEW m \in Message, inbox' = Append(inbox, m), owed' \subseteq owed,
         m.kind # "signal" => Fits(m.serial, m.about),
         UNCHANGED <<broken, bus, serial, member, list>>
  PROVE  UnitInv'
<1>1. InPlan' /\ Paired' /\ Matched' /\ FailuresKept'
  BY SameList
<1>2. UNCHANGED <<listed, current, step, got, kept, services, units>>
  BY DEF list
<1>3. inbox' \in Seq(Message) /\ Range(inbox') = Range(inbox) \cup {m}
  BY RangeOfAppend DEF UnitInv, UnitType
<1>4. UnitType'
  BY <1>2, <1>3 DEF UnitInv, UnitType
<1>5. SerialsTell'
  BY <1>2, <1>3 DEF UnitInv, SerialsTell, Fits
<1> QED  BY <1>1, <1>4, <1>5 DEF UnitInv

LEMMA BusAnswersStep ==
  ASSUME UnitInv, BusAnswers
  PROVE  UnitInv'
<1>1. PICK o \in owed, kind \in {"return", "error"} :
        /\ owed' = owed \ {o}
        /\ inbox' = Append(inbox, [kind |-> kind, serial |-> o.serial, about |-> o.about,
                                   broken |-> IF o.about[1] = "list" THEN broken ELSE {}])
        /\ UNCHANGED <<broken, bus, serial, member, tries, signals, list>>
  BY DEF BusAnswers
<1> DEFINE b == IF o.about[1] = "list" THEN broken ELSE {}
           m == [kind |-> kind, serial |-> o.serial, about |-> o.about, broken |-> b]
<1>2. o.serial \in Nat /\ o.about \in About /\ Fits(o.serial, o.about)
  BY DEF UnitInv, UnitType, SerialsTell, Call
<1>3. b \in SUBSET UnitNames
  BY DEF UnitInv, UnitType
<1>4. inbox' = Append(inbox, m)
  BY <1>1
<1> HIDE DEF b
<1>5. m \in Message
  BY <1>2, <1>3 DEF Message
<1>6. Fits(m.serial, m.about)
  BY <1>2
<1> HIDE DEF m
<1> QED  BY <1>1, <1>4, <1>5, <1>6, MessageStep

LEMMA BusSignalsStep ==
  ASSUME UnitInv, BusSignals
  PROVE  UnitInv'
<1> DEFINE m == [kind |-> "signal", serial |-> 0, about |-> NoAnswer, broken |-> {}]
<1>1. m \in Message /\ m.kind = "signal"
  BY DEF Message, About
<1>2. inbox' = Append(inbox, m) /\ UNCHANGED <<broken, bus, serial, owed, member, list>>
  BY DEF BusSignals
<1> HIDE DEF m
<1> QED  BY <1>1, <1>2, MessageStep

LEMMA PassOverStep ==
  ASSUME UnitInv, PassOver
  PROVE  UnitInv'
<1>1. InPlan' /\ Paired' /\ Matched' /\ FailuresKept'
  BY SameList DEF PassOver
<1>2. UNCHANGED <<broken, serial, owed, member>>
      /\ UNCHANGED <<listed, current, step, got, kept, services, units>>
  BY DEF PassOver, list
<1>3. inbox' \in Seq(Message) /\ Range(inbox') \subseteq Range(inbox)
  BY InboxTail DEF PassOver, Readable
<1>4. UnitType'
  BY <1>2, <1>3 DEF UnitInv, UnitType
<1>5. SerialsTell'
  BY <1>2, <1>3 DEF UnitInv, SerialsTell, Fits
<1> QED  BY <1>1, <1>4, <1>5 DEF UnitInv

\* A call that returned or failed: what is left of its messages.
LEMMA CallEnds ==
  ASSUME UnitInv, Returned \/ Fails
  PROVE  /\ member' = "none" /\ UNCHANGED <<broken, serial, owed>>
         /\ inbox' \in Seq(Message) /\ Range(inbox') \subseteq Range(inbox)
         /\ SerialsTell'
<1>1. member' = "none" /\ UNCHANGED <<broken, serial, owed>>
  BY DEF Returned, Fails
<1>2. inbox' \in Seq(Message) /\ Range(inbox') \subseteq Range(inbox)
  <2>1. CASE Returned
    BY <2>1, InboxTail DEF Returned, Readable
  <2>2. CASE Fails
    BY <2>2 DEF Fails, UnitInv, UnitType
  <2> QED  BY <2>1, <2>2
<1>3. SerialsTell'
  BY <1>1, <1>2 DEF UnitInv, SerialsTell, Fits
<1> QED  BY <1>1, <1>2, <1>3

LEMMA OpenedStep ==
  ASSUME UnitInv, Opened
  PROVE  UnitInv'
<1>1. member \in {"hello", "list"} /\ (Returned \/ Fails)
  BY DEF Opened
<1>2. /\ member' = "none" /\ UNCHANGED <<broken, serial, owed>>
      /\ inbox' \in Seq(Message) /\ Range(inbox') \subseteq Range(inbox)
      /\ SerialsTell'
  BY <1>1, CallEnds
<1>3. /\ listed = <<>> /\ step = 1 /\ got = NoAnswers /\ services = <<>>
      /\ units = "reading"
  BY <1>1 DEF UnitInv, InPlan, Questions
<1>4. member' \notin Questions
  BY <1>2 DEF Questions
<1>5. CASE Abandoned
  <2>1. UnitType'
    BY <1>2, <1>5 DEF UnitInv, UnitType, Abandoned
  <2>2. InPlan'
    BY <1>2, <1>3, <1>4, <1>5 DEF InPlan, Abandoned
  <2>3. Paired' /\ Matched'
    BY <1>3, <1>4, <1>5 DEF Paired, Matched, NoAnswers, Questions, Abandoned
  <2>4. FailuresKept'
    BY <1>3, <1>5 DEF FailuresKept, Abandoned
  <2> QED  BY <1>2, <2>1, <2>2, <2>3, <2>4 DEF UnitInv
<1>6. CASE member = "hello" /\ bus' = "open" /\ UNCHANGED list
  <2>1. UNCHANGED <<listed, current, step, got, kept, services, units>>
    BY <1>6 DEF list
  <2>2. UnitType'
    BY <1>2, <2>1 DEF UnitInv, UnitType
  <2>3. InPlan'
    BY <1>2, <1>3, <1>4, <1>6, <2>1 DEF InPlan
  <2>4. Paired' /\ Matched'
    BY <1>3, <1>4, <2>1 DEF Paired, Matched, NoAnswers, Questions
  <2>5. FailuresKept'
    BY <1>3, <2>1 DEF FailuresKept
  <2> QED  BY <1>2, <2>2, <2>3, <2>4, <2>5 DEF UnitInv
<1>7. CASE /\ member = "list"
           /\ listed' = [u \in UnitNames |-> u \in Head(inbox).broken]
           /\ current' = Min(UnitNames) /\ step' = 1
           /\ UNCHANGED <<bus, got, kept, services, units>>
  <2>1. bus' # "hello"
    BY <1>7 DEF UnitInv, InPlan
  <2>2. listed' \in [UnitNames -> BOOLEAN] /\ listed' # <<>>
    BY <1>7, UnitAssumptions
  <2>3. current' \in UnitNames /\ \A u \in UnitNames : current' <= u
    BY <1>7, UnitAssumptions, LeastIsMin
  <2>4. UnitType'
    BY <1>2, <1>7, <2>2, <2>3 DEF UnitInv, UnitType, Currents
  <2>5. 1 \in 1..Len(Plan(current))'
    <3>1. \/ Plan(current)' = <<"fragment">>
          \/ Plan(current)' = <<"changed", "restarts", "memory", "result", "code", "status">>
          \/ Plan(current)' = <<"enabled", "changed", "restarts", "memory">>
      BY DEF Plan
    <3>2. Len(Plan(current)') \in {1, 4, 6}
      BY <3>1
    <3> QED  BY <3>2
  <2>6. InPlan'
    <3>1. member' \in Questions \cup {"none"}
      BY <1>2
    <3> QED  BY <1>2, <1>3, <1>4, <1>7, <2>1, <2>2, <2>3, <2>5, <3>1 DEF InPlan
  <2>7. Paired' /\ Matched'
    BY <1>3, <1>4, <1>7 DEF Paired, Matched, NoAnswers, Questions
  <2>8. FailuresKept'
    <3>1. \A u \in UnitNames : ~(u < current')
      BY <2>3, UnitAssumptions
    <3>2. services' = <<>> /\ units' = "reading"
      BY <1>3, <1>7
    <3> QED  BY <3>1, <3>2 DEF FailuresKept
  <2> QED  BY <1>2, <2>4, <2>6, <2>7, <2>8 DEF UnitInv
<1> QED  BY <1>1, <1>5, <1>6, <1>7 DEF Opened

LEMMA NotedStep ==
  ASSUME UnitInv, Noted
  PROVE  UnitInv'
<1>1. member \in Questions /\ (Returned \/ Fails)
  BY DEF Noted
<1>2. /\ member' = "none" /\ UNCHANGED <<broken, serial, owed>>
      /\ inbox' \in Seq(Message) /\ Range(inbox') \subseteq Range(inbox)
  BY <1>1, CallEnds
<1>3. CASE Returned
  <2> DEFINE m == Head(inbox)
             answer == IF m.kind = "error" THEN NoAnswer ELSE <<<<member, current>>, m.about>>
             in == member = "enabled" => m.kind = "return" /\ current \in EnabledUnits
  <2>1. m \in Message /\ m.about = <<member, current>>
    BY <1>3, AnswerFits DEF Returned
  <2>2. <<member, current>> \in About
    BY <1>1 DEF UnitInv, UnitType, About
  <2>3. answer \in {NoAnswer} \cup About \X About
    BY <2>1, <2>2
  <2>4. answer # NoAnswer => answer[1] = answer[2]
    BY <2>1
  <2>5. in \in BOOLEAN /\ (member # "enabled" => in)
    OBVIOUS
  <2>6. CASE KeepAnswer(answer) /\ Advance(in)
    <3> HIDE DEF answer, in
    <3> QED  BY <1>1, <1>2, <2>3, <2>4, <2>5, <2>6, AnsweredStep
  <2>7. CASE Fails
    BY <1>3, <2>7 DEF Returned, Fails, Readable
  <2> QED  BY <1>3, <2>6, <2>7 DEF Noted
<1>4. CASE Fails /\ KeepAnswer(NoAnswer) /\ Advance(member # "enabled")
  <2> DEFINE in == member # "enabled"
  <2>1. in \in BOOLEAN /\ (member # "enabled" => in) /\ Advance(in)
    BY <1>4
  <2>2. NoAnswer \in {NoAnswer} \cup About \X About
    OBVIOUS
  <2> HIDE DEF in
  <2> QED  BY <1>1, <1>2, <1>4, <2>1, <2>2, AnsweredStep
<1> QED  BY <1>3, <1>4 DEF Noted

LEMMA UnitStep ==
  UnitInv /\ [UnitNext]_unitVars => UnitInv'
<1> SUFFICES ASSUME UnitInv, [UnitNext]_unitVars
             PROVE  UnitInv'
  OBVIOUS
<1>1. CASE Dial \/ BusDies \/ Ask(Question)
  BY <1>1, DialStep, BusDiesStep, AskStep
<1>2. CASE BusAnswers \/ BusSignals \/ PassOver
  BY <1>2, BusAnswersStep, BusSignalsStep, PassOverStep
<1>3. CASE Opened \/ Noted
  BY <1>3, OpenedStep, NotedStep
<1>4. CASE UNCHANGED unitVars
  <2>1. UNCHANGED <<broken, bus, serial, owed, inbox, member>>
        /\ UNCHANGED <<listed, current, step, got, kept, services, units>>
    BY <1>4 DEF unitVars
  <2>2. InPlan' /\ Paired' /\ Matched' /\ FailuresKept'
    BY <2>1, SameList DEF list
  <2>3. UnitType' /\ SerialsTell'
    BY <2>1 DEF UnitInv, UnitType, SerialsTell, Fits
  <2> QED  BY <2>2, <2>3 DEF UnitInv
<1> QED  BY <1>1, <1>2, <1>3, <1>4 DEF UnitNext

LEMMA UnitsInvariant ==
  UnitSpec => []UnitInv
<1>1. UnitInit => UnitInv
  BY UnitInitHolds
<1>2. UnitInv /\ [UnitNext]_unitVars => UnitInv'
  BY UnitStep
<1> QED  BY <1>1, <1>2, PTL DEF UnitSpec

\* Every answer a reading keeps about a unit is the answer to the question it
\* is kept for (readReply's serial check in internal/dbus/conn.go), and an exit
\* status is only ever kept with its code (internal/collect/services_linux.go).
THEOREM AnswersAreMatched ==
  UnitSpec => []AnswersMatched
<1>1. UnitInv => AnswersMatched
  <2> SUFFICES ASSUME UnitInv
               PROVE  AnswersMatched
    OBVIOUS
  <2>1. \A q \in Questions : got[q] # NoAnswer => got[q][1] = got[q][2]
    BY DEF UnitInv, Matched
  <2>2. step = 1 => (got["code"] = NoAnswer <=> got["status"] = NoAnswer)
    BY DEF UnitInv, Paired
  <2> QED  BY <2>1, <2>2 DEF AnswersMatched
<1> QED  BY <1>1, UnitsInvariant, PTL

\* A unit that had failed when ListUnits listed it is in the list of a reading
\* that was made (CollectUnits, then SortServices), whichever later calls about
\* it failed, while the list has room for the failures.
THEOREM FailuresAreListed ==
  UnitSpec => []FailuresListed
<1>1. UnitInv => FailuresListed
  BY DEF UnitInv, InPlan, FailuresKept, FailuresListed
<1> QED  BY <1>1, UnitsInvariant, PTL

-----------------------------------------------------------------------------
(* SshSetup: what comes first.                                             *)
Either(a, b) == IF a # {} THEN a ELSE b

FirstIn(g, D) ==
    /\ (\A i \in D : g[i] = {}) => First(g) = {}
    /\ \A i \in D : g[i] # {} /\ (\A j \in D : j < i => g[j] = {}) => First(g) = g[i]

LEMMA FirstIs ==
  ASSUME NEW D \in SUBSET Nat, NEW g, DOMAIN g = D
  PROVE  FirstIn(g, D)
<1> DEFINE some == {i \in D : g[i] # {}}
<1>1. First(g) = IF some = {} THEN {} ELSE g[Min(some)]
  BY DEF First
<1>2. ASSUME NEW i \in D, g[i] # {}, \A j \in D : j < i => g[j] = {}
      PROVE  First(g) = g[i]
  <2>1. i \in some /\ some \subseteq Nat
    BY <1>2
  <2>2. ASSUME NEW j \in some PROVE i <= j
    <3>1. j \in D /\ g[j] # {} /\ j \in Nat /\ i \in Nat
      OBVIOUS
    <3>2. ~(j < i)
      BY <1>2, <3>1, Zenon
    <3> QED  BY <3>1, <3>2
  <2>3. Min(some) = i
    <3>1. ASSUME NEW x \in some, \A y \in some : x <= y PROVE x = i
      <4>1. x <= i /\ i <= x /\ x \in Nat /\ i \in Nat
        BY <2>1, <2>2, <3>1
      <4> QED  BY <4>1
    <3> HIDE DEF some
    <3> QED  BY <2>1, <2>2, <3>1 DEF Min
  <2> QED  BY <1>1, <2>1, <2>3
<1> QED  BY <1>1, <1>2 DEF FirstIn

LEMMA FirstFound ==
  ASSUME NEW D \in SUBSET Nat, IsFiniteSet(D), NEW g, DOMAIN g = D
  PROVE  (\A i \in D : g[i] = {}) \/ \E i \in D : g[i] # {} /\ \A j \in D : j < i => g[j] = {}
<1> SUFFICES ASSUME ~\A i \in D : g[i] = {}
             PROVE  \E i \in D : g[i] # {} /\ \A j \in D : j < i => g[j] = {}
  OBVIOUS
<1>1. PICK some : some = {i \in D : g[i] # {}}
  OBVIOUS
<1>2. IsFiniteSet(some) /\ some \in SUBSET Nat /\ some # {}
  <2>1. some \subseteq D /\ some # {}
    BY <1>1
  <2> QED  BY <2>1, FS_Subset
<1>3. PICK i \in some : \A u \in some : i <= u
  BY <1>2, LeastOf
<1>4. i \in D /\ g[i] # {}
  BY <1>1
<1>5. ASSUME NEW j \in D, j < i PROVE g[j] = {}
  <2>1. j \notin some
    BY <1>2, <1>3, <1>5
  <2> QED  BY <1>1, <2>1
<1> QED  BY <1>4, <1>5

\* The first of all is the first, or what comes first of the rest.
LEMMA FirstOfRest ==
  ASSUME NEW g, NEW h, NEW a \in Nat, DOMAIN h \in SUBSET Nat, IsFiniteSet(DOMAIN h),
         DOMAIN g = DOMAIN h \cup {a}, \A i \in DOMAIN h : a < i /\ h[i] = g[i]
  PROVE  First(g) = Either(g[a], First(h))
<1>0. PICK E \in SUBSET Nat : /\ IsFiniteSet(E) /\ E = DOMAIN h /\ DOMAIN g = E \cup {a}
                             /\ \A i \in E : a < i /\ h[i] = g[i]
  OBVIOUS
<1>1. E \cup {a} \in SUBSET Nat
  OBVIOUS
<1>2. /\ (\A i \in E \cup {a} : g[i] = {}) => First(g) = {}
      /\ \A i \in E \cup {a} :
            g[i] # {} /\ (\A j \in E \cup {a} : j < i => g[j] = {}) => First(g) = g[i]
  <2>1. FirstIn(g, E \cup {a})
    BY <1>0, <1>1, FirstIs, Zenon
  <2> QED  BY <2>1, Zenon DEF FirstIn
<1>h. FirstIn(h, E)
  <2>1. DOMAIN h = E
    BY <1>0
  <2> QED  BY <2>1, FirstIs, Zenon
<1>3. CASE g[a] # {}
  <2>1. \A j \in E \cup {a} : ~(j < a)
    BY <1>0
  <2>2. First(g) = g[a]
    BY <1>2, <1>3, <2>1
  <2> QED  BY <1>3, <2>2 DEF Either
<1>4. CASE g[a] = {}
  <2>1. CASE \A i \in E : h[i] = {}
    <3>1. First(h) = {}
      BY <1>h, <2>1 DEF FirstIn
    <3>2. First(g) = {}
      BY <1>0, <1>2, <1>4, <2>1
    <3> QED  BY <1>4, <3>1, <3>2 DEF Either
  <2>2. CASE ~\A i \in E : h[i] = {}
    <3>1. PICK i \in E : h[i] # {} /\ \A j \in E : j < i => h[j] = {}
      BY <1>0, <2>2, FirstFound
    <3>2. First(h) = h[i]
      BY <1>h, <3>1 DEF FirstIn
    <3>3. g[i] # {} /\ \A j \in E \cup {a} : j < i => g[j] = {}
      BY <1>0, <1>4, <3>1
    <3>4. First(g) = g[i]
      BY <1>2, <3>3
    <3> QED  BY <1>0, <1>4, <3>2, <3>4 DEF Either
  <2> QED  BY <2>1, <2>2
<1> QED  BY <1>3, <1>4

LEMMA FirstShifted ==
  ASSUME NEW n \in Nat, NEW g, DOMAIN g = 1..n + 1, NEW h, DOMAIN h = 1..n,
         \A i \in 1..n : h[i] = g[i + 1]
  PROVE  First(g) = Either(g[1], First(h))
<1>1. PICK D : D = 1..n + 1
  OBVIOUS
<1>2. PICK E : E = 1..n
  OBVIOUS
<1>3. D \in SUBSET Nat /\ E \in SUBSET Nat /\ IsFiniteSet(E) /\ 1 \in D
  <2>1. IsFiniteSet(1..n)
    BY FS_Interval
  <2> QED  BY <1>1, <1>2, <2>1
<1>4. /\ (\A i \in D : g[i] = {}) => First(g) = {}
      /\ \A i \in D : g[i] # {} /\ (\A j \in D : j < i => g[j] = {}) => First(g) = g[i]
  <2>1. DOMAIN g = D
    BY <1>1
  <2>2. FirstIn(g, D)
    BY <1>3, <2>1, FirstIs, Zenon
  <2> QED  BY <2>2, Zenon DEF FirstIn
<1>5. /\ (\A i \in E : h[i] = {}) => First(h) = {}
      /\ \A i \in E : h[i] # {} /\ (\A j \in E : j < i => h[j] = {}) => First(h) = h[i]
  <2>1. DOMAIN h = E
    BY <1>2
  <2>2. FirstIn(h, E)
    BY <1>3, <2>1, FirstIs, Zenon
  <2> QED  BY <2>2, Zenon DEF FirstIn
<1>6. CASE g[1] # {}
  <2>1. \A j \in D : ~(j < 1)
    BY <1>1
  <2> QED  BY <1>3, <1>4, <1>6, <2>1 DEF Either
<1>7. CASE g[1] = {}
  <2>0. \A i \in D : i = 1 \/ (i - 1 \in E /\ g[i] = h[i - 1])
    <3> SUFFICES ASSUME NEW i \in 1..n + 1, i # 1 PROVE i - 1 \in E /\ g[i] = h[i - 1]
      BY <1>1
    <3>1. i - 1 \in 1..n /\ (i - 1) + 1 = i
      OBVIOUS
    <3> QED  BY <1>2, <3>1
  <2>1. CASE \A i \in E : h[i] = {}
    <3>1. \A i \in D : g[i] = {}
      BY <1>7, <2>0, <2>1
    <3> QED  BY <1>4, <1>5, <1>7, <2>1, <3>1 DEF Either
  <2>2. CASE ~\A i \in E : h[i] = {}
    <3>1. PICK i \in E : h[i] # {} /\ \A j \in E : j < i => h[j] = {}
      BY <1>2, <1>3, <2>2, FirstFound
    <3>2. First(h) = h[i]
      BY <1>5, <3>1
    <3>3. i + 1 \in D /\ g[i + 1] = h[i]
      BY <1>1, <1>2
    <3>4. \A j \in D : j < i + 1 => g[j] = {}
      <4> SUFFICES ASSUME NEW j \in D, j < i + 1 PROVE g[j] = {}
        OBVIOUS
      <4>1. CASE j = 1
        BY <1>7, <4>1
      <4>2. CASE j # 1
        <5>1. j - 1 \in E /\ g[j] = h[j - 1]
          BY <2>0, <4>2
        <5>2. j - 1 < i
          BY <1>1, <1>2
        <5> QED  BY <3>1, <5>1, <5>2
      <4> QED  BY <4>1, <4>2
    <3>5. First(g) = h[i]
      BY <1>4, <3>1, <3>3, <3>4
    <3> QED  BY <1>7, <3>2, <3>5 DEF Either
  <2> QED  BY <2>1, <2>2
<1> QED  BY <1>6, <1>7

-----------------------------------------------------------------------------
(* SshSetup: what sshd makes of the files is well defined.                 *)
Level(c, d, folder) ==
    [f \in ConfigFiles |-> IF d = 0 THEN Silent ELSE FileSays(c[f], ForAll(c[f]), folder)]
SaysTo(c, n, g) == \A d \in 0..n : g[d] = Level(c, d, g[d - 1])

LEMMA SaysExists ==
  ASSUME NEW c, NEW m \in Nat
  PROVE  \A n \in 0..m : \E g : SaysTo(c, n, g)
<1> DEFINE bad == {n \in 0..m : ~\E g : SaysTo(c, n, g)}
<1> SUFFICES ASSUME bad # {} PROVE FALSE
  OBVIOUS
<1>1. IsFiniteSet(bad) /\ bad \in SUBSET Nat
  <2>1. IsFiniteSet(0..m) /\ bad \subseteq 0..m
    BY FS_Interval
  <2>2. IsFiniteSet(bad)
    BY <2>1, FS_Subset
  <2> QED  BY <2>1, <2>2
<1>2. PICK n \in bad : \A u \in bad : n <= u
  <2> HIDE DEF bad
  <2> QED  BY <1>1, LeastOf
<1>3. n \in 0..m /\ ~\E g : SaysTo(c, n, g)
  OBVIOUS
<1>4. CASE n = 0
  <2>1. PICK g : g = [d \in 0..0 |-> Level(c, 0, {})]
    OBVIOUS
  <2>2. \A d \in 0..0 : d = 0 /\ g[d] = Level(c, 0, {})
    BY <2>1
  <2>3. Level(c, 0, {}) = Level(c, 0, g[0 - 1])
    BY DEF Level
  <2>4. SaysTo(c, 0, g)
    BY <2>2, <2>3 DEF SaysTo
  <2> QED  BY <1>3, <1>4, <2>4
<1>5. CASE n # 0
  <2>1. PICK p \in 0..m : p = n - 1 /\ p \in Nat
    BY <1>3, <1>5
  <2>2. p \notin bad
    BY <1>2, <1>3, <2>1
  <2>3. PICK g : SaysTo(c, p, g)
    BY <2>2
  <2>4. PICK h : h = [d \in 0..n |-> IF d = n THEN Level(c, n, g[p]) ELSE g[d]]
    OBVIOUS
  <2>5. \A d \in 0..p : d \in 0..n /\ d # n
    BY <1>3, <2>1
  <2>6. \A d \in 0..p : h[d] = g[d]
    BY <2>4, <2>5
  <2>7. ASSUME NEW d \in 0..n
        PROVE  h[d] = Level(c, d, h[d - 1])
    <3>1. CASE d = n
      <4>1. h[d] = Level(c, n, g[p])
        BY <2>4, <3>1
      <4>2. h[d - 1] = g[p]
        BY <2>1, <2>6, <3>1
      <4> QED  BY <3>1, <4>1, <4>2
    <3>2. CASE d # n
      <4>1. d \in 0..p
        BY <1>3, <2>1, <3>2
      <4>2. h[d] = Level(c, d, g[d - 1])
        BY <2>3, <2>6, <4>1 DEF SaysTo
      <4>3. CASE d = 0
        BY <4>2, <4>3 DEF Level
      <4>4. CASE d # 0
        <5>1. d - 1 \in 0..p
          BY <4>1, <4>4
        <5>2. h[d - 1] = g[d - 1]
          BY <2>6, <5>1
        <5> QED  BY <4>2, <5>2
      <4> QED  BY <4>3, <4>4
    <3> QED  BY <3>1, <3>2
  <2>8. SaysTo(c, n, h)
    BY <2>7 DEF SaysTo
  <2> QED  BY <1>3, <2>8
<1> QED  BY <1>4, <1>5

\* The includes of a file that is read d files deep say what the folder's
\* files say one deeper.
LEMMA SshdDefined ==
  ASSUME NEW c
  PROVE  \A d \in 0..MaxSSHDepth + 1 : Sshd(c)[d] = Level(c, d, Sshd(c)[d - 1])
<1>1. PICK m \in Nat : m = MaxSSHDepth + 1
  BY SshAssumptions
<1>2. PICK g : SaysTo(c, m, g)
  <2>1. m \in 0..m
    OBVIOUS
  <2> QED  BY <2>1, SaysExists
<1>3. PICK h : h = [d \in 0..m |-> g[d]]
  OBVIOUS
<1>4. ASSUME NEW d \in 0..m PROVE h[d] = Level(c, d, h[d - 1])
  <2>1. h[d] = g[d] /\ g[d] = Level(c, d, g[d - 1])
    BY <1>2, <1>3 DEF SaysTo
  <2>2. CASE d = 0
    BY <2>1, <2>2 DEF Level
  <2>3. CASE d # 0
    <3>1. d - 1 \in 0..m
      BY <2>3
    <3> QED  BY <1>3, <2>1, <3>1
  <2> QED  BY <2>2, <2>3
<1>5. h = [d \in 0..m |-> Level(c, d, h[d - 1])]
  BY <1>3, <1>4
<1>6. h = [d \in 0..MaxSSHDepth + 1 |->
             [f \in ConfigFiles |->
                IF d = 0 THEN Silent ELSE FileSays(c[f], ForAll(c[f]), h[d - 1])]]
  BY <1>1, <1>5 DEF Level
<1>7. Sshd(c) = [d \in 0..MaxSSHDepth + 1 |->
             [f \in ConfigFiles |->
                IF d = 0 THEN Silent ELSE FileSays(c[f], ForAll(c[f]), Sshd(c)[d - 1])]]
  BY <1>6, Zenon DEF Sshd
<1> QED  BY <1>7 DEF Level

-----------------------------------------------------------------------------
(* SshSetup: what the files being read have still to say.                  *)
Frames == [file : ConfigFiles, line : Nat, inMatch : BOOLEAN, depth : 0..MaxSSHDepth]
Written(c) ==
    \A f \in ConfigFiles :
        /\ Len(c[f]) \in Nat /\ DOMAIN c[f] = 1..Len(c[f])
        /\ \A i \in 1..Len(c[f]) :
                c[f][i].what = "set" => c[f][i].key \in Keywords /\ c[f][i].value # "unknown"

\* The lines of t from n on that hold for everybody.
Ahead(t, n) == {i \in DOMAIN t : i >= n /\ \A j \in 1..i : j >= n => t[j].what # "match"}

FolderOf(c, x) == Sshd(c)[MaxSSHDepth - x.depth]
FrameValue(c, x, k) ==
    IF x.inMatch THEN {}
    ELSE First([i \in Ahead(c[x.file], x.line) |-> LineSets(c[x.file][i], k, FolderOf(c, x))])
FramePorts(c, x) ==
    IF x.inMatch THEN {}
    ELSE UNION {LinePorts(c[x.file][i], FolderOf(c, x)) : i \in Ahead(c[x.file], x.line)}
StackValue(c, s, k) == First([i \in DOMAIN s |-> FrameValue(c, s[i], k)])
StackPorts(c, s) == UNION {FramePorts(c, s[i]) : i \in DOMAIN s}

LEMMA AheadShape ==
  ASSUME NEW t, Len(t) \in Nat, DOMAIN t = 1..Len(t), NEW n \in Nat
  PROVE  /\ IsFiniteSet(Ahead(t, n)) /\ Ahead(t, n) \in SUBSET Nat
         /\ n > Len(t) => Ahead(t, n) = {}
         /\ n = 0 => Ahead(t, 0) = ForAll(t) /\ Ahead(t, 1) = ForAll(t)
         /\ n \in 1..Len(t) =>
                IF t[n].what = "match" THEN Ahead(t, n) = {}
                ELSE Ahead(t, n) = Ahead(t, n + 1) \cup {n} /\ \A i \in Ahead(t, n + 1) : n < i
<1>1. PICK l \in Nat : l = Len(t) /\ DOMAIN t = 1..l
  OBVIOUS
<1>2. Ahead(t, n) \subseteq 1..l
  BY <1>1 DEF Ahead
<1>3. IsFiniteSet(Ahead(t, n)) /\ Ahead(t, n) \in SUBSET Nat
  <2>1. IsFiniteSet(1..l)
    BY FS_Interval
  <2>2. IsFiniteSet(Ahead(t, n))
    BY <1>2, <2>1, FS_Subset
  <2> QED  BY <1>2, <2>2
<1>4. ASSUME n > l PROVE Ahead(t, n) = {}
  BY <1>1, <1>4 DEF Ahead
<1>5. Ahead(t, 0) = ForAll(t) /\ Ahead(t, 1) = ForAll(t)
  <2>1. \A i \in 1..l : i >= 0 /\ i >= 1 /\ \A j \in 1..i : j >= 0 /\ j >= 1
    OBVIOUS
  <2> QED  BY <1>1, <2>1 DEF Ahead, ForAll
<1>6. ASSUME n \in 1..l, t[n].what = "match" PROVE Ahead(t, n) = {}
  <2> SUFFICES ASSUME NEW i \in 1..l, i >= n, \A j \in 1..i : j >= n => t[j].what # "match"
               PROVE  FALSE
    BY <1>1 DEF Ahead
  <2>1. n \in 1..i /\ n >= n
    BY <1>6
  <2> QED  BY <1>6, <2>1
<1>7. ASSUME n \in 1..l, t[n].what # "match"
      PROVE  Ahead(t, n) = Ahead(t, n + 1) \cup {n} /\ \A i \in Ahead(t, n + 1) : n < i
  <2>1. \A i \in Ahead(t, n + 1) : i \in 1..l /\ i >= n + 1
    BY <1>1 DEF Ahead
  <2>2. \A i \in Ahead(t, n + 1) : n < i
    BY <2>1
  <2>3. ASSUME NEW i \in Ahead(t, n) PROVE i \in Ahead(t, n + 1) \cup {n}
    <3>1. i \in 1..l /\ i >= n /\ \A j \in 1..i : j >= n => t[j].what # "match"
      BY <1>1 DEF Ahead
    <3>2. i = n \/ i >= n + 1
      BY <3>1
    <3>3. \A j \in 1..i : j >= n + 1 => j >= n
      BY <3>1
    <3> QED  BY <1>1, <3>1, <3>2, <3>3 DEF Ahead
  <2>4. ASSUME NEW i \in Ahead(t, n + 1) PROVE i \in Ahead(t, n)
    <3>1. i \in 1..l /\ i >= n + 1 /\ \A j \in 1..i : j >= n + 1 => t[j].what # "match"
      BY <1>1 DEF Ahead
    <3>2. ASSUME NEW j \in 1..i, j >= n PROVE t[j].what # "match"
      <4>1. j = n \/ j >= n + 1
        BY <3>2
      <4> QED  BY <1>7, <3>1, <4>1
    <3>3. i >= n
      BY <3>1
    <3> QED  BY <1>1, <3>1, <3>2, <3>3 DEF Ahead
  <2>5. n \in Ahead(t, n)
    <3>1. n >= n /\ \A j \in 1..n : j >= n => j = n
      BY <1>7
    <3> QED  BY <1>1, <1>7, <3>1 DEF Ahead
  <2> QED  BY <2>2, <2>3, <2>4, <2>5
<1> QED  BY <1>1, <1>3, <1>4, <1>5, <1>6, <1>7

\* A line that is not a Match says what it says before the lines after it.
LineValue(c, x, k) == IF x.inMatch THEN {} ELSE LineSets(c[x.file][x.line], k, FolderOf(c, x))
LinePortsOf(c, x) == IF x.inMatch THEN {} ELSE LinePorts(c[x.file][x.line], FolderOf(c, x))

LEMMA FrameStep ==
  ASSUME NEW c, Written(c), NEW x \in Frames, x.line \in 1..Len(c[x.file]),
         c[x.file][x.line].what # "match", NEW k,
         NEW y \in Frames, y.file = x.file, y.line = x.line + 1, y.inMatch = x.inMatch, y.depth = x.depth
  PROVE  /\ FrameValue(c, x, k) = Either(LineValue(c, x, k), FrameValue(c, y, k))
         /\ FramePorts(c, x) = LinePortsOf(c, x) \cup FramePorts(c, y)
<1>1. CASE x.inMatch
  BY <1>1 DEF FrameValue, FramePorts, LineValue, LinePortsOf, Either
<1>2. CASE ~x.inMatch
  <2>1. PICK t, F : t = c[x.file] /\ F = FolderOf(c, x)
    OBVIOUS
  <2>2. PICK n \in Nat : n = x.line /\ n \in 1..Len(t) /\ t[n].what # "match"
    BY <2>1 DEF Frames
  <2>3. Len(t) \in Nat /\ DOMAIN t = 1..Len(t)
    BY <2>1 DEF Written, Frames
  <2>4. FolderOf(c, y) = F
    BY <2>1 DEF FolderOf
  <2>5. PICK A, B : A = Ahead(t, n) /\ B = Ahead(t, n + 1)
    OBVIOUS
  <2>6. A = B \cup {n} /\ \A i \in B : n < i
    BY <2>2, <2>3, <2>5, AheadShape
  <2>7. IsFiniteSet(B) /\ B \in SUBSET Nat
    <3>1. PICK m \in Nat : m = n + 1
      OBVIOUS
    <3>2. B = Ahead(t, m)
      BY <2>5, <3>1
    <3> QED  BY <2>3, <3>2, AheadShape
  <2>8. PICK g : g = [i \in A |-> LineSets(t[i], k, F)]
    OBVIOUS
  <2>9. PICK h : h = [i \in B |-> LineSets(t[i], k, F)]
    OBVIOUS
  <2>10. DOMAIN g = B \cup {n} /\ DOMAIN h = B /\ \A i \in B : h[i] = g[i]
    BY <2>6, <2>8, <2>9
  <2>11. First(g) = Either(g[n], First(h))
    <3>1. DOMAIN h \in SUBSET Nat /\ IsFiniteSet(DOMAIN h) /\ DOMAIN g = DOMAIN h \cup {n}
      BY <2>7, <2>10
    <3>2. \A i \in DOMAIN h : n < i /\ h[i] = g[i]
      BY <2>6, <2>10
    <3> QED  BY <3>1, <3>2, FirstOfRest, Zenon
  <2>12. g[n] = LineSets(t[n], k, F)
    BY <2>6, <2>8
  <2>13. FrameValue(c, x, k) = First(g) /\ FrameValue(c, y, k) = First(h)
    BY <1>2, <2>1, <2>2, <2>4, <2>5, <2>8, <2>9 DEF FrameValue
  <2>14. LineValue(c, x, k) = LineSets(t[n], k, F)
    BY <1>2, <2>1, <2>2 DEF LineValue
  <2>15. /\ FramePorts(c, x) = UNION {LinePorts(t[i], F) : i \in A}
         /\ FramePorts(c, y) = UNION {LinePorts(t[i], F) : i \in B}
         /\ LinePortsOf(c, x) = LinePorts(t[n], F)
    BY <1>2, <2>1, <2>2, <2>4, <2>5 DEF FramePorts, LinePortsOf
  <2>16. UNION {LinePorts(t[i], F) : i \in A} = LinePorts(t[n], F) \cup UNION {LinePorts(t[i], F) : i \in B}
    BY <2>6
  <2> QED  BY <2>11, <2>12, <2>13, <2>14, <2>15, <2>16
<1> QED  BY <1>1, <1>2

\* A frame with nothing ahead says nothing.
LEMMA FrameEnds ==
  ASSUME NEW c, NEW x, x.inMatch \/ Ahead(c[x.file], x.line) = {}, NEW k
  PROVE  FrameValue(c, x, k) = {} /\ FramePorts(c, x) = {}
<1>1. CASE x.inMatch
  BY <1>1 DEF FrameValue, FramePorts
<1>2. CASE ~x.inMatch
  <2>1. PICK g : g = [i \in Ahead(c[x.file], x.line) |-> LineSets(c[x.file][i], k, FolderOf(c, x))]
    OBVIOUS
  <2>2. {i \in DOMAIN g : g[i] # {}} = {}
    BY <1>2, <2>1
  <2>3. First(g) = {}
    BY <2>2 DEF First
  <2> QED  BY <1>2, <2>1, <2>3 DEF FrameValue, FramePorts
<1> QED  BY <1>1, <1>2

\* A file that is begun says what sshd makes of it at that depth.
BeginsAs(c, x, k, says) ==
    /\ k \in Keywords => FrameValue(c, x, k) = says.values[k]
    /\ FramePorts(c, x) = says.ports

LEMMA FrameBegins ==
  ASSUME NEW c, Written(c), NEW x \in Frames, x.line \in {0, 1}, ~x.inMatch, NEW k
  PROVE  BeginsAs(c, x, k, Sshd(c)[MaxSSHDepth - x.depth + 1][x.file])
<1>1. PICK d \in 0..MaxSSHDepth : d = MaxSSHDepth - x.depth
  BY SshAssumptions DEF Frames
<1>2. PICK t : t = c[x.file] /\ x.file \in ConfigFiles
  BY DEF Frames
<1>3. Ahead(t, x.line) = ForAll(t)
  <2>1. Len(t) \in Nat /\ DOMAIN t = 1..Len(t) /\ 0 \in Nat
    BY <1>2 DEF Written
  <2> QED  BY <2>1, AheadShape
<1>4. PICK e \in 0..MaxSSHDepth + 1 : e = d + 1 /\ e # 0 /\ e - 1 = d
  BY SshAssumptions
<1>5. Sshd(c)[e][x.file] = FileSays(t, ForAll(t), Sshd(c)[d])
  <2>1. Sshd(c)[e] = Level(c, e, Sshd(c)[e - 1])
    BY SshdDefined, Zenon
  <2>2. Sshd(c)[e] = Level(c, e, Sshd(c)[d])
    BY <1>4, <2>1
  <2>3. Level(c, e, Sshd(c)[d])[x.file] = FileSays(t, ForAll(t), Sshd(c)[d])
    BY <1>2, <1>4 DEF Level
  <2> QED  BY <2>2, <2>3
<1>6. /\ FrameValue(c, x, k) = First([i \in ForAll(t) |-> LineSets(t[i], k, Sshd(c)[d])])
      /\ FramePorts(c, x) = UNION {LinePorts(t[i], Sshd(c)[d]) : i \in ForAll(t)}
  BY <1>1, <1>2, <1>3 DEF FrameValue, FramePorts, FolderOf
<1>7. /\ k \in Keywords => FileSays(t, ForAll(t), Sshd(c)[d]).values[k] =
            First([i \in ForAll(t) |-> LineSets(t[i], k, Sshd(c)[d])])
      /\ FileSays(t, ForAll(t), Sshd(c)[d]).ports = UNION {LinePorts(t[i], Sshd(c)[d]) : i \in ForAll(t)}
  BY DEF FileSays
<1>8. MaxSSHDepth - x.depth + 1 = e
  BY <1>1, <1>4
<1> QED  BY <1>5, <1>6, <1>7, <1>8 DEF BeginsAs

\* The innermost file speaks before those it is included from.
SpeaksFirst(c, t, x, s, k) ==
    /\ StackValue(c, t, k) = Either(FrameValue(c, x, k), StackValue(c, s, k))
    /\ StackPorts(c, t) = FramePorts(c, x) \cup StackPorts(c, s)

LEMMA StackStep ==
  ASSUME NEW c, NEW x \in Frames, NEW s \in Seq(Frames), NEW t, t = <<x>> \o s, NEW k
  PROVE  SpeaksFirst(c, t, x, s, k)
<1>1. PICK n \in Nat : n = Len(s) /\ DOMAIN s = 1..n
  BY LenProperties
<1>2. /\ t \in Seq(Frames) /\ DOMAIN t = 1..n + 1 /\ t[1] = x /\ \A i \in 1..n : t[i + 1] = s[i]
  <2>1. <<x>> \in Seq(Frames) /\ Len(<<x>>) = 1
    OBVIOUS
  <2>2. /\ t \in Seq(Frames) /\ Len(t) = 1 + n
        /\ \A i \in 1..1 + n : t[i] = IF i <= 1 THEN <<x>>[i] ELSE s[i - 1]
    BY <1>1, <2>1, ConcatProperties
  <2>3. DOMAIN t = 1..1 + n /\ 1 + n = n + 1
    BY <2>2, LenProperties
  <2>4. t[1] = x /\ \A i \in 1..n : t[i + 1] = s[i]
    BY <2>2
  <2> QED  BY <2>2, <2>3, <2>4
<1>3. PICK g : g = [i \in 1..n + 1 |-> FrameValue(c, t[i], k)]
  OBVIOUS
<1>4. PICK h : h = [i \in 1..n |-> FrameValue(c, s[i], k)]
  OBVIOUS
<1>5. DOMAIN g = 1..n + 1 /\ DOMAIN h = 1..n /\ \A i \in 1..n : h[i] = g[i + 1]
  <2>1. \A i \in 1..n : i + 1 \in 1..n + 1
    OBVIOUS
  <2> QED  BY <1>2, <1>3, <1>4, <2>1
<1>6. First(g) = Either(g[1], First(h))
  BY <1>5, FirstShifted
<1>7. g[1] = FrameValue(c, x, k)
  <2>1. 1 \in 1..n + 1
    OBVIOUS
  <2> QED  BY <1>2, <1>3, <2>1
<1>8. StackValue(c, t, k) = First(g) /\ StackValue(c, s, k) = First(h)
  BY <1>1, <1>2, <1>3, <1>4 DEF StackValue
<1>9. StackPorts(c, t) = FramePorts(c, x) \cup StackPorts(c, s)
  <2>1. \A i \in 1..n + 1 : i = 1 \/ (i - 1 \in 1..n /\ t[i] = s[i - 1])
    <3> SUFFICES ASSUME NEW i \in 1..n + 1, i # 1 PROVE i - 1 \in 1..n /\ t[i] = s[i - 1]
      OBVIOUS
    <3>1. i - 1 \in 1..n /\ (i - 1) + 1 = i
      OBVIOUS
    <3> QED  BY <1>2, <3>1
  <2>2. \A i \in 1..n : i + 1 \in 1..n + 1 /\ 1 \in 1..n + 1
    OBVIOUS
  <2>3. 1 \in 1..n + 1
    OBVIOUS
  <2>4. ASSUME NEW p PROVE p \in StackPorts(c, t) <=> p \in FramePorts(c, x) \/ p \in StackPorts(c, s)
    <3>1. p \in StackPorts(c, t) <=> \E i \in 1..n + 1 : p \in FramePorts(c, t[i])
      BY <1>2 DEF StackPorts
    <3>2. p \in StackPorts(c, s) <=> \E i \in 1..n : p \in FramePorts(c, s[i])
      BY <1>1 DEF StackPorts
    <3>3. ASSUME NEW i \in 1..n + 1, p \in FramePorts(c, t[i])
          PROVE  p \in FramePorts(c, x) \/ \E j \in 1..n : p \in FramePorts(c, s[j])
      BY <1>2, <2>1, <3>3
    <3>4. p \in FramePorts(c, x) => \E i \in 1..n + 1 : p \in FramePorts(c, t[i])
      BY <1>2, <2>3
    <3>5. ASSUME NEW j \in 1..n, p \in FramePorts(c, s[j])
          PROVE  \E i \in 1..n + 1 : p \in FramePorts(c, t[i])
      BY <1>2, <2>2, <3>5
    <3> QED  BY <3>1, <3>2, <3>3, <3>4, <3>5
  <2> QED  BY <2>4
<1> QED  BY <1>6, <1>7, <1>8, <1>9 DEF SpeaksFirst

LEMMA FolderFiles == ConfigFiles = {1, 2, 3}
<1>1. DOMAIN Included = {1, 2} /\ Included[1] = 2 /\ Included[2] = 3
  BY DEF Included
<1>2. ToSet(Included) = {2, 3}
  BY <1>1 DEF ToSet
<1> QED  BY <1>2 DEF ConfigFiles, Main

LEMMA IncludeSays ==
  ASSUME NEW l, l.what = "include", NEW F, NEW k
  PROVE  /\ LineSets(l, k, F) = Either(F[2].values[k], F[3].values[k])
         /\ LinePorts(l, F) = F[2].ports \cup F[3].ports
<1>1. DOMAIN Included = {1, 2} /\ Included[1] = 2 /\ Included[2] = 3 /\ ToSet(Included) = {2, 3}
  <2>1. DOMAIN Included = {1, 2} /\ Included[1] = 2 /\ Included[2] = 3
    BY DEF Included
  <2> QED  BY <2>1 DEF ToSet
<1>2. PICK g : g = [j \in DOMAIN Included |-> F[Included[j]].values[k]]
  OBVIOUS
<1>3. DOMAIN g = {1, 2} /\ g[1] = F[2].values[k] /\ g[2] = F[3].values[k]
  BY <1>1, <1>2
<1>4. FirstIn(g, {1, 2})
  <2>1. {1, 2} \in SUBSET Nat
    OBVIOUS
  <2> QED  BY <1>3, <2>1, FirstIs, Zenon
<1>5. First(g) = Either(g[1], g[2])
  BY <1>4 DEF FirstIn, Either
<1>6. LineSets(l, k, F) = First(g)
  BY <1>2 DEF LineSets
<1>7. LinePorts(l, F) = F[2].ports \cup F[3].ports
  BY <1>1 DEF LinePorts
<1> QED  BY <1>3, <1>5, <1>6, <1>7

LEMMA NothingDeepest ==
  ASSUME NEW c, NEW f \in ConfigFiles
  PROVE  (\A k \in Keywords : Sshd(c)[0][f].values[k] = {}) /\ Sshd(c)[0][f].ports = {}
<1>1. 0 \in 0..MaxSSHDepth + 1
  BY SshAssumptions
<1>2. Sshd(c)[0] = Level(c, 0, Sshd(c)[0 - 1])
  BY <1>1, SshdDefined, Zenon
<1>3. Sshd(c)[0][f] = Silent
  BY <1>2 DEF Level
<1> QED  BY <1>3 DEF Silent

-----------------------------------------------------------------------------
(* SshSetup: the invariant.                                                *)
SshType ==
    /\ Written(content) /\ may \in [ConfigFiles \cup {Folder} -> {"read", "denied", "broken"}]
    /\ frames \in Seq(Frames) /\ begun \in Nat
    /\ DOMAIN values \subseteq Keywords /\ sshBlocked \in BOOLEAN
    /\ IsFiniteSet(ports) /\ Cardinality(ports) <= MaxSSHPorts

\* What is decided is what sshd has; and while nothing was left unread, what
\* the open files have still to say completes it.
DecidedRight ==
    \A k \in DOMAIN values : {values[k]} = WholeConfig.values[k] /\ values[k] # "unknown"
RestRight ==
    /\ \A k \in Keywords \ DOMAIN values : StackValue(content, frames, k) = WholeConfig.values[k]
    /\ ports \cup StackPorts(content, frames) \subseteq WholeConfig.ports
    /\ \/ Cardinality(ports) = MaxSSHPorts
       \/ ports \cup StackPorts(content, frames) = WholeConfig.ports
SshRight ==
    /\ DecidedRight
    /\ ~sshBlocked => RestRight
    /\ sshBlocked => \E f \in DOMAIN may : may[f] # "read"

SshInv ==
    /\ SshType /\ (frames # <<>> => ssh = NoSetup)
    /\ begun <= MaxSSHFiles => SshRight
    /\ SshNeverGuessed

LEMMA EmptyStack ==
  ASSUME NEW c, NEW k
  PROVE  StackValue(c, <<>>, k) = {} /\ StackPorts(c, <<>>) = {}
<1>1. PICK s : s = <<>> /\ DOMAIN s = {}
  OBVIOUS
<1>2. PICK g : g = [i \in DOMAIN s |-> FrameValue(c, s[i], k)]
  OBVIOUS
<1>3. {i \in DOMAIN g : g[i] # {}} = {}
  BY <1>1, <1>2
<1>4. First(g) = {}
  BY <1>3 DEF First
<1> QED  BY <1>1, <1>2, <1>4 DEF StackValue, StackPorts

LEMMA TopOfStack ==
  ASSUME frames \in Seq(Frames), frames # <<>>
  PROVE  /\ Top \in Frames /\ Tail(frames) \in Seq(Frames) /\ frames = <<Top>> \o Tail(frames)
<1>1. PICK s \in Seq(Frames) : s = frames /\ s # <<>>
  OBVIOUS
<1>2. Head(s) \in Frames /\ Tail(s) \in Seq(Frames) /\ s = <<Head(s)>> \o Tail(s)
  BY <1>1
<1> QED  BY <1>1, <1>2 DEF Top

\* The files s have the same to say as those that are open.
SameRest(s) ==
    /\ \A k \in Keywords : StackValue(content, s, k) = StackValue(content, frames, k)
    /\ StackPorts(content, s) = StackPorts(content, frames)
SameFrame(y) ==
    /\ \A k \in Keywords : FrameValue(content, y, k) = FrameValue(content, Top, k)
    /\ FramePorts(content, y) = FramePorts(content, Top)
SilentFrame ==
    /\ \A k \in Keywords : FrameValue(content, Top, k) = {}
    /\ FramePorts(content, Top) = {}

\* Nothing is decided: what is left says the same, or is known to be unknown.
LEMMA SaysTheSame ==
  ASSUME SshInv, frames # <<>>, UNCHANGED <<content, may, values, ports, ssh>>,
         begun' \in {begun, begun + 1}, frames' \in Seq(Frames), sshBlocked' \in BOOLEAN,
         sshBlocked => sshBlocked',
         sshBlocked' /\ ~sshBlocked => \E f \in DOMAIN may : may[f] # "read",
         begun' <= MaxSSHFiles /\ ~sshBlocked' => SameRest(frames')
  PROVE  SshInv'
<1>1. SshType /\ ssh = NoSetup /\ begun \in Nat
  BY DEF SshInv, SshType
<1>2. SshType'
  BY <1>1 DEF SshType
<1>3. ASSUME begun' <= MaxSSHFiles PROVE SshRight'
  <2>1. begun <= MaxSSHFiles
    BY <1>1, <1>3, SshAssumptions
  <2>2. SshRight
    BY <2>1 DEF SshInv
  <2>3. WholeConfig' = WholeConfig
    BY DEF WholeConfig
  <2>4. DecidedRight'
    BY <2>2, <2>3 DEF SshRight, DecidedRight
  <2>5. ASSUME ~sshBlocked' PROVE RestRight'
    <3>1. RestRight
      BY <2>2, <2>5 DEF SshRight
    <3>2. /\ \A k \in Keywords : StackValue(content', frames', k) = StackValue(content, frames, k)
          /\ StackPorts(content', frames') = StackPorts(content, frames)
      BY <1>3, <2>5 DEF SameRest
    <3> QED  BY <2>3, <3>1, <3>2 DEF RestRight
  <2>6. sshBlocked' => \E f \in DOMAIN may' : may'[f] # "read"
    BY <2>2 DEF SshRight
  <2> QED  BY <2>4, <2>5, <2>6 DEF SshRight
<1>4. SshNeverGuessed'
  BY <1>1 DEF SshNeverGuessed, NoSetup
<1> QED  BY <1>1, <1>2, <1>3, <1>4 DEF SshInv

\* The innermost file gives way to one that says the same, or has no more to say.
LEMMA TopReplaced ==
  ASSUME frames \in Seq(Frames), frames # <<>>, NEW y \in Frames, SameFrame(y)
  PROVE  SameRest(<<y>> \o Tail(frames))
<1>1. Top \in Frames /\ Tail(frames) \in Seq(Frames) /\ frames = <<Top>> \o Tail(frames)
  BY TopOfStack
<1>2. PICK r \in Seq(Frames) : r = Tail(frames) /\ frames = <<Top>> \o r
  BY <1>1
<1>3. PICK s : s = <<y>> \o r
  OBVIOUS
<1>4. \A k : SpeaksFirst(content, s, y, r, k)
  BY <1>3, StackStep, Zenon
<1>5. \A k : SpeaksFirst(content, frames, Top, r, k)
  BY <1>1, <1>2, StackStep, Zenon
<1>6. SameRest(s)
  BY <1>4, <1>5 DEF SpeaksFirst, SameFrame, SameRest
<1> QED  BY <1>2, <1>3, <1>6

LEMMA TopRemoved ==
  ASSUME frames \in Seq(Frames), frames # <<>>, SilentFrame
  PROVE  SameRest(Tail(frames))
<1>1. Top \in Frames /\ Tail(frames) \in Seq(Frames) /\ frames = <<Top>> \o Tail(frames)
  BY TopOfStack
<1>2. PICK r \in Seq(Frames) : r = Tail(frames) /\ frames = <<Top>> \o r
  BY <1>1
<1>3. \A k : SpeaksFirst(content, frames, Top, r, k)
  BY <1>1, <1>2, StackStep, Zenon
<1>4. SameRest(r)
  BY <1>3 DEF SpeaksFirst, SilentFrame, SameRest, Either
<1> QED  BY <1>2, <1>4

LEMMA NextFrame ==
  ASSUME frames \in Seq(Frames), frames # <<>>, NEW b \in BOOLEAN
  PROVE  \E y \in Frames : /\ NextLine(b) = <<y>> \o Tail(frames) /\ NextLine(b) \in Seq(Frames)
                           /\ y.file = Top.file /\ y.line = Top.line + 1
                           /\ y.inMatch = b /\ y.depth = Top.depth
<1>1. Top \in Frames /\ Tail(frames) \in Seq(Frames)
  BY TopOfStack
<1>2. PICK y : y = [Top EXCEPT !.line = Top.line + 1, !.inMatch = b]
  OBVIOUS
<1>3. y \in Frames /\ y.file = Top.file /\ y.line = Top.line + 1 /\ y.inMatch = b /\ y.depth = Top.depth
  <2>1. PICK x \in Frames : x = Top
    BY <1>1
  <2>2. x.line + 1 \in Nat /\ y = [x EXCEPT !.line = x.line + 1, !.inMatch = b]
    BY <1>2, <2>1 DEF Frames
  <2> QED  BY <2>1, <2>2 DEF Frames
<1>4. NextLine(b) = <<y>> \o Tail(frames)
  BY <1>2 DEF NextLine
<1>5. <<y>> \o Tail(frames) \in Seq(Frames)
  <2>1. <<y>> \in Seq(Frames)
    BY <1>3
  <2> QED  BY <1>1, <2>1, ConcatProperties
<1> QED  BY <1>3, <1>4, <1>5

LEMMA SshInitInv == SshInit => SshInv
<1> SUFFICES ASSUME SshInit PROVE SshInv
  OBVIOUS
<1>1. Written(content)
  <2>1. PICK m \in Mains, d \in DropIns, e \in DropIns :
            content = [f \in ConfigFiles |-> IF f = Main THEN m ELSE IF f = 2 THEN d ELSE e]
    BY DEF SshInit, SshWorld
  <2>2. \A f \in ConfigFiles : content[f] \in Mains \cup DropIns
    BY <2>1
  <2> QED  BY <2>2, SshAssumptions DEF Written
<1>2. PICK x : x = Frame(Main, FALSE, 0)
  OBVIOUS
<1>3. x \in Frames /\ x.line = 0 /\ ~x.inMatch /\ x.depth = 0 /\ x.file = Main
  <2>1. x = [file |-> Main, line |-> 0, inMatch |-> FALSE, depth |-> 0]
    BY <1>2 DEF Frame
  <2>2. Main \in ConfigFiles /\ 0 \in 0..MaxSSHDepth
    BY SshAssumptions DEF ConfigFiles
  <2> QED  BY <2>1, <2>2 DEF Frames
<1>4. frames = <<x>> /\ frames \in Seq(Frames) /\ frames = <<x>> \o <<>> /\ <<>> \in Seq(Frames)
  <2>1. frames = <<x>>
    BY <1>2 DEF SshInit, SshStart
  <2> QED  BY <1>3, <2>1
<1>5. SshType /\ ssh = NoSetup
  <2>1. DOMAIN values = {}
    <3>1. values = <<>>
      BY DEF SshInit, SshStart
    <3> QED  BY <3>1
  <2>2. may \in [ConfigFiles \cup {Folder} -> {"read", "denied", "broken"}]
    BY DEF SshInit, SshWorld
  <2>3. begun \in Nat /\ sshBlocked \in BOOLEAN /\ ssh = NoSetup
    BY DEF SshInit, SshStart
  <2>4. IsFiniteSet(ports) /\ Cardinality(ports) <= MaxSSHPorts
    <3>1. ports = {}
      BY DEF SshInit, SshStart
    <3>2. IsFiniteSet(ports) /\ Cardinality(ports) = 0
      BY <3>1, FS_EmptySet
    <3> QED  BY <3>2, SshAssumptions
  <2> QED  BY <1>1, <1>4, <2>1, <2>2, <2>3, <2>4 DEF SshType
<1>6. DecidedRight /\ sshBlocked = FALSE /\ ports = {}
  <2>1. DOMAIN values = {}
    <3>1. values = <<>>
      BY DEF SshInit, SshStart
    <3> QED  BY <3>1
  <2> QED  BY <2>1 DEF DecidedRight, SshInit, SshStart
<1>7. ASSUME NEW k PROVE SpeaksFirst(content, frames, x, <<>>, k)
  BY <1>3, <1>4, StackStep, Zenon
<1>8. \A k : StackValue(content, <<>>, k) = {} /\ StackPorts(content, <<>>) = {}
  BY EmptyStack
<1>9. \A k : StackValue(content, frames, k) = FrameValue(content, x, k) /\ StackPorts(content, frames) = FramePorts(content, x)
  BY <1>7, <1>8 DEF SpeaksFirst, Either
<1>10. MaxSSHDepth - x.depth + 1 = MaxSSHDepth + 1
  BY <1>3, SshAssumptions
<1>11. \A k \in Keywords : StackValue(content, frames, k) = WholeConfig.values[k] 
  <2> SUFFICES ASSUME NEW k \in Keywords PROVE FrameValue(content, x, k) = WholeConfig.values[k]
    BY <1>9
  <2>1. FrameValue(content, x, k) = Sshd(content)[MaxSSHDepth - x.depth + 1][x.file].values[k]
    BY <1>1, <1>3, FrameBegins DEF BeginsAs
  <2> QED  BY <1>3, <1>10, <2>1 DEF WholeConfig
<1>12. StackPorts(content, frames) = WholeConfig.ports
  <2>1. FramePorts(content, x) = Sshd(content)[MaxSSHDepth - x.depth + 1][x.file].ports
    BY <1>1, <1>3, FrameBegins DEF BeginsAs
  <2> QED  BY <1>3, <1>9, <1>10, <2>1 DEF WholeConfig
<1>13. RestRight
  BY <1>6, <1>11, <1>12 DEF RestRight
<1>14. SshNeverGuessed
  BY <1>5 DEF SshNeverGuessed, NoSetup
<1> QED  BY <1>5, <1>6, <1>13, <1>14 DEF SshInv, SshRight

LEMMA OpenFileInv ==
  ASSUME SshInv, OpenFile PROVE SshInv'
<1>1. frames \in Seq(Frames) /\ frames # <<>> /\ Written(content) /\ begun \in Nat /\ sshBlocked \in BOOLEAN
  BY DEF SshInv, SshType, OpenFile
<1>2. Top \in Frames /\ Tail(frames) \in Seq(Frames) /\ Top.line = 0 /\ Top.inMatch \in BOOLEAN
  BY <1>1, TopOfStack DEF OpenFile, Frames
<1>3. UNCHANGED <<content, may, values, ports, ssh>> /\ begun' \in {begun, begun + 1}
  BY DEF OpenFile
<1>4. CASE begun' > MaxSSHFiles
  <2>1. frames' = Tail(frames) /\ sshBlocked' = sshBlocked /\ ~(begun' <= MaxSSHFiles)
    BY <1>1, <1>3, <1>4, SshAssumptions DEF OpenFile
  <2> QED  BY <1>1, <1>2, <1>3, <2>1, SaysTheSame
<1>5. CASE ~(begun' > MaxSSHFiles) /\ may[Top.file] = "denied"
  <2>1. frames' = Tail(frames) /\ sshBlocked' = (sshBlocked \/ ~Top.inMatch)
    BY <1>5 DEF OpenFile, CannotRead
  <2>2. \E f \in DOMAIN may : may[f] # "read"
    <3>1. Top.file \in DOMAIN may
      BY <1>2 DEF SshInv, SshType, Frames
    <3> QED  BY <1>5, <3>1
  <2>3. ASSUME ~sshBlocked' PROVE SameRest(frames')
    <3>1. Top.inMatch
      BY <1>2, <2>1, <2>3
    <3>2. SilentFrame
      BY <3>1, FrameEnds DEF SilentFrame
    <3>3. SameRest(Tail(frames))
      BY <1>1, <3>2, TopRemoved
    <3> QED  BY <2>1, <3>3
  <2> QED  BY <1>1, <1>2, <1>3, <2>1, <2>2, <2>3, SaysTheSame
<1>6. CASE ~(begun' > MaxSSHFiles) /\ may[Top.file] # "denied"
  <2>1. frames' = NextLine(Top.inMatch) /\ sshBlocked' = sshBlocked
    BY <1>6 DEF OpenFile
  <2>2. PICK y \in Frames : /\ frames' = <<y>> \o Tail(frames) /\ frames' \in Seq(Frames)
                            /\ y.file = Top.file /\ y.line = Top.line + 1
                            /\ y.inMatch = Top.inMatch /\ y.depth = Top.depth
    BY <1>1, <1>2, <2>1, NextFrame
  <2>3. PICK t : t = content[Top.file] /\ Len(t) \in Nat /\ DOMAIN t = 1..Len(t)
    BY <1>1, <1>2 DEF Written, Frames
  <2>4. Ahead(t, 0) = Ahead(t, 1)
    <3>1. 0 \in Nat
      OBVIOUS
    <3>2. Ahead(t, 0) = ForAll(t) /\ Ahead(t, 1) = ForAll(t)
      BY <2>3, <3>1, AheadShape
    <3> QED  BY <3>2
  <2>5. Ahead(content[y.file], y.line) = Ahead(content[Top.file], Top.line)
    BY <1>2, <2>2, <2>3, <2>4
  <2>6. FolderOf(content, y) = FolderOf(content, Top)
    BY <2>2 DEF FolderOf
  <2>7. ASSUME NEW k PROVE FrameValue(content, y, k) = FrameValue(content, Top, k)
    <3>1. content[y.file] = content[Top.file]
      BY <2>2
    <3> QED  BY <2>2, <2>5, <2>6, <3>1 DEF FrameValue
  <2>8. FramePorts(content, y) = FramePorts(content, Top)
    BY <2>2, <2>5, <2>6 DEF FramePorts
  <2>9. SameFrame(y)
    BY <2>7, <2>8 DEF SameFrame
  <2>10. SameRest(frames')
    BY <1>1, <2>2, <2>9, TopReplaced
  <2> QED  BY <1>1, <1>3, <2>1, <2>2, <2>10, SaysTheSame
<1> QED  BY <1>4, <1>5, <1>6

\* What a step at a line of the innermost file starts from.
LineRead(what) ==
    /\ frames \in Seq(Frames) /\ frames # <<>> /\ Written(content) /\ begun \in Nat
    /\ sshBlocked \in BOOLEAN
    /\ Top \in Frames /\ Tail(frames) \in Seq(Frames) /\ Top.inMatch \in BOOLEAN
    /\ Top.line \in 1..Len(content[Top.file]) /\ Line.what = what

LEMMA AtLineRead ==
  ASSUME SshInv, NEW w, AtLine(w) PROVE LineRead(w)
<1>1. frames \in Seq(Frames) /\ frames # <<>> /\ Written(content) /\ begun \in Nat /\ sshBlocked \in BOOLEAN
  BY DEF SshInv, SshType, AtLine
<1>2. Top \in Frames /\ Tail(frames) \in Seq(Frames) /\ Top.inMatch \in BOOLEAN /\ Top.file \in ConfigFiles
  BY <1>1, TopOfStack DEF Frames
<1>3. PICK n \in Nat : n = Len(content[Top.file])
  BY <1>1, <1>2 DEF Written
<1>4. Top.line \in 1..n
  <2>1. LinesRead(Top.file) \in {n, n - 1}
    BY <1>3 DEF LinesRead
  <2>2. Top.line \in 1..LinesRead(Top.file) /\ Top.line \in Nat
    BY <1>2 DEF AtLine, Frames
  <2> QED  BY <2>1, <2>2
<1> QED  BY <1>1, <1>2, <1>3, <1>4 DEF AtLine, LineRead

LEMMA BeginMatchInv ==
  ASSUME SshInv, BeginMatch PROVE SshInv'
<1>1. LineRead("match")
  BY AtLineRead, Zenon DEF BeginMatch
<1> USE DEF LineRead
<1>2. PICK y \in Frames : /\ NextLine(TRUE) = <<y>> \o Tail(frames) /\ NextLine(TRUE) \in Seq(Frames)
                          /\ y.inMatch = TRUE
  BY <1>1, NextFrame
<1>3. frames' = NextLine(TRUE) /\ UNCHANGED <<content, may, values, ports, ssh, begun, sshBlocked>>
  BY DEF BeginMatch
<1>4. Ahead(content[Top.file], Top.line) = {}
  <2>1. PICK t : t = content[Top.file] /\ Len(t) \in Nat /\ DOMAIN t = 1..Len(t)
    BY <1>1 DEF Written, Frames
  <2>2. PICK n \in Nat : n = Top.line /\ n \in 1..Len(t) /\ t[n].what = "match"
    BY <1>1, <2>1 DEF Line, Frames
  <2>3. Ahead(t, n) = {}
    BY <2>1, <2>2, AheadShape
  <2> QED  BY <2>1, <2>2, <2>3
<1>5. \A k : FrameValue(content, Top, k) = {} /\ FramePorts(content, Top) = {}
  BY <1>4, FrameEnds
<1>6. \A k : FrameValue(content, y, k) = {} /\ FramePorts(content, y) = {}
  BY <1>2, FrameEnds
<1>7. SameFrame(y)
  BY <1>5, <1>6 DEF SameFrame
<1>8. SameRest(frames')
  BY <1>1, <1>2, <1>3, <1>7, TopReplaced
<1> QED  BY <1>1, <1>2, <1>3, <1>8, SaysTheSame

LEMMA EndOfFileInv ==
  ASSUME SshInv, EndOfFile PROVE SshInv'
<1>1. frames \in Seq(Frames) /\ frames # <<>> /\ Written(content) /\ begun \in Nat /\ sshBlocked \in BOOLEAN
  BY DEF SshInv, SshType, EndOfFile
<1>2. Top \in Frames /\ Tail(frames) \in Seq(Frames) /\ Top.inMatch \in BOOLEAN /\ Top.file \in ConfigFiles
  BY <1>1, TopOfStack DEF Frames
<1>3. frames' = Tail(frames) /\ UNCHANGED <<content, may, values, ports, ssh, begun>>
  BY DEF EndOfFile
<1>4. CASE may[Top.file] = "broken"
  <2>1. sshBlocked' = (sshBlocked \/ ~Top.inMatch)
    BY <1>4 DEF EndOfFile, CannotRead
  <2>2. \E f \in DOMAIN may : may[f] # "read"
    <3>1. Top.file \in DOMAIN may
      BY <1>2 DEF SshInv, SshType
    <3> QED  BY <1>4, <3>1
  <2>3. ASSUME ~sshBlocked' PROVE SameRest(frames')
    <3>1. Top.inMatch
      BY <1>2, <2>1, <2>3
    <3>2. SilentFrame
      BY <3>1, FrameEnds DEF SilentFrame
    <3>3. SameRest(Tail(frames))
      BY <1>1, <3>2, TopRemoved
    <3> QED  BY <1>3, <3>3
  <2> QED  BY <1>1, <1>2, <1>3, <2>1, <2>2, <2>3, SaysTheSame
<1>5. CASE may[Top.file] # "broken"
  <2>1. sshBlocked' = sshBlocked
    BY <1>5 DEF EndOfFile
  <2>2. PICK t : t = content[Top.file] /\ Len(t) \in Nat /\ DOMAIN t = 1..Len(t)
    BY <1>1, <1>2 DEF Written
  <2>3. PICK n \in Nat : n = Top.line
    BY <1>2 DEF Frames
  <2>4. PICK l \in Nat : l = Len(t)
    BY <2>2
  <2>5. n > Max({0, l})
    BY <1>5, <2>2, <2>3, <2>4 DEF EndOfFile, LinesRead
  <2>6. Max({0, l}) = l
    BY <2>4 DEF Max
  <2>7. Ahead(t, n) = {}
    BY <2>2, <2>4, <2>5, <2>6, AheadShape
  <2>8. SilentFrame
    BY <2>2, <2>3, <2>7, FrameEnds DEF SilentFrame
  <2>9. SameRest(Tail(frames))
    BY <1>1, <2>8, TopRemoved
  <2> QED  BY <1>1, <1>2, <1>3, <2>1, <2>9, SaysTheSame
<1> QED  BY <1>4, <1>5

\* The next line of the innermost file, with what this one says before it.
NextIs(y) ==
    /\ y \in Frames /\ NextLine(Top.inMatch) = <<y>> \o Tail(frames)
    /\ NextLine(Top.inMatch) \in Seq(Frames) /\ y.inMatch = Top.inMatch
    /\ \A k : FrameValue(content, Top, k) = Either(LineValue(content, Top, k), FrameValue(content, y, k))
    /\ FramePorts(content, Top) = LinePortsOf(content, Top) \cup FramePorts(content, y)

LEMMA NextLineIs ==
  ASSUME NEW w, LineRead(w), w # "match" PROVE \E y : NextIs(y)
<1>1. PICK y \in Frames : /\ NextLine(Top.inMatch) = <<y>> \o Tail(frames)
                          /\ NextLine(Top.inMatch) \in Seq(Frames)
                          /\ y.file = Top.file /\ y.line = Top.line + 1
                          /\ y.inMatch = Top.inMatch /\ y.depth = Top.depth
  BY NextFrame DEF LineRead
<1>2. Written(content) /\ Top \in Frames /\ Top.line \in 1..Len(content[Top.file])
  BY DEF LineRead
<1>3. content[Top.file][Top.line].what # "match"
  BY DEF LineRead, Line
<1>4. ASSUME NEW k
      PROVE  /\ FrameValue(content, Top, k) = Either(LineValue(content, Top, k), FrameValue(content, y, k))
             /\ FramePorts(content, Top) = LinePortsOf(content, Top) \cup FramePorts(content, y)
  BY <1>1, <1>2, <1>3, FrameStep
<1> QED  BY <1>1, <1>4 DEF NextIs

\* A line that says nothing.
LEMMA SilentLine ==
  ASSUME NEW w, LineRead(w), NEW y, NextIs(y),
         \A k \in Keywords : LineValue(content, Top, k) = {}, LinePortsOf(content, Top) = {}
  PROVE  SameRest(NextLine(Top.inMatch))
<1>1. SameFrame(y)
  BY DEF NextIs, SameFrame, Either
<1>2. y \in Frames /\ frames \in Seq(Frames) /\ frames # <<>>
  BY DEF NextIs, LineRead
<1>3. SameRest(<<y>> \o Tail(frames))
  BY <1>1, <1>2, TopReplaced
<1> QED  BY <1>3 DEF NextIs

LEMMA TwoInFront ==
  ASSUME NEW S, NEW a \in S, NEW b \in S
  PROVE  <<a, b>> = <<a>> \o <<b>>
<1>1. PICK p, q : p = <<a>> /\ q = <<b>>
  OBVIOUS
<1>2. p \in Seq(S) /\ q \in Seq(S) /\ Len(p) = 1 /\ Len(q) = 1 /\ p[1] = a /\ q[1] = b
  BY <1>1
<1>3. /\ p \o q \in Seq(S) /\ Len(p \o q) = 2
      /\ \A i \in 1..2 : (p \o q)[i] = IF i <= 1 THEN p[i] ELSE q[i - 1]
  BY <1>2, ConcatProperties
<1>4. p \o q = <<a, b>>
  <2>1. <<a, b>> \in Seq(S) /\ Len(<<a, b>>) = 2 /\ <<a, b>>[1] = a /\ <<a, b>>[2] = b
    OBVIOUS
  <2>2. (p \o q)[1] = a /\ (p \o q)[2] = b
    BY <1>2, <1>3
  <2>3. \A i \in 1..2 : i = 1 \/ i = 2
    OBVIOUS
  <2>4. \A i \in 1..Len(p \o q) : (p \o q)[i] = <<a, b>>[i]
    BY <1>3, <2>1, <2>2, <2>3
  <2> QED  BY <1>3, <2>1, <2>4, SeqEqual
<1> QED  BY <1>1, <1>4

\* The folder's files say what the Include says.
LEMMA FolderFirst ==
  ASSUME LineRead("include"), NEW y, NextIs(y), ~(Top.depth + 1 > MaxSSHDepth),
         NEW inc, inc = [i \in DOMAIN Included |-> Frame(Included[i], Top.inMatch, Top.depth + 1)]
  PROVE  inc \o NextLine(Top.inMatch) \in Seq(Frames) /\ SameRest(inc \o NextLine(Top.inMatch))
<1> DEFINE N == NextLine(Top.inMatch)
<1>0. PICK d \in Nat : d = Top.depth /\ d + 1 \in 0..MaxSSHDepth
  BY SshAssumptions DEF LineRead, Frames
<1>1. PICK a, b : a = Frame(2, Top.inMatch, d + 1) /\ b = Frame(3, Top.inMatch, d + 1)
  OBVIOUS
<1>2. /\ a \in Frames /\ a.line = 0 /\ a.inMatch = Top.inMatch /\ a.depth = d + 1 /\ a.file = 2
      /\ b \in Frames /\ b.line = 0 /\ b.inMatch = Top.inMatch /\ b.depth = d + 1 /\ b.file = 3
  <2>1. /\ a = [file |-> 2, line |-> 0, inMatch |-> Top.inMatch, depth |-> d + 1]
        /\ b = [file |-> 3, line |-> 0, inMatch |-> Top.inMatch, depth |-> d + 1]
    BY <1>1 DEF Frame
  <2>2. 2 \in ConfigFiles /\ 3 \in ConfigFiles
    BY FolderFiles
  <2>3. Top.inMatch \in BOOLEAN
    BY DEF LineRead
  <2> QED  BY <1>0, <2>1, <2>2, <2>3 DEF Frames
<1>3. inc = <<a, b>>
  BY <1>0, <1>1 DEF Included
<1>4. N \in Seq(Frames) /\ Tail(frames) \in Seq(Frames) /\ N = <<y>> \o Tail(frames) /\ y \in Frames
  BY DEF NextIs, LineRead
<1> HIDE DEF N
<1>5. PICK B \in Seq(Frames) : B = <<b>> \o N
  <2>1. <<b>> \in Seq(Frames)
    BY <1>2
  <2> QED  BY <1>4, <2>1, ConcatProperties
<1>6. PICK A \in Seq(Frames) : A = <<a>> \o B
  <2>1. <<a>> \in Seq(Frames)
    BY <1>2
  <2> QED  BY <2>1, ConcatProperties
<1>7. inc \o N = A
  <2>0. <<a, b>> = <<a>> \o <<b>>
    BY <1>2, TwoInFront
  <2>1. <<a>> \in Seq(Frames) /\ <<b>> \in Seq(Frames) /\ <<a, b>> = <<a>> \o <<b>>
    BY <1>2, <2>0
  <2>2. (<<a>> \o <<b>>) \o N = <<a>> \o (<<b>> \o N)
    BY <1>4, <2>1, ConcatAssociative
  <2> QED  BY <1>3, <1>5, <1>6, <2>1, <2>2
<1>8. \A k : SpeaksFirst(content, A, a, B, k)
  BY <1>2, <1>6, StackStep, Zenon
<1>9. \A k : SpeaksFirst(content, B, b, N, k)
  BY <1>2, <1>4, <1>5, StackStep, Zenon
<1>10. \A k : SpeaksFirst(content, N, y, Tail(frames), k)
  BY <1>4, StackStep, Zenon
<1>11. \A k : SpeaksFirst(content, frames, Top, Tail(frames), k)
  <2>1. Top \in Frames /\ Tail(frames) \in Seq(Frames) /\ frames = <<Top>> \o Tail(frames)
    BY TopOfStack DEF LineRead
  <2> QED  BY <2>1, StackStep, Zenon
<1>12. /\ \A k \in Keywords :
            LineValue(content, Top, k) = Either(FrameValue(content, a, k), FrameValue(content, b, k))
       /\ LinePortsOf(content, Top) = FramePorts(content, a) \cup FramePorts(content, b)
  <2>1. CASE Top.inMatch
    <3>1. \A k : /\ FrameValue(content, a, k) = {} /\ FramePorts(content, a) = {}
                 /\ FrameValue(content, b, k) = {} /\ FramePorts(content, b) = {}
      BY <1>2, <2>1, FrameEnds
    <3> QED  BY <2>1, <3>1 DEF LineValue, LinePortsOf, Either
  <2>2. CASE ~Top.inMatch
    <3>0. MaxSSHDepth \in Nat /\ d \in 0..MaxSSHDepth
      BY <1>0, SshAssumptions
    <3>1. PICK e \in 0..MaxSSHDepth : e = MaxSSHDepth - d /\ MaxSSHDepth - (d + 1) + 1 = e
      BY <3>0
    <3>2. PICK F : F = Sshd(content)[e]
      OBVIOUS
    <3>3. Written(content)
      BY DEF LineRead
    <3>4. ASSUME NEW k
          PROVE  /\ k \in Keywords => FrameValue(content, a, k) = F[2].values[k]
                 /\ FramePorts(content, a) = F[2].ports
      <4>0. a \in Frames /\ a.line \in {0, 1} /\ ~a.inMatch
        BY <1>2, <2>2
      <4>1. BeginsAs(content, a, k, Sshd(content)[MaxSSHDepth - a.depth + 1][a.file])
        BY <3>3, <4>0, FrameBegins, Zenon
      <4>2. MaxSSHDepth - a.depth + 1 = e
        BY <1>2, <3>1
      <4> QED  BY <1>2, <3>2, <4>1, <4>2 DEF BeginsAs
    <3>5. ASSUME NEW k
          PROVE  /\ k \in Keywords => FrameValue(content, b, k) = F[3].values[k]
                 /\ FramePorts(content, b) = F[3].ports
      <4>0. b \in Frames /\ b.line \in {0, 1} /\ ~b.inMatch
        BY <1>2, <2>2
      <4>1. BeginsAs(content, b, k, Sshd(content)[MaxSSHDepth - b.depth + 1][b.file])
        BY <3>3, <4>0, FrameBegins, Zenon
      <4>2. MaxSSHDepth - b.depth + 1 = e
        BY <1>2, <3>1
      <4> QED  BY <1>2, <3>2, <4>1, <4>2 DEF BeginsAs
    <3>6. FolderOf(content, Top) = F
      BY <1>0, <3>1, <3>2 DEF FolderOf
    <3>7. ASSUME NEW k
          PROVE  /\ LineValue(content, Top, k) = Either(F[2].values[k], F[3].values[k])
                 /\ LinePortsOf(content, Top) = F[2].ports \cup F[3].ports
      <4>1. PICK l : l = content[Top.file][Top.line] /\ l.what = "include"
        BY DEF LineRead, Line
      <4>2. /\ LineSets(l, k, F) = Either(F[2].values[k], F[3].values[k])
            /\ LinePorts(l, F) = F[2].ports \cup F[3].ports
        BY <4>1, IncludeSays
      <4> QED  BY <2>2, <3>6, <4>1, <4>2 DEF LineValue, LinePortsOf
    <3> QED  BY <3>4, <3>5, <3>7
  <2> QED  BY <2>1, <2>2
<1>13. ASSUME NEW k \in Keywords PROVE StackValue(content, A, k) = StackValue(content, frames, k)
  <2>1. PICK u, v, x, z : /\ u = FrameValue(content, a, k) /\ v = FrameValue(content, b, k)
                          /\ x = FrameValue(content, y, k) /\ z = StackValue(content, Tail(frames), k)
    OBVIOUS
  <2>2. StackValue(content, A, k) = Either(u, Either(v, Either(x, z)))
    BY <1>8, <1>9, <1>10, <2>1 DEF SpeaksFirst
  <2>3. StackValue(content, frames, k) = Either(Either(Either(u, v), x), z)
    BY <1>11, <1>12, <2>1 DEF SpeaksFirst, NextIs
  <2> QED  BY <2>2, <2>3 DEF Either
<1>14. StackPorts(content, A) = StackPorts(content, frames)
  <2>1. PICK u, v, x, z : /\ u = FramePorts(content, a) /\ v = FramePorts(content, b)
                          /\ x = FramePorts(content, y) /\ z = StackPorts(content, Tail(frames))
    OBVIOUS
  <2>2. StackPorts(content, A) = u \cup (v \cup (x \cup z))
    BY <1>8, <1>9, <1>10, <2>1 DEF SpeaksFirst
  <2>3. StackPorts(content, frames) = ((u \cup v) \cup x) \cup z
    BY <1>11, <1>12, <2>1 DEF SpeaksFirst, NextIs
  <2> QED  BY <2>2, <2>3
<1>15. SameRest(A)
  BY <1>13, <1>14 DEF SameRest
<1> QED  BY <1>7, <1>15 DEF N

LEMMA IncludeInv ==
  ASSUME SshInv, Include PROVE SshInv'
<1>1. LineRead("include")
  BY AtLineRead, Zenon DEF Include
<1>2. PICK y : NextIs(y)
  BY <1>1, NextLineIs
<1>3. UNCHANGED <<content, may, values, ports, ssh, begun>>
  BY DEF Include
<1>4. /\ frames # <<>> /\ sshBlocked \in BOOLEAN /\ begun \in Nat /\ Top.inMatch \in BOOLEAN
      /\ Top \in Frames /\ NextLine(Top.inMatch) \in Seq(Frames)
  BY <1>1, <1>2 DEF LineRead, NextIs
<1>5. PICK l : l = content[Top.file][Top.line] /\ l.what = "include"
  BY <1>1 DEF LineRead, Line
<1>6. CASE Top.depth + 1 > MaxSSHDepth
  <2>1. frames' = NextLine(Top.inMatch) /\ sshBlocked' = sshBlocked
    BY <1>6 DEF Include
  <2>2. FolderOf(content, Top) = Sshd(content)[0]
    <3>1. MaxSSHDepth - Top.depth = 0
      BY <1>4, <1>6, SshAssumptions DEF Frames
    <3> QED  BY <3>1 DEF FolderOf
  <2>3. PICK F : F = Sshd(content)[0]
    OBVIOUS
  <2>4. /\ \A k \in Keywords : F[2].values[k] = {} /\ F[3].values[k] = {}
        /\ F[2].ports = {} /\ F[3].ports = {}
    BY <2>3, FolderFiles, NothingDeepest
  <2>5. \A k : /\ LineSets(l, k, F) = Either(F[2].values[k], F[3].values[k])
               /\ LinePorts(l, F) = F[2].ports \cup F[3].ports
    BY <1>5, IncludeSays
  <2>6. \A k \in Keywords : LineSets(l, k, F) = {}
    BY <2>4, <2>5 DEF Either
  <2>7. LinePorts(l, F) = {}
    BY <2>4, <2>5
  <2>8. /\ \A k \in Keywords : LineValue(content, Top, k) = {}
        /\ LinePortsOf(content, Top) = {}
    BY <1>5, <2>2, <2>3, <2>6, <2>7 DEF LineValue, LinePortsOf
  <2>9. SameRest(frames')
    BY <1>1, <1>2, <2>1, <2>8, SilentLine
  <2> QED  BY <1>3, <1>4, <2>1, <2>9, SaysTheSame
<1>7. CASE ~(Top.depth + 1 > MaxSSHDepth) /\ may[Folder] = "denied"
  <2>1. frames' = NextLine(Top.inMatch) /\ sshBlocked' = (sshBlocked \/ ~Top.inMatch)
    BY <1>7 DEF Include, CannotRead
  <2>2. \E f \in DOMAIN may : may[f] # "read"
    <3>1. Folder \in DOMAIN may
      BY DEF SshInv, SshType
    <3> QED  BY <1>7, <3>1
  <2>3. ASSUME ~sshBlocked' PROVE SameRest(frames')
    <3>1. Top.inMatch
      BY <1>4, <2>1, <2>3
    <3>2. /\ \A k \in Keywords : LineValue(content, Top, k) = {}
          /\ LinePortsOf(content, Top) = {}
      BY <3>1 DEF LineValue, LinePortsOf
    <3> QED  BY <1>1, <1>2, <2>1, <3>2, SilentLine
  <2> QED  BY <1>3, <1>4, <2>1, <2>2, <2>3, SaysTheSame
<1>8. CASE ~(Top.depth + 1 > MaxSSHDepth) /\ may[Folder] # "denied"
  <2>1. PICK inc : /\ inc = [i \in DOMAIN Included |-> Frame(Included[i], Top.inMatch, Top.depth + 1)]
                   /\ frames' = inc \o NextLine(Top.inMatch) /\ sshBlocked' = sshBlocked
    BY <1>8 DEF Include
  <2>2. frames' \in Seq(Frames) /\ SameRest(frames')
    BY <1>1, <1>2, <1>8, <2>1, FolderFirst
  <2> QED  BY <1>3, <1>4, <2>1, <2>2, SaysTheSame
<1> QED  BY <1>6, <1>7, <1>8

\* What the open files say is what the line says, and then the rest.
LEMMA LineBefore ==
  ASSUME NEW w, LineRead(w), NEW y, NextIs(y), NEW k
  PROVE  /\ StackValue(content, frames, k) =
                Either(LineValue(content, Top, k), StackValue(content, NextLine(Top.inMatch), k))
         /\ StackPorts(content, frames) =
                LinePortsOf(content, Top) \cup StackPorts(content, NextLine(Top.inMatch))
<1>1. PICK N, r : N = NextLine(Top.inMatch) /\ r = Tail(frames)
  OBVIOUS
<1>2. N = <<y>> \o r /\ y \in Frames /\ r \in Seq(Frames) /\ Top \in Frames /\ frames = <<Top>> \o r
  BY <1>1, TopOfStack DEF NextIs, LineRead
<1>3. SpeaksFirst(content, N, y, r, k)
  BY <1>2, StackStep, Zenon
<1>4. SpeaksFirst(content, frames, Top, r, k)
  BY <1>2, StackStep, Zenon
<1>5. /\ FrameValue(content, Top, k) = Either(LineValue(content, Top, k), FrameValue(content, y, k))
      /\ FramePorts(content, Top) = LinePortsOf(content, Top) \cup FramePorts(content, y)
  BY DEF NextIs
<1>6. StackValue(content, frames, k) = Either(LineValue(content, Top, k), StackValue(content, N, k))
  BY <1>3, <1>4, <1>5 DEF SpeaksFirst, Either
<1>7. StackPorts(content, frames) = LinePortsOf(content, Top) \cup StackPorts(content, N)
  BY <1>3, <1>4, <1>5 DEF SpeaksFirst
<1> QED  BY <1>1, <1>6, <1>7

\* A line was taken into account.
LEMMA LineTaken ==
  ASSUME SshInv, NEW w, LineRead(w), NEW y, NextIs(y), frames' = NextLine(Top.inMatch),
         UNCHANGED <<content, may, begun, sshBlocked, ssh>>, DOMAIN values' \subseteq Keywords,
         IsFiniteSet(ports'), Cardinality(ports') <= MaxSSHPorts,
         SshRight => DecidedRight', SshRight /\ ~sshBlocked => RestRight'
  PROVE  SshInv'
<1>1. SshType /\ ssh = NoSetup
  BY DEF SshInv, LineRead
<1>2. SshType'
  BY <1>1 DEF SshType, NextIs
<1>3. begun' <= MaxSSHFiles => SshRight'
  BY DEF SshInv, SshRight
<1>4. SshNeverGuessed'
  BY <1>1 DEF SshNeverGuessed, NoSetup
<1> QED  BY <1>1, <1>2, <1>3, <1>4 DEF SshInv

LEMMA AddPortInv ==
  ASSUME SshInv, AddPort PROVE SshInv'
<1>1. LineRead("port")
  BY AtLineRead, Zenon DEF AddPort
<1>2. PICK y : NextIs(y)
  BY <1>1, NextLineIs
<1>3. /\ UNCHANGED <<content, may, begun, values, sshBlocked, ssh>> /\ frames' = NextLine(Top.inMatch)
      /\ ports' = IF Top.inMatch \/ Cardinality(ports) >= MaxSSHPorts THEN ports
                  ELSE ports \cup {Line.value}
  BY DEF AddPort
<1>4. \A k : LineValue(content, Top, k) = {}
  BY <1>1 DEF LineRead, LineValue, LineSets, Line
<1>5. LinePortsOf(content, Top) = IF Top.inMatch THEN {} ELSE {Line.value}
  BY <1>1 DEF LineRead, LinePortsOf, LinePorts, Line
<1>6. WholeConfig' = WholeConfig
  BY <1>3 DEF WholeConfig
<1>7. DOMAIN values' \subseteq Keywords
  BY <1>3 DEF SshInv, SshType
<1>8. ASSUME SshRight PROVE DecidedRight'
  BY <1>3, <1>6, <1>8 DEF SshRight, DecidedRight
<1>9. /\ IsFiniteSet(ports) /\ Cardinality(ports) \in Nat /\ MaxSSHPorts \in Nat
      /\ Cardinality(ports) <= MaxSSHPorts
  BY FS_CardinalityType, SshAssumptions DEF SshInv, SshType
<1>10. ASSUME SshRight, ~sshBlocked PROVE RestRight'
  <2>1. RestRight
    BY <1>10 DEF SshRight
  <2>2. \A k : StackValue(content', frames', k) = StackValue(content, frames, k)
    <3>1. \A k : StackValue(content, frames, k) =
                Either(LineValue(content, Top, k), StackValue(content, NextLine(Top.inMatch), k))
      BY <1>1, <1>2, LineBefore
    <3> QED  BY <1>3, <1>4, <3>1 DEF Either
  <2>3. StackPorts(content, frames) = LinePortsOf(content, Top) \cup StackPorts(content', frames')
    BY <1>1, <1>2, <1>3, LineBefore
  <2>4. CASE Top.inMatch \/ Cardinality(ports) < MaxSSHPorts
    <3>1. ports' \cup StackPorts(content', frames') = ports \cup StackPorts(content, frames)
      BY <1>3, <1>5, <1>9, <2>3, <2>4
    <3>2. /\ ports \cup StackPorts(content, frames) \subseteq WholeConfig.ports
          /\ \/ Cardinality(ports) = MaxSSHPorts /\ ports' = ports
             \/ ports \cup StackPorts(content, frames) = WholeConfig.ports
      <4>1. Cardinality(ports) = MaxSSHPorts => ports' = ports
        BY <1>3, <1>9
      <4> QED  BY <2>1, <4>1 DEF RestRight
    <3> QED  BY <1>3, <1>6, <2>1, <2>2, <3>1, <3>2 DEF RestRight
  <2>5. CASE ~Top.inMatch /\ ~(Cardinality(ports) < MaxSSHPorts)
    <3>1. ports' = ports /\ Cardinality(ports') = MaxSSHPorts
      BY <1>3, <1>9, <2>5
    <3>2. ports' \cup StackPorts(content', frames') \subseteq WholeConfig.ports
      BY <2>1, <2>3, <3>1 DEF RestRight
    <3> QED  BY <1>3, <1>6, <2>1, <2>2, <3>1, <3>2 DEF RestRight
  <2> QED  BY <2>4, <2>5
<1>11. IsFiniteSet(ports') /\ Cardinality(ports') <= MaxSSHPorts
  <2>1. CASE ports' = ports
    BY <1>9, <2>1
  <2>2. CASE ports' # ports
    <3>1. ports' = ports \cup {Line.value} /\ Cardinality(ports) < MaxSSHPorts
      BY <1>3, <1>9, <2>2
    <3>2. Line.value \notin ports
      BY <2>2, <3>1
    <3>3. IsFiniteSet(ports') /\ Cardinality(ports') = Cardinality(ports) + 1
      BY <1>9, <3>1, <3>2, FS_AddElement
    <3> QED  BY <1>9, <3>1, <3>3
  <2> QED  BY <2>1, <2>2
<1> QED  BY <1>1, <1>2, <1>3, <1>7, <1>8, <1>10, <1>11, LineTaken

LEMMA SetKeywordInv ==
  ASSUME SshInv, SetKeyword PROVE SshInv'
<1>1. LineRead("set")
  BY AtLineRead, Zenon DEF SetKeyword
<1>2. PICK y : NextIs(y)
  BY <1>1, NextLineIs
<1>3. /\ UNCHANGED <<content, may, begun, ports, sshBlocked, ssh>> /\ frames' = NextLine(Top.inMatch)
      /\ values' = IF ~Top.inMatch /\ Decides(Line.key)
                   THEN [k \in DOMAIN values \cup {Line.key} |->
                            IF k = Line.key THEN Line.value ELSE values[k]]
                   ELSE values
  BY DEF SetKeyword
<1>4. Line.key \in Keywords /\ Line.value # "unknown"
  BY <1>1 DEF LineRead, Written, Line, Frames
<1>5. \A k : LineValue(content, Top, k) = IF ~Top.inMatch /\ k = Line.key THEN {Line.value} ELSE {}
  BY <1>1 DEF LineRead, LineValue, LineSets, Line
<1>6. LinePortsOf(content, Top) = {}
  BY <1>1 DEF LineRead, LinePortsOf, LinePorts, Line
<1>7. WholeConfig' = WholeConfig
  BY <1>3 DEF WholeConfig
<1>8. \A k : StackValue(content, frames, k) =
                Either(LineValue(content, Top, k), StackValue(content', frames', k))
  BY <1>1, <1>2, <1>3, LineBefore
<1>9. StackPorts(content', frames') = StackPorts(content, frames)
  BY <1>1, <1>2, <1>3, <1>6, LineBefore
<1>10. DOMAIN values \subseteq Keywords /\ IsFiniteSet(ports') /\ Cardinality(ports') <= MaxSSHPorts
  BY <1>3 DEF SshInv, SshType
<1>11. CASE ~Top.inMatch /\ Decides(Line.key)
  <2>1. values' = [k \in DOMAIN values \cup {Line.key} |-> IF k = Line.key THEN Line.value ELSE values[k]]
    BY <1>3, <1>11
  <2>2. /\ DOMAIN values' = DOMAIN values \cup {Line.key} /\ values'[Line.key] = Line.value
        /\ \A k \in DOMAIN values : k # Line.key /\ values'[k] = values[k]
    BY <1>11, <2>1 DEF Decides
  <2>3. Line.key \in Keywords \ DOMAIN values /\ ~sshBlocked
    BY <1>4, <1>11 DEF Decides
  <2>4. ASSUME SshRight PROVE DecidedRight' /\ RestRight'
    <3>1. RestRight /\ DecidedRight
      BY <2>3, <2>4 DEF SshRight
    <3>2. StackValue(content, frames, Line.key) = {Line.value}
      BY <1>5, <1>8, <1>11 DEF Either
    <3>3. {Line.value} = WholeConfig.values[Line.key]
      BY <2>3, <3>1, <3>2 DEF RestRight
    <3>4. ASSUME NEW k \in DOMAIN values'
          PROVE  {values'[k]} = WholeConfig.values[k] /\ values'[k] # "unknown"
      <4>1. CASE k = Line.key
        BY <1>4, <2>2, <3>3, <4>1
      <4>2. CASE k # Line.key
        BY <2>2, <3>1, <4>2 DEF DecidedRight
      <4> QED  BY <4>1, <4>2
    <3>5. DecidedRight'
      BY <1>7, <3>4 DEF DecidedRight
    <3>6. ASSUME NEW k \in Keywords \ DOMAIN values'
          PROVE  StackValue(content', frames', k) = WholeConfig.values[k]
      <4>1. k # Line.key /\ k \in Keywords \ DOMAIN values
        BY <2>2
      <4>2. StackValue(content, frames, k) = WholeConfig.values[k]
        BY <3>1, <4>1 DEF RestRight
      <4> QED  BY <1>5, <1>8, <4>1, <4>2 DEF Either
    <3>7. /\ ports' \cup StackPorts(content', frames') \subseteq WholeConfig.ports
          /\ \/ Cardinality(ports') = MaxSSHPorts
             \/ ports' \cup StackPorts(content', frames') = WholeConfig.ports
      BY <1>3, <1>9, <3>1 DEF RestRight
    <3> QED  BY <1>7, <3>5, <3>6, <3>7 DEF RestRight
  <2>5. DOMAIN values' \subseteq Keywords
    BY <1>4, <1>10, <2>2
  <2> QED  BY <1>1, <1>2, <1>3, <1>10, <2>4, <2>5, LineTaken
<1>12. CASE ~(~Top.inMatch /\ Decides(Line.key))
  <2>1. values' = values
    BY <1>3, <1>12
  <2>2. ASSUME SshRight PROVE DecidedRight'
    BY <1>7, <2>1, <2>2 DEF SshRight, DecidedRight
  <2>3. ASSUME SshRight, ~sshBlocked PROVE RestRight'
    <3>1. RestRight
      BY <2>3 DEF SshRight
    <3>2. ASSUME NEW k \in Keywords \ DOMAIN values'
          PROVE  StackValue(content', frames', k) = WholeConfig.values[k]
      <4>1. StackValue(content, frames, k) = WholeConfig.values[k]
        BY <2>1, <3>1 DEF RestRight
      <4>2. Top.inMatch \/ k # Line.key
        BY <1>12, <2>1, <2>3 DEF Decides
      <4> QED  BY <1>5, <1>8, <4>1, <4>2 DEF Either
    <3>3. /\ ports' \cup StackPorts(content', frames') \subseteq WholeConfig.ports
          /\ \/ Cardinality(ports') = MaxSSHPorts
             \/ ports' \cup StackPorts(content', frames') = WholeConfig.ports
      BY <1>3, <1>9, <3>1 DEF RestRight
    <3> QED  BY <1>7, <3>2, <3>3 DEF RestRight
  <2>4. DOMAIN values' \subseteq Keywords
    BY <1>10, <2>1
  <2> QED  BY <1>1, <1>2, <1>3, <1>10, <2>2, <2>3, <2>4, LineTaken
<1> QED  BY <1>11, <1>12

LEMMA ReadSSHInv ==
  ASSUME SshInv, ReadSSH PROVE SshInv'
<1>1. /\ UNCHANGED <<content, may, frames, begun, values, ports, match, sshBlocked>> /\ frames = <<>>
      /\ ssh' = [set |-> TRUE, values |-> [k \in Keywords |-> resolveKeyword(k)],
                 ports |-> IF sshBlocked THEN {} ELSE IF ports = {} THEN {22} ELSE ports,
                 match |-> match]
  BY DEF ReadSSH
<1>2. SshType'
  BY <1>1 DEF SshInv, SshType
<1>3. WholeConfig' = WholeConfig /\ SshdPorts' = SshdPorts /\ \A k : SshdValue(k)' = SshdValue(k)
  BY <1>1 DEF WholeConfig, SshdPorts, SshdValue
<1>4. ASSUME begun <= MaxSSHFiles
      PROVE  /\ \A k \in Keywords : ssh'.values[k] \in {"unknown", SshdValue(k)}
             /\ ssh'.ports \subseteq SshdPorts
             /\ ssh'.ports \in {{}, SshdPorts} \/ Cardinality(ssh'.ports) = MaxSSHPorts
             /\ (\A f \in DOMAIN may : may[f] = "read") =>
                    \A k \in Keywords : ssh'.values[k] # "unknown"
  <2>1. SshRight
    BY <1>4 DEF SshInv
  <2>2. ~sshBlocked => /\ \A k \in Keywords \ DOMAIN values : WholeConfig.values[k] = {}
                       /\ ports \subseteq WholeConfig.ports
                       /\ Cardinality(ports) = MaxSSHPorts \/ ports = WholeConfig.ports
    <3>1. \A k : StackValue(content, frames, k) = {} /\ StackPorts(content, frames) = {}
      BY <1>1, EmptyStack
    <3> QED  BY <2>1, <3>1 DEF SshRight, RestRight
  <2>3. \A k \in Keywords : ssh'.values[k] = resolveKeyword(k)
    BY <1>1
  <2>4. ASSUME NEW k \in Keywords
        PROVE  resolveKeyword(k) \in {"unknown", SshdValue(k)} /\ (~sshBlocked => resolveKeyword(k) # "unknown")
    <3>1. CASE k \in DOMAIN values
      <4>1. {values[k]} = WholeConfig.values[k] /\ values[k] # "unknown"
        BY <2>1, <3>1 DEF SshRight, DecidedRight
      <4>2. SshdValue(k) = values[k]
        BY <4>1 DEF SshdValue
      <4> QED  BY <3>1, <4>1, <4>2 DEF resolveKeyword
    <3>2. CASE k \notin DOMAIN values
      BY <2>2, <3>2 DEF resolveKeyword, SshdValue
    <3> QED  BY <3>1, <3>2
  <2>5. /\ ssh'.ports \subseteq SshdPorts
        /\ ssh'.ports \in {{}, SshdPorts} \/ Cardinality(ssh'.ports) = MaxSSHPorts
    <3>1. ssh'.ports = IF sshBlocked THEN {} ELSE IF ports = {} THEN {22} ELSE ports
      BY <1>1
    <3>2. CASE sshBlocked
      BY <3>1, <3>2
    <3>3. CASE ~sshBlocked /\ ports = {}
      <4>1. Cardinality(ports) # MaxSSHPorts
        BY <3>3, FS_EmptySet, SshAssumptions
      <4>2. SshdPorts = {22}
        BY <2>2, <3>3, <4>1 DEF SshdPorts
      <4> QED  BY <3>1, <3>3, <4>2
    <3>4. CASE ~sshBlocked /\ ports # {}
      <4>1. SshdPorts = WholeConfig.ports /\ ssh'.ports = ports
        BY <2>2, <3>1, <3>4 DEF SshdPorts
      <4> QED  BY <2>2, <3>4, <4>1
    <3> QED  BY <3>2, <3>3, <3>4
  <2>6. (\A f \in DOMAIN may : may[f] = "read") => ~sshBlocked
    BY <2>1 DEF SshRight
  <2> QED  BY <2>3, <2>4, <2>5, <2>6
<1>5. SshNeverGuessed'
  BY <1>1, <1>3, <1>4 DEF SshNeverGuessed
<1>6. ASSUME begun' <= MaxSSHFiles PROVE SshRight'
  <2>1. SshRight
    BY <1>1, <1>6 DEF SshInv
  <2>2. DecidedRight' /\ (~sshBlocked => RestRight')
    BY <1>1, <1>3, <2>1 DEF SshRight, DecidedRight, RestRight
  <2> QED  BY <1>1, <2>1, <2>2 DEF SshRight
<1> QED  BY <1>1, <1>2, <1>5, <1>6 DEF SshInv

\* What the agent tells of the SSH server is what sshd makes of the same files
\* or "unknown", whichever of them the agent may not read, for every number of
\* lines, every nesting up to the limit and every set of keywords.
THEOREM SettingsNeverGuessed == SshSpec => []SshNeverGuessed
<1>1. SshInit => SshInv
  BY SshInitInv
<1>2. SshInv /\ [SshNext]_sshVars => SshInv'
  <2> SUFFICES ASSUME SshInv, [SshNext]_sshVars PROVE SshInv'
    OBVIOUS
  <2>1. CASE SshNext
    BY <2>1, OpenFileInv, BeginMatchInv, IncludeInv, AddPortInv, SetKeywordInv, EndOfFileInv,
       ReadSSHInv DEF SshNext
  <2>2. CASE UNCHANGED sshVars
    <3>1. UNCHANGED <<content, may, frames, begun, values, ports, match, sshBlocked, ssh>>
      BY <2>2 DEF sshVars
    <3>2. WholeConfig' = WholeConfig /\ SshType' /\ (frames' # <<>> => ssh' = NoSetup)
      BY <3>1 DEF WholeConfig, SshInv, SshType
    <3>3. begun' <= MaxSSHFiles => SshRight'
      <4>1. DecidedRight' = DecidedRight /\ RestRight' = RestRight
        BY <3>1, <3>2 DEF DecidedRight, RestRight
      <4> QED  BY <3>1, <4>1 DEF SshRight, SshInv
    <3>4. SshNeverGuessed'
      <4>1. SshdPorts' = SshdPorts /\ \A k : SshdValue(k)' = SshdValue(k)
        BY <3>2 DEF SshdPorts, SshdValue
      <4> QED  BY <3>1, <4>1 DEF SshNeverGuessed, SshInv
    <3> QED  BY <3>2, <3>3, <3>4 DEF SshInv
  <2> QED  BY <2>1, <2>2
<1>3. SshInv => SshNeverGuessed
  BY DEF SshInv
<1> QED  BY <1>1, <1>2, <1>3, PTL DEF SshSpec
==============================================================================
