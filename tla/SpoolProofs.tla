----------------------------- MODULE SpoolProofs -----------------------------
(***************************************************************************)
(* Theorems about Spool, for any caps, worlds, faults and clocks: the cap, *)
(* the reading just added, the partial files, and that the spool, system   *)
(* call by system call and crash by crash, implements ReadingStore.        *)
(***************************************************************************)
EXTENDS Spool, FiniteSetTheorems, TLAPS

-----------------------------------------------------------------------------
(* Listings.                                                               *)

\* A listing that is not empty has a first name.
LEMMA FirstIsLeast ==
    ASSUME NEW S \in SUBSET Nat, IsFiniteSet(S), S # {}
    PROVE  First(S) \in S /\ \A m \in S : First(S) <= m
<1> DEFINE upTo(x) == {m \in S : m <= x}
           T == {upTo(x) : x \in S}
<1>1. T \subseteq FiniteSubsetsOf(S) /\ T # {}
  <2>1. \A x \in S : upTo(x) \in SUBSET S /\ IsFiniteSet(upTo(x))
    BY FS_Subset
  <2> QED
    BY <2>1 DEF FiniteSubsetsOf
<1>2. PICK U \in T : \A V \in T : ~(<<V, U>> \in StrictSubsetOrdering(S))
  <2> HIDE DEF T
  <2> QED
    BY <1>1, FS_StrictSubsetOrderingWellFounded, WFMin
<1>3. PICK x \in S : U = upTo(x)
  BY <1>2
<1>4. ASSUME NEW y \in S, ~(x <= y) PROVE FALSE
  <2>1. x \in Nat /\ y \in Nat /\ y < x
    BY <1>4
  <2>2. \A m \in S : m <= y => m <= x
    BY <2>1
  <2>3. upTo(y) \subseteq upTo(x) /\ upTo(y) # upTo(x)
    <3>1. upTo(y) \subseteq upTo(x)
      BY <2>2
    <3>2. x <= x /\ ~(x <= y)
      BY <2>1
    <3>3. x \in upTo(x) /\ x \notin upTo(y)
      BY <3>2
    <3> QED
      BY <3>1, <3>3
  <2>4. <<upTo(y), U>> \in StrictSubsetOrdering(S)
    BY <2>3, <1>3 DEF StrictSubsetOrdering
  <2> QED
    BY <1>2, <2>4
<1> QED
  BY <1>4 DEF First

\* With the excess removed, k names are left at most.
LEMMA ExcessLeaves ==
    ASSUME NEW S \in SUBSET Nat, IsFiniteSet(S), NEW k \in Nat \ {0}
    PROVE  Cardinality(S \ Excess(S, k)) <= k
<1> DEFINE K == S \ Excess(S, k)
<1>1. K \in SUBSET Nat /\ IsFiniteSet(K)
  BY FS_Subset
<1>2. CASE K = {}
  BY <1>2, FS_EmptySet
<1>3. CASE K # {}
  <2> DEFINE m == First(K)
             N == Newer(S, m)
  <2>1. m \in K /\ \A n \in K : m <= n
    BY <1>1, <1>3, FirstIsLeast
  <2>2. N \in SUBSET S /\ IsFiniteSet(N) /\ Cardinality(N) \in Nat
    BY FS_Subset, FS_CardinalityType DEF Newer
  <2>3. Cardinality(N) < k
    BY <2>1, <2>2 DEF Excess
  <2>4. K \in SUBSET (N \cup {m})
    <3> SUFFICES ASSUME NEW n \in K, n # m PROVE n \in N
      OBVIOUS
    <3>1. n \in Nat /\ m \in Nat /\ m <= n
      BY <2>1
    <3> QED
      BY <3>1 DEF Newer
  <2>5. IsFiniteSet(N \cup {m}) /\ Cardinality(N \cup {m}) <= k
    <3> HIDE DEF N, m
    <3>1. IsFiniteSet(N \cup {m}) /\ Cardinality(N \cup {m}) = IF m \in N THEN Cardinality(N) ELSE Cardinality(N) + 1
      BY <2>2, FS_AddElement
    <3> QED
      BY <2>2, <2>3, <3>1
  <2>6. Cardinality(K) <= Cardinality(N \cup {m})
    BY <2>4, <2>5, FS_Subset
  <2>7. Cardinality(K) \in Nat /\ Cardinality(N \cup {m}) \in Nat
    BY <1>1, <2>5, FS_CardinalityType
  <2> QED
    BY <2>5, <2>6, <2>7
<1> QED
  BY <1>2, <1>3

\* Removing an older name keeps what is newer, so a name in excess stays so.
LEMMA ExcessStays ==
    ASSUME NEW S \in SUBSET Nat, NEW k \in Nat, NEW n \in S, NEW m \in Excess(S, k), n < m
    PROVE  m \in Excess(S \ {n}, k)
<1>1. Newer(S \ {n}, m) = Newer(S, m)
  BY DEF Newer, Excess
<1> QED
  BY <1>1 DEF Excess

\* The newest name is in excess of no positive number.
LEMMA NewestStays ==
    ASSUME NEW S \in SUBSET Nat, NEW k \in Nat \ {0}, NEW n \in S, \A m \in S : m <= n
    PROVE  n \notin Excess(S, k)
<1>1. ASSUME NEW m \in S PROVE ~(m > n)
  <2>1. m \in Nat /\ n \in Nat /\ m <= n
    OBVIOUS
  <2> QED
    BY <2>1
<1>2. Newer(S, n) = {}
  BY <1>1 DEF Newer
<1> QED
  BY <1>2, FS_EmptySet DEF Excess

\* The oldest few are closed downwards, and stay so when others are removed.
LEMMA OldestClosed ==
    ASSUME NEW S \in SUBSET Nat, IsFiniteSet(S), NEW k \in Nat,
           NEW n \in Oldest(S, k), NEW m \in S, m < n
    PROVE  m \in Oldest(S, k)
<1> DEFINE below(x) == {y \in S : y < x}
<1>1. below(m) \in SUBSET below(n) /\ below(n) \in SUBSET S
  <2>1. m \in Nat /\ n \in Nat
    BY DEF Oldest
  <2>2. \A y \in S : y < m => y < n
    BY <2>1
  <2> QED
    BY <2>2
<1>2. IsFiniteSet(below(n)) /\ IsFiniteSet(below(m))
  BY <1>1, FS_Subset
<1>3. Cardinality(below(m)) <= Cardinality(below(n))
  BY <1>1, <1>2, FS_Subset
<1>4. Cardinality(below(m)) \in Nat /\ Cardinality(below(n)) \in Nat
  BY <1>2, FS_CardinalityType
<1>5. Cardinality(below(n)) < k
  BY DEF Oldest
<1> QED
  BY <1>3, <1>4, <1>5 DEF Oldest

LEMMA OldestStays ==
    ASSUME NEW S \in SUBSET Nat, IsFiniteSet(S), NEW k \in Nat, NEW d,
           NEW n \in Oldest(S, k), n # d
    PROVE  n \in Oldest(S \ {d}, k)
<1> DEFINE was == {y \in S : y < n}
           is == {y \in S \ {d} : y < n}
<1>1. is \in SUBSET was /\ IsFiniteSet(was)
  BY FS_Subset
<1>2. IsFiniteSet(is) /\ Cardinality(is) <= Cardinality(was)
  BY <1>1, FS_Subset
<1>3. Cardinality(is) \in Nat /\ Cardinality(was) \in Nat
  BY <1>1, <1>2, FS_CardinalityType
<1>4. Cardinality(was) < k
  BY DEF Oldest
<1> QED
  BY <1>2, <1>3, <1>4 DEF Oldest

-----------------------------------------------------------------------------
(* The inductive invariant, in parts.                                      *)

\* What the variables hold.  The names a loop has still to visit, and the
\* batch, are files; the lists are empty outside the calls that use them; and
\* Add's success is forgotten by the next call.
SpoolType ==
    /\ world \in Worlds
    /\ dir \in SUBSET Nat /\ IsFiniteSet(dir)
    /\ damaged \subseteq dir
    /\ start \in Nat /\ seq \in Nat /\ start <= seq /\ seq <= start + PerRun
    /\ used \subseteq world.starts
    /\ list \subseteq dir /\ entries \subseteq dir
    /\ pc \notin {"trim", "read"} => list = {}
    /\ pc \notin {"read", "taken", "drop"} => entries = {}
    /\ entries \cap damaged = {}
    /\ result = "added" => pc = "idle"

\* Every file is named by a run that was, and a run's own names end at seq.
NamesOwned ==
    /\ \A n \in dir : \E s \in used : s < n /\ n <= s + PerRun
    /\ pc # "down" =>
         /\ start \in used
         /\ \A n \in dir : start < n /\ n <= start + PerRun => n <= seq
    /\ pc = "rename" => start < seq /\ seq \notin dir

\* While the clock goes forward a running agent's number is the newest name,
\* and trim leaves it alone.
NewestKept ==
    world.forward =>
        /\ pc # "down" => \A n \in dir : n <= seq
        /\ pc = "trimlist" => seq \in dir
        /\ pc = "trim" => seq \in dir \ list
        /\ result = "added" => seq \in dir

\* Where removals do not fail, what trim leaves fits under the cap.
Capped ==
    ~Fault("remove") =>
        /\ pc = "trim" => Cardinality(dir \ list) <= Max
        /\ result = "added" => Cardinality(dir) <= Max

\* What trim has still to remove is in excess at every removal.
InExcess == pc = "trim" => list \subseteq Surplus(dir)

\* What Take has read and has still to read are the oldest sound files, the
\* ones read before the others.
OldestFirst ==
    pc \in {"read", "taken"} =>
        /\ entries \cup list \subseteq Oldest(dir, MaxBatch)
        /\ \A n \in entries, m \in list : n < m
        /\ \A n \in entries \cup list, m \in dir \ damaged : m < n => m \in entries \cup list
        /\ pc = "taken" => list = {}

-----------------------------------------------------------------------------
LEMMA TypeInit == Init => SpoolType
BY FS_EmptySet, StartsAssumption DEF Init, SpoolType

\* The loops visit the first name of what is left.
LEMMA LoopHead ==
    ASSUME SpoolType, NEW S, S \in {list, entries}, S # {}
    PROVE  First(S) \in S /\ First(S) \in dir /\ \A m \in S : First(S) <= m
<1>1. S \in SUBSET dir /\ S \in SUBSET Nat
  BY DEF SpoolType
<1>2. IsFiniteSet(S)
  BY <1>1, FS_Subset DEF SpoolType
<1> QED
  BY <1>1, <1>2, FirstIsLeast

\* A restart begins from a clock reading of the world's.
LEMMA StartsType == SpoolType => used \subseteq Starts /\ world.starts \subseteq Starts /\ Starts \subseteq Nat
BY StartsAssumption DEF SpoolType, Starts

LEMMA TypeStep ==
    ASSUME SpoolType, [Next]_vars
    PROVE  SpoolType'
<1>1. ASSUME NEW s \in Starts, New(s) PROVE SpoolType'
  BY <1>1, StartsAssumption DEF New, MayStart, SpoolType
<1>2. CASE AddWrite
  BY <1>2, StartsAssumption DEF AddWrite, SpoolType
<1>3. CASE AddRename
  <2>1. CASE dir' = dir \cup {seq} /\ pc' = "trimlist" /\ UNCHANGED result
    BY <1>3, <2>1, FS_AddElement DEF AddRename, SpoolType, run
  <2>2. CASE dir' = dir /\ pc' = "idle" /\ result' = "adderror"
    BY <1>3, <2>2 DEF AddRename, SpoolType, run
  <2> QED
    BY <1>3, <2>1, <2>2 DEF AddRename
<1>4. CASE TrimList
  BY <1>4 DEF TrimList, SpoolType, Surplus, Excess, disk, run
<1>5. CASE TrimOne
  <2> DEFINE n == First(list)
  <2>1. n \in list /\ n \in dir
    BY <1>5, LoopHead DEF TrimOne
  <2> HIDE DEF n
  <2>2. IsFiniteSet(dir \ {n})
    BY FS_RemoveElement DEF SpoolType
  <2>3. CASE dir' = dir \ {n} /\ damaged' = damaged \ {n}
    BY <1>5, <2>1, <2>2, <2>3 DEF TrimOne, SpoolType, run, n
  <2>4. CASE UNCHANGED <<dir, damaged>>
    BY <1>5, <2>4 DEF TrimOne, SpoolType, run
  <2> QED
    BY <1>5, <2>3, <2>4 DEF TrimOne, n
<1>6. CASE TrimDone
  BY <1>6 DEF TrimDone, SpoolType, disk, run
<1>7. CASE TakeList
  BY <1>7 DEF TakeList, SpoolType, Oldest, disk, run
<1>8. CASE TakeRead
  <2> DEFINE n == First(list)
  <2>1. n \in list /\ n \in dir
    BY <1>8, LoopHead DEF TakeRead
  <2> HIDE DEF n
  <2>2. IsFiniteSet(dir \ {n})
    BY FS_RemoveElement DEF SpoolType
  <2>3. CASE ReadFails(n)
    BY <1>8, <2>3 DEF TakeRead, ReadFails, TakeFailed, SpoolType, run
  <2>4. CASE ReadDamaged(n)
    BY <1>8, <2>1, <2>2, <2>4 DEF TakeRead, ReadDamaged, SpoolType, run
  <2>5. CASE ReadSound(n)
    BY <1>8, <2>1, <2>5 DEF TakeRead, ReadSound, SpoolType, run
  <2> QED
    BY <1>8, <2>3, <2>4, <2>5 DEF TakeRead, n
<1>9. CASE TakeDone
  BY <1>9 DEF TakeDone, SpoolType, disk, run
<1>10. CASE DropBegin
  BY <1>10 DEF DropBegin, SpoolType, disk, run
<1>11. CASE Keep
  BY <1>11 DEF Keep, SpoolType, disk, run
<1>12. CASE DropOne
  <2> DEFINE n == First(entries)
  <2>1. n \in entries /\ n \in dir
    BY <1>12, LoopHead DEF DropOne
  <2> HIDE DEF n
  <2>2. IsFiniteSet(dir \ {n})
    BY FS_RemoveElement DEF SpoolType
  <2>3. CASE dir' = dir \ {n}
    BY <1>12, <2>1, <2>2, <2>3 DEF DropOne, SpoolType, run, n
  <2>4. CASE UNCHANGED dir
    BY <1>12, <2>4 DEF DropOne, SpoolType, run
  <2> QED
    BY <1>12, <2>3, <2>4 DEF DropOne, n
<1>13. CASE DropDone
  BY <1>13 DEF DropDone, SpoolType, disk, run
<1>14. ASSUME NEW D \in SUBSET dir, Crash(D) PROVE SpoolType'
  BY <1>14 DEF Crash, SpoolType, run
<1>15. CASE UNCHANGED vars
  BY <1>15 DEF vars, SpoolType
<1> QED
  BY <1>1, <1>2, <1>3, <1>4, <1>5, <1>6, <1>7, <1>8, <1>9, <1>10, <1>11, <1>12, <1>13, <1>14, <1>15
  DEF Next, Call

-----------------------------------------------------------------------------
(* Names.                                                                  *)

\* What every step does to the names: a rename adds the run's number, nothing
\* else adds one, and a run keeps its world and its start.
LEMMA DirStep ==
    ASSUME SpoolType, [Next]_vars
    PROVE  /\ world' = world
           /\ dir' \subseteq dir \/ (pc = "rename" /\ pc' = "trimlist" /\ dir' = dir \cup {seq})
           /\ \/ UNCHANGED <<start, used, seq>>
              \/ pc = "idle" /\ AddWrite /\ UNCHANGED <<start, used>> /\ seq' = seq + 1
              \/ \E s \in Starts : New(s)
           /\ pc' = "rename" => AddWrite \/ UNCHANGED vars
           /\ pc = "down" /\ pc' # "down" => \E s \in Starts : New(s)
BY DEF Next, vars, Call, New, AddWrite, AddRename, TrimList, TrimOne, TrimDone, TakeList, TakeRead,
   ReadFails, TakeFailed, ReadDamaged, ReadSound, TakeDone, DropBegin, Keep, DropOne, DropDone,
   Crash, disk, run

\* Two runs that started at different times have no name in common.
LEMMA RunsApart ==
    ASSUME NEW s \in Starts, NEW t \in Starts, s # t, NEW n \in Nat,
           s < n, n <= s + PerRun
    PROVE  ~(t < n /\ n <= t + PerRun) /\ (s < t => n < t)
<1>1. s \in Nat /\ t \in Nat /\ PerRun \in Nat
  BY StartsAssumption
<1>2. (s < t => s + PerRun < t) /\ (t < s => t + PerRun < s)
  BY StartsAssumption
<1> QED
  BY <1>1, <1>2

LEMMA NamesStep ==
    ASSUME SpoolType, NamesOwned, [Next]_vars
    PROVE  NamesOwned'
<1>1. ASSUME NEW s \in Starts, New(s) PROVE NamesOwned'
  <2>1. ASSUME NEW n \in dir, s < n, n <= s + PerRun PROVE FALSE
    <3>1. PICK t \in used : t < n /\ n <= t + PerRun
      BY DEF NamesOwned
    <3>2. t \in Starts /\ s # t /\ n \in Nat
      BY <1>1, StartsType DEF New, MayStart, SpoolType
    <3> QED
      BY <2>1, <3>1, <3>2, RunsApart
  <2> QED
    BY <1>1, <2>1 DEF New, NamesOwned
<1>2. CASE AddWrite
  <2>1. start < seq' /\ seq' <= start + PerRun /\ seq' # seq /\ ~(seq' <= seq)
    BY <1>2, StartsAssumption DEF AddWrite, SpoolType
  <2>2. seq' \notin dir
    BY <1>2, <2>1 DEF AddWrite, NamesOwned
  <2>3. \A n \in dir : n <= seq => n <= seq'
    BY <1>2 DEF AddWrite, SpoolType
  <2> QED
    BY <1>2, <2>1, <2>2, <2>3 DEF AddWrite, NamesOwned
<1>3. CASE /\ pc = "rename" /\ pc' = "trimlist" /\ dir' = dir \cup {seq}
           /\ UNCHANGED <<start, used, seq>>
  BY <1>3 DEF NamesOwned, SpoolType
<1>4. CASE /\ dir' \subseteq dir /\ UNCHANGED <<start, used, seq>>
           /\ pc = "down" => pc' = "down"
           /\ pc' = "rename" => UNCHANGED vars
  <2>1. CASE pc' = "rename"
    BY <1>4, <2>1 DEF NamesOwned, vars
  <2>2. CASE pc' # "rename"
    BY <1>4, <2>2 DEF NamesOwned
  <2> QED
    BY <2>1, <2>2
<1> QED
  BY <1>1, <1>2, <1>3, <1>4, DirStep

-----------------------------------------------------------------------------
(* The reading just added.                                                 *)
LEMMA NewestStep ==
    ASSUME SpoolType, NamesOwned, NewestKept, [Next]_vars
    PROVE  NewestKept'
<1> SUFFICES ASSUME world.forward PROVE NewestKept'
  BY DirStep DEF NewestKept
<1> USE DEF NewestKept
<1>1. ASSUME NEW s \in Starts, New(s) PROVE NewestKept'
  <2>1. ASSUME NEW n \in dir PROVE n <= s
    <3>1. PICK t \in used : t < n /\ n <= t + PerRun
      BY DEF NamesOwned
    <3>2. t \in Starts /\ t < s /\ n \in Nat /\ t \in Nat /\ s \in Nat
      BY <1>1, StartsType DEF New, MayStart, SpoolType
    <3>3. n < s
      BY <3>1, <3>2, RunsApart
    <3> QED
      BY <3>2, <3>3
  <2> QED
    BY <1>1, <2>1 DEF New
<1>2. CASE AddWrite
  <2>1. \A n \in dir : n <= seq => n <= seq'
    BY <1>2 DEF AddWrite, SpoolType
  <2> QED
    BY <1>2, <2>1 DEF AddWrite
<1>3. CASE AddRename
  <2>1. seq <= seq
    BY DEF SpoolType
  <2>2. CASE dir' = dir \cup {seq} /\ pc' = "trimlist" /\ UNCHANGED <<result, seq, world>>
    BY <1>3, <2>1, <2>2 DEF AddRename, SpoolType
  <2>3. CASE dir' = dir /\ pc' = "idle" /\ result' = "adderror" /\ UNCHANGED <<seq, world>>
    BY <1>3, <2>3 DEF AddRename
  <2> QED
    BY <1>3, <2>2, <2>3 DEF AddRename, run
<1>4. CASE TrimList
  <2>1. seq \in dir /\ \A n \in dir : n <= seq
    BY <1>4 DEF TrimList
  <2>2. seq \notin Surplus(dir)
    BY <2>1, NewestStays, BoundsAssumption DEF Surplus, SpoolType
  <2> QED
    BY <1>4, <2>1, <2>2 DEF TrimList, SpoolType, disk, run
<1>5. CASE TrimOne
  <2>1. First(list) \in list
    BY <1>5, LoopHead DEF TrimOne
  <2> QED
    BY <1>5, <2>1 DEF TrimOne, SpoolType, run
<1>6. CASE TrimDone
  BY <1>6 DEF TrimDone, SpoolType, disk, run
<1>7. CASE TakeList \/ TakeDone \/ DropBegin \/ Keep \/ DropDone
  BY <1>7 DEF TakeList, TakeDone, DropBegin, Keep, DropDone, SpoolType, disk, run
<1>8. CASE TakeRead
  BY <1>8 DEF TakeRead, ReadFails, TakeFailed, ReadDamaged, ReadSound, SpoolType, run
<1>9. CASE DropOne
  BY <1>9 DEF DropOne, SpoolType, run
<1>10. ASSUME NEW D \in SUBSET dir, Crash(D) PROVE NewestKept'
  BY <1>10 DEF Crash, run
<1>11. CASE UNCHANGED vars
  BY <1>11 DEF vars
<1> QED
  BY <1>1, <1>2, <1>3, <1>4, <1>5, <1>6, <1>7, <1>8, <1>9, <1>10, <1>11 DEF Next, Call

-----------------------------------------------------------------------------
(* The cap.                                                                *)
LEMMA CappedStep ==
    ASSUME SpoolType, Capped, [Next]_vars
    PROVE  Capped'
<1> SUFFICES ASSUME ~Fault("remove") PROVE Capped'
  BY DirStep DEF Capped, Fault
<1> USE DEF Capped
<1>1. CASE TrimList
  <2>1. Cardinality(dir \ Surplus(dir)) <= Max
    BY ExcessLeaves, BoundsAssumption DEF SpoolType, Surplus
  <2> QED
    BY <1>1, <2>1 DEF TrimList, SpoolType, disk, run
<1>2. CASE TrimOne
  <2> DEFINE n == First(list)
  <2>1. n \in list
    BY <1>2, LoopHead DEF TrimOne
  <2>2. dir' = dir \ {n} /\ list' = list \ {n}
    BY <1>2 DEF TrimOne
  <2> HIDE DEF n
  <2>3. dir' \ list' = dir \ list
    BY <2>1, <2>2
  <2> QED
    BY <1>2, <2>3 DEF TrimOne, SpoolType
<1>3. CASE TrimDone
  <2>1. dir \ list = dir
    BY <1>3 DEF TrimDone
  <2> QED
    BY <1>3, <2>1 DEF TrimDone, disk
<1>4. CASE (pc' # "trim" /\ result' # "added") \/ UNCHANGED vars
  BY <1>4 DEF vars
<1>5. ASSUME NEW s \in Starts, New(s) PROVE Capped'
  BY <1>5 DEF New
<1>6. CASE AddWrite \/ AddRename \/ TakeList \/ TakeDone \/ DropBegin \/ Keep \/ DropOne \/ DropDone
  BY <1>6 DEF AddWrite, AddRename, TakeList, TakeDone, DropBegin, Keep, DropOne, DropDone, SpoolType
<1>7. CASE TakeRead
  BY <1>7 DEF TakeRead, ReadFails, TakeFailed, ReadDamaged, ReadSound, SpoolType
<1>8. ASSUME NEW D \in SUBSET dir, Crash(D) PROVE Capped'
  BY <1>8 DEF Crash
<1> QED
  BY <1>1, <1>2, <1>3, <1>4, <1>5, <1>6, <1>7, <1>8 DEF Next, Call

-----------------------------------------------------------------------------
(* What trim and Take have still to visit.                                 *)
LEMMA ExcessStep ==
    ASSUME SpoolType, InExcess, [Next]_vars
    PROVE  InExcess'
<1> USE DEF InExcess
<1>1. CASE TrimList
  BY <1>1 DEF TrimList, disk
<1>2. CASE TrimOne
  <2> DEFINE n == First(list)
  <2>1. n \in list /\ n \in dir /\ \A m \in list : n <= m
    BY <1>2, LoopHead DEF TrimOne
  <2>2. list' = list \ {n} /\ dir' \in {dir, dir \ {n}} /\ pc = "trim"
    BY <1>2 DEF TrimOne
  <2> HIDE DEF n
  <2>3. CASE dir' = dir
    BY <2>2, <2>3
  <2>4. CASE dir' = dir \ {n}
    <3> SUFFICES ASSUME NEW m \in list, m # n PROVE m \in Surplus(dir \ {n})
      BY <2>2, <2>4
    <3>1. m \in Nat /\ n \in Nat /\ n < m
      BY <2>1 DEF SpoolType
    <3>2. m \in Excess(dir, Max)
      BY <2>2 DEF Surplus
    <3> QED
      BY <2>1, <3>1, <3>2, ExcessStays, BoundsAssumption DEF Surplus, SpoolType
  <2> QED
    BY <2>2, <2>3, <2>4
<1>3. CASE pc' # "trim" \/ UNCHANGED vars
  BY <1>3 DEF vars
<1> QED
  BY <1>1, <1>2, <1>3
  DEF Next, Call, New, AddWrite, AddRename, TrimDone, TakeList, TakeRead, ReadFails, TakeFailed,
      ReadDamaged, ReadSound, TakeDone, DropBegin, Keep, DropOne, DropDone, Crash

LEMMA OldestStep ==
    ASSUME SpoolType, OldestFirst, [Next]_vars
    PROVE  OldestFirst'
<1> USE DEF OldestFirst
<1>1. CASE TakeList
  <2>1. \A n \in Oldest(dir, MaxBatch), m \in dir : m < n => m \in Oldest(dir, MaxBatch)
    BY OldestClosed, BoundsAssumption DEF SpoolType
  <2>2. Oldest(dir, MaxBatch) \subseteq dir
    BY DEF Oldest
  <2> QED
    BY <1>1, <2>1, <2>2 DEF TakeList, disk
<1>2. CASE TakeRead
  <2> DEFINE n == First(list)
  <2>1. /\ n \in list /\ n \in dir
        /\ \A m \in list : n <= m
    BY <1>2, LoopHead DEF TakeRead
  <2>2. \A m \in list : m # n => n < m
    BY <2>1 DEF SpoolType
  <2>3. pc = "read"
    BY <1>2 DEF TakeRead
  <2> HIDE DEF n
  <2>4. CASE ReadFails(n)
    BY <2>4 DEF ReadFails, TakeFailed
  <2>5. CASE ReadSound(n)
    BY <2>1, <2>2, <2>3, <2>5 DEF ReadSound
  <2>6. CASE ReadDamaged(n)
    <3>1. /\ n \in damaged /\ list' = list \ {n} /\ pc' = pc /\ entries' = entries
          /\ \/ dir' = dir \ {n} /\ damaged' = damaged \ {n}
             \/ dir' = dir /\ damaged' = damaged
      BY <2>6 DEF ReadDamaged
    <3>2. n \notin entries /\ dir' \ damaged' = dir \ damaged
      BY <3>1 DEF SpoolType
    <3>3. entries' \cup list' \subseteq Oldest(dir', MaxBatch)
      <4> SUFFICES ASSUME NEW m \in entries \cup list, m # n PROVE m \in Oldest(dir', MaxBatch)
        BY <3>1, <3>2
      <4>1. m \in Oldest(dir, MaxBatch)
        BY <2>3
      <4>2. m \in Oldest(dir \ {n}, MaxBatch)
        BY <4>1, OldestStays, BoundsAssumption DEF SpoolType
      <4> QED
        BY <3>1, <4>1, <4>2
    <3>4. ASSUME NEW k \in entries' \cup list', NEW m \in dir' \ damaged', m < k
          PROVE  m \in entries' \cup list'
      <4>1. m \in entries \cup list /\ m # n
        BY <2>3, <3>1, <3>2, <3>4
      <4> QED
        BY <3>1, <4>1
    <3> QED
      BY <2>3, <3>1, <3>3, <3>4
  <2> QED
    BY <1>2, <2>4, <2>5, <2>6 DEF TakeRead, n
<1>3. CASE TakeDone
  BY <1>3 DEF TakeDone, disk
<1>4. CASE pc' \notin {"read", "taken"} \/ UNCHANGED vars
  BY <1>4 DEF vars
<1> QED
  BY <1>1, <1>2, <1>3, <1>4
  DEF Next, Call, New, AddWrite, AddRename, TrimList, TrimOne, TrimDone, DropBegin, Keep, DropOne,
      DropDone, Crash

-----------------------------------------------------------------------------
SpoolInv == SpoolType /\ NamesOwned /\ NewestKept /\ Capped /\ InExcess /\ OldestFirst

LEMMA SpoolInvariant == Spec => []SpoolInv
<1>1. Init => SpoolInv
  BY TypeInit DEF SpoolInv, Init, NamesOwned, NewestKept, Capped, InExcess, OldestFirst
<1>2. SpoolInv /\ [Next]_vars => SpoolInv'
  BY TypeStep, NamesStep, NewestStep, CappedStep, ExcessStep, OldestStep DEF SpoolInv
<1> QED
  BY <1>1, <1>2, PTL DEF Spec

\* When Add returns nil the spool is under its cap (trim in spool.go), after
\* any number of crashes between a rename and its trim, as long as files can be
\* removed: what trim lists and what it leaves are told apart once and for all.
THEOREM CapHolds == Spec => []AddBounds
<1>1. SpoolInv => AddBounds
  BY DEF SpoolInv, Capped, AddBounds
<1> QED
  BY <1>1, SpoolInvariant, PTL

\* While the clock does not go back, the reading Add was given is there when it
\* returns nil: no run's names reach into another's, so the newest name is the
\* last one given, and trim removes from the other end.
THEOREM AddedReadingKept == Spec => []AddKeepsReading
<1>1. SpoolInv => AddKeepsReading
  BY DEF SpoolInv, NewestKept, AddKeepsReading
<1> QED
  BY <1>1, SpoolInvariant, PTL

\* A running agent has one partial file at most, where the directory can be
\* listed and files can be removed (the sweep in New, the removals in Add).
THEOREM PartialsSwept == Spec => []PartialsBounded
<1>1. Init => PartialsBounded
  BY DEF Init, PartialsBounded
<1>2. ASSUME PartialsBounded, [Next]_vars PROVE PartialsBounded'
  <2> USE <1>2 DEF PartialsBounded, Fault
  <2>1. ASSUME NEW s \in Starts, New(s) PROVE PartialsBounded'
    BY <2>1 DEF New, SweepPartials
  <2>2. CASE AddWrite
    BY <2>2 DEF AddWrite
  <2>3. CASE AddRename
    BY <2>3 DEF AddRename, run
  <2>4. CASE UNCHANGED <<world, tmp, seq>> /\ pc # "rename" /\ pc # "down" /\ pc' # "rename"
    BY <2>4
  <2>5. ASSUME NEW D \in SUBSET dir, Crash(D) PROVE PartialsBounded'
    BY <2>5 DEF Crash
  <2>6. CASE UNCHANGED vars
    BY <2>6 DEF vars
  <2> QED
    BY <2>1, <2>2, <2>3, <2>4, <2>5, <2>6
    DEF Next, Call, TrimList, TrimOne, TrimDone, TakeList, TakeRead, ReadFails, TakeFailed,
        ReadDamaged, ReadSound, TakeDone, DropBegin, Keep, DropOne, DropDone, disk, run
<1> QED
  BY <1>1, <1>2, PTL DEF Spec

-----------------------------------------------------------------------------
(* The refinement: every system call is one step of ReadingStore or none.  *)

\* The instance reads a listing the way the spool does.
LEMMA SameListings ==
    ASSUME NEW S, NEW k
    PROVE  Store!Oldest(S, k) = Oldest(S, k) /\ Store!Surplus(S) = Surplus(S)
<1>1. Store!Oldest(S, k) = Oldest(S, k)
  BY Zenon DEF Store!Oldest, Oldest, Store!Cardinality, Cardinality
<1>2. Store!Surplus(S) = Surplus(S)
  BY Zenon DEF Store!Surplus, Store!Excess, Store!Newer, Surplus, Excess, Newer,
     Store!Cardinality, Cardinality
<1> QED
  BY <1>1, <1>2

\* What the caller holds of the store: ReadingStore's offered.
Offered == IF pc \in {"taken", "drop"} THEN entries ELSE {}

LEMMA RefinesStep ==
    ASSUME SpoolInv, [Next]_vars
    PROVE  [Store!StoreNext]_(Store!storeVars)
<1> USE DEF SpoolInv
<1> DEFINE idle == dir' = dir /\ damaged' = damaged /\ Offered' = Offered
<1>1. ASSUME idle PROVE UNCHANGED Store!storeVars
  BY <1>1 DEF Store!storeVars, Offered
<1>2. ASSUME NEW s \in Starts, New(s) PROVE idle
  BY <1>2 DEF New, Offered
<1>3. CASE AddWrite \/ TrimList \/ TrimDone \/ TakeList \/ DropBegin \/ DropDone
  <2>1. idle
    BY <1>3 DEF AddWrite, TrimList, TrimDone, TakeList, DropBegin, DropDone, Offered, disk
  <2> QED
    BY <1>1, <2>1
<1>4. CASE AddRename
  <2>1. CASE dir' = dir \cup {seq} /\ damaged' = damaged /\ Offered' = {} /\ Offered = {}
    <3>1. seq \notin dir
      BY <1>4 DEF AddRename, NamesOwned
    <3>2. Store!Put(seq)
      BY <2>1, <3>1 DEF Store!Put, Offered
    <3> QED
      BY <2>1, <3>2 DEF Store!StoreNext
  <2>2. CASE idle
    BY <1>1, <2>2
  <2> QED
    BY <1>4, <2>1, <2>2 DEF AddRename, Offered
<1>5. CASE TrimOne
  <2> DEFINE n == First(list)
  <2>1. n \in list /\ n \in dir
    BY <1>5, LoopHead DEF TrimOne
  <2> HIDE DEF n
  <2>2. CASE dir' = dir \ {n} /\ damaged' = damaged \ {n}
    <3>1. n \in Surplus(dir)
      BY <1>5, <2>1 DEF TrimOne, InExcess
    <3>2. Store!Surplus(dir) = Surplus(dir)
      BY SameListings
    <3>3. Store!Evict(n)
      BY <1>5, <2>2, <3>1, <3>2 DEF TrimOne, Store!Evict
    <3> QED
      BY <2>1, <3>3 DEF Store!StoreNext
  <2>3. CASE UNCHANGED <<dir, damaged>>
    BY <1>1, <1>5, <2>3 DEF TrimOne, Offered
  <2> QED
    BY <1>5, <2>2, <2>3 DEF TrimOne, n
<1>6. CASE TakeRead
  <2> DEFINE n == First(list)
  <2>1. n \in list /\ n \in dir
    BY <1>6, LoopHead DEF TakeRead
  <2> HIDE DEF n
  <2>2. CASE ReadFails(n)
    BY <1>1, <1>6, <2>2 DEF TakeRead, ReadFails, TakeFailed, Offered
  <2>3. CASE ReadSound(n)
    BY <1>1, <1>6, <2>3 DEF TakeRead, ReadSound, Offered
  <2>4. CASE ReadDamaged(n)
    <3>1. CASE dir' = dir \ {n} /\ damaged' = damaged \ {n}
      <4>1. Store!Discard(n)
        BY <1>6, <2>4, <3>1 DEF TakeRead, ReadDamaged, Store!Discard
      <4> QED
        BY <2>1, <4>1 DEF Store!StoreNext
    <3>2. CASE UNCHANGED <<dir, damaged>>
      BY <1>1, <1>6, <2>4, <3>2 DEF TakeRead, ReadDamaged, Offered
    <3> QED
      BY <2>4, <3>1, <3>2 DEF ReadDamaged
  <2> QED
    BY <1>6, <2>2, <2>3, <2>4 DEF TakeRead, n
<1>7. CASE TakeDone
  <2>1. pc = "read" /\ pc' = "taken" /\ list = {} /\ UNCHANGED <<dir, damaged, entries>>
    BY <1>7 DEF TakeDone, disk
  <2>2. Store!Oldest(dir, MaxBatch) = Oldest(dir, MaxBatch)
    BY SameListings
  <2>3. entries \subseteq Oldest(dir, MaxBatch) \ damaged
    BY <2>1 DEF OldestFirst, SpoolType
  <2>4. \A n \in entries, m \in dir \ damaged : m < n => m \in entries
    BY <2>1 DEF OldestFirst
  <2>5. Store!Offer(entries)
    BY <2>1, <2>2, <2>3, <2>4 DEF Store!Offer
  <2>6. entries \in SUBSET dir
    BY DEF SpoolType
  <2> QED
    BY <2>5, <2>6 DEF Store!StoreNext
<1>8. CASE Keep
  <2>1. Store!Forget({}, {})
    BY <1>8 DEF Keep, disk, Store!Forget
  <2> QED
    BY <2>1 DEF Store!StoreNext
<1>9. CASE DropOne
  <2> DEFINE n == First(entries)
  <2>1. n \in entries /\ n \in dir
    BY <1>9, LoopHead DEF DropOne
  <2>2. pc = "drop" /\ pc' = pc /\ entries' = entries \ {n} /\ damaged' = damaged
    BY <1>9 DEF DropOne
  <2> HIDE DEF n
  <2>3. CASE dir' = dir \ {n}
    <3>1. Store!Settle(n)
      BY <2>1, <2>2, <2>3 DEF Store!Settle
    <3> QED
      BY <2>1, <3>1 DEF Store!StoreNext
  <2>4. CASE UNCHANGED dir
    <3>1. Store!Forget(entries \ {n}, {})
      BY <2>2, <2>4 DEF Store!Forget
    <3>2. entries \ {n} \in SUBSET Offered
      BY <2>2 DEF Offered
    <3> QED
      BY <3>1, <3>2 DEF Store!StoreNext, Offered
  <2> QED
    BY <1>9, <2>3, <2>4 DEF DropOne, n
<1>10. ASSUME NEW D \in SUBSET dir, Crash(D) PROVE Store!StoreNext
  <2>1. Store!Forget({}, D)
    BY <1>10 DEF Crash, Store!Forget
  <2> QED
    BY <2>1 DEF Store!StoreNext
<1>11. CASE UNCHANGED vars
  BY <1>1, <1>11 DEF vars, Offered
<1> QED
  BY <1>1, <1>2, <1>3, <1>4, <1>5, <1>6, <1>7, <1>8, <1>9, <1>10, <1>11 DEF Next, Call

\* The spool implements ReadingStore: a reading leaves the disk only because Max
\* newer ones are there, because the caller settled it, or because its file was
\* harmed, and a batch passes over no older sound reading - wherever the process
\* dies, whichever calls fail and whatever the clock reads at a restart.
THEOREM PromiseKept == Spec => KeepsPromise
<1>1. Init => Store!StoreInit
  BY DEF Init, Store!StoreInit
<1>2. SpoolInv /\ [Next]_vars => [Store!StoreNext]_(Store!storeVars)
  BY RefinesStep
<1> QED
  BY <1>1, <1>2, SpoolInvariant, PTL DEF Spec, KeepsPromise, Store!StoreSpec
=============================================================================
