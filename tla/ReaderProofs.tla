---------------------------- MODULE ReaderProofs ----------------------------
(***************************************************************************)
(* Theorems about four of the readers.  PackageIndex, for any packages,    *)
(* paths and names: whatever dpkg does while its database is read, an index*)
(* that will be kept is the database's.  DiskWalk, for any tree and budget:*)
(* no directory under the mount goes without its share of the time, and a  *)
(* scan that is not partial accounts for every byte.  ReaderCaches, for any*)
(* changes of the files: an answer that is given again is still right.     *)
(* JournalReader, for any journal: the lines are the newest, and an hour is*)
(* counted whole or is said to be short.                                   *)
(***************************************************************************)
EXTENDS PackageIndex, DiskWalk, ReaderCaches, JournalReader, OrderProofs

-----------------------------------------------------------------------------
(* PackageIndex: the invariant, in parts.                                  *)
Count == Cardinality(Packages)

\* The packages up to number n that have a path, or a program of a name.
Has(k, p) == version[k] # 0 /\ p \in lists[k]
Named(k, c) == \E p \in ProgramPaths : CommName[p] = c /\ Has(k, p)

Index == [time : Int, version : [Packages -> Nat], byPath : [Paths -> Int],
          byName : [Names -> Int], skipped : BOOLEAN]

PackageType ==
    /\ version \in [Packages -> Nat] /\ lists \in [Packages -> SUBSET Paths]
    /\ statusTime \in Nat /\ upgrading \in Packages \cup {0}
    /\ next \in 1..Count + 1 /\ refresh \in {"idle", "status", "lists"}
    /\ draft \in Index /\ index \in Index

\* Of the packages before n, a path has the first that lists it, and a name
\* the only one, or it is known to have several.
PathRight(owner, p, n) ==
    \/ owner = Nobody /\ \A k \in Packages : k < n => ~Has(k, p)
    \/ owner \in Packages /\ owner < n /\ Has(owner, p)
       /\ \A k \in Packages : k < owner => ~Has(k, p)

NameRight(owner, c, n) ==
    \/ owner = Nobody /\ \A k \in Packages : k < n => ~Named(k, c)
    \/ owner \in Packages /\ owner < n
       /\ \A k \in Packages : k < n => (Named(k, c) <=> k = owner)
    \/ owner = Several

\* What an index says, if dpkg's database has not been touched since its time
\* was taken and no list was skipped.
Good(ix, n) ==
    ix.time = statusTime /\ upgrading = 0 =>
        /\ ix.version = version
        /\ ~ix.skipped =>
             /\ \A p \in Paths : PathRight(ix.byPath[p], p, n)
             /\ \A c \in Names : NameRight(ix.byName[c], c, n)

Fresh == [byPath |-> [p \in Paths |-> Nobody], byName |-> [c \in Names |-> Nobody]]

PackageInv ==
    /\ PackageType
    /\ draft.time <= statusTime /\ index.time <= statusTime
    /\ refresh = "status" => draft.byPath = Fresh.byPath /\ draft.byName = Fresh.byName
    /\ refresh = "lists" => Good(draft, next)
    /\ Good(index, Count + 1)

-----------------------------------------------------------------------------
(* PackageIndex: what the steps do.                                        *)

LEMMA PackagesCounted ==
  Count \in Nat /\ Packages = 1..Count /\ Packages \subseteq Nat \ {0}
BY PackageAssumptions, FS_CardinalityType DEF Count

\* While dpkg does nothing a good index stays good.
LEMMA SameIsGood ==
  ASSUME NEW ix, NEW n, Good(ix, n), UNCHANGED dpkg
  PROVE  /\ ix.time = statusTime' /\ upgrading' = 0 =>
              /\ ix.version = version'
              /\ ~ix.skipped =>
                   /\ \A p \in Paths : PathRight(ix.byPath[p], p, n)'
                   /\ \A c \in Names : NameRight(ix.byName[c], c, n)'
BY DEF Good, dpkg, PathRight, NameRight, Has, Named

\* One more list: what the packages before it have, and what it has.
LEMMA PathStep ==
  ASSUME PackageType, NEW n \in Packages, NEW p \in Paths, NEW owner, PathRight(owner, p, n),
         version[n] # 0
  PROVE  PathRight(IF p \in lists[n] THEN FirstOwner(owner, n) ELSE owner, p, n + 1)
<1>1. \A k \in Packages : k \in Nat /\ k # 0 /\ (k < n + 1 <=> k < n \/ k = n)
  BY PackagesCounted
<1>2. Has(n, p) <=> p \in lists[n]
  BY DEF Has
<1>3. CASE owner = Nobody
  BY <1>1, <1>2, <1>3 DEF PathRight, FirstOwner, Nobody
<1>4. CASE owner # Nobody
  BY <1>1, <1>2, <1>4 DEF PathRight, FirstOwner, Nobody
<1> QED  BY <1>3, <1>4

LEMMA NameStep ==
  ASSUME PackageType, NEW n \in Packages, NEW c \in Names, NEW owner, NameRight(owner, c, n),
         version[n] # 0
  PROVE  NameRight(IF c \in {CommName[p] : p \in lists[n] \cap ProgramPaths}
                   THEN OnlyOwner(owner, n) ELSE owner, c, n + 1)
<1>1. \A k \in Packages : k \in Nat /\ k # 0 /\ (k < n + 1 <=> k < n \/ k = n)
  BY PackagesCounted
<1>2. Named(n, c) <=> c \in {CommName[p] : p \in lists[n] \cap ProgramPaths}
  BY DEF Named, Has
<1>3. n \notin {Nobody, Several} /\ n \in Int
  BY <1>1 DEF Nobody, Several
<1>4. CASE owner = Nobody
  BY <1>1, <1>2, <1>3, <1>4 DEF NameRight, OnlyOwner, Nobody, Several
<1>5. CASE owner = Several
  BY <1>1, <1>2, <1>3, <1>5 DEF NameRight, OnlyOwner, Nobody, Several
<1>6. CASE owner \notin {Nobody, Several}
  <2>1. owner \in Packages /\ owner < n /\ \A k \in Packages : k < n => (Named(k, c) <=> k = owner)
    BY <1>6 DEF NameRight
  <2>2. owner # n
    BY <1>1, <2>1
  <2> QED  BY <1>1, <1>2, <1>3, <1>6, <2>1, <2>2 DEF NameRight, OnlyOwner
<1> QED  BY <1>4, <1>5, <1>6

\* A list that is passed over belongs to a package that is not installed.
LEMMA PassedOver ==
  ASSUME PackageType, NEW n \in Packages, version[n] = 0
  PROVE  /\ \A p \in Paths : \A owner : PathRight(owner, p, n) => PathRight(owner, p, n + 1)
         /\ \A c \in Names : \A owner : NameRight(owner, c, n) => NameRight(owner, c, n + 1)
<1>1. \A k \in Packages : k \in Nat /\ k # 0 /\ (k < n + 1 <=> k < n \/ k = n)
  BY PackagesCounted
<1>2. (\A p : ~Has(n, p)) /\ \A c : ~Named(n, c)
  BY DEF Has, Named
<1>3. ASSUME NEW p \in Paths, NEW owner, PathRight(owner, p, n)
      PROVE  PathRight(owner, p, n + 1)
  BY <1>1, <1>2, <1>3 DEF PathRight
<1>4. ASSUME NEW c \in Names, NEW owner, NameRight(owner, c, n)
      PROVE  NameRight(owner, c, n + 1)
  BY <1>1, <1>2, <1>4 DEF NameRight
<1> QED  BY <1>3, <1>4

LEMMA NoIndexType == NoIndex \in Index
BY DEF NoIndex, Index, Nobody

LEMMA PackageInitHolds ==
  PackageInit => PackageInv
<1> SUFFICES ASSUME PackageInit
             PROVE  PackageInv
  OBVIOUS
<1>1. PackageType
  BY PackagesCounted, PackageAssumptions, NoIndexType DEF PackageInit, PackageStart, PackageType
<1>2. NoIndex.time = -1
  BY DEF NoIndex
<1>3. Good(index, Count + 1)
  BY <1>2 DEF Good, PackageInit, PackageStart
<1> QED  BY <1>1, <1>2, <1>3 DEF PackageInv, PackageInit, PackageStart

\* dpkg begins its work: nothing that was taken holds of what it leaves.
LEMMA UnpackStep ==
  ASSUME PackageInv, NEW k \in Packages, NEW p \in Paths, Unpack(k, p)
  PROVE  PackageInv'
<1>1. /\ UNCHANGED <<version, statusTime, refresh, next, draft, index>>
      /\ upgrading' = k /\ k # 0
  BY PackagesCounted DEF Unpack
<1>2. SymDiff(lists[k], {p}) \subseteq Paths
  BY DEF PackageInv, PackageType, SymDiff
<1>3. lists' \in [Packages -> SUBSET Paths]
  BY <1>2 DEF PackageInv, PackageType, Unpack
<1>4. PackageType'
  BY <1>1, <1>3 DEF PackageInv, PackageType
<1> QED  BY <1>1, <1>4 DEF PackageInv, Good

\* dpkg ends its work: what was taken before is not of that time.
LEMMA SettleStep ==
  ASSUME PackageInv, Settle
  PROVE  PackageInv'
<1>1. UNCHANGED <<lists, refresh, next, draft, index>>
  BY DEF Settle
<1>2. draft.time \in Int /\ index.time \in Int /\ statusTime \in Nat
  BY DEF PackageInv, PackageType, Index
<1>3. statusTime' = statusTime + 1 /\ upgrading' = 0 /\ upgrading \in Packages
  BY DEF Settle, PackageInv, PackageType
<1>4. version' \in [Packages -> Nat]
  BY <1>2, <1>3 DEF PackageInv, PackageType, Settle
<1>5. PackageType'
  BY <1>1, <1>2, <1>3, <1>4 DEF PackageInv, PackageType
<1>6. draft.time < statusTime' /\ index.time < statusTime'
  BY <1>2, <1>3 DEF PackageInv
<1>7. draft.time # statusTime' /\ index.time # statusTime'
  BY <1>2, <1>3, <1>6
<1> QED  BY <1>1, <1>2, <1>3, <1>5, <1>6, <1>7 DEF PackageInv, Good

\* A step of the agent that leaves the index that is kept alone.
LEMMA KeptIsGood ==
  ASSUME PackageInv, UNCHANGED <<dpkg, index>>
  PROVE  Good(index, Count + 1)' /\ index'.time <= statusTime'
<1>1. Good(index, Count + 1)
  BY DEF PackageInv
<1>2. index' = index /\ statusTime' = statusTime /\ Count' = Count
  BY DEF dpkg, Count
<1> QED  BY <1>1, <1>2, SameIsGood DEF Good, PackageInv

LEMMA ReadListStep ==
  ASSUME PackageInv, ReadList
  PROVE  PackageInv'
<1>0. PICK paths \in SUBSET lists[next] :
         /\ draft.version[next] = 0 => draft' = draft
         /\ draft.version[next] # 0 => draft' = WithList(paths)
  BY DEF ReadList
<1> DEFINE n == next
           comms == {CommName[p] : p \in paths \cap ProgramPaths}
           byPath == [p \in Paths |-> IF p \in paths THEN FirstOwner(draft.byPath[p], n) ELSE draft.byPath[p]]
           byName == [c \in Names |-> IF c \in comms THEN OnlyOwner(draft.byName[c], n) ELSE draft.byName[c]]
<1>1. /\ refresh = "lists" /\ n \in Packages /\ next' = n + 1 /\ UNCHANGED <<dpkg, refresh, index>>
      /\ \/ /\ draft.version[n] # 0
            /\ draft' = [draft EXCEPT !.byPath = byPath, !.byName = byName,
                                      !.skipped = draft.skipped \/ paths # lists[n]]
         \/ draft.version[n] = 0 /\ draft' = draft
  BY <1>0 DEF ReadList, WithList
<1>2. UNCHANGED <<version, lists, statusTime, upgrading>>
  BY <1>1 DEF dpkg
<1>3. Good(index, Count + 1)' /\ index'.time <= statusTime'
  BY <1>1, KeptIsGood
<1>4. draft \in Index /\ n \in Nat /\ Good(draft, n) /\ n + 1 \in 1..Count + 1
  BY <1>1, PackagesCounted DEF PackageInv, PackageType
<1>5. byPath \in [Paths -> Int] /\ byName \in [Names -> Int]
  <2>1. \A p \in Paths : byPath[p] \in Int
    BY <1>4 DEF Index, FirstOwner
  <2>2. \A c \in Names : byName[c] \in Int
    BY <1>4 DEF Index, OnlyOwner, Several
  <2> QED  BY <2>1, <2>2
<1>6. draft' \in Index
  <2> HIDE DEF byPath, byName
  <2>1. CASE draft' = [draft EXCEPT !.byPath = byPath, !.byName = byName,
                                    !.skipped = draft.skipped \/ paths # lists[n]]
    BY <1>4, <1>5, <2>1 DEF Index
  <2>2. CASE draft' = draft
    BY <1>4, <2>2
  <2> QED  BY <1>1, <2>1, <2>2
<1>7. draft'.time = draft.time /\ draft'.version = draft.version
  <2> HIDE DEF byPath, byName
  <2> QED  BY <1>1, <1>4 DEF Index
<1>8. PackageType'
  BY <1>1, <1>2, <1>4, <1>6 DEF PackageInv, PackageType, Count
<1>9. ASSUME draft.time = statusTime, upgrading = 0, ~draft'.skipped
      PROVE  /\ \A p \in Paths : PathRight(draft'.byPath[p], p, n + 1)
             /\ \A c \in Names : NameRight(draft'.byName[c], c, n + 1)
  <2>1. draft.version = version
    BY <1>4, <1>9 DEF Good
  <2>2. CASE /\ draft.version[n] # 0
             /\ draft' = [draft EXCEPT !.byPath = byPath, !.byName = byName,
                                       !.skipped = draft.skipped \/ paths # lists[n]]
    <3>1. /\ draft'.byPath = byPath /\ draft'.byName = byName
          /\ ~draft.skipped /\ paths = lists[n]
      <4> HIDE DEF byPath, byName
      <4> QED  BY <1>4, <1>9, <2>2 DEF Index
    <3>2. /\ \A p \in Paths : PathRight(draft.byPath[p], p, n)
          /\ \A c \in Names : NameRight(draft.byName[c], c, n)
      BY <1>4, <1>9, <3>1 DEF Good
    <3>3. ASSUME NEW p \in Paths
          PROVE  PathRight(byPath[p], p, n + 1)
      BY <1>1, <2>1, <2>2, <3>1, <3>2, PathStep DEF PackageInv
    <3>4. ASSUME NEW c \in Names
          PROVE  NameRight(byName[c], c, n + 1)
      BY <1>1, <2>1, <2>2, <3>1, <3>2, NameStep DEF PackageInv
    <3> HIDE DEF byPath, byName
    <3> QED  BY <3>1, <3>3, <3>4
  <2>3. CASE draft.version[n] = 0 /\ draft' = draft
    <3>1. /\ draft'.byPath = draft.byPath /\ draft'.byName = draft.byName
          /\ ~draft.skipped /\ version[n] = 0
      BY <1>4, <1>9, <2>1, <2>3 DEF Index
    <3>2. /\ \A p \in Paths : PathRight(draft.byPath[p], p, n)
          /\ \A c \in Names : NameRight(draft.byName[c], c, n)
      BY <1>4, <1>9, <3>1 DEF Good
    <3> QED  BY <1>1, <3>1, <3>2, PassedOver DEF PackageInv
  <2> QED  BY <1>1, <2>2, <2>3
<1>10. Good(draft, next)'
  <2>1. ASSUME draft'.time = statusTime', upgrading' = 0
        PROVE  draft'.version = version'
    BY <1>2, <1>4, <1>7, <2>1 DEF Good
  <2>2. ASSUME draft'.time = statusTime', upgrading' = 0, ~draft'.skipped
        PROVE  /\ \A p \in Paths : PathRight(draft.byPath[p], p, next)'
               /\ \A c \in Names : NameRight(draft.byName[c], c, next)'
    <3>1. /\ \A p \in Paths : PathRight(draft'.byPath[p], p, n + 1)
          /\ \A c \in Names : NameRight(draft'.byName[c], c, n + 1)
      BY <1>2, <1>7, <1>9, <2>2
    <3> QED  BY <1>1, <1>2, <3>1 DEF PathRight, NameRight, Has, Named
  <2> QED  BY <2>1, <2>2 DEF Good
<1>11. draft'.time <= statusTime'
  BY <1>2, <1>7 DEF PackageInv
<1> QED  BY <1>1, <1>3, <1>8, <1>10, <1>11 DEF PackageInv

LEMMA PackageStep ==
  PackageInv /\ [PackageNext]_packageVars => PackageInv'
<1> SUFFICES ASSUME PackageInv, [PackageNext]_packageVars
             PROVE  PackageInv'
  OBVIOUS
<1>1. ASSUME NEW k \in Packages, NEW p \in Paths, Unpack(k, p)
      PROVE  PackageInv'
  BY <1>1, UnpackStep
<1>2. CASE Settle
  BY <1>2, SettleStep
<1>3. CASE Refresh
  <2>1. /\ refresh' = "status" /\ draft' = [NoIndex EXCEPT !.time = statusTime]
        /\ UNCHANGED <<dpkg, next, index>>
    BY <1>3 DEF Refresh
  <2>2. /\ draft' \in Index /\ draft'.time = statusTime
        /\ draft'.byPath = Fresh.byPath /\ draft'.byName = Fresh.byName
    <3>1. statusTime \in Int
      BY DEF PackageInv, PackageType
    <3>2. draft' \in Index /\ draft'.time = statusTime
          /\ draft'.byPath = NoIndex.byPath /\ draft'.byName = NoIndex.byName
      BY <2>1, <3>1, NoIndexType DEF Index
    <3>3. NoIndex.byPath = Fresh.byPath /\ NoIndex.byName = Fresh.byName
      BY DEF NoIndex, Fresh
    <3> QED  BY <3>2, <3>3
  <2>3. PackageType'
    BY <2>1, <2>2 DEF PackageInv, PackageType, dpkg, Count
  <2>4. draft'.time <= statusTime' /\ Fresh' = Fresh
    BY <2>1, <2>2 DEF PackageInv, PackageType, dpkg, Fresh
  <2> QED  BY <2>1, <2>2, <2>3, <2>4, KeptIsGood DEF PackageInv
<1>4. CASE ReadStatus
  <2>1. /\ refresh = "status" /\ refresh' = "lists" /\ next' = 1
        /\ draft' = [draft EXCEPT !.version = version] /\ UNCHANGED <<dpkg, index>>
    BY <1>4 DEF ReadStatus
  <2>2. UNCHANGED <<version, lists, statusTime, upgrading>>
    BY <2>1 DEF dpkg
  <2>3. /\ draft' \in Index /\ draft'.time = draft.time /\ draft'.version = version
        /\ draft'.byPath = Fresh.byPath /\ draft'.byName = Fresh.byName
    <3>1. draft \in Index /\ version \in [Packages -> Nat]
          /\ draft.byPath = Fresh.byPath /\ draft.byName = Fresh.byName
      BY <2>1 DEF PackageInv, PackageType
    <3> QED  BY <2>1, <3>1 DEF Index
  <2>4. PackageType'
    BY <2>1, <2>2, <2>3, PackagesCounted DEF PackageInv, PackageType, Count
  <2>5. Good(draft, next)'
    <3>1. /\ \A p \in Paths : draft'.byPath[p] = Nobody
          /\ \A c \in Names : draft'.byName[c] = Nobody
      BY <2>3 DEF Fresh
    <3>2. \A k \in Packages : ~(k < next')
      BY <2>1, PackagesCounted
    <3> QED  BY <2>2, <2>3, <3>1, <3>2 DEF Good, PathRight, NameRight
  <2>6. draft'.time <= statusTime'
    BY <2>2, <2>3 DEF PackageInv
  <2> QED  BY <2>1, <2>4, <2>5, <2>6, KeptIsGood DEF PackageInv
<1>5. CASE ReadStatusFails
  <2>1. refresh' = "idle" /\ draft' = NoIndex /\ UNCHANGED <<dpkg, next, index>>
    BY <1>5 DEF ReadStatusFails
  <2>2. draft'.time = -1 /\ statusTime' \in Nat
    BY <2>1 DEF NoIndex, PackageInv, PackageType, dpkg
  <2>3. PackageType'
    BY <2>1, NoIndexType DEF PackageInv, PackageType, dpkg, Count
  <2> QED  BY <2>1, <2>2, <2>3, KeptIsGood DEF PackageInv
<1>6. CASE KeepIndex
  <2>1. /\ refresh = "lists" /\ next \notin Packages /\ refresh' = "idle" /\ next' = 1
        /\ index' = [draft EXCEPT !.time = draft.time] /\ draft' = NoIndex /\ UNCHANGED dpkg
    BY <1>6 DEF KeepIndex, IndexTime
  <2>2. index' = draft /\ draft \in Index
    BY <2>1 DEF PackageInv, PackageType, Index
  <2>3. next = Count + 1
    BY <2>1, PackagesCounted DEF PackageInv, PackageType
  <2>4. Good(draft, Count + 1)
    BY <2>1, <2>3 DEF PackageInv
  <2>5. Good(index, Count + 1)'
    <3>1. Count' = Count
      BY DEF Count
    <3> QED  BY <2>1, <2>2, <2>4, <3>1, SameIsGood DEF Good
  <2>6. PackageType'
    BY <2>1, <2>2, NoIndexType, PackagesCounted DEF PackageInv, PackageType, dpkg, Count
  <2>7. index'.time <= statusTime' /\ draft'.time <= statusTime'
    BY <2>1, <2>2 DEF PackageInv, PackageType, NoIndex, dpkg
  <2> QED  BY <2>1, <2>5, <2>6, <2>7 DEF PackageInv
<1>7. CASE UNCHANGED <<dpkg, refresh, next, draft, index>>
  <2>1. UNCHANGED <<version, lists, statusTime, upgrading>> /\ Fresh' = Fresh
    BY <1>7 DEF dpkg, Fresh
  <2>2. PackageType'
    BY <1>7, <2>1 DEF PackageInv, PackageType, Count
  <2>3. refresh = "lists" => Good(draft, next)'
    BY <1>7, <2>1 DEF PackageInv, Good, PathRight, NameRight, Has, Named
  <2> QED  BY <1>7, <2>1, <2>2, <2>3, KeptIsGood DEF PackageInv
<1> QED
  BY <1>1, <1>2, <1>3, <1>4, <1>5, <1>6, <1>7, ReadListStep
  DEF PackageNext, PackageTick, packageVars, dpkg

LEMMA PackagesInvariant ==
  PackageSpec => []PackageInv
BY PackageInitHolds, PackageStep, PTL DEF PackageSpec

-----------------------------------------------------------------------------
\* An index that is kept until dpkg writes its status again says what dpkg's
\* database says (refresh takes the status file's time before it reads, and a
\* name two packages have stands for neither), although it was read list by
\* list while dpkg was at work.
THEOREM IndexIsRight ==
  PackageSpec => []IndexRight
<1>1. PackageInv => IndexRight
  <2> SUFFICES ASSUME PackageInv, index.time = statusTime, upgrading = 0, ~index.skipped
               PROVE  LET owners(p) == {k \in Packages : version[k] # 0 /\ p \in lists[k]}
                          named(c) == UNION {owners(p) : p \in {q \in ProgramPaths : CommName[q] = c}}
                      IN  /\ index.version = version
                          /\ \A exe \in Executables, argv0 \in Paths, comm \in Names :
                               LET r == resolve(exe, argv0, comm) IN
                               /\ exe.kind = "read" /\ owners(exe.path) # {} =>
                                      r = [key |-> Min(owners(exe.path)), match |-> "executable"]
                               /\ r.match = "command" => r.key \in owners(argv0)
                               /\ r.match = "name" => named(comm) = {r.key}
    BY DEF IndexRight
  <2> DEFINE owners(p) == {k \in Packages : version[k] # 0 /\ p \in lists[k]}
             named(c) == UNION {owners(p) : p \in {q \in ProgramPaths : CommName[q] = c}}
  <2>1. /\ index.version = version
        /\ \A p \in Paths : PathRight(index.byPath[p], p, Count + 1)
        /\ \A c \in Names : NameRight(index.byName[c], c, Count + 1)
    BY DEF PackageInv, Good
  <2>2. \A k \in Packages : k \in Nat /\ k # 0 /\ k < Count + 1
    BY PackagesCounted
  <2>3. ASSUME NEW p \in Paths
        PROVE  /\ lookup(p) = Nobody <=> owners(p) = {}
               /\ lookup(p) # Nobody => lookup(p) \in owners(p) /\ Min(owners(p)) = lookup(p)
    <3>1. PathRight(index.byPath[p], p, Count + 1)
      BY <2>1
    <3>2. CASE lookup(p) = Nobody
      BY <2>2, <3>1, <3>2 DEF PathRight, Has, Nobody, lookup
    <3>3. CASE lookup(p) # Nobody
      <4>1. lookup(p) \in owners(p) /\ \A k \in owners(p) : ~(k < lookup(p))
        BY <2>2, <3>1, <3>3 DEF PathRight, Has, Nobody, lookup
      <4>2. \A k \in owners(p) : k \in Nat
        BY <2>2
      <4> HIDE DEF owners
      <4>3. \A x \in owners(p) : (\A y \in owners(p) : x <= y) <=> x = lookup(p)
        BY <4>1, <4>2
      <4>4. Min(owners(p)) = lookup(p)
        BY <4>1, <4>3 DEF Min
      <4> QED  BY <3>3, <4>1, <4>4
    <3> QED  BY <3>2, <3>3
  <2>4. ASSUME NEW c \in Names, lookupName(c) # Nobody
        PROVE  named(c) = {lookupName(c)}
    <3>1. NameRight(index.byName[c], c, Count + 1)
      BY <2>1
    <3>2. lookupName(c) = index.byName[c] /\ index.byName[c] # Several
      BY <2>4 DEF lookupName
    <3>3. /\ lookupName(c) \in Packages
          /\ \A k \in Packages : Named(k, c) <=> k = lookupName(c)
      BY <2>2, <2>4, <3>1, <3>2 DEF NameRight
    <3>4. \A k : k \in named(c) <=> k \in Packages /\ Named(k, c)
      BY DEF Named, Has
    <3> HIDE DEF named
    <3> QED  BY <3>3, <3>4
  <2>5. ASSUME NEW exe \in Executables, NEW argv0 \in Paths, NEW comm \in Names
        PROVE  LET r == resolve(exe, argv0, comm) IN
               /\ exe.kind = "read" /\ owners(exe.path) # {} =>
                      r = [key |-> Min(owners(exe.path)), match |-> "executable"]
               /\ r.match = "command" => r.key \in owners(argv0)
               /\ r.match = "name" => named(comm) = {r.key}
    <3>1. exe.path \in Paths
      BY DEF Executables
    <3> HIDE DEF owners, named
    <3>2. ASSUME exe.kind = "read", owners(exe.path) # {}
          PROVE  resolve(exe, argv0, comm) = [key |-> Min(owners(exe.path)), match |-> "executable"]
      BY <2>3, <3>1, <3>2 DEF resolve, Deleted, Unreadable
    <3>3. resolve(exe, argv0, comm).match = "command" =>
            resolve(exe, argv0, comm).key = lookup(argv0) /\ lookup(argv0) # Nobody
      BY DEF resolve, NoPackage
    <3>4. resolve(exe, argv0, comm).match = "name" =>
            resolve(exe, argv0, comm).key = lookupName(comm) /\ lookupName(comm) # Nobody
      BY DEF resolve, NoPackage
    <3> QED  BY <2>3, <2>4, <3>2, <3>3, <3>4
  <2> QED  BY <2>1, <2>5
<1> QED  BY <1>1, PackagesInvariant, PTL

-----------------------------------------------------------------------------
(* DiskWalk: the time that is left is enough for a fair share each of the  *)
(* subtrees that are left.                                                 *)
Subtrees == {d \in Dirs \ {0} : Parent[d] = 0 /\ d \notin LeftOut}
Trees == Cardinality(Subtrees)
FairShare == IF Subtrees = {} THEN 1 ELSE (UsageBudget - Slowest) \div Trees

DiskType ==
    /\ elapsed \in Nat /\ spent \in Nat /\ allotted \in Nat /\ over \in Nat
    /\ stopped \in BOOLEAN /\ scan \in {"idle", "subtrees", "walk", "done"}
    /\ todo \in Seq(Subtrees)

\* Every subtree has begun or is to come.
NoneForgotten ==
    /\ access[0] = "ok" /\ scan # "idle" => Subtrees \subseteq DOMAIN shares \cup Range(todo)
    /\ scan = "walk" => todo # <<>> /\ Head(todo) \in DOMAIN shares

\* While no system call overran a share, every share given was fair, and so
\* will be the next: within a walk, whatever of its share the walk still takes.
TimeLeft ==
    over = 0 =>
        /\ \A d \in DOMAIN shares : shares[d] >= FairShare
        /\ scan = "subtrees" => UsageBudget - elapsed >= FairShare * Len(todo)
        /\ scan = "walk" =>
              /\ spent <= allotted
              /\ UsageBudget - elapsed - (allotted - spent) >= FairShare * (Len(todo) - 1)

AllBegun == scan = "done" /\ access[0] = "ok" /\ ~stopped /\ over = 0 => todo = <<>>

DiskInv == DiskType /\ NoneForgotten /\ TimeLeft /\ AllBegun

\* The budget outlasts the listing of the mount by a tick for every subtree.
RoomForAll == UsageBudget - Slowest >= Trees

LEMMA LargerOfZero ==
  ASSUME NEW x \in Int
  PROVE  Max({0, x}) = IF x > 0 THEN x ELSE 0
BY DEF Max

\* An equal share of what is left leaves as much for each of the others.
LEMMA ShareArithmetic ==
  ASSUME NEW r \in Nat, NEW n \in Nat \ {0}, NEW g \in Nat, g * n <= r
  PROVE  /\ r \div n \in Nat /\ r \div n >= g
         /\ r - r \div n >= g * (n - 1)
<1>1. PICK q \in Int : q = r \div n
  OBVIOUS
<1>2. n * q <= r /\ r < n * q + n
  BY <1>1
<1>3. q >= g
  <2> SUFFICES ASSUME q + 1 <= g
               PROVE  FALSE
    BY <1>1
  <2>1. n * (q + 1) <= n * g
    BY <1>1
  <2>2. n * (q + 1) = n * q + n
    BY <1>1
  <2>3. n * g = g * n /\ n * g \in Int /\ n * q \in Int
    BY <1>1
  <2> QED  BY <1>2, <2>1, <2>2, <2>3
<1>4. r - q >= g * (n - 1)
  <2>1. (n - 1) * q >= (n - 1) * g
    BY <1>1, <1>3
  <2>2. (n - 1) * q = n * q - q /\ (n - 1) * g = g * (n - 1)
    BY <1>1
  <2>3. n * q \in Int /\ (n - 1) * g \in Int
    BY <1>1
  <2> QED  BY <1>1, <1>2, <2>1, <2>2, <2>3
<1> QED  BY <1>1, <1>3, <1>4

LEMMA SubtreesCounted ==
  /\ Subtrees \subseteq Nodes /\ Subtrees \in SUBSET Nat
  /\ IsFiniteSet(Subtrees) /\ Trees \in Nat /\ (Trees = 0 <=> Subtrees = {})
<1>1. Subtrees \subseteq Nodes
  BY DEF Subtrees, Dirs
<1>2. Nodes \subseteq Nat /\ IsFiniteSet(Nodes)
  BY DiskAssumptions, FS_CardinalityType
<1>3. IsFiniteSet(Subtrees)
  BY <1>1, <1>2, FS_Subset
<1> QED  BY <1>1, <1>2, <1>3, FS_CardinalityType, FS_EmptySet DEF Trees

LEMMA FairShareFits ==
  ASSUME RoomForAll
  PROVE  FairShare \in Nat \ {0} /\ FairShare * Trees <= UsageBudget - Slowest
<1>1. UsageBudget \in Nat /\ Slowest \in Nat /\ Trees \in Nat
  BY DiskAssumptions, SubtreesCounted
<1>2. CASE Subtrees = {}
  BY <1>1, <1>2, SubtreesCounted DEF FairShare, RoomForAll
<1>3. CASE Subtrees # {}
  <2>1. Trees # 0 /\ FairShare = (UsageBudget - Slowest) \div Trees
    BY <1>3, SubtreesCounted DEF FairShare
  <2>2. PICK r \in Nat : r = UsageBudget - Slowest /\ r >= Trees
    BY <1>1 DEF RoomForAll
  <2>3. PICK n \in Nat \ {0} : n = Trees
    BY <1>1, <2>1
  <2>4. PICK q \in Int : q = r \div n
    OBVIOUS
  <2>5. n * q <= r /\ r < n * q + n
    BY <2>4
  <2>6. q >= 1
    <3>1. 1 * n <= r
      BY <2>2, <2>3
    <3> QED  BY <3>1, <2>4, ShareArithmetic
  <2>7. q * n = n * q
    BY <2>4
  <2> QED  BY <2>1, <2>2, <2>3, <2>4, <2>5, <2>6, <2>7
<1> QED  BY <1>2, <1>3

LEMMA DiskInitHolds ==
  DiskInit => DiskInv
<1> SUFFICES ASSUME DiskStart
             PROVE  DiskInv
  BY DEF DiskInit
<1>1. scan = "idle" /\ todo = <<>> /\ DOMAIN shares = {}
  BY DEF DiskStart
<1>2. DiskType
  <2>1. todo \in Seq(Subtrees)
    BY <1>1
  <2> QED  BY <2>1 DEF DiskStart, DiskType
<1>3. NoneForgotten /\ TimeLeft /\ AllBegun
  BY <1>1 DEF NoneForgotten, TimeLeft, AllBegun
<1> QED  BY <1>2, <1>3 DEF DiskInv

\* A subtree is through, or is passed over: those after it are to come.
LEMMA TakenOff ==
  ASSUME DiskType, todo # <<>>
  PROVE  /\ Head(todo) \in Subtrees /\ Tail(todo) \in Seq(Subtrees)
         /\ Len(todo) \in Nat \ {0} /\ Len(Tail(todo)) = Len(todo) - 1
         /\ Range(todo) \subseteq {Head(todo)} \cup Range(Tail(todo))
<1>1. todo \in Seq(Subtrees)
  BY DEF DiskType
<1>2. /\ Head(todo) \in Subtrees /\ Tail(todo) \in Seq(Subtrees)
      /\ Len(todo) \in Nat \ {0} /\ Len(Tail(todo)) = Len(todo) - 1
      /\ Head(todo) = todo[1]
      /\ \A i \in 1..Len(todo) - 1 : Tail(todo)[i] = todo[i + 1]
  BY <1>1
<1>3. ASSUME NEW d \in Range(todo), d # Head(todo)
      PROVE  d \in Range(Tail(todo))
  <2>1. PICK i \in 1..Len(todo) : todo[i] = d
    BY <1>1 DEF Range
  <2>2. i # 1 /\ i - 1 \in 1..Len(todo) - 1
    BY <1>2, <1>3, <2>1
  <2>3. Tail(todo)[i - 1] = d
    BY <1>2, <2>1, <2>2
  <2>4. i - 1 \in DOMAIN Tail(todo)
    BY <1>2, <2>2
  <2> QED  BY <2>3, <2>4 DEF Range
<1> QED  BY <1>2, <1>3

\* The mount was listed: all of its subtrees are to come, and there is time.
LEMMA ListedStep ==
  ASSUME DiskInv, RoomForAll, NEW t \in 0..Slowest, ScanUsage(t)
  PROVE  DiskInv'
<1> DEFINE S == ({n \in Nodes : Parent[n] = 0} \ Files) \ LeftOut
<1>1. /\ scan = "idle" /\ access[0] = "ok" /\ todo' = ReadDir(S)
      /\ scan' = "subtrees" /\ elapsed' = t
      /\ UNCHANGED <<access, stopped, allotted, spent, shares, over>>
  BY DEF ScanUsage
<1>2. S = Subtrees
  BY DiskAssumptions DEF Subtrees, Dirs
<1> HIDE DEF S
<1>3. todo' = Ordered(Subtrees)
  BY <1>1, <1>2 DEF ReadDir, Ordered, RankIn
<1>4. todo' \in Seq(Subtrees) /\ Len(todo') = Trees /\ Range(todo') = Subtrees
  BY <1>3, SubtreesCounted, OrderedShape DEF Trees
<1>5. t \in Nat /\ t <= Slowest /\ Slowest \in Nat /\ UsageBudget \in Nat
  BY DiskAssumptions
<1>6. DiskType'
  BY <1>1, <1>4, <1>5 DEF DiskInv, DiskType
<1>7. NoneForgotten'
  BY <1>1, <1>4 DEF NoneForgotten
<1>8. TimeLeft'
  <2>1. UsageBudget - t >= FairShare * Trees
    <3>1. FairShare * Trees \in Nat
      BY FairShareFits, SubtreesCounted
    <3> QED  BY <1>5, <3>1, FairShareFits
  <2>2. UsageBudget - elapsed' >= FairShare * Len(todo')
    BY <1>1, <1>4, <2>1
  <2> QED  BY <1>1, <2>2 DEF DiskInv, TimeLeft
<1> QED  BY <1>1, <1>6, <1>7, <1>8 DEF DiskInv, AllBegun

\* The next subtree begins.
LEMMA NextSubtreeStep ==
  ASSUME DiskInv, RoomForAll, NextSubtree
  PROVE  DiskInv'
<1> DEFINE given == usageShare(UsageBudget - elapsed, Len(todo))
<1>1. /\ scan = "subtrees" /\ todo # <<>> /\ ~stopped /\ elapsed < UsageBudget
      /\ UNCHANGED <<access, elapsed, stopped, over>>
      /\ shares' = [s \in DOMAIN shares \cup {Head(todo)} |->
                       IF s = Head(todo) THEN given ELSE shares[s]]
  BY DiskAssumptions DEF NextSubtree, Late, DiskInv, DiskType
<1>2. \/ given <= 0 /\ todo' = Tail(todo) /\ UNCHANGED <<scan, allotted, spent>>
      \/ given > 0 /\ scan' = "walk" /\ allotted' = given /\ spent' = 0 /\ todo' = todo
  <2>1. CASE given <= 0
    BY <2>1 DEF NextSubtree
  <2>2. CASE ~(given <= 0)
    <3>1. given \in Int
      BY <1>1, DiskAssumptions, TakenOff DEF DiskInv, DiskType, usageShare
    <3>2. scan' = "walk" /\ allotted' = given /\ spent' = 0 /\ todo' = todo
      BY <2>2 DEF NextSubtree
    <3> HIDE DEF given
    <3> QED  BY <2>2, <3>1, <3>2
  <2> QED  BY <2>1, <2>2
<1>3. /\ Head(todo) \in Subtrees /\ Tail(todo) \in Seq(Subtrees)
      /\ Len(todo) \in Nat \ {0} /\ Len(Tail(todo)) = Len(todo) - 1
      /\ Range(todo) \subseteq {Head(todo)} \cup Range(Tail(todo))
  BY <1>1, TakenOff DEF DiskInv
<1>4. PICK r \in Nat : r = UsageBudget - elapsed
  BY <1>1, DiskAssumptions DEF DiskInv, DiskType
<1>5. PICK n \in Nat \ {0} : n = Len(todo)
  BY <1>3
<1>6. given = r \div n /\ given \in Int
  BY <1>4, <1>5 DEF usageShare
<1>7. PICK g \in Nat \ {0} : g = FairShare
  BY FairShareFits
<1>8. ASSUME over = 0
      PROVE  given > 0 /\ given >= g /\ r - given >= g * (n - 1)
  <2>1. g * n <= r
    BY <1>1, <1>4, <1>5, <1>7, <1>8 DEF DiskInv, TimeLeft
  <2>2. r \div n \in Nat /\ r \div n >= g /\ r - r \div n >= g * (n - 1)
    BY <2>1, ShareArithmetic
  <2> HIDE DEF given
  <2> QED  BY <1>6, <2>2
<1> HIDE DEF given
<1>9. DiskType'
  BY <1>1, <1>2, <1>3, <1>6 DEF DiskInv, DiskType
<1>10. NoneForgotten'
  <2>1. Head(todo) \in DOMAIN shares' /\ DOMAIN shares \subseteq DOMAIN shares'
    BY <1>1
  <2> QED  BY <1>1, <1>2, <1>3, <2>1 DEF DiskInv, NoneForgotten
<1>11. TimeLeft'
  <2> SUFFICES ASSUME over' = 0
               PROVE  TimeLeft'
    BY DEF TimeLeft
  <2>1. over = 0 /\ given > 0 /\ given >= g /\ r - given >= g * (n - 1)
    BY <1>1, <1>8
  <2>2. scan' = "walk" /\ allotted' = given /\ spent' = 0 /\ todo' = todo
    BY <1>2, <1>6, <2>1
  <2>3. \A d \in DOMAIN shares' : shares'[d] >= FairShare
    BY <1>1, <1>7, <2>1 DEF DiskInv, TimeLeft
  <2>4. UsageBudget - elapsed - (given - 0) >= FairShare * (Len(todo) - 1)
    <3>1. UsageBudget \in Nat /\ elapsed \in Nat
      BY DiskAssumptions DEF DiskInv, DiskType
    <3>2. UsageBudget - elapsed - (given - 0) = r - given
      BY <1>4, <1>6, <3>1
    <3> QED  BY <1>5, <1>7, <2>1, <3>2
  <2>5. spent' <= allotted'
    BY <1>6, <2>1, <2>2
  <2>6. UsageBudget - elapsed' - (allotted' - spent') >= FairShare * (Len(todo') - 1)
    BY <1>1, <2>2, <2>4
  <2> QED  BY <2>2, <2>3, <2>5, <2>6 DEF TimeLeft
<1> QED  BY <1>1, <1>2, <1>9, <1>10, <1>11 DEF DiskInv, AllBegun

\* A walk takes its time, and goes on or is through.
LEMMA WalkStep ==
  ASSUME DiskInv, RoomForAll, scan = "walk", NEW t \in Nat,
         elapsed' = elapsed + t, spent' = spent + t,
         over' \in Nat, over' = 0 => over = 0 /\ spent' <= allotted,
         UNCHANGED <<access, stopped, allotted, shares>>,
         \/ UNCHANGED <<scan, todo>>
         \/ scan' = "subtrees" /\ todo' = Tail(todo)
  PROVE  DiskInv'
<1>1. /\ todo # <<>> /\ Head(todo) \in DOMAIN shares
      /\ elapsed \in Nat /\ spent \in Nat /\ allotted \in Nat /\ UsageBudget \in Nat
  BY DiskAssumptions DEF DiskInv, DiskType, NoneForgotten
<1>2. /\ Head(todo) \in Subtrees /\ Tail(todo) \in Seq(Subtrees)
      /\ Len(todo) \in Nat \ {0} /\ Len(Tail(todo)) = Len(todo) - 1
      /\ Range(todo) \subseteq {Head(todo)} \cup Range(Tail(todo))
  BY <1>1, TakenOff DEF DiskInv
<1>3. DiskType'
  BY <1>1, <1>2 DEF DiskInv, DiskType
<1>4. NoneForgotten'
  BY <1>1, <1>2 DEF DiskInv, NoneForgotten
<1>5. TimeLeft'
  <2> SUFFICES ASSUME over' = 0
               PROVE  TimeLeft'
    BY DEF TimeLeft
  <2>1. PICK k \in Nat : k = FairShare * (Len(todo) - 1)
    BY <1>2, FairShareFits
  <2>2. /\ UsageBudget - elapsed - (allotted - spent) >= k /\ spent' <= allotted
        /\ \A d \in DOMAIN shares : shares[d] >= FairShare
    BY <2>1 DEF DiskInv, TimeLeft
  <2>3. UsageBudget - elapsed' - (allotted - spent') >= k
    BY <1>1, <2>2
  <2>4. CASE UNCHANGED <<scan, todo>>
    BY <2>1, <2>2, <2>3, <2>4 DEF TimeLeft
  <2>5. CASE scan' = "subtrees" /\ todo' = Tail(todo)
    <3>1. UsageBudget - elapsed' >= k
      BY <1>1, <2>2, <2>3
    <3>2. UsageBudget - elapsed' >= FairShare * Len(todo')
      BY <1>2, <2>1, <2>5, <3>1
    <3> QED  BY <2>2, <2>5, <3>2 DEF TimeLeft
  <2> QED  BY <2>4, <2>5
<1> QED  BY <1>3, <1>4, <1>5 DEF DiskInv, AllBegun

\* What a system call takes counts against the share it is made in.
LEMMA TakesIsCounted ==
  ASSUME DiskInv, scan = "walk", NEW t \in 0..Slowest, Takes(t), allotted' = allotted
  PROVE  /\ t \in Nat /\ elapsed' = elapsed + t /\ spent' = spent + t
         /\ over' \in Nat /\ (over' = 0 => over = 0 /\ spent' <= allotted)
<1>1. /\ t \in Nat /\ spent \in Nat /\ allotted \in Nat /\ over \in Nat
      /\ elapsed' = elapsed + t /\ spent' = spent + t
  BY DiskAssumptions DEF DiskInv, DiskType, Takes
<1>2. PICK a \in Int : a = spent' - allotted
  BY <1>1
<1>3. PICK b \in Int : b = spent - allotted
  BY <1>1
<1>4. over' = over + Max({0, a}) - Max({0, b})
  BY <1>2, <1>3 DEF Takes
<1>5. /\ Max({0, a}) = IF a > 0 THEN a ELSE 0
      /\ Max({0, b}) = IF b > 0 THEN b ELSE 0
  BY LargerOfZero
<1>6. a >= b /\ (over = 0 => b <= 0)
  BY <1>1, <1>2, <1>3 DEF DiskInv, TimeLeft
<1> QED  BY <1>1, <1>2, <1>3, <1>4, <1>5, <1>6

\* Every other step of a walk, and of the scan.
LEMMA DiskStep ==
  ASSUME RoomForAll, DiskInv, [DiskNext]_diskVars
  PROVE  DiskInv'
<1>1. CASE ScanFails
  <2>1. /\ access[0] # "ok" /\ scan = "idle" /\ scan' = "done"
        /\ UNCHANGED <<access, todo, elapsed, stopped, allotted, spent, shares, over>>
    BY <1>1 DEF ScanFails
  <2> QED  BY <2>1 DEF DiskInv, DiskType, NoneForgotten, TimeLeft, AllBegun
<1>2. CASE NextSubtree
  BY <1>2, NextSubtreeStep
<1>3. CASE StopWalk
  <2>1. /\ scan = "walk" /\ scan' = "subtrees" /\ todo' = Tail(todo)
        /\ UNCHANGED <<access, elapsed, stopped, allotted, spent, shares, over>>
    BY <1>3 DEF StopWalk
  <2>2. elapsed' = elapsed + 0 /\ spent' = spent + 0 /\ over' \in Nat
        /\ (over' = 0 => over = 0 /\ spent' <= allotted)
    BY <2>1 DEF DiskInv, DiskType, TimeLeft
  <2> QED  BY <2>1, <2>2, WalkStep
<1>4. CASE Finish
  <2>1. /\ scan = "subtrees" /\ (todo = <<>> \/ Late) /\ scan' = "done"
        /\ UNCHANGED <<access, todo, elapsed, stopped, allotted, spent, shares, over>>
    BY <1>4 DEF Finish
  <2>2. ~stopped /\ over = 0 => todo = <<>>
    <3> SUFFICES ASSUME ~stopped, over = 0, todo # <<>>
                 PROVE  FALSE
      OBVIOUS
    <3>1. elapsed >= UsageBudget /\ elapsed \in Nat /\ UsageBudget \in Nat
      BY <2>1, DiskAssumptions DEF Late, DiskInv, DiskType
    <3>2. PICK n \in Nat \ {0} : n = Len(todo)
      BY TakenOff DEF DiskInv
    <3>3. PICK g \in Nat \ {0} : g = FairShare
      BY FairShareFits
    <3>4. UsageBudget - elapsed >= g * n
      BY <2>1, <3>2, <3>3 DEF DiskInv, TimeLeft
    <3>5. g * n >= 1
      OBVIOUS
    <3> QED  BY <3>1, <3>4, <3>5
  <2>3. DiskType' /\ NoneForgotten' /\ TimeLeft'
    BY <2>1 DEF DiskInv, DiskType, NoneForgotten, TimeLeft
  <2> QED  BY <2>1, <2>2, <2>3 DEF DiskInv, AllBegun
<1>5. CASE StopScan
  <2>1. /\ stopped' = TRUE
        /\ UNCHANGED <<access, scan, todo, elapsed, allotted, spent, shares, over>>
    BY <1>5 DEF StopScan
  <2> QED  BY <2>1 DEF DiskInv, DiskType, NoneForgotten, TimeLeft, AllBegun
<1>6. ASSUME NEW t \in 0..Slowest, ScanUsage(t)
      PROVE  DiskInv'
  BY <1>6, ListedStep
<1>7. ASSUME NEW t \in 0..Slowest, VisitFile(t) \/ VisitDir(t) \/ ListDir(t)
      PROVE  DiskInv'
  <2>1. /\ scan = "walk" /\ Takes(t) /\ UNCHANGED <<access, stopped, allotted, shares>>
        /\ \/ UNCHANGED <<scan, todo>>
           \/ scan' = "subtrees" /\ todo' = Tail(todo)
    <3>1. CASE VisitFile(t)
      BY <3>1 DEF VisitFile, GoesOn
    <3>2. CASE VisitDir(t)
      BY <3>2 DEF VisitDir, GoesOn
    <3>3. CASE ListDir(t)
      BY <3>3 DEF ListDir, GoesOn
    <3> QED  BY <1>7, <3>1, <3>2, <3>3
  <2>2. /\ t \in Nat /\ elapsed' = elapsed + t /\ spent' = spent + t
        /\ over' \in Nat /\ (over' = 0 => over = 0 /\ spent' <= allotted)
    BY <2>1, TakesIsCounted
  <2> QED  BY <2>1, <2>2, WalkStep
<1>8. CASE UNCHANGED diskVars
  <2>1. UNCHANGED <<access, scan, todo, elapsed, stopped, allotted, spent, shares, over>>
    BY <1>8 DEF diskVars
  <2> QED  BY <2>1 DEF DiskInv, DiskType, NoneForgotten, TimeLeft, AllBegun
<1> QED  BY <1>1, <1>2, <1>3, <1>4, <1>5, <1>6, <1>7, <1>8 DEF DiskNext

\* The invariant at the end of a scan.
LEMMA DiskInvGives ==
  ASSUME RoomForAll, DiskInv
  PROVE  EveryTreeTried
<1> SUFFICES ASSUME scan = "done", access[0] = "ok", ~stopped, over = 0, NEW d \in Subtrees
             PROVE  /\ d \in DOMAIN shares
                    /\ shares[d] >= (UsageBudget - Slowest) \div Cardinality(Subtrees)
  BY DEF EveryTreeTried, Subtrees
<1>1. todo = <<>> /\ Subtrees \subseteq DOMAIN shares \cup Range(todo)
  BY DEF DiskInv, AllBegun, NoneForgotten
<1>2. Range(todo) = {}
  BY <1>1 DEF Range
<1>3. d \in DOMAIN shares /\ shares[d] >= FairShare
  BY <1>1, <1>2 DEF DiskInv, TimeLeft
<1> QED  BY <1>3 DEF FairShare, Trees

\* ScanUsage: when the budget outlasts the listing of the mount by a tick for
\* every directory under it, then unless the caller gives up or a system call
\* overruns a share, each of them is walked, for its share of the budget.
THEOREM EveryTreeHasItsShare ==
  ASSUME UsageBudget - Slowest >= Cardinality({d \in Dirs \ {0} : Parent[d] = 0 /\ d \notin LeftOut})
  PROVE  DiskSpec => []EveryTreeTried
<1>1. RoomForAll
  BY DEF RoomForAll, Trees, Subtrees
<1>2. DiskInv /\ [DiskNext]_diskVars => DiskInv'
  BY <1>1, DiskStep
<1>3. DiskInv => EveryTreeTried
  BY <1>1, DiskInvGives
<1> QED  BY <1>2, <1>3, DiskInitHolds, PTL DEF DiskSpec

-----------------------------------------------------------------------------
(* DiskWalk: the tree.                                                     *)

LEMMA NodesNumbered ==
  \E c \in Nat : /\ c = Cardinality(Nodes) /\ Nodes = 1..c /\ Nodes \cup {0} = 0..c
                 /\ \A n \in 1..c : Parent[n] \in 0..n - 1
<1>1. PICK c \in Nat : c = Cardinality(Nodes)
  BY DiskAssumptions, FS_CardinalityType
<1>2. Nodes = 1..c
  BY <1>1, DiskAssumptions
<1>3. Nodes \cup {0} = 0..c
  BY <1>2
<1>4. \A n \in 1..c : Parent[n] \in 0..n - 1
  <2> SUFFICES ASSUME NEW n \in 1..c PROVE Parent[n] \in 0..n - 1
    OBVIOUS
  <2>1. Parent[n] \in Nodes \cup {0} /\ Parent[n] < n
    BY <1>2, DiskAssumptions DEF Dirs
  <2> QED  BY <1>3, <2>1
<1> QED  BY <1>1, <1>2, <1>3, <1>4

\* What holds of a node when it holds of those before it holds of every node;
\* said of the nodes it does not hold of.
LEMMA NoneFails ==
  ASSUME NEW bad \in SUBSET (Nodes \cup {0}), bad # {}
  PROVE  \E m \in bad : /\ \A n \in Nodes \cup {0} : n < m => n \notin bad
                        /\ m # 0 => m \in Nodes /\ Parent[m] \in (Nodes \cup {0}) \ bad /\ Parent[m] < m
<1>1. PICK c \in Nat : /\ c = Cardinality(Nodes) /\ Nodes = 1..c /\ Nodes \cup {0} = 0..c
                       /\ \A n \in 1..c : Parent[n] \in 0..n - 1
  BY NodesNumbered
<1>2. bad \subseteq 0..c
  BY <1>1
<1>3. IsFiniteSet(bad) /\ bad \in SUBSET Nat
  <2>1. IsFiniteSet(0..c)
    BY FS_Interval
  <2>2. IsFiniteSet(bad)
    BY <1>2, <2>1, FS_Subset
  <2> QED  BY <1>2, <2>2
<1>4. PICK m \in bad : \A u \in bad : m <= u
  BY <1>3, LeastOf
<1>5. \A n \in Nodes \cup {0} : n < m => n \notin bad
  BY <1>1, <1>2, <1>4
<1>6. m # 0 => m \in Nodes /\ Parent[m] \in 0..c /\ Parent[m] < m
  BY <1>1, <1>2
<1> QED  BY <1>1, <1>5, <1>6

\* Path is what it is defined to be: paths can be put together node by node.
PathsTo(k, g) ==
    \A n \in 0..k : g[n] = IF n = 0 THEN <<0>> ELSE <<n>> \o g[Parent[n]]

LEMMA PathExists ==
  ASSUME NEW c \in Nat, \A n \in 1..c : Parent[n] \in 0..n - 1
  PROVE  \A k \in 0..c : \E g : PathsTo(k, g)
<1> DEFINE bad == {k \in 0..c : ~\E g : PathsTo(k, g)}
<1> SUFFICES ASSUME bad # {} PROVE FALSE
  OBVIOUS
<1>1. IsFiniteSet(bad) /\ bad \in SUBSET Nat
  <2>1. IsFiniteSet(0..c) /\ bad \subseteq 0..c
    BY FS_Interval
  <2>2. IsFiniteSet(bad)
    BY <2>1, FS_Subset
  <2> QED  BY <2>1, <2>2
<1>2. PICK m \in bad : \A u \in bad : m <= u
  <2> HIDE DEF bad
  <2> QED  BY <1>1, LeastOf
<1>3. m \in 0..c /\ ~\E g : PathsTo(m, g)
  OBVIOUS
<1>4. CASE m = 0
  <2>1. PathsTo(0, [n \in 0..0 |-> <<0>>])
    BY DEF PathsTo
  <2> QED  BY <1>3, <1>4, <2>1
<1>5. CASE m # 0
  <2>1. PICK p \in 0..c : p = m - 1
    BY <1>3, <1>5
  <2>2. p \notin bad
    BY <1>2, <1>3, <2>1
  <2>3. PICK g : PathsTo(p, g)
    BY <2>2
  <2>4. PICK h : h = [n \in 0..m |-> IF n = m THEN <<m>> \o g[Parent[m]] ELSE g[n]]
    OBVIOUS
  <2>5. Parent[m] \in 0..p /\ \A n \in 0..p : n # 0 => Parent[n] \in 0..p
    BY <1>3, <1>5, <2>1
  <2>6. \A n \in 0..p : n \in 0..m /\ n # m
    BY <1>3, <2>1
  <2>7. \A n \in 0..p : h[n] = g[n]
    BY <2>4, <2>6
  <2>8. ASSUME NEW n \in 0..m
        PROVE  h[n] = IF n = 0 THEN <<0>> ELSE <<n>> \o h[Parent[n]]
    <3>1. CASE n = m
      <4>1. h[m] = <<m>> \o g[Parent[m]]
        BY <2>4, <3>1
      <4>2. h[Parent[m]] = g[Parent[m]]
        BY <2>5, <2>7
      <4> QED  BY <1>5, <3>1, <4>1, <4>2
    <3>2. CASE n # m
      <4>1. n \in 0..p
        BY <1>3, <2>1, <3>2
      <4>2. g[n] = IF n = 0 THEN <<0>> ELSE <<n>> \o g[Parent[n]]
        BY <2>3, <4>1 DEF PathsTo
      <4>3. CASE n = 0
        BY <2>7, <4>1, <4>2, <4>3
      <4>4. CASE n # 0
        <5>1. h[Parent[n]] = g[Parent[n]]
          BY <2>5, <2>7, <4>1, <4>4
        <5> QED  BY <2>7, <4>1, <4>2, <4>4, <5>1
      <4> QED  BY <4>3, <4>4
    <3> QED  BY <3>1, <3>2
  <2>9. PathsTo(m, h)
    BY <2>8 DEF PathsTo
  <2> QED  BY <1>3, <2>9
<1> QED  BY <1>4, <1>5

LEMMA PathDefined ==
  Path = [n \in Nodes \cup {0} |-> IF n = 0 THEN <<0>> ELSE <<n>> \o Path[Parent[n]]]
<1>1. PICK c \in Nat : /\ c = Cardinality(Nodes) /\ Nodes = 1..c /\ Nodes \cup {0} = 0..c
                       /\ \A n \in 1..c : Parent[n] \in 0..n - 1
  BY NodesNumbered
<1>2. c \in 0..c
  OBVIOUS
<1>3. PICK g : PathsTo(c, g)
  BY <1>1, <1>2, PathExists
<1>4. PICK f : f = [n \in Nodes \cup {0} |-> g[n]]
  OBVIOUS
<1>5. \A n \in 0..c : f[n] = IF n = 0 THEN <<0>> ELSE <<n>> \o f[Parent[n]]
  <2> SUFFICES ASSUME NEW n \in 0..c
               PROVE  f[n] = IF n = 0 THEN <<0>> ELSE <<n>> \o f[Parent[n]]
    OBVIOUS
  <2>1. n # 0 => Parent[n] \in 0..c
    BY <1>1
  <2>2. f[n] = g[n] /\ (n # 0 => f[Parent[n]] = g[Parent[n]])
    BY <1>1, <1>4, <2>1
  <2> QED  BY <1>3, <2>2 DEF PathsTo
<1>6. f = [n \in Nodes \cup {0} |-> IF n = 0 THEN <<0>> ELSE <<n>> \o f[Parent[n]]]
  BY <1>1, <1>4, <1>5
<1> QED  BY <1>6, Zenon DEF Path

\* The directories a node is in, itself included.
Above(n) == ToSet(Path[n])

LEMMA PathTyped ==
  \A n \in Nodes \cup {0} : Path[n] \in Seq(Nodes \cup {0}) /\ Len(Path[n]) \in Nat \ {0}
<1> DEFINE N == Nodes \cup {0}
           bad == {n \in N : ~(Path[n] \in Seq(N) /\ Len(Path[n]) \in Nat \ {0})}
<1> SUFFICES ASSUME bad # {} PROVE FALSE
  OBVIOUS
<1>1. PICK m \in bad : m # 0 => m \in Nodes /\ Parent[m] \in N \ bad
  <2>1. bad \in SUBSET (Nodes \cup {0})
    OBVIOUS
  <2> HIDE DEF bad
  <2> QED  BY <2>1, NoneFails
<1>2. Path[m] = IF m = 0 THEN <<0>> ELSE <<m>> \o Path[Parent[m]]
  BY PathDefined
<1>3. CASE m = 0
  <2>1. 0 \in N /\ Path[m] = <<0>>
    BY <1>2, <1>3
  <2> HIDE DEF N
  <2>2. <<0>> \in Seq(N) /\ Len(<<0>>) = 1
    BY <2>1
  <2>3. Path[m] \in Seq(N) /\ Len(Path[m]) \in Nat \ {0}
    BY <2>1, <2>2
  <2> QED  BY <2>3
<1>4. CASE m # 0
  <2>1. m \in N /\ Path[m] = <<m>> \o Path[Parent[m]]
    BY <1>2, <1>4
  <2>2. PICK q \in Seq(N) : q = Path[Parent[m]] /\ Len(q) \in Nat
    BY <1>1, <1>4
  <2>3. <<m>> \in Seq(N) /\ Len(<<m>>) = 1
    BY <2>1
  <2>4. <<m>> \o q \in Seq(N) /\ Len(<<m>> \o q) = 1 + Len(q)
    BY <2>3, ConcatProperties
  <2>5. Path[m] \in Seq(N) /\ Len(Path[m]) \in Nat \ {0}
    BY <2>1, <2>2, <2>4
  <2> HIDE DEF N
  <2> QED  BY <2>5
<1> QED  BY <1>3, <1>4

LEMMA AboveStep ==
  /\ Above(0) = {0} /\ Depth(0) = 0
  /\ \A n \in Nodes : Above(n) = {n} \cup Above(Parent[n]) /\ Depth(n) = Depth(Parent[n]) + 1
  /\ \A n \in Nodes \cup {0} : n \in Above(n) /\ Above(n) \subseteq Nodes \cup {0} /\ Depth(n) \in Nat
<1>1. Path[0] = <<0>> /\ \A n \in Nodes : n # 0 /\ Path[n] = <<n>> \o Path[Parent[n]]
  <2>1. \A n \in Nodes : n # 0
    BY NodesNumbered
  <2> QED  BY <2>1, PathDefined
<1>2. Above(0) = {0} /\ Depth(0) = 0
  BY <1>1 DEF Above, ToSet, Depth
<1>3. ASSUME NEW n \in Nodes
      PROVE  Above(n) = {n} \cup Above(Parent[n]) /\ Depth(n) = Depth(Parent[n]) + 1
  <2>1. Parent[n] \in Nodes \cup {0}
    BY DiskAssumptions DEF Dirs
  <2>2. PICK q \in Seq(Nodes \cup {0}) : q = Path[Parent[n]]
    BY <2>1, PathTyped
  <2>3. PICK l \in Nat : l = Len(q) /\ DOMAIN q = 1..l
    BY LenProperties
  <2>4. PICK p : p = <<n>> \o q
    OBVIOUS
  <2>5. <<n>> \in Seq(Nodes \cup {0}) /\ Len(<<n>>) = 1
    OBVIOUS
  <2>6. /\ p \in Seq(Nodes \cup {0}) /\ Len(p) = 1 + l
        /\ \A i \in 1..1 + l : p[i] = IF i <= 1 THEN <<n>>[i] ELSE q[i - 1]
    BY <2>3, <2>4, <2>5, ConcatProperties
  <2>7. DOMAIN p = 1..1 + l
    BY <2>6, LenProperties
  <2>8. p[1] = n /\ \A i \in 1..l : p[i + 1] = q[i]
    BY <2>6
  <2>9. \A i \in 1..1 + l : i = 1 \/ \E k \in 1..l : i = k + 1
    <3> SUFFICES ASSUME NEW i \in 1..1 + l, i # 1 PROVE \E k \in 1..l : i = k + 1
      OBVIOUS
    <3>1. i - 1 \in 1..l /\ i = (i - 1) + 1
      OBVIOUS
    <3> QED  BY <3>1
  <2>10. 1 \in 1..1 + l /\ \A k \in 1..l : k + 1 \in 1..1 + l
    OBVIOUS
  <2>11. ToSet(p) = {n} \cup ToSet(q)
    <3>1. \A i \in DOMAIN p : p[i] \in {n} \cup ToSet(q)
      <4> SUFFICES ASSUME NEW i \in 1..1 + l PROVE p[i] \in {n} \cup ToSet(q)
        BY <2>7
      <4>1. CASE i = 1
        BY <2>8, <4>1
      <4>2. CASE i # 1
        <5>1. PICK k \in 1..l : i = k + 1
          BY <2>9, <4>2
        <5>2. p[i] = q[k] /\ k \in DOMAIN q
          BY <2>3, <2>8, <5>1
        <5> QED  BY <5>2 DEF ToSet
      <4> QED  BY <4>1, <4>2
    <3>2. n \in ToSet(p)
      BY <2>7, <2>8, <2>10 DEF ToSet
    <3>3. \A i \in DOMAIN q : q[i] \in ToSet(p)
      BY <2>3, <2>7, <2>8, <2>10 DEF ToSet
    <3> QED  BY <3>1, <3>2, <3>3 DEF ToSet
  <2>12. p = Path[n]
    BY <1>1, <2>2, <2>4
  <2>13. Depth(n) = (1 + l) - 1 /\ Depth(Parent[n]) = l - 1
    BY <2>2, <2>3, <2>6, <2>12 DEF Depth
  <2> QED  BY <2>2, <2>11, <2>12, <2>13 DEF Above
<1>4. ASSUME NEW n \in Nodes \cup {0}
      PROVE  n \in Above(n) /\ Above(n) \subseteq Nodes \cup {0} /\ Depth(n) \in Nat
  <2>1. n \in Above(n)
    BY <1>2, <1>3
  <2>2. PICK q \in Seq(Nodes \cup {0}) : q = Path[n]
    BY PathTyped
  <2>3. \A i \in DOMAIN q : q[i] \in Nodes \cup {0}
    BY LenProperties, ElementOfSeq
  <2>4. Depth(n) \in Nat
    BY PathTyped DEF Depth
  <2> QED  BY <2>1, <2>2, <2>3, <2>4 DEF Above, ToSet
<1> QED  BY <1>2, <1>3, <1>4

\* What a directory is in, everything in it is in, and was met before.
LEMMA AboveUp ==
  \A n \in Nodes \cup {0} : \A a \in Above(n) : a <= n /\ Above(a) \subseteq Above(n) /\ 0 \in Above(n)
<1> DEFINE N == Nodes \cup {0}
           bad == {n \in N : ~\A a \in Above(n) : a <= n /\ Above(a) \subseteq Above(n) /\ 0 \in Above(n)}
<1> SUFFICES ASSUME bad # {} PROVE FALSE
  OBVIOUS
<1>1. PICK m \in bad : m # 0 => m \in Nodes /\ Parent[m] \in N \ bad /\ Parent[m] < m
  <2>1. bad \in SUBSET (Nodes \cup {0})
    OBVIOUS
  <2> HIDE DEF bad
  <2> QED  BY <2>1, NoneFails
<1>2. \A n \in N : n \in Nat
  BY NodesNumbered
<1>3. CASE m = 0
  BY <1>2, <1>3, AboveStep
<1>4. CASE m # 0
  <2>1. PICK p \in N : p = Parent[m] /\ p < m /\ p \notin bad /\ m \in Nodes
    BY <1>1, <1>4
  <2>2. \A a \in Above(p) : a <= p /\ Above(a) \subseteq Above(p) /\ 0 \in Above(p)
    BY <2>1
  <2>3. Above(m) = {m} \cup Above(p) /\ p \in Above(p) /\ Above(p) \subseteq N
    BY <2>1, AboveStep
  <2>4. ASSUME NEW a \in Above(m)
        PROVE  a <= m /\ Above(a) \subseteq Above(m) /\ 0 \in Above(m)
    <3>1. CASE a = m
      BY <1>2, <2>1, <2>2, <2>3, <3>1
    <3>2. CASE a # m
      <4>1. a \in Above(p) /\ a \in Nat /\ p \in Nat /\ m \in Nat
        BY <1>2, <2>1, <2>3, <3>2
      <4>2. a <= m
        BY <2>1, <2>2, <4>1
      <4> QED  BY <2>2, <2>3, <4>1, <4>2
    <3> QED  BY <3>1, <3>2
  <2> QED  BY <2>4
<1> QED  BY <1>3, <1>4

\* Of two directories a node is in, one is in the other.
LEMMA AboveChain ==
  \A n \in Nodes \cup {0} : \A a, b \in Above(n) : a \in Above(b) \/ b \in Above(a)
<1> DEFINE N == Nodes \cup {0}
           bad == {n \in N : ~\A a, b \in Above(n) : a \in Above(b) \/ b \in Above(a)}
<1> SUFFICES ASSUME bad # {} PROVE FALSE
  OBVIOUS
<1>1. PICK m \in bad : m # 0 => m \in Nodes /\ Parent[m] \in N \ bad /\ Parent[m] < m
  <2>1. bad \in SUBSET (Nodes \cup {0})
    OBVIOUS
  <2> HIDE DEF bad
  <2> QED  BY <2>1, NoneFails
<1>2. CASE m = 0
  BY <1>2, AboveStep
<1>3. CASE m # 0
  <2>1. PICK p \in N : p = Parent[m] /\ p \notin bad /\ m \in Nodes
    BY <1>1, <1>3
  <2>2. \A a, b \in Above(p) : a \in Above(b) \/ b \in Above(a)
    BY <2>1
  <2>3. Above(m) = {m} \cup Above(p)
    BY <2>1, AboveStep
  <2>4. \A a, b \in Above(m) : a \in Above(b) \/ b \in Above(a)
    BY <2>2, <2>3
  <2> QED  BY <2>4
<1> QED  BY <1>2, <1>3

\* A node is in directories: its own, and those that is in.
LEMMA AboveDirs ==
  ASSUME NEW n \in Nodes
  PROVE  /\ n \notin Above(Parent[n]) /\ Above(Parent[n]) \subseteq Dirs
         /\ Above(n) \ {n} = Above(Parent[n])
<1>1. PICK p \in Nodes \cup {0} : p = Parent[n] /\ p < n
  BY DiskAssumptions DEF Dirs
<1>2. n \notin Above(p)
  <2> SUFFICES ASSUME n \in Above(p) PROVE FALSE
    OBVIOUS
  <2>1. n <= p /\ n \in Nat /\ p \in Nat
    BY AboveUp, NodesNumbered
  <2> QED  BY <1>1, <2>1
<1>3. Above(p) \subseteq Dirs
  <2> DEFINE bad == {k \in Nodes \cup {0} : k \in Dirs /\ ~(Above(k) \subseteq Dirs)}
  <2>1. bad = {}
    <3> SUFFICES ASSUME bad # {} PROVE FALSE
      OBVIOUS
    <3>1. PICK m \in bad : m # 0 => m \in Nodes /\ Parent[m] \in (Nodes \cup {0}) \ bad
      <4>1. bad \in SUBSET (Nodes \cup {0})
        OBVIOUS
      <4> HIDE DEF bad
      <4> QED  BY <4>1, NoneFails
    <3>2. 0 \in Dirs
      <4>1. 0 \notin Nodes
        BY NodesNumbered
      <4> QED  BY <4>1, DiskAssumptions DEF Dirs
    <3>3. CASE m = 0
      BY <3>2, <3>3, AboveStep
    <3>4. CASE m # 0
      <4>1. m \in Nodes /\ m \in Dirs /\ Parent[m] \in Dirs /\ Parent[m] \notin bad
        BY <3>1, <3>4, DiskAssumptions
      <4>2. Above(Parent[m]) \subseteq Dirs
        BY <3>1, <3>4, <4>1
      <4>3. Above(m) \subseteq Dirs
        BY <4>1, <4>2, AboveStep
      <4> QED  BY <4>3
    <3> QED  BY <3>3, <3>4
  <2>2. p \in Dirs
    BY <1>1, DiskAssumptions
  <2> QED  BY <2>1, <2>2
<1> QED  BY <1>1, <1>2, <1>3, AboveStep

\* Every node is in one directory of the mount, or is an entry of it.
LEMMA TopOf ==
  \A n \in Nodes : \E c \in Above(n) : c \in Nodes /\ Parent[c] = 0
<1> DEFINE bad == {n \in Nodes \cup {0} : n \in Nodes /\ ~\E c \in Above(n) : c \in Nodes /\ Parent[c] = 0}
<1> SUFFICES ASSUME bad # {} PROVE FALSE
  OBVIOUS
<1>1. PICK m \in bad : m # 0 => Parent[m] \in (Nodes \cup {0}) \ bad
  <2>1. bad \in SUBSET (Nodes \cup {0})
    OBVIOUS
  <2> HIDE DEF bad
  <2> QED  BY <2>1, NoneFails
<1>2. m \in Nodes /\ m # 0
  BY NodesNumbered
<1>3. m \in Above(m) /\ Above(m) = {m} \cup Above(Parent[m])
  BY <1>2, AboveStep
<1>4. CASE Parent[m] = 0
  BY <1>2, <1>3, <1>4
<1>5. CASE Parent[m] # 0
  <2>1. Parent[m] \in Nodes /\ Parent[m] \notin bad
    BY <1>1, <1>2, <1>5
  <2> QED  BY <1>3, <2>1
<1> QED  BY <1>4, <1>5

LEMMA TopOnly ==
  ASSUME NEW n \in Nodes \cup {0}, NEW c \in Above(n), NEW d \in Above(n),
         c \in Nodes, d \in Nodes, Parent[c] = 0, Parent[d] = 0
  PROVE  c = d
<1>1. Above(c) = {c, 0} /\ Above(d) = {d, 0} /\ c # 0 /\ d # 0
  BY AboveStep, NodesNumbered
<1>2. c \in Above(d) \/ d \in Above(c)
  BY AboveChain
<1> QED  BY <1>1, <1>2

\* What is in a directory is met in one run.
LEMMA OneRun ==
  ASSUME NEW n \in Nodes, NEW d \in Above(n), NEW k \in d..n
  PROVE  d \in Above(k)
<1>1. PICK c \in Nat : Nodes = 1..c /\ Nodes \cup {0} = 0..c
  BY NodesNumbered
<1>2. d \in 0..c /\ n \in 1..c
  BY <1>1, AboveStep
<1> DEFINE bad == {x \in d..n : d \notin Above(x)}
<1> SUFFICES ASSUME bad # {} PROVE FALSE
  OBVIOUS
<1>3. IsFiniteSet(bad) /\ bad \in SUBSET Nat
  <2>1. IsFiniteSet(d..n) /\ bad \subseteq d..n
    BY <1>2, FS_Interval
  <2>2. IsFiniteSet(bad)
    BY <2>1, FS_Subset
  <2> QED  BY <1>2, <2>2
<1>4. PICK m \in bad : \A u \in bad : u <= m
  <2> HIDE DEF bad
  <2> QED  BY <1>3, GreatestOf
<1>5. m \in d..n /\ d \notin Above(m) /\ m # n
  OBVIOUS
<1>6. PICK x \in Nodes : x = m + 1 /\ x \in d..n /\ x # d /\ x - 1 = m
  BY <1>1, <1>2, <1>5
<1>7. x \notin bad
  BY <1>2, <1>4, <1>5, <1>6
<1>8. d \in Above(x)
  BY <1>6, <1>7
<1>9. d \in Above(Parent[x]) /\ Parent[x] \in Above(m)
  BY <1>6, <1>8, AboveStep, DiskAssumptions DEF Above
<1>10. m \in Nodes \cup {0}
  BY <1>1, <1>2, <1>5
<1>11. d \in Above(m)
  BY <1>9, <1>10, AboveUp
<1> QED  BY <1>5, <1>11

\* The node after n is the first that is not in it.
Follows(n, m) ==
    /\ m \in n + 1..Cardinality(Nodes) + 1
    /\ \A k \in Nodes : n < k /\ k < m => n \in Above(k)

LEMMA AfterShape ==
  ASSUME NEW n \in Nodes
  PROVE  Follows(n, After(n)) /\ (After(n) \in Nodes => n \notin Above(After(n)))
<1>1. PICK c \in Nat : c = Cardinality(Nodes) /\ Nodes = 1..c
  BY NodesNumbered
<1>a. c = Cardinality(Nodes)
  BY <1>1, Zenon
<1>b. Nodes = 1..c
  BY <1>1, Zenon
<1> DEFINE S == {m \in Nodes : m > n /\ ~Below(m, n)} \cup {Cardinality(Nodes) + 1}
<1>2. IsFiniteSet(S) /\ S \in SUBSET Nat /\ S # {} /\ S \subseteq n + 1..c + 1 /\ c + 1 \in S
  <2>1. S \subseteq n + 1..c + 1 /\ c + 1 \in S
    <3>1. n \in Int /\ n <= c /\ n + 1 \in Int
      BY <1>b
    <3>2. c + 1 \in n + 1..c + 1
      BY <3>1
    <3>3. \A m \in Nodes : m > n => m \in n + 1..c + 1
      BY <1>b, <3>1
    <3> QED  BY <1>a, <3>2, <3>3, Zenon
  <2>2. IsFiniteSet(n + 1..c + 1)
    BY <1>b, FS_Interval
  <2> HIDE DEF S
  <2>3. IsFiniteSet(S)
    BY <2>1, <2>2, FS_Subset
  <2> QED  BY <1>b, <2>1, <2>3
<1>3. PICK a \in S : \A u \in S : a <= u
  <2> HIDE DEF S
  <2> QED  BY <1>2, LeastOf
<1>4. After(n) = Min(S)
  BY DEF After
<1>5. Min(S) \in S /\ \A u \in S : Min(S) <= u
  <2> HIDE DEF S
  <2> QED  BY <1>3 DEF Min
<1>6. PICK m \in S : m = After(n) /\ \A u \in S : m <= u
  BY <1>4, <1>5
<1>7. m \in n + 1..c + 1
  <2> HIDE DEF S
  <2> QED  BY <1>2, <1>6
<1>8. ASSUME NEW k \in Nodes, n < k, k < m PROVE n \in Above(k)
  <2>1. k \notin S
    <3> HIDE DEF S
    <3> QED  BY <1>b, <1>2, <1>6, <1>7, <1>8
  <2>2. Below(k, n)
    BY <1>1, <1>8, <2>1
  <2> QED  BY <2>2 DEF Below, Above
<1>9. ASSUME m \in Nodes PROVE n \notin Above(m)
  <2>1. m # c + 1
    BY <1>b, <1>9
  <2>2. m > n /\ ~Below(m, n)
    BY <1>a, <1>6, <2>1, Zenon
  <2>3. m # n
    BY <1>b, <1>7
  <2> QED  BY <2>2, <2>3 DEF Below, Above
<1> QED  BY <1>a, <1>6, <1>7, <1>8, <1>9, Zenon DEF Follows

LEMMA FileFollows ==
  ASSUME NEW n \in Nodes
  PROVE  /\ Follows(n, n + 1)
         /\ n \in Files /\ n + 1 \in Nodes => n \notin Above(n + 1)
<1>1. PICK c \in Nat : c = Cardinality(Nodes) /\ Nodes = 1..c
  BY NodesNumbered
<1>a. c = Cardinality(Nodes)
  BY <1>1, Zenon
<1>b. Nodes = 1..c
  BY <1>1, Zenon
<1>2. Follows(n, n + 1)
  <2>1. n \in Int /\ n + 1 \in n + 1..c + 1
    BY <1>b
  <2>2. ASSUME NEW k \in Nodes, n < k, k < n + 1 PROVE FALSE
    BY <1>b, <2>2
  <2> QED  BY <1>a, <2>1, <2>2 DEF Follows
<1>3. ASSUME n \in Files, n + 1 \in Nodes, n \in Above(n + 1)
      PROVE  FALSE
  <2>1. PICK x \in Nodes : x = n + 1 /\ x # n
    BY <1>b, <1>3
  <2>2. n \in Dirs
    BY <1>3, <2>1, AboveDirs
  <2> QED  BY <1>3, <2>2 DEF Dirs
<1> QED  BY <1>2, <1>3

-----------------------------------------------------------------------------
(* DiskWalk: what a scan has accounted for, in parts.                      *)

\* What a walk that is never refused a directory on the way gets to.
Reached(n) == \A d \in Above(Parent[n]) : access[d] = "ok" /\ d \notin LeftOut
Visible == {f \in Files : Reached(f) /\ access[f] = "ok"}
RefusedDirs == {d \in Dirs : access[d] = "refused" /\ d \notin LeftOut /\ (d = 0 \/ Reached(d))}

\* What is still to be walked: the subtrees to come, the first of them from
\* the node the walk is at.
Pending == {n \in Nodes : /\ \E i \in 1..Len(todo) : todo[i] \in Above(n)
                          /\ scan = "walk" /\ todo[1] \in Above(n) => n >= at}

Distinct(q) == q \in Seq(Subtrees) /\ \A i, j \in 1..Len(q) : i < j => q[i] # q[j]

\* The walk is in the first of the subtrees to come.
InSubtree == at \in Nodes /\ todo # <<>> /\ todo[1] \in Above(at)

\* A walk of the tree goes on: what is between two nodes is no longer pending.
LEMMA GoesOnEffect ==
  ASSUME scan = "walk", Distinct(todo), InSubtree, NEW m, Follows(at, m), GoesOn(m)
  PROVE  /\ Pending' = Pending \ {n \in Nodes : at <= n /\ n < m}
         /\ Distinct(todo') /\ scan' \in {"walk", "subtrees"}
         /\ scan' = "walk" => at' = m /\ m \in Nodes /\ InSubtree'
<1>1. PICK c \in Nat : c = Cardinality(Nodes) /\ Nodes = 1..c
  BY NodesNumbered
<1>a. c = Cardinality(Nodes)
  BY <1>1, Zenon
<1>b. Nodes = 1..c
  BY <1>1, Zenon
<1>h. PICK h : h = todo[1]
  OBVIOUS
<1>2. PICK a \in Nodes : a = at /\ h = todo[1] /\ h \in Above(a)
  BY <1>h DEF InSubtree
<1>3. PICK q : q = todo /\ q \in Seq(Subtrees) /\ q # <<>>
  BY DEF Distinct, InSubtree
<1>4. /\ h = Head(q) /\ h \in Subtrees /\ Tail(q) \in Seq(Subtrees)
      /\ Len(q) \in Nat \ {0} /\ Len(Tail(q)) = Len(q) - 1
      /\ \A i \in 1..Len(q) - 1 : Tail(q)[i] = q[i + 1]
  BY <1>2, <1>3
<1>5. PICK l \in Nat : Len(q) = l + 1 /\ Len(Tail(q)) = l /\ \A i \in 1..l : Tail(q)[i] = q[i + 1]
  <2>1. PICK x \in Nat : x = Len(q) /\ x # 0
    BY <1>4
  <2>2. x - 1 \in Nat /\ x = (x - 1) + 1
    BY <2>1
  <2> QED  BY <1>4, <2>1, <2>2
<1>6. \A i \in 1..l : i + 1 \in 1..l + 1 /\ 1 < i + 1 /\ 1 \in 1..l + 1
  OBVIOUS
<1>7. \A i, j \in 1..l + 1 : i < j => q[i] # q[j]
  BY <1>3, <1>5 DEF Distinct
<1>8. m \in a + 1..c + 1 /\ \A k \in Nodes : a < k /\ k < m => a \in Above(k)
  BY <1>a, <1>2 DEF Follows
<1>9. \A k \in Nodes : a <= k /\ k < m => h \in Above(k)
  <2> SUFFICES ASSUME NEW k \in Nodes, a <= k, k < m PROVE h \in Above(k)
    OBVIOUS
  <2>1. a = k \/ a \in Above(k)
    BY <1>b, <1>8
  <2> QED  BY <1>2, <2>1, AboveUp
<1>10. \A s \in Subtrees : s \in Nodes /\ Parent[s] = 0
  BY DEF Subtrees, Dirs
<1>11. CASE m <= Cardinality(Nodes) /\ (m = Head(todo) \/ Below(m, Head(todo)))
  <2>1. at' = m /\ UNCHANGED <<scan, todo>>
    BY <1>11 DEF GoesOn
  <2>2. m \in Nodes
    <3>1. m <= c
      BY <1>a, <1>11
    <3> QED  BY <1>b, <1>8, <3>1
  <2>3. h \in Above(m)
    <3>1. m = h \/ Below(m, h)
      BY <1>3, <1>4, <1>11
    <3>2. m \in Above(m)
      BY <2>2, AboveStep
    <3> QED  BY <3>1, <3>2 DEF Below, Above
  <2>4. ASSUME NEW n \in Nodes
        PROVE  n \in Pending' <=> n \in Pending /\ ~(at <= n /\ n < m)
    <3>1. n \in Pending' <=> (\E i \in 1..Len(q) : q[i] \in Above(n)) /\ (h \in Above(n) => n >= m)
      <4>1. todo' = q /\ scan' = "walk" /\ at' = m /\ q[1] = h
        BY <1>2, <1>3, <2>1
      <4> QED  BY <4>1, Zenon DEF Pending
    <3>2. n \in Pending <=> (\E i \in 1..Len(q) : q[i] \in Above(n)) /\ (h \in Above(n) => n >= a)
      BY <1>2, <1>3 DEF Pending
    <3>3. n \in Nat /\ a \in Nat /\ m \in Nat /\ a < m
      BY <1>b, <1>8
    <3> QED  BY <1>2, <1>9, <3>1, <3>2, <3>3
  <2>5. Pending' = Pending \ {n \in Nodes : at <= n /\ n < m}
    BY <2>4 DEF Pending
  <2> QED  BY <1>2, <1>3, <2>1, <2>2, <2>3, <2>5 DEF InSubtree
<1>12. CASE ~(m <= Cardinality(Nodes) /\ (m = Head(todo) \/ Below(m, Head(todo))))
  <2>1. scan' = "subtrees" /\ todo' = Tail(q)
    BY <1>3, <1>12 DEF GoesOn
  <2>2. Distinct(todo')
    <3>1. ASSUME NEW i \in 1..l, NEW j \in 1..l, i < j PROVE Tail(q)[i] # Tail(q)[j]
      <4>1. i + 1 < j + 1
        BY <3>1
      <4> QED  BY <1>5, <1>6, <1>7, <4>1
    <3> QED  BY <1>4, <1>5, <2>1, <3>1 DEF Distinct
  <2>3. ASSUME m \in Nodes PROVE h \notin Above(m)
    <3>1. m <= Cardinality(Nodes)
      <4>1. m <= c
        BY <1>b, <2>3
      <4> QED  BY <1>a, <4>1
    <3> QED  BY <1>3, <1>4, <1>12, <3>1 DEF Below, Above
  <2>4. ASSUME NEW n \in Nodes
        PROVE  n \in Pending' <=> n \in Pending /\ ~(at <= n /\ n < m)
    <3>1. n \in Pending' <=> \E i \in 1..l : q[i + 1] \in Above(n)
      BY <1>5, <2>1 DEF Pending
    <3>2. n \in Pending <=> (\E i \in 1..l + 1 : q[i] \in Above(n)) /\ (h \in Above(n) => n >= a)
      BY <1>2, <1>3, <1>5 DEF Pending
    <3>3. n \in Nat /\ a \in Nat /\ m \in Nat /\ a < m
      BY <1>b, <1>8
    <3>4. ASSUME NEW i \in 1..l, q[i + 1] \in Above(n) PROVE h \notin Above(n)
      <4>1. q[i + 1] # h
        BY <1>2, <1>3, <1>6, <1>7
      <4>2. q[i + 1] \in Subtrees
        BY <1>3, <1>5, <1>6, ElementOfSeq
      <4> QED  BY <1>4, <1>10, <3>4, <4>1, <4>2, TopOnly
    <3>5. ASSUME h \in Above(n), n >= m PROVE FALSE
      <4>1. m \in Nodes
        BY <1>b, <1>8, <3>3, <3>5
      <4>2. h <= a
        BY <1>2, AboveUp
      <4>3. h \in Nat
        BY <1>b, <1>4, <1>10
      <4>4. m \in h..n
        BY <3>3, <3>5, <4>2, <4>3
      <4>5. h \in Above(m)
        BY <3>5, <4>4, OneRun
      <4> QED  BY <2>3, <4>1, <4>5
    <3>6. ASSUME NEW i \in 1..l + 1, q[i] \in Above(n), h \notin Above(n)
          PROVE  \E j \in 1..l : q[j + 1] \in Above(n)
      <4>1. i # 1
        BY <1>2, <1>3, <3>6
      <4>2. i - 1 \in 1..l /\ (i - 1) + 1 = i
        BY <4>1
      <4> QED  BY <3>6, <4>2
    <3>7. ASSUME n \in Pending' PROVE n \in Pending /\ ~(at <= n /\ n < m)
      <4>1. h \notin Above(n) /\ \E i \in 1..l + 1 : q[i] \in Above(n)
        BY <1>6, <3>1, <3>4, <3>7
      <4> QED  BY <1>2, <1>9, <3>2, <4>1
    <3>8. ASSUME n \in Pending, ~(at <= n /\ n < m) PROVE n \in Pending'
      <4>1. h \notin Above(n)
        BY <1>2, <3>2, <3>3, <3>5, <3>8
      <4> QED  BY <3>1, <3>2, <3>6, <3>8, <4>1
    <3> QED  BY <3>7, <3>8
  <2>5. Pending' = Pending \ {n \in Nodes : at <= n /\ n < m}
    BY <2>4 DEF Pending
  <2> QED  BY <2>1, <2>2, <2>5
<1> QED  BY <1>11, <1>12

\* The walk goes on at a node it may get to.
LEMMA ReachNext ==
  ASSUME NEW a \in Nodes, NEW m \in Nodes, Reached(a), Follows(a, m),
         a \notin Above(m) \/ (m = a + 1 /\ access[a] = "ok" /\ a \notin LeftOut)
  PROVE  Reached(m)
<1>1. PICK c \in Nat : Nodes = 1..c /\ Nodes \cup {0} = 0..c
  BY NodesNumbered
<1>2. m > a
  <2>1. PICK e \in Nat : e = Cardinality(Nodes)
    BY DiskAssumptions, FS_CardinalityType
  <2>2. m \in a + 1..e + 1
    BY <2>1 DEF Follows
  <2> QED  BY <1>1, <2>1, <2>2
<1>3. PICK p \in Nodes : p = m - 1 /\ (p = a \/ (a < p /\ p < m))
  BY <1>1, <1>2
<1>4. a \in Above(p)
  <2>1. CASE p = a
    BY <2>1, AboveStep
  <2>2. CASE p # a
    BY <1>3, <2>2 DEF Follows
  <2> QED  BY <2>1, <2>2
<1>5. PICK u \in Nodes \cup {0} : u = Parent[m] /\ u \in Above(p)
  <2>1. Parent[m] \in Nodes \cup {0} /\ Parent[m] \in Above(m - 1)
    BY DiskAssumptions DEF Dirs, Above
  <2> QED  BY <1>3, <2>1
<1>6. Above(a) = {a} \cup Above(Parent[a]) /\ Above(m) = {m} \cup Above(u)
  BY <1>5, AboveStep
<1>7. CASE a \notin Above(m)
  <2>1. a \notin Above(u)
    BY <1>6, <1>7
  <2>2. u \in Above(a)
    BY <1>4, <1>5, <2>1, AboveChain
  <2>3. Above(u) \subseteq Above(a)
    BY <2>2, AboveUp
  <2>4. Above(u) \subseteq Above(Parent[a])
    BY <1>6, <2>1, <2>3
  <2> QED  BY <1>5, <2>4 DEF Reached
<1>8. CASE m = a + 1 /\ access[a] = "ok" /\ a \notin LeftOut
  <2>1. p = a
    BY <1>1, <1>3, <1>8
  <2>2. Above(u) \subseteq {a} \cup Above(Parent[a])
    BY <1>5, <1>6, <2>1, AboveUp
  <2> QED  BY <1>5, <1>8, <2>2 DEF Reached
<1> QED  BY <1>7, <1>8

\* Nothing below a directory that is not entered is got to.
LEMMA NotReached ==
  ASSUME NEW a \in Nodes, ~(access[a] = "ok" /\ a \notin LeftOut),
         NEW k \in Nodes, a < k, a \in Above(k)
  PROVE  ~Reached(k)
<1>1. a # k
  <2>1. PICK c \in Nat : Nodes = 1..c
    BY NodesNumbered
  <2> QED  BY <2>1
<1>2. a \in Above(Parent[k])
  BY <1>1, AboveStep
<1> QED  BY <1>2 DEF Reached

\* Bytes are told under a directory.
LEMMA BucketIsDir ==
  ASSUME NEW f \in Nodes
  PROVE  bucketFor(f) \in Dirs
<1> DEFINE good(d) == /\ Depth(d) <= UsageMaxDepth
                      /\ \A e \in ToSet(Path[f]) \ {f} : Depth(e) <= UsageMaxDepth => Depth(e) <= Depth(d)
           deep == {Depth(e) : e \in {x \in Above(Parent[f]) : Depth(x) <= UsageMaxDepth}}
<1>1. ToSet(Path[f]) \ {f} = Above(Parent[f]) /\ Above(Parent[f]) \subseteq Dirs
  BY AboveDirs DEF Above
<1>2. \A e \in Above(Parent[f]) : Depth(e) \in Nat
  BY <1>1, AboveStep DEF Dirs
<1>3. IsFiniteSet(deep) /\ deep \in SUBSET Nat
  <2>1. deep \subseteq 0..UsageMaxDepth /\ UsageMaxDepth \in Nat
    BY <1>2, DiskAssumptions
  <2>2. IsFiniteSet(0..UsageMaxDepth)
    BY <2>1, FS_Interval
  <2> HIDE DEF deep
  <2>3. IsFiniteSet(deep)
    BY <2>1, <2>2, FS_Subset
  <2> QED  BY <2>1, <2>3
<1>4. deep # {}
  <2>1. Parent[f] \in Nodes \cup {0}
    BY DiskAssumptions DEF Dirs
  <2>2. 0 \in Above(Parent[f])
    BY <2>1, AboveStep, AboveUp
  <2>3. Depth(0) <= UsageMaxDepth
    BY AboveStep, DiskAssumptions
  <2> QED  BY <2>2, <2>3
<1>5. PICK g \in deep : \A u \in deep : u <= g
  <2> HIDE DEF deep
  <2> QED  BY <1>3, <1>4, GreatestOf
<1>6. PICK d \in Above(Parent[f]) : g = Depth(d) /\ Depth(d) <= UsageMaxDepth
  OBVIOUS
<1>7. \A e \in Above(Parent[f]) : Depth(e) <= UsageMaxDepth => Depth(e) <= Depth(d)
  BY <1>5, <1>6
<1>8. good(d) /\ d \in ToSet(Path[f]) \ {f}
  BY <1>1, <1>6, <1>7
<1>9. bucketFor(f) = CHOOSE x \in ToSet(Path[f]) \ {f} : good(x)
  BY Zenon DEF bucketFor
<1>10. bucketFor(f) \in ToSet(Path[f]) \ {f}
  <2> HIDE DEF good
  <2> QED  BY <1>8, <1>9
<1> QED  BY <1>1, <1>10

\* A refusal that is noted keeps what was noted.
LEMMA NoteTyped ==
  ASSUME unreadable \in Seq(Dirs), more \in Nat, NEW d \in Dirs, noteUnreadable(d)
  PROVE  unreadable' \in Seq(Dirs) /\ more' \in Nat
<1>1. PICK q \in Seq(Dirs) : q = unreadable
  OBVIOUS
<1>2. Append(q, d) \in Seq(Dirs)
  BY AppendProperties
<1> QED  BY <1>1, <1>2 DEF noteUnreadable

\* What a walk gets to is below no directory it was refused, so its refusal is
\* told besides those.
LEMMA RefusalCounted ==
  ASSUME unreadable \in Seq(Dirs), more \in Nat, ToSet(unreadable) \subseteq RefusedDirs,
         NEW d \in Nodes, d \in RefusedDirs, noteUnreadable(d)
  PROVE  /\ ToSet(unreadable') \subseteq ToSet(unreadable) \cup {d}
         /\ Len(unreadable') + more' = Len(unreadable) + more + 1
<1>1. PICK q \in Seq(Dirs), l \in Nat : q = unreadable /\ l = Len(q) /\ DOMAIN q = 1..l
  BY LenProperties
<1>2. ASSUME NEW u \in ToSet(unreadable), Below(d, u) PROVE FALSE
  <2>1. u # d /\ u \in Above(d) /\ access[u] = "refused"
    BY <1>2 DEF Below, Above, RefusedDirs
  <2>2. u \in Above(Parent[d])
    BY <2>1, AboveStep
  <2>3. d # 0 /\ Reached(d)
    BY NodesNumbered DEF RefusedDirs
  <2> QED  BY <2>1, <2>2, <2>3 DEF Reached
<1>3. PICK r : r = Append(q, d) /\ Len(r) = l + 1 /\ DOMAIN r = 1..l + 1
               /\ r[l + 1] = d /\ \A i \in 1..l : r[i] = q[i]
  <2>1. d \in Dirs
    BY DEF RefusedDirs
  <2>2. PICK r \in Seq(Dirs) : r = Append(q, d)
    BY <2>1, AppendProperties
  <2>3. Len(r) = l + 1 /\ r[l + 1] = d /\ \A i \in 1..l : r[i] = q[i]
    BY <1>1, <2>1, <2>2, AppendProperties
  <2>4. DOMAIN r = 1..l + 1
    BY <2>2, <2>3, LenProperties
  <2> QED  BY <2>2, <2>3, <2>4
<1>4. ToSet(r) \subseteq ToSet(q) \cup {d}
  <2> SUFFICES ASSUME NEW i \in 1..l + 1 PROVE r[i] \in ToSet(q) \cup {d}
    BY <1>3 DEF ToSet
  <2>1. CASE i = l + 1
    BY <1>3, <2>1
  <2>2. CASE i # l + 1
    <3>1. i \in 1..l
      BY <2>2
    <3> QED  BY <1>1, <1>3, <3>1 DEF ToSet
  <2> QED  BY <2>1, <2>2
<1>5. CASE Len(unreadable) >= MaxUnreadableCollected
  <2>1. more' = more + 1 /\ unreadable' = unreadable
    BY <1>5 DEF noteUnreadable
  <2>2. Len(unreadable) + (more + 1) = Len(unreadable) + more + 1
    BY <1>1
  <2> QED  BY <2>1, <2>2
<1>6. CASE ~(Len(unreadable) >= MaxUnreadableCollected)
  <2>1. more' = more /\ unreadable' = r
    BY <1>1, <1>2, <1>3, <1>6 DEF noteUnreadable
  <2>2. (l + 1) + more = l + more + 1
    OBVIOUS
  <2> QED  BY <1>1, <1>3, <1>4, <2>1, <2>2
<1> QED  BY <1>5, <1>6

-----------------------------------------------------------------------------
(* DiskWalk: the invariant.                                                *)
BytesOf(S) == Total([f \in S |-> Size[f]])

\* Every byte and every refusal of what is no longer pending is told.
AllTold ==
    /\ Total(totals) = BytesOf(Visible \ Pending)
    /\ ToSet(unreadable) \subseteq RefusedDirs \ Pending
    /\ Len(unreadable) + more = Cardinality(RefusedDirs \ Pending)

ScanType ==
    /\ access \in [Nodes \cup {0} -> {"ok", "refused", "failing"}]
    /\ scan \in {"idle", "subtrees", "walk", "done"}
    /\ totals \in [Dirs -> Nat] /\ unreadable \in Seq(Dirs) /\ more \in Nat
    /\ Distinct(todo)

\* The walk is at a node of its subtree that it may get to, and lists it only
\* when it is a directory of this filesystem.
WalkAt ==
    /\ scan = "walk" => InSubtree /\ Reached(at)
    /\ listing => scan = "walk" /\ at \notin Files /\ at \notin LeftOut

NothingYet == scan = "idle" => totals = [d \in Dirs |-> 0] /\ unreadable = <<>> /\ more = 0

AccountsRight ==
    scan \in {"subtrees", "walk"} => access[0] = "ok" /\ (~partial => AllTold)

ScanInv == ScanType /\ WalkAt /\ NothingYet /\ AccountsRight /\ ScanComplete

\* The walk leaves a node behind: everything told besides it is told as before.
LEMMA LeavesBehind ==
  ASSUME scan = "walk", Distinct(todo), InSubtree, UNCHANGED access,
         NEW m, Follows(at, m), GoesOn(m),
         \A k \in Nodes : at < k /\ k < m => k \notin Visible /\ k \notin RefusedDirs
  PROVE  /\ at \in Pending /\ Visible' = Visible /\ RefusedDirs' = RefusedDirs
         /\ Visible' \ Pending' = (Visible \ Pending) \cup ({at} \cap Visible)
         /\ RefusedDirs' \ Pending' = (RefusedDirs \ Pending) \cup ({at} \cap RefusedDirs)
         /\ Distinct(todo') /\ scan' \in {"walk", "subtrees"}
         /\ scan' = "walk" => at' = m /\ m \in Nodes /\ InSubtree'
<1>1. PICK c \in Nat : Nodes = 1..c
  BY NodesNumbered
<1>2. /\ Pending' = Pending \ {n \in Nodes : at <= n /\ n < m}
      /\ Distinct(todo') /\ scan' \in {"walk", "subtrees"}
      /\ scan' = "walk" => at' = m /\ m \in Nodes /\ InSubtree'
  BY GoesOnEffect
<1>3. Visible' = Visible /\ RefusedDirs' = RefusedDirs
  BY DEF Visible, RefusedDirs, Reached
<1>4. at \in Nodes /\ at \in Nat /\ at < m
  <2>1. PICK e \in Nat : e = Cardinality(Nodes)
    BY DiskAssumptions, FS_CardinalityType
  <2>2. at \in Nodes /\ m \in at + 1..e + 1
    BY <2>1 DEF Follows, InSubtree
  <2> QED  BY <1>1, <2>2
<1>5. at \in Pending
  <2>1. PICK q \in Seq(Subtrees) : q = todo /\ q # <<>>
    BY DEF Distinct, InSubtree
  <2>2. 1 \in 1..Len(todo)
    BY <2>1
  <2>3. at >= at
    BY <1>4
  <2> QED  BY <1>4, <2>2, <2>3 DEF Pending, InSubtree
<1>6. \A n \in Nodes : at <= n /\ n < m => n = at \/ (n \notin Visible /\ n \notin RefusedDirs)
  BY <1>1, <1>4
<1>7. 0 \notin Pending /\ Pending \subseteq Nodes
  BY <1>1 DEF Pending
<1>8. at <= at
  BY <1>4
<1>9. at \in {n \in Nodes : at <= n /\ n < m}
  BY <1>4, <1>8
<1>10. Visible \ Pending' = (Visible \ Pending) \cup ({at} \cap Visible)
  BY <1>2, <1>5, <1>6, <1>9
<1>11. RefusedDirs \ Pending' = (RefusedDirs \ Pending) \cup ({at} \cap RefusedDirs)
  BY <1>2, <1>5, <1>6, <1>9
<1> QED  BY <1>2, <1>3, <1>5, <1>10, <1>11

\* One more file, one more refusal.
LEMMA FinitelyMany ==
  /\ IsFiniteSet(Dirs) /\ IsFiniteSet(Files) /\ IsFiniteSet(Visible) /\ IsFiniteSet(RefusedDirs)
  /\ Visible \subseteq Nodes /\ \A S \in SUBSET Files : IsFiniteSet(S) /\ [f \in S |-> Size[f]] \in [S -> Nat]
<1>1. IsFiniteSet(Nodes \cup {0})
  BY DiskAssumptions, FS_Singleton, FS_Union
<1>2. /\ Dirs \subseteq Nodes \cup {0} /\ Files \subseteq Nodes \cup {0} /\ Visible \subseteq Nodes
      /\ Visible \subseteq Nodes \cup {0} /\ RefusedDirs \subseteq Nodes \cup {0}
  BY DiskAssumptions DEF Dirs, Visible, RefusedDirs
<1>3. IsFiniteSet(Dirs) /\ IsFiniteSet(Files) /\ IsFiniteSet(Visible) /\ IsFiniteSet(RefusedDirs)
  BY <1>1, <1>2, FS_Subset
<1>4. \A S \in SUBSET Files : IsFiniteSet(S)
  BY <1>3, FS_Subset
<1>5. \A S \in SUBSET Files : [f \in S |-> Size[f]] \in [S -> Nat]
  BY DiskAssumptions
<1> QED  BY <1>2, <1>3, <1>4, <1>5

LEMMA OneMoreFile ==
  ASSUME NEW S \in SUBSET Files, NEW f \in Files, f \notin S
  PROVE  /\ BytesOf(S) \in Nat
         /\ BytesOf(S \cup {f}) = BytesOf(S) + Size[f]
<1>1. PICK g : g = [x \in S |-> Size[x]]
  OBVIOUS
<1>2. PICK h : h = [x \in S \cup {f} |-> Size[x]]
  OBVIOUS
<1>3. IsFiniteSet(S) /\ g \in [S -> Nat] /\ h \in [S \cup {f} -> Nat]
  BY <1>1, <1>2, FinitelyMany, DiskAssumptions
<1>4. \A x \in S : h[x] = g[x]
  BY <1>1, <1>2
<1>5. h[f] = Size[f]
  BY <1>2
<1>6. Total(h) = Total(g) + h[f]
  BY <1>3, <1>4, SumWith
<1>7. Total(g) \in Nat
  BY <1>3, SumFinite
<1> QED  BY <1>1, <1>2, <1>5, <1>6, <1>7 DEF BytesOf

-----------------------------------------------------------------------------
(* DiskWalk: a scan begins, walks and ends.                                *)

\* Before the first walk the files of the mount are told, and everything else
\* a scan gets to is in a subtree to come.
LEMMA ToldAtFirst ==
  ASSUME access[0] = "ok"
  PROVE  LET ahead == {n \in Nodes : \E s \in Subtrees : s \in Above(n)}
         IN  /\ Visible \ ahead = {f \in Files : Parent[f] = 0 /\ access[f] = "ok"}
             /\ RefusedDirs \ ahead = {}
<1> DEFINE ahead == {n \in Nodes : \E s \in Subtrees : s \in Above(n)}
<1>1. 0 \notin Nodes /\ 0 \notin LeftOut
  BY NodesNumbered, DiskAssumptions
<1>2. ASSUME NEW n \in Nodes, Reached(n), (n \in Dirs /\ n \notin LeftOut) \/ Parent[n] # 0
      PROVE  n \in ahead
  <2>1. PICK c \in Above(n) : c \in Nodes /\ Parent[c] = 0
    BY TopOf
  <2>2. CASE c = n
    BY <1>1, <1>2, <2>1, <2>2 DEF Subtrees
  <2>3. CASE c # n
    <3>1. c \in Above(Parent[n]) /\ c \in Dirs
      BY <2>1, <2>3, AboveStep, AboveDirs
    <3>2. c \notin LeftOut
      BY <1>2, <3>1 DEF Reached
    <3> QED  BY <1>1, <2>1, <3>1, <3>2 DEF Subtrees
  <2> QED  BY <2>2, <2>3
<1>3. RefusedDirs \ ahead = {}
  <2> SUFFICES ASSUME NEW d \in RefusedDirs PROVE d \in ahead
    OBVIOUS
  <2>1. d # 0 /\ d \in Dirs /\ d \notin LeftOut /\ Reached(d)
    BY DEF RefusedDirs
  <2>2. d \in Nodes
    BY <2>1 DEF Dirs
  <2> HIDE DEF ahead
  <2> QED  BY <1>2, <2>1, <2>2
<1>4. ASSUME NEW f \in Visible \ ahead
      PROVE  f \in Files /\ Parent[f] = 0 /\ access[f] = "ok"
  <2>1. f \in Files /\ f \in Nodes /\ Reached(f) /\ access[f] = "ok"
    BY DiskAssumptions DEF Visible
  <2> HIDE DEF ahead
  <2> QED  BY <1>2, <1>4, <2>1
<1>5. ASSUME NEW f \in Files, Parent[f] = 0, access[f] = "ok"
      PROVE  f \in Visible \ ahead
  <2>1. f \in Nodes /\ f \notin Dirs
    BY DiskAssumptions DEF Dirs
  <2>2. Above(f) = {f, 0} /\ Above(Parent[f]) = {0}
    BY <1>5, <2>1, AboveStep
  <2>3. Reached(f)
    BY <1>1, <2>2 DEF Reached
  <2>4. \A s \in Subtrees : s # f /\ s # 0
    BY <2>1 DEF Subtrees
  <2> QED  BY <1>5, <2>2, <2>3, <2>4 DEF Visible
<1> QED  BY <1>3, <1>4, <1>5

LEMMA ScanBegins ==
  ASSUME ScanInv, NEW t, ScanUsage(t)
  PROVE  ScanInv'
<1> DEFINE counted == {f \in Files : Parent[f] = 0 /\ access[f] = "ok"}
           ahead == {n \in Nodes : \E s \in Subtrees : s \in Above(n)}
<1>1. /\ scan = "idle" /\ access[0] = "ok" /\ scan' = "subtrees"
      /\ UNCHANGED <<access, listing, unreadable, more>>
  BY DEF ScanUsage
<1>2. /\ totals = [d \in Dirs |-> 0] /\ unreadable = <<>> /\ more = 0
      /\ ScanType /\ ~listing
  BY <1>1 DEF ScanInv, NothingYet, WalkAt
<1>3. todo' = Ordered(Subtrees)
  <2>1. PICK S : S = ({n \in Nodes : Parent[n] = 0} \ Files) \ LeftOut /\ todo' = ReadDir(S)
    BY DEF ScanUsage
  <2>2. S = Subtrees
    BY <2>1, DiskAssumptions, NodesNumbered DEF Subtrees, Dirs
  <2>3. todo' = ReadDir(Subtrees)
    BY <2>1, <2>2
  <2>4. ReadDir(Subtrees) = Ordered(Subtrees)
    BY Zenon DEF ReadDir, Ordered, RankIn
  <2> QED  BY <2>3, <2>4
<1>q. PICK q : q = todo'
  OBVIOUS
<1>4. PICK l \in Nat :
        /\ q = todo' /\ q \in Seq(Subtrees) /\ Len(q) = l
        /\ Range(q) = Subtrees /\ \A i, j \in 1..l : i < j => q[i] < q[j]
  <2>1. /\ Cardinality(Subtrees) \in Nat
        /\ Ordered(Subtrees) \in Seq(Subtrees) /\ Len(Ordered(Subtrees)) = Cardinality(Subtrees)
        /\ Range(Ordered(Subtrees)) = Subtrees
        /\ \A i, j \in 1..Cardinality(Subtrees) : i < j => Ordered(Subtrees)[i] < Ordered(Subtrees)[j]
    BY SubtreesCounted, OrderedShape
  <2>2. q = Ordered(Subtrees)
    BY <1>3, <1>q
  <2>3. PICK l \in Nat : l = Cardinality(Subtrees)
    BY <2>1
  <2> QED  BY <1>q, <2>1, <2>2, <2>3
<1>5. \A i \in 1..l : q[i] \in Subtrees /\ q[i] \in Nat
  BY <1>4, SubtreesCounted, ElementOfSeq
<1>6. Distinct(todo')
  <2>1. ASSUME NEW i \in 1..l, NEW j \in 1..l, i < j PROVE q[i] # q[j]
    BY <1>4, <1>5, <2>1
  <2> QED  BY <1>4, <2>1 DEF Distinct
<1>7. Pending' = ahead
  <2>1. DOMAIN q = 1..l
    BY <1>4, LenProperties
  <2>2. \A s \in Subtrees : \E i \in 1..l : q[i] = s
    BY <1>4, <2>1 DEF Range
  <2>3. \A n \in Nodes : (\E i \in 1..l : q[i] \in Above(n)) <=> \E s \in Subtrees : s \in Above(n)
    BY <1>5, <2>2
  <2>4. Pending' = {n \in Nodes : \E i \in 1..l : q[i] \in Above(n)}
    BY <1>1, <1>4 DEF Pending
  <2> QED  BY <2>3, <2>4
<1>8. Visible' = Visible /\ RefusedDirs' = RefusedDirs
  BY <1>1 DEF Visible, RefusedDirs, Reached
<1>9. Visible \ ahead = counted /\ RefusedDirs \ ahead = {}
  BY <1>1, ToldAtFirst, Zenon
<1>10. totals' \in [Dirs -> Nat] /\ Total(totals') = BytesOf(counted)
  <2>1. PICK b : b = BytesOf(counted)
    OBVIOUS
  <2>2. b \in Nat
    BY <2>1, FinitelyMany, SumFinite DEF BytesOf
  <2>3. totals' = [totals EXCEPT ![0] = b]
    <3>1. {n \in Nodes : Parent[n] = 0} \cap Files = {f \in Files : Parent[f] = 0}
      BY DiskAssumptions
    <3>2. {f \in {n \in Nodes : Parent[n] = 0} \cap Files : access[f] = "ok"} = counted
      BY <3>1
    <3>3. totals' = [totals EXCEPT ![0] =
                Total([f \in {f \in {n \in Nodes : Parent[n] = 0} \cap Files : access[f] = "ok"} |-> Size[f]])]
      BY DEF ScanUsage
    <3> QED  BY <2>1, <3>2, <3>3 DEF BytesOf
  <2>4. 0 \in Dirs
    BY NodesNumbered, DiskAssumptions DEF Dirs
  <2>5. totals \in [Dirs -> {0}] /\ totals \in [Dirs -> Nat]
    BY <1>2
  <2>6. totals' = [totals EXCEPT ![0] = @ + b]
    BY <1>2, <2>2, <2>3, <2>4
  <2>7. Total(totals) = 0
    BY <2>5, SumOfZeros
  <2>8. totals' \in [Dirs -> Nat] /\ Total(totals') = Total(totals) + b
    <3>1. PICK f \in [Dirs -> Nat] : f = totals
      BY <2>5
    <3>2. PICK g : g = totals'
      OBVIOUS
    <3>3. g \in [Dirs -> Nat] /\ g[0] = f[0] + b /\ \A x \in Dirs : x # 0 => g[x] = f[x]
      BY <2>2, <2>4, <2>6, <3>1, <3>2
    <3>4. IsFiniteSet(Dirs)
      BY FinitelyMany
    <3>5. Total(g) = Total(f) + b
      BY <2>2, <2>4, <3>3, <3>4, SumGrows
    <3> QED  BY <3>1, <3>2, <3>3, <3>5
  <2> QED  BY <2>1, <2>2, <2>7, <2>8
<1>11. AllTold'
  <2>1. ToSet(<<>>) = {} /\ Len(<<>>) + 0 = 0
    BY DEF ToSet
  <2>2. Cardinality({}) = 0
    BY FS_EmptySet
  <2>3. Visible' \ Pending' = counted /\ RefusedDirs' \ Pending' = {}
    BY <1>7, <1>8, <1>9
  <2>4. BytesOf(Visible \ Pending)' = BytesOf(counted)
    BY <2>3 DEF BytesOf
  <2> HIDE DEF counted
  <2>5. ToSet(unreadable') = {} /\ Len(unreadable') + more' = 0
    BY <1>1, <1>2, <2>1
  <2> QED  BY <1>10, <2>2, <2>3, <2>4, <2>5 DEF AllTold
<1>12. ScanType'
  BY <1>1, <1>2, <1>6, <1>10 DEF ScanType
<1>13. ScanComplete'
  BY <1>1 DEF ScanComplete
<1> QED  BY <1>1, <1>2, <1>11, <1>12, <1>13 DEF ScanInv, WalkAt, NothingYet, AccountsRight

\* The walk goes on, having told what was at the node it leaves.
LEMMA WalksOn ==
  ASSUME ScanInv, scan = "walk", UNCHANGED <<access, partial>>, listing' = FALSE,
         NEW m, Follows(at, m), GoesOn(m), m \in Nodes => Reached(m),
         \A k \in Nodes : at < k /\ k < m => k \notin Visible /\ k \notin RefusedDirs,
         totals' \in [Dirs -> Nat], unreadable' \in Seq(Dirs), more' \in Nat,
         ~partial /\ AllTold =>
            /\ Total(totals') = BytesOf((Visible \ Pending) \cup ({at} \cap Visible))
            /\ ToSet(unreadable') \subseteq (RefusedDirs \ Pending) \cup ({at} \cap RefusedDirs)
            /\ Len(unreadable') + more' =
                    Cardinality((RefusedDirs \ Pending) \cup ({at} \cap RefusedDirs))
  PROVE  ScanInv'
<1>1. Distinct(todo) /\ InSubtree /\ ScanType /\ access[0] = "ok" /\ (~partial => AllTold)
  BY DEF ScanInv, ScanType, WalkAt, AccountsRight
<1>2. /\ Visible' \ Pending' = (Visible \ Pending) \cup ({at} \cap Visible)
      /\ RefusedDirs' \ Pending' = (RefusedDirs \ Pending) \cup ({at} \cap RefusedDirs)
      /\ Distinct(todo') /\ scan' \in {"walk", "subtrees"}
      /\ scan' = "walk" => at' = m /\ m \in Nodes /\ InSubtree'
  BY <1>1, LeavesBehind
<1>3. ScanType'
  BY <1>1, <1>2 DEF ScanType
<1>4. WalkAt'
  BY <1>2 DEF WalkAt, Reached
<1>5. ASSUME ~partial PROVE AllTold'
  <2>1. /\ Total(totals') = BytesOf((Visible \ Pending) \cup ({at} \cap Visible))
        /\ ToSet(unreadable') \subseteq (RefusedDirs \ Pending) \cup ({at} \cap RefusedDirs)
        /\ Len(unreadable') + more' =
                Cardinality((RefusedDirs \ Pending) \cup ({at} \cap RefusedDirs))
    BY <1>1, <1>5
  <2>2. BytesOf(Visible \ Pending)' = BytesOf((Visible \ Pending) \cup ({at} \cap Visible))
    BY <1>2 DEF BytesOf
  <2> QED  BY <1>2, <2>1, <2>2 DEF AllTold
<1>6. AccountsRight'
  BY <1>1, <1>5 DEF AccountsRight
<1>7. NothingYet' /\ ScanComplete'
  BY <1>2 DEF NothingYet, ScanComplete
<1> QED  BY <1>3, <1>4, <1>6, <1>7 DEF ScanInv

LEMMA FileVisited ==
  ASSUME ScanInv, NEW t, VisitFile(t)
  PROVE  ScanInv'
<1>1. /\ scan = "walk" /\ ~listing /\ at \in Files /\ GoesOn(at + 1)
      /\ UNCHANGED <<access, listing, unreadable, more, partial>>
  BY DEF VisitFile
<1>2. ScanType /\ InSubtree /\ Reached(at) /\ Distinct(todo)
  BY <1>1 DEF ScanInv, WalkAt, ScanType
<1>3. at \in Nodes /\ at \notin Dirs /\ at \notin RefusedDirs
  BY <1>1, <1>2 DEF InSubtree, Dirs, RefusedDirs
<1>4. Follows(at, at + 1)
  BY <1>3, FileFollows
<1>5. at + 1 \in Nodes => Reached(at + 1)
  BY <1>1, <1>2, <1>3, <1>4, FileFollows, ReachNext
<1>6. \A k \in Nodes : ~(at < k /\ k < at + 1)
  <2>1. PICK c \in Nat : Nodes = 1..c
    BY NodesNumbered
  <2> QED  BY <1>3, <2>1
<1>7. PICK S : S = Visible \ Pending
  OBVIOUS
<1>8. at \notin S /\ S \subseteq Files /\ (access[at] = "ok" <=> at \in Visible)
  <2>1. at \in Pending
    BY <1>1, <1>2, <1>4, <1>6, LeavesBehind
  <2> QED  BY <1>1, <1>2, <1>7, <2>1 DEF Visible
<1>9. totals' \in [Dirs -> Nat] /\
      (Total(totals) = BytesOf(S) => Total(totals') = BytesOf(S \cup ({at} \cap Visible)))
  <2>1. CASE access[at] # "ok"
    <3>1. totals' = totals
      BY <2>1 DEF VisitFile
    <3>2. S \cup ({at} \cap Visible) = S
      BY <1>8, <2>1
    <3> QED  BY <1>2, <3>1, <3>2 DEF ScanType
  <2>2. CASE access[at] = "ok"
    <3>1. PICK b \in Dirs : b = bucketFor(at)
      BY <1>3, BucketIsDir
    <3>2. PICK f \in [Dirs -> Nat] : f = totals
      BY <1>2 DEF ScanType
    <3>3. PICK n \in Nat : n = Size[at]
      BY <1>1, DiskAssumptions
    <3>4. PICK g : g = totals'
      OBVIOUS
    <3>5. g = [f EXCEPT ![b] = f[b] + n]
      BY <2>2, <3>1, <3>2, <3>3, <3>4 DEF VisitFile
    <3>6. g \in [Dirs -> Nat] /\ g[b] = f[b] + n /\ \A x \in Dirs : x # b => g[x] = f[x]
      BY <3>5
    <3>7. IsFiniteSet(Dirs)
      BY FinitelyMany
    <3>8. Total(g) = Total(f) + n
      BY <3>6, <3>7, SumGrows
    <3>9. {at} \cap Visible = {at}
      BY <1>8, <2>2
    <3>10. BytesOf(S \cup {at}) = BytesOf(S) + Size[at]
      BY <1>1, <1>8, OneMoreFile
    <3> QED  BY <3>2, <3>3, <3>4, <3>6, <3>8, <3>9, <3>10
  <2> QED  BY <2>1, <2>2
<1>10. (RefusedDirs \ Pending) \cup ({at} \cap RefusedDirs) = RefusedDirs \ Pending
  BY <1>3
<1>11. ASSUME AllTold
       PROVE  /\ Total(totals') = BytesOf((Visible \ Pending) \cup ({at} \cap Visible))
              /\ ToSet(unreadable') \subseteq (RefusedDirs \ Pending) \cup ({at} \cap RefusedDirs)
              /\ Len(unreadable') + more' =
                    Cardinality((RefusedDirs \ Pending) \cup ({at} \cap RefusedDirs))
  BY <1>1, <1>7, <1>9, <1>10, <1>11 DEF AllTold
<1>12. /\ listing' = FALSE /\ unreadable' \in Seq(Dirs) /\ more' \in Nat
       /\ totals' \in [Dirs -> Nat] /\ UNCHANGED <<access, partial>>
  BY <1>1, <1>2, <1>9 DEF ScanType
<1> QED  BY <1>1, <1>4, <1>5, <1>6, <1>11, <1>12, WalksOn

\* Nothing is told of a directory that is passed over, nor of what is in it.
LEMMA PassesOver ==
  ASSUME NEW a \in Nodes, Reached(a), ~(access[a] = "ok" /\ a \notin LeftOut)
  PROVE  /\ Follows(a, After(a)) /\ (After(a) \in Nodes => Reached(After(a)))
         /\ \A k \in Nodes : a < k /\ k < After(a) => k \notin Visible /\ k \notin RefusedDirs
<1>1. Follows(a, After(a)) /\ (After(a) \in Nodes => a \notin Above(After(a)))
  BY AfterShape
<1>2. ASSUME After(a) \in Nodes PROVE Reached(After(a))
  BY <1>1, <1>2, ReachNext
<1>3. ASSUME NEW k \in Nodes, a < k, k < After(a)
      PROVE  k \notin Visible /\ k \notin RefusedDirs
  <2>1. a \in Above(k)
    BY <1>1, <1>3 DEF Follows
  <2>2. ~Reached(k)
    BY <1>3, <2>1, NotReached
  <2>3. k # 0
    BY NodesNumbered
  <2> QED  BY <2>2, <2>3 DEF Visible, RefusedDirs
<1> QED  BY <1>1, <1>2, <1>3

LEMMA DirVisited ==
  ASSUME ScanInv, NEW t, VisitDir(t)
  PROVE  ScanInv'
<1>1. /\ scan = "walk" /\ ~listing /\ at \notin Files
      /\ UNCHANGED <<access, totals, unreadable, more, partial>>
  BY DEF VisitDir
<1>2. ScanType /\ InSubtree /\ Reached(at) /\ Distinct(todo) /\ AccountsRight
  BY <1>1 DEF ScanInv, WalkAt, ScanType
<1>3. at \in Nodes /\ at \notin Visible
  BY <1>1, <1>2 DEF InSubtree, Visible
<1>4. CASE at \in LeftOut
  <2>1. GoesOn(After(at)) /\ listing' = FALSE
    BY <1>1, <1>4 DEF VisitDir
  <2>2. /\ Follows(at, After(at)) /\ (After(at) \in Nodes => Reached(After(at)))
        /\ \A k \in Nodes : at < k /\ k < After(at) => k \notin Visible /\ k \notin RefusedDirs
    BY <1>2, <1>3, <1>4, PassesOver
  <2>3. /\ (RefusedDirs \ Pending) \cup ({at} \cap RefusedDirs) = RefusedDirs \ Pending
        /\ (Visible \ Pending) \cup ({at} \cap Visible) = Visible \ Pending
    BY <1>3, <1>4 DEF RefusedDirs
  <2>4. ASSUME AllTold
        PROVE  /\ Total(totals') = BytesOf((Visible \ Pending) \cup ({at} \cap Visible))
               /\ ToSet(unreadable') \subseteq (RefusedDirs \ Pending) \cup ({at} \cap RefusedDirs)
               /\ Len(unreadable') + more' =
                     Cardinality((RefusedDirs \ Pending) \cup ({at} \cap RefusedDirs))
    BY <1>1, <2>3, <2>4 DEF AllTold
  <2>5. /\ unreadable' \in Seq(Dirs) /\ more' \in Nat
        /\ totals' \in [Dirs -> Nat] /\ UNCHANGED <<access, partial>>
    BY <1>1, <1>2 DEF ScanType
  <2> QED  BY <1>1, <2>1, <2>2, <2>4, <2>5, WalksOn
<1>5. CASE at \notin LeftOut
  <2>1. listing' = TRUE /\ UNCHANGED <<scan, todo, at>>
    BY <1>5 DEF VisitDir
  <2>2. ScanType'
    BY <1>1, <1>2, <2>1 DEF ScanType, Distinct
  <2>3. WalkAt'
    BY <1>1, <1>2, <1>5, <2>1 DEF WalkAt, InSubtree, Reached
  <2>4. AccountsRight'
    BY <1>1, <1>2, <2>1
       DEF AccountsRight, AllTold, BytesOf, Visible, RefusedDirs, Reached, Pending
  <2>5. NothingYet' /\ ScanComplete'
    BY <1>1, <2>1 DEF NothingYet, ScanComplete
  <2> QED  BY <2>2, <2>3, <2>4, <2>5 DEF ScanInv
<1> QED  BY <1>4, <1>5

LEMMA DirListed ==
  ASSUME ScanInv, NEW t, ListDir(t)
  PROVE  ScanInv'
<1>1. /\ scan = "walk" /\ listing /\ listing' = FALSE
      /\ UNCHANGED <<access, totals, partial>>
  BY DEF ListDir
<1>2. ScanType /\ InSubtree /\ Reached(at) /\ Distinct(todo) /\ at \notin Files /\ at \notin LeftOut
  BY <1>1 DEF ScanInv, WalkAt, ScanType
<1>3. at \in Nodes /\ at \notin Visible /\ at \in Dirs /\ at # 0
  BY <1>2, NodesNumbered DEF InSubtree, Visible, Dirs
<1>4. totals' \in [Dirs -> Nat] /\ UNCHANGED <<access, partial>>
  BY <1>1, <1>2 DEF ScanType
<1>5. (Visible \ Pending) \cup ({at} \cap Visible) = Visible \ Pending
  BY <1>3
<1>6. CASE access[at] = "ok"
  <2>1. GoesOn(at + 1) /\ UNCHANGED <<unreadable, more>>
    BY <1>6 DEF ListDir
  <2>2. Follows(at, at + 1)
    BY <1>3, FileFollows
  <2>3. at + 1 \in Nodes => Reached(at + 1)
    BY <1>2, <1>3, <1>6, <2>2, ReachNext
  <2>4. \A k \in Nodes : ~(at < k /\ k < at + 1)
    <3>1. PICK c \in Nat : Nodes = 1..c
      BY NodesNumbered
    <3> QED  BY <1>3, <3>1
  <2>5. (RefusedDirs \ Pending) \cup ({at} \cap RefusedDirs) = RefusedDirs \ Pending
    BY <1>6 DEF RefusedDirs
  <2>6. ASSUME AllTold
        PROVE  /\ Total(totals') = BytesOf((Visible \ Pending) \cup ({at} \cap Visible))
               /\ ToSet(unreadable') \subseteq (RefusedDirs \ Pending) \cup ({at} \cap RefusedDirs)
               /\ Len(unreadable') + more' =
                     Cardinality((RefusedDirs \ Pending) \cup ({at} \cap RefusedDirs))
    BY <1>1, <1>5, <2>1, <2>5, <2>6 DEF AllTold
  <2>7. unreadable' \in Seq(Dirs) /\ more' \in Nat
    BY <1>2, <2>1 DEF ScanType
  <2> QED  BY <1>1, <1>4, <2>1, <2>2, <2>3, <2>4, <2>6, <2>7, WalksOn
<1>7. CASE access[at] # "ok"
  <2>1. GoesOn(After(at)) /\ Refused(at)
    BY <1>7 DEF ListDir
  <2>2. /\ Follows(at, After(at)) /\ (After(at) \in Nodes => Reached(After(at)))
        /\ \A k \in Nodes : at < k /\ k < After(at) => k \notin Visible /\ k \notin RefusedDirs
    BY <1>2, <1>3, <1>7, PassesOver
  <2>3. at \in Pending
    BY <1>1, <1>2, <2>1, <2>2, LeavesBehind
  <2>4. unreadable' \in Seq(Dirs) /\ more' \in Nat
    BY <1>2, <1>3, <2>1, NoteTyped DEF Refused, ScanType
  <2>5. ASSUME AllTold
        PROVE  /\ Total(totals') = BytesOf((Visible \ Pending) \cup ({at} \cap Visible))
               /\ ToSet(unreadable') \subseteq (RefusedDirs \ Pending) \cup ({at} \cap RefusedDirs)
               /\ Len(unreadable') + more' =
                     Cardinality((RefusedDirs \ Pending) \cup ({at} \cap RefusedDirs))
    <3>1. Total(totals') = BytesOf((Visible \ Pending) \cup ({at} \cap Visible))
      BY <1>1, <1>5, <2>5 DEF AllTold
    <3>2. PICK R : R = RefusedDirs \ Pending
      OBVIOUS
    <3>3. ToSet(unreadable) \subseteq R /\ Len(unreadable) + more = Cardinality(R)
      BY <2>5, <3>2 DEF AllTold
    <3>4. CASE access[at] = "refused"
      <4>1. at \in RefusedDirs
        BY <1>2, <1>3, <3>4 DEF RefusedDirs
      <4>2. noteUnreadable(at)
        BY <2>1, <3>4 DEF Refused
      <4>3. /\ ToSet(unreadable') \subseteq ToSet(unreadable) \cup {at}
            /\ Len(unreadable') + more' = Len(unreadable) + more + 1
        BY <1>2, <1>3, <3>2, <3>3, <4>1, <4>2, RefusalCounted DEF ScanType
      <4>4. IsFiniteSet(R) /\ at \notin R
        <5>1. R \subseteq RefusedDirs
          BY <3>2
        <5> QED  BY <2>3, <3>2, <5>1, FinitelyMany, FS_Subset
      <4>5. Cardinality(R \cup {at}) = Cardinality(R) + 1
        BY <4>4, FS_AddElement
      <4>6. {at} \cap RefusedDirs = {at}
        BY <4>1
      <4>7. Len(unreadable') + more' = Cardinality(R \cup {at})
        BY <3>3, <4>3, <4>5
      <4> QED  BY <3>1, <3>2, <3>3, <4>3, <4>6, <4>7
    <3>5. CASE access[at] # "refused"
      <4>1. UNCHANGED <<unreadable, more>>
        BY <2>1, <3>5 DEF Refused
      <4>2. R \cup ({at} \cap RefusedDirs) = R
        BY <3>5 DEF RefusedDirs
      <4> QED  BY <3>1, <3>2, <3>3, <4>1, <4>2
    <3> QED  BY <3>4, <3>5
  <2> QED  BY <1>1, <1>4, <2>1, <2>2, <2>4, <2>5, WalksOn
<1> QED  BY <1>6, <1>7

LEMMA TailDistinct ==
  ASSUME NEW q, Distinct(q), q # <<>>
  PROVE  Distinct(Tail(q)) /\ q[1] \in Subtrees /\ Head(q) = q[1] /\ 1 \in 1..Len(q)
<1>1. q \in Seq(Subtrees) /\ \A i, j \in 1..Len(q) : i < j => q[i] # q[j]
  BY DEF Distinct
<1>2. /\ Tail(q) \in Seq(Subtrees) /\ Len(q) \in Nat \ {0} /\ Len(Tail(q)) = Len(q) - 1
      /\ \A i \in 1..Len(q) - 1 : Tail(q)[i] = q[i + 1]
      /\ Head(q) = q[1] /\ q[1] \in Subtrees
  BY <1>1
<1>3. PICK l \in Nat : Len(q) = l /\ l # 0
  BY <1>2
<1>4. ASSUME NEW i \in 1..l - 1, NEW j \in 1..l - 1, i < j PROVE Tail(q)[i] # Tail(q)[j]
  <2>1. i + 1 \in 1..l /\ j + 1 \in 1..l /\ i + 1 < j + 1
    BY <1>3, <1>4
  <2> QED  BY <1>1, <1>2, <1>3, <2>1
<1>5. 1 \in 1..l
  BY <1>3
<1> QED  BY <1>2, <1>3, <1>4, <1>5 DEF Distinct

LEMMA SubtreeBegins ==
  ASSUME ScanInv, NextSubtree
  PROVE  ScanInv'
<1>1. /\ scan = "subtrees" /\ todo # <<>>
      /\ UNCHANGED <<access, listing, totals, unreadable, more>>
  BY DEF NextSubtree
<1>2. /\ ScanType /\ Distinct(todo) /\ access[0] = "ok" /\ (~partial => AllTold) /\ ~listing
  BY <1>1 DEF ScanInv, ScanType, AccountsRight, WalkAt
<1>3. PICK h : h = Head(todo) /\ h = todo[1] /\ h \in Subtrees
  BY <1>1, <1>2, TailDistinct
<1>4. 1 \in 1..Len(todo) /\ Distinct(Tail(todo))
  BY <1>1, <1>2, TailDistinct
<1>5. h \in Nodes /\ Parent[h] = 0 /\ 0 \notin LeftOut
  BY <1>3, DiskAssumptions DEF Subtrees, Dirs
<1>6. CASE partial' = TRUE /\ todo' = Tail(todo) /\ UNCHANGED <<scan, at>>
  <2>1. ScanType'
    BY <1>1, <1>2, <1>4, <1>6 DEF ScanType
  <2> QED  BY <1>1, <1>2, <1>6, <2>1 DEF ScanInv, WalkAt, NothingYet, AccountsRight, ScanComplete
<1>7. CASE scan' = "walk" /\ at' = Head(todo) /\ UNCHANGED <<partial, todo>>
  <2>1. ScanType'
    BY <1>1, <1>2, <1>7 DEF ScanType, Distinct
  <2>2. h \in Above(h) /\ Above(0) = {0}
    BY <1>5, AboveStep
  <2>3. InSubtree' /\ Reached(at)'
    BY <1>1, <1>2, <1>3, <1>5, <1>7, <2>2 DEF InSubtree, Reached
  <2>4. WalkAt'
    BY <1>1, <1>2, <2>3 DEF WalkAt
  <2>5. Pending' = Pending
    <3>1. \A n \in Nodes : h \in Above(n) => n >= h
      <4> SUFFICES ASSUME NEW n \in Nodes, h \in Above(n) PROVE n >= h
        OBVIOUS
      <4>1. h <= n /\ h \in Nat /\ n \in Nat
        BY <1>5, AboveUp, NodesNumbered
      <4> QED  BY <4>1
    <3>2. scan' = "walk" /\ at' = h /\ todo' = todo /\ todo[1] = h
      BY <1>3, <1>7
    <3> QED  BY <1>1, <3>1, <3>2 DEF Pending
  <2>6. Visible' = Visible /\ RefusedDirs' = RefusedDirs
    BY <1>1 DEF Visible, RefusedDirs, Reached
  <2>7. AllTold => AllTold'
    BY <1>1, <2>5, <2>6 DEF AllTold, BytesOf
  <2>8. AccountsRight'
    BY <1>1, <1>2, <1>7, <2>7 DEF AccountsRight
  <2> QED  BY <1>7, <2>1, <2>4, <2>8 DEF ScanInv, NothingYet, ScanComplete
<1> QED
  <2>1. CASE usageShare(UsageBudget - elapsed, Len(todo)) <= 0
    BY <1>6, <2>1 DEF NextSubtree
  <2>2. CASE ~(usageShare(UsageBudget - elapsed, Len(todo)) <= 0)
    BY <1>7, <2>2 DEF NextSubtree
  <2> QED  BY <2>1, <2>2

LEMMA WalkStopped ==
  ASSUME ScanInv, StopWalk
  PROVE  ScanInv'
<1>1. /\ scan = "walk" /\ ~listing /\ partial' = TRUE /\ scan' = "subtrees" /\ todo' = Tail(todo)
      /\ UNCHANGED <<access, at, listing, totals, unreadable, more>>
  BY DEF StopWalk
<1>2. ScanType /\ Distinct(todo) /\ todo # <<>> /\ access[0] = "ok"
  BY <1>1 DEF ScanInv, ScanType, WalkAt, InSubtree, AccountsRight
<1>3. Distinct(todo')
  BY <1>1, <1>2, TailDistinct
<1>4. ScanType'
  BY <1>1, <1>2, <1>3 DEF ScanType
<1> QED  BY <1>1, <1>2, <1>4 DEF ScanInv, WalkAt, NothingYet, AccountsRight, ScanComplete

LEMMA ScanFailed ==
  ASSUME ScanInv, ScanFails
  PROVE  ScanInv'
<1>1. /\ scan = "idle" /\ scan' = "done" /\ partial' = TRUE
      /\ UNCHANGED <<access, todo, at, listing, totals>>
  BY DEF ScanFails
<1>2. ScanType /\ ~listing
  BY <1>1 DEF ScanInv, WalkAt
<1>3. unreadable' \in Seq(Dirs) /\ more' \in Nat
  <2>1. 0 \in Dirs
    BY NodesNumbered, DiskAssumptions DEF Dirs
  <2>2. CASE access[0] = "refused"
    BY <1>2, <2>1, <2>2, NoteTyped DEF ScanFails, ScanType
  <2>3. CASE access[0] # "refused"
    BY <1>2, <2>3 DEF ScanFails, ScanType
  <2> QED  BY <2>2, <2>3
<1>4. ScanType'
  BY <1>1, <1>2, <1>3 DEF ScanType, Distinct
<1> QED  BY <1>1, <1>2, <1>4 DEF ScanInv, WalkAt, NothingYet, AccountsRight, ScanComplete

\* Ranking orders what was refused: known kinds, depth, path.
LEMMA BeforeOrders ==
  /\ \A a, b \in Dirs : ~(Before(a, b) /\ Before(b, a)) /\ ~Before(a, a)
  /\ \A a, b \in Dirs : a # b => Before(a, b) \/ Before(b, a)
  /\ \A a, b, c \in Dirs : Before(a, b) /\ Before(b, c) => Before(a, c)
<1>1. \A a \in Dirs : a \in Int /\ Depth(a) \in Int
  <2>1. Dirs \subseteq Nodes \cup {0}
    BY DEF Dirs
  <2>2. \A a \in Nodes \cup {0} : a \in Nat
    BY NodesNumbered
  <2> QED  BY <2>1, <2>2, AboveStep
<1>2. ASSUME NEW a \in Dirs, NEW b \in Dirs
      PROVE  /\ ~(Before(a, b) /\ Before(b, a)) /\ ~Before(a, a)
             /\ a # b => Before(a, b) \/ Before(b, a)
  BY <1>1 DEF Before
<1>3. ASSUME NEW a \in Dirs, NEW b \in Dirs, NEW c \in Dirs, Before(a, b), Before(b, c)
      PROVE  Before(a, c)
  <2>1. PICK x \in Int, y \in Int, z \in Int : x = Depth(a) /\ y = Depth(b) /\ z = Depth(c)
    BY <1>1
  <2>2. CASE (a \in Known) # (c \in Known)
    BY <1>3, <2>2 DEF Before
  <2>3. CASE (a \in Known) = (c \in Known)
    <3>1. (a \in Known) = (b \in Known) /\ (b \in Known) = (c \in Known)
      BY <1>3, <2>3 DEF Before
    <3>2. /\ IF x # y THEN x < y ELSE a < b
          /\ IF y # z THEN y < z ELSE b < c
      BY <1>3, <2>1, <3>1 DEF Before
    <3>3. IF x # z THEN x < z ELSE a < c
      BY <1>1, <3>2
    <3> QED  BY <2>1, <2>3, <3>3 DEF Before
  <2> QED  BY <2>2, <2>3
<1> QED  BY <1>2, <1>3

\* The list is ranked and cut, and what is cut is counted.
LEMMA RankKeepsCount ==
  ASSUME unreadable \in Seq(Dirs), more \in Nat, rankUnreadable
  PROVE  /\ unreadable' \in Seq(Dirs) /\ more' \in Nat
         /\ ToSet(unreadable') \subseteq ToSet(unreadable)
         /\ Len(unreadable') + more' = Len(unreadable) + more
<1> DEFINE first(i, j) == \/ Before(unreadable[i], unreadable[j])
                          \/ unreadable[i] = unreadable[j] /\ i <= j
           places == DOMAIN unreadable
           ranked == [k \in places |-> unreadable[
                        CHOOSE j \in places : Cardinality({i \in places : first(i, j)}) = k]]
           R == {p \in places \X places : first(p[1], p[2])}
<1>1. PICK l \in Nat : l = Len(unreadable) /\ places = 1..l
  BY LenProperties
<1>2. \A i \in places : unreadable[i] \in Dirs /\ i \in Int
  BY <1>1, ElementOfSeq
<1>3. \A i, j \in places : <<i, j>> \in R <=> first(i, j)
  OBVIOUS
<1>4. Orders(R, places)
  <2>1. \A i \in places : first(i, i)
    BY <1>2
  <2>2. ASSUME NEW i \in places, NEW j \in places
        PROVE  (first(i, j) \/ first(j, i)) /\ (first(i, j) /\ first(j, i) => i = j)
    BY <1>2, BeforeOrders
  <2>3. ASSUME NEW i \in places, NEW j \in places, NEW k \in places, first(i, j), first(j, k)
        PROVE  first(i, k)
    BY <1>2, <2>3, BeforeOrders
  <2> HIDE DEF first, R, places
  <2> QED  BY <1>3, <2>1, <2>2, <2>3 DEF Orders
<1>5. IsFiniteSet(places) /\ Cardinality(places) = l
  <2>1. IsFiniteSet(1..l) /\ Cardinality(1..l) = IF 1 > l THEN 0 ELSE l - 1 + 1
    BY FS_Interval
  <2>2. Cardinality(1..l) = l
    BY <2>1
  <2> HIDE DEF places
  <2> QED  BY <1>1, <2>1, <2>2
<1>6. \A k \in places : (CHOOSE j \in places : Cardinality({i \in places : first(i, j)}) = k) \in places
  <2> SUFFICES ASSUME NEW k \in places
               PROVE  (CHOOSE j \in places : Cardinality({i \in places : first(i, j)}) = k) \in places
    OBVIOUS
  <2>1. PICK j \in places : Rank(places, R, j) = k
    <3> HIDE DEF places, R
    <3> QED  BY <1>1, <1>4, <1>5, RankOnto
  <2>2. {i \in places : first(i, j)} = {i \in places : <<i, j>> \in R}
    BY <1>3
  <2>3. Cardinality({i \in places : first(i, j)}) = k
    BY <2>1, <2>2 DEF Rank
  <2> HIDE DEF places, R, first
  <2> QED  BY <2>3
<1>7. \A k \in places : ranked[k] \in Dirs /\ ranked[k] \in ToSet(unreadable)
  <2> SUFFICES ASSUME NEW k \in places
               PROVE  ranked[k] \in Dirs /\ ranked[k] \in ToSet(unreadable)
    OBVIOUS
  <2>1. PICK j \in places : ranked[k] = unreadable[j]
    BY <1>6
  <2> HIDE DEF ranked, first
  <2> QED  BY <1>2, <2>1 DEF ToSet
<1>8. PICK r : r = ranked
  OBVIOUS
<1>9. r \in Seq(Dirs) /\ Len(r) = l
  <2>1. r \in [1..l -> Dirs]
    <3>1. r = [k \in places |-> r[k]]
      BY <1>8
    <3> HIDE DEF ranked, first
    <3> QED  BY <1>1, <1>7, <1>8, <3>1
  <2> QED  BY <1>1, <2>1, SeqDef, LenProperties
<1>10. PICK m : m = Min({Len(r), MaxUnreadableDirs})
  OBVIOUS
<1>11. m \in 0..l
  <2>1. MaxUnreadableDirs \in Nat
    BY DiskAssumptions
  <2>2. \E x \in {l, MaxUnreadableDirs} : \A y \in {l, MaxUnreadableDirs} : x <= y
    BY <2>1
  <2>3. m \in {l, MaxUnreadableDirs} /\ \A y \in {l, MaxUnreadableDirs} : m <= y
    BY <1>9, <1>10, <2>2 DEF Min
  <2> QED  BY <2>1, <2>3
<1>12. unreadable' = SubSeq(r, 1, m) /\ more' = more + Len(r) - m
  <2>1. /\ unreadable' = SubSeq(ranked, 1, Min({Len(ranked), MaxUnreadableDirs}))
        /\ more' = more + Len(ranked) - Min({Len(ranked), MaxUnreadableDirs})
    BY Zenon DEF rankUnreadable
  <2> HIDE DEF ranked
  <2> QED  BY <1>8, <1>10, <2>1
<1>13. PICK s : s = SubSeq(r, 1, m)
  OBVIOUS
<1>14. \A i \in 1..m : r[i] \in Dirs /\ r[i] \in ToSet(unreadable)
  <2>1. \A i \in 1..m : i \in places
    BY <1>1, <1>11
  <2> HIDE DEF ranked, places
  <2> QED  BY <1>7, <1>8, <2>1
<1>15. s \in Seq(Dirs) /\ Len(s) = m /\ \A i \in 1..m : s[i] = r[i]
  <2> HIDE DEF ranked, places, first, R
  <2>1. /\ s \in Seq(Dirs) /\ Len(s) = (IF 1 <= m THEN m - 1 + 1 ELSE 0)
        /\ \A i \in 1..m - 1 + 1 : s[i] = r[1 + i - 1]
    BY <1>11, <1>13, <1>14, SubSeqProperties
  <2>2. m - 1 + 1 = m /\ \A i \in 1..m : 1 + i - 1 = i
    BY <1>11
  <2> QED  BY <1>11, <2>1, <2>2
<1>16. ToSet(s) \subseteq ToSet(unreadable)
  <2>1. DOMAIN s = 1..m
    BY <1>15, LenProperties
  <2> HIDE DEF ranked, places, first, R
  <2> QED  BY <1>14, <1>15, <2>1 DEF ToSet
<1>17. m + (more + l - m) = l + more /\ more + l - m \in Nat
  BY <1>11
<1> HIDE DEF ranked, places, first, R
<1> QED  BY <1>1, <1>9, <1>12, <1>13, <1>15, <1>16, <1>17

LEMMA ScanFinished ==
  ASSUME ScanInv, Finish
  PROVE  ScanInv'
<1>1. /\ scan = "subtrees" /\ (todo = <<>> \/ Late) /\ scan' = "done"
      /\ (partial' <=> partial \/ Late) /\ rankUnreadable /\ accounted' = Total(totals)
      /\ UNCHANGED <<access, todo, at, listing, totals>>
  BY DEF Finish
<1>2. ScanType /\ (~partial => AllTold) /\ ~listing
  BY <1>1 DEF ScanInv, AccountsRight, WalkAt
<1>3. /\ unreadable' \in Seq(Dirs) /\ more' \in Nat
      /\ ToSet(unreadable') \subseteq ToSet(unreadable)
      /\ Len(unreadable') + more' = Len(unreadable) + more
  BY <1>1, <1>2, RankKeepsCount DEF ScanType
<1>4. ScanType'
  BY <1>1, <1>2, <1>3 DEF ScanType, Distinct
<1>5. Visible' = Visible /\ RefusedDirs' = RefusedDirs /\ BytesOf(Visible)' = BytesOf(Visible)
  BY <1>1 DEF Visible, RefusedDirs, Reached, BytesOf
<1>6. ASSUME ~partial'
      PROVE  /\ accounted' = BytesOf(Visible) /\ ToSet(unreadable') \subseteq RefusedDirs
             /\ Len(unreadable') + more' = Cardinality(RefusedDirs)
  <2>1. todo = <<>> /\ AllTold
    BY <1>1, <1>2, <1>6
  <2>2. Pending = {}
    <3>1. Len(todo) = 0 /\ 1..0 = {}
      BY <2>1
    <3> QED  BY <3>1 DEF Pending
  <2>3. Visible \ Pending = Visible /\ RefusedDirs \ Pending = RefusedDirs
    BY <2>2
  <2> QED  BY <1>1, <1>3, <2>1, <2>3 DEF AllTold
<1>7. ScanComplete'
  <2>1. (scan = "done" /\ ~partial =>
            /\ accounted = BytesOf(Visible)
            /\ ToSet(unreadable) \subseteq RefusedDirs
            /\ Len(unreadable) + more = Cardinality(RefusedDirs))'
    BY <1>5, <1>6
  <2> QED  BY <2>1, Zenon DEF ScanComplete, BytesOf, Visible, RefusedDirs, Reached, Above
<1> QED  BY <1>1, <1>2, <1>4, <1>7 DEF ScanInv, WalkAt, NothingYet, AccountsRight

LEMMA ScanInitHolds == DiskInit => ScanInv
<1> SUFFICES ASSUME DiskInit PROVE ScanInv
  OBVIOUS
<1>1. access \in [Nodes \cup {0} -> {"ok", "refused", "failing"}]
  BY DEF DiskInit, DiskWorld
<1>2. /\ scan = "idle" /\ todo = <<>> /\ listing = FALSE /\ totals = [d \in Dirs |-> 0]
      /\ unreadable = <<>> /\ more = 0
  BY DEF DiskInit, DiskStart
<1>3. Distinct(todo)
  BY <1>2 DEF Distinct
<1>4. totals \in [Dirs -> Nat] /\ unreadable \in Seq(Dirs) /\ more \in Nat
  BY <1>2
<1>5. ScanType
  BY <1>1, <1>2, <1>3, <1>4 DEF ScanType
<1> QED  BY <1>2, <1>5 DEF ScanInv, WalkAt, NothingYet, AccountsRight, ScanComplete

\* Nothing the walk has told changes.
LEMMA ScanStays ==
  ASSUME ScanInv, UNCHANGED <<access, scan, todo, at, listing, totals, unreadable, more, partial, accounted>>
  PROVE  ScanInv'
<1>1. ScanType' /\ WalkAt' /\ NothingYet'
  BY DEF ScanInv, ScanType, Distinct, WalkAt, InSubtree, Reached, NothingYet
<1>2. AccountsRight'
  BY DEF ScanInv, AccountsRight, AllTold, BytesOf, Visible, RefusedDirs, Reached, Pending
<1>3. ScanComplete'
  BY DEF ScanInv, ScanComplete
<1> QED  BY <1>1, <1>2, <1>3 DEF ScanInv

LEMMA ScanKeepsInv == ScanInv /\ [DiskNext]_diskVars => ScanInv'
<1> SUFFICES ASSUME ScanInv, [DiskNext]_diskVars PROVE ScanInv'
  OBVIOUS
<1>1. CASE ScanFails
  BY <1>1, ScanFailed
<1>2. CASE NextSubtree
  BY <1>2, SubtreeBegins
<1>3. CASE StopWalk
  BY <1>3, WalkStopped
<1>4. CASE Finish
  BY <1>4, ScanFinished
<1>5. CASE StopScan
  BY <1>5, ScanStays DEF StopScan
<1>6. CASE UNCHANGED diskVars
  BY <1>6, ScanStays DEF diskVars
<1>7. ASSUME NEW t \in 0..Slowest, ScanUsage(t) \/ VisitFile(t) \/ VisitDir(t) \/ ListDir(t)
      PROVE  ScanInv'
  BY <1>7, ScanBegins, FileVisited, DirVisited, DirListed
<1> QED  BY <1>1, <1>2, <1>3, <1>4, <1>5, <1>6, <1>7 DEF DiskNext

\* A scan that does not say it is partial accounts for every byte on its
\* filesystem, whatever the tree, what of it cannot be read, the time each
\* call takes and how many refusals are kept or named (diskusage.go,
\* ScanUsage): each file it can get to is added up once, and each directory
\* it was refused is named or counted once.
THEOREM ScansAreComplete == DiskSpec => []ScanComplete
<1>1. ScanInv => ScanComplete
  BY DEF ScanInv
<1> QED  BY <1>1, ScanInitHolds, ScanKeepsInv, PTL DEF DiskSpec

-----------------------------------------------------------------------------
(* ReaderCaches: what a fingerprint remembers of the files.                *)
AllTexts == {"timed", "either", "daily", "other"}
Shut == {"absent", "closed"}        \* what is found of a script that does not run
Found == AllTexts \cup Shut \cup {NotYet}
File == [there : BOOLEAN, stamp : Nat, open : BOOLEAN, text : AllTexts]
Mark(f) == IF disk[f].there THEN disk[f].stamp ELSE -1

CacheType ==
    /\ world \in CacheWorlds /\ disk \in [FileNames -> File] /\ folder \in Nat /\ stamps \in Nat
    /\ read \in {"idle", "reading"} /\ toRead \subseteq FileNames /\ gathered \in [FileNames -> Found]
    /\ folder <= stamps /\ \A f \in FileNames : disk[f].stamp <= stamps
    /\ unseen \subseteq FileNames /\ (read = "idle" => toRead = {})

\* A print of the cron files, taken before those outside rest were read as g: a
\* table with its mark reads as it was read, and so do the scripts while the
\* folder has its own, but for what the print cannot show.
CronHeld(F, g, rest) ==
    /\ F # NoPrint /\ F[1] \in Nat /\ F[1] <= stamps
    /\ \A f \in Tables : F[2][f] \in Int /\ F[2][f] <= stamps
    /\ \A f \in Tables \ (rest \cup unseen) : F[2][f] = Mark(f) => g[f] = Reads(f)
    /\ "rotate" \notin rest \cup unseen /\ F[1] = folder =>
          (g["rotate"] \in Shut <=> Reads("rotate") \in Shut)

\* A print of the setup's files, taken when they read as g: a mark is a file's
\* text and its mode.
SetupHeld(F, g) ==
    \A f \in FileNames \ unseen :
        \/ F[2][f] = <<>> /\ g[f] = "absent"
        \/ \E n \in 0..stamps, b \in BOOLEAN :
              /\ F[2][f] = <<n, b>>
              /\ disk[f].there /\ disk[f].stamp = n => g[f] = IF b THEN disk[f].text ELSE "closed"

Held(F, g) == IF world.reader = "cron" THEN CronHeld(F, g, {}) ELSE SetupHeld(F, g)

\* A read under way has what the files are, or has it on its print, or cannot
\* have it there.
ReadingWell ==
    read = "reading" =>
        IF world.reader = "cron" THEN CronHeld(fp, gathered, toRead)
        ELSE fp = NoPrint /\ \A f \in FileNames \ (toRead \cup unseen) : gathered[f] = Reads(f)

AnswerHeld ==
    read = "idle" /\ fingerprint # NoPrint =>
        \E g \in [FileNames -> Found] : answer = Conclude(g) /\ Held(fingerprint, g)

CacheInv == CacheType /\ ReadingWell /\ AnswerHeld

LEMMA FilesNamed ==
  /\ ToSet(Entries) = {"backup.bak", "rotate"}
  /\ FileNames = {"crontab", "anacron", "anacrontab", "backup.bak", "rotate"}
  /\ Tables \subseteq FileNames /\ "rotate" \in FileNames /\ "rotate" \notin Tables
<1>1. ToSet(Entries) = {"backup.bak", "rotate"}
  BY DEF ToSet, Entries
<1> QED  BY <1>1 DEF FileNames, Tables

LEMMA CacheInitHolds ==
  CacheInit => CacheInv
<1> SUFFICES ASSUME CacheInit
             PROVE  CacheInv
  OBVIOUS
<1>1. disk \in [FileNames -> File] /\ \A f \in FileNames : disk[f].stamp = 0
  BY DEF CacheInit, CacheStart, File, AllTexts
<1>2. gathered \in [FileNames -> Found]
  BY DEF CacheInit, CacheStart, Found
<1>3. /\ world \in CacheWorlds /\ folder = 0 /\ stamps = 0 /\ read = "idle" /\ toRead = {}
      /\ fingerprint = NoPrint /\ unseen = {}
  BY DEF CacheInit, CacheStart
<1> QED  BY <1>1, <1>2, <1>3 DEF CacheInv, CacheType, ReadingWell, AnswerHeld

-----------------------------------------------------------------------------
\* What a change of a kind does to a file.
Altered(kind, f) ==
    /\ kind \in {"write", "create", "remove", "chmod"}
    /\ \A e \in FileNames \ {f} : disk'[e] = disk[e]
    /\ kind \in {"write", "create"} =>
          disk'[f].there /\ disk'[f].stamp = stamps + 1 /\ disk'[f].open = disk[f].open
    /\ kind = "write" => disk[f].there
    /\ kind = "remove" => ~disk'[f].there /\ disk'[f].stamp = disk[f].stamp
    /\ kind = "chmod" => /\ disk'[f].there = disk[f].there /\ disk'[f].stamp = disk[f].stamp
                         /\ disk'[f].text = disk[f].text
    /\ kind \in {"create", "remove"} /\ f = "rotate" => folder' = stamps + 1
    /\ folder' \in {folder, stamps + 1}
    /\ stamps' = stamps + 1
    /\ unseen' = IF Unseen(kind, f) THEN unseen \cup {f} ELSE unseen
    /\ UNCHANGED <<world, read, toRead, gathered, fp, fingerprint, answer>>

MachineChange ==
    \E f \in FileNames :
        CreateFile(f) \/ RemoveFile(f) \/ Chmod(f) \/ \E text \in AllTexts : WriteFile(f, text)

LEMMA CreatedIsFile ==
  ASSUME NEW d \in File, NEW n \in Nat
  PROVE  [d EXCEPT !.there = TRUE, !.stamp = n] \in File
<1>1. PICK e \in File : e = [d EXCEPT !.there = TRUE]
  BY DEF File
<1>2. [e EXCEPT !.stamp = n] \in File
  BY DEF File
<1>3. [d EXCEPT !.there = TRUE, !.stamp = n] = [e EXCEPT !.stamp = n]
  BY <1>1
<1> QED  BY <1>2, <1>3

LEMMA WrittenIsFile ==
  ASSUME NEW d \in File, NEW n \in Nat, NEW text \in AllTexts
  PROVE  [d EXCEPT !.text = text, !.stamp = n] \in File
<1>1. PICK e \in File : e = [d EXCEPT !.text = text]
  BY DEF File
<1>2. [e EXCEPT !.stamp = n] \in File
  BY DEF File
<1>3. [d EXCEPT !.text = text, !.stamp = n] = [e EXCEPT !.stamp = n]
  BY <1>1
<1> QED  BY <1>2, <1>3

LEMMA ChangeAlters ==
  ASSUME CacheType, MachineChange
  PROVE  /\ \E f \in FileNames, kind \in {"write", "create", "remove", "chmod"} : Altered(kind, f)
         /\ disk' \in [FileNames -> File]
<1>1. disk \in [FileNames -> File] /\ stamps \in Nat /\ folder \in Nat
  BY DEF CacheType
<1>2. PICK f \in FileNames :
         CreateFile(f) \/ RemoveFile(f) \/ Chmod(f) \/ \E text \in AllTexts : WriteFile(f, text)
  BY DEF MachineChange
<1>3. disk[f] \in File /\ ToSet(Entries) = {"backup.bak", "rotate"}
  BY <1>1, FilesNamed
<1>4. ASSUME NEW kind, Changes(kind, f)
      PROVE  /\ stamps' = stamps + 1
             /\ unseen' = IF Unseen(kind, f) THEN unseen \cup {f} ELSE unseen
             /\ UNCHANGED <<world, read, toRead, gathered, fp, fingerprint, answer>>
  BY <1>4 DEF Changes
<1>5. CASE CreateFile(f)
  <2>1. Changes("create", f)
    BY <1>5 DEF CreateFile
  <2>2. /\ disk' = [disk EXCEPT ![f] = [disk[f] EXCEPT !.there = TRUE, !.stamp = stamps + 1]]
        /\ folder' = IF f \in ToSet(Entries) THEN stamps + 1 ELSE folder
    BY <1>1, <1>4, <1>5, <2>1 DEF CreateFile
  <2>3. [disk[f] EXCEPT !.there = TRUE, !.stamp = stamps + 1] \in File
    <3>1. stamps + 1 \in Nat
      BY <1>1
    <3> QED  BY <1>3, <3>1, CreatedIsFile, Zenon
  <2>4. /\ disk' \in [FileNames -> File] /\ \A e \in FileNames \ {f} : disk'[e] = disk[e]
        /\ disk'[f].there /\ disk'[f].stamp = stamps + 1 /\ disk'[f].open = disk[f].open
    BY <1>1, <1>3, <2>2, <2>3 DEF File
  <2>5. Altered("create", f)
    BY <1>3, <1>4, <2>1, <2>2, <2>4 DEF Altered
  <2> QED  BY <2>4, <2>5
<1>6. CASE RemoveFile(f)
  <2>1. Changes("remove", f)
    BY <1>6 DEF RemoveFile
  <2>2. /\ disk' = [disk EXCEPT ![f] = [disk[f] EXCEPT !.there = FALSE]]
        /\ folder' = IF f \in ToSet(Entries) THEN stamps + 1 ELSE folder
    BY <1>1, <1>4, <1>6, <2>1 DEF RemoveFile
  <2>3. [disk[f] EXCEPT !.there = FALSE] \in File
    BY <1>3 DEF File
  <2>4. /\ disk' \in [FileNames -> File] /\ \A e \in FileNames \ {f} : disk'[e] = disk[e]
        /\ ~disk'[f].there /\ disk'[f].stamp = disk[f].stamp
    BY <1>1, <1>3, <2>2, <2>3 DEF File
  <2>5. Altered("remove", f)
    BY <1>3, <1>4, <2>1, <2>2, <2>4 DEF Altered
  <2> QED  BY <2>4, <2>5
<1>7. CASE Chmod(f)
  <2>1. Changes("chmod", f)
    BY <1>7 DEF Chmod
  <2>2. disk' = [disk EXCEPT ![f] = [disk[f] EXCEPT !.open = ~disk[f].open]] /\ folder' = folder
    BY <1>1, <1>7 DEF Chmod
  <2>3. [disk[f] EXCEPT !.open = ~disk[f].open] \in File
    BY <1>3 DEF File
  <2>4. /\ disk' \in [FileNames -> File] /\ \A e \in FileNames \ {f} : disk'[e] = disk[e]
        /\ disk'[f].there = disk[f].there /\ disk'[f].stamp = disk[f].stamp
        /\ disk'[f].text = disk[f].text
    BY <1>1, <1>3, <2>2, <2>3 DEF File
  <2>5. Altered("chmod", f)
    BY <1>4, <2>1, <2>2, <2>4 DEF Altered
  <2> QED  BY <2>4, <2>5
<1>8. ASSUME NEW text \in AllTexts, WriteFile(f, text)
      PROVE  Altered("write", f) /\ disk' \in [FileNames -> File]
  <2>1. Changes("write", f)
    BY <1>8 DEF WriteFile
  <2>2. /\ disk' = [disk EXCEPT ![f] = [disk[f] EXCEPT !.text = text, !.stamp = stamps + 1]]
        /\ folder' = folder /\ disk[f].there
    BY <1>1, <1>4, <1>8, <2>1 DEF WriteFile
  <2>3. [disk[f] EXCEPT !.text = text, !.stamp = stamps + 1] \in File
    <3>1. stamps + 1 \in Nat
      BY <1>1
    <3> QED  BY <1>3, <3>1, WrittenIsFile, Zenon
  <2>4. /\ disk' \in [FileNames -> File] /\ \A e \in FileNames \ {f} : disk'[e] = disk[e]
        /\ disk'[f].there /\ disk'[f].stamp = stamps + 1 /\ disk'[f].open = disk[f].open
    BY <1>1, <1>3, <2>2, <2>3 DEF File
  <2>5. Altered("write", f)
    BY <1>4, <2>1, <2>2, <2>4 DEF Altered
  <2> QED  BY <2>4, <2>5
<1> QED  BY <1>2, <1>5, <1>6, <1>7, <1>8

\* What the print by which a change will be looked for holds, it holds after it.
LEMMA CronHolds ==
  ASSUME CacheType, world.reader = "cron",
         NEW kind, NEW f \in FileNames, Altered(kind, f), disk' \in [FileNames -> File],
         NEW F, NEW g, NEW rest, F = LastPrint, rest = toRead, CronHeld(F, g, rest)
  PROVE  CronHeld(F, g, rest)'
<1>1. /\ stamps \in Nat /\ folder \in Nat /\ folder <= stamps /\ disk[f] \in File /\ disk'[f] \in File
  BY DEF CacheType
<1>2. /\ \A e \in FileNames \ {f} : disk'[e] = disk[e]
      /\ folder' \in {folder, stamps + 1}
      /\ stamps' = stamps + 1 /\ UNCHANGED <<world, toRead>>
      /\ unseen' = IF Unseen(kind, f) THEN unseen \cup {f} ELSE unseen
  BY DEF Altered
<1>3. /\ F # NoPrint /\ F[1] \in Nat /\ F[1] <= stamps
      /\ \A e \in Tables : F[2][e] \in Int /\ F[2][e] <= stamps
  BY DEF CronHeld
<1>4. /\ F # NoPrint /\ F[1] \in Nat /\ F[1] <= stamps'
      /\ \A e \in Tables : F[2][e] \in Int /\ F[2][e] <= stamps'
  BY <1>1, <1>2, <1>3
<1>5. ASSUME NEW e \in Tables, e \notin rest, e \notin unseen', F[2][e] = Mark(e)'
      PROVE  g[e] = Reads(e)'
  <2>1. e \in FileNames /\ e \notin rest /\ e \notin unseen /\ F[2][e] <= stamps
    BY <1>2, <1>3, <1>5, FilesNamed
  <2>2. CASE e # f
    <3>1. disk'[e] = disk[e]
      BY <1>2, <2>1, <2>2
    <3>2. F[2][e] = Mark(e) /\ Reads(e)' = Reads(e)
      BY <1>5, <3>1 DEF Mark, Reads
    <3> QED  BY <2>1, <3>2 DEF CronHeld
  <2>3. CASE e = f
    <3>1. ~Unseen(kind, f)
      BY <1>2, <1>5, <2>3
    <3>2. F[2][f] # stamps + 1
      BY <1>1, <2>1, <2>3
    <3>3. kind \notin {"write", "create"}
      BY <1>5, <2>3, <3>2 DEF Altered, Mark
    <3>4. kind # "chmod"
      BY <2>1, <2>3, <3>1 DEF Unseen
    <3>5. ~(kind = "remove" /\ F[2][f] = -1)
      BY <1>3, <2>1, <2>3, <3>1 DEF Unseen
    <3>6. kind = "remove" => Mark(f)' = -1
      BY DEF Altered, Mark
    <3> QED  BY <1>5, <2>3, <3>3, <3>4, <3>5, <3>6 DEF Altered
  <2> QED  BY <2>2, <2>3
<1>6. ASSUME "rotate" \notin rest, "rotate" \notin unseen', F[1] = folder'
      PROVE  g["rotate"] \in Shut <=> Reads("rotate")' \in Shut
  <2>1. F[1] # stamps + 1 /\ F[1] = folder /\ "rotate" \notin rest /\ "rotate" \notin unseen
    BY <1>1, <1>2, <1>3, <1>6
  <2>2. g["rotate"] \in Shut <=> Reads("rotate") \in Shut
    BY <2>1 DEF CronHeld
  <2>3. CASE f # "rotate"
    <3>1. disk'["rotate"] = disk["rotate"]
      BY <1>2, <2>3, FilesNamed
    <3> QED  BY <2>2, <3>1 DEF Reads
  <2>4. CASE f = "rotate"
    <3>1. kind # "chmod"
      BY <1>2, <1>6, <2>1, <2>4 DEF Unseen
    <3>2. kind \notin {"create", "remove"}
      BY <1>6, <2>1, <2>4 DEF Altered
    <3>3. disk'[f].there /\ disk[f].there /\ disk'[f].open = disk[f].open
      BY <3>1, <3>2 DEF Altered
    <3>4. disk[f].text \notin Shut /\ disk'[f].text \notin Shut
      BY <1>1 DEF File, AllTexts, Shut
    <3>5. Reads("rotate")' \in Shut <=> Reads("rotate") \in Shut
      BY <2>4, <3>3, <3>4 DEF Reads, Shut
    <3> QED  BY <2>2, <3>5
  <2> QED  BY <2>3, <2>4
<1> QED  BY <1>4, <1>5, <1>6 DEF CronHeld

LEMMA SetupHolds ==
  ASSUME CacheType, NEW kind, NEW h \in FileNames, Altered(kind, h),
         NEW F, NEW g, SetupHeld(F, g)
  PROVE  SetupHeld(F, g)'
<1>1. /\ stamps' = stamps + 1 /\ stamps \in Nat /\ unseen \subseteq unseen'
      /\ \A e \in FileNames \ {h} : disk'[e] = disk[e]
  BY DEF CacheType, Altered
<1>2. ASSUME NEW f \in FileNames, NEW n \in 0..stamps, NEW b \in BOOLEAN,
             disk[f].there /\ disk[f].stamp = n => g[f] = IF b THEN disk[f].text ELSE "closed"
      PROVE  /\ n \in 0..stamps'
             /\ disk'[f].there /\ disk'[f].stamp = n => g[f] = IF b THEN disk'[f].text ELSE "closed"
  <2>1. n # stamps + 1 /\ n \in 0..stamps'
    BY <1>1
  <2>2. disk'[f].there /\ disk'[f].stamp = n =>
           disk[f].there /\ disk[f].stamp = n /\ disk'[f].text = disk[f].text
    BY <1>1, <2>1 DEF Altered
  <2> QED  BY <1>2, <2>1, <2>2
<1> SUFFICES ASSUME NEW f \in FileNames \ unseen'
             PROVE  \/ F[2][f] = <<>> /\ g[f] = "absent"
                    \/ \E n \in 0..stamps', b \in BOOLEAN :
                          /\ F[2][f] = <<n, b>>
                          /\ disk'[f].there /\ disk'[f].stamp = n =>
                                g[f] = IF b THEN disk'[f].text ELSE "closed"
  BY DEF SetupHeld
<1>3. CASE F[2][f] = <<>> /\ g[f] = "absent"
  BY <1>3
<1>4. CASE \E n \in 0..stamps, b \in BOOLEAN :
              /\ F[2][f] = <<n, b>>
              /\ disk[f].there /\ disk[f].stamp = n => g[f] = IF b THEN disk[f].text ELSE "closed"
  <2>1. PICK n \in 0..stamps, b \in BOOLEAN :
              /\ F[2][f] = <<n, b>>
              /\ disk[f].there /\ disk[f].stamp = n => g[f] = IF b THEN disk[f].text ELSE "closed"
    BY <1>4
  <2>2. /\ n \in 0..stamps'
        /\ disk'[f].there /\ disk'[f].stamp = n => g[f] = IF b THEN disk'[f].text ELSE "closed"
    BY <1>2, <2>1
  <2> QED  BY <2>1, <2>2
<1> QED  BY <1>1, <1>3, <1>4 DEF SetupHeld

-----------------------------------------------------------------------------
\* What a print has, when it is taken.
LEMMA CronPrint ==
  /\ cronFingerprint # NoPrint /\ cronFingerprint[1] = folder
  /\ \A f \in Tables : cronFingerprint[2][f] = Mark(f)
<1> DEFINE present == SelectSeq(Entries, LAMBDA e : disk[e].there)
           noted == {present[i] : i \in DOMAIN present \cap 1..MaxCronFiles}
<1>1. cronFingerprint = <<folder, [f \in Tables \cup noted |-> Mark(f)]>>
  BY DEF cronFingerprint, Mark
<1> HIDE DEF noted
<1> QED  BY <1>1 DEF NoPrint

LEMMA SetupPrint ==
  /\ fingerprintOf # NoPrint
  /\ \A f \in FileNames :
        fingerprintOf[2][f] = IF disk[f].there THEN <<disk[f].stamp, disk[f].open>> ELSE <<>>
BY DEF fingerprintOf, NoPrint

LEMMA CronPrintTaken ==
  ASSUME CacheType, NEW g
  PROVE  CronHeld(cronFingerprint, g, FileNames)
<1>1. /\ folder \in Nat /\ stamps \in Nat /\ folder <= stamps
      /\ \A f \in Tables : disk[f] \in File /\ disk[f].stamp <= stamps
  BY FilesNamed DEF CacheType
<1>2. \A f \in Tables : Mark(f) \in Int /\ Mark(f) <= stamps
  BY <1>1 DEF Mark, File
<1>3. Tables \ (FileNames \cup unseen) = {} /\ "rotate" \in FileNames
  BY FilesNamed
<1> QED  BY <1>1, <1>2, <1>3, CronPrint DEF CronHeld

LEMMA SetupPrintTaken ==
  ASSUME CacheType, NEW g, \A f \in FileNames \ unseen : g[f] = Reads(f)
  PROVE  SetupHeld(fingerprintOf, g)
<1> SUFFICES ASSUME NEW f \in FileNames \ unseen
             PROVE  \/ fingerprintOf[2][f] = <<>> /\ g[f] = "absent"
                    \/ \E n \in 0..stamps, b \in BOOLEAN :
                          /\ fingerprintOf[2][f] = <<n, b>>
                          /\ disk[f].there /\ disk[f].stamp = n =>
                                g[f] = IF b THEN disk[f].text ELSE "closed"
  BY DEF SetupHeld
<1>1. /\ disk[f].stamp \in 0..stamps /\ disk[f].open \in BOOLEAN /\ disk[f].there \in BOOLEAN
  BY DEF CacheType, File
<1>2. CASE ~disk[f].there
  BY <1>2, SetupPrint DEF Reads
<1>3. CASE disk[f].there
  <2>1. fingerprintOf[2][f] = <<disk[f].stamp, disk[f].open>>
    BY <1>3, SetupPrint
  <2>2. g[f] = IF disk[f].open THEN disk[f].text ELSE "closed"
    BY <1>3 DEF Reads
  <2> QED  BY <1>1, <2>1, <2>2
<1> QED  BY <1>2, <1>3

-----------------------------------------------------------------------------
\* A change of the machine.
LEMMA ChangeStep ==
  ASSUME CacheInv, MachineChange
  PROVE  CacheInv'
<1>1. CacheType
  BY DEF CacheInv
<1>2. disk' \in [FileNames -> File]
  BY <1>1, ChangeAlters
<1>3. PICK f \in FileNames, kind \in {"write", "create", "remove", "chmod"} : Altered(kind, f)
  BY <1>1, ChangeAlters
<1>4. /\ \A e \in FileNames \ {f} : disk'[e] = disk[e]
      /\ folder' \in {folder, stamps + 1} /\ stamps' = stamps + 1
      /\ unseen' = IF Unseen(kind, f) THEN unseen \cup {f} ELSE unseen
      /\ UNCHANGED <<world, read, toRead, gathered, fp, fingerprint, answer>>
  BY <1>3 DEF Altered
<1>5. CacheType'
  <2>1. disk'[f].stamp \in {stamps + 1, disk[f].stamp}
    BY <1>3 DEF Altered
  <2>2. \A e \in FileNames : disk'[e].stamp <= stamps'
    BY <1>1, <1>4, <2>1 DEF CacheType, File
  <2> QED  BY <1>1, <1>2, <1>4, <2>2 DEF CacheType
<1>6. ReadingWell'
  <2> SUFFICES ASSUME read = "reading"
               PROVE  ReadingWell'
    BY <1>4 DEF ReadingWell
  <2>1. CASE world.reader = "cron"
    <3>1. CronHeld(fp, gathered, toRead) /\ fp = LastPrint
      BY <2>1 DEF CacheInv, ReadingWell, LastPrint
    <3>2. PICK F, g, rest : F = fp /\ g = gathered /\ rest = toRead
      OBVIOUS
    <3>3. CronHeld(F, g, rest)'
      BY <1>1, <1>2, <1>3, <2>1, <3>1, <3>2, CronHolds
    <3>4. CronHeld(fp, gathered, toRead)'
      BY <1>4, <3>2, <3>3 DEF CronHeld
    <3> QED  BY <1>4, <2>1, <3>4 DEF ReadingWell
  <2>2. CASE world.reader # "cron"
    <3>1. fp = NoPrint /\ \A e \in FileNames \ (toRead \cup unseen) : gathered[e] = Reads(e)
      BY <2>2 DEF CacheInv, ReadingWell
    <3>2. ASSUME NEW e \in FileNames \ (toRead \cup unseen')
          PROVE  gathered[e] = Reads(e)'
      <4>1. e \notin unseen /\ world \in CacheWorlds
        BY <1>1, <1>4, <3>2 DEF CacheType
      <4>2. world.reader = "setup"
        BY <2>2, <4>1, CacheAssumptions
      <4>3. f \in toRead \/ f \in unseen'
        BY <1>4, <4>2 DEF Unseen
      <4>4. disk'[e] = disk[e]
        BY <1>4, <3>2, <4>3
      <4> QED  BY <3>1, <3>2, <4>1, <4>4 DEF Reads
    <3> QED  BY <1>4, <2>2, <3>1, <3>2 DEF ReadingWell
  <2> QED  BY <2>1, <2>2
<1>7. AnswerHeld'
  <2> SUFFICES ASSUME read = "idle", fingerprint # NoPrint
               PROVE  \E g \in [FileNames -> Found] : answer' = Conclude(g)' /\ Held(fingerprint, g)'
    BY <1>4 DEF AnswerHeld
  <2>1. PICK g \in [FileNames -> Found] : answer = Conclude(g) /\ Held(fingerprint, g)
    BY DEF CacheInv, AnswerHeld
  <2>2. answer' = Conclude(g)'
    BY <1>4, <2>1 DEF Conclude
  <2>3. PICK F : F = fingerprint
    OBVIOUS
  <2>4. toRead = {} /\ toRead' = {} /\ F = LastPrint
    BY <1>1, <1>4, <2>3 DEF CacheType, LastPrint
  <2>5. CASE world.reader = "cron"
    <3>0. PICK rest : rest = toRead
      OBVIOUS
    <3>1. CronHeld(F, g, rest)
      BY <2>1, <2>3, <2>4, <2>5, <3>0 DEF Held
    <3>2. CronHeld(F, g, rest)'
      BY <1>1, <1>2, <1>3, <2>4, <2>5, <3>0, <3>1, CronHolds
    <3>3. CronHeld(fingerprint, g, {})'
      BY <1>4, <2>3, <2>4, <3>0, <3>2 DEF CronHeld
    <3> QED  BY <1>4, <2>2, <2>5, <3>3 DEF Held
  <2>6. CASE world.reader # "cron"
    <3>1. SetupHeld(F, g)
      BY <2>1, <2>3, <2>6 DEF Held
    <3>2. SetupHeld(F, g)'
      BY <1>1, <1>3, <3>1, SetupHolds
    <3>3. SetupHeld(fingerprint, g)'
      BY <1>4, <2>3, <3>2 DEF SetupHeld
    <3> QED  BY <1>4, <2>2, <2>6, <3>3 DEF Held
  <2> QED  BY <2>5, <2>6
<1> QED  BY <1>5, <1>6, <1>7 DEF CacheInv

\* What is held is a matter of the files and of what went unseen.
LEMMA StillHeld ==
  ASSUME UNCHANGED <<world, disk, folder, stamps, unseen>>, NEW F, NEW g, NEW rest
  PROVE  /\ CronHeld(F, g, rest)' <=> CronHeld(F, g, rest)
         /\ SetupHeld(F, g)' <=> SetupHeld(F, g)
         /\ Held(F, g)' <=> Held(F, g)
         /\ Conclude(g)' = Conclude(g)
         /\ \A f \in FileNames : Reads(f)' = Reads(f)
BY DEF CronHeld, SetupHeld, Held, Conclude, Reads, Mark

LEMMA BeginStep ==
  ASSUME CacheInv, BeginRead
  PROVE  CacheInv'
<1>1. /\ UNCHANGED <<world, disk, folder, stamps, fingerprint, answer>>
      /\ read' = "reading" /\ toRead' = FileNames /\ gathered' = [f \in FileNames |-> NotYet]
      /\ unseen' = {}
      /\ fp' = IF world.reader = "cron" THEN cronFingerprint ELSE NoPrint
  BY DEF BeginRead, PrintBefore, Fingerprint
<1>2. CacheType'
  <2>1. gathered' \in [FileNames -> Found]
    BY <1>1 DEF Found
  <2> QED  BY <1>1, <2>1 DEF CacheInv, CacheType
<1>3. ReadingWell'
  <2>1. CASE world.reader = "cron"
    <3>1. PICK F, g, rest : F = cronFingerprint /\ g = gathered' /\ rest = FileNames
      OBVIOUS
    <3>2. CronHeld(F, g, rest)
      BY <3>1, CronPrintTaken DEF CacheInv
    <3>3. CronHeld(F, g, rest)'
      <4>1. \A f \in Tables : f \in rest
        BY <3>1, FilesNamed
      <4> QED  BY <1>1, <3>1, <3>2, <4>1, FilesNamed DEF CronHeld
    <3>4. CronHeld(fp, gathered, toRead)'
      BY <1>1, <2>1, <3>1, <3>3 DEF CronHeld
    <3> QED  BY <1>1, <2>1, <3>4 DEF ReadingWell
  <2>2. CASE world.reader # "cron"
    BY <1>1, <2>2 DEF ReadingWell
  <2> QED  BY <2>1, <2>2
<1>4. AnswerHeld'
  BY <1>1 DEF AnswerHeld
<1> QED  BY <1>2, <1>3, <1>4 DEF CacheInv

\* A file is read.
LEMMA ReadFileStep ==
  ASSUME CacheInv, NEW f \in FileNames, ReadFile(f)
  PROVE  CacheInv'
<1>1. /\ UNCHANGED <<world, disk, folder, stamps, read, fp, fingerprint, answer, unseen>>
      /\ read = "reading" /\ f \in toRead /\ toRead' = toRead \ {f}
      /\ gathered' = [gathered EXCEPT ![f] = Reads(f)]
  BY DEF ReadFile
<1>2. /\ gathered \in [FileNames -> Found] /\ disk \in [FileNames -> File]
      /\ toRead \subseteq FileNames
  BY DEF CacheInv, CacheType
<1>3. Reads(f) \in Found
  BY <1>2 DEF Reads, File, Found, Shut
<1>4. /\ gathered' \in [FileNames -> Found] /\ gathered'[f] = Reads(f)
      /\ \A e \in FileNames \ {f} : gathered'[e] = gathered[e]
  BY <1>1, <1>2, <1>3
<1>5. CacheType'
  BY <1>1, <1>2, <1>4 DEF CacheInv, CacheType
<1>6. ReadingWell'
  <2>1. CASE world.reader = "cron"
    <3>1. CronHeld(fp, gathered, toRead)
      BY <1>1, <2>1 DEF CacheInv, ReadingWell
    <3>2. PICK F, g, rest : F = fp /\ g = gathered' /\ rest = toRead'
      OBVIOUS
    <3>3. ASSUME NEW e \in Tables \ (rest \cup unseen), F[2][e] = Mark(e)
          PROVE  g[e] = Reads(e)
      <4>1. CASE e = f
        BY <1>4, <3>2, <4>1
      <4>2. CASE e # f
        <5>1. e \in Tables \ (toRead \cup unseen) /\ g[e] = gathered[e]
          BY <1>1, <1>4, <3>2, <3>3, <4>2, FilesNamed
        <5> QED  BY <3>1, <3>2, <3>3, <5>1 DEF CronHeld
      <4> QED  BY <4>1, <4>2
    <3>4. ASSUME "rotate" \notin rest \cup unseen, F[1] = folder
          PROVE  g["rotate"] \in Shut <=> Reads("rotate") \in Shut
      <4>1. CASE f = "rotate"
        BY <1>4, <3>2, <4>1
      <4>2. CASE f # "rotate"
        <5>1. "rotate" \notin toRead \cup unseen /\ g["rotate"] = gathered["rotate"]
          BY <1>1, <1>4, <3>2, <3>4, <4>2, FilesNamed
        <5> QED  BY <3>1, <3>2, <3>4, <5>1 DEF CronHeld
      <4> QED  BY <4>1, <4>2
    <3>5. CronHeld(F, g, rest)
      BY <3>1, <3>2, <3>3, <3>4 DEF CronHeld
    <3>6. CronHeld(F, g, rest)'
      BY <1>1, <3>5, StillHeld
    <3>7. CronHeld(fp, gathered, toRead)'
      BY <1>1, <3>2, <3>6 DEF CronHeld
    <3> QED  BY <1>1, <2>1, <3>7 DEF ReadingWell
  <2>2. CASE world.reader # "cron"
    <3>1. fp = NoPrint /\ \A e \in FileNames \ (toRead \cup unseen) : gathered[e] = Reads(e)
      BY <1>1, <2>2 DEF CacheInv, ReadingWell
    <3>2. \A e \in FileNames : Reads(e)' = Reads(e)
      BY <1>1 DEF Reads
    <3> QED  BY <1>1, <1>4, <2>2, <3>1, <3>2 DEF ReadingWell
  <2> QED  BY <2>1, <2>2
<1>7. AnswerHeld'
  BY <1>1 DEF AnswerHeld
<1> QED  BY <1>5, <1>6, <1>7 DEF CacheInv

\* A read ends: its answer is kept with its print.
LEMMA EndStep ==
  ASSUME CacheInv, EndRead
  PROVE  CacheInv'
<1>1. /\ UNCHANGED <<world, disk, folder, stamps, toRead, unseen>>
      /\ read = "reading" /\ toRead = {} /\ read' = "idle"
      /\ answer' = Conclude(gathered) /\ gathered' = [f \in FileNames |-> NotYet]
      /\ fingerprint' = IF fp # NoPrint THEN fp ELSE Fingerprint
  BY DEF EndRead
<1>2. CacheType'
  <2>1. gathered' \in [FileNames -> Found]
    BY <1>1 DEF Found
  <2> QED  BY <1>1, <2>1 DEF CacheInv, CacheType
<1>3. ReadingWell'
  BY <1>1 DEF ReadingWell
<1>4. PICK g \in [FileNames -> Found] : g = gathered
  BY DEF CacheInv, CacheType
<1>5. PICK F : F = fingerprint'
  OBVIOUS
<1>6. Held(F, g)
  <2>1. CASE world.reader = "cron"
    <3>1. CronHeld(fp, gathered, {})
      BY <1>1, <2>1 DEF CacheInv, ReadingWell
    <3>2. fp # NoPrint
      BY <3>1 DEF CronHeld
    <3> QED  BY <1>1, <1>4, <1>5, <2>1, <3>1, <3>2 DEF Held
  <2>2. CASE world.reader # "cron"
    <3>1. fp = NoPrint /\ \A f \in FileNames \ unseen : gathered[f] = Reads(f)
      BY <1>1, <2>2 DEF CacheInv, ReadingWell
    <3>2. F = fingerprintOf
      BY <1>1, <1>5, <2>2, <3>1 DEF Fingerprint
    <3>3. SetupHeld(fingerprintOf, g)
      BY <1>4, <3>1, SetupPrintTaken DEF CacheInv
    <3> QED  BY <2>2, <3>2, <3>3 DEF Held
  <2> QED  BY <2>1, <2>2
<1>7. answer' = Conclude(g)' /\ Held(F, g)'
  BY <1>1, <1>4, <1>6, StillHeld
<1>8. Held(fingerprint, g)'
  BY <1>5, <1>7 DEF Held, CronHeld, SetupHeld
<1>9. AnswerHeld'
  BY <1>7, <1>8 DEF AnswerHeld
<1> QED  BY <1>2, <1>3, <1>9 DEF CacheInv

LEMMA CacheStays ==
  ASSUME CacheInv, UNCHANGED cacheVars
  PROVE  CacheInv'
<1>1. /\ UNCHANGED <<world, disk, folder, stamps, read, toRead, gathered, fp>>
      /\ UNCHANGED <<fingerprint, answer, unseen>>
  BY DEF cacheVars
<1>2. CacheType' /\ ReadingWell'
  BY <1>1 DEF CacheInv, CacheType, ReadingWell, CronHeld, Reads, Mark
<1>3. AnswerHeld'
  <2> SUFFICES ASSUME read = "idle", fingerprint # NoPrint
               PROVE  \E g \in [FileNames -> Found] : answer' = Conclude(g)' /\ Held(fingerprint, g)'
    BY <1>1 DEF AnswerHeld
  <2>1. PICK g \in [FileNames -> Found] : answer = Conclude(g) /\ Held(fingerprint, g)
    BY DEF CacheInv, AnswerHeld
  <2>2. PICK F : F = fingerprint
    OBVIOUS
  <2>3. answer' = Conclude(g)' /\ Held(F, g)'
    BY <1>1, <2>1, <2>2, StillHeld
  <2>4. Held(fingerprint, g)'
    BY <1>1, <2>2, <2>3 DEF Held, CronHeld, SetupHeld
  <2> QED  BY <2>3, <2>4
<1> QED  BY <1>2, <1>3 DEF CacheInv

LEMMA CacheStep ==
  ASSUME CacheInv, [CacheNext]_cacheVars
  PROVE  CacheInv'
<1>1. CASE MachineChange
  BY <1>1, ChangeStep
<1>2. ASSUME NEW f \in FileNames, ReadFile(f)
      PROVE  CacheInv'
  BY <1>2, ReadFileStep
<1>3. CASE BeginRead
  BY <1>3, BeginStep
<1>4. CASE EndRead
  BY <1>4, EndStep
<1>5. CASE UNCHANGED cacheVars
  BY <1>5, CacheStays
<1>6. CASE ReadFresh
  BY <1>5, <1>6 DEF ReadFresh
<1> QED  BY <1>1, <1>2, <1>3, <1>4, <1>5, <1>6 DEF CacheNext, MachineChange, AllTexts

\* Marks that are there still: the files read as they did.
LEMMA CacheInvGives ==
  ASSUME CacheInv
  PROVE  CachesFresh
<1> DEFINE now == [f \in FileNames |-> Reads(f)]
<1> SUFFICES ASSUME read = "idle", fingerprint # NoPrint, fingerprint = Fingerprint, unseen = {}
             PROVE  answer = Conclude(now)
  BY DEF CachesFresh
<1>1. PICK g \in [FileNames -> Found] : answer = Conclude(g) /\ Held(fingerprint, g)
  BY DEF CacheInv, AnswerHeld
<1>2. CASE world.reader = "cron"
  <2>1. CronHeld(cronFingerprint, g, {})
    BY <1>1, <1>2 DEF Held, Fingerprint
  <2>2. ASSUME NEW f \in Tables
        PROVE  g[f] = now[f]
    <3>1. f \in FileNames /\ cronFingerprint[2][f] = Mark(f)
      BY CronPrint, FilesNamed
    <3> QED  BY <2>1, <3>1 DEF CronHeld
  <2>3. g["rotate"] \in Shut <=> now["rotate"] \in Shut
    BY <2>1, CronPrint, FilesNamed DEF CronHeld
  <2> HIDE DEF now
  <2>4. Scripts(g) = Scripts(now)
    BY <2>3, FilesNamed DEF Scripts, Shut
  <2>5. /\ g["crontab"] = now["crontab"] /\ g["anacron"] = now["anacron"]
        /\ g["anacrontab"] = now["anacrontab"]
    BY <2>2 DEF Tables
  <2>6. readCron(g) = readCron(now)
    BY <2>4, <2>5 DEF readCron
  <2> QED  BY <1>1, <1>2, <2>6 DEF Conclude
<1>3. CASE world.reader # "cron"
  <2>1. SetupHeld(fingerprintOf, g)
    BY <1>1, <1>3 DEF Held, Fingerprint
  <2>2. ASSUME NEW f \in FileNames
        PROVE  g[f] = now[f]
    <3>1. \/ fingerprintOf[2][f] = <<>> /\ g[f] = "absent"
          \/ \E n \in 0..stamps, b \in BOOLEAN :
                /\ fingerprintOf[2][f] = <<n, b>>
                /\ disk[f].there /\ disk[f].stamp = n => g[f] = IF b THEN disk[f].text ELSE "closed"
      BY <2>1 DEF SetupHeld
    <3>2. CASE ~disk[f].there
      <4>1. fingerprintOf[2][f] = <<>>
        BY <3>2, SetupPrint
      <4>2. g[f] = "absent"
        BY <3>1, <4>1
      <4> QED  BY <3>2, <4>2 DEF Reads
    <3>3. CASE disk[f].there
      <4>1. fingerprintOf[2][f] = <<disk[f].stamp, disk[f].open>>
        BY <3>3, SetupPrint
      <4>2. PICK n \in 0..stamps, b \in BOOLEAN :
                /\ fingerprintOf[2][f] = <<n, b>>
                /\ disk[f].there /\ disk[f].stamp = n => g[f] = IF b THEN disk[f].text ELSE "closed"
        BY <3>1, <4>1
      <4>3. n = disk[f].stamp /\ b = disk[f].open
        BY <4>1, <4>2
      <4> QED  BY <3>3, <4>2, <4>3 DEF Reads
    <3> QED  BY <3>2, <3>3
  <2> HIDE DEF now
  <2>3. readSetup(g) = readSetup(now)
    BY <2>2 DEF readSetup
  <2> QED  BY <1>1, <1>3, <2>3 DEF Conclude
<1> QED  BY <1>2, <1>3

\* CronReader and SetupReader: an answer that is given again is the one the
\* files would give now, for any limit on the entries of a folder and any
\* number of changes of every kind at any moment, also in the middle of a read,
\* unless one of them fell where the kept print cannot show it: between the read
\* of a setup file and the print that follows all reads, a change of a cron
\* file's mode, or the removal of a table that was not there at the print.
THEOREM AnswersStayFresh == CacheSpec => []CachesFresh
BY CacheInitHolds, CacheStep, CacheInvGives, PTL DEF CacheSpec

-----------------------------------------------------------------------------
(* JournalReader: files in order, and what a walk has ahead of it.         *)

\* Files as they are walked: each in order, and everything in one later than
\* anything in those after it.
Stacked(o) ==
    /\ o \in Seq(Seq(Entry)) /\ \A k \in 1..Len(o) : Written(o[k])
    /\ \A k, l \in 1..Len(o) : k < l =>
         \A i \in 1..Len(o[k]), j \in 1..Len(o[l]) : o[l][j].seq < o[k][i].seq

\* All the entries of some files, and those left when n of the first file's are.
Ahead(o) == {e \in Entry : \E k \in 1..Len(o) : \E i \in 1..Len(o[k]) : e = o[k][i]}
Within(o, n) == {e \in Entry : \/ \E i \in 1..n : e = o[1][i]
                              \/ \E k \in 2..Len(o) : \E i \in 1..Len(o[k]) : e = o[k][i]}

Left == IF stage = "entries" THEN Within(opened, place) ELSE Ahead(opened)

\* The first file, and the files without it.
LEMMA StackShape ==
  ASSUME NEW o, Stacked(o), o # <<>>
  PROVE  /\ Head(o) = o[1] /\ o[1] \in Seq(Entry) /\ Written(o[1])
         /\ Len(o) \in Nat /\ Len(o) >= 1 /\ Len(o[1]) \in Nat
         /\ \A i \in 1..Len(o[1]) : o[1][i] \in Entry
         /\ Tail(o) \in Seq(Seq(Entry)) /\ Len(Tail(o)) = Len(o) - 1
         /\ \A k \in 1..Len(o) - 1 : Tail(o)[k] = o[k + 1]
<1>1. o \in Seq(Seq(Entry))
  BY DEF Stacked
<1>2. Len(o) \in Nat /\ Len(o) >= 1
  BY <1>1, LenProperties, EmptySeq
<1>3. 1 \in 1..Len(o)
  BY <1>2
<1>4. o[1] \in Seq(Entry) /\ Written(o[1])
  BY <1>1, <1>3, ElementOfSeq DEF Stacked
<1>5. Head(o) = o[1] /\ Tail(o) \in Seq(Seq(Entry)) /\ Len(Tail(o)) = Len(o) - 1
      /\ \A k \in 1..Len(o) - 1 : Tail(o)[k] = o[k + 1]
  BY <1>1, HeadTailProperties
<1>6. Len(o[1]) \in Nat /\ \A i \in 1..Len(o[1]) : o[1][i] \in Entry
  BY <1>4, LenProperties, ElementOfSeq
<1> QED  BY <1>2, <1>4, <1>5, <1>6

LEMMA TailStacked ==
  ASSUME NEW o, Stacked(o), o # <<>>
  PROVE  Stacked(Tail(o))
<1>1. PICK t : t = Tail(o)
  OBVIOUS
<1>2. PICK n \in Nat : n = Len(t) /\ Len(o) = n + 1
  <2>1. PICK c \in Nat : c = Len(o) /\ c >= 1 /\ Len(t) = c - 1
    BY <1>1, StackShape
  <2>2. c - 1 \in Nat /\ c = (c - 1) + 1
    BY <2>1
  <2> QED  BY <2>1, <2>2
<1>3. \A k \in 1..n : t[k] = o[k + 1] /\ k + 1 \in 1..Len(o)
  BY <1>1, <1>2, StackShape
<1>4. t \in Seq(Seq(Entry))
  BY <1>1, StackShape
<1>5. \A k \in 1..n : Written(t[k])
  BY <1>3 DEF Stacked
<1>6. ASSUME NEW k \in 1..n, NEW l \in 1..n, k < l,
             NEW i \in 1..Len(t[k]), NEW j \in 1..Len(t[l])
      PROVE  t[l][j].seq < t[k][i].seq
  <2>1. k + 1 < l + 1
    BY <1>2, <1>6
  <2> QED  BY <1>3, <2>1 DEF Stacked
<1>7. Stacked(t)
  BY <1>2, <1>4, <1>5, <1>6 DEF Stacked
<1> QED  BY <1>1, <1>7

\* Without its first file a walk has ahead what it had but for that file.
LEMMA TailAhead ==
  ASSUME NEW o, Stacked(o), o # <<>>, NEW n \in 0..Len(o[1])
  PROVE  /\ Within(o, n) = Ahead(Tail(o)) \cup {o[1][i] : i \in 1..n}
         /\ Ahead(o) = Within(o, Len(o[1]))
<1>1. PICK t : t = Tail(o)
  OBVIOUS
<1>2. PICK m \in Nat : m = Len(t) /\ Len(o) = m + 1 /\ \A k \in 1..m : t[k] = o[k + 1]
  <2>1. PICK c \in Nat : /\ c = Len(o) /\ c >= 1 /\ Len(t) = c - 1
                         /\ \A k \in 1..c - 1 : t[k] = o[k + 1]
    BY <1>1, StackShape
  <2>2. c - 1 \in Nat /\ c = (c - 1) + 1
    BY <2>1
  <2> QED  BY <2>1, <2>2
<1>3. \A i \in 1..n : o[1][i] \in Entry
  <2>1. 1..n \subseteq 1..Len(o[1])
    BY StackShape
  <2> QED  BY <2>1, StackShape
<1>4. ASSUME NEW e
      PROVE  (\E k \in 2..Len(o) : \E i \in 1..Len(o[k]) : e = o[k][i])
             <=> (\E k \in 1..m : \E i \in 1..Len(t[k]) : e = t[k][i])
  <2>1. ASSUME NEW k \in 2..Len(o), NEW i \in 1..Len(o[k]), e = o[k][i]
        PROVE  \E h \in 1..m : \E x \in 1..Len(t[h]) : e = t[h][x]
    <3>1. k - 1 \in 1..m /\ k = (k - 1) + 1
      BY <1>2
    <3>2. t[k - 1] = o[k]
      BY <1>2, <3>1
    <3> QED  BY <2>1, <3>1, <3>2
  <2>2. ASSUME NEW k \in 1..m, NEW i \in 1..Len(t[k]), e = t[k][i]
        PROVE  \E h \in 2..Len(o) : \E x \in 1..Len(o[h]) : e = o[h][x]
    <3>1. k + 1 \in 2..Len(o) /\ t[k] = o[k + 1]
      BY <1>2
    <3> QED  BY <2>2, <3>1
  <2> QED  BY <2>1, <2>2
<1>5. Within(o, n) = Ahead(t) \cup {o[1][i] : i \in 1..n}
  <2>1. \A e : e \in Ahead(t) <=> e \in Entry /\ \E k \in 1..m : \E i \in 1..Len(t[k]) : e = t[k][i]
    BY <1>2, Zenon DEF Ahead
  <2>2. \A e : e \in Within(o, n) <=>
              /\ e \in Entry
              /\ \/ \E i \in 1..n : e = o[1][i]
                 \/ \E k \in 2..Len(o) : \E i \in 1..Len(o[k]) : e = o[k][i]
    BY Zenon DEF Within
  <2>3. \A e : e \in Within(o, n) <=> e \in Ahead(t) \/ \E i \in 1..n : e = o[1][i]
    BY <1>3, <1>4, <2>1, <2>2, Zenon
  <2> QED  BY <2>3
<1>6. Ahead(o) = Within(o, Len(o[1]))
  <2>1. \A k : k \in 1..Len(o) <=> k = 1 \/ k \in 2..Len(o)
    BY <1>2
  <2> QED  BY <2>1 DEF Within, Ahead
<1> QED  BY <1>1, <1>5, <1>6

\* The entry a walk is at is the latest of those ahead, and then come the rest.
LEMMA WalkShape ==
  ASSUME NEW o, Stacked(o), o # <<>>, NEW n \in 1..Len(o[1]), NEW e, e = o[1][n]
  PROVE  /\ e \in Within(o, n) /\ e \in Entry /\ n - 1 \in 0..Len(o[1])
         /\ Within(o, n) = Within(o, n - 1) \cup {e}
         /\ \A x \in Within(o, n - 1) : x.seq < e.seq /\ x # e
         /\ \A i \in 1..n : o[1][i].at <= e.at
         /\ Ahead(Tail(o)) \subseteq Within(o, n - 1)
<1>1. PICK m \in Nat : m = Len(o[1])
  BY StackShape
<1>2. n \in Nat /\ n - 1 \in 0..m /\ n \in 0..m /\ 1..n = (1..n - 1) \cup {n}
  BY <1>1
<1>3. PICK A : A = Ahead(Tail(o))
  OBVIOUS
<1>4. /\ Within(o, n) = A \cup {o[1][i] : i \in 1..n}
      /\ Within(o, n - 1) = A \cup {o[1][i] : i \in 1..n - 1}
  BY <1>1, <1>2, <1>3, TailAhead
<1>5. e \in Entry /\ \A i \in 1..n : o[1][i] \in Entry
  <2>1. 1..n \subseteq 1..Len(o[1]) /\ n \in 1..n
    BY <1>1
  <2> QED  BY <2>1, StackShape
<1>6. \A x \in A : x.seq < e.seq
  <2> SUFFICES ASSUME NEW x \in A PROVE x.seq < e.seq
    OBVIOUS
  <2>1. PICK t : t = Tail(o)
    OBVIOUS
  <2>2. PICK k \in 1..Len(t) : \E i \in 1..Len(t[k]) : x = t[k][i]
    BY <1>3, <2>1 DEF Ahead
  <2>3. k + 1 \in 1..Len(o) /\ 1 \in 1..Len(o) /\ 1 < k + 1 /\ t[k] = o[k + 1]
    <3>1. Len(t) = Len(o) - 1 /\ Len(o) \in Nat
      BY <2>1, StackShape
    <3> QED  BY <2>1, <3>1, StackShape
  <2>4. PICK i \in 1..Len(o[k + 1]) : x = o[k + 1][i]
    BY <2>2, <2>3
  <2> QED  BY <2>3, <2>4 DEF Stacked
<1>7. DOMAIN o[1] = 1..m
  BY <1>1, StackShape, LenProperties
<1>8. \A i \in 1..n : o[1][i].at <= e.at /\ (i # n => o[1][i].seq < e.seq)
  <2> SUFFICES ASSUME NEW i \in 1..n
               PROVE  o[1][i].at <= e.at /\ (i # n => o[1][i].seq < e.seq)
    OBVIOUS
  <2>1. CASE i = n
    <3>1. e.at \in Nat
      BY <1>5 DEF Entry
    <3> QED  BY <2>1, <3>1
  <2>2. CASE i # n
    <3>1. i < n /\ i \in 1..m /\ n \in 1..m
      BY <1>1, <2>2
    <3> QED  BY <1>7, <3>1, StackShape DEF Written
  <2> QED  BY <2>1, <2>2
<1>9. \A x \in Within(o, n - 1) : x.seq < e.seq
  <2>1. \A i \in 1..n - 1 : i \in 1..n /\ i # n
    BY <1>2
  <2> QED  BY <1>4, <1>6, <1>8, <2>1
<1>10. e.seq \in Nat
  BY <1>5 DEF Entry
<1>11. ~(e.seq < e.seq)
  BY <1>10
<1>12. Within(o, n) = Within(o, n - 1) \cup {e} /\ e \in Within(o, n)
  BY <1>2, <1>4
<1> QED  BY <1>1, <1>2, <1>3, <1>4, <1>5, <1>8, <1>9, <1>11, <1>12

-----------------------------------------------------------------------------
(* JournalReader: the invariant, in parts.                                 *)

\* What is asked for: the unit's lines in the window, and the hour's entries.
Mine == {e \in AllEntries : /\ e.unit = AskedUnit /\ e.at \in SinceTime..UntilTime
                            /\ e.priority <= 6 /\ ~e.login /\ e.bytes > 0}
TheHour == {e \in AllEntries : Whole(e) /\ e.at >= SinceTime /\ e.at < HourEnd}

Walking == stage \in {"files", "entries"}

ReaderType ==
    /\ journal \in Seq(Seq(Entry)) /\ InOrder(journal)
    /\ question \in {"lines", "hour"}
    /\ stage \in {"list", "open", "files", "entries", "done"}
    /\ names \subseteq DOMAIN journal /\ Stacked(opened)
    /\ stage = "entries" => opened # <<>> /\ place \in 0..Len(opened[1])
    /\ ofFile \in Nat /\ scanned \in Nat /\ cut \in BOOLEAN
    /\ stage # "done" => reply = NoReply

\* Until the files are open nothing is kept or counted.
NotBegun ==
    stage \in {"list", "open"} => found = <<>> /\ counts = <<>> /\ refusals = 0 /\ opened = <<>>

\* What could not be read is not ahead.
Apart == Walking => Left \cap unread = {}

\* The walk over the files goes no further.
Beyond == stage = "files" /\ Enough

\* The lines kept are the unit's, the latest first, and nothing ahead is later;
\* what is neither ahead nor kept was left behind when there was enough.
NewestKept ==
    Walking /\ question = "lines" =>
        /\ found \in Seq(Mine)
        /\ \A i, j \in 1..Len(found) : i < j => found[j].seq < found[i].seq
        /\ \A e \in Left : \A i \in 1..Len(found) : e.seq < found[i].seq
        /\ \A e \in Mine \ unread :
             \/ e \in Left
             \/ \E i \in 1..Len(found) : found[i] = e
             \/ Beyond /\ \A i \in 1..Len(found) : e.seq < found[i].seq

\* The counts are those of a set of entries.
CountOf(S, u) == [errors |-> Cardinality({e \in S : e.unit = u /\ e.priority \in 0..3}),
                  warnings |-> Cardinality({e \in S : e.unit = u /\ e.priority = 4})]
RefusalsIn(S) == {e \in S : Refusal(e)}
CountsOf(S) ==
    /\ IsFiniteSet(S) /\ IsFiniteSet(DOMAIN counts)
    /\ DOMAIN counts = {e.unit : e \in {x \in S : Counts(x)}}
    /\ \A u \in DOMAIN counts : counts[u] = CountOf(S, u)
    /\ refusals = Cardinality(RefusalsIn(S))

CountedRight ==
    Walking /\ question = "hour" /\ ~cut => CountsOf(TheHour \ (Left \cup unread))

ReaderInv ==
    /\ ReaderType /\ NotBegun /\ (Walking => Left \subseteq AllEntries) /\ Apart
    /\ NewestKept /\ CountedRight /\ LinesNewest /\ HourHonest

-----------------------------------------------------------------------------
(* JournalReader: what the steps do.                                       *)

LEMMA SameJournal ==
  ASSUME journal' = journal
  PROVE  AllEntries' = AllEntries /\ Mine' = Mine /\ TheHour' = TheHour
BY DEF AllEntries, Mine, TheHour

LEMMA EntriesKnown ==
  ASSUME ReaderType
  PROVE  AllEntries \subseteq Entry /\ Mine \subseteq AllEntries /\ TheHour \subseteq AllEntries
<1>1. \A a \in DOMAIN journal : \A i \in DOMAIN journal[a] : journal[a][i] \in Entry
  <2> SUFFICES ASSUME NEW a \in DOMAIN journal, NEW i \in DOMAIN journal[a]
               PROVE  journal[a][i] \in Entry
    OBVIOUS
  <2>1. PICK f : f = journal[a]
    OBVIOUS
  <2>2. f \in Seq(Entry)
    BY <2>1, LenProperties, ElementOfSeq DEF ReaderType
  <2>3. f[i] \in Entry
    BY <2>1, <2>2, LenProperties, ElementOfSeq
  <2> QED  BY <2>1, <2>3
<1> QED  BY <1>1 DEF AllEntries, ToSet, Mine, TheHour

\* While no answer is given there is nothing to say of it.
LEMMA NoAnswer ==
  ASSUME reply = NoReply
  PROVE  LinesNewest /\ HourHonest
<1>1. reply.done = FALSE
  BY DEF NoReply
<1> QED  BY <1>1 DEF LinesNewest, HourHonest

\* Entries are passed over that are not asked for or cannot be read, or there is
\* enough.
LEMMA DropStep ==
  ASSUME ReaderInv, Walking, ~Beyond, ReaderType', Walking',
         UNCHANGED <<journal, question, found, counts, refusals>>,
         Left' \subseteq Left, cut => cut',
         unread \subseteq unread', unread' \subseteq unread \cup Left, Left' \cap unread' = {},
         question = "lines" => \A e \in Left : e \in Left' \cup unread' \/ e \notin Mine \/ Beyond',
         question = "hour" => cut' \/ \A e \in Left : e \in Left' \cup unread' \/ e \notin TheHour
  PROVE  ReaderInv'
<1>1. AllEntries' = AllEntries /\ Mine' = Mine /\ TheHour' = TheHour
  BY SameJournal
<1>2. LinesNewest' /\ HourHonest'
  <2>1. reply' = NoReply
    BY DEF ReaderType, Walking
  <2>2. (reply.done)' = FALSE
    BY <2>1 DEF NoReply
  <2> QED  BY <2>2 DEF LinesNewest, HourHonest
<1>3. NotBegun' /\ (Walking' => Left' \subseteq AllEntries') /\ Apart'
  BY <1>1 DEF ReaderInv, NotBegun, Walking, Apart
<1>4. NewestKept'
  <2> SUFFICES ASSUME question = "lines"
               PROVE  NewestKept'
    BY DEF NewestKept
  <2>1. /\ found \in Seq(Mine)
        /\ \A i, j \in 1..Len(found) : i < j => found[j].seq < found[i].seq
        /\ \A e \in Left : \A i \in 1..Len(found) : e.seq < found[i].seq
        /\ \A e \in Mine \ unread : e \in Left \/ \E i \in 1..Len(found) : found[i] = e
    BY DEF ReaderInv, NewestKept
  <2>2. \A e \in Left' : \A i \in 1..Len(found) : e.seq < found[i].seq
    BY <2>1
  <2>3. ASSUME NEW e \in Mine \ unread'
        PROVE  \/ e \in Left'
               \/ \E i \in 1..Len(found) : found[i] = e
               \/ Beyond' /\ \A i \in 1..Len(found) : e.seq < found[i].seq
    BY <2>1, <2>3
  <2> QED  BY <1>1, <2>1, <2>2, <2>3 DEF NewestKept
<1>5. CountedRight'
  <2> SUFFICES ASSUME question = "hour", ~cut'
               PROVE  CountsOf(TheHour \ (Left \cup unread))'
    BY DEF CountedRight
  <2>1. CountsOf(TheHour \ (Left \cup unread))
    BY DEF ReaderInv, CountedRight
  <2>2. TheHour' \ (Left' \cup unread') = TheHour \ (Left \cup unread)
    BY <1>1
  <2>3. PICK S : S = TheHour \ (Left \cup unread)
    OBVIOUS
  <2>4. CountsOf(S)
    BY <2>1, <2>3
  <2>5. CountsOf(S)'
    BY <2>4 DEF CountsOf
  <2> QED  BY <2>2, <2>3, <2>5
<1> QED  BY <1>2, <1>3, <1>4, <1>5 DEF ReaderInv

\* A line is kept: the latest of what was ahead.
LEMMA KeepStep ==
  ASSUME ReaderInv, Walking, ~Beyond, ReaderType', Walking', question = "lines",
         UNCHANGED <<journal, question, unread>>,
         NEW e, e \in Left, e \in Mine, found' = Append(found, e),
         Left' \subseteq Left \ {e}, \A x \in Left : x = e \/ x.seq < e.seq,
         \A x \in Left : x = e \/ x \in Left' \/ x \notin Mine \/ Beyond'
  PROVE  ReaderInv'
<1>1. AllEntries' = AllEntries /\ Mine' = Mine
  BY SameJournal
<1>2. LinesNewest' /\ HourHonest'
  <2>1. reply' = NoReply
    BY DEF ReaderType, Walking
  <2>2. (reply.done)' = FALSE
    BY <2>1 DEF NoReply
  <2> QED  BY <2>2 DEF LinesNewest, HourHonest
<1>3. NotBegun' /\ (Walking' => Left' \subseteq AllEntries') /\ Apart'
  BY <1>1 DEF ReaderInv, NotBegun, Walking, Apart
<1>4. /\ found \in Seq(Mine)
      /\ \A i, j \in 1..Len(found) : i < j => found[j].seq < found[i].seq
      /\ \A x \in Left : \A i \in 1..Len(found) : x.seq < found[i].seq
      /\ \A x \in Mine \ unread : x \in Left \/ \E i \in 1..Len(found) : found[i] = x
  BY DEF ReaderInv, NewestKept
<1>5. PICK n \in Nat : n = Len(found)
  BY <1>4, LenProperties
<1>6. PICK g : g = Append(found, e)
  OBVIOUS
<1>7. g \in Seq(Mine) /\ Len(g) = n + 1 /\ g[n + 1] = e /\ \A i \in 1..n : g[i] = found[i]
  BY <1>4, <1>5, <1>6, AppendProperties
<1>8. \A i \in 1..n + 1 : i \in 1..n \/ i = n + 1
  BY <1>5
<1>9. \A i, j \in 1..n + 1 : i < j => g[j].seq < g[i].seq
  <2> SUFFICES ASSUME NEW i \in 1..n + 1, NEW j \in 1..n + 1, i < j
               PROVE  g[j].seq < g[i].seq
    OBVIOUS
  <2>1. i \in 1..n
    BY <1>5
  <2>2. CASE j \in 1..n
    BY <1>4, <1>5, <1>7, <2>1, <2>2
  <2>3. CASE j = n + 1
    BY <1>4, <1>5, <1>7, <2>1, <2>3
  <2> QED  BY <1>8, <2>2, <2>3
<1>10. \A x \in Left : x # e => \A i \in 1..n + 1 : x.seq < g[i].seq
  BY <1>4, <1>5, <1>7, <1>8
<1>11. ASSUME NEW x \in Mine \ unread
       PROVE  \/ x \in Left'
              \/ \E i \in 1..n + 1 : g[i] = x
              \/ Beyond' /\ \A i \in 1..n + 1 : x.seq < g[i].seq
  <2>1. n + 1 \in 1..n + 1 /\ \A i \in 1..n : i \in 1..n + 1
    BY <1>5
  <2>2. CASE x = e
    BY <1>7, <2>1, <2>2
  <2>3. CASE x # e /\ x \in Left
    BY <1>10, <2>3
  <2>4. CASE x \notin Left
    BY <1>4, <1>5, <1>7, <1>11, <2>1, <2>4
  <2> QED  BY <2>2, <2>3, <2>4
<1>12. found' = g /\ Len(found') = n + 1
  BY <1>6, <1>7
<1>13. NewestKept'
  <2>1. \A x \in Left' : \A i \in 1..n + 1 : x.seq < g[i].seq
    BY <1>10
  <2> QED  BY <1>1, <1>7, <1>9, <1>11, <1>12, <2>1 DEF NewestKept
<1>14. CountedRight'
  BY DEF CountedRight
<1> QED  BY <1>2, <1>3, <1>13, <1>14 DEF ReaderInv

\* One entry more in a set of them is one more wherever it counts.
OneMore(S, e, T) ==
    /\ IsFiniteSet(T)
    /\ \A u : u # e.unit \/ e.priority \notin 0..4 => CountOf(T, u) = CountOf(S, u)
    /\ e.priority \in 0..3 => CountOf(T, e.unit) = [CountOf(S, e.unit) EXCEPT !.errors = @ + 1]
    /\ e.priority = 4 => CountOf(T, e.unit) = [CountOf(S, e.unit) EXCEPT !.warnings = @ + 1]
    /\ Cardinality(RefusalsIn(T)) = IF Refusal(e) THEN Cardinality(RefusalsIn(S)) + 1
                                    ELSE Cardinality(RefusalsIn(S))

LEMMA CountedMore ==
  ASSUME NEW S, IsFiniteSet(S), NEW e, e \notin S, e \in Entry, NEW T, T = S \cup {e}
  PROVE  OneMore(S, e, T)
<1> DEFINE E(U, u) == {x \in U : x.unit = u /\ x.priority \in 0..3}
           W(U, u) == {x \in U : x.unit = u /\ x.priority = 4}
<1>1. IsFiniteSet(T)
  BY FS_AddElement
<1>2. \A u : /\ IsFiniteSet(E(S, u)) /\ Cardinality(E(S, u)) \in Nat
             /\ IsFiniteSet(W(S, u)) /\ Cardinality(W(S, u)) \in Nat
  <2> SUFFICES ASSUME NEW u
               PROVE  /\ IsFiniteSet(E(S, u)) /\ Cardinality(E(S, u)) \in Nat
                      /\ IsFiniteSet(W(S, u)) /\ Cardinality(W(S, u)) \in Nat
    OBVIOUS
  <2>1. E(S, u) \subseteq S /\ W(S, u) \subseteq S
    OBVIOUS
  <2> HIDE DEF E, W
  <2> QED  BY <2>1, FS_Subset, FS_CardinalityType
<1>3. e.priority \in Int
  BY DEF Entry
<1>4. ASSUME NEW u, u # e.unit \/ e.priority \notin 0..4
      PROVE  E(T, u) = E(S, u) /\ W(T, u) = W(S, u)
  BY <1>3, <1>4
<1>5. ASSUME e.priority \in 0..3
      PROVE  Cardinality(E(T, e.unit)) = Cardinality(E(S, e.unit)) + 1 /\ W(T, e.unit) = W(S, e.unit)
  <2>1. /\ E(T, e.unit) = E(S, e.unit) \cup {e} /\ e \notin E(S, e.unit)
        /\ W(T, e.unit) = W(S, e.unit)
    BY <1>3, <1>5
  <2>2. PICK A : A = E(S, e.unit) /\ IsFiniteSet(A)
    BY <1>2
  <2> QED  BY <2>1, <2>2, FS_AddElement
<1>6. ASSUME e.priority = 4
      PROVE  Cardinality(W(T, e.unit)) = Cardinality(W(S, e.unit)) + 1 /\ E(T, e.unit) = E(S, e.unit)
  <2>1. /\ W(T, e.unit) = W(S, e.unit) \cup {e} /\ e \notin W(S, e.unit)
        /\ E(T, e.unit) = E(S, e.unit)
    BY <1>3, <1>6
  <2>2. PICK A : A = W(S, e.unit) /\ IsFiniteSet(A)
    BY <1>2
  <2> QED  BY <2>1, <2>2, FS_AddElement
<1>7. \A U, u : CountOf(U, u) = [errors |-> Cardinality(E(U, u)), warnings |-> Cardinality(W(U, u))]
  BY DEF CountOf
<1>8. Cardinality(RefusalsIn(T)) = IF Refusal(e) THEN Cardinality(RefusalsIn(S)) + 1
                                   ELSE Cardinality(RefusalsIn(S))
  <2>1. PICK A : A = RefusalsIn(S)
    OBVIOUS
  <2>2. IsFiniteSet(A) /\ e \notin A
    <3>1. A \subseteq S
      BY <2>1 DEF RefusalsIn
    <3> QED  BY <3>1, FS_Subset
  <2>3. CASE Refusal(e)
    <3>1. RefusalsIn(T) = A \cup {e}
      BY <2>1, <2>3 DEF RefusalsIn
    <3>2. Cardinality(A \cup {e}) = Cardinality(A) + 1
      BY <2>2, FS_AddElement
    <3> QED  BY <2>1, <2>3, <3>1, <3>2
  <2>4. CASE ~Refusal(e)
    <3>1. RefusalsIn(T) = A
      BY <2>1, <2>4 DEF RefusalsIn
    <3> QED  BY <2>1, <2>4, <3>1
  <2> QED  BY <2>3, <2>4
<1> HIDE DEF E, W
<1>9. \A u : u # e.unit \/ e.priority \notin 0..4 => CountOf(T, u) = CountOf(S, u)
  BY <1>4, <1>7
<1>10. e.priority \in 0..3 => CountOf(T, e.unit) = [CountOf(S, e.unit) EXCEPT !.errors = @ + 1]
  BY <1>5, <1>7
<1>11. e.priority = 4 => CountOf(T, e.unit) = [CountOf(S, e.unit) EXCEPT !.warnings = @ + 1]
  BY <1>6, <1>7
<1> QED  BY <1>1, <1>8, <1>9, <1>10, <1>11 DEF OneMore

\* An entry of the hour is counted.
LEMMA CountEffect ==
  ASSUME NEW S \in SUBSET Entry, CountsOf(S), NEW e, e \in Entry, e \notin S, e.at < HourEnd, CountEntry(e)
  PROVE  CountsOf(S \cup {e})'
<1>1. PICK T : T = S \cup {e}
  OBVIOUS
<1>2. /\ IsFiniteSet(S) /\ IsFiniteSet(DOMAIN counts)
      /\ DOMAIN counts = {x.unit : x \in {y \in S : Counts(y)}}
      /\ \A u \in DOMAIN counts : counts[u] = CountOf(S, u)
      /\ refusals = Cardinality(RefusalsIn(S))
  BY DEF CountsOf
<1>3. e.priority \in Int
  BY DEF Entry
<1>4. OneMore(S, e, T)
  BY <1>1, <1>2, CountedMore, Zenon
<1>5. refusals' = Cardinality(RefusalsIn(T)) /\ IsFiniteSet(T)
  <2>1. refusals' = IF Refusal(e) THEN refusals + 1 ELSE refusals
    BY DEF CountEntry
  <2> QED  BY <1>2, <1>4, <2>1 DEF OneMore
<1>6. CASE ~Counts(e)
  <2>1. counts' = counts
    BY <1>6 DEF CountEntry
  <2>2. {y \in T : Counts(y)} = {y \in S : Counts(y)}
    BY <1>1, <1>6
  <2>3. ASSUME NEW u \in DOMAIN counts
        PROVE  CountOf(T, u) = CountOf(S, u)
    <3>1. u # None
      BY <1>2 DEF Counts
    <3>2. u # e.unit \/ e.priority \notin 0..4
      BY <1>6, <3>1 DEF Counts
    <3> QED  BY <1>4, <3>2, Zenon DEF OneMore
  <2> QED  BY <1>1, <1>2, <1>5, <2>1, <2>2, <2>3 DEF CountsOf
<1>7. CASE Counts(e)
  <2>1. PICK was : was = IF e.unit \in DOMAIN counts THEN counts[e.unit]
                         ELSE [errors |-> 0, warnings |-> 0]
    OBVIOUS
  <2>2. was = CountOf(S, e.unit)
    <3>1. CASE e.unit \in DOMAIN counts
      BY <1>2, <2>1, <3>1
    <3>2. CASE e.unit \notin DOMAIN counts
      <4>1. \A x \in S : x.unit = e.unit => x.priority \notin 0..4
        BY <1>2, <1>7, <3>2 DEF Counts
      <4>2. {x \in S : x.unit = e.unit /\ x.priority = 4} = {}
        BY <4>1
      <4>3. {x \in S : x.unit = e.unit /\ x.priority \in 0..3} = {}
        BY <4>1
      <4>4. Cardinality({}) = 0
        BY FS_EmptySet
      <4> QED  BY <2>1, <3>2, <4>2, <4>3, <4>4 DEF CountOf
    <3> QED  BY <3>1, <3>2
  <2>3. PICK now0 : now0 = IF e.priority <= 3 THEN [was EXCEPT !.errors = @ + 1]
                          ELSE [was EXCEPT !.warnings = @ + 1]
    OBVIOUS
  <2>4. now0 = CountOf(T, e.unit)
    <3>1. CASE e.priority \in 0..3
      <4>1. CountOf(T, e.unit) = [CountOf(S, e.unit) EXCEPT !.errors = @ + 1]
        BY <1>4, <3>1, Zenon DEF OneMore
      <4> QED  BY <2>2, <2>3, <3>1, <4>1
    <3>2. CASE e.priority = 4
      <4>1. CountOf(T, e.unit) = [CountOf(S, e.unit) EXCEPT !.warnings = @ + 1]
        BY <1>4, <3>2, Zenon DEF OneMore
      <4>2. ~(e.priority <= 3)
        BY <3>2
      <4> QED  BY <2>2, <2>3, <4>1, <4>2
    <3> QED  BY <1>3, <1>7, <3>1, <3>2 DEF Counts
  <2>5. counts' = [u \in DOMAIN counts \cup {e.unit} |-> IF u = e.unit THEN now0 ELSE counts[u]]
    BY <1>7, <2>1, <2>3 DEF CountEntry
  <2>6. DOMAIN counts' = DOMAIN counts \cup {e.unit}
    BY <2>5
  <2>7. IsFiniteSet(DOMAIN counts')
    <3>1. PICK D, u : D = DOMAIN counts /\ u = e.unit
      OBVIOUS
    <3>2. IsFiniteSet(D \cup {u})
      BY <1>2, <3>1, FS_AddElement
    <3> QED  BY <2>6, <3>1, <3>2
  <2>8. DOMAIN counts' = {x.unit : x \in {y \in T : Counts(y)}}
    BY <1>1, <1>2, <1>7, <2>6
  <2>9. ASSUME NEW u \in DOMAIN counts'
        PROVE  counts'[u] = CountOf(T, u)
    <3>1. CASE u = e.unit
      BY <2>4, <2>5, <3>1
    <3>2. CASE u # e.unit
      <4>1. CountOf(T, u) = CountOf(S, u)
        BY <1>4, <3>2, Zenon DEF OneMore
      <4>2. u \in DOMAIN counts /\ counts'[u] = counts[u]
        BY <2>5, <2>6, <3>2
      <4> QED  BY <1>2, <4>1, <4>2
    <3> QED  BY <3>1, <3>2
  <2> QED  BY <1>1, <1>5, <2>7, <2>8, <2>9 DEF CountsOf
<1> QED  BY <1>6, <1>7

LEMMA CountStep ==
  ASSUME ReaderInv, stage = "entries", stage' = "entries", ReaderType', question = "hour",
         UNCHANGED <<journal, question, unread, cut>>,
         NEW e, e \in Left, Whole(e), e.at >= SinceTime, CountEntry(e), Left' = Left \ {e}
  PROVE  ReaderInv'
<1>1. AllEntries' = AllEntries /\ TheHour' = TheHour /\ Walking /\ Walking'
  BY SameJournal DEF Walking
<1>2. LinesNewest' /\ HourHonest'
  <2>1. reply' = NoReply
    BY DEF ReaderType
  <2>2. (reply.done)' = FALSE
    BY <2>1 DEF NoReply
  <2> QED  BY <2>2 DEF LinesNewest, HourHonest
<1>3. NotBegun' /\ (Walking' => Left' \subseteq AllEntries') /\ Apart' /\ e \notin unread
  BY <1>1 DEF ReaderInv, NotBegun, Apart
<1>4. NewestKept'
  BY DEF NewestKept
<1>5. CountedRight'
  <2> SUFFICES ASSUME ~cut
               PROVE  CountsOf(TheHour \ (Left \cup unread))'
    BY DEF CountedRight
  <2>1. PICK S : S = TheHour \ (Left \cup unread)
    OBVIOUS
  <2>2. CountsOf(S)
    BY <1>1, <2>1 DEF ReaderInv, CountedRight
  <2>3. e \in AllEntries /\ e \in Entry
    BY <1>1, EntriesKnown DEF ReaderInv
  <2>4. CASE e.at < HourEnd
    <3>1. e \in TheHour /\ e \notin S
      BY <2>1, <2>3, <2>4 DEF TheHour
    <3>2. TheHour' \ (Left' \cup unread') = S \cup {e}
      BY <1>1, <1>3, <2>1, <3>1
    <3>3. S \subseteq Entry
      BY <2>1, EntriesKnown DEF ReaderInv
    <3>4. CountsOf(S \cup {e})'
      BY <2>2, <2>3, <2>4, <3>1, <3>3, CountEffect
    <3> QED  BY <3>2, <3>4
  <2>5. CASE ~(e.at < HourEnd)
    <3>1. e \notin TheHour
      BY <2>5 DEF TheHour
    <3>2. TheHour' \ (Left' \cup unread') = S
      BY <1>1, <2>1, <3>1
    <3>3. UNCHANGED <<counts, refusals>>
      BY <2>5 DEF CountEntry
    <3>4. CountsOf(S)'
      BY <2>2, <3>3 DEF CountsOf
    <3> QED  BY <3>2, <3>4
  <2> QED  BY <2>4, <2>5
<1> QED  BY <1>2, <1>3, <1>4, <1>5 DEF ReaderInv

\* Rotation leaves the files in order: the new one is empty.
LEMMA RotatedInOrder ==
  ASSUME NEW j \in Seq(Seq(Entry)), InOrder(j), Len(j) = 2, NEW r, r = <<<<>>, j[2], j[1]>>
  PROVE  r \in Seq(Seq(Entry)) /\ InOrder(r) /\ DOMAIN r = 1..3 /\ Len(r) = 3
<1>1. PICK f \in Seq(Entry), g \in Seq(Entry) : f = j[1] /\ g = j[2]
  <2>1. 1 \in 1..Len(j) /\ 2 \in 1..Len(j)
    OBVIOUS
  <2>2. j[1] \in Seq(Entry) /\ j[2] \in Seq(Entry)
    BY <2>1, ElementOfSeq
  <2> QED  BY <2>2
<1>2. PICK z \in Seq(Entry) : z = <<>> /\ DOMAIN z = {}
  <2>1. PICK z \in Seq(Entry) : z = <<>> /\ Len(z) = 0
    BY EmptySeq
  <2>2. DOMAIN z = 1..0 /\ 1..0 = {}
    <3>1. DOMAIN z = 1..Len(z)
      BY LenProperties
    <3> QED  BY <2>1, <3>1
  <2>3. z = <<>> /\ DOMAIN z = {}
    BY <2>1, <2>2, Zenon
  <2> QED  BY <2>3, Zenon
<1>3. r = <<z, g, f>>
  BY <1>1, <1>2
<1>4. r \in Seq(Seq(Entry)) /\ Len(r) = 3 /\ r[1] = z /\ r[2] = g /\ r[3] = f
  BY <1>3
<1>5. DOMAIN j = 1..2 /\ DOMAIN r = 1..3
  BY <1>4, LenProperties
<1>6. Written(z) /\ Written(g) /\ Written(f)
  BY <1>1, <1>2, <1>5 DEF InOrder, Written
<1>7. f = <<>> \/ g = <<>> \/ Precedes(f, g) \/ Precedes(g, f)
  BY <1>1, <1>5 DEF InOrder
<1>8. \A a \in 1..3 : a = 1 \/ a = 2 \/ a = 3
  OBVIOUS
<1>9. \A a \in DOMAIN r : Written(r[a])
  BY <1>4, <1>5, <1>6, <1>8
<1>10. ASSUME NEW a \in DOMAIN r, NEW b \in DOMAIN r
       PROVE  a = b \/ r[a] = <<>> \/ r[b] = <<>> \/ Precedes(r[a], r[b]) \/ Precedes(r[b], r[a])
  BY <1>2, <1>4, <1>5, <1>7, <1>8, Zenon
<1> QED  BY <1>4, <1>5, <1>9, <1>10 DEF InOrder

LEMMA RotateStep ==
  ASSUME ReaderInv, Rotate
  PROVE  ReaderInv'
<1>1. /\ stage \in {"list", "open"} /\ Len(journal) = 2
      /\ journal' = <<<<>>, journal[2], journal[1]>>
      /\ UNCHANGED <<question, stage, names, opened, walkVars, reply, unread>>
  BY DEF Rotate
<1>2. ReaderType
  BY DEF ReaderInv
<1>3. journal' \in Seq(Seq(Entry)) /\ InOrder(journal') /\ DOMAIN journal' = 1..3
  BY <1>1, <1>2, RotatedInOrder DEF ReaderType
<1>4. DOMAIN journal = 1..2
  BY <1>1, <1>2, LenProperties DEF ReaderType
<1>5. names \subseteq DOMAIN journal'
  BY <1>2, <1>3, <1>4 DEF ReaderType
<1>6. ReaderType'
  BY <1>1, <1>2, <1>3, <1>5 DEF ReaderType, walkVars
<1>7. NotBegun'
  BY <1>1 DEF ReaderInv, NotBegun, walkVars
<1>8. reply' = NoReply /\ ~Walking'
  BY <1>1, <1>2 DEF ReaderType, Walking
<1>9. LinesNewest' /\ HourHonest'
  <2>1. (reply.done)' = FALSE
    BY <1>8 DEF NoReply
  <2> QED  BY <2>1 DEF LinesNewest, HourHonest
<1> QED  BY <1>6, <1>7, <1>8, <1>9 DEF ReaderInv, NewestKept, CountedRight, Apart

LEMMA ReaderInitHolds == ReaderInit => ReaderInv
<1> SUFFICES ASSUME ReaderInit PROVE ReaderInv
  OBVIOUS
<1>1. journal \in Journals /\ question \in {"lines", "hour"} /\ ReaderStart
  BY DEF ReaderInit, ReaderWorld
<1>2. journal \in Seq(Seq(Entry)) /\ InOrder(journal)
  BY <1>1, JournalAssumptions
<1>3. Stacked(<<>>)
  <2>1. <<>> \in Seq(Seq(Entry)) /\ Len(<<>>) = 0
    BY EmptySeq
  <2>2. 1..0 = {}
    OBVIOUS
  <2> QED  BY <2>1, <2>2 DEF Stacked
<1>4. ReaderType /\ NotBegun /\ ~Walking
  BY <1>1, <1>2, <1>3 DEF ReaderStart, ReaderType, NotBegun, Walking
<1>5. LinesNewest /\ HourHonest
  BY <1>1, NoAnswer DEF ReaderStart
<1> QED  BY <1>4, <1>5 DEF ReaderInv, NewestKept, CountedRight, Apart

LEMMA ListStep ==
  ASSUME ReaderInv, ListFiles
  PROVE  ReaderInv'
<1>1. /\ stage = "list" /\ stage' = "open" /\ names' = DOMAIN journal
      /\ UNCHANGED <<journal, question, opened, walkVars, reply, unread>>
  BY DEF ListFiles
<1>2. ReaderType /\ NotBegun
  BY DEF ReaderInv
<1>3. ReaderType' /\ ~Walking'
  BY <1>1, <1>2 DEF ReaderType, Walking, walkVars
<1>4. NotBegun'
  BY <1>1, <1>2 DEF NotBegun, walkVars
<1>5. LinesNewest' /\ HourHonest'
  <2>1. reply' = NoReply
    BY <1>1, <1>2 DEF ReaderType
  <2>2. (reply.done)' = FALSE
    BY <2>1 DEF NoReply
  <2> QED  BY <2>2 DEF LinesNewest, HourHonest
<1> QED  BY <1>3, <1>4, <1>5 DEF ReaderInv, NewestKept, CountedRight, Apart

\* The last entry of a file in order is its latest.
LEMMA TailTime ==
  ASSUME NEW f, f \in Seq(Entry), Written(f)
  PROVE  /\ Tail0(f) \in Nat
         /\ f # <<>> => Tail0(f) # 0
         /\ \A i \in 1..Len(f) : f[i] \in Entry /\ f[i].at <= Tail0(f)
<1>1. PICK n \in Nat : n = Len(f) /\ DOMAIN f = 1..n
  BY LenProperties
<1>2. \A i \in 1..n : f[i] \in Entry
  BY <1>1, ElementOfSeq
<1>3. \A i \in 1..n : f[i].at \in Nat /\ f[i].at # 0
  BY <1>2 DEF Entry
<1>4. CASE f = <<>>
  <2>1. n = 0
    BY <1>1, <1>4, EmptySeq
  <2> QED  BY <1>1, <1>4, <2>1 DEF Tail0
<1>5. CASE f # <<>>
  <2>1. n # 0
    BY <1>1, <1>5, EmptySeq
  <2>2. n \in 1..n
    BY <2>1
  <2>3. Tail0(f) = f[n].at
    BY <1>1, <1>5 DEF Tail0
  <2>4. ASSUME NEW i \in 1..n PROVE f[i].at <= f[n].at
    <3>1. CASE i = n
      BY <1>3, <2>2, <3>1
    <3>2. CASE i < n
      BY <1>1, <2>2, <3>2 DEF Written
    <3> QED  BY <3>1, <3>2
  <2> QED  BY <1>1, <1>2, <1>3, <2>2, <2>3, <2>4
<1> QED  BY <1>4, <1>5

\* By the time of their newest entries, and by name, files are in a total order.
TailOrder(N) ==
    {p \in N \X N : \/ Tail0(journal[p[1]]) > Tail0(journal[p[2]])
                    \/ Tail0(journal[p[1]]) = Tail0(journal[p[2]]) /\ p[1] <= p[2]}

LEMMA FilesKnown ==
  ASSUME ReaderType
  PROVE  /\ names \subseteq Nat /\ IsFiniteSet(names)
         /\ \A a \in DOMAIN journal : /\ journal[a] \in Seq(Entry) /\ Written(journal[a])
                                      /\ Tail0(journal[a]) \in Nat
<1>1. PICK n \in Nat : n = Len(journal) /\ DOMAIN journal = 1..n
  BY LenProperties DEF ReaderType
<1>2. names \subseteq 1..n
  BY <1>1 DEF ReaderType
<1>3. IsFiniteSet(names) /\ names \subseteq Nat
  <2>1. IsFiniteSet(1..n)
    BY FS_Interval
  <2>2. IsFiniteSet(names)
    BY <1>2, <2>1, FS_Subset
  <2> QED  BY <1>2, <2>2
<1>4. ASSUME NEW a \in DOMAIN journal
      PROVE  journal[a] \in Seq(Entry) /\ Written(journal[a]) /\ Tail0(journal[a]) \in Nat
  <2>1. journal[a] \in Seq(Entry) /\ Written(journal[a])
    BY <1>1, ElementOfSeq DEF ReaderType, InOrder
  <2> QED  BY <2>1, TailTime
<1> QED  BY <1>3, <1>4

LEMMA TailOrdered ==
  ASSUME ReaderType, NEW N \in SUBSET names
  PROVE  Orders(TailOrder(N), N)
<1>1. \A a \in N : a \in Nat /\ Tail0(journal[a]) \in Nat
  BY FilesKnown DEF ReaderType
<1>2. \A p, q \in N :
        <<p, q>> \in TailOrder(N) <=>
            \/ Tail0(journal[p]) > Tail0(journal[q])
            \/ Tail0(journal[p]) = Tail0(journal[q]) /\ p <= q
  BY DEF TailOrder
<1>3. PICK T : T = [a \in N |-> Tail0(journal[a])]
  OBVIOUS
<1>4. PICK R : R = TailOrder(N)
  OBVIOUS
<1>5. \A p, q \in N : <<p, q>> \in R <=> T[p] > T[q] \/ (T[p] = T[q] /\ p <= q)
  BY <1>2, <1>3, <1>4
<1>6. \A a \in N : a \in Nat /\ T[a] \in Nat
  BY <1>1, <1>3
<1>7. \A p \in N : <<p, p>> \in R
  BY <1>5, <1>6
<1>8. ASSUME NEW p \in N, NEW q \in N
      PROVE  <<p, q>> \in R \/ <<q, p>> \in R
  <2>1. T[p] > T[q] \/ (T[p] = T[q] /\ p <= q) \/ T[q] > T[p] \/ (T[q] = T[p] /\ q <= p)
    BY <1>6
  <2> QED  BY <1>5, <2>1
<1>9. \A p, q \in N : <<p, q>> \in R /\ <<q, p>> \in R => p = q
  BY <1>5, <1>6
<1>10. ASSUME NEW p \in N, NEW q \in N, NEW r \in N, <<p, q>> \in R, <<q, r>> \in R
       PROVE  <<p, r>> \in R
  <2>1. T[p] > T[q] \/ (T[p] = T[q] /\ p <= q)
    BY <1>5, <1>10
  <2>2. T[q] > T[r] \/ (T[q] = T[r] /\ q <= r)
    BY <1>5, <1>10
  <2>3. T[p] > T[r] \/ (T[p] = T[r] /\ p <= r)
    BY <1>6, <2>1, <2>2
  <2> QED  BY <1>5, <2>3
<1> QED  BY <1>4, <1>7, <1>8, <1>9, <1>10 DEF Orders

\* The files are opened the newest first, each of them of the journal.
Listed(o) == \A k \in 1..Len(o) : \E a \in DOMAIN journal : o[k] = journal[a]

LEMMA OpenedShape ==
  ASSUME ReaderType, NEW N \in SUBSET names,
         NEW o, LET order == ByTail(N) IN o = [i \in DOMAIN order |-> journal[order[i]]]
  PROVE  Stacked(o) /\ Listed(o)
<1>1. PICK R : R = TailOrder(N)
  OBVIOUS
<1>2. Orders(R, N) /\ IsFiniteSet(N) /\ N \subseteq DOMAIN journal
  <2>1. IsFiniteSet(N)
    BY FilesKnown, FS_Subset
  <2> QED  BY <1>1, <2>1, TailOrdered DEF ReaderType
<1>3. PICK n \in Nat : n = Cardinality(N)
  BY <1>2, FS_CardinalityType
<1>4. PICK t : t = ByTail(N)
  OBVIOUS
<1>5. t = Ranked(N, R)
  <2> DEFINE Up(p) == {q \in N : \/ Tail0(journal[q]) > Tail0(journal[p])
                                 \/ Tail0(journal[q]) = Tail0(journal[p]) /\ q <= p}
             C(k) == CHOOSE p \in N : Cardinality(Up(p)) = k
             D(k) == CHOOSE p \in N : Rank(N, R, p) = k
  <2>1. t = [k \in 1..Cardinality(N) |-> C(k)]
    BY <1>4 DEF ByTail
  <2>2. ASSUME NEW p \in N PROVE Rank(N, R, p) = Cardinality(Up(p))
    <3>1. {q \in N : <<q, p>> \in R} = Up(p)
      BY <1>1 DEF TailOrder
    <3> QED  BY <3>1 DEF Rank
  <2> HIDE DEF Up
  <2>3. \A k : C(k) = D(k)
    BY <2>2, Zenon
  <2> HIDE DEF C, D
  <2>4. t = [k \in 1..Cardinality(N) |-> D(k)]
    BY <2>1, <2>3, Zenon
  <2> QED  BY <2>4 DEF D, Ranked
<1>6. /\ \A i \in 1..n : t[i] \in N
      /\ \A p \in N : \E i \in 1..n : t[i] = p
      /\ \A i, j \in 1..n : i < j => <<t[i], t[j]>> \in R /\ t[i] # t[j]
  <2>1. Sorted(t, N, R)
    BY <1>2, <1>5, RankedShape, Zenon
  <2> QED  BY <1>3, <2>1, Zenon DEF Sorted
<1>7. o = [i \in 1..n |-> journal[t[i]]]
  BY <1>3, <1>4, <1>5 DEF Ranked
<1>8. \A i \in 1..n : o[i] = journal[t[i]] /\ o[i] \in Seq(Entry) /\ Written(o[i])
  BY <1>2, <1>6, <1>7, FilesKnown
<1>9. o \in Seq(Seq(Entry)) /\ Len(o) = n
  <2>1. o \in [1..n -> Seq(Entry)]
    BY <1>7, <1>8
  <2> QED  BY <1>3, <2>1, SeqDef, LenProperties
<1>10. ASSUME NEW k \in 1..n, NEW l \in 1..n, k < l,
              NEW i \in 1..Len(o[k]), NEW j \in 1..Len(o[l])
       PROVE  o[l][j].seq < o[k][i].seq
  <2>1. PICK a \in N, b \in N : a = t[k] /\ b = t[l]
    BY <1>6
  <2>2. a # b /\ <<a, b>> \in R /\ a \in DOMAIN journal /\ b \in DOMAIN journal
    BY <1>2, <1>6, <1>10, <2>1
  <2>3. PICK f \in Seq(Entry), g \in Seq(Entry) : f = journal[a] /\ g = journal[b] /\ f = o[k] /\ g = o[l]
    BY <1>8, <2>1
  <2>4. ~(Tail0(f) < Tail0(g))
    <3>1. Tail0(f) > Tail0(g) \/ Tail0(f) = Tail0(g)
      BY <1>1, <2>2, <2>3 DEF TailOrder
    <3>2. Tail0(f) \in Nat /\ Tail0(g) \in Nat
      BY <2>2, <2>3, FilesKnown
    <3> QED  BY <3>1, <3>2
  <2>5. i \in DOMAIN f /\ j \in DOMAIN g /\ f # <<>> /\ g # <<>>
    <3>1. i \in 1..Len(f) /\ j \in 1..Len(g)
      BY <2>3
    <3>2. DOMAIN f = 1..Len(f) /\ DOMAIN g = 1..Len(g)
      BY LenProperties
    <3>3. Len(f) # 0 /\ Len(g) # 0
      BY <3>1
    <3> QED  BY <3>1, <3>2, <3>3, EmptySeq
  <2>6. Precedes(g, f)
    BY <2>2, <2>3, <2>4, <2>5 DEF ReaderType, InOrder, Precedes
  <2> QED  BY <2>3, <2>5, <2>6 DEF Precedes
<1>11. Stacked(o)
  <2>1. \A k \in 1..Len(o) : Written(o[k])
    BY <1>8, <1>9
  <2>2. \A k, l \in 1..Len(o) : k < l =>
          \A i \in 1..Len(o[k]), j \in 1..Len(o[l]) : o[l][j].seq < o[k][i].seq
    <3>1. 1..Len(o) = 1..n
      BY <1>9, Zenon
    <3> SUFFICES ASSUME NEW k \in 1..n, NEW l \in 1..n, k < l,
                        NEW i \in 1..Len(o[k]), NEW j \in 1..Len(o[l])
                 PROVE  o[l][j].seq < o[k][i].seq
      BY <3>1, Zenon
    <3> QED  BY <1>10, Zenon
  <2> QED  BY <1>9, <2>1, <2>2, Zenon DEF Stacked
<1>12. \A k \in 1..n : \E a \in DOMAIN journal : o[k] = journal[a]
  BY <1>2, <1>6, <1>8
<1> QED  BY <1>9, <1>11, <1>12 DEF Listed

LEMMA OpenStep ==
  ASSUME ReaderInv, OpenFiles
  PROVE  ReaderInv'
<1>1. /\ stage = "open" /\ stage' = "files"
      /\ unread' = AllEntries \ UNION {ToSet(opened'[i]) : i \in DOMAIN opened'}
      /\ UNCHANGED <<journal, question, names, walkVars, reply>>
  BY DEF OpenFiles
<1>2. ReaderType /\ NotBegun
  BY DEF ReaderInv
<1>3. PICK o : o = opened'
  OBVIOUS
<1>4. PICK N \in SUBSET names : LET order == ByTail(N) IN o = [i \in DOMAIN order |-> journal[order[i]]]
  BY <1>3 DEF OpenFiles
<1>5. Stacked(o) /\ \A k \in 1..Len(o) : \E a \in DOMAIN journal : o[k] = journal[a]
  <2>1. Stacked(o) /\ Listed(o)
    BY <1>2, <1>4, OpenedShape, Zenon
  <2> QED  BY <2>1 DEF Listed
<1>6. ReaderType' /\ Walking'
  BY <1>1, <1>2, <1>3, <1>5 DEF ReaderType, Walking, walkVars
<1>7. Left' = Ahead(o)
  BY <1>1, <1>3 DEF Left
<1>8. \A a \in DOMAIN journal : DOMAIN journal[a] = 1..Len(journal[a])
  BY <1>2, FilesKnown, LenProperties
<1>9. Ahead(o) \subseteq AllEntries
  BY <1>5, <1>8 DEF Ahead, AllEntries, ToSet
<1>10. unread' = AllEntries \ Ahead(o)
  <2>1. DOMAIN o = 1..Len(o)
    BY <1>5, LenProperties DEF Stacked
  <2>2. \A k \in 1..Len(o) : DOMAIN o[k] = 1..Len(o[k])
    BY <1>5, <1>8
  <2>3. ASSUME NEW e \in AllEntries
        PROVE  e \in Ahead(o) <=> \E k \in DOMAIN o : e \in ToSet(o[k])
    <3>1. e \in Entry
      BY <1>2, EntriesKnown
    <3> QED  BY <2>1, <2>2, <3>1 DEF Ahead, ToSet
  <2> QED  BY <1>1, <1>3, <2>3
<1>11. AllEntries' = AllEntries /\ Mine' = Mine /\ TheHour' = TheHour
  BY <1>1, SameJournal
<1>12. Mine \subseteq AllEntries /\ TheHour \subseteq AllEntries
  BY <1>2, EntriesKnown
<1>13. found' = <<>> /\ counts' = <<>> /\ refusals' = 0
  BY <1>1, <1>2 DEF NotBegun, walkVars
<1>14. NewestKept'
  <2>1. <<>> \in Seq(Mine) /\ Len(<<>>) = 0 /\ 1..0 = {}
    BY EmptySeq
  <2>2. \A e \in Mine \ unread' : e \in Left'
    BY <1>7, <1>10, <1>12
  <2> QED  BY <1>1, <1>7, <1>11, <1>13, <2>1, <2>2 DEF NewestKept
<1>15. CountedRight'
  <2> SUFFICES CountsOf(TheHour \ (Left \cup unread))'
    BY DEF CountedRight
  <2>1. TheHour' \ (Left' \cup unread') = {}
    BY <1>7, <1>10, <1>11, <1>12
  <2>2. CountsOf({})'
    <3>1. DOMAIN (<<>>) = {}
      OBVIOUS
    <3>2. RefusalsIn({}) = {} /\ {e.unit : e \in {x \in {} : Counts(x)}} = {}
      BY DEF RefusalsIn
    <3>3. IsFiniteSet({}) /\ Cardinality({}) = 0
      BY FS_EmptySet
    <3> QED  BY <1>13, <3>1, <3>2, <3>3 DEF CountsOf
  <2> QED  BY <2>1, <2>2
<1>16. LinesNewest' /\ HourHonest'
  <2>1. reply' = NoReply
    BY <1>1, <1>2 DEF ReaderType
  <2>2. (reply.done)' = FALSE
    BY <2>1 DEF NoReply
  <2> QED  BY <2>2 DEF LinesNewest, HourHonest
<1>17. NotBegun' /\ Apart'
  BY <1>1, <1>7, <1>10 DEF NotBegun, Apart
<1> QED  BY <1>6, <1>7, <1>9, <1>11, <1>14, <1>15, <1>16, <1>17 DEF ReaderInv

\* A step of the walk stays in the file, or leaves it for the next.
LEMMA WalkTyped ==
  ASSUME ReaderType, Walking, opened # <<>>,
         UNCHANGED <<journal, question, names, reply>>,
         ofFile' \in Nat, scanned' \in Nat, cut' \in BOOLEAN,
         \/ opened' = opened /\ stage' = "entries" /\ place' \in 0..Len(opened[1])
         \/ opened' = Tail(opened) /\ stage' = "files"
  PROVE  ReaderType' /\ Walking'
<1>1. Stacked(opened) /\ Stacked(Tail(opened)) /\ reply = NoReply
  BY TailStacked DEF ReaderType, Walking
<1>2. CASE opened' = opened /\ stage' = "entries" /\ place' \in 0..Len(opened[1])
  BY <1>1, <1>2 DEF ReaderType, Walking
<1>3. CASE opened' = Tail(opened) /\ stage' = "files"
  BY <1>1, <1>3 DEF ReaderType, Walking
<1> QED  BY <1>2, <1>3

\* What a file has is not in those after it.
LEMMA HeadApart ==
  ASSUME NEW o, Stacked(o), o # <<>>, NEW I \in SUBSET (1..Len(o[1]))
  PROVE  Ahead(Tail(o)) \cap {o[1][i] : i \in I} = {}
<1> SUFFICES ASSUME NEW i \in I, o[1][i] \in Ahead(Tail(o)) PROVE FALSE
  OBVIOUS
<1>1. PICK t : t = Tail(o)
  OBVIOUS
<1>2. PICK k \in 1..Len(t) : \E j \in 1..Len(t[k]) : o[1][i] = t[k][j]
  BY <1>1 DEF Ahead
<1>3. k + 1 \in 1..Len(o) /\ 1 \in 1..Len(o) /\ 1 < k + 1 /\ t[k] = o[k + 1]
  <2>1. Len(t) = Len(o) - 1 /\ Len(o) \in Nat
    BY <1>1, StackShape
  <2> QED  BY <1>1, <2>1, StackShape
<1>4. PICK j \in 1..Len(o[k + 1]) : o[1][i] = o[k + 1][j]
  BY <1>2, <1>3
<1>5. o[k + 1][j].seq < o[1][i].seq
  BY <1>3, <1>4 DEF Stacked
<1>6. o[1][i].seq \in Nat
  <2>1. o[1][i] \in Entry
    BY StackShape
  <2> QED  BY <2>1 DEF Entry
<1> QED  BY <1>4, <1>5, <1>6

\* Nor is what is before a place in it among what is after that place.
LEMMA PlaceApart ==
  ASSUME NEW o, Stacked(o), o # <<>>, NEW n \in 0..Len(o[1])
  PROVE  /\ Within(o, n) \cap {o[1][i] : i \in n + 1..Len(o[1])} = {}
         /\ Within(o, n) \subseteq Ahead(o)
         /\ Ahead(o) = Within(o, n) \cup {o[1][i] : i \in n + 1..Len(o[1])}
<1>1. PICK c \in Nat : c = Len(o[1])
  BY StackShape
<1>2. n \in 0..c /\ c \in 0..c /\ n + 1..c \subseteq 1..c /\ 1..c = (1..n) \cup (n + 1..c)
  BY <1>1
<1>3. PICK A : A = Ahead(Tail(o))
  OBVIOUS
<1>4. Within(o, n) = A \cup {o[1][i] : i \in 1..n} /\ Ahead(o) = A \cup {o[1][i] : i \in 1..c}
  BY <1>1, <1>2, <1>3, TailAhead
<1>5. A \cap {o[1][i] : i \in n + 1..c} = {}
  BY <1>1, <1>2, <1>3, HeadApart
<1>6. ASSUME NEW i \in 1..n, NEW k \in n + 1..c PROVE o[1][i] # o[1][k]
  <2>1. i \in 1..c /\ k \in 1..c /\ i < k
    BY <1>2
  <2>2. DOMAIN o[1] = 1..c
    BY <1>1, StackShape, LenProperties
  <2>3. o[1][i].seq < o[1][k].seq
    BY <2>1, <2>2, StackShape DEF Written
  <2>4. o[1][i].seq \in Nat
    <3>1. o[1][i] \in Entry
      BY <1>1, <2>1, StackShape
    <3> QED  BY <3>1 DEF Entry
  <2> QED  BY <2>3, <2>4
<1> QED  BY <1>1, <1>2, <1>4, <1>5, <1>6

LEMMA NextFileStep ==
  ASSUME ReaderInv, NextFile
  PROVE  ReaderInv'
<1>1. /\ stage = "files" /\ opened # <<>> /\ ~Enough
      /\ UNCHANGED <<journal, question, names, scanned, found, compressed, counts, refusals,
                     cut, reply>>
  BY DEF NextFile
<1>2. ReaderType /\ Walking /\ ~Beyond /\ Stacked(opened) /\ Left \cap unread = {}
  BY <1>1 DEF ReaderInv, ReaderType, Walking, Beyond, Apart
<1>3. PICK o, t : o = opened /\ t = Tail0(Head(opened))
  OBVIOUS
<1>4. PICK n \in Nat : n = Len(o[1])
  BY <1>1, <1>2, <1>3, StackShape
<1>5. Head(o) = o[1] /\ o[1] \in Seq(Entry) /\ Written(o[1])
  BY <1>1, <1>2, <1>3, StackShape
<1>6. n \in 0..n
  OBVIOUS
<1>7. /\ Left = Ahead(o)
      /\ Ahead(o) = Within(o, n)
      /\ Within(o, n) = Ahead(Tail(o)) \cup {o[1][i] : i \in 1..n}
  BY <1>1, <1>2, <1>3, <1>4, <1>6, TailAhead DEF Left
<1>8. CASE t # 0 /\ t < SinceTime
  <2>1. opened' = Tail(opened) /\ UNCHANGED <<stage, place, ofFile, unread>>
    BY <1>3, <1>8 DEF NextFile
  <2>2. ReaderType' /\ Walking'
    BY <1>1, <1>2, <2>1, WalkTyped DEF ReaderType
  <2>3. Left' = Ahead(Tail(o))
    BY <1>1, <1>3, <2>1 DEF Left
  <2>4. ASSUME NEW i \in 1..n PROVE o[1][i] \notin Mine /\ o[1][i] \notin TheHour
    <3>1. o[1][i] \in Entry /\ o[1][i].at <= t /\ t \in Nat
      BY <1>3, <1>4, <1>5, TailTime
    <3>2. o[1][i].at \in Nat /\ SinceTime \in Nat /\ UntilTime \in Nat
      BY <3>1, JournalAssumptions DEF Entry
    <3>3. ~(o[1][i].at >= SinceTime) /\ o[1][i].at \notin SinceTime..UntilTime
      BY <1>8, <3>1, <3>2
    <3> QED  BY <3>3 DEF Mine, TheHour
  <2>5. \A e \in Left : e \in Left' \/ (e \notin Mine /\ e \notin TheHour)
    BY <1>7, <2>3, <2>4
  <2>6. Left' \subseteq Left /\ Left' \cap unread' = {}
    BY <1>2, <1>7, <2>1, <2>3
  <2> QED  BY <1>1, <1>2, <2>1, <2>2, <2>5, <2>6, DropStep
<1>9. CASE ~(t # 0 /\ t < SinceTime)
  <2>1. /\ stage' = "entries" /\ ofFile' = 0 /\ opened' = opened /\ place' \in 0..n
        /\ unread' = unread \cup {o[1][i] : i \in place' + 1..n}
    BY <1>3, <1>4, <1>5, <1>9 DEF NextFile
  <2>2. ReaderType' /\ Walking'
    BY <1>1, <1>2, <1>3, <1>4, <2>1, WalkTyped DEF ReaderType
  <2>3. Left' = Within(o, place')
    BY <1>3, <2>1 DEF Left
  <2>4. PICK q \in 0..n : q = place'
    BY <2>1
  <2>5. PICK lost : lost = {o[1][i] : i \in q + 1..n}
    OBVIOUS
  <2>6. Left' \cap lost = {} /\ Left' \subseteq Left /\ Left = Left' \cup lost
    <3>1. Left' = Within(o, q) /\ q \in 0..Len(o[1]) /\ o # <<>> /\ Stacked(o)
      BY <1>1, <1>2, <1>3, <1>4, <2>3, <2>4
    <3>2. lost = {o[1][i] : i \in q + 1..Len(o[1])}
      BY <1>4, <2>5
    <3> QED  BY <1>7, <3>1, <3>2, PlaceApart
  <2>7. unread' = unread \cup lost
    BY <2>1, <2>4, <2>5
  <2>8. Left' \cap unread' = {}
    BY <1>2, <2>6, <2>7
  <2> QED  BY <1>1, <1>2, <2>2, <2>6, <2>7, <2>8, DropStep
<1> QED  BY <1>8, <1>9

\* Leaving a file: the bound, when it is reached, is past it.
LEMMA EndEffect ==
  ASSUME ReaderType, stage = "entries", ofFile' \in Nat, EndBackward,
         UNCHANGED <<journal, question, names, reply>>
  PROVE  /\ ReaderType' /\ Walking' /\ Left' = Ahead(Tail(opened)) /\ (cut => cut')
         /\ scanned' = scanned + ofFile'
         /\ scanned' >= MaxScan => Beyond' /\ (question = "hour" => cut')
         /\ question = "lines" /\ Len(found') >= MaxLines => Beyond'
<1>1. /\ stage' = "files" /\ opened' = Tail(opened) /\ scanned' = scanned + ofFile'
      /\ cut' = (cut \/ (question = "hour" /\ scanned' >= MaxScan))
  BY DEF EndBackward
<1>2. scanned' \in Nat /\ cut' \in BOOLEAN /\ opened # <<>> /\ Walking
  <2>1. scanned \in Nat /\ opened # <<>> /\ Walking
    BY DEF ReaderType, Walking
  <2>2. PICK n \in Nat : n = ofFile'
    OBVIOUS
  <2>3. scanned' = scanned + n
    BY <1>1, <2>2
  <2>4. scanned' \in Nat
    BY <2>1, <2>3
  <2>5. cut' \in BOOLEAN
    <3>1. cut' = TRUE \/ cut' = FALSE
      BY <1>1
    <3> QED  BY <3>1
  <2> QED  BY <2>1, <2>4, <2>5
<1>3. ReaderType' /\ Walking'
  BY <1>1, <1>2, WalkTyped
<1>4. Left' = Ahead(Tail(opened))
  BY <1>1 DEF Left
<1>5. /\ scanned' >= MaxScan => Beyond' /\ (question = "hour" => cut')
      /\ question = "lines" /\ Len(found') >= MaxLines => Beyond'
  BY <1>1 DEF Beyond, Enough
<1> QED  BY <1>1, <1>3, <1>4, <1>5

LEMMA EndWalkStep ==
  ASSUME ReaderInv, EndWalk
  PROVE  ReaderInv'
<1>1. /\ stage = "entries" /\ (place = 0 \/ Bounded(ofFile)) /\ EndBackward
      /\ UNCHANGED <<place, ofFile, found, compressed, counts, refusals>>
      /\ UNCHANGED <<journal, question, names, reply, unread>>
  BY DEF EndWalk
<1>2. ReaderType /\ Walking /\ ~Beyond
  BY <1>1 DEF ReaderInv, Walking, Beyond
<1>3. Stacked(opened) /\ opened # <<>> /\ place \in 0..Len(opened[1]) /\ ofFile' \in Nat
  BY <1>1, <1>2 DEF ReaderType
<1>4. /\ ReaderType' /\ Walking' /\ Left' = Ahead(Tail(opened)) /\ (cut => cut')
      /\ scanned' = scanned + ofFile'
      /\ scanned' >= MaxScan => Beyond' /\ (question = "hour" => cut')
  BY <1>1, <1>2, <1>3, EndEffect
<1>5. Left = Ahead(Tail(opened)) \cup {opened[1][i] : i \in 1..place}
  BY <1>1, <1>3, TailAhead DEF Left
<1>6. CASE place = 0
  <2>1. Left' = Left
    BY <1>4, <1>5, <1>6
  <2> QED  BY <1>1, <1>2, <1>4, <2>1, DropStep DEF ReaderInv, Apart
<1>7. CASE Bounded(ofFile)
  <2>1. Beyond' /\ (question = "hour" => cut')
    BY <1>1, <1>4, <1>7 DEF Bounded
  <2>2. Left' \subseteq Left /\ Left' \cap unread = {}
    BY <1>2, <1>4, <1>5 DEF ReaderInv, Apart
  <2> QED  BY <1>1, <1>2, <1>4, <2>1, <2>2, DropStep
<1> QED  BY <1>1, <1>6, <1>7

LEMMA ReadFailsStep ==
  ASSUME ReaderInv, ReadFails
  PROVE  ReaderInv'
<1>1. /\ stage = "entries" /\ place > 0 /\ EndBackward
      /\ UNCHANGED <<place, ofFile, found, compressed, counts, refusals>>
      /\ unread' = unread \cup {Head(opened)[i] : i \in 1..place}
      /\ UNCHANGED <<journal, question, names, reply>>
  BY DEF ReadFails
<1>2. ReaderType /\ Walking /\ ~Beyond
  BY <1>1 DEF ReaderInv, Walking, Beyond
<1>3. Stacked(opened) /\ opened # <<>> /\ place \in 0..Len(opened[1]) /\ ofFile' \in Nat
  BY <1>1, <1>2 DEF ReaderType
<1>4. ReaderType' /\ Walking' /\ Left' = Ahead(Tail(opened)) /\ (cut => cut')
  BY <1>1, <1>2, <1>3, EndEffect
<1>5. PICK lost : lost = {opened[1][i] : i \in 1..place}
  OBVIOUS
<1>6. Left = Ahead(Tail(opened)) \cup lost
  BY <1>1, <1>3, <1>5, TailAhead DEF Left
<1>7. unread' = unread \cup lost
  BY <1>1, <1>3, <1>5, StackShape
<1>8. Ahead(Tail(opened)) \cap lost = {}
  <2>1. 1..place \subseteq 1..Len(opened[1])
    BY <1>3, StackShape
  <2> QED  BY <1>3, <1>5, <2>1, HeadApart
<1>9. Left' \subseteq Left /\ Left' \cap unread' = {}
  BY <1>2, <1>4, <1>6, <1>7, <1>8 DEF ReaderInv, Apart
<1> QED  BY <1>1, <1>2, <1>4, <1>6, <1>7, <1>9, DropStep

\* An entry of the walk, which is the latest of what is ahead of it.
AtEntry(e) ==
    /\ stage = "entries" /\ opened # <<>> /\ Stacked(opened) /\ place \in 1..Len(opened[1])
    /\ e = opened[1][place] /\ e \in Left /\ e \in AllEntries /\ e \in Entry
    /\ place - 1 \in 0..Len(opened[1])
    /\ Left = Within(opened, place - 1) \cup {e}
    /\ \A x \in Within(opened, place - 1) : x.seq < e.seq /\ x # e
    /\ Ahead(Tail(opened)) \subseteq Within(opened, place - 1)

LEMMA EntryShape ==
  ASSUME ReaderInv, stage = "entries", place > 0, NEW e, e = Head(opened)[place]
  PROVE  AtEntry(e)
<1>1. /\ ReaderType /\ Walking /\ opened # <<>> /\ Stacked(opened) /\ place \in 0..Len(opened[1])
      /\ Left \subseteq AllEntries
  BY DEF ReaderInv, ReaderType, Walking
<1>2. Len(opened[1]) \in Nat /\ Head(opened) = opened[1]
  BY <1>1, StackShape
<1>3. place \in 1..Len(opened[1]) /\ place - 1 \in 0..Len(opened[1])
  BY <1>1, <1>2
<1>4. e = opened[1][place]
  BY <1>2
<1>5. /\ e \in Within(opened, place) /\ e \in Entry
      /\ Within(opened, place) = Within(opened, place - 1) \cup {e}
      /\ \A x \in Within(opened, place - 1) : x.seq < e.seq /\ x # e
      /\ Ahead(Tail(opened)) \subseteq Within(opened, place - 1)
  BY <1>1, <1>3, <1>4, WalkShape
<1>6. Left = Within(opened, place)
  BY DEF Left
<1> QED  BY <1>1, <1>3, <1>4, <1>5, <1>6 DEF AtEntry

\* The next entry of the same file.
LEMMA OnwardEffect ==
  ASSUME ReaderType, NEW e, AtEntry(e), ofFile' \in Nat, place' = place - 1,
         UNCHANGED <<stage, opened, scanned, cut, journal, question, names, reply>>
  PROVE  ReaderType' /\ Walking' /\ Left' = Left \ {e}
<1>1. place' \in 0..Len(opened[1]) /\ stage' = "entries" /\ Walking /\ opened # <<>>
  BY DEF AtEntry, Walking
<1>2. scanned' \in Nat /\ cut' \in BOOLEAN
  BY DEF ReaderType
<1>3. ReaderType' /\ Walking'
  BY <1>1, <1>2, WalkTyped
<1>4. Left' = Within(opened, place - 1)
  BY <1>1 DEF Left
<1> QED  BY <1>3, <1>4 DEF AtEntry

\* An entry that is too old: so are those before it, and the file is left.
LEMMA TooOld ==
  ASSUME ReaderInv, NEW e, AtEntry(e), e.at < SinceTime
  PROVE  \A x \in Left : x \in Ahead(Tail(opened)) \/ (x \notin Mine /\ x \notin TheHour)
<1>1. PICK n : n = place
  OBVIOUS
<1>2. /\ opened # <<>> /\ Stacked(opened) /\ n \in 1..Len(opened[1]) /\ e = opened[1][n] /\ e \in Entry
      /\ Left = Within(opened, n)
  BY <1>1 DEF AtEntry, Left
<1>3. n \in 0..Len(opened[1])
  <2>1. Len(opened[1]) \in Nat
    BY <1>2, StackShape
  <2> QED  BY <1>2, <2>1
<1>4. Left = Ahead(Tail(opened)) \cup {opened[1][i] : i \in 1..n}
  BY <1>2, <1>3, TailAhead
<1>5. ASSUME NEW i \in 1..n PROVE opened[1][i] \notin Mine /\ opened[1][i] \notin TheHour
  <2>1. PICK x : x = opened[1][i]
    OBVIOUS
  <2>2. x.at <= e.at
    BY <1>2, <2>1, WalkShape
  <2>3. x \in Left
    BY <1>4, <2>1
  <2>4. x \in Entry
    BY <1>2, <2>3 DEF Within
  <2>5. x.at \in Nat /\ e.at \in Nat /\ SinceTime \in Nat /\ UntilTime \in Nat
    BY <1>2, <2>4, JournalAssumptions DEF Entry
  <2>6. ~(x.at >= SinceTime) /\ x.at \notin SinceTime..UntilTime
    BY <2>2, <2>5
  <2> QED  BY <2>1, <2>6 DEF Mine, TheHour
<1> QED  BY <1>4, <1>5

\* A unit's line, kept or not.
LEMMA KeepLineStep ==
  ASSUME ReaderInv, NEW e, AtEntry(e), e.at >= SinceTime, question = "lines", KeepLine(e),
         Whole(e), ofFile' \in Nat, place' = place - 1,
         IF Len(found') >= MaxLines THEN EndBackward ELSE UNCHANGED <<stage, opened, scanned, cut>>,
         UNCHANGED <<journal, question, names, reply, unread>>
  PROVE  ReaderInv'
<1>1. ReaderType /\ Walking /\ ~Beyond /\ stage = "entries"
  BY DEF ReaderInv, AtEntry, Walking, Beyond
<1>2. /\ ReaderType' /\ Walking' /\ (cut => cut')
      /\ Left' \subseteq Left \ {e} /\ (Left' = Left \ {e} \/ Beyond')
  <2>1. CASE Len(found') >= MaxLines
    <3>1. EndBackward
      BY <2>1
    <3>2. /\ ReaderType' /\ Walking' /\ Left' = Ahead(Tail(opened)) /\ (cut => cut') /\ Beyond'
      BY <1>1, <2>1, <3>1, EndEffect
    <3>3. Ahead(Tail(opened)) \subseteq Left \ {e}
      BY DEF AtEntry
    <3> QED  BY <3>2, <3>3
  <2>2. CASE ~(Len(found') >= MaxLines)
    BY <1>1, <2>2, OnwardEffect
  <2> QED  BY <2>1, <2>2
<1>3. PICK mine : mine = (e.unit = AskedUnit /\ e.at <= UntilTime /\ e.priority <= 6 /\ ~e.login)
  OBVIOUS
<1>4. UNCHANGED <<counts, refusals>> /\ found' = IF mine /\ e.bytes > 0 THEN Append(found, e) ELSE found
  BY <1>3 DEF KeepLine
<1>5. e \in AllEntries /\ e \in Entry /\ e \in Left
  BY DEF AtEntry
<1>6. e.at \in SinceTime..UntilTime <=> e.at <= UntilTime
  <2>1. e.at \in Nat /\ SinceTime \in Nat /\ UntilTime \in Nat
    BY <1>5, JournalAssumptions DEF Entry
  <2> QED  BY <2>1
<1>7. e \in Mine <=> mine /\ e.bytes > 0
  BY <1>3, <1>5, <1>6 DEF Mine
<1>8. CASE e \in Mine
  <2>1. found' = Append(found, e)
    BY <1>4, <1>7, <1>8
  <2>2. \A x \in Left : x = e \/ x.seq < e.seq
    BY DEF AtEntry
  <2>3. \A x \in Left : x = e \/ x \in Left' \/ x \notin Mine \/ Beyond'
    BY <1>2
  <2> QED  BY <1>1, <1>2, <1>5, <1>8, <2>1, <2>2, <2>3, KeepStep
<1>9. CASE e \notin Mine
  <2>1. found' = found
    BY <1>4, <1>7, <1>9
  <2>2. \A x \in Left : x \in Left' \/ x \notin Mine \/ Beyond'
    BY <1>2, <1>9
  <2>3. Left' \subseteq Left /\ Left' \cap unread = {}
    BY <1>1, <1>2 DEF ReaderInv, Apart
  <2> QED  BY <1>1, <1>2, <1>4, <2>1, <2>2, <2>3, DropStep
<1> QED  BY <1>8, <1>9

LEMMA ScanStep ==
  ASSUME ReaderInv, ScanEntry
  PROVE  ReaderInv'
<1>1. PICK e : e = Head(opened)[place]
  OBVIOUS
<1>2. /\ stage = "entries" /\ place > 0
      /\ UNCHANGED <<journal, question, names, reply, unread>> /\ place' = place - 1
  BY <1>1 DEF ScanEntry
<1>3. AtEntry(e)
  BY <1>1, <1>2, EntryShape
<1>4. ReaderType /\ Walking /\ ~Beyond /\ ofFile \in Nat
  BY <1>2 DEF ReaderInv, ReaderType, Walking, Beyond
<1>5. e \in Entry /\ e \in Left
  BY <1>3 DEF AtEntry
<1>6. CASE ~Whole(e)
  <2>1. UNCHANGED <<stage, opened, ofFile, scanned, found, compressed, counts, refusals, cut>>
    BY <1>1, <1>6 DEF ScanEntry
  <2>2. ReaderType' /\ Walking' /\ Left' = Left \ {e}
    BY <1>2, <1>3, <1>4, <2>1, OnwardEffect
  <2>3. e \notin Mine /\ e \notin TheHour
    BY <1>6 DEF Mine, TheHour, Whole, Torn
  <2>4. Left' \subseteq Left /\ Left' \cap unread = {}
    BY <1>4, <2>2 DEF ReaderInv, Apart
  <2> QED  BY <1>2, <1>4, <2>1, <2>2, <2>3, <2>4, DropStep
<1>7. CASE Whole(e)
  <2>1. ofFile' = ofFile + 1 /\ ofFile' \in Nat
    BY <1>1, <1>4, <1>7 DEF ScanEntry
  <2>2. CASE e.at < SinceTime
    <3>1. EndBackward /\ UNCHANGED <<found, compressed, counts, refusals>>
      BY <1>1, <1>7, <2>2 DEF ScanEntry
    <3>2. ReaderType' /\ Walking' /\ Left' = Ahead(Tail(opened)) /\ (cut => cut')
      BY <1>2, <1>4, <2>1, <3>1, EndEffect
    <3>3. \A x \in Left : x \in Left' \/ (x \notin Mine /\ x \notin TheHour)
      BY <1>3, <2>2, <3>2, TooOld
    <3>4. Left' \subseteq Left /\ Left' \cap unread = {}
      BY <1>3, <1>4, <3>2 DEF AtEntry, ReaderInv, Apart
    <3> QED  BY <1>2, <1>4, <3>1, <3>2, <3>3, <3>4, DropStep
  <2>3. CASE ~(e.at < SinceTime)
    <3>1. e.at >= SinceTime
      <4>1. e.at \in Nat /\ SinceTime \in Nat
        BY <1>5, JournalAssumptions DEF Entry
      <4> QED  BY <2>3, <4>1
    <3>2. CASE question = "lines"
      <4>1. /\ KeepLine(e)
            /\ IF Len(found') >= MaxLines THEN EndBackward ELSE UNCHANGED <<stage, opened, scanned, cut>>
        BY <1>1, <1>7, <2>3, <3>2 DEF ScanEntry
      <4> QED  BY <1>2, <1>3, <1>7, <2>1, <3>1, <3>2, <4>1, KeepLineStep
    <3>3. CASE question = "hour"
      <4>1. CountEntry(e) /\ UNCHANGED <<stage, opened, scanned, cut>>
        BY <1>1, <1>7, <2>3, <3>3 DEF ScanEntry
      <4>2. ReaderType' /\ Left' = Left \ {e}
        BY <1>2, <1>3, <1>4, <2>1, <4>1, OnwardEffect
      <4> QED  BY <1>2, <1>5, <1>7, <3>1, <3>3, <4>1, <4>2, CountStep
    <3> QED  BY <1>4, <3>2, <3>3 DEF ReaderType
  <2> QED  BY <2>2, <2>3
<1> QED  BY <1>6, <1>7

-----------------------------------------------------------------------------
(* JournalReader: the answers.                                             *)

\* A sum over the first so many, and over one less.
LEMMA SumOneMore ==
  ASSUME NEW k \in Nat, k # 0, NEW g \in [1..k -> Nat], NEW h, h = [i \in 1..k - 1 |-> g[i]]
  PROVE  Total(g) = Total(h) + g[k]
<1>1. PICK S : S = 1..k
  OBVIOUS
<1>2. 1..k - 1 = S \ {k} /\ k \in S
  BY <1>1
<1>3. IsFiniteSet(S)
  BY <1>1, FS_Interval
<1>4. h = [x \in S \ {k} |-> g[x]]
  BY <1>2
<1>5. g \in [S -> Nat]
  BY <1>1
<1>6. Total(g) = Total([x \in S \ {k} |-> g[x]]) + g[k]
  BY <1>2, <1>3, <1>5, SumWithout, Zenon
<1> QED  BY <1>4, <1>6

\* The lines of the newest messages, counted: none for no message, and a
\* message's own for one message more.
LEMMA RowsShape ==
  ASSUME NEW S \in SUBSET Entry, found \in Seq(S)
  PROVE  /\ Rows(0) = 0 /\ \A k \in 0..Len(found) : Rows(k) \in Nat
         /\ \A k \in 1..Len(found) : found[k].lines \in Nat /\ found[k].lines # 0
         /\ \A k \in 1..Len(found) : Rows(k) = Rows(k - 1) + found[k].lines
         /\ \A j, k \in 0..Len(found) : j < k => Rows(j) < Rows(k)
<1>1. PICK c \in Nat : c = Len(found)
  BY LenProperties
<1>2. ASSUME NEW i \in 1..c PROVE found[i].lines \in Nat /\ found[i].lines # 0
  <2>1. found[i] \in Entry
    BY <1>1, ElementOfSeq
  <2> QED  BY <2>1 DEF Entry
<1> DEFINE f(k) == [i \in 1..k |-> found[i].lines]
<1>3. \A k : Rows(k) = Total(f(k))
  BY DEF Rows
<1>4. ASSUME NEW k \in 0..c PROVE f(k) \in [1..k -> Nat] /\ IsFiniteSet(1..k)
  <2>1. IsFiniteSet(1..k)
    BY FS_Interval
  <2>2. \A i \in 1..k : i \in 1..c
    BY <1>4
  <2> QED  BY <1>2, <2>1, <2>2
<1>5. ASSUME NEW k \in 1..c
      PROVE  Rows(k) = Rows(k - 1) + found[k].lines
  <2>1. k - 1 \in 0..c /\ k \in 0..c /\ 1..k = (1..k - 1) \cup {k} /\ k \notin 1..k - 1
    OBVIOUS
  <2>2. PICK a, b : a = f(k - 1) /\ b = f(k)
    OBVIOUS
  <2>3. b \in [1..k -> Nat] /\ a = [i \in 1..k - 1 |-> b[i]] /\ k \in Nat /\ k # 0
    BY <1>4, <2>1, <2>2
  <2>4. b[k] = found[k].lines
    BY <2>1, <2>2
  <2> HIDE DEF f
  <2>5. Total(b) = Total(a) + b[k]
    BY <2>3, SumOneMore
  <2> QED  BY <1>3, <2>2, <2>4, <2>5
<1>6. Rows(0) = 0
  <2>1. Bytes(f(0)) = {}
    BY DEF Bytes
  <2> QED  BY <1>3, <2>1, FS_EmptySet DEF Total
<1>7. ASSUME NEW k \in 0..c PROVE Rows(k) \in Nat
  <2>1. PICK T, a : T = 1..k /\ a = f(k) /\ a \in [T -> Nat] /\ IsFiniteSet(T)
    BY <1>4
  <2> HIDE DEF f
  <2>2. Total(a) \in Nat
    BY <2>1, SumFinite
  <2> QED  BY <1>3, <2>1, <2>2
<1>8. ASSUME NEW j \in 0..c, NEW k \in 0..c, j <= k PROVE Rows(j) <= Rows(k)
  <2>1. PICK T, a, U, b : T = 1..j /\ a = f(j) /\ U = 1..k /\ b = f(k)
    OBVIOUS
  <2>2. T \subseteq U /\ \A i \in T : a[i] = b[i]
    BY <1>8, <2>1
  <2>3. a \in [T -> Nat] /\ b \in [U -> Nat] /\ IsFiniteSet(U)
    BY <1>4, <2>1
  <2>4. Bytes(a) \subseteq Bytes(b)
    BY <2>2, <2>3 DEF Bytes
  <2>5. IsFiniteSet(Bytes(b))
    BY <2>3, SumFinite
  <2>6. Cardinality(Bytes(a)) <= Cardinality(Bytes(b))
    BY <2>4, <2>5, FS_Subset
  <2> HIDE DEF f
  <2> QED  BY <1>3, <2>1, <2>6 DEF Total
<1>9. ASSUME NEW j \in 0..c, NEW k \in 0..c, j < k PROVE Rows(j) < Rows(k)
  <2>1. k \in 1..c /\ k - 1 \in 0..c /\ j <= k - 1
    BY <1>9
  <2>2. PICK p \in Nat, q \in Nat : p = Rows(j) /\ q = Rows(k - 1)
    BY <1>7, <2>1
  <2>3. p <= q
    BY <1>8, <2>1, <2>2
  <2>4. Rows(k) = q + found[k].lines /\ found[k].lines \in Nat /\ found[k].lines # 0
    BY <1>2, <1>5, <2>1, <2>2
  <2> QED  BY <2>2, <2>3, <2>4
<1> QED  BY <1>1, <1>2, <1>5, <1>6, <1>7, <1>9

\* Every line is of the message whose lines it is counted among.
LEMMA RowShape ==
  ASSUME NEW S \in SUBSET Entry, found \in Seq(S), NEW n \in 1..Rows(Len(found))
  PROVE  \E k \in 1..Len(found) : Row(n) = found[k] /\ Rows(k - 1) < n /\ n <= Rows(k)
<1>1. PICK c \in Nat : c = Len(found) /\ DOMAIN found = 1..c
  BY LenProperties
<1>2. Rows(0) = 0 /\ \A k \in 0..c : Rows(k) \in Nat
  BY <1>1, RowsShape
<1>3. PICK K : K = {k \in DOMAIN found : n <= Rows(k)}
  OBVIOUS
<1>4. K \in SUBSET Nat /\ IsFiniteSet(K) /\ K # {}
  <2>1. K \subseteq 1..c
    BY <1>1, <1>3
  <2>2. IsFiniteSet(1..c)
    BY FS_Interval
  <2>3. IsFiniteSet(K)
    BY <2>1, <2>2, FS_Subset
  <2>4. c # 0 /\ c \in 1..c
    <3>1. n \in 1..Rows(c)
      BY <1>1
    <3>2. c # 0
      BY <1>2, <3>1
    <3> QED  BY <3>2
  <2>5. n <= Rows(c)
    <3>1. Rows(c) \in Nat
      BY <1>2, <2>4
    <3> QED  BY <1>1, <3>1
  <2>6. c \in K
    BY <1>1, <1>3, <2>4, <2>5
  <2> QED  BY <2>1, <2>3, <2>6
<1>5. PICK k \in K : \A u \in K : k <= u
  BY <1>4, LeastOf
<1>6. Min(K) = k
  <2>1. Min(K) \in K /\ \A u \in K : Min(K) <= u
    BY <1>5 DEF Min
  <2>2. Min(K) \in Nat /\ k \in Nat /\ Min(K) <= k /\ k <= Min(K)
    BY <1>4, <1>5, <2>1
  <2> QED  BY <2>2
<1>7. k \in 1..c /\ n <= Rows(k)
  BY <1>1, <1>3
<1>8. Rows(k - 1) < n
  <2>1. k - 1 \in 0..c /\ n \in Nat /\ n # 0
    BY <1>1, <1>2, <1>7
  <2>2. k - 1 \notin K
    BY <1>5, <1>7
  <2>3. CASE k - 1 = 0
    BY <1>2, <2>1, <2>3
  <2>4. CASE k - 1 # 0
    <3>1. k - 1 \in 1..c /\ Rows(k - 1) \in Nat
      <4>1. k - 1 \in 1..c
        BY <1>7, <2>4
      <4>2. Rows(k - 1) \in Nat
        BY <1>2, <2>1, Zenon
      <4> QED  BY <4>1, <4>2
    <3>2. ~(n <= Rows(k - 1))
      BY <1>1, <1>3, <2>2, <3>1
    <3> QED  BY <2>1, <3>1, <3>2
  <2> QED  BY <2>3, <2>4
<1>9. Row(n) = found[k]
  BY <1>3, <1>6 DEF Row
<1> QED  BY <1>1, <1>7, <1>8, <1>9

\* No lines at all would fit, so some number of the newest is the most that do.
LEMMA FittingShape ==
  ASSUME NEW S \in SUBSET Entry, found \in Seq(S)
  PROVE  \E m \in 0..Rows(Len(found)) : Fitting = [i \in 1..m |-> Row(i)]
<1> DEFINE most == Min({Rows(Len(found)), 2 * MaxLines})
           total(n) == Total([i \in 1..n |-> Clipped(Row(i))])
           Fit == {n \in 0..most : total(n) <= MaxSnippetBytes}
<1>1. PICK c \in Nat : c = Rows(Len(found))
  BY RowsShape, LenProperties
<1>2. PICK b \in Nat : b = most /\ b <= c
  <2>1. PICK d \in Nat : d = 2 * MaxLines
    BY JournalAssumptions
  <2>2. \E x \in {c, d} : \A y \in {c, d} : x =< y
    BY <2>1
  <2>3. Min({c, d}) \in {c, d} /\ \A y \in {c, d} : Min({c, d}) =< y
    BY <2>2 DEF Min
  <2>4. Min({c, d}) \in Nat /\ Min({c, d}) <= c
    BY <2>3
  <2> QED  BY <1>1, <2>1, <2>4
<1>3. Fit \subseteq 0..b
  BY <1>2
<1>4. IsFiniteSet(Fit) /\ Fit \subseteq Nat
  <2>1. IsFiniteSet(0..b)
    BY FS_Interval
  <2> HIDE DEF Fit
  <2>2. IsFiniteSet(Fit)
    BY <1>3, <2>1, FS_Subset
  <2> QED  BY <1>3, <2>2
<1>5. total(0) = 0
  <2>1. Bytes([i \in 1..0 |-> Clipped(Row(i))]) = {}
    BY DEF Bytes
  <2> QED  BY <2>1, FS_EmptySet DEF Total
<1>6. 0 \in Fit
  <2>1. MaxSnippetBytes \in Nat
    BY JournalAssumptions
  <2>2. 0 \in 0..most
    BY <1>2
  <2> HIDE DEF total, most
  <2> QED  BY <1>5, <2>1, <2>2
<1>7. Fitting = [i \in 1..Max(Fit) |-> Row(i)]
  BY DEF Fitting
<1> HIDE DEF Fit, total
<1>8. PICK m \in Fit : \A u \in Fit : u <= m
  BY <1>4, <1>6, GreatestOf
<1>9. \A u \in Fit : m >= u
  BY <1>4, <1>8
<1>10. Max(Fit) \in Fit
  BY <1>9 DEF Max
<1>11. Max(Fit) \in 0..c
  <2> HIDE DEF most
  <2>1. PICK x \in 0..b : x = Max(Fit)
    BY <1>3, <1>10
  <2>2. x \in 0..c
    BY <1>2
  <2> QED  BY <2>1, <2>2
<1> QED  BY <1>1, <1>7, <1>11

\* What is counted in turn: the first m of R[c], of which those from R[k - 1] on
\* to R[k] are k's.
CountedOut(c, R, m, K) ==
    /\ c \in Nat /\ R \in [0..c -> Nat] /\ R[0] = 0 /\ \A j, k \in 0..c : j < k => R[j] < R[k]
    /\ m \in Nat /\ K \in [1..m -> 1..c] /\ \A n \in 1..m : R[K[n] - 1] < n /\ n <= R[K[n]]
InTurn(c, R, m, K) ==
    /\ \A n \in 1..m, k \in 1..c : K[n] = k <=> R[k - 1] < n /\ n <= R[k]
    /\ \A a, b \in 1..m : b < a => K[b] <= K[a]
    /\ \A b \in 1..m, i \in 1..c : i < K[b] => R[i] < b /\ R[i] \in 1..m /\ K[R[i]] = i

LEMMA PlacesShape ==
  ASSUME NEW c, NEW R, NEW m, NEW K, CountedOut(c, R, m, K)
  PROVE  InTurn(c, R, m, K)
<1> USE DEF CountedOut
<1>1. \A k \in 1..c : k - 1 \in 0..c /\ k \in 0..c /\ R[k - 1] \in Nat /\ R[k] \in Nat
  <2> SUFFICES ASSUME NEW k \in 1..c
               PROVE  k - 1 \in 0..c /\ k \in 0..c /\ R[k - 1] \in Nat /\ R[k] \in Nat
    OBVIOUS
  <2>1. k - 1 \in 0..c /\ k \in 0..c
    OBVIOUS
  <2> QED  BY <2>1
<1>2. ASSUME NEW j \in 1..c, NEW k \in 1..c, j < k PROVE R[j] <= R[k - 1]
  <2>1. PICK h \in 0..c : h = k - 1 /\ (j = h \/ j < h) /\ j \in 0..c /\ R[h] \in Nat
    <3>1. k - 1 \in 0..c /\ j \in 0..c /\ (j = k - 1 \/ j < k - 1)
      BY <1>2
    <3> QED  BY <1>1, <3>1
  <2>2. CASE j = h
    BY <2>1, <2>2
  <2>3. CASE j < h
    <3>1. R[j] < R[h] /\ R[j] \in Nat
      BY <2>1, <2>3
    <3> QED  BY <2>1, <3>1
  <2> QED  BY <2>1, <2>2, <2>3
<1>3. ASSUME NEW n \in 1..m, NEW k \in 1..c, R[k - 1] < n, n <= R[k] PROVE K[n] = k
  <2>1. PICK h \in 1..c : h = K[n] /\ R[h - 1] < n /\ n <= R[h]
    OBVIOUS
  <2>2. ~(h < k)
    <3> SUFFICES ASSUME h < k PROVE FALSE
      OBVIOUS
    <3>1. R[h] <= R[k - 1] /\ R[h] \in Nat /\ R[k - 1] \in Nat
      BY <1>1, <1>2
    <3> QED  BY <1>3, <2>1, <3>1
  <2>3. ~(k < h)
    <3> SUFFICES ASSUME k < h PROVE FALSE
      OBVIOUS
    <3>1. R[k] <= R[h - 1] /\ R[k] \in Nat /\ R[h - 1] \in Nat
      BY <1>1, <1>2
    <3> QED  BY <1>3, <2>1, <3>1
  <2> QED  BY <2>1, <2>2, <2>3
<1>4. ASSUME NEW a \in 1..m, NEW b \in 1..m, b < a PROVE K[b] <= K[a]
  <2>1. PICK g \in 1..c, h \in 1..c : g = K[a] /\ h = K[b] /\ a <= R[g] /\ R[h - 1] < b
    OBVIOUS
  <2>2. ~(g < h)
    <3> SUFFICES ASSUME g < h PROVE FALSE
      OBVIOUS
    <3>1. R[g] <= R[h - 1] /\ R[g] \in Nat /\ R[h - 1] \in Nat
      BY <1>1, <1>2
    <3> QED  BY <1>4, <2>1, <3>1
  <2> QED  BY <2>1, <2>2
<1>5. ASSUME NEW b \in 1..m, NEW i \in 1..c, i < K[b]
      PROVE  R[i] < b /\ R[i] \in 1..m /\ K[R[i]] = i
  <2>1. PICK h \in 1..c : h = K[b] /\ R[h - 1] < b
    OBVIOUS
  <2>2. R[i] <= R[h - 1] /\ R[i] \in Nat /\ R[h - 1] \in Nat
    BY <1>1, <1>2, <1>5, <2>1
  <2>3. R[i - 1] < R[i] /\ R[i - 1] \in Nat
    <3>1. i - 1 \in 0..c /\ i \in 0..c /\ i - 1 < i
      OBVIOUS
    <3> QED  BY <3>1
  <2>4. R[i] < b /\ R[i] \in 1..m
    <3>1. PICK x \in Nat, y \in Nat, z \in Nat : x = R[i] /\ y = R[h - 1] /\ z = R[i - 1]
      BY <2>2, <2>3
    <3>2. x <= y /\ y < b /\ z < x /\ b <= m
      BY <2>1, <2>2, <2>3, <3>1
    <3>3. x < b /\ x \in 1..m
      BY <3>2
    <3> QED  BY <3>1, <3>3
  <2>5. R[i] <= R[i]
    BY <2>2
  <2> QED  BY <1>3, <2>3, <2>4, <2>5
<1>6. ASSUME NEW n \in 1..m, NEW k \in 1..c
      PROVE  K[n] = k <=> R[k - 1] < n /\ n <= R[k]
  BY <1>3
<1> QED  BY <1>4, <1>5, <1>6 DEF InTurn

\* The lines that are told: line i is of the message at K[i] of those found.
Places(m, K) ==
    /\ m \in Nat /\ K \in [1..m -> 1..Len(found)]
    /\ \A n \in 1..m : Row(n) = found[K[n]]
    /\ \A n \in 1..m, k \in 1..Len(found) : K[n] = k <=> Rows(k - 1) < n /\ n <= Rows(k)
    /\ \A a, b \in 1..m : b < a => K[b] <= K[a]
    /\ \A b \in 1..m, i \in 1..Len(found) :
         i < K[b] => Rows(i) < b /\ Rows(i) \in 1..m /\ K[Rows(i)] = i

LEMMA PlacesKnown ==
  ASSUME NEW S \in SUBSET Entry, found \in Seq(S), NEW m \in 0..Rows(Len(found))
  PROVE  \E K : Places(m, K)
<1>1. PICK c \in Nat : c = Len(found)
  BY LenProperties
<1>2. /\ Rows(0) = 0 /\ \A k \in 0..c : Rows(k) \in Nat
      /\ \A j, k \in 0..c : j < k => Rows(j) < Rows(k)
  BY <1>1, RowsShape
<1>3. PICK d \in Nat : d = Rows(c)
  BY <1>2
<1>4. m \in 0..d
  BY <1>1, <1>3
<1>5. \A n \in 1..m : \E k \in 1..c : Row(n) = found[k] /\ Rows(k - 1) < n /\ n <= Rows(k)
  <2>1. 1..m \subseteq 1..d
    BY <1>4
  <2> QED  BY <1>1, <1>3, <2>1, RowShape
<1>6. PICK K : K = [n \in 1..m |->
                      CHOOSE k \in 1..c : Row(n) = found[k] /\ Rows(k - 1) < n /\ n <= Rows(k)]
  OBVIOUS
<1>7. \A n \in 1..m : /\ K[n] \in 1..c /\ Row(n) = found[K[n]]
                      /\ Rows(K[n] - 1) < n /\ n <= Rows(K[n])
  BY <1>5, <1>6
<1>8. K \in [1..m -> 1..c]
  BY <1>6, <1>7
<1>9. PICK R : R = [k \in 0..c |-> Rows(k)]
  OBVIOUS
<1>10. R \in [0..c -> Nat] /\ R[0] = 0 /\ \A j, k \in 0..c : j < k => R[j] < R[k]
  BY <1>2, <1>9
<1>11. \A k \in 1..c : k - 1 \in 0..c /\ k \in 0..c /\ R[k - 1] = Rows(k - 1) /\ R[k] = Rows(k)
  BY <1>9
<1>12. \A n \in 1..m : R[K[n] - 1] < n /\ n <= R[K[n]]
  BY <1>7, <1>11
<1>13. InTurn(c, R, m, K)
  <2>1. m \in Nat /\ c \in Nat
    BY <1>4
  <2>2. CountedOut(c, R, m, K)
    BY <1>8, <1>10, <1>12, <2>1 DEF CountedOut
  <2> QED  BY <2>2, PlacesShape
<1>14. m \in Nat
  BY <1>4
<1>15. ASSUME NEW n \in 1..m, NEW k \in 1..c
       PROVE  K[n] = k <=> Rows(k - 1) < n /\ n <= Rows(k)
  <2>1. K[n] = k <=> R[k - 1] < n /\ n <= R[k]
    BY <1>13 DEF InTurn
  <2>2. R[k - 1] = Rows(k - 1) /\ R[k] = Rows(k)
    BY <1>11
  <2> QED  BY <2>1, <2>2, Zenon
<1>16. ASSUME NEW b \in 1..m, NEW i \in 1..c, i < K[b]
       PROVE  Rows(i) < b /\ Rows(i) \in 1..m /\ K[Rows(i)] = i
  <2>1. R[i] < b /\ R[i] \in 1..m /\ K[R[i]] = i
    BY <1>13, <1>16 DEF InTurn
  <2>2. R[i] = Rows(i)
    BY <1>11
  <2> QED  BY <2>1, <2>2, Zenon
<1>17. \A a, b \in 1..m : b < a => K[b] <= K[a]
  BY <1>13 DEF InTurn
<1>18. \A n \in 1..m : Row(n) = found[K[n]]
  BY <1>7
<1> QED  BY <1>1, <1>8, <1>14, <1>15, <1>16, <1>17, <1>18, Zenon DEF Places

\* The lines are told oldest first.
LEMMA ReversedShape ==
  ASSUME NEW m \in Nat, NEW t, t = [i \in 1..m |-> Row(i)], NEW r, r = Reverse(t)
  PROVE  /\ DOMAIN r = 1..m
         /\ \A i \in 1..m : m - i + 1 \in 1..m /\ r[i] = Row(m - i + 1)
<1>1. Len(t) = m
  BY LenProperties
<1>2. r = [i \in 1..m |-> t[(m - i) + 1]]
  BY <1>1 DEF Reverse
<1>3. \A i \in 1..m : m - i + 1 \in 1..m
  OBVIOUS
<1> QED  BY <1>2, <1>3

NewestFirst == \A i, j \in 1..Len(found) : i < j => found[j].seq < found[i].seq
RowsOf(r, m) ==
    DOMAIN r = 1..m /\ \A i \in 1..m : m - i + 1 \in 1..m /\ r[i] = Row(m - i + 1)

\* A message that is not the oldest of those told is told whole.
LEMMA ToldWhole ==
  ASSUME NEW S \in SUBSET Entry, found \in Seq(S), NewestFirst,
         NEW m, NEW K, Places(m, K), NEW b \in 1..m, K[b] < K[m],
         NEW r, RowsOf(r, m)
  PROVE  Cardinality({i \in DOMAIN r : r[i] = Row(b)}) = Row(b).lines
<1>0. /\ \A i, j \in 1..Len(found) : i < j => found[j].seq < found[i].seq
      /\ DOMAIN r = 1..m /\ \A i \in 1..m : m - i + 1 \in 1..m /\ r[i] = Row(m - i + 1)
  BY DEF NewestFirst, RowsOf
<1>1. PICK c \in Nat : c = Len(found)
  BY LenProperties
<1>2. m \in Nat /\ m \in 1..m /\ K \in [1..m -> 1..c]
  BY <1>1 DEF Places
<1>3. PICK k \in 1..c : k = K[b] /\ Row(b) = found[k]
  BY <1>1, <1>2 DEF Places
<1>4. \A i \in 1..c : found[i].seq \in Nat
  <2>1. \A i \in 1..c : found[i] \in Entry
    BY <1>1, ElementOfSeq
  <2> QED  BY <2>1 DEF Entry
<1>5. \A i, j \in 1..c : found[i] = found[j] => i = j
  <2> SUFFICES ASSUME NEW i \in 1..c, NEW j \in 1..c, found[i] = found[j], i # j PROVE FALSE
    OBVIOUS
  <2>1. i < j \/ j < i
    OBVIOUS
  <2>2. found[j].seq < found[i].seq \/ found[i].seq < found[j].seq
    BY <1>0, <1>1, <2>1
  <2>3. found[i].seq = found[j].seq /\ found[i].seq \in Nat
    BY <1>4
  <2> QED  BY <2>2, <2>3
<1>6. PICK p \in Nat, q \in Nat : p = Rows(k - 1) /\ q = Rows(k)
  <2>1. k - 1 \in 0..c /\ k \in 0..c
    OBVIOUS
  <2> QED  BY <1>1, <2>1, RowsShape
<1>7. q = p + found[k].lines /\ found[k].lines \in Nat /\ found[k].lines # 0
  BY <1>1, <1>6, RowsShape
<1>8. q < m
  BY <1>1, <1>2, <1>3, <1>6 DEF Places
<1>9. \A n \in 1..m : Row(n) = Row(b) <=> p < n /\ n <= q
  <2>1. \A n \in 1..m : Row(n) = found[K[n]] /\ K[n] \in 1..c
    BY <1>1, <1>2 DEF Places
  <2>2. \A n \in 1..m : K[n] = k <=> p < n /\ n <= q
    BY <1>1, <1>6 DEF Places
  <2> QED  BY <1>3, <1>5, <2>1, <2>2
<1>10. {i \in DOMAIN r : r[i] = Row(b)} = m - q + 1..m - p
  <2>1. ASSUME NEW i \in 1..m PROVE r[i] = Row(b) <=> i \in m - q + 1..m - p
    <3>1. m - i + 1 \in 1..m /\ r[i] = Row(m - i + 1)
      BY <1>0
    <3>2. r[i] = Row(b) <=> p < m - i + 1 /\ m - i + 1 <= q
      BY <1>9, <3>1
    <3>3. p < m - i + 1 /\ m - i + 1 <= q <=> i \in m - q + 1..m - p
      <4>1. PICK x \in Int : x = i
        OBVIOUS
      <4>2. p < m - x + 1 /\ m - x + 1 <= q <=> m - q + 1 <= x /\ x <= m - p
        BY <1>2
      <4>3. x \in m - q + 1..m - p <=> m - q + 1 <= x /\ x <= m - p
        BY <1>2
      <4> QED  BY <4>1, <4>2, <4>3
    <3> QED  BY <3>2, <3>3
  <2>2. m - q + 1..m - p \subseteq 1..m
    BY <1>2, <1>8
  <2> QED  BY <1>0, <2>1, <2>2
<1>11. Cardinality(m - q + 1..m - p) = (m - p) - (m - q + 1) + 1
  <2>1. p < q
    BY <1>7
  <2>2. PICK x \in Int, y \in Int : x = m - q + 1 /\ y = m - p
    BY <1>2
  <2>3. ~(x > y)
    BY <1>2, <2>1, <2>2
  <2>4. Cardinality(x..y) = y - x + 1
    BY <2>3, FS_Interval
  <2> QED  BY <2>2, <2>4
<1>12. PICK d \in Nat : d = found[k].lines /\ q = p + d
  BY <1>7
<1>13. (m - p) - (m - q + 1) + 1 = d
  <2>1. PICK x \in Int, y \in Int : x = m /\ y = p
    BY <1>2
  <2>2. (x - y) - (x - (y + d) + 1) + 1 = d
    OBVIOUS
  <2> QED  BY <1>12, <2>1, <2>2
<1>14. Row(b).lines = d
  BY <1>3, <1>12
<1> QED  BY <1>10, <1>11, <1>13, <1>14, Zenon

\* What is kept of the lines is the latest of them.
LEMMA LinesTold ==
  ASSUME ReaderInv, Answered, question = "lines"
  PROVE  LinesNewest'
<1>1. /\ stage = "files" /\ (opened = <<>> \/ Enough)
      /\ reply'.lines = Reverse(Fitting)
      /\ UNCHANGED <<journal, question, unread>>
  BY DEF Answered
<1>2. Mine' = Mine /\ Mine \in SUBSET Entry
  BY <1>1, SameJournal, EntriesKnown DEF ReaderInv
<1>3. /\ found \in Seq(Mine)
      /\ \A i, j \in 1..Len(found) : i < j => found[j].seq < found[i].seq
      /\ \A e \in Left : \A i \in 1..Len(found) : e.seq < found[i].seq
      /\ \A e \in Mine \ unread :
           \/ e \in Left
           \/ \E i \in 1..Len(found) : found[i] = e
           \/ \A i \in 1..Len(found) : e.seq < found[i].seq
  BY <1>1 DEF ReaderInv, NewestKept, Walking
<1>4. PICK m \in 0..Rows(Len(found)) : Fitting = [i \in 1..m |-> Row(i)]
  BY <1>2, <1>3, FittingShape
<1>5. PICK K : Places(m, K)
  BY <1>2, <1>3, PlacesKnown
<1>6. PICK r : r = Reverse(Fitting)
  OBVIOUS
<1>7. PICK c \in Nat : c = Len(found)
  BY <1>3, LenProperties
<1>8. m \in Nat /\ K \in [1..m -> 1..c] /\ \A n \in 1..m : Row(n) = found[K[n]]
  BY <1>5, <1>7 DEF Places
<1>9. DOMAIN r = 1..m /\ \A i \in 1..m : m - i + 1 \in 1..m /\ r[i] = Row(m - i + 1)
  BY <1>4, <1>6, <1>8, ReversedShape
<1>10. \A i \in 1..c : found[i] \in Mine /\ found[i].seq \in Nat
  <2>1. \A i \in 1..c : found[i] \in Mine
    BY <1>3, <1>7, ElementOfSeq
  <2> QED  BY <1>2, <2>1 DEF Entry
<1>11. \A l \in ToSet(r) : \E b \in 1..m : l = Row(b)
  BY <1>9 DEF ToSet
<1>12. \A b \in 1..m : Row(b) \in ToSet(r)
  <2> SUFFICES ASSUME NEW b \in 1..m PROVE Row(b) \in ToSet(r)
    OBVIOUS
  <2>1. m - b + 1 \in 1..m /\ m - (m - b + 1) + 1 = b
    BY <1>8
  <2>2. r[m - b + 1] = Row(b)
    BY <1>9, <2>1
  <2> QED  BY <1>9, <2>1, <2>2 DEF ToSet
<1>13. ToSet(r) \subseteq Mine
  BY <1>8, <1>10, <1>11
<1>14. ASSUME NEW i \in DOMAIN r, NEW j \in DOMAIN r, i < j
       PROVE  r[i].seq <= r[j].seq
  <2>1. PICK a \in 1..m, b \in 1..m : a = m - i + 1 /\ b = m - j + 1
    BY <1>9
  <2>2. b < a
    BY <1>8, <1>9, <1>14, <2>1
  <2>3. PICK g \in 1..c, h \in 1..c : g = K[a] /\ h = K[b]
    BY <1>8
  <2>4. h <= g
    BY <1>5, <2>2, <2>3 DEF Places
  <2>5. r[i] = found[g] /\ r[j] = found[h]
    BY <1>8, <1>9, <2>1, <2>3
  <2>6. CASE h = g
    BY <1>10, <2>5, <2>6
  <2>7. CASE h < g
    BY <1>3, <1>7, <1>10, <2>5, <2>7
  <2> QED  BY <2>4, <2>6, <2>7
<1>15. ASSUME NEW e \in Mine \ (ToSet(r) \cup unread), NEW l \in ToSet(r)
       PROVE  e.seq < l.seq
  <2>1. PICK b \in 1..m, k \in 1..c : l = found[k] /\ k = K[b] /\ l = Row(b)
    BY <1>8, <1>11
  <2>2. CASE \E i \in 1..c : found[i] = e
    <3>1. PICK i \in 1..c : found[i] = e
      BY <2>2
    <3>2. i # k
      BY <1>15, <2>1, <3>1
    <3>3. ~(i < k)
      <4> SUFFICES ASSUME i < k PROVE FALSE
        OBVIOUS
      <4>1. Rows(i) \in 1..m /\ K[Rows(i)] = i
        BY <1>5, <1>7, <2>1 DEF Places
      <4>2. Row(Rows(i)) = e
        BY <1>8, <3>1, <4>1
      <4> QED  BY <1>12, <1>15, <4>1, <4>2
    <3>4. k < i
      BY <3>2, <3>3
    <3> QED  BY <1>3, <1>7, <2>1, <3>1, <3>4
  <2>3. CASE ~\E i \in 1..c : found[i] = e
    BY <1>3, <1>7, <1>15, <2>1, <2>3
  <2> QED  BY <2>2, <2>3
<1>16. ASSUME NEW e \in ToSet(r), e # r[1]
       PROVE  Cardinality({i \in DOMAIN r : r[i] = e}) = e.lines
  <2>1. PICK b \in 1..m : e = Row(b)
    BY <1>11
  <2>2. m \in 1..m /\ 1 \in 1..m /\ m - 1 + 1 = m
    BY <1>8
  <2>3. r[1] = Row(m)
    BY <1>9, <2>2
  <2>4. b # m /\ b < m
    BY <1>8, <1>16, <2>1, <2>3
  <2>5. PICK g \in 1..c, h \in 1..c : g = K[m] /\ h = K[b]
    BY <1>8, <2>2
  <2>6. h <= g /\ h # g
    <3>1. h <= g
      BY <1>5, <2>2, <2>4, <2>5 DEF Places
    <3>2. h # g
      BY <1>8, <1>16, <2>1, <2>2, <2>3, <2>5
    <3> QED  BY <3>1, <3>2
  <2>7. K[b] < K[m]
    BY <2>5, <2>6
  <2>8. Cardinality({i \in DOMAIN r : r[i] = Row(b)}) = Row(b).lines
    <3>1. PICK S : S = Mine
      OBVIOUS
    <3>2. S \in SUBSET Entry /\ found \in Seq(S)
      BY <1>2, <1>3, <3>1
    <3>3. NewestFirst
      BY <1>3 DEF NewestFirst
    <3>4. RowsOf(r, m)
      BY <1>9 DEF RowsOf
    <3> QED  BY ONLY <1>5, <2>7, <3>2, <3>3, <3>4, ToldWhole
  <2> QED  BY <2>1, <2>8
<1>17. reply'.lines = r /\ unread' = unread
  BY <1>1, <1>6
<1>18. Mine' = {e \in AllEntries' : /\ e.unit = AskedUnit /\ e.at \in SinceTime..UntilTime
                                    /\ e.priority <= 6 /\ ~e.login /\ e.bytes > 0}
  BY DEF Mine
<1> QED  BY <1>1, <1>2, <1>13, <1>14, <1>15, <1>16, <1>17, <1>18 DEF LinesNewest

\* Errors first, then warnings, then names: a total order of the units.
Louder(E, W, S) ==
    {p \in S \X S : \/ E[p[1]] > E[p[2]]
                    \/ /\ E[p[1]] = E[p[2]]
                       /\ \/ W[p[1]] > W[p[2]]
                          \/ W[p[1]] = W[p[2]] /\ p[1] <= p[2]}

LEMMA LouderOrdered ==
  ASSUME NEW S \in SUBSET Nat, NEW E \in [S -> Nat], NEW W \in [S -> Nat]
  PROVE  Orders(Louder(E, W, S), S)
<1>1. PICK R : R = Louder(E, W, S)
  OBVIOUS
<1> DEFINE louder(p, q) == \/ E[p] > E[q]
                           \/ E[p] = E[q] /\ (W[p] > W[q] \/ (W[p] = W[q] /\ p <= q))
<1>2. ASSUME NEW p \in S, NEW q \in S PROVE <<p, q>> \in R <=> louder(p, q)
  BY <1>1 DEF Louder
<1>3. \A p \in S : p \in Nat /\ E[p] \in Nat /\ W[p] \in Nat
  OBVIOUS
<1>4. \A p \in S : <<p, p>> \in R
  BY <1>2, <1>3
<1>5. \A p, q \in S : <<p, q>> \in R \/ <<q, p>> \in R
  <2> SUFFICES ASSUME NEW p \in S, NEW q \in S PROVE <<p, q>> \in R \/ <<q, p>> \in R
    OBVIOUS
  <2>1. louder(p, q) \/ louder(q, p)
    BY <1>3
  <2> HIDE DEF louder
  <2> QED  BY <1>2, <2>1
<1>6. \A p, q \in S : <<p, q>> \in R /\ <<q, p>> \in R => p = q
  <2> SUFFICES ASSUME NEW p \in S, NEW q \in S, louder(p, q), louder(q, p) PROVE p = q
    BY <1>2
  <2> QED  BY <1>3
<1>7. \A p, q, r \in S : <<p, q>> \in R /\ <<q, r>> \in R => <<p, r>> \in R
  <2> SUFFICES ASSUME NEW p \in S, NEW q \in S, NEW r \in S, louder(p, q), louder(q, r)
               PROVE  louder(p, r)
    BY <1>2
  <2> QED  BY <1>3
<1> QED  BY <1>1, <1>4, <1>5, <1>6, <1>7 DEF Orders

\* The units told are units that were met, as many as fit.
LEMMA NoisiestShape ==
  ASSUME NEW S \in SUBSET Entry, CountsOf(S)
  PROVE  \E k \in Nat : /\ DOMAIN Noisiest = 1..k
                        /\ \A i \in 1..k : Noisiest[i] \in DOMAIN counts
<1>1. PICK met : met = DOMAIN counts
  OBVIOUS
<1>2. /\ IsFiniteSet(S) /\ IsFiniteSet(met)
      /\ met = {e.unit : e \in {x \in S : Counts(x)}}
      /\ \A u \in met : counts[u] = CountOf(S, u)
  BY <1>1 DEF CountsOf
<1>3. met \in SUBSET Nat
  BY <1>2 DEF Entry
<1>4. \A u \in met : counts[u].errors \in Nat /\ counts[u].warnings \in Nat
  <2> SUFFICES ASSUME NEW u \in met
               PROVE  counts[u].errors \in Nat /\ counts[u].warnings \in Nat
    OBVIOUS
  <2>1. PICK A, B : /\ A = {e \in S : e.unit = u /\ e.priority \in 0..3}
                    /\ B = {e \in S : e.unit = u /\ e.priority = 4}
    OBVIOUS
  <2>2. A \subseteq S /\ B \subseteq S
    BY <2>1
  <2>3. Cardinality(A) \in Nat /\ Cardinality(B) \in Nat
    BY <1>2, <2>2, FS_Subset, FS_CardinalityType
  <2>4. counts[u] = [errors |-> Cardinality(A), warnings |-> Cardinality(B)]
    BY <1>2, <2>1 DEF CountOf
  <2> QED  BY <2>3, <2>4
<1>5. PICK E \in [met -> Nat], W \in [met -> Nat] :
        \A u \in met : E[u] = counts[u].errors /\ W[u] = counts[u].warnings
  <2>1. PICK E, W : E = [u \in met |-> counts[u].errors] /\ W = [u \in met |-> counts[u].warnings]
    OBVIOUS
  <2>2. E \in [met -> Nat] /\ W \in [met -> Nat]
    BY <1>4, <2>1
  <2>3. \A u \in met : E[u] = counts[u].errors /\ W[u] = counts[u].warnings
    BY <2>1
  <2> QED  BY <2>2, <2>3
<1>6. PICK R : R = Louder(E, W, met)
  OBVIOUS
<1>7. Orders(R, met)
  BY <1>3, <1>6, LouderOrdered, Zenon
<1>8. PICK c \in Nat : c = Cardinality(met)
  BY <1>2, FS_CardinalityType
<1>9. PICK k \in Nat : k = Min({Cardinality(met), MaxUnits}) /\ k <= c
  <2>1. PICK b \in Nat : b = MaxUnits
    BY JournalAssumptions
  <2>2. \E x \in {c, b} : \A y \in {c, b} : x =< y
    BY <2>1
  <2>3. Min({c, b}) \in {c, b} /\ \A y \in {c, b} : Min({c, b}) =< y
    BY <2>2 DEF Min
  <2>4. Min({c, b}) \in Nat /\ Min({c, b}) <= c
    BY <2>3
  <2> QED  BY <1>8, <2>1, <2>4
<1> DEFINE Up(v) == {u \in met : \/ counts[u].errors > counts[v].errors
                                \/ /\ counts[u].errors = counts[v].errors
                                   /\ \/ counts[u].warnings > counts[v].warnings
                                      \/ counts[u].warnings = counts[v].warnings /\ u <= v}
           C(i) == CHOOSE v \in met : Cardinality(Up(v)) = i
           D(i) == CHOOSE v \in met : Rank(met, R, v) = i
<1>10. Noisiest = [i \in 1..k |-> C(i)]
  BY <1>1, <1>9 DEF Noisiest
<1>11. ASSUME NEW v \in met PROVE Rank(met, R, v) = Cardinality(Up(v))
  <2>1. {u \in met : <<u, v>> \in R} = Up(v)
    BY <1>5, <1>6 DEF Louder
  <2> QED  BY <2>1 DEF Rank
<1> HIDE DEF Up
<1>12. \A i : C(i) = D(i)
  BY <1>11, Zenon
<1>13. Sorted(Ranked(met, R), met, R)
  BY <1>2, <1>7, RankedShape, Zenon
<1>14. \A i \in 1..c : D(i) \in met
  BY <1>8, <1>13 DEF Sorted, Ranked
<1> HIDE DEF C, D
<1>15. \A i \in 1..k : i \in 1..c
  BY <1>8, <1>9
<1>16. DOMAIN Noisiest = 1..k /\ \A i \in 1..k : Noisiest[i] \in met
  BY <1>10, <1>12, <1>14, <1>15
<1> QED  BY <1>1, <1>16

\* An hour with no file left and none cut short is all counted.
LEMMA HourTold ==
  ASSUME ReaderInv, Answered, question = "hour"
  PROVE  HourHonest'
<1>1. /\ stage = "files" /\ (opened = <<>> \/ Enough)
      /\ cut' = (cut \/ (question = "hour" /\ opened # <<>>))
      /\ reply' = [done |-> TRUE,
                   units |-> [i \in DOMAIN Noisiest |-> <<Noisiest[i], counts[Noisiest[i]]>>],
                   more |-> Cardinality(DOMAIN counts) - Len(Noisiest),
                   refusals |-> refusals, partial |-> cut']
      /\ UNCHANGED <<journal, question, unread>>
  BY DEF Answered
<1>2. TheHour' = TheHour
  BY <1>1, SameJournal
<1>3. CASE reply'.partial
  BY <1>1, <1>3 DEF HourHonest
<1>4. CASE ~reply'.partial
  <2>1. ~cut /\ opened = <<>>
    BY <1>1, <1>4
  <2>2. Left = {}
    <3>1. Len(<<>>) = 0 /\ 1..0 = {}
      BY EmptySeq
    <3> QED  BY <1>1, <2>1, <3>1 DEF Left, Ahead
  <2>3. PICK H : H = TheHour \ unread
    OBVIOUS
  <2>4. CountsOf(H)
    <3>1. CountsOf(TheHour \ (Left \cup unread))
      BY <1>1, <1>4, <2>1 DEF ReaderInv, CountedRight, Walking
    <3>2. TheHour \ (Left \cup unread) = H
      BY <2>2, <2>3
    <3> QED  BY <3>1, <3>2
  <2>5. H \in SUBSET Entry
    BY <2>3, EntriesKnown DEF ReaderInv
  <2>6. PICK k \in Nat : DOMAIN Noisiest = 1..k /\ \A i \in 1..k : Noisiest[i] \in DOMAIN counts
    BY <2>4, <2>5, NoisiestShape
  <2>7. PICK c \in Nat : c = Cardinality(DOMAIN counts)
    BY <2>4, FS_CardinalityType DEF CountsOf
  <2>8. PICK u : u = [i \in DOMAIN Noisiest |-> <<Noisiest[i], counts[Noisiest[i]]>>]
    OBVIOUS
  <2>9. Len(Noisiest) = k /\ Len(u) = k /\ DOMAIN u = 1..k
    BY <2>6, <2>8
  <2>10. \A i \in 1..k : u[i][2] = CountOf(H, u[i][1])
    <3> SUFFICES ASSUME NEW i \in 1..k PROVE u[i][2] = CountOf(H, u[i][1])
      OBVIOUS
    <3>1. PICK v \in DOMAIN counts : v = Noisiest[i]
      BY <2>6
    <3>2. u[i] = <<v, counts[v]>>
      BY <2>6, <2>8, <3>1
    <3>3. counts[v] = CountOf(H, v)
      BY <2>4 DEF CountsOf
    <3> QED  BY <3>2, <3>3
  <2>11. Len(u) + (c - Len(Noisiest)) = Cardinality({e.unit : e \in {x \in H : Counts(x)}})
    <3>1. c = Cardinality({e.unit : e \in {x \in H : Counts(x)}})
      BY <2>4, <2>7 DEF CountsOf
    <3>2. k + (c - k) = c
      OBVIOUS
    <3> QED  BY <2>9, <3>1, <3>2
  <2>12. refusals = Cardinality({e \in H : Refusal(e)})
    BY <2>4 DEF CountsOf, RefusalsIn
  <2>13. reply'.units = u /\ reply'.more = c - Len(Noisiest) /\ reply'.refusals = refusals
    BY <1>1, <2>7, <2>8
  <2>14. H = {e \in AllEntries' \ unread' : Whole(e) /\ e.at >= SinceTime /\ e.at < HourEnd}
    <3>1. H = TheHour' \ unread'
      BY <1>1, <1>2, <2>3
    <3> QED  BY <3>1 DEF TheHour
  <2>15. \A v : CountOf(H, v) = [errors |-> Cardinality({e \in H : e.unit = v /\ e.priority \in 0..3}),
                                warnings |-> Cardinality({e \in H : e.unit = v /\ e.priority = 4})]
    BY DEF CountOf
  <2>16. \A i \in DOMAIN reply'.units :
            reply'.units[i][2] = [errors |-> Cardinality({e \in H : e.unit = reply'.units[i][1] /\ e.priority \in 0..3}),
                                  warnings |-> Cardinality({e \in H : e.unit = reply'.units[i][1] /\ e.priority = 4})]
    BY <2>9, <2>10, <2>13, <2>15
  <2>17. Len(reply'.units) + reply'.more = Cardinality({e.unit : e \in {x \in H : Counts(x)}})
    BY <2>11, <2>13
  <2>18. reply'.refusals = Cardinality({e \in H : Refusal(e)})
    BY <2>12, <2>13
  <2> QED  BY <2>14, <2>16, <2>17, <2>18, Zenon DEF HourHonest
<1> QED  BY <1>3, <1>4

LEMMA AnswerStep ==
  ASSUME ReaderInv, Answered
  PROVE  ReaderInv'
<1>1. /\ stage = "files" /\ stage' = "done"
      /\ cut' = (cut \/ (question = "hour" /\ opened # <<>>))
      /\ UNCHANGED <<journal, question, names, opened, place, ofFile, scanned>>
  BY DEF Answered
<1>2. ReaderType
  BY DEF ReaderInv
<1>3. ReaderType' /\ ~Walking' /\ NotBegun'
  <2>1. cut' = TRUE \/ cut' = FALSE
    BY <1>1
  <2>2. cut' \in BOOLEAN
    BY <2>1
  <2> QED  BY <1>1, <1>2, <2>2 DEF ReaderType, Walking, NotBegun
<1>4. LinesNewest' /\ HourHonest'
  <2>1. CASE question = "lines"
    <3>1. HourHonest'
      BY <1>1, <2>1 DEF HourHonest
    <3> QED  BY <2>1, <3>1, LinesTold
  <2>2. CASE question = "hour"
    <3>1. LinesNewest'
      BY <1>1, <2>2 DEF LinesNewest
    <3> QED  BY <2>2, <3>1, HourTold
  <2> QED  BY <1>2, <2>1, <2>2 DEF ReaderType
<1> QED  BY <1>3, <1>4 DEF ReaderInv, NewestKept, CountedRight, Apart

LEMMA ReaderStays ==
  ASSUME ReaderInv, UNCHANGED readerVars
  PROVE  ReaderInv'
<1>1. UNCHANGED <<journal, question, stage, names, opened, place, ofFile, scanned, found, compressed,
                  counts, refusals, cut, reply, unread>>
  BY DEF readerVars
<1>2. AllEntries' = AllEntries /\ Mine' = Mine /\ TheHour' = TheHour
  BY <1>1, SameJournal
<1>3. Left' = Left /\ Walking' = Walking /\ Beyond' = Beyond
  BY <1>1 DEF Left, Walking, Beyond, Enough
<1>4. ReaderType' /\ NotBegun' /\ (Walking' => Left' \subseteq AllEntries') /\ Apart'
  BY <1>1, <1>2, <1>3 DEF ReaderInv, ReaderType, NotBegun, Apart
<1>5. NewestKept'
  BY <1>1, <1>2, <1>3 DEF ReaderInv, NewestKept
<1>6. CountedRight'
  <2> SUFFICES ASSUME Walking, question = "hour", ~cut
               PROVE  CountsOf(TheHour \ (Left \cup unread))'
    BY <1>1, <1>3 DEF CountedRight
  <2>1. PICK S : S = TheHour \ (Left \cup unread)
    OBVIOUS
  <2>2. CountsOf(S)
    BY <2>1 DEF ReaderInv, CountedRight
  <2>3. CountsOf(S)'
    BY <1>1, <2>2 DEF CountsOf
  <2>4. TheHour' \ (Left' \cup unread') = S
    BY <1>1, <1>2, <1>3, <2>1
  <2> QED  BY <2>3, <2>4
<1>7. LinesNewest'
  BY <1>1, <1>2 DEF ReaderInv, LinesNewest
<1>8. HourHonest'
  BY <1>1, <1>2 DEF ReaderInv, HourHonest
<1> QED  BY <1>4, <1>5, <1>6, <1>7, <1>8 DEF ReaderInv

LEMMA ReaderStep == ReaderInv /\ [ReaderNext]_readerVars => ReaderInv'
<1> SUFFICES ASSUME ReaderInv, [ReaderNext]_readerVars PROVE ReaderInv'
  OBVIOUS
<1>1. CASE ListFiles
  BY <1>1, ListStep
<1>2. CASE Rotate
  BY <1>2, RotateStep
<1>3. CASE OpenFiles
  BY <1>3, OpenStep
<1>4. CASE NextFile
  BY <1>4, NextFileStep
<1>5. CASE ScanEntry
  BY <1>5, ScanStep
<1>6. CASE EndWalk
  BY <1>6, EndWalkStep
<1>7. CASE ReadFails
  BY <1>7, ReadFailsStep
<1>8. CASE Answered
  BY <1>8, AnswerStep
<1>9. CASE UNCHANGED readerVars
  BY <1>9, ReaderStays
<1> QED  BY <1>1, <1>2, <1>3, <1>4, <1>5, <1>6, <1>7, <1>8, <1>9 DEF ReaderNext

LEMMA ReaderInvariant == ReaderSpec => []ReaderInv
BY ReaderInitHolds, ReaderStep, PTL DEF ReaderSpec

\* For any journal whose files are in order, any window and bounds, however
\* journald rotates, and whichever files cannot be opened or are torn: a unit's
\* lines are told oldest first, none of them a login record, only the oldest
\* message of them in part; and nothing of the unit that the window holds is newer
\* than a line that is told, but for what could not be read (journal.go,
\* LastLines; file.go, Backward).
THEOREM LinesAreNewest == ReaderSpec => []LinesNewest
<1>1. ReaderInv => LinesNewest
  BY DEF ReaderInv
<1> QED  BY <1>1, ReaderInvariant, PTL

\* And an hour that is not called partial has every error, warning and refused
\* login of the hour that could be read in it, under the unit that wrote it; what
\* could not be read is missing from it all the same (journal.go, countHour).
THEOREM HoursAreHonest == ReaderSpec => []HourHonest
<1>1. ReaderInv => HourHonest
  BY DEF ReaderInv
<1> QED  BY <1>1, ReaderInvariant, PTL
=============================================================================
