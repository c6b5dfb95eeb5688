------------------------------ MODULE DiskWalk ------------------------------
(* The bounded walk of one mount (ScanUsage in internal/collect/           *)
(* diskusage.go): every directory directly under the mount gets an equal   *)
(* share of the time that is left, files are added up in the directory     *)
(* they are reported under, and what the walk was refused is told.  The    *)
(* tree is numbered in the order WalkDir meets it, parents first.          *)
EXTENDS Integers, Sequences, FiniteSets, FiniteSetsExt, SequencesExt, Sums

CONSTANTS
    Nodes,          \* 1..n, below the mount point 0
    Parent,         \* node -> the directory it is in
    Files,          \* regular files; the other nodes are directories
    Size,           \* file -> its bytes
    LeftOut,        \* skipDirs, and what another filesystem is mounted on
    Known,          \* directories of a known kind
    UsageMaxDepth, UsageBudget, UsageTopN, MaxUnreadableDirs, MaxUnreadableCollected,
    Slowest,        \* the longest one system call takes
    BadNodes        \* the sets of nodes that may not be readable

Dirs == (Nodes \cup {0}) \ Files

\* The directories from n up to the mount, n first.
Path[n \in Nodes \cup {0}] == IF n = 0 THEN <<0>> ELSE <<n>> \o Path[Parent[n]]

\* A node is met after its directory, which is the node before it or one that
\* node is below.
ASSUME DiskAssumptions ==
    /\ IsFiniteSet(Nodes) /\ Nodes = 1..Cardinality(Nodes) /\ Files \subseteq Nodes
    /\ \A n \in Nodes : /\ Parent[n] \in Dirs /\ Parent[n] < n
                        /\ Parent[n] \in ToSet(Path[n - 1])
    /\ \A f \in Files : Size[f] \in Nat
    /\ LeftOut \subseteq Dirs \ {0} /\ Known \subseteq Dirs
    /\ UsageBudget \in Nat \ {0} /\ {UsageMaxDepth, MaxUnreadableDirs, Slowest} \subseteq Nat

VARIABLES
    access,     \* node -> "ok", "refused", or "failing" for any other error
    scan,       \* "idle", "subtrees", "walk" or "done"
    todo,       \* the subtrees to walk
    at,         \* the node WalkDir is at
    listing,    \* whether the directory there was visited and is to be listed
    elapsed,    \* time since ScanUsage began
    stopped,    \* the caller's context is cancelled
    allotted, spent, \* the subtree's share of the time, and what it took of it
    totals,     \* directory -> bytes added up there
    unreadable, more, partial, accounted, top,  \* the result
    shares,     \* history: subtree -> the share it was given
    over        \* history: by how much system calls overran shares

diskVars == <<access, scan, todo, at, listing, elapsed, stopped, allotted, spent, totals,
              unreadable, more, partial, accounted, top, shares, over>>

\* A few nodes cannot be read; a file is refused by its directory, if at all.
DiskWorld ==
    \E bad \in BadNodes :
        \E refused \in SUBSET (bad \ Files) :
            access = [n \in Nodes \cup {0} |->
                        IF n \in refused THEN "refused" ELSE IF n \in bad THEN "failing" ELSE "ok"]

DiskStart ==
    /\ scan = "idle" /\ todo = <<>> /\ at = 0 /\ listing = FALSE
    /\ elapsed = 0 /\ stopped = FALSE /\ allotted = 0 /\ spent = 0
    /\ totals = [d \in Dirs |-> 0]
    /\ unreadable = <<>> /\ more = 0 /\ partial = FALSE /\ accounted = 0 /\ top = <<>>
    /\ shares = [s \in {} |-> 0] /\ over = 0

DiskInit == DiskWorld /\ DiskStart

-----------------------------------------------------------------------------
Below(n, d) == n # d /\ d \in ToSet(Path[n])
Depth(n) == Len(Path[n]) - 1

\* The node WalkDir goes on with when it does not enter n.
After(n) == Min({m \in Nodes : m > n /\ ~Below(m, n)} \cup {Cardinality(Nodes) + 1})

\* The directory a file's bytes are told under: its own, or the ancestor at
\* the depth that is told.
bucketFor(f) == CHOOSE d \in ToSet(Path[f]) \ {f} :
                    /\ Depth(d) <= UsageMaxDepth
                    /\ \A e \in ToSet(Path[f]) \ {f} : Depth(e) <= UsageMaxDepth => Depth(e) <= Depth(d)

ShareOfAll(remaining, left) == remaining                \* mutant of usageShare

usageShare(remaining, left) == IF left <= 0 THEN 0 ELSE remaining \div left

Late == stopped \/ elapsed >= UsageBudget

\* A refusal is kept for ranking, or counted when many are kept already; below
\* one that is kept it adds nothing.
noteUnreadable(d) ==
    IF Len(unreadable) >= MaxUnreadableCollected
    THEN more' = more + 1 /\ UNCHANGED unreadable
    ELSE /\ unreadable' = IF \E u \in ToSet(unreadable) : Below(d, u) THEN unreadable
                          ELSE Append(unreadable, d)
         /\ UNCHANGED more

\* Known kinds first, then the shallower, then by path.
Before(a, b) ==
    IF (a \in Known) # (b \in Known) THEN a \in Known
    ELSE IF Depth(a) # Depth(b) THEN Depth(a) < Depth(b) ELSE a < b

rankUnreadable ==
    LET first(i, j) == \/ Before(unreadable[i], unreadable[j])
                       \/ unreadable[i] = unreadable[j] /\ i <= j
        places == DOMAIN unreadable
        ranked == [k \in places |-> unreadable[
                      CHOOSE j \in places : Cardinality({i \in places : first(i, j)}) = k]]
        named == Min({Len(ranked), MaxUnreadableDirs})
    IN  /\ unreadable' = SubSeq(ranked, 1, named)
        /\ more' = more + Len(ranked) - named

\* The largest few, the path deciding between equals.
topDirs(t) ==
    LET larger(a, b) == t[a] > t[b] \/ (t[a] = t[b] /\ a < b)
        ranked == SetToSortSeq({d \in Dirs : t[d] > 0}, larger)
    IN  SubSeq(ranked, 1, Min({Len(ranked), UsageTopN}))

-----------------------------------------------------------------------------
\* os.ReadDir: the entries come in the order of their names.
ReadDir(S) == [i \in 1..Cardinality(S) |-> CHOOSE n \in S : Cardinality({m \in S : m <= n}) = i]

\* ScanUsage up to its loop: the mount is listed, its files are counted, and
\* its directories on this filesystem are to be walked.
ScanUsage(t) ==
    /\ scan = "idle" /\ access[0] = "ok"
    /\ LET entries == {n \in Nodes : Parent[n] = 0}
           counted == {f \in entries \cap Files : access[f] = "ok"}
       IN  /\ todo' = ReadDir((entries \ Files) \ LeftOut)
           /\ totals' = [totals EXCEPT ![0] = Total([f \in counted |-> Size[f]])]
    /\ scan' = "subtrees" /\ elapsed' = t
    /\ UNCHANGED <<access, at, listing, stopped, allotted, spent, unreadable, more, partial,
                   accounted, top, shares, over>>

\* The mount cannot be listed.
ScanFails ==
    /\ scan = "idle" /\ access[0] # "ok"
    /\ scan' = "done" /\ partial' = TRUE
    /\ IF access[0] = "refused" THEN noteUnreadable(0) ELSE UNCHANGED <<unreadable, more>>
    /\ UNCHANGED <<access, todo, at, listing, elapsed, stopped, allotted, spent, totals, accounted,
                   top, shares, over>>

\* The next subtree begins with its share; one that gets none is not walked.
NextSubtree ==
    /\ scan = "subtrees" /\ todo # <<>> /\ ~Late
    /\ LET given == usageShare(UsageBudget - elapsed, Len(todo)) IN
       /\ shares' = [s \in DOMAIN shares \cup {Head(todo)} |->
                        IF s = Head(todo) THEN given ELSE shares[s]]
       /\ IF given <= 0
          THEN /\ partial' = TRUE /\ todo' = Tail(todo)
               /\ UNCHANGED <<scan, at, allotted, spent>>
          ELSE /\ scan' = "walk" /\ at' = Head(todo)
               /\ allotted' = given /\ spent' = 0
               /\ UNCHANGED <<partial, todo>>
    /\ UNCHANGED <<access, listing, elapsed, stopped, totals, unreadable, more, accounted, top, over>>

\* Time passes in a system call of the walk.
Takes(t) ==
    /\ elapsed' = elapsed + t /\ spent' = spent + t
    /\ over' = over + Max({0, spent' - allotted}) - Max({0, spent - allotted})

\* The walk goes on at node n, or this subtree is through.
GoesOn(n) ==
    IF n <= Cardinality(Nodes) /\ (n = Head(todo) \/ Below(n, Head(todo)))
    THEN at' = n /\ UNCHANGED <<scan, todo>>
    ELSE scan' = "subtrees" /\ todo' = Tail(todo) /\ UNCHANGED at

OutOfTime == Late \/ spent >= allotted

\* WalkDir calls back for a node, and the time has run out.
StopWalk ==
    /\ scan = "walk" /\ ~listing /\ OutOfTime
    /\ partial' = TRUE
    /\ scan' = "subtrees" /\ todo' = Tail(todo)
    /\ UNCHANGED <<access, at, listing, elapsed, stopped, allotted, spent, totals, unreadable, more,
                   accounted, top, shares, over>>

\* A file is added up, unless it cannot be looked at.
VisitFile(t) ==
    /\ scan = "walk" /\ ~listing /\ ~OutOfTime /\ at \in Files
    /\ totals' = IF access[at] = "ok" THEN [totals EXCEPT ![bucketFor(at)] = @ + Size[at]] ELSE totals
    /\ Takes(t) /\ GoesOn(at + 1)
    /\ UNCHANGED <<access, listing, stopped, allotted, unreadable, more, partial, accounted, top, shares>>

\* A directory of this filesystem is entered, another is passed over.
VisitDir(t) ==
    /\ scan = "walk" /\ ~listing /\ ~OutOfTime /\ at \notin Files
    /\ Takes(t)
    /\ IF at \in LeftOut THEN GoesOn(After(at)) /\ UNCHANGED listing
       ELSE listing' = TRUE /\ UNCHANGED <<scan, todo, at>>
    /\ UNCHANGED <<access, stopped, allotted, totals, unreadable, more, partial, accounted, top, shares>>

RefusedSilently(d) == UNCHANGED <<unreadable, more>>    \* mutant of Refused

\* What the walk keeps of a directory it cannot list: a refusal, and nothing
\* of any other error.
Refused(d) ==
    IF access[d] = "refused" THEN noteUnreadable(d) ELSE UNCHANGED <<unreadable, more>>

\* The directory is listed, or WalkDir calls back once more with the error.
ListDir(t) ==
    /\ scan = "walk" /\ listing
    /\ listing' = FALSE
    /\ Takes(t)
    /\ IF access[at] = "ok"
       THEN GoesOn(at + 1) /\ UNCHANGED <<unreadable, more>>
       ELSE GoesOn(After(at)) /\ Refused(at)
    /\ UNCHANGED <<access, stopped, allotted, totals, partial, accounted, top, shares>>

\* Nothing is left to walk, or no time: the result is put together.
Finish ==
    /\ scan = "subtrees" /\ (todo = <<>> \/ Late)
    /\ scan' = "done"
    /\ partial' = (partial \/ Late)
    /\ rankUnreadable
    /\ top' = topDirs(totals)
    /\ accounted' = Total(totals)
    /\ UNCHANGED <<access, todo, at, listing, elapsed, stopped, allotted, spent, totals, shares, over>>

\* The caller gives up.
StopScan ==
    /\ scan # "done" /\ ~stopped
    /\ stopped' = TRUE
    /\ UNCHANGED <<access, scan, todo, at, listing, elapsed, allotted, spent, totals, unreadable,
                   more, partial, accounted, top, shares, over>>

DiskNext ==
    \/ ScanFails \/ NextSubtree \/ StopWalk \/ Finish \/ StopScan
    \/ \E t \in 0..Slowest : ScanUsage(t) \/ VisitFile(t) \/ VisitDir(t) \/ ListDir(t)

DiskSpec == DiskInit /\ [][DiskNext]_diskVars

-----------------------------------------------------------------------------
(* Properties                                                              *)

\* A scan that does not say it is partial accounts for every byte on its
\* filesystem: counted, or below a directory the walk was refused - all of
\* which are named or counted - or that failed to be read.
ScanComplete ==
    scan = "done" /\ ~partial =>
        LET reached(n) == \A d \in ToSet(Path[Parent[n]]) : access[d] = "ok" /\ d \notin LeftOut
            visible == {f \in Files : reached(f) /\ access[f] = "ok"}
            refused == {d \in Dirs : access[d] = "refused" /\ d \notin LeftOut /\ (d = 0 \/ reached(d))}
        IN  /\ accounted = Total([f \in visible |-> Size[f]])
            /\ ToSet(unreadable) \subseteq refused
            /\ Len(unreadable) + more = Cardinality(refused)

\* Unless the caller gave up or a system call overran a share, every directory
\* under the mount was walked for its share of the budget, whatever the ones
\* before it in the alphabet took: what a scan leaves out for lack of time is
\* never one end of the list.
EveryTreeTried ==
    LET subtrees == {d \in Dirs \ {0} : Parent[d] = 0 /\ d \notin LeftOut} IN
    scan = "done" /\ access[0] = "ok" /\ ~stopped /\ over = 0 =>
        \A d \in subtrees :
            d \in DOMAIN shares /\ shares[d] >= (UsageBudget - Slowest) \div Cardinality(subtrees)
=============================================================================
