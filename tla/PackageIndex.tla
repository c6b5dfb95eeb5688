---------------------------- MODULE PackageIndex ----------------------------
(* The index from program files to dpkg's packages (PackageIndex in        *)
(* internal/collect/packages.go): read from dpkg's database in several     *)
(* steps while dpkg may be at work, kept until the status file's time      *)
(* moves, and asked for the package of a process.                          *)
EXTENDS Integers, Sequences, FiniteSets, FiniteSetsExt

CONSTANTS
    Packages,       \* numbered in the order their lists are read
    ProgramPaths,   \* paths in the standard program directories
    OtherPaths,     \* executables elsewhere
    CommName,       \* path -> the kernel's name for its process: cut, so paths may share it
    FirstLists,     \* package -> paths, to begin with: those to try
    MaxUpgrades,    \* bound on what dpkg does
    MinIndexRebuild \* ticks between two builds of the index

Paths == ProgramPaths \cup OtherPaths
Names == {CommName[p] : p \in Paths}

ASSUME PackageAssumptions ==
    /\ IsFiniteSet(Packages) /\ Packages = 1..Cardinality(Packages)
    /\ MinIndexRebuild \in Nat
    /\ DOMAIN CommName = Paths /\ FirstLists \subseteq [Packages -> SUBSET Paths]

VARIABLES
    version,    \* dpkg's status: package -> version, 0 if it is not installed
    lists,      \* package -> the paths in its file list
    statusTime, \* modification time of the status file
    upgrading,  \* the package dpkg is at, or 0
    clock,      \* ticks since the index was built, up to MinIndexRebuild
    refresh,    \* "idle", "status", "lists"
    next,       \* the list to read next
    draft,      \* the index being built
    index       \* the index kept

packageVars == <<version, lists, statusTime, upgrading, clock, refresh, next, draft, index>>
dpkg == <<version, lists, statusTime, upgrading>>

Nobody == 0         \* no package has it
Several == -1       \* more than one has

\* When its database was written, the packages in it, and who has a path or a
\* name; skipped is history: not all of a list was read.
NoIndex == [time |-> -1, version |-> [k \in Packages |-> 0], byPath |-> [p \in Paths |-> Nobody],
            byName |-> [c \in Names |-> Nobody], skipped |-> FALSE]

PackageStart ==
    /\ version = [k \in Packages |-> 1]
    /\ statusTime = 0 /\ upgrading = 0
    /\ clock = 0 /\ refresh = "idle" /\ next = 1
    /\ draft = NoIndex /\ index = NoIndex

PackageInit == lists \in FirstLists /\ PackageStart

-----------------------------------------------------------------------------
\* dpkg replaces a package's files and its list, and then says so in its
\* status file; or it removes the package and leaves the list.
Unpack(k, p) ==
    /\ upgrading = 0 /\ statusTime < MaxUpgrades
    /\ upgrading' = k
    /\ lists' = [lists EXCEPT ![k] = SymDiff(@, {p})]
    /\ UNCHANGED <<version, statusTime, clock, refresh, next, draft, index>>

Settle ==
    /\ upgrading # 0
    /\ upgrading' = 0 /\ statusTime' = statusTime + 1
    /\ \/ version' = [version EXCEPT ![upgrading] = statusTime' + 1]
       \/ version' = [version EXCEPT ![upgrading] = 0]
    /\ UNCHANGED <<lists, clock, refresh, next, draft, index>>

PackageTick ==
    /\ index # NoIndex /\ refresh = "idle" /\ clock < MinIndexRebuild
    /\ clock' = clock + 1
    /\ UNCHANGED <<dpkg, refresh, next, draft, index>>

-----------------------------------------------------------------------------
\* refresh: the status file's time is looked at first.
Refresh ==
    /\ refresh = "idle"
    /\ index = NoIndex \/ (statusTime # index.time /\ clock >= MinIndexRebuild)
    /\ refresh' = "status" /\ draft' = [NoIndex EXCEPT !.time = statusTime]
    /\ UNCHANGED <<dpkg, clock, next, index>>

\* readDpkgStatus: the installed packages, or the index stays as it is.
ReadStatus ==
    /\ refresh = "status"
    /\ refresh' = "lists" /\ next' = 1
    /\ draft' = [draft EXCEPT !.version = version]
    /\ UNCHANGED <<dpkg, clock, index>>

ReadStatusFails ==
    /\ refresh = "status"
    /\ refresh' = "idle" /\ draft' = NoIndex
    /\ UNCHANGED <<dpkg, clock, next, index>>

\* indexList: a path stays with the first package that lists it ...
FirstOwner(owner, key) == IF owner = Nobody THEN key ELSE owner

\* ... and a name with the only one: two make it useless for good.
OnlyOwner(owner, key) == IF owner \in {Nobody, key} THEN key ELSE Several

WithList(paths) ==
    LET names == {CommName[p] : p \in paths \cap ProgramPaths}
    IN  [draft EXCEPT
            !.byPath = [p \in Paths |-> IF p \in paths THEN FirstOwner(@[p], next) ELSE @[p]],
            !.byName = [c \in Names |-> IF c \in names THEN OnlyOwner(@[c], next) ELSE @[c]],
            !.skipped = @ \/ paths # lists[next]]

\* readDpkgLists, one list: that of a package not installed is passed over. Of
\* any other a part is taken: none of one that cannot be opened, less than all of
\* one that breaks off or is met when the index is full (maxIndexedPaths).
ReadList ==
    /\ refresh = "lists" /\ next \in Packages
    /\ next' = next + 1
    /\ \/ draft.version[next] = 0 /\ UNCHANGED draft
       \/ /\ draft.version[next] # 0
          /\ \E paths \in SUBSET lists[next] : draft' = WithList(paths)
    /\ UNCHANGED <<dpkg, clock, refresh, index>>

IndexTimeNow == statusTime                              \* mutant of IndexTime

\* The time the index is good for: the status file's when refresh began.
IndexTime == draft.time

KeepIndex ==
    /\ refresh = "lists" /\ next \notin Packages
    /\ refresh' = "idle" /\ next' = 1 /\ clock' = 0
    /\ index' = [draft EXCEPT !.time = IndexTime] /\ draft' = NoIndex
    /\ UNCHANGED dpkg

PackageNext ==
    \/ \E k \in Packages, p \in Paths : Unpack(k, p)
    \/ Settle \/ PackageTick
    \/ Refresh \/ ReadStatus \/ ReadStatusFails \/ ReadList \/ KeepIndex

PackageSpec == PackageInit /\ [][PackageNext]_packageVars

-----------------------------------------------------------------------------
(* The package of a process.                                               *)

Deleted == "deleted"
Unreadable == "unreadable"
NoPackage == [key |-> Nobody, match |-> "none"]

lookup(p) == index.byPath[p]
lookupName(c) == IF index.byName[c] = Several THEN Nobody ELSE index.byName[c]

\* The strongest evidence that can be read: the running file, unless it has
\* been replaced; the path the process says it was started by; its name.
resolve(exe, argv0, comm) ==
    IF exe.kind = Deleted THEN NoPackage
    ELSE IF exe.kind # Unreadable /\ lookup(exe.path) # Nobody
         THEN [key |-> lookup(exe.path), match |-> "executable"]
    ELSE IF CommName[argv0] = comm /\ lookup(argv0) # Nobody
         THEN [key |-> lookup(argv0), match |-> "command"]
    ELSE IF lookupName(comm) # Nobody THEN [key |-> lookupName(comm), match |-> "name"]
    ELSE NoPackage

Executables == {[kind |-> k, path |-> p] : k \in {"read", Deleted, Unreadable}, p \in Paths}

\* An index that will be kept as it is until dpkg writes its status again says
\* of every process what dpkg's database says now: the package of the running
\* file, or of the path or the one name that stands for it; unless one of its
\* lists could not be read.
IndexRight ==
    index # NoIndex /\ index.time = statusTime /\ upgrading = 0 /\ ~index.skipped =>
        LET owners(p) == {k \in Packages : version[k] # 0 /\ p \in lists[k]}
            named(c) == UNION {owners(p) : p \in {q \in ProgramPaths : CommName[q] = c}}
        IN  /\ index.version = version
            /\ \A exe \in Executables, argv0 \in Paths, comm \in Names :
                 LET r == resolve(exe, argv0, comm) IN
                 /\ exe.kind = "read" /\ owners(exe.path) # {} =>
                        r = [key |-> Min(owners(exe.path)), match |-> "executable"]
                 /\ r.match = "command" => r.key \in owners(argv0)
                 /\ r.match = "name" => named(comm) = {r.key}
=============================================================================
