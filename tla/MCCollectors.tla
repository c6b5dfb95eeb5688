---------------------------- MODULE MCCollectors ----------------------------
(* The parts of a collection that do not share state, checked in one run:  *)
(* each behaviour is one of one part, chosen at its start.                 *)
EXTENDS MountWatch, UnitReading, Trackers, DiskWalk, SshSetup, ReaderCaches, PackageIndex,
        JournalReader

VARIABLE turn   \* the part that runs

Parts == {"mounts", "units", "containers", "traffic", "processes", "disk", "ssh", "caches",
          "packages", "journal"}

-----------------------------------------------------------------------------
(* Instances.                                                              *)

\* Two directories and a file of one filesystem.
MCFilesystem == <<1, 1, 1>>
MCDevice == <<"sda", "sda", "sda">>
MCCapacity == <<1>>

\* 1 is a file; 2 holds a file and a directory with another; 6 a directory of
\* another filesystem and a file; 10 a file.
MCNodes == 1..11
MCParent == <<0, 0, 2, 2, 4, 0, 6, 7, 6, 0, 10>>
MCFiles == {1, 3, 5, 8, 9, 11}
MCSize == [f \in MCFiles |-> IF f = 9 THEN 2 ELSE 1]
\* Any two nodes or fewer, and the three subtrees: more than are kept.
MCBadNodes == UNION {kSubset(k, MCNodes \cup {0}) : k \in 0..2} \cup {{2, 6, 10}}

Yes == Set("password", "yes")
No == Set("password", "no")
MCMains ==
    UNION {[1..n -> {Yes, MatchLine, IncludeLine, PortLine(2222)}] : n \in 0..2}
    \cup {<<IncludeLine, MatchLine, IncludeLine>>, <<MatchLine, IncludeLine, Yes>>,
          <<IncludeLine, PortLine(2222), Yes>>, <<PortLine(2223), IncludeLine, PortLine(2222)>>,
          <<PortLine(2222), PortLine(2223), PortLine(2224)>>}
MCDropIns == {<<No>>, <<MatchLine, No>>, <<IncludeLine>>, <<No, MatchLine>>}

MCCacheWorlds ==
    {[reader |-> r, changes |-> {"write", "create", "remove", "chmod"}] : r \in {"cron", "setup"}}

MCCommName == <<1, 1, 2>>
MCFirstLists == {<<{1}, {2}, {1}>>, <<{1, 3}, {3}, {}>>, <<{}, {1}, {2}>>, <<{1}, {1}, {1}>>,
                 <<{2}, {}, {1, 2}>>, <<{3}, {3}, {3}>>}

\* Three entries, in order of time, in the file being written and an archive.
Message(u, p, n, b) == [unit |-> u, priority |-> p, login |-> FALSE, auth |-> FALSE,
                         refused |-> FALSE, lines |-> n, bytes |-> b]
Login(u, p, auth) == [Message(u, p, 1, 1) EXCEPT !.login = TRUE, !.auth = auth, !.refused = TRUE]
MCUsual == {Message(1, 3, 1, 1), Message(1, 4, 2, 3), Message(1, -1, 3, 1)}
MCKinds == MCUsual \cup {Message(2, 4, 1, 1), Message(1, 3, 1, 0), Message(1, 3, 1, Torn),
                        Login(1, 6, TRUE), Login(0, 3, FALSE)}
MCJournal(k, t, n) ==
    LET e(i) == [at |-> t[i], seq |-> i] @@ k[i]
    IN  <<[i \in 1..3 - n |-> e(n + i)], [i \in 1..n |-> e(i)]>>
\* At most one entry of a journal is of another kind than the usual.
MCJournals ==
    {MCJournal(k, t[1], t[2]) :
        k \in {c \in [1..3 -> MCKinds] : Cardinality({i \in 1..3 : c[i] \notin MCUsual}) <= 1},
        t \in {<<<<1, 2, 2>>, 0>>, <<<<1, 2, 3>>, 1>>, <<<<2, 2, 3>>, 2>>, <<<<2, 3, 4>>, 2>>}}

-----------------------------------------------------------------------------
\* What does not run stays in one initial state of its own.
Init ==
    /\ turn \in Parts
    /\ MountInit /\ TrackerInit
    /\ turn = "mounts" \/ used = [f \in Filesystems |-> 0]
    /\ IF turn = "units" THEN UnitWorld ELSE broken = {}
    /\ IF turn = "disk" THEN DiskWorld ELSE access = [n \in Nodes \cup {0} |-> "ok"]
    /\ IF turn = "ssh" THEN SshWorld
       ELSE /\ content = [f \in ConfigFiles |-> <<No>>]
            /\ may = [f \in ConfigFiles \cup {Folder} |-> "read"]
    /\ IF turn = "caches" THEN world \in CacheWorlds
       ELSE world = [reader |-> "cron", changes |-> {}]
    /\ IF turn = "packages" THEN lists \in FirstLists ELSE lists = [k \in Packages |-> {}]
    /\ IF turn = "journal" THEN ReaderWorld ELSE journal = <<<<>>, <<>>>> /\ question = "hour"
    /\ UnitStart /\ DiskStart /\ SshStart /\ CacheStart /\ PackageStart /\ ReaderStart

Still(part, others) == turn = part /\ UNCHANGED <<turn, others>>

Next ==
    \/ MountNext /\ Still("mounts", <<unitVars, trackerVars, diskVars, sshVars, cacheVars, packageVars, readerVars>>)
    \/ UnitNext /\ Still("units", <<mountVars, trackerVars, diskVars, sshVars, cacheVars, packageVars, readerVars>>)
    \/ /\ \/ ContainerNext /\ turn = "containers"
          \/ TrafficNext /\ turn = "traffic"
          \/ ProcessNext /\ turn = "processes"
       /\ UNCHANGED <<turn, mountVars, unitVars, diskVars, sshVars, cacheVars, packageVars, readerVars>>
    \/ DiskNext /\ Still("disk", <<mountVars, unitVars, trackerVars, sshVars, cacheVars, packageVars, readerVars>>)
    \/ SshNext /\ Still("ssh", <<mountVars, unitVars, trackerVars, diskVars, cacheVars, packageVars, readerVars>>)
    \/ CacheNext /\ Still("caches", <<mountVars, unitVars, trackerVars, diskVars, sshVars, packageVars, readerVars>>)
    \/ PackageNext /\ Still("packages", <<mountVars, unitVars, trackerVars, diskVars, sshVars, cacheVars, readerVars>>)
    \/ ReaderNext /\ Still("journal", <<mountVars, unitVars, trackerVars, diskVars, sshVars, cacheVars, packageVars>>)

Spec == Init /\ [][Next]_<<turn, mountVars, unitVars, trackerVars, diskVars, sshVars, cacheVars,
                          packageVars, readerVars>>
=============================================================================
