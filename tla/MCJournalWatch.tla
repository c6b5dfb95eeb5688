--------------------------- MODULE MCJournalWatch ---------------------------
(* Small instances of JournalWatch.                                        *)
EXTENDS JournalWatch

OneUnit == {1}
TwoUnits == {1, 2}
NoFaults == {}
FailureFaults == {"answer", "enabled"}
LoopFaults == {"counter", "enabled", "journal"}
=============================================================================
