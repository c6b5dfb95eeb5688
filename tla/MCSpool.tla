------------------------------- MODULE MCSpool -------------------------------
(* Small instances of Spool.                                               *)
EXTENDS Spool

\* A disk that fills up under a clock that goes forward; and one on which any
\* call may fail, under a clock that may go back.
MCWorlds == {[faults |-> {"write", "rename"}, starts |-> {0, 10, 20}, forward |-> TRUE],
             [faults |-> {"write", "rename", "list", "read", "remove"},
              starts |-> {0, 10}, forward |-> FALSE]}
=============================================================================
