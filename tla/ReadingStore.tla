---------------------------- MODULE ReadingStore ----------------------------
(***************************************************************************)
(* What the agent's spool promises its caller, whatever the filesystem     *)
(* does and wherever the process dies: a reading that was put in leaves    *)
(* only because Max newer ones are held, because the caller settled it     *)
(* after it was offered, or because its file was spoiled.  Offers go       *)
(* oldest first.  Readings are named by the sequence number of their file. *)
(***************************************************************************)
EXTENDS SpoolNames

VARIABLES
    held,       \* the readings in the store
    spoiled,    \* the held readings whose contents are damaged
    offered     \* the readings the caller took and has not settled

storeVars == <<held, spoiled, offered>>

StoreInit == held = {} /\ spoiled = {} /\ offered = {}

Put(n) ==
    /\ n \notin held
    /\ held' = held \cup {n}
    /\ UNCHANGED <<spoiled, offered>>

\* Only the oldest make room, and only when Max newer readings stay.
Evict(n) ==
    /\ n \in Surplus(held)
    /\ held' = held \ {n}
    /\ spoiled' = spoiled \ {n}
    /\ UNCHANGED offered

\* No sound reading is passed over in favour of a newer one.
Offer(S) ==
    /\ S \subseteq Oldest(held, MaxBatch) \ spoiled
    /\ \A n \in S, m \in held \ spoiled : m < n => m \in S
    /\ offered' = S
    /\ UNCHANGED <<held, spoiled>>

Settle(n) ==
    /\ n \in offered
    /\ held' = held \ {n}
    /\ offered' = offered \ {n}
    /\ UNCHANGED spoiled

Discard(n) ==
    /\ n \in spoiled
    /\ held' = held \ {n}
    /\ spoiled' = spoiled \ {n}
    /\ UNCHANGED offered

\* The caller gives up (part of) its offer, or dies with it; a power cut
\* spoils files.
Forget(S, D) ==
    /\ offered' = S
    /\ spoiled' = spoiled \cup D
    /\ UNCHANGED held

StoreNext ==
    \/ \E n \in held' : Put(n)
    \/ \E n \in held : Evict(n) \/ Settle(n) \/ Discard(n)
    \/ \E S \in SUBSET held : Offer(S)
    \/ \E S \in SUBSET offered, D \in SUBSET held : Forget(S, D)

StoreSpec == StoreInit /\ [][StoreNext]_storeVars

=============================================================================
