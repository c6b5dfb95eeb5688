---------------------------- MODULE JournalWatch ----------------------------
(***************************************************************************)
(* internal/agent/journal.go: what the run loop remembers of the machine's *)
(* units between collections, which failures and restart loops it tells,   *)
(* and which hours of the journal it counts.                               *)
(*                                                                         *)
(* systemd and its units are the environment: units fail, recover and      *)
(* restart while nobody looks, and one collection sees only where they     *)
(* ended up.  The D-Bus calls behind a collection may fail one by one.     *)
(* The lines of an event, the login services whose lines are withheld, and *)
(* whether a failure is told as an oom_kill are left out: they decide      *)
(* nothing here.                                                           *)
(*                                                                         *)
(* A moment is a natural number; 0 is Go's zero time, which a map also     *)
(* answers for a key it does not hold.  None is the missing key where the  *)
(* code tells the two apart.                                               *)
(***************************************************************************)
EXTENDS Integers, SequencesExt

CONSTANTS
    Units,         \* the .service units, as numbers in the order of their names
    MaxReads,      \* maxJournalReadsPerTick
    MaxEvents,     \* maxJournalEvents
    MaxHours,      \* maxJournalHours
    LoopRestarts,  \* loopRestarts
    LoopQuiet,     \* loopQuiet
    Day, Hour,     \* 24 hours and one hour, in steps of the clock
    Faults,        \* what may go wrong: see Fault
    Epoch,         \* the clock at first
    MaxTime,       \* bound: the clock at last
    MaxRestarts,   \* bound: a unit's restart counter, and the restarts noted against it
    MaxCrashes     \* bound: the times the agent's process ends

ASSUME LimitsAssumption ==
    /\ Units \subseteq Nat /\ IsFiniteSet(Units)
    /\ {MaxReads, MaxEvents, MaxHours, LoopRestarts, LoopQuiet, Day, Hour} \subseteq Nat \ {0}
    /\ {Epoch, MaxTime, MaxRestarts, MaxCrashes} \subseteq Nat
    /\ Faults \subseteq {"answer", "journal", "stamp", "counter", "enabled"}

\* Go's zero time is further back than any of the code's periods.
ASSUME EpochAssumption == Epoch >= LoopQuiet /\ Epoch >= 2 * Hour

VARIABLES
    now,           \* the clock
    state,         \* per unit: active or failed
    since,         \* per unit: when it failed, 0 while it is active
    count,         \* per unit: systemd's restart counter
    pc,            \* where the run loop is: collect, send or pushing
    status,        \* w.status: unknown until it is first asked
    failed,        \* w.failed
    restarts,      \* w.restarts
    restartTimes,  \* w.restartTimes
    loopSent,      \* w.loopSent
    events,        \* w.events
    hours,         \* w.hours
    counted,       \* w.counted
    crashes,       \* how often the process ended
    told,          \* history: the failures this process queued an event for
    backlog,       \* history: every event queued since a push landed
    landed,        \* history: the last hour this process delivered
    witnessed      \* history: a unit's restarts since it is watched, up to LoopRestarts

machine == <<now, state, since, count>>
memory  == <<failed, restarts, restartTimes, loopSent>>
queues  == <<events, hours, counted>>
history == <<told, backlog, landed, witnessed>>
vars == <<machine, pc, status, memory, queues, crashes, history>>

None == -1
Fault(f) == f \in Faults

\* The outcomes of a question that may go unanswered for any of S.
Unanswered(f, S) == IF Fault(f) THEN SUBSET S ELSE {{}}

\* What journalStatus may answer.
Statuses == {"readable"} \cup (IF Fault("journal") THEN {"unreadable"} ELSE {})

\* newJournalWatch, with nothing told.
Forgotten ==
    /\ status' = "unknown"
    /\ failed' = [u \in Units |-> None]
    /\ restarts' = [u \in Units |-> None]
    /\ restartTimes' = [u \in Units |-> <<>>]
    /\ loopSent' = [u \in Units |-> 0]
    /\ events' = <<>>
    /\ hours' = <<>>
    /\ counted' = 0
    /\ told' = {}
    /\ backlog' = <<>>
    /\ landed' = 0

Init ==
    /\ now = Epoch
    /\ state = [u \in Units |-> "active"]
    /\ since = [u \in Units |-> 0]
    /\ count = [u \in Units |-> 0]
    /\ pc = "collect"
    /\ status = "unknown"
    /\ failed = [u \in Units |-> None]
    /\ restarts = [u \in Units |-> None]
    /\ restartTimes = [u \in Units |-> <<>>]
    /\ loopSent = [u \in Units |-> 0]
    /\ events = <<>>
    /\ hours = <<>>
    /\ counted = 0
    /\ crashes = 0
    /\ told = {}
    /\ backlog = <<>>
    /\ landed = 0
    /\ witnessed = [u \in Units |-> 0]

-----------------------------------------------------------------------------
(* The machine, external to the repository.  systemd's clock tells any two *)
(* failures apart, so a failure takes a step of the clock.                 *)

Tick ==
    /\ now < MaxTime
    /\ now' = now + 1
    /\ UNCHANGED <<state, since, count, pc, status, memory, queues, crashes, history>>

\* The unit gives up: it failed, or systemd's limit on restarts was reached.
Fail(u) ==
    /\ state[u] = "active"
    /\ now < MaxTime
    /\ now' = now + 1
    /\ state' = [state EXCEPT ![u] = "failed"]
    /\ since' = [since EXCEPT ![u] = now']
    /\ UNCHANGED <<count, pc, status, memory, queues, crashes, history>>

\* systemctl start, restart or reset-failed: the counter begins again.
Recover(u) ==
    /\ state' = [state EXCEPT ![u] = "active"]
    /\ since' = [since EXCEPT ![u] = 0]
    /\ count' = [count EXCEPT ![u] = 0]
    /\ UNCHANGED <<now, pc, status, memory, queues, crashes, history>>

\* systemd restarts a unit that ended by itself.  Bounded by MaxRestarts, and by
\* an overflow of the events.
Restart(u) ==
    /\ state[u] = "active"
    /\ count[u] < MaxRestarts
    /\ Len(restartTimes[u]) < MaxRestarts
    /\ Len(backlog) <= MaxEvents
    /\ count' = [count EXCEPT ![u] = @ + 1]
    /\ witnessed' = [witnessed EXCEPT ![u] = IF @ < LoopRestarts THEN @ + 1 ELSE @]
    /\ UNCHANGED <<now, state, since, pc, status, memory, queues, crashes, told, backlog, landed>>

-----------------------------------------------------------------------------
(* One collection.  seen are the units in the list of services; mute those *)
(* whose StateChangedAt, and silent those whose Restarts was not answered. *)

\* The moment of a failure as the reading has it.
Moment(mute, u) == IF u \in mute THEN 0 ELSE since[u]

\* Mutant: a failure is new only if none was told.
NewFailureByUnit(mute, u) == state[u] = "failed" /\ failed[u] = None

NewFailure(mute, u) == state[u] = "failed" /\ failed[u] # Moment(mute, u)

\* Mutant: a unit met for the first time is taken to have had no restarts.
NotedFromZero(u) ==
    IF count[u] > Max({0, restarts[u]})
    THEN restartTimes[u] \o [i \in 1..Min({count[u] - Max({0, restarts[u]}), LoopRestarts}) |-> now]
    ELSE restartTimes[u]

\* Append, once per restart and at most LoopRestarts times, the present moment.
Noted(u) ==
    IF restarts[u] # None /\ count[u] > restarts[u]
    THEN restartTimes[u] \o [i \in 1..Min({count[u] - restarts[u], LoopRestarts}) |-> now]
    ELSE restartTimes[u]

\* What is noted of the last day, in its order.
Recent(u) ==
    LET noted == Noted(u)
        kept == {i \in DOMAIN noted : now - noted[i] < Day}
    IN  [k \in 1..Cardinality(kept) |->
            noted[CHOOSE i \in kept : Cardinality({j \in kept : j <= i}) = k]]

Looping(u) == Len(Recent(u)) >= LoopRestarts /\ now - loopSent[u] >= LoopQuiet

FailureEvents(seen, mute) ==
    {[unit |-> u, event |-> "failed", at |-> IF u \in mute THEN now ELSE since[u]] :
        u \in {v \in seen : NewFailure(mute, v)}}

LoopEvents(seen, silent) ==
    {[unit |-> u, event |-> "restart_loop", at |-> now] : u \in {v \in seen \ silent : Looping(v)}}

\* The services come failed ones first, then by name; a unit's failure comes
\* before its loop.
Before(d, e) ==
    LET rank(x) == <<IF state[x.unit] = "failed" THEN 0 ELSE 1, x.unit, IF x.event = "failed" THEN 0 ELSE 1>>
        r == rank(d)
        s == rank(e)
    IN  \/ r[1] < s[1]
        \/ r[1] = s[1] /\ r[2] < s[2]
        \/ r[1] = s[1] /\ r[2] = s[2] /\ r[3] < s[3]

Found(seen, mute, silent) ==
    LET all == FailureEvents(seen, mute) \cup LoopEvents(seen, silent)
    IN  [i \in 1..Cardinality(all) |->
            CHOOSE d \in all : Cardinality({e \in all : ~Before(d, e)}) = i]

\* The events that are read: the first few of what was found.
Read(found) == SubSeq(found, 1, Min({MaxReads, Len(found)}))

\* The newest limit elements of s.
Newest(s, limit) == SubSeq(s, Max({1, Len(s) - limit + 1}), Len(s))

\* Mutant: the loop that forgets leaves the times of restarts behind.
RememberTimes(seen, mute, silent) ==
    /\ failed' = [u \in Units |->
            IF u \in seen /\ state[u] = "failed" THEN Moment(mute, u) ELSE None]
    /\ restarts' = [u \in Units |->
            CASE u \notin seen -> None
              [] u \in silent -> restarts[u]
              [] OTHER -> count[u]]
    /\ restartTimes' = [u \in Units |-> IF u \in seen \ silent THEN Recent(u) ELSE restartTimes[u]]
    /\ loopSent' = [u \in Units |->
            CASE u \notin seen -> IF restarts[u] # None THEN 0 ELSE loopSent[u]
              [] u \in silent -> loopSent[u]
              [] OTHER -> IF Looping(u) THEN now ELSE loopSent[u]]

\* What a collection leaves in the four maps.  A unit that is no longer seen
\* is forgotten: by the loop over w.restarts, and by the one over w.failed.
Remember(seen, mute, silent) ==
    /\ failed' = [u \in Units |->
            IF u \in seen /\ state[u] = "failed" THEN Moment(mute, u) ELSE None]
    /\ restarts' = [u \in Units |->
            CASE u \notin seen -> None
              [] u \in silent -> restarts[u]
              [] OTHER -> count[u]]
    /\ restartTimes' = [u \in Units |->
            CASE u \notin seen -> IF restarts[u] # None THEN <<>> ELSE restartTimes[u]
              [] u \in silent -> restartTimes[u]
              [] OTHER -> Recent(u)]
    /\ loopSent' = [u \in Units |->
            CASE u \notin seen -> IF restarts[u] # None THEN 0 ELSE loopSent[u]
              [] u \in silent -> loopSent[u]
              [] OTHER -> IF Looping(u) THEN now ELSE loopSent[u]]

\* observeJournal with an answer from the services collector.
Observe(answer, seen, mute, silent) ==
    LET read == IF answer = "readable" THEN Read(Found(seen, mute, silent)) ELSE <<>>
    IN  /\ status' = answer
        /\ Remember(seen, mute, silent)
        /\ events' = Newest(events \o read, MaxEvents)
        /\ backlog' = backlog \o read
        /\ told' = told \cup {<<d.unit, since[d.unit]>> : d \in {e \in Range(read) : e.event = "failed"}}
        /\ witnessed' = [u \in Units |->
                IF u \notin seen \/ (restarts[u] = None /\ u \notin silent) THEN 0 ELSE witnessed[u]]

\* A failed unit is always in the list; another one is if systemd says that it
\* is enabled, which is one call per unit.
Collect ==
    /\ pc = "collect"
    /\ pc' = "send"
    /\ \E answer \in Statuses :
       \E left \in Unanswered("enabled", {u \in Units : state[u] # "failed"}) :
       \E mute \in Unanswered("stamp", Units \ left) :
       \E silent \in Unanswered("counter", Units \ left) :
            Observe(answer, Units \ left, mute, silent)
    /\ UNCHANGED <<machine, hours, counted, crashes, landed>>

\* Mutant: no answer is taken for an answer without units.
CollectUnansweredForgets ==
    /\ pc = "collect"
    /\ pc' = "send"
    /\ Fault("answer")
    /\ status' \in Statuses
    /\ failed' = [u \in Units |-> None]
    /\ UNCHANGED <<machine, restarts, restartTimes, loopSent, queues, crashes, history>>

\* observeJournal when the services collector did not answer; or the collection
\* failed as a whole, and observeJournal is not called.
CollectUnanswered ==
    /\ pc = "collect"
    /\ pc' = "send"
    /\ Fault("answer")
    /\ status' \in {status} \cup Statuses
    /\ UNCHANGED <<machine, memory, queues, crashes, history>>

-----------------------------------------------------------------------------
(* One push.  It is the run loop that decides when, see Agent.             *)

\* Mutant: the hour that is still running.
RunningHour == now \div Hour

\* The last hour that has ended.
EndedHour == (now \div Hour) - 1

\* journalForPush: the status is asked for if no collection did.
PushBegin ==
    /\ pc = "send"
    /\ pc' = "pushing"
    /\ status' \in IF status # "unknown" THEN {status}
                   ELSE Statuses
    /\ IF status' = "readable" /\ counted < EndedHour
       THEN /\ hours' = Newest(Append(hours, EndedHour), MaxHours)
            /\ counted' = EndedHour
       ELSE UNCHANGED <<hours, counted>>
    /\ UNCHANGED <<machine, memory, events, crashes, history>>

\* journalDelivered.
PushLands ==
    /\ pc = "pushing"
    /\ pc' = "collect"
    /\ events' = <<>>
    /\ hours' = <<>>
    /\ backlog' = <<>>
    /\ landed' = IF hours = <<>> THEN landed ELSE Last(hours)
    /\ UNCHANGED <<machine, status, memory, counted, crashes, told, witnessed>>

\* Mutant: the events are forgotten whatever became of the push.
PushFailsForgets ==
    /\ pc \in {"send", "pushing"}
    /\ pc' = "collect"
    /\ events' = <<>>
    /\ UNCHANGED <<machine, status, memory, hours, counted, crashes, history>>

\* The push failed, or there was nothing in the spool to push.
PushFails ==
    /\ pc \in {"send", "pushing"}
    /\ pc' = "collect"
    /\ UNCHANGED <<machine, status, memory, queues, crashes, history>>

\* The process ends and is started again: the watch is memory only.
Crash ==
    /\ crashes < MaxCrashes
    /\ crashes' = crashes + 1
    /\ pc' = "collect"
    /\ Forgotten
    /\ UNCHANGED <<machine, witnessed>>

Next ==
    \/ Tick
    \/ \E u \in Units : Fail(u) \/ Recover(u) \/ Restart(u)
    \/ Collect
    \/ CollectUnanswered
    \/ PushBegin
    \/ PushLands
    \/ PushFails
    \/ Crash

Spec == Init /\ [][Next]_vars

\* Every step of the loop ends, a push by its timeout at the latest, and the
\* services collector answers again and again.
Fairness ==
    /\ WF_vars(Collect \/ CollectUnanswered \/ PushBegin \/ PushLands \/ PushFails)
    /\ SF_vars(Collect)

FairSpec == Spec /\ Fairness

-----------------------------------------------------------------------------
(* Properties.                                                             *)

\* journal.go:126: a unit that stays failed is told once.  Whatever was queued,
\* delivered, dropped or failed in between, a failure that has been told is
\* not queued again by the process that told it.
ToldOnce ==
    [][\A i \in Len(backlog) + 1..Len(backlog') :
        backlog'[i].event = "failed" =>
            <<backlog'[i].unit, since[backlog'[i].unit]>> \notin told]_vars

\* journal.go:17: what waits for a push that lands is the newest of all that
\* was queued since the last one landed, through failed pushes and collections
\* in any order; nothing of it is lost below the limit and nothing landed stays.
NewestWait ==
    events = Newest(backlog, MaxEvents)

\* PAYLOAD.md:317: a loop is told for restarts that happened.  What is noted
\* against a unit never exceeds the restarts it had since it is watched,
\* although its counter starts again, goes unread, or the unit leaves the list
\* and comes back.
NoFalseLoop ==
    \A u \in Units : Min({Len(restartTimes[u]), LoopRestarts}) <= witnessed[u]

\* journal.go:235: an hour is counted once and after it has ended.  The hours
\* that wait ascend, come after every hour delivered, and are over.
HoursOnce ==
    /\ \A i \in 1..Len(hours) :
        /\ hours[i] > (IF i = 1 THEN landed ELSE hours[i - 1])
        /\ Hour * (hours[i] + 1) <= now
    /\ landed <= counted

\* journal.go:196: what is remembered of a unit's restarts ends with the watch
\* on it, so that a unit that comes back starts anew.
Forgets ==
    \A u \in Units : restarts[u] = None => restartTimes[u] = <<>> /\ loopSent[u] = 0

\* journal.go:14: where more failed at once than one collection reads, the rest
\* is told on the collections after.  A failure that a collection saw is told,
\* unless the unit recovers first or the process ends.
FailuresTold ==
    \A u \in Units :
        (failed[u] # None /\ state[u] = "failed")
            ~> (<<u, since[u]>> \in told \/ state[u] # "failed" \/ failed[u] = None)
=============================================================================
