---------------------------- MODULE UnitReading ----------------------------
(* How a reading asks systemd about its units: one connection to the bus   *)
(* under one deadline (internal/dbus/conn.go), questions asked in order,   *)
(* each answered by the reply that carries its serial, and the list that   *)
(* CollectUnits makes of the answers (internal/collect/services_linux.go). *)
(* Replies may come late or be errors, and signals come unasked.           *)
EXTENDS Integers, Sequences, FiniteSets, FiniteSetsExt, Functions

CONSTANTS
    UnitNames,      \* units, numbered in the order of their names
    EnabledUnits,   \* those set up to run
    Attempts,       \* messages read for one answer before giving up
    MaxServices,    \* the most units a reading carries
    MaxSignals      \* bound on signals the bus sends

ASSUME UnitAssumptions ==
    /\ UnitNames \subseteq Nat /\ IsFiniteSet(UnitNames) /\ UnitNames # {}
    /\ EnabledUnits \subseteq UnitNames
    /\ Attempts \in Nat \ {0} /\ MaxServices \in Nat \ {0}
    /\ MaxSignals \in Nat

VARIABLES
    broken,     \* systemd's own: the units that have failed when it lists them
    bus,        \* the connection: "closed", "hello", "open" or "dead"
    serial,     \* the serial of the last call
    owed,       \* the calls systemd has not answered: [serial, about]
    inbox,      \* messages on their way: [kind, serial, about, broken]
    member,     \* the question that is out, or "none"
    tries,      \* messages read for it
    signals,    \* signals sent so far
    listed,     \* u -> whether ListUnits said it had failed; <<>> before it did
    current, step,  \* the unit being asked about, and the place in its questions
    got,        \* question -> what it was asked about and what the answer kept for
                \* it is about, or NoAnswer; for the last unit asked about
    kept,       \* the units of the list being made
    services,   \* the list a reading got, in its order
    units       \* "none", "reading", "done" or "failed": CollectUnits

unitVars == <<broken, bus, serial, owed, inbox, member, tries, signals, listed,
              current, step, got, kept, services, units>>
list == <<listed, current, step, got, kept, services, units>>

NoAnswer == <<>>
Questions == {"enabled", "changed", "restarts", "memory", "result", "code", "status", "fragment"}
NoAnswers == [q \in Questions |-> NoAnswer]

UnitWorld == broken \in SUBSET UnitNames

UnitStart ==
    /\ bus = "closed" /\ serial = 0 /\ owed = {} /\ inbox = <<>>
    /\ member = "none" /\ tries = 0 /\ signals = 0
    /\ listed = <<>> /\ current = 0 /\ step = 1
    /\ got = NoAnswers /\ kept = {} /\ services = <<>> /\ units = "none"

UnitInit == UnitWorld /\ UnitStart

-----------------------------------------------------------------------------
(* The connection.                                                         *)

\* Dial and the text part of the handshake: accepted, or the collector fails.
Dial ==
    /\ units = "none"
    /\ \/ bus' = "hello" /\ units' = "reading"
       \/ bus' = "closed" /\ units' = "failed"
    /\ UNCHANGED <<broken, serial, owed, inbox, member, tries, signals, listed, current,
                   step, got, kept, services>>

\* The deadline of the whole exchange passes: every further call fails.
BusDies ==
    /\ bus \in {"hello", "open"}
    /\ bus' = "dead"
    /\ UNCHANGED <<broken, serial, owed, inbox, member, tries, signals, list>>

\* Call: a question goes out under a new serial, unless the deadline passed.
Ask(q) ==
    /\ member = "none" /\ units = "reading"
    /\ member' = q /\ serial' = serial + 1 /\ tries' = 0
    /\ owed' = IF bus = "dead" THEN owed
               ELSE owed \cup {[serial |-> serial', about |-> <<q, current>>]}
    /\ got' = IF step = 1 THEN NoAnswers ELSE got
    /\ UNCHANGED <<broken, bus, inbox, signals, listed, current, step, kept, services, units>>

\* systemd answers the calls in order, with a return or an error.
BusAnswers ==
    \E o \in owed, kind \in {"return", "error"} :
        /\ \A p \in owed : o.serial <= p.serial
        /\ owed' = owed \ {o}
        /\ inbox' = Append(inbox, [kind |-> kind, serial |-> o.serial,
                                   about |-> o.about,
                                   broken |-> IF o.about[1] = "list" THEN broken ELSE {}])
        /\ UNCHANGED <<broken, bus, serial, member, tries, signals, list>>

\* NameAcquired and the like, which answer nothing.
BusSignals ==
    /\ bus \in {"hello", "open"} /\ signals < MaxSignals
    /\ signals' = signals + 1
    /\ inbox' = Append(inbox, [kind |-> "signal", serial |-> 0,
                               about |-> NoAnswer, broken |-> {}])
    /\ UNCHANGED <<broken, bus, serial, owed, member, tries, list>>

AnswersAny(m) == m.kind # "signal"                      \* mutant of AnswersUs

\* readReply takes only what carries the serial of its own call.
AnswersUs(m) == m.kind # "signal" /\ m.serial = serial

Readable == member # "none" /\ bus # "dead" /\ inbox # <<>> /\ tries < Attempts

\* A message for somebody else is passed over.
PassOver ==
    /\ Readable /\ ~AnswersUs(Head(inbox))
    /\ inbox' = Tail(inbox) /\ tries' = tries + 1
    /\ UNCHANGED <<broken, bus, serial, owed, member, signals, list>>

\* The call returns what answered it, an error of the bus as an error.
Returned ==
    /\ Readable /\ AnswersUs(Head(inbox))
    /\ inbox' = Tail(inbox) /\ member' = "none"
    /\ UNCHANGED <<broken, serial, owed, tries, signals>>

\* The call fails: no answer among the messages read, or none in time.
Fails ==
    /\ member # "none" /\ (bus = "dead" \/ tries = Attempts)
    /\ member' = "none"
    /\ UNCHANGED <<broken, serial, owed, inbox, tries, signals>>

-----------------------------------------------------------------------------
(* CollectUnits.                                                           *)

\* What is asked about a unit: whether it is set up to run, unless it failed;
\* when it changed and what it counts; why it failed; and, of the units that
\* are in the list, the file it was loaded from.
Plan(u) == IF services # <<>> THEN <<"fragment">>
           ELSE IF listed[u] THEN <<"changed", "restarts", "memory", "result", "code", "status">>
           ELSE <<"enabled", "changed", "restarts", "memory">>

Abandoned ==
    /\ units' = "failed" /\ bus' = "closed"
    /\ UNCHANGED <<listed, current, step, got, kept, services>>

\* Hello and ListUnits: without an answer there is no list.
Question ==
    IF bus = "hello" THEN "hello"
    ELSE IF listed = <<>> THEN "list" ELSE Plan(current)[step]

Opened ==
    /\ member \in {"hello", "list"}
    /\ \/ /\ Returned
          /\ LET m == Head(inbox) IN
             IF m.kind = "error" THEN Abandoned
             ELSE IF member = "hello"
                  THEN bus' = "open" /\ UNCHANGED list
                  ELSE /\ listed' = [u \in UnitNames |-> u \in m.broken]
                       /\ current' = Min(UnitNames) /\ step' = 1
                       /\ UNCHANGED <<bus, got, kept, services, units>>
       \/ Fails /\ Abandoned

ByName(S) == [i \in 1..Cardinality(S) |-> CHOOSE u \in S : Cardinality({v \in S : v <= u}) = i]

FirstOf(order) == SubSeq(order, 1, Min({Len(order), MaxServices}))

PlainOrder(S) == FirstOf(ByName(S))                     \* mutant of SortServices

\* Failures first, then by name, and no more than the server takes.
SortServices(S) ==
    FirstOf(ByName({u \in S : listed[u]}) \o ByName({u \in S : ~listed[u]}))

\* The units that follow the current one: those of the bus, and then those of
\* the list.
Rest == {u \in UnitNames : u > current /\ (services # <<>> => u \in Range(services))}

Collected == units' = "done" /\ bus' = "closed" /\ UNCHANGED <<current, step>>

\* On to the next question or the next unit; then to the list, and over it once
\* more.
Advance(in) ==
    /\ kept' = IF in THEN kept \cup {current} ELSE kept
    /\ IF in /\ step < Len(Plan(current))
       THEN step' = step + 1 /\ UNCHANGED <<bus, current, services, units>>
       ELSE IF Rest # {}
       THEN current' = Min(Rest) /\ step' = 1 /\ UNCHANGED <<bus, services, units>>
       ELSE IF services = <<>> /\ kept' # {}
       THEN /\ services' = SortServices(kept')
            /\ current' = Min(Range(services')) /\ step' = 1
            /\ UNCHANGED <<bus, units>>
       ELSE Collected /\ UNCHANGED services
    /\ UNCHANGED listed

\* An answer about a unit is kept, and a call that failed costs only its
\* answer; but the code and the status a program ended with come as a pair, and
\* only if systemd has a record of it: else the code is zero.
KeepAnswer(answer) ==
    \E recorded \in BOOLEAN :
        LET paired == answer # NoAnswer /\ got["code"] # NoAnswer /\ recorded
        IN  got' = IF member = "status" /\ ~paired THEN [got EXCEPT !["code"] = NoAnswer]
                   ELSE [got EXCEPT ![member] = answer]

\* A unit not known to be set up to run is left out.
Noted ==
    /\ member \in Questions
    /\ \/ /\ Returned
          /\ LET m == Head(inbox) IN
             /\ KeepAnswer(IF m.kind = "error" THEN NoAnswer ELSE <<<<member, current>>, m.about>>)
             /\ Advance(member = "enabled" => m.kind = "return" /\ current \in EnabledUnits)
       \/ /\ Fails /\ KeepAnswer(NoAnswer)
          /\ Advance(member # "enabled")

UnitNext ==
    \/ Dial \/ BusDies \/ BusAnswers \/ BusSignals \/ PassOver
    \/ Ask(Question)
    \/ Opened \/ Noted

UnitSpec == UnitInit /\ [][UnitNext]_unitVars

-----------------------------------------------------------------------------
(* Properties                                                              *)

\* Every answer kept answers the question it is kept for, about that unit,
\* whatever signals and late replies the bus delivered in between; and no exit
\* status is told without the code that says how to read it.
AnswersMatched ==
    /\ \A q \in Questions : got[q] # NoAnswer => got[q][1] = got[q][2]
    /\ step = 1 => (got["code"] = NoAnswer) = (got["status"] = NoAnswer)

\* A unit that ListUnits said had failed is in the list that results, whichever
\* calls about it failed and whatever it has become since, as long as the list
\* has room for the failures.
FailuresListed ==
    units = "done" =>
        LET bad == {u \in UnitNames : listed[u]} IN
        Cardinality(bad) <= MaxServices => bad \subseteq Range(services)
=============================================================================
