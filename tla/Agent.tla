-------------------------------- MODULE Agent --------------------------------
(***************************************************************************)
(* internal/agent: the run loop.  It collects a reading, spools it, walks  *)
(* the disk when that is due, waits, and pushes what is waiting; it backs  *)
(* off, takes a cadence and a destination from the answers, and records    *)
(* what happened in the state file.  Around it: InfraNest at the other end *)
(* of a connection that loses answers, the `run --job` wrappers that write *)
(* reports into a folder at any time, and a process that may die between   *)
(* any two writes to the disk.                                             *)
(*                                                                         *)
(* Readings are numbered in the order they were collected (module Spool    *)
(* has the clock going back), reports in the order they were written.      *)
(* Time passes while the loop waits and while the process is down; a time  *)
(* stamp is kept as its age, which stops at UsageInterval: an older one,   *)
(* and none at all, mean the same to the loop.                             *)
(***************************************************************************)
EXTENDS SpoolNames

CONSTANTS
    Interval,           \* Config.Interval
    MinBackoff, MaxBackoff, MaxServerInterval, UsageInterval,
    MaxPerPush,         \* jobs.MaxPerPush: job reports on one push
    MaxWaiting,         \* jobs.MaxWaiting: job reports the folder may hold
    Urls, None,         \* the ways a destination is written, and "no URL"
    Valid,              \* those ValidateURL accepts
    Endpoint,           \* PushEndpoint: the push address a URL stands for
    Registrable,        \* the registrable domain of a URL's host
    Configs,            \* what INFRANEST_URL may say when the agent starts
    HasMounts,          \* TRUE: a reading lists a mount with a size
    Answers,            \* what may come back to a push: see Answer
    Faults,             \* the calls that may fail: see Fault
    MaxSeq,             \* bound: readings collected
    MaxReports,         \* bound: job reports written
    MaxStarts,          \* bound: times the process is started
    MaxHarm             \* bound: files one power cut may harm

Response == [status : Nat, inactive : BOOLEAN, settled : BOOLEAN,
             cadence : Nat, offer : Urls \cup {None}]

ASSUME TimesAssumption ==
    /\ Interval \in Nat \ {0} /\ MinBackoff \in Nat \ {0}
    /\ MaxBackoff \in Nat /\ MinBackoff <= MaxBackoff
    /\ MaxServerInterval \in Nat /\ UsageInterval \in Nat \ {0}
    /\ MaxPerPush \in Nat /\ MaxWaiting \in Nat
    /\ MaxSeq \in Nat /\ MaxReports \in Nat /\ MaxStarts \in Nat /\ MaxHarm \in Nat
    /\ HasMounts \in BOOLEAN

ASSUME UrlsAssumption ==
    /\ None \notin Urls
    /\ Valid \subseteq Urls /\ Configs \subseteq Urls
    /\ Endpoint \in [Urls -> Urls]
    /\ \A u \in Urls : /\ Endpoint[Endpoint[u]] = Endpoint[u]
                       /\ Registrable[Endpoint[u]] = Registrable[u]

ASSUME AnswersAssumption == Answers \subseteq Response

VARIABLES
    spool, damaged,     \* the readings on disk, and those ever harmed by a power cut
    folder, harmed,     \* the job reports in the folder, and those ever harmed by a power cut
    file, fileAge,      \* the state file, and the age of its LastUsageScanAt
    pc,                 \* where the run loop is
    config, url,        \* INFRANEST_URL of this run, where pushes go
    st, age,            \* State in memory, the age of its LastUsageScanAt
    backoff, serverInterval,
    mounts,             \* lastMounts names a mount to walk
    usage,              \* pendingUsage is set
    stopping,           \* the context is cancelled
    entries, waiting,   \* the readings and the reports on the push
    reply,              \* what came back to it
    seq,                \* the readings collected so far
    written,            \* the job reports written so far
    starts,             \* the times the process was started
    settled, taken,     \* the readings and reports InfraNest has decided on
    \* Kept for the properties, not by the code:
    committed, evicted, \* readings that reached the spool, and that made room
    stuck,              \* readings that a trim could not remove
    discarded,              \* reports Take removed: too old, too many, or a read of them failed
    denied              \* this run was refused and has not succeeded since

diskVars == <<spool, damaged, folder, harmed, file, fileAge>>
loopVars == <<config, url, st, age, backoff, serverInterval, mounts, usage, denied>>
pushVars == <<entries, waiting, reply>>
envVars == <<seq, written, starts, settled, taken, committed, evicted, stuck, discarded>>
vars == <<diskVars, pc, loopVars, stopping, pushVars, envVars>>

Places == {"down", "collect", "scan", "wait", "take", "push", "remove", "drop", "record"}
Errors == {"none", "unreachable", "rejected", "inactive", "refused", "error"}

State == [lastError : Errors, tokenRejected : BOOLEAN, tokenRejectedAt : BOOLEAN,
          notActivated : BOOLEAN, notActivatedAt : BOOLEAN,
          delivered : BOOLEAN, spoolError : BOOLEAN, url : Urls \cup {None}]

\* The zero State: also what LoadState makes of a missing or damaged file.  A
\* time stamp is TRUE when it is set.
Blank == [lastError |-> "none", tokenRejected |-> FALSE, tokenRejectedAt |-> FALSE,
          notActivated |-> FALSE, notActivatedAt |-> FALSE,
          delivered |-> FALSE, spoolError |-> FALSE, url |-> None]

\* No response at all: the request, or the answer to it, was lost.
Lost == [status |-> 0, inactive |-> FALSE, settled |-> FALSE, cadence |-> 0, offer |-> None]

Fault(call) == call \in Faults

\* What may be left of the files gone after each was removed by a call of its own.
Leftovers(gone) == IF Fault("remove") THEN SUBSET gone ELSE {{}}

Larger(a, b) == IF a > b THEN a ELSE b
Older(a, d) == IF a + d < UsageInterval THEN a + d ELSE UsageInterval

TypeOK ==
    /\ spool \subseteq Nat /\ damaged \subseteq Nat /\ folder \subseteq Nat
    /\ file \in State /\ st \in State
    /\ fileAge \in 0..UsageInterval /\ age \in 0..UsageInterval
    /\ pc \in Places
    /\ config \in Urls \cup {None} /\ url \in Urls \cup {None}
    /\ backoff \in 0..MaxBackoff /\ serverInterval \in 0..MaxServerInterval
    /\ mounts \in BOOLEAN /\ usage \in BOOLEAN
    /\ stopping \in BOOLEAN /\ denied \in BOOLEAN
    /\ entries \subseteq Nat /\ waiting \subseteq Nat /\ reply \in Response
    /\ seq \in Nat /\ written \in Nat /\ starts \in Nat
    /\ settled \subseteq Nat /\ taken \subseteq Nat
    /\ committed \subseteq Nat /\ evicted \subseteq Nat /\ stuck \subseteq Nat
    /\ harmed \subseteq Nat /\ discarded \subseteq Nat

-----------------------------------------------------------------------------
\* A machine that never ran the agent, or one with a state file from an older
\* version, which stored the origin the server had named (InfraNest#2462).
Init ==
    /\ pc = "down"
    /\ config = None /\ url = None
    /\ st = Blank /\ age = UsageInterval
    /\ backoff = 0 /\ serverInterval = 0
    /\ mounts = FALSE /\ usage = FALSE
    /\ stopping = FALSE /\ denied = FALSE
    /\ entries = {} /\ waiting = {} /\ reply = Lost
    /\ spool = {} /\ damaged = {} /\ folder = {} /\ harmed = {}
    /\ \E u \in Urls \cup {None} : file = [Blank EXCEPT !.url = u]
    /\ fileAge = UsageInterval
    /\ seq = 0 /\ written = 0 /\ starts = 0
    /\ settled = {} /\ taken = {} /\ committed = {} /\ evicted = {} /\ stuck = {}
    /\ discarded = {}

\* The process ends, and what it had in memory is gone.
End ==
    /\ pc' = "down"
    /\ config' = None /\ url' = None
    /\ st' = Blank /\ age' = UsageInterval
    /\ backoff' = 0 /\ serverInterval' = 0
    /\ mounts' = FALSE /\ usage' = FALSE
    /\ stopping' = FALSE /\ denied' = FALSE
    /\ entries' = {} /\ waiting' = {} /\ reply' = Lost

AdoptAsNamed(current, offered) ==                               \* mutant of Adopt
    IF offered \in Valid /\ Registrable[offered] = Registrable[current] THEN offered ELSE current

\* config.Adopt: the destination after an offer.
Adopt(current, offered) ==
    IF /\ offered \in Valid
       /\ Registrable[Endpoint[offered]] = Registrable[current]
    THEN Endpoint[offered]
    ELSE current

\* r.interval() and the wait between two rounds of the loop.
Cadence == Larger(Interval, serverInterval)
Wait == Larger(Cadence, backoff)

NextBackoffUncapped(current) ==                                 \* mutant of NextBackoff
    IF current = 0 THEN MinBackoff ELSE current * 2

NextBackoffWraps(current) ==                                    \* mutant of NextBackoff
    IF current = 0 \/ current * 2 > MaxBackoff THEN MinBackoff ELSE current * 2

NextBackoff(current) ==
    IF current = 0 THEN MinBackoff
    ELSE IF current * 2 > MaxBackoff THEN MaxBackoff ELSE current * 2

\* The state file is replaced as a whole, or the save failed and it is as it was.
Save(s, a) ==
    \/ file' = s /\ fileAge' = a
    \/ Fault("save") /\ UNCHANGED <<file, fileAge>>

-----------------------------------------------------------------------------
(* Run, up to its loop, d after the process ended: the state is loaded and *)
(* a destination it names is taken up again.                               *)
AsConfigured(c) == Endpoint[c]                                  \* mutant of Resume

Resume(c) == Adopt(Endpoint[c], file.url)

Start(c, d) ==
    /\ pc = "down" /\ starts < MaxStarts
    /\ starts' = starts + 1
    /\ config' = c
    /\ url' = Resume(c)
    /\ st' = file
    /\ fileAge' = Older(fileAge, d) /\ age' = Older(fileAge, d)
    /\ pc' = "collect"
    /\ UNCHANGED <<spool, damaged, folder, harmed, file, backoff, serverInterval, mounts,
                   usage, stopping, denied, pushVars, seq, written, settled, taken,
                   committed, evicted, stuck, discarded>>

\* collectOnce when the collector failed as a whole: nothing is recorded.
CollectFails ==
    /\ pc = "collect"
    /\ Fault("collect") \/ seq = MaxSeq
    /\ pc' = "scan"
    /\ UNCHANGED <<diskVars, loopVars, stopping, pushVars, envVars>>

\* Spool.trim: names[i] is removed, and where that fails the next one goes all
\* the same.
Trim(all) ==
    \E left \in Leftovers(Surplus(all)) :
      /\ spool' = all \ (Surplus(all) \ left)
      /\ evicted' = evicted \cup (Surplus(all) \ left)
      /\ stuck' = stuck \cup left

\* collectOnce: the reading is spooled and the spool trimmed, or that failed
\* before or after the reading was committed.
Collect ==
    /\ pc = "collect" /\ seq < MaxSeq
    /\ seq' = seq + 1
    /\ mounts' = HasMounts
    /\ LET all == spool \cup {seq'} IN
         \/ /\ Trim(all)
            /\ committed' = committed \cup {seq'}
            /\ st' = [st EXCEPT !.spoolError = FALSE]
         \/ /\ Fault("add")
            /\ \/ spool' = all /\ committed' = committed \cup {seq'}
               \/ UNCHANGED <<spool, committed>>
            /\ st' = [st EXCEPT !.spoolError = TRUE]
            /\ UNCHANGED <<evicted, stuck>>
    /\ Save(st', age)
    /\ pc' = "scan"
    /\ UNCHANGED <<damaged, folder, harmed, config, url, age, backoff, serverInterval,
                   usage, stopping, denied, pushVars, written, starts, settled, taken,
                   discarded>>

WalkDue == mounts /\ age >= UsageInterval

\* scanUsageIfDue: the time of the walk is noted in memory only.
Scan ==
    /\ pc = "scan"
    /\ IF WalkDue
       THEN usage' = TRUE /\ age' = 0
       ELSE UNCHANGED <<usage, age>>
    /\ pc' = "wait"
    /\ UNCHANGED <<diskVars, config, url, st, backoff, serverInterval, mounts, stopping,
                   denied, pushVars, seq, written, starts, settled, taken, committed,
                   evicted, stuck, discarded>>

\* The select: the timer fires, or the context was cancelled and Run returns.
Elapse ==
    /\ pc = "wait" /\ ~stopping
    /\ age' = Older(age, Wait) /\ fileAge' = Older(fileAge, Wait)
    /\ pc' = "take"
    /\ UNCHANGED <<spool, damaged, folder, harmed, file, config, url, st, backoff,
                   serverInterval, mounts, usage, stopping, denied, pushVars, seq, written,
                   starts, settled, taken, committed, evicted, stuck, discarded>>

ExitNever == FALSE                                              \* mutant of Exit

Exit ==
    /\ pc = "wait" /\ stopping
    /\ End
    /\ UNCHANGED <<diskVars, envVars>>

-----------------------------------------------------------------------------
(* sendOnce, when the spool could not be read: an error is returned and    *)
(* nothing is recorded.  Damaged files met on the way are gone already.    *)
TakeFails ==
    /\ pc = "take" /\ Fault("take")
    /\ \E D \in SUBSET (Oldest(spool, MaxBatch) \cap damaged) : spool' = spool \ D
    /\ backoff' = NextBackoff(backoff)
    /\ pc' = "collect"
    /\ UNCHANGED <<damaged, folder, harmed, file, fileAge, config, url, st, age,
                   serverInterval, mounts, usage, stopping, denied, pushVars, envVars>>

\* The head of the spool is read, what is damaged in it removed, and nothing
\* is left to send.
TakeNothing ==
    /\ pc = "take"
    /\ Oldest(spool, MaxBatch) \subseteq damaged
    /\ spool' = spool \ Oldest(spool, MaxBatch)
    /\ backoff' = 0 /\ denied' = FALSE
    /\ pc' = "collect"
    /\ UNCHANGED <<damaged, folder, harmed, file, fileAge, config, url, st, age,
                   serverInterval, mounts, usage, stopping, pushVars, envVars>>

\* jobs.Take: the reports that are too old and the oldest beyond MaxWaiting are
\* removed, and so is every one met on the way to a full push that is not a
\* report or could not be read, be it only this once.
TakeReports(old, unread) ==
    LET kept == (folder \ old) \ Excess(folder \ old, MaxWaiting)
        good == kept \ (harmed \cup unread)
        bad  == {j \in kept \ good : Cardinality({i \in good : i < j}) < MaxPerPush}
    IN \E left \in Leftovers((folder \ kept) \cup bad) :
         /\ folder' = (kept \ bad) \cup left
         /\ discarded' = discarded \cup (((folder \ kept) \cup (bad \ harmed)) \ left)
         /\ waiting' = Oldest(good, MaxPerPush)

\* A batch is sent, with the job reports in the folder and the pending walk (what
\* the journal says goes along and is that of module JournalWatch).
Take ==
    /\ pc = "take"
    /\ LET head == Oldest(spool, MaxBatch) IN
         /\ ~(head \subseteq damaged)
         /\ spool' = spool \ (head \cap damaged)
         /\ entries' = head \ damaged
    /\ \/ Fault("jobs") /\ waiting' = {} /\ UNCHANGED <<folder, discarded>>
       \/ \E old \in IF Fault("age") THEN SUBSET folder ELSE {{}},
             unread \in IF Fault("read") THEN SUBSET folder ELSE {{}} :
            TakeReports(old, unread)
    /\ pc' = "push"
    /\ UNCHANGED <<damaged, harmed, file, fileAge, config, url, st, age, backoff,
                   serverInterval, mounts, usage, stopping, denied, reply, seq, written,
                   starts, settled, taken, committed, evicted, stuck>>

-----------------------------------------------------------------------------
(* Client.Send: how a response is read.  The reason comes before the       *)
(* status, and a 2xx is a success whatever its body says.                  *)
Outcome(r) ==
    IF r = Lost THEN "unreachable"
    ELSE IF r.inactive THEN "inactive"
    ELSE IF r.status \in {401, 403} THEN "rejected"
    ELSE IF r.status \in 200..299 THEN "none"
    ELSE IF r.status = 422 THEN "refused"
    ELSE "error"

\* InfraNest decides on the whole batch: each reading is stored, or refused for
\* a reason that will not change.  On a 2xx it has the reports too.
Decides(withReports) ==
    /\ settled' = settled \cup entries
    /\ taken' = IF withReports THEN taken \cup waiting ELSE taken

AfterDrops(r) == IF Outcome(r) = "none" THEN "remove" ELSE "drop"           \* mutant of After

AfterOnlySuccess(r) == IF Outcome(r) = "none" THEN "remove" ELSE "record"   \* mutant of After

\* A success is cleaned up after; a refusal that named the readings drops them.
After(r) == IF Outcome(r) = "none" THEN "remove" ELSE IF r.settled THEN "drop" ELSE "record"

\* The answer arrives, or the 30 s are over.  An answer that was lost may have
\* been given; one that says nothing about the readings decided nothing.
Answer(r) ==
    /\ pc = "push"
    /\ reply' = r
    /\ \/ r.settled /\ Decides(Outcome(r) = "none")
       \/ r = Lost /\ Decides(TRUE)
       \/ ~r.settled /\ UNCHANGED <<settled, taken>>
    /\ pc' = After(r)
    /\ UNCHANGED <<diskVars, loopVars, stopping, entries, waiting, seq, written, starts,
                   committed, evicted, stuck, discarded>>

RemoveFolder ==                                                 \* mutant of RemoveReport
    /\ pc = "remove" /\ waiting # {}
    /\ waiting' = {} /\ folder' = {}
    /\ UNCHANGED <<spool, damaged, harmed, file, fileAge, pc, loopVars, stopping, entries,
                   reply, envVars>>

\* A push that landed: the reports leave the folder one by one, the walk is
\* forgotten.
RemoveReport ==
    /\ pc = "remove" /\ waiting # {}
    /\ \E j \in waiting :
         /\ waiting' = waiting \ {j}
         /\ \/ folder' = folder \ {j}
            \/ Fault("remove") /\ UNCHANGED folder
    /\ UNCHANGED <<spool, damaged, harmed, file, fileAge, pc, loopVars, stopping, entries,
                   reply, envVars>>

ReportsRemoved ==
    /\ pc = "remove" /\ waiting = {}
    /\ usage' = FALSE
    /\ pc' = "drop"
    /\ UNCHANGED <<diskVars, config, url, st, age, backoff, serverInterval, mounts,
                   stopping, denied, pushVars, envVars>>

\* Spool.Drop, file by file.
DropReading ==
    /\ pc = "drop" /\ entries # {}
    /\ \E n \in entries :
         /\ entries' = entries \ {n}
         /\ \/ spool' = spool \ {n}
            \/ Fault("remove") /\ UNCHANGED spool
    /\ UNCHANGED <<damaged, folder, harmed, file, fileAge, pc, loopVars, stopping, waiting,
                   reply, envVars>>

Dropped ==
    /\ pc = "drop" /\ entries = {}
    /\ pc' = "record"
    /\ UNCHANGED <<diskVars, loopVars, stopping, pushVars, envVars>>

-----------------------------------------------------------------------------
(* What an error leaves in the state; the times are those of the first     *)
(* refusal since a success.                                                *)
NotedStale(s, out) ==                                           \* mutant of Noted
    [s EXCEPT !.lastError = out,
              !.tokenRejected = @ \/ out = "rejected",
              !.tokenRejectedAt = @ \/ out = "rejected",
              !.notActivated = @ \/ out = "inactive",
              !.notActivatedAt = @ \/ out = "inactive"]

Noted(s, out) ==
    [s EXCEPT !.lastError = out,
              !.tokenRejected = (out = "rejected"),
              !.tokenRejectedAt = @ \/ out = "rejected",
              !.notActivated = (out = "inactive"),
              !.notActivatedAt = @ \/ out = "inactive"]

\* The rest of sendOnce after an error, and the backoff Run takes from it.
RecordFailure ==
    LET out == Outcome(reply) IN
    /\ pc = "record" /\ out # "none"
    /\ st' = Noted(st, out)
    /\ Save(st', age)
    /\ backoff' = IF out \in {"rejected", "inactive"} THEN MaxBackoff ELSE NextBackoff(backoff)
    /\ denied' = (denied \/ out \in {"rejected", "inactive"})
    /\ entries' = {} /\ waiting' = {} /\ reply' = Lost
    /\ pc' = "collect"
    /\ UNCHANGED <<spool, damaged, folder, harmed, config, url, age, serverInterval, mounts,
                   usage, stopping, envVars>>

ApplyAnyCadence(c) == IF c > Interval THEN c ELSE serverInterval    \* mutant of ApplyCadence

\* applyCadence: only slower than configured, and only up to the ceiling.
ApplyCadence(c) ==
    IF c <= MaxServerInterval /\ c > Interval THEN c ELSE serverInterval

\* The rest of sendOnce after a success.
RecordSuccess ==
    LET to == Adopt(url, reply.offer) IN
    /\ pc = "record" /\ Outcome(reply) = "none"
    /\ st' = [Blank EXCEPT !.delivered = TRUE,
                           !.spoolError = st.spoolError,
                           !.url = IF to # url THEN to ELSE st.url]
    /\ url' = to
    /\ serverInterval' = ApplyCadence(reply.cadence)
    /\ Save(st', age)
    /\ backoff' = 0 /\ denied' = FALSE
    /\ entries' = {} /\ waiting' = {} /\ reply' = Lost
    /\ pc' = "collect"
    /\ UNCHANGED <<spool, damaged, folder, harmed, config, age, mounts, usage, stopping,
                   envVars>>

-----------------------------------------------------------------------------
(* The process is asked to stop (a signal cancels the context), or dies.   *)
(* A power cut may harm files of the spool, job reports and the state      *)
(* file, which were renamed into place but never synced.                   *)
Cancel ==
    /\ pc # "down" /\ ~stopping /\ starts < MaxStarts
    /\ stopping' = TRUE
    /\ UNCHANGED <<diskVars, pc, loopVars, pushVars, envVars>>

Crash(D, R) ==
    /\ pc # "down" /\ starts < MaxStarts
    /\ Cardinality(D) + Cardinality(R) <= MaxHarm
    /\ damaged' = damaged \cup D /\ harmed' = harmed \cup R
    /\ \/ UNCHANGED <<file, fileAge>>
       \/ MaxHarm > 0 /\ file' = Blank /\ fileAge' = UsageInterval
    /\ End
    /\ UNCHANGED <<spool, folder, envVars>>

\* `infranest-agent run --job` leaves a report, whatever the agent is doing.
WriteReport ==
    /\ written < MaxReports
    /\ written' = written + 1
    /\ folder' = folder \cup {written'}
    /\ UNCHANGED <<spool, damaged, harmed, file, fileAge, pc, loopVars, stopping, pushVars,
                   seq, starts, settled, taken, committed, evicted, stuck, discarded>>

Loop ==
    \/ CollectFails \/ Collect \/ Scan \/ Elapse \/ Exit
    \/ TakeFails \/ TakeNothing \/ Take
    \/ \E r \in Answers : Answer(r)
    \/ RemoveReport \/ ReportsRemoved \/ DropReading \/ Dropped
    \/ RecordFailure \/ RecordSuccess

Restart == \E c \in Configs, d \in 0..UsageInterval : Start(c, d)

Next ==
    \/ Restart \/ Loop \/ Cancel \/ WriteReport
    \/ \E D \in SUBSET spool, R \in SUBSET folder : Crash(D, R)

Spec == Init /\ [][Next]_vars

\* The loop keeps running (the client's timeout ends every push), the service
\* manager starts it again, and InfraNest answers for good now and then.
Fairness ==
    /\ WF_vars(Loop)
    /\ WF_vars(Restart)
    /\ SF_vars(\E r \in Answers : r.settled /\ Answer(r))

FairSpec == Spec /\ Fairness

-----------------------------------------------------------------------------
(* Properties                                                              *)

\* A reading that reached the spool is still there until InfraNest has decided
\* on it, unless newer readings needed its place or a power cut harmed its
\* file: no lost answer, crash between the drops of a batch, or failed call
\* loses one.
NoReadingLost == committed \subseteq spool \cup settled \cup evicted \cup damaged

\* A reading makes room only for Max or more newer ones that reached the spool,
\* and what is older than one that made room and still held is there because
\* trim could not remove its own file: trim goes on past a failed removal, but
\* never further than the cap asks, whatever failed or was cut short before.
EvictsOldest ==
    \A e \in evicted :
      /\ Cardinality(Newer(committed, e)) >= Max
      /\ \A n \in spool : n < e => n \in stuck

\* A job report stays in the folder until InfraNest has it, unless it is too old
\* or one too many, a power cut harmed its file, or a read of it failed (Take
\* removes what it cannot read): one written while a push was out is not removed
\* with those the push carried, and a lost answer or a crash between two
\* removals costs none.
NoReportLost ==
    1..written \subseteq folder \cup taken \cup discarded \cup harmed

\* The token only ever goes to the push endpoint of a host of the domain the
\* operator configured, whatever the answers offered and whatever the state
\* file of an earlier run, of another configuration or of an older version
\* says (config.Adopt, InfraNest#2462).
Destination ==
    pc # "down" => /\ url = Endpoint[url]
                   /\ Registrable[url] = Registrable[config]

\* A migration survives a restart: where the state file names a destination
\* that may be adopted, pushes go there.
MigrationSurvives ==
    /\ pc # "down"
    /\ file.url \in Valid
    /\ Registrable[file.url] = Registrable[config]
    => url = Endpoint[file.url]

\* The loop never waits less than the operator's interval, and neither a
\* cadence from an answer nor the backoff parks it beyond their ceilings.
WaitBounded ==
    /\ Interval <= Wait
    /\ Cadence <= Larger(Interval, MaxServerInterval)
    /\ Wait <= Larger(Cadence, MaxBackoff)

\* Once a run was told that its token is not accepted or that monitoring is off,
\* it retries at the slow pace until a push succeeds or there is nothing left
\* to send, also when other errors come in between.
SlowAfterRefusal == pc = "wait" /\ denied => Wait >= MaxBackoff

\* What `status` shows hangs together, in memory and in the file a restart
\* loads: each refusal is flagged exactly when it was the last answer, has its
\* time, and leaves no trace after a push that succeeded.
Consistent(s) ==
    /\ s.tokenRejected <=> s.lastError = "rejected"
    /\ s.notActivated <=> s.lastError = "inactive"
    /\ s.tokenRejected => s.tokenRejectedAt
    /\ s.notActivated => s.notActivatedAt
    /\ s.lastError = "none" => ~s.tokenRejectedAt /\ ~s.notActivatedAt

StatusConsistent == Consistent(st) /\ Consistent(file)

\* Every reading in the spool leaves it, as long as InfraNest decides on a
\* batch now and then: nothing blocks the head of the spool, through crashes,
\* damaged files and lost answers.
Delivers == \A n \in 1..MaxSeq : n \in spool ~> n \notin spool

\* A cancelled context ends the run, also when it is cancelled while a push is
\* out or a batch is being dropped.
Stops == stopping ~> pc = "down"

-----------------------------------------------------------------------------
(* What a comment in the code says that it does not do; a run refutes it.  *)

\* run.go, interval: the larger of what the operator configured and what the
\* server, as last stated by a push response, says it stores.
CadenceFollowsServer ==
    [][RecordSuccess /\ reply.cadence \in 1..MaxServerInterval
        => Cadence' = Larger(Interval, reply.cadence)]_vars
=============================================================================
