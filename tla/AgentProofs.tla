----------------------------- MODULE AgentProofs -----------------------------
(***************************************************************************)
(* Theorems about the run loop, for every value of the constants.  What    *)
(* InfraNest and the disk do is bounded only by the assumptions of module  *)
(* Agent; the theorems on what is kept also assume that a 2xx comes from   *)
(* InfraNest (Genuine), and AgentPortal.cfg shows that they need it.       *)
(***************************************************************************)
EXTENDS Agent, FiniteSetTheorems, TLAPS

USE DEF diskVars, loopVars, pushVars, envVars

LEMMA OlderType ==
    ASSUME NEW a \in 0..UsageInterval, NEW d \in Nat
    PROVE  Older(a, d) \in 0..UsageInterval
BY TimesAssumption DEF Older

LEMMA AdoptType ==
    ASSUME NEW u \in Urls, NEW o
    PROVE  Adopt(u, o) \in Urls
BY UrlsAssumption DEF Adopt

LEMMA BackoffType ==
    ASSUME NEW b \in 0..MaxBackoff
    PROVE  NextBackoff(b) \in 0..MaxBackoff
BY TimesAssumption DEF NextBackoff

LEMMA WaitType == TypeOK => Wait \in Nat
BY TimesAssumption DEF TypeOK, Wait, Cadence, Larger

LEMMA NotedType ==
    ASSUME NEW s \in State, NEW out \in Errors
    PROVE  Noted(s, out) \in State
<1>1. PICK r \in BOOLEAN, i \in BOOLEAN, f \in BOOLEAN, g \in BOOLEAN :
        /\ r = (out = "rejected") /\ i = (out = "inactive")
        /\ f = (s.tokenRejectedAt \/ out = "rejected")
        /\ g = (s.notActivatedAt \/ out = "inactive")
  BY Zenon
<1>2. PICK a \in State : a = [s EXCEPT !.lastError = out]
  BY DEF State
<1>3. PICK b \in State : b = [a EXCEPT !.tokenRejected = r]
  BY DEF State
<1>4. PICK c \in State : c = [b EXCEPT !.tokenRejectedAt = f]
  BY DEF State
<1>5. PICK d \in State : d = [c EXCEPT !.notActivated = i]
  BY DEF State
<1>6. [d EXCEPT !.notActivatedAt = g] \in State
  BY DEF State
<1>7. Noted(s, out) = [d EXCEPT !.notActivatedAt = g]
  BY <1>1, <1>2, <1>3, <1>4, <1>5 DEF Noted, State
<1> QED  BY <1>6, <1>7

LEMMA OutcomeType == ASSUME NEW r PROVE Outcome(r) \in Errors
BY DEF Outcome, Errors

LEMMA SavedType ==
    ASSUME NEW s \in State, NEW a \in 0..UsageInterval, TypeOK, Save(s, a)
    PROVE  file' \in State /\ fileAge' \in 0..UsageInterval
BY DEF Save, TypeOK

LEMMA BlankType == Blank \in State /\ Lost \in Response
BY DEF Blank, Lost, State, Errors, Response

LEMMA EndType ==
    ASSUME End
    PROVE  /\ st' \in State /\ age' \in 0..UsageInterval
           /\ pc' \in Places /\ config' \in Urls \cup {None} /\ url' \in Urls \cup {None}
           /\ backoff' \in 0..MaxBackoff /\ serverInterval' \in 0..MaxServerInterval
           /\ mounts' \in BOOLEAN /\ usage' \in BOOLEAN
           /\ stopping' \in BOOLEAN /\ denied' \in BOOLEAN
           /\ entries' \subseteq Nat /\ waiting' \subseteq Nat /\ reply' \in Response
<1>1. /\ mounts' \in BOOLEAN /\ usage' \in BOOLEAN
      /\ stopping' \in BOOLEAN /\ denied' \in BOOLEAN
  BY Zenon DEF End
<1>2. /\ st' \in State /\ age' \in 0..UsageInterval
      /\ pc' \in Places /\ config' \in Urls \cup {None} /\ url' \in Urls \cup {None}
      /\ backoff' \in 0..MaxBackoff /\ serverInterval' \in 0..MaxServerInterval
      /\ entries' \subseteq Nat /\ waiting' \subseteq Nat /\ reply' \in Response
  BY BlankType, TimesAssumption DEF End, Places
<1> QED
  BY <1>1, <1>2

-----------------------------------------------------------------------------
(* A running agent has a configuration and a destination.                  *)
Running == pc # "down" => config \in Urls /\ url \in Urls

\* What jobs.Take makes of the folder comes out of the folder.
LEMMA TakenFrom ==
    ASSUME NEW old, NEW unread, TakeReports(old, unread)
    PROVE  /\ folder' \subseteq folder /\ waiting' \subseteq folder
           /\ discarded' \subseteq discarded \cup folder
           /\ folder \subseteq folder' \cup discarded' \cup harmed
           /\ discarded \subseteq discarded'
<1> DEFINE kept == (folder \ old) \ Excess(folder \ old, MaxWaiting)
           good == kept \ (harmed \cup unread)
           bad  == {j \in kept \ good : Cardinality({i \in good : i < j}) < MaxPerPush}
<1>1. kept \subseteq folder /\ good \subseteq kept /\ bad \subseteq kept
  OBVIOUS
<1>2. PICK left \in Leftovers((folder \ kept) \cup bad) :
        /\ folder' = (kept \ bad) \cup left
        /\ discarded' = discarded \cup (((folder \ kept) \cup (bad \ harmed)) \ left)
        /\ waiting' = Oldest(good, MaxPerPush)
  BY Zenon DEF TakeReports
<1>3. Oldest(good, MaxPerPush) \subseteq good
  BY DEF Oldest
<1> HIDE DEF kept, good, bad
<1>4. left \subseteq (folder \ kept) \cup bad
  BY <1>2 DEF Leftovers
<1> QED
  BY <1>1, <1>2, <1>3, <1>4

LEMMA TypeStep == TypeOK /\ Running /\ [Next]_vars => TypeOK' /\ Running'
<1> SUFFICES ASSUME TypeOK, Running, [Next]_vars
             PROVE  TypeOK' /\ Running'
  OBVIOUS
<1>1. ASSUME NEW c \in Configs, NEW d \in 0..UsageInterval, Start(c, d)
      PROVE  TypeOK' /\ Running'
  <2>1. c \in Urls /\ url' \in Urls
    BY <1>1, UrlsAssumption, AdoptType DEF Start, Resume
  <2>2. d \in Nat
    BY TimesAssumption
  <2>3. /\ fileAge' \in 0..UsageInterval /\ age' \in 0..UsageInterval
    BY <1>1, <2>2, OlderType DEF Start, TypeOK
  <2> QED
    BY <1>1, <2>1, <2>3 DEF Start, TypeOK, Running, Places
<1>2. CASE CollectFails
  BY <1>2 DEF CollectFails, TypeOK, Running, Places
<1>3. CASE Collect
  <2>1. st' \in State
    BY <1>3 DEF Collect, TypeOK, State
  <2>2. file' \in State /\ fileAge' \in 0..UsageInterval
    BY <1>3, <2>1, SavedType DEF Collect, TypeOK
  <2>3. /\ spool' \subseteq Nat /\ committed' \subseteq Nat /\ evicted' \subseteq Nat
        /\ seq' \in Nat /\ stuck' \subseteq Nat
    <3>1. seq' \in Nat /\ committed' \subseteq Nat /\ spool \cup {seq'} \subseteq Nat
      BY <1>3 DEF Collect, TypeOK
    <3>2. \/ UNCHANGED <<evicted, stuck>> /\ spool' \in {spool, spool \cup {seq'}}
          \/ Trim(spool \cup {seq'})
      BY <1>3 DEF Collect
    <3>3. Surplus(spool \cup {seq'}) \subseteq Nat
      BY <3>1 DEF Surplus, Excess
    <3> QED
      BY <3>1, <3>2, <3>3 DEF TypeOK, Trim, Leftovers
  <2> QED
    BY <1>3, <2>1, <2>2, <2>3, TimesAssumption DEF Collect, TypeOK, Running, Places
<1>4. CASE Scan
  <2>1. usage' \in BOOLEAN
    BY <1>4, Zenon DEF Scan, TypeOK
  <2> QED
    BY <1>4, <2>1, TimesAssumption DEF Scan, TypeOK, Running, Places
<1>5. CASE Elapse
  <2>1. /\ fileAge' \in 0..UsageInterval /\ age' \in 0..UsageInterval
    BY <1>5, OlderType, WaitType DEF Elapse, TypeOK
  <2> QED
    BY <1>5, <2>1 DEF Elapse, TypeOK, Running, Places
<1>6. CASE Exit
  BY <1>6, EndType DEF Exit, End, TypeOK, Running
<1>7. CASE TakeFails
  BY <1>7, BackoffType DEF TakeFails, TypeOK, Running, Places
<1>8. CASE TakeNothing
  <2>1. denied' \in BOOLEAN
    BY <1>8, Zenon DEF TakeNothing
  <2>2. backoff' = 0 /\ spool' = spool \ Oldest(spool, MaxBatch)
    BY <1>8, Zenon DEF TakeNothing
  <2>3. spool' \subseteq Nat
    BY <2>2, Zenon DEF TypeOK
  <2>4. backoff' \in 0..MaxBackoff
    BY <2>2, TimesAssumption
  <2> QED
    BY <1>8, <2>1, <2>3, <2>4 DEF TakeNothing, TypeOK, Running, Places
<1>9. CASE Take
  <2>1. spool' \subseteq Nat /\ entries' \subseteq Nat
    BY <1>9 DEF Take, TypeOK, Oldest
  <2>2. folder' \subseteq Nat /\ discarded' \subseteq Nat /\ waiting' \subseteq Nat
    <3>1. ASSUME NEW old, NEW unread, TakeReports(old, unread)
          PROVE  /\ folder' \subseteq folder /\ waiting' \subseteq folder
                 /\ discarded' \subseteq discarded \cup folder
      BY <3>1, TakenFrom
    <3>2. \/ waiting' = {} /\ UNCHANGED <<folder, discarded>>
          \/ \E old, unread : TakeReports(old, unread)
      BY <1>9 DEF Take
    <3> QED
      BY <3>1, <3>2 DEF TypeOK
  <2> QED
    BY <1>9, <2>1, <2>2 DEF Take, TypeOK, Running, Places
<1>10. ASSUME NEW r \in Answers, Answer(r)
       PROVE  TypeOK' /\ Running'
  <2>1. settled' \subseteq Nat /\ taken' \subseteq Nat
    BY <1>10 DEF Answer, Decides, TypeOK
  <2> QED
    BY <1>10, <2>1, AnswersAssumption DEF Answer, After, TypeOK, Running, Places
<1>11. CASE RemoveReport
  BY <1>11 DEF RemoveReport, TypeOK, Running
<1>12. CASE ReportsRemoved
  BY <1>12 DEF ReportsRemoved, TypeOK, Running, Places
<1>13. CASE DropReading
  BY <1>13 DEF DropReading, TypeOK, Running
<1>14. CASE Dropped
  BY <1>14 DEF Dropped, TypeOK, Running, Places
<1>15. CASE RecordFailure
  <2>1. st' \in State
    BY <1>15, NotedType, OutcomeType DEF RecordFailure, TypeOK
  <2>2. file' \in State /\ fileAge' \in 0..UsageInterval
    BY <1>15, <2>1, SavedType DEF RecordFailure, TypeOK
  <2>3. backoff' \in 0..MaxBackoff
    BY <1>15, BackoffType, TimesAssumption DEF RecordFailure, TypeOK
  <2> QED
    BY <1>15, <2>1, <2>2, <2>3, BlankType DEF RecordFailure, TypeOK, Running, Places
<1>16. CASE RecordSuccess
  <2>1. url' \in Urls
    BY <1>16, AdoptType DEF RecordSuccess, Running
  <2>2. st' \in State
    <3>1. \A u \in Urls \cup {None}, b \in BOOLEAN :
            [Blank EXCEPT !.delivered = TRUE, !.spoolError = b, !.url = u] \in State
      BY DEF State, Blank, Errors
    <3>2. st.spoolError \in BOOLEAN /\ st.url \in Urls \cup {None}
      BY DEF TypeOK, State
    <3> QED
      BY <1>16, <2>1, <3>1, <3>2 DEF RecordSuccess
  <2>3. file' \in State /\ fileAge' \in 0..UsageInterval
    BY <1>16, <2>2, SavedType DEF RecordSuccess, TypeOK
  <2>4. serverInterval' \in 0..MaxServerInterval /\ backoff' \in 0..MaxBackoff
    BY <1>16, TimesAssumption DEF RecordSuccess, ApplyCadence, TypeOK, Response
  <2> QED
    BY <1>16, <2>1, <2>2, <2>3, <2>4, BlankType DEF RecordSuccess, TypeOK, Running, Places
<1>17. CASE Cancel
  BY <1>17 DEF Cancel, TypeOK, Running
<1>18. ASSUME NEW D \in SUBSET spool, NEW R \in SUBSET folder, Crash(D, R)
       PROVE  TypeOK' /\ Running'
  <2>1. file' \in State /\ fileAge' \in 0..UsageInterval
    BY <1>18, BlankType, TimesAssumption DEF Crash, TypeOK
  <2> QED
    BY <1>18, <2>1, EndType DEF Crash, End, TypeOK, Running
<1>19. CASE WriteReport
  BY <1>19 DEF WriteReport, TypeOK, Running
<1>20. CASE UNCHANGED vars
  BY <1>20 DEF vars, TypeOK, Running
<1> QED
  BY <1>1, <1>2, <1>3, <1>4, <1>5, <1>6, <1>7, <1>8, <1>9, <1>10, <1>11, <1>12, <1>13,
     <1>14, <1>15, <1>16, <1>17, <1>18, <1>19, <1>20 DEF Next, Loop, Restart

LEMMA TypeInit == Init => TypeOK /\ Running
<1> SUFFICES ASSUME Init PROVE TypeOK /\ Running
  OBVIOUS
<1>1. file \in State
  BY BlankType DEF Init, State
<1>2. /\ mounts \in BOOLEAN /\ usage \in BOOLEAN
      /\ stopping \in BOOLEAN /\ denied \in BOOLEAN
  BY Zenon DEF Init
<1> QED
  BY <1>1, <1>2, BlankType, TimesAssumption DEF Init, TypeOK, Running, Places

\* The state of the run loop, of the state file and of everything around them
\* stays well-formed: in particular no sequence of errors takes the backoff
\* beyond its ceiling, and no answer the server's cadence beyond its own.
THEOREM TypeCorrect == Spec => []TypeOK
<1>1. Spec => [](TypeOK /\ Running)
  BY TypeInit, TypeStep, PTL DEF Spec
<1> QED
  BY <1>1, PTL

-----------------------------------------------------------------------------
(* What is on the push is decided on before it is removed from the disk.   *)
Genuine == \A r \in Answers : Outcome(r) = "none" => r.settled

Kept ==
    /\ NoReadingLost
    /\ NoReportLost
    /\ pc \in {"remove", "drop"} => entries \subseteq settled
    /\ pc = "remove" => waiting \subseteq taken

LEMMA KeptStep ==
    ASSUME Genuine, TypeOK, Kept, [Next]_vars
    PROVE  Kept'
<1> USE DEF NoReadingLost, NoReportLost
<1>1. ASSUME NEW c \in Configs, NEW d \in 0..UsageInterval, Start(c, d)
      PROVE  Kept'
  BY <1>1 DEF Start, Kept
<1>2. CASE CollectFails
  BY <1>2 DEF CollectFails, Kept
<1>3. CASE Collect
  BY <1>3 DEF Collect, Trim, Kept
<1>4. CASE Scan
  BY <1>4 DEF Scan, Kept
<1>5. CASE Elapse
  BY <1>5 DEF Elapse, Kept
<1>6. CASE Exit
  BY <1>6 DEF Exit, End, Kept
<1>7. CASE TakeFails
  BY <1>7 DEF TakeFails, Kept
<1>8. CASE TakeNothing
  BY <1>8 DEF TakeNothing, Kept
<1>9. CASE Take
  <2>1. NoReadingLost'
    BY <1>9 DEF Take, Kept
  <2>2. NoReportLost'
    <3>1. ASSUME NEW old, NEW unread, TakeReports(old, unread)
          PROVE  /\ folder \subseteq folder' \cup discarded' \cup harmed
                 /\ discarded \subseteq discarded'
      BY <3>1, TakenFrom
    <3>2. \/ UNCHANGED <<folder, discarded>>
          \/ \E old, unread : TakeReports(old, unread)
      BY <1>9 DEF Take
    <3>3. UNCHANGED <<harmed, taken, written>>
      BY <1>9 DEF Take
    <3> QED
      BY <3>1, <3>2, <3>3 DEF Kept
  <2> QED
    BY <1>9, <2>1, <2>2 DEF Take, Kept
<1>10. ASSUME NEW r \in Answers, Answer(r)
       PROVE  Kept'
  <2>1. NoReadingLost' /\ NoReportLost'
    BY <1>10 DEF Answer, Decides, Kept
  <2>2. pc' \in {"remove", "drop"} => r.settled
    BY <1>10 DEF Answer, After, Genuine
  <2>3. r.settled => r # Lost
    BY DEF Lost
  <2>4. r.settled => entries' \subseteq settled' /\ Decides(Outcome(r) = "none")
    BY <1>10, <2>3 DEF Answer, Decides
  <2>5. pc' = "remove" => Outcome(r) = "none"
    BY <1>10 DEF Answer, After
  <2>6. pc' = "remove" => waiting' \subseteq taken'
    BY <1>10, <2>2, <2>4, <2>5 DEF Answer, Decides
  <2> QED
    BY <2>1, <2>2, <2>4, <2>6 DEF Kept
<1>11. CASE RemoveReport
  BY <1>11 DEF RemoveReport, Kept
<1>12. CASE ReportsRemoved
  BY <1>12 DEF ReportsRemoved, Kept
<1>13. CASE DropReading
  BY <1>13 DEF DropReading, Kept
<1>14. CASE Dropped
  BY <1>14 DEF Dropped, Kept
<1>15. CASE RecordFailure
  BY <1>15 DEF RecordFailure, Kept
<1>16. CASE RecordSuccess
  BY <1>16 DEF RecordSuccess, Kept
<1>17. CASE Cancel
  BY <1>17 DEF Cancel, Kept
<1>18. ASSUME NEW D \in SUBSET spool, NEW R \in SUBSET folder, Crash(D, R)
       PROVE  Kept'
  BY <1>18 DEF Crash, End, Kept
<1>19. CASE WriteReport
  BY <1>19 DEF WriteReport, Kept, TypeOK
<1>20. CASE UNCHANGED vars
  BY <1>20 DEF vars, Kept
<1> QED
  BY <1>1, <1>2, <1>3, <1>4, <1>5, <1>6, <1>7, <1>8, <1>9, <1>10, <1>11, <1>12, <1>13,
     <1>14, <1>15, <1>16, <1>17, <1>18, <1>19, <1>20 DEF Next, Loop, Restart

LEMMA KeptInit == Init => Kept
BY DEF Init, Kept, NoReadingLost, NoReportLost

\* Where every 2xx comes from InfraNest, no reading that reached the spool is
\* lost: sendOnce drops a batch only after a verdict on it, wherever the process
\* dies and whichever calls fail.
THEOREM ReadingsKept == ASSUME Genuine PROVE Spec => []NoReadingLost
<1>1. TypeOK /\ Running /\ Kept /\ [Next]_vars => TypeOK' /\ Running' /\ Kept'
  BY TypeStep, KeptStep
<1>2. Init => TypeOK /\ Running /\ Kept
  BY TypeInit, KeptInit
<1>3. Kept => NoReadingLost
  BY DEF Kept
<1> QED
  BY <1>1, <1>2, <1>3, PTL DEF Spec

\* Under the same assumption a job report is lost only in the ways NoReportLost
\* names, whichever files a power cut harms and whichever reads and removals
\* fail: jobs.Remove only touches the files the push that landed carried.
THEOREM ReportsKept == ASSUME Genuine PROVE Spec => []NoReportLost
<1>1. TypeOK /\ Running /\ Kept /\ [Next]_vars => TypeOK' /\ Running' /\ Kept'
  BY TypeStep, KeptStep
<1>2. Init => TypeOK /\ Running /\ Kept
  BY TypeInit, KeptInit
<1>3. Kept => NoReportLost
  BY DEF Kept
<1> QED
  BY <1>1, <1>2, <1>3, PTL DEF Spec

-----------------------------------------------------------------------------
(* Trimming.  Names are given out in increasing order, so what is evicted  *)
(* now is older than what stays and than everything still to come.         *)
LEMMA ExcessIsOldest ==
    ASSUME NEW S \in SUBSET Nat, IsFiniteSet(S), NEW k \in Nat,
           NEW e \in Excess(S, k), NEW n \in S \ Excess(S, k)
    PROVE  e < n
<1> SUFFICES ASSUME ~(e < n) PROVE FALSE
  OBVIOUS
<1>1. e \in S /\ e \in Nat /\ n \in Nat /\ n <= e
  BY DEF Excess
<1>2. Newer(S, e) \subseteq Newer(S, n)
  <2>1. ASSUME NEW m \in S, m > e PROVE m > n
    BY <1>1, <2>1
  <2> QED
    BY <2>1 DEF Newer
<1>3. IsFiniteSet(Newer(S, n)) /\ IsFiniteSet(Newer(S, e))
  BY FS_Subset DEF Newer
<1>4. /\ Cardinality(Newer(S, e)) <= Cardinality(Newer(S, n))
      /\ Cardinality(Newer(S, e)) \in Nat /\ Cardinality(Newer(S, n)) \in Nat
  BY <1>2, <1>3, FS_Subset, FS_CardinalityType
<1>5. Cardinality(Newer(S, e)) >= k /\ ~(Cardinality(Newer(S, n)) >= k)
  BY DEF Excess
<1> QED
  BY <1>4, <1>5

Ordered ==
    /\ spool \subseteq committed /\ committed \subseteq 1..seq
    /\ evicted \subseteq committed
    /\ EvictsOldest

\* Where nothing comes into the spool, nothing changes about what made room.
LEMMA OrderedKept ==
    ASSUME Ordered, spool' \subseteq spool, UNCHANGED <<seq, committed, evicted, stuck>>
    PROVE  Ordered'
BY DEF Ordered, EvictsOldest, Newer

\* More newer readings are known of as more are committed.
LEMMA NewerGrows ==
    ASSUME NEW S, NEW T, S \subseteq T, IsFiniteSet(T), NEW e, Cardinality(Newer(S, e)) >= Max
    PROVE  Cardinality(Newer(T, e)) >= Max
<1>1. Newer(S, e) \subseteq Newer(T, e) /\ Newer(T, e) \subseteq T
  BY DEF Newer
<1>2. IsFiniteSet(Newer(T, e))
  BY <1>1, FS_Subset
<1>3. /\ Cardinality(Newer(S, e)) <= Cardinality(Newer(T, e))
      /\ Cardinality(Newer(S, e)) \in Nat /\ Cardinality(Newer(T, e)) \in Nat
  BY <1>1, <1>2, FS_Subset, FS_CardinalityType
<1> QED
  BY <1>3, BoundsAssumption

LEMMA TrimOrders ==
    ASSUME NEW all \in SUBSET Nat, IsFiniteSet(all), Trim(all),
           NEW e \in evicted' \ evicted
    PROVE  /\ e \in all /\ Cardinality(Newer(all, e)) >= Max
           /\ \A n \in spool' : n < e => n \in stuck'
<1>1. PICK left \in Leftovers(Surplus(all)) :
        /\ spool' = all \ (Surplus(all) \ left)
        /\ evicted' = evicted \cup (Surplus(all) \ left)
        /\ stuck' = stuck \cup left
  BY DEF Trim
<1>2. e \in Surplus(all)
  BY <1>1
<1>3. e \in all /\ Cardinality(Newer(all, e)) >= Max
  BY <1>2 DEF Surplus, Excess
<1>4. ASSUME NEW n \in spool', n < e
      PROVE  n \in stuck'
  <2>1. n \in all /\ n \in Nat /\ e \in Nat
    BY <1>1, <1>3
  <2>2. n \in all \ Surplus(all) => e < n
    BY <1>2, ExcessIsOldest, BoundsAssumption DEF Surplus
  <2>3. n \in Surplus(all)
    BY <1>4, <2>1, <2>2
  <2> QED
    BY <1>1, <2>3
<1> QED
  BY <1>3, <1>4

\* The part of Ordered that speaks of one reading that made room.
LEMMA StillOrdered ==
    ASSUME Ordered, TypeOK, NEW e \in evicted, seq' = seq + 1,
           spool' \subseteq spool \cup {seq'}, stuck \subseteq stuck',
           committed \subseteq committed', committed' \subseteq 1..seq'
    PROVE  /\ Cardinality(Newer(committed', e)) >= Max
           /\ \A n \in spool' : n < e => n \in stuck'
<1>1. /\ Cardinality(Newer(committed, e)) >= Max
      /\ \A n \in spool : n < e => n \in stuck
      /\ seq \in Nat /\ e \in 1..seq
  BY DEF Ordered, EvictsOldest, TypeOK
<1>2. IsFiniteSet(committed')
  <2>1. seq' \in Nat /\ 1 \in Nat
    BY <1>1
  <2>2. IsFiniteSet(1..seq')
    BY <2>1, FS_Interval
  <2> QED
    BY <2>2, FS_Subset, Zenon
<1>3. Cardinality(Newer(committed', e)) >= Max
  BY <1>1, <1>2, NewerGrows
<1>4. ~(seq' < e)
  BY <1>1
<1> QED
  BY <1>1, <1>3, <1>4

LEMMA CollectOrders ==
    ASSUME TypeOK, Ordered, Collect
    PROVE  Ordered'
<1> DEFINE all == spool \cup {seq'}
<1>1. /\ seq \in Nat /\ seq' = seq + 1
      /\ all \subseteq Nat /\ all \subseteq 1..seq' /\ committed \subseteq 1..seq'
  BY DEF Collect, Ordered, TypeOK
<1>2. IsFiniteSet(1..seq')
  BY <1>1, FS_Interval
<1>3. CASE Trim(all) /\ committed' = committed \cup {seq'}
  <2>1. Surplus(all) \subseteq all
    BY DEF Surplus, Excess
  <2>2. PICK left \in Leftovers(Surplus(all)) :
          /\ spool' = all \ (Surplus(all) \ left)
          /\ evicted' = evicted \cup (Surplus(all) \ left)
          /\ stuck' = stuck \cup left
    BY <1>3 DEF Trim
  <2>3. all \subseteq committed' /\ committed' \subseteq 1..seq' /\ evicted \subseteq committed'
    BY <1>1, <1>3 DEF Ordered
  <2>4. IsFiniteSet(all) /\ IsFiniteSet(committed')
    BY <1>1, <1>2, <2>3, FS_Subset
  <2>5. spool' \subseteq all /\ evicted' \subseteq committed' /\ stuck \subseteq stuck'
    BY <2>1, <2>2, <2>3
  <2>6. ASSUME NEW e \in evicted'
        PROVE  /\ Cardinality(Newer(committed', e)) >= Max
               /\ \A n \in spool' : n < e => n \in stuck'
    <3>1. CASE e \in evicted
      BY <1>1, <1>3, <2>3, <2>5, <3>1, StillOrdered
    <3>2. CASE e \notin evicted
      <4>1. /\ Cardinality(Newer(all, e)) >= Max
            /\ \A n \in spool' : n < e => n \in stuck'
        BY <1>1, <1>3, <2>4, <3>2, TrimOrders
      <4> QED
        BY <2>3, <2>4, <4>1, NewerGrows
    <3> QED
      BY <3>1, <3>2
  <2> QED
    BY <2>3, <2>5, <2>6 DEF Ordered, EvictsOldest
<1>4. CASE /\ UNCHANGED <<evicted, stuck>>
           /\ \/ spool' = all /\ committed' = committed \cup {seq'}
              \/ UNCHANGED <<spool, committed>>
  <2>1. /\ spool' \subseteq committed' /\ committed' \subseteq 1..seq'
        /\ committed \subseteq committed' /\ spool' \subseteq spool \cup {seq'}
        /\ evicted' \subseteq committed'
    BY <1>1, <1>4 DEF Ordered
  <2>2. ASSUME NEW e \in evicted'
        PROVE  /\ Cardinality(Newer(committed', e)) >= Max
               /\ \A n \in spool' : n < e => n \in stuck'
    BY <1>1, <1>4, <2>1, StillOrdered
  <2> QED
    BY <2>1, <2>2 DEF Ordered, EvictsOldest
<1> QED
  BY <1>3, <1>4 DEF Collect

LEMMA OrderedStep ==
    ASSUME TypeOK, Ordered, [Next]_vars
    PROVE  Ordered'
<1>1. CASE Collect
  BY <1>1, CollectOrders
<1>2. ASSUME NEW c \in Configs, NEW d \in 0..UsageInterval, Start(c, d)
      PROVE  Ordered'
  BY <1>2, OrderedKept DEF Start
<1>3. CASE CollectFails \/ Scan \/ Elapse \/ Exit
  BY <1>3, OrderedKept DEF CollectFails, Scan, Elapse, Exit
<1>4. CASE TakeFails \/ TakeNothing \/ Take
  BY <1>4, OrderedKept DEF TakeFails, TakeNothing, Take
<1>5. ASSUME NEW r \in Answers, Answer(r)
      PROVE  Ordered'
  BY <1>5, OrderedKept DEF Answer
<1>6. CASE RemoveReport \/ ReportsRemoved \/ DropReading \/ Dropped
  BY <1>6, OrderedKept DEF RemoveReport, ReportsRemoved, DropReading, Dropped
<1>7. CASE RecordFailure \/ RecordSuccess \/ Cancel \/ WriteReport \/ UNCHANGED vars
  BY <1>7, OrderedKept DEF RecordFailure, RecordSuccess, Cancel, WriteReport, vars
<1>8. ASSUME NEW D \in SUBSET spool, NEW R \in SUBSET folder, Crash(D, R)
      PROVE  Ordered'
  BY <1>8, OrderedKept DEF Crash
<1> QED
  BY <1>1, <1>2, <1>3, <1>4, <1>5, <1>6, <1>7, <1>8 DEF Next, Loop, Restart

\* For any cap and any history of trims, of which any removal may have failed, a
\* reading was given up only for Max newer ones, and no older one outlives it but
\* those whose own removal failed.
THEOREM OldestEvicted == Spec => []EvictsOldest
<1>1. TypeOK /\ Running /\ Ordered /\ [Next]_vars => TypeOK' /\ Running' /\ Ordered'
  BY TypeStep, OrderedStep
<1>2. Init => TypeOK /\ Running /\ Ordered
  BY TypeInit DEF Init, Ordered, EvictsOldest
<1>3. Ordered => EvictsOldest
  BY DEF Ordered
<1> QED
  BY <1>1, <1>2, <1>3, PTL DEF Spec

-----------------------------------------------------------------------------
(* The destination.                                                        *)
LEMMA AdoptKeepsDomain ==
    ASSUME NEW u \in Urls, u = Endpoint[u], NEW o
    PROVE  LET to == Adopt(u, o) IN
             /\ to \in Urls /\ to = Endpoint[to]
             /\ Registrable[to] = Registrable[u]
BY UrlsAssumption DEF Adopt

LEMMA DestinationStep ==
    ASSUME TypeOK, Running, Destination, [Next]_vars
    PROVE  Destination'
<1>1. ASSUME NEW c \in Configs, NEW d \in 0..UsageInterval, Start(c, d)
      PROVE  Destination'
  <2>1. c \in Urls /\ Endpoint[c] \in Urls /\ Endpoint[c] = Endpoint[Endpoint[c]]
        /\ Registrable[Endpoint[c]] = Registrable[c]
    BY UrlsAssumption
  <2> QED
    BY <1>1, <2>1, AdoptKeepsDomain DEF Start, Resume, Destination
<1>2. CASE RecordSuccess
  <2>1. pc # "down" /\ url \in Urls
    BY <1>2 DEF RecordSuccess, Running
  <2> QED
    BY <1>2, <2>1, AdoptKeepsDomain DEF RecordSuccess, Destination
<1>3. CASE Exit
  BY <1>3 DEF Exit, End, Destination
<1>4. ASSUME NEW D \in SUBSET spool, NEW R \in SUBSET folder, Crash(D, R)
      PROVE  Destination'
  BY <1>4 DEF Crash, End, Destination
<1>5. CASE CollectFails \/ Collect \/ Scan \/ Elapse
  BY <1>5 DEF CollectFails, Collect, Scan, Elapse, Destination
<1>6. CASE TakeFails \/ TakeNothing \/ Take
  BY <1>6 DEF TakeFails, TakeNothing, Take, Destination
<1>7. ASSUME NEW r \in Answers, Answer(r)
      PROVE  Destination'
  BY <1>7 DEF Answer, Destination
<1>8. CASE RemoveReport \/ ReportsRemoved \/ DropReading \/ Dropped \/ RecordFailure
  BY <1>8 DEF RemoveReport, ReportsRemoved, DropReading, Dropped, RecordFailure, Destination
<1>9. CASE Cancel \/ WriteReport \/ UNCHANGED vars
  BY <1>9 DEF Cancel, WriteReport, vars, Destination
<1> QED
  BY <1>1, <1>2, <1>3, <1>4, <1>5, <1>6, <1>7, <1>8, <1>9 DEF Next, Loop, Restart

\* Whatever hosts, domains and offers there are, and whatever state file the
\* agent finds, it pushes to a push endpoint of the configured domain.
THEOREM DestinationKept == Spec => []Destination
<1>1. TypeOK /\ Running /\ Destination /\ [Next]_vars => TypeOK' /\ Running' /\ Destination'
  BY TypeStep, DestinationStep
<1>2. Init => TypeOK /\ Running /\ Destination
  BY TypeInit DEF Init, Destination
<1> QED
  BY <1>1, <1>2, PTL DEF Spec

-----------------------------------------------------------------------------
(* Pace.                                                                   *)

\* No sequence of answers and errors makes the loop faster than configured or
\* parks it beyond the ceilings of cadence and backoff.
THEOREM PaceBounded == Spec => []WaitBounded
<1>1. TypeOK => WaitBounded
  BY TimesAssumption DEF TypeOK, WaitBounded, Wait, Cadence, Larger
<1> QED
  BY <1>1, TypeCorrect, PTL

DeniedSlow == denied => backoff = MaxBackoff

LEMMA DeniedStep ==
    ASSUME TypeOK, DeniedSlow, [Next]_vars
    PROVE  DeniedSlow'
<1>1. NextBackoff(MaxBackoff) = MaxBackoff
  BY TimesAssumption DEF NextBackoff
<1>2. CASE RecordFailure
  BY <1>1, <1>2 DEF RecordFailure, DeniedSlow
<1>3. CASE TakeFails
  BY <1>1, <1>3 DEF TakeFails, DeniedSlow
<1>4. CASE TakeNothing \/ RecordSuccess
  BY <1>4 DEF TakeNothing, RecordSuccess, DeniedSlow
<1>5. CASE Exit
  BY <1>5 DEF Exit, End, DeniedSlow
<1>6. ASSUME NEW D \in SUBSET spool, NEW R \in SUBSET folder, Crash(D, R)
      PROVE  DeniedSlow'
  BY <1>6 DEF Crash, End, DeniedSlow
<1>7. ASSUME NEW c \in Configs, NEW d \in 0..UsageInterval, Start(c, d)
      PROVE  DeniedSlow'
  BY <1>7 DEF Start, DeniedSlow
<1>8. CASE CollectFails \/ Collect \/ Scan \/ Elapse \/ Take
  BY <1>8 DEF CollectFails, Collect, Scan, Elapse, Take, DeniedSlow
<1>9. ASSUME NEW r \in Answers, Answer(r)
      PROVE  DeniedSlow'
  BY <1>9 DEF Answer, DeniedSlow
<1>10. CASE RemoveReport \/ ReportsRemoved \/ DropReading \/ Dropped
  BY <1>10 DEF RemoveReport, ReportsRemoved, DropReading, Dropped, DeniedSlow
<1>11. CASE Cancel \/ WriteReport \/ UNCHANGED vars
  BY <1>11 DEF Cancel, WriteReport, vars, DeniedSlow
<1> QED
  BY <1>2, <1>3, <1>4, <1>5, <1>6, <1>7, <1>8, <1>9, <1>10, <1>11 DEF Next, Loop, Restart

\* A run that was refused keeps the slow pace through any other errors, until a
\* push succeeds or nothing is left to send.
THEOREM RefusalSlows == Spec => []SlowAfterRefusal
<1>1. TypeOK /\ Running /\ DeniedSlow /\ [Next]_vars => TypeOK' /\ Running' /\ DeniedSlow'
  BY TypeStep, DeniedStep
<1>2. Init => TypeOK /\ Running /\ DeniedSlow
  BY TypeInit DEF Init, DeniedSlow
<1>3. TypeOK /\ DeniedSlow => SlowAfterRefusal
  BY TimesAssumption DEF TypeOK, DeniedSlow, SlowAfterRefusal, Wait, Cadence, Larger
<1> QED
  BY <1>1, <1>2, <1>3, PTL DEF Spec

-----------------------------------------------------------------------------
(* The state file.                                                         *)
LEMMA NotedConsistent ==
    ASSUME NEW s \in State, Consistent(s), NEW out \in Errors \ {"none"}
    PROVE  Consistent(Noted(s, out))
BY DEF Consistent, Noted, State, Errors

LEMMA StatusStep ==
    ASSUME TypeOK, StatusConsistent, [Next]_vars
    PROVE  StatusConsistent'
<1>1. Consistent(Blank)
  BY DEF Consistent, Blank
<1>2. ASSUME NEW c \in Configs, NEW d \in 0..UsageInterval, Start(c, d)
      PROVE  StatusConsistent'
  BY <1>2 DEF Start, StatusConsistent, Consistent
<1>3. CASE Collect
  <2>1. Consistent(st')
    BY <1>3 DEF Collect, StatusConsistent, Consistent, TypeOK, State
  <2>2. file' \in {file, st'}
    BY <1>3 DEF Collect, Save
  <2> QED
    BY <2>1, <2>2 DEF StatusConsistent, Consistent
<1>4. CASE RecordFailure
  <2>1. Consistent(st')
    BY <1>4, NotedConsistent, OutcomeType DEF RecordFailure, StatusConsistent, TypeOK
  <2>2. file' \in {file, st'}
    BY <1>4 DEF RecordFailure, Save
  <2> QED
    BY <2>1, <2>2 DEF StatusConsistent, Consistent
<1>5. CASE RecordSuccess
  <2>1. \A b, u : Consistent([Blank EXCEPT !.delivered = TRUE, !.spoolError = b, !.url = u])
    BY DEF Consistent, Blank
  <2>2. Consistent(st')
    BY <1>5, <2>1 DEF RecordSuccess
  <2>3. file' \in {file, st'}
    BY <1>5 DEF RecordSuccess, Save
  <2> QED
    BY <2>2, <2>3 DEF StatusConsistent, Consistent
<1>6. CASE Exit
  BY <1>1, <1>6 DEF Exit, End, StatusConsistent, Consistent
<1>7. ASSUME NEW D \in SUBSET spool, NEW R \in SUBSET folder, Crash(D, R)
      PROVE  StatusConsistent'
  <2>1. file' \in {file, Blank} /\ st' = Blank
    BY <1>7 DEF Crash, End
  <2> QED
    BY <1>1, <2>1 DEF StatusConsistent, Consistent
<1>8. CASE CollectFails \/ Scan \/ Elapse
  BY <1>8 DEF CollectFails, Scan, Elapse, StatusConsistent, Consistent
<1>9. CASE TakeFails \/ TakeNothing \/ Take
  BY <1>9 DEF TakeFails, TakeNothing, Take, StatusConsistent, Consistent
<1>10. ASSUME NEW r \in Answers, Answer(r)
       PROVE  StatusConsistent'
  BY <1>10 DEF Answer, StatusConsistent, Consistent
<1>11. CASE RemoveReport \/ ReportsRemoved \/ DropReading \/ Dropped
  BY <1>11 DEF RemoveReport, ReportsRemoved, DropReading, Dropped, StatusConsistent, Consistent
<1>12. CASE Cancel \/ WriteReport \/ UNCHANGED vars
  BY <1>12 DEF Cancel, WriteReport, vars, StatusConsistent, Consistent
<1> QED
  BY <1>2, <1>3, <1>4, <1>5, <1>6, <1>7, <1>8, <1>9, <1>10, <1>11, <1>12 DEF Next, Loop, Restart

\* The refusals `status` shows agree with the last answer, in memory and in the
\* file, through failed saves, crashes and damaged state files.
THEOREM StatusHonest == Spec => []StatusConsistent
<1>1. ASSUME TypeOK, Running, StatusConsistent, [Next]_vars
      PROVE  TypeOK' /\ Running' /\ StatusConsistent'
  BY <1>1, TypeStep, StatusStep
<1>2. Init => TypeOK /\ Running /\ StatusConsistent
  BY TypeInit DEF Init, StatusConsistent, Consistent, Blank
<1> QED
  BY <1>1, <1>2, PTL DEF Spec

-----------------------------------------------------------------------------
(* Where every save succeeds, memory and file name the same destination    *)
(* whenever the agent runs, and pushes go to it.                           *)
Resumes ==
    /\ pc # "down" => st.url = file.url
    /\ MigrationSurvives

LEMMA ResumesStep ==
    ASSUME "save" \notin Faults, TypeOK, Running, Resumes, [Next]_vars
    PROVE  Resumes'
<1> USE DEF MigrationSurvives
<1>1. ASSUME NEW c \in Configs, NEW d \in 0..UsageInterval, Start(c, d)
      PROVE  Resumes'
  <2>1. c \in Urls /\ Registrable[Endpoint[c]] = Registrable[c]
    BY UrlsAssumption
  <2>2. file.url \in Valid => Registrable[Endpoint[file.url]] = Registrable[file.url]
    BY UrlsAssumption
  <2> QED
    BY <1>1, <2>1, <2>2 DEF Start, Resume, Adopt, Resumes
<1>2. CASE Collect
  <2>1. file' = st' /\ st'.url = st.url /\ pc # "down" /\ UNCHANGED <<config, url>>
    BY <1>2 DEF Collect, Save, Fault, TypeOK, State
  <2> QED
    BY <2>1 DEF Resumes
<1>3. CASE RecordFailure
  <2>1. Noted(st, Outcome(reply)).url = st.url
    BY DEF Noted, TypeOK, State
  <2>2. file' = st' /\ st'.url = st.url /\ pc # "down" /\ UNCHANGED <<config, url>>
    BY <1>3, <2>1 DEF RecordFailure, Save, Fault
  <2> QED
    BY <2>2 DEF Resumes
<1>4. CASE RecordSuccess
  <2> DEFINE to == Adopt(url, reply.offer)
  <2>1. /\ url' = to /\ file' = st' /\ pc # "down" /\ UNCHANGED config
        /\ st'.url = IF to # url THEN to ELSE st.url
    BY <1>4 DEF RecordSuccess, Save, Fault, Blank
  <2>2. to # url => to = Endpoint[to]
    BY UrlsAssumption DEF Adopt
  <2> QED
    BY <2>1, <2>2 DEF Resumes
<1>5. CASE Exit
  BY <1>5 DEF Exit, End, Resumes
<1>6. ASSUME NEW D \in SUBSET spool, NEW R \in SUBSET folder, Crash(D, R)
      PROVE  Resumes'
  BY <1>6 DEF Crash, End, Resumes
<1>7. CASE CollectFails \/ Scan \/ Elapse
  BY <1>7 DEF CollectFails, Scan, Elapse, Resumes
<1>8. CASE TakeFails \/ TakeNothing \/ Take
  BY <1>8 DEF TakeFails, TakeNothing, Take, Resumes
<1>9. ASSUME NEW r \in Answers, Answer(r)
      PROVE  Resumes'
  BY <1>9 DEF Answer, After, Resumes
<1>10. CASE RemoveReport \/ ReportsRemoved \/ DropReading \/ Dropped
  BY <1>10 DEF RemoveReport, ReportsRemoved, DropReading, Dropped, Resumes
<1>11. CASE Cancel \/ WriteReport \/ UNCHANGED vars
  BY <1>11 DEF Cancel, WriteReport, vars, Resumes
<1> QED
  BY <1>1, <1>2, <1>3, <1>4, <1>5, <1>6, <1>7, <1>8, <1>9, <1>10, <1>11 DEF Next, Loop, Restart

\* Where saves succeed, a migration the server asked for holds through every
\* restart, and an origin that an older version stored leads to its endpoint.
THEOREM MigrationKept == ASSUME "save" \notin Faults PROVE Spec => []MigrationSurvives
<1>1. TypeOK /\ Running /\ Resumes /\ [Next]_vars => TypeOK' /\ Running' /\ Resumes'
  BY TypeStep, ResumesStep
<1>2. Init => TypeOK /\ Running /\ Resumes
  BY TypeInit DEF Init, Resumes, MigrationSurvives
<1>3. Resumes => MigrationSurvives
  BY DEF Resumes
<1> QED
  BY <1>1, <1>2, <1>3, PTL DEF Spec
=============================================================================
