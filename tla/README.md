# Verification of infranest-agent

TLA+ models of the InfraNest monitoring agent, the TLC configurations that check
them on small instances, and TLAPS proofs of the main properties for every value
of the constants. `PROJECT.json` lists the components, runs, mutants, findings,
hazards and theorems, and maps each definition to the lines of source it models.

    tlc -config AgentDisk.cfg MCAgent          # one of the runs below
    tlapm AgentProofs.tla                      # one of the modules of proofs

## The system

One process, started by the service manager. Its loop (`internal/agent/run.go`)
collects a reading, spools it, now and then walks the fullest disk, waits, and
pushes what is waiting over HTTPS. The loop has one thread; concurrency comes
from outside: the server and what lies in front of it, the `run --job` wrappers,
signals, crashes, and the goroutines of some collectors.

| Part | State | Operations | Interacts with |
|---|---|---|---|
| spool (`internal/spool`) | directory of one-reading files, partial files | New, Add (write, rename, trim), Take, Drop | run loop; filesystem |
| run loop (`internal/agent/run.go`) | sequence number, backoff, server's cadence, pending walk, destination | Run, collectOnce, scanUsageIfDue, sendOnce, applyCadence | all others |
| state file (`internal/agent/state.go`) | `state.json`: last error, refusals, last walk, destination | LoadState, SaveState | run loop, `status` |
| push client (`internal/push`) | none | Send: one request, 30 s | InfraNest |
| configuration (`internal/config`) | none | Load, ValidateURL, Adopt, PushEndpoint | run loop |
| job wrapper (`internal/jobrun`) | the command, signals waiting, the tails of its outputs | Parse, Run, Main | cron, job reports |
| job reports (`internal/jobs`) | folder of report files | Write (wrappers), Take, Remove (agent) | run loop, wrappers, anyone |
| journal watch (`internal/agent/journal.go`) | failures told, restart counters, events and counts for the next push | observeJournal, journalForPush, journalDelivered | run loop, system journal |
| snapshot trimming (`internal/agent/batch.go`) | none | trimSnapshots | run loop |
| `status`, flare | none | read the state file and the spool | operator |
| mount watch (`collect/mountwatch.go`) | goroutines at work, block list | readMounts | kernel |
| trackers (`collect/containers.go`, `traffic.go`, `linux.go`) | last start times, counters, ticks | observe, forget, readProcesses | kernel, container runtime |
| disk usage walk (`collect/diskusage.go`) | totals, refusals, time left | ScanUsage | filesystem |
| service list and D-Bus client (`collect/services_linux.go`, `internal/dbus`) | a connection, its serial | CollectUnits, Call | systemd |
| setup, cron and package readers (`collect/setup.go`, `cron.go`, `packages.go`) | the last answer and what it was made from | Read, refresh, resolve | files others change |
| journal reader (`internal/journal`) | none | LastLines, CountHour | journald's files |
| other collectors | none | one pass over /proc, /etc, the Windows API | kernel |

What is hard about it: a push whose answer is lost was perhaps stored; the
process may die between any two system calls, and nothing is synced; the state
in memory is ahead of the file; answers of several kinds come in any order and
set flags, pace, cadence and destination; a report may be written while a push
is out; every queue has a cap; names come from a clock. The hazards are in
`PROJECT.json`, each at its line.

What makes each part correct:

- spool: bounded; a reading leaves only when it was settled, made room for newer
  ones, or is damaged; offered oldest first; nothing blocks its head.
- run loop: no reading or report lost; everything delivered in the end; paced
  within bounds; stops when told.
- state file and destination: the flags agree with the last answer; the token
  goes nowhere but the configured domain; a migration survives a restart.
- job wrapper and reports: a report reaches the folder or the wrapper says so; it is
  kept until sent, too old, or too many; the command is never left running alone;
  the output told is what was asked for, without secrets.
- journal watch: every failure told once; a loop told only for restarts that
  happened; no hour counted twice; the newest events wait.
- collectors: a counter that starts over, a pid that is reused or a late reply is not
  a measurement; a wedged mount or a slow directory does not starve the others; what
  could not be read is said, never guessed; an answer kept is the one a new read
  would give.

## The modules

| Module | What it is |
|---|---|
| `SpoolNames` | listings of the spool: the oldest `k`, those in excess of a cap |
| `ReadingStore` | abstract: what the spool promises its caller |
| `Spool` | detailed: the spool, one system call per step |
| `Agent` | the run loop with spool, state file, job folder, InfraNest and crashes |
| `JournalWatch` | what the run loop remembers of the units, tells and counts |
| `JobReports` | wrappers, the folder of their reports, the agent's side of it |
| `MountWatch` | probes of mounts against a deadline, and the block list |
| `UnitReading` | one connection to systemd and the list made of its answers |
| `Trackers` | restarts, traffic and CPU shares from two readings |
| `DiskWalk` | the walk of one mount under its budget |
| `SshSetup` | what is told of sshd's settings, and what sshd makes of them |
| `ReaderCaches` | when the cron and setup readers give their answer again |
| `PackageIndex` | the index of dpkg's database, built while dpkg works |
| `JournalReader` | a unit's last lines and an hour's counts from rotating files |
| `Sums` | adding up by counting out, for `Trackers` and `DiskWalk` |
| `MCSpool`, `MCAgent`, `MCJournalWatch`, `MCJobReports` | the values the runs use |
| `MCCollectors` | the eight modules from `MountWatch` on, side by side in one run |
| `AgentProofs`, `SpoolProofs`, `JournalWatchProofs`, `JobReportsProofs`, `TrackersProofs` | theorems about the module they are named after |
| `CollectorProofs` | theorems about `MountWatch`, `UnitReading` and `SshSetup` |
| `ReaderProofs` | theorems about `PackageIndex`, `DiskWalk`, `ReaderCaches` and `JournalReader` |
| `OrderProofs` | lemmas on putting a finite set in order, on its least member and on sums, used by `JournalWatchProofs`, `CollectorProofs` and `ReaderProofs` |

**Spool.** `dir` and `tmp` are the committed and the partial files, by number;
`pc` is the system call the process is at; `list` and `entries` are the loop
variables of trim, Take and Drop. `New`, `AddWrite`, `AddRename`, `TrimList`,
`TrimOne`, `TakeList`, `TakeRead` (`ReadFails`, `ReadDamaged`, `ReadSound`),
`DropOne` follow `spool.go` call by call; each may fail if the behaviour's `world`
(one of `Worlds`, chosen at the start) has it among its faults. `Crash` ends the
process at any point and may leave committed files damaged (not JSON). `New(s)`
starts the next run with the clock at `s`; the world says at which times runs start
and whether clocks go back. Between Take and Drop
the caller decides (`DropBegin`, `Keep`).

**ReadingStore** is the specification `Spool` implements, with `dir` as what is
held and the batch between Take and the end of Drop as what is offered. `Evict`
asks for `Max` newer readings still held, which is stronger than the cap: it
says that trimming never takes more than it has to and never the wrong end.

**Agent.** One action per step of the loop between two writes to the disk or
two points where something else may act:

| Action | Code |
|---|---|
| `Start` | `Run` up to its loop |
| `Collect`, `CollectFails` | `collectOnce` with its spooling, trimming and save |
| `Scan` | `scanUsageIfDue` |
| `Elapse`, `Exit` | the `select` |
| `Take`, `TakeNothing`, `TakeFails` | `sendOnce` up to the request |
| `Answer` | `Client.Send` returns; InfraNest's side of it is `Decides` |
| `RemoveReport`, `ReportsRemoved`, `DropReading`, `Dropped` | `jobs.Remove`, `journalDelivered`, `Spool.Drop` |
| `RecordSuccess`, `RecordFailure` | the rest of `sendOnce`, the save and the new backoff |
| `Cancel`, `Crash`, `WriteReport` | a signal, a crash, a wrapper |

A response is its status, whether the body carries the reason
`monitoring_not_activated`, whether it has a verdict on the readings (`Settled`),
a stated cadence and an offered URL; `Answers` is the set of those that may come
back. URLs are an abstract set with `Endpoint` (PushEndpoint), `Registrable` and
`Valid` (ValidateURL). Time passes in `Wait` and while the process is down; time
stamps are ages that stop at `UsageInterval`. A trim removes file by file and goes on
where a removal fails (`Trim`, `Leftovers`); `TakeReports` is `jobs.Take`, which also
deletes a report that it cannot read, and `Crash` may harm files of readings (`damaged`)
and of reports (`harmed`), neither of which is synced. `committed`, `evicted`, `stuck`
(readings whose removal failed), `discarded` (reports Take removed for another reason
than harm) and `denied` are kept for the properties only. A definition marked as
a mutant is a plausible bug that the property named in `PROJECT.json` catches.

**JournalWatch.** The machine's units fail, recover and restart (`Fail`, `Recover`,
`Restart`) while nobody looks; `Collect` is `observeJournal` on the list
`CollectUnits` makes of them, as one step, since nothing else runs in the loop.
`failed`, `restarts`, `restartTimes`, `loopSent` are the four maps, `None` a missing
key where the code asks for it and 0 Go's zero time. `Found` is the slice `found` in
the order of the services, `Read` its first few, `Remember` what the maps hold
afterwards. Where the code sorts, here and in the collectors, place `i` of the result is
the member with `i` members up to it: the same list, in a form that can be reasoned about. `CollectUnanswered` is a collection without services. `PushBegin`,
`PushLands`, `PushFails` are `journalForPush`, `journalDelivered` and a push without
it; `Crash` empties the watch, which is memory only. `Faults` says which questions
may go unanswered: the services (`answer`), whether the journal is readable
(`journal`), and per unit whether it is enabled, when it failed (`stamp`) and its
counter. `told`, `backlog`, `landed`, `witnessed` are kept for the properties only.
The cap of 200 services is not part of it (`UnitReading` has it).

**JobReports.** `wrapper` is where each wrapper's process is: `Refuse` and `Begin` are
`Main` and `Run` up to `signal.Notify`, `Start`/`StartFails`/`Ends` the command,
`Forward` the goroutine that passes stops on, `WriteTmp` and `Rename` the two halves of
`jobs.Write`. `Stop` is a signal; whether it ends the wrapper or waits in the channel
is `Catches`. The agent lists (`TakeList`), looks at one entry at a time (`Look`), trims,
reads and pushes; `Drop` is anyone's file. Lines of output are kinds of line, so masking
and the sharing of the room between the outputs are as in the code. `Agent` abstracts
all of this to a set of reports.

**MountWatch.** `Answer(p)` is one goroutine, which measures what is used of its filesystem
at that moment; `Receive`, `AllAnswered` and `Deadline` are the `select`, `Alike` is the key
of `dedupeMounts` (device, size, usage); `Write` changes the usage between two probes, and
`busy` remembers where it did. `stuck` counts goroutines that hang. **UnitReading.** `Ask` sends a question
under a new serial, `BusAnswers` answers in order, late or with an error, `PassOver` and
`Returned` are `readReply`; `Plan` is the order of `CollectUnits`' questions and
`Advance` its loops. **Trackers.** Three independent parts; a container's start time, a
device's counters and a process under a pid change between two observations.
**DiskWalk.** The tree is a constant, numbered in the order `WalkDir` meets it; each step
is one callback and takes up to `Slowest`. **SshSetup.** `frames` is the recursion of
`sshState.file`; `Sshd` is the reference: what sshd, who may read everything, makes of
the same files, a recursive function of how deep they are followed (`SshdValue` and
`SshdPorts` are what it says of the whole). **ReaderCaches.** The machine's files change
(`WriteFile`, `CreateFile`, `RemoveFile`, `Chmod`), a read looks at one file at a time,
and the two readers differ in what a fingerprint has and when it is taken. `unseen` has
the files of which a change since they were read is not in the print that will be kept.
**PackageIndex.** dpkg changes a list (`Unpack`) and later its status (`Settle`); the
index is built in the steps of `refresh`, each list in full or in part. **JournalReader.** One behaviour answers one
question about one journal of two files; `Rotate` may come before the files are opened,
any of them may not open (`OpenFiles`), and a walk may begin late or end early in a torn
file (`NextFile`, `ReadFails`); `unread` has the entries that were missed in these ways.

## The runs

| Run | Checks | Instance |
|---|---|---|
| `Spool` | `AddBounds`, `AddKeepsReading`, `PartialsBounded`, `Drains`; `KeepsPromise`: `Spool` implements `ReadingStore` | cap 2, runs of three readings, a damaged file per crash; worlds with failing writes and renames and a clock that goes forward, and with every call failing and a clock that goes either way |
| `AgentDisk` | `NoReadingLost`, `EvictsOldest`, `NoReportLost`, `TypeOK` | three readings, cap 1; two reports, folder of one; one crash that harms a file of either kind; adds, takes, reads of reports and single removals that fail |
| `AgentLoop` | `SlowAfterRefusal`, `StatusConsistent`, `WaitBounded` | every kind of answer, stated cadences 0 to 5 with interval 2 and ceiling 4, failing saves, a damaged state file |
| `AgentDestination` | `Destination`, `MigrationSurvives` | two hosts of a domain as origin and endpoint, another domain, plain HTTP; the configuration changes between three runs |
| `JournalFailures` | `ToldOnce`, `FailuresTold`, `NewestWait`, `HoursOnce` | two units, two events and two hours at most, three failures, one restart of the process, services unanswered, units that leave the list |
| `JournalLoops` | `NoFalseLoop`, `Forgets` | one unit, a loop of two restarts, a day of three steps and two of quiet, a counter up to 3 that starts again or goes unread |
| `AgentDelivers` | `Delivers`, `Stops` | three readings, a crash that damages one, lost answers, 422 with a verdict |
| `JobReports` | `NoSilentLoss`, `NoOrphan`, `OutputAsAsked`, `FolderDrains` | two wrappers with five command lines, a file of somebody else, room for one report in the folder and in a push, room for four of nine lines of output with two keys, failing writes and renames, two units of time |
| `Collectors` | mounts: `SurvivorSteady`, `RetryPaced` | three points of one filesystem, one of them no disk, two usages |
| | service list: `AnswersMatched`, `FailuresListed` | two units, room for one, one message per answer, one signal |
| | trackers: `RestartsReal`, `RateReal`, `ShareOwn` | two containers, devices and pids each, three start times, three processes |
| | disk walk: `ScanComplete`, `EveryTreeTried` | a tree of 11 nodes with three subtrees, any two nodes or all three subtrees that refuse or fail, room for two refusals, a budget of 4 |
| | SSH: `SshNeverGuessed` | 26 main files with two included ones of four kinds, every combination of closed and broken files; five files are read and two ports kept at most |
| | caches: `CachesFresh` | a crontab, anacron and its table, a folder of two; two changes of any kind at any moment |
| | packages: `IndexRight` | three packages, three paths, six databases, one upgrade or removal, lists read in part |
| | journal: `LinesNewest`, `HourHonest` | three entries of eight kinds over two files that may be closed or torn, bounds of two entries, two messages and four lines |

The bounds: with three readings, a cap and a batch of 2 make trimming, a batch smaller
than the spool and a spool above its cap happen, and a cap of 1 a trim that fails to remove
one of two files and a later one that removes the other; two starts give
one crash or stop and a run after it, three starts let a configuration change
and change back; a backoff of 1 to 8 has every doubling and the ceiling. Where a
property is indifferent to a part, its instance keeps that part trivial (no
mount, one URL, no report). In `Collectors` the parts share no state, so a behaviour
runs one of them (`turn`) and the others stand still: it is the sum of the parts, not
their product.

Runs that are expected to fail show where the code does not do what its comments
or the README say (`findings` in `PROJECT.json` quotes them):

| Run | Shows |
|---|---|
| `AgentPortal` | a 2xx that says nothing about the readings deletes them |
| `AgentPlanChange` | a stated cadence is raised and never lowered to the interval |
| `JournalReadLimit` | units past the limit of one collection are marked as told and never told |

Met while modelling and without a run of its own:

- When `Spool.Take` fails, `sendOnce` (run.go:347-352) returns before it touches the
  state, so the loop backs off and `status` shows nothing, where run.go:345 says that
  it "records what happened where `status` can find it".
- The wait between rounds is the larger of interval and backoff, so a failing push
  also slows collection, where run.go:112 has "a fixed cadence".
- `scanUsageIfDue` notes the walk in memory and the next save writes it; a process
  that ends in between walks again at once, which state.go:50 means to avoid.
- After a restart with an earlier clock, new readings sort before those in the
  spool and a full spool evicts the one it was given, which is why `AddKeepsReading`
  speaks of worlds whose clock goes forward; spool.go:107 says the oldest go.
- A file whose `ReadFile` fails for good makes every `Take` fail (spool.go:164), so
  nothing behind it is sent, where spool.go:167 deletes what is damaged so as not to
  block the head. Hence `Drains` speaks of damaged files and not of unreadable ones.
- One `StateChangedAt` call that fails for a unit that stays failed makes its moment
  zero, and it is told again, and again when the call succeeds (`JournalFailures`
  with `"stamp"` in `Faults` violates `ToldOnce`); journal.go:126 says it is not.
- Failures seen while the journal cannot be read are marked as told as well
  (`"journal"` in `Faults` violates `FailuresTold`).
- An error reading a report, also one that would pass, deletes it (jobs.go:224;
  `JobReports` with `"read"` in `Faults` violates `NoSilentLoss`), and so does a power cut
  that leaves it empty, since `Write` does not sync (jobs.go:126-131). `NoReportLost`, whose
  run has both, names them among the ways a report may go.
- Trimming goes on past a file it cannot remove (spool.go:222), so that a reading may go
  while an older one stays: spool.go:107 says that the oldest go. `EvictsOldest` says how far.
- Output is cut to its last lines before it is masked (jobrun.go:193, 204), and the masking of
  a private key needs its first line (mask.go:72-79). Of a key whose first line is cut off,
  lines of 40 base64 characters are masked all the same (mask.go:43), but a short
  last line is told. `OutputAsAsked` speaks of keys that begin within the room an output
  is sure of, `MaxLines \div 2` lines.
- When passing on a command's output fails, `Wait` returns that error for a command
  that ended with 0, and the run is reported as one that never started, with 126
  (`"copy"` in `Faults`). SIGHUP is not passed on; it ends the wrapper.
- When the deadline of the mount probes passes, the mounts are returned as they came
  (mountwatch.go:68-76), so which point of a filesystem survives is a race, against
  mountwatch.go:84-89; `SurvivorSteady` speaks of complete collections. Two points of a
  filesystem that is written to between their probes differ in what is used, so that
  both are told, where parse_extra.go:90 calls the numbers identical; `SurvivorSteady`
  speaks of the others for this part. Points without a device would all be told, but
  /proc/self/mounts has one in every line. And the leak of
  goroutines is not bounded by the number of broken mounts (linux.go:253-255, 278-280): each
  adds one whenever its block has run out, which is what `RetryPaced` says.
- `SetupReader` promises to keep its answer "until one of the files it read changes"
  (setup.go:117), and takes its fingerprint after reading (setup.go:143): a file that
  changes between the two has its new mark in the print and its old text in the answer,
  which stays until another change. The cron fingerprint has no file modes (cron.go:103),
  so a script made executable is not noticed, nor is a table that is
  created and removed while one read is under way; cron.go:73 "keeps the answer until a file
  changes". The run has all of these; `CachesFresh` leaves out the answers that rest on
  such a file (`unseen`) and no others. Not in the model: the text of a cron.d file
  past `maxCronFiles`, and two changes within one tick of the file clock that keep the size.
- A directory the disk walk cannot list for another reason than permission is passed
  over without a word (diskusage.go:283-289); `ScanComplete` leaves such directories
  out of account. One slow system call may use more than its directory's share, and
  the later ones get less.
- SSH files past `maxSSHFiles`, past 1 MB or below `maxSSHDepth` are left out without
  making anything unknown; `SshNeverGuessed` leaves readings that met the first limit out.
  Ports past `maxSSHPorts` are left out without a word as well, which it allows.
- A package list that cannot be opened, breaks off or is met when the index is full
  (packages.go:293, 312) leaves paths of its package out of the index until dpkg
  writes its status again; `IndexRight` speaks of an index all lists of which were read.
- What a journal question could not read is missing from its answer without `Partial`: a
  file that was rotated between the listing and the opening (journal.go:113), that cannot
  be opened or has a header of a newer format (journal.go:114-129), or in which an entry array
  is torn (file.go:190, 231-233), while journal.go:286 has `Partial` for `MaxScan` only.
  `LinesNewest` and `HourHonest` say what holds of the rest. A clock set back ends the walk
  of a file early; torn entries do not count towards `MaxScan`.

## Fairness

`Agent!Fairness`: the loop goes on (every step of it ends; the HTTP client's
timeout ends a push), a process that ended is started again (`Restart=` of the
service), and a push that is attempted again and again is at some point answered
with a verdict (strong fairness: the code retries for ever, and this is what it
waits for). Faults that last for ever are not part of the liveness runs;
see the spool's blocked head above. `JournalWatch!Fairness`: the loop
goes on, and the services collector, which may fail, answers again and again. `Spool!Fairness` says the same of
the system calls and of the caller's decision to drop. `JobReports!Fairness`: the
agent keeps pushing and a push succeeds now and then, the goroutine that passes stops
on runs, and time passes; nothing is assumed of wrappers, which may stop for ever.
The collectors have no liveness property: each is bounded by its own deadline.

## The proofs

`AgentProofs` proves, for any caps, intervals, URLs, answers, faults and bounds:

- `TypeCorrect`: `TypeOK`, which includes the ceilings of backoff and cadence. Its
  invariant adds `Running`: a process that runs has a configuration and a
  destination, without which `Adopt` has no URL to compare with.
- `ReadingsKept`, `ReportsKept`: `NoReadingLost` and `NoReportLost`. Neither is
  inductive, since a drop only preserves it for readings that are decided on:
  `Kept` adds that what is being removed from the disk is decided on. Assumes
  `Genuine` (a 2xx carries a verdict), which `AgentPortal` shows to be needed. A report
  that a failing read costs is accounted for one by one, in `TakeReports`.
- `OldestEvicted`: `EvictsOldest`, by `Ordered` (numbers are at most `seq`, and what is held
  was committed) and the lemma `ExcessIsOldest` on listings, which rests on the
  cardinality of subsets: what a trim means to remove is older than all it means to keep,
  so that an older one that stays is one whose removal failed.
- `DestinationKept`: `Destination`, by `AdoptKeepsDomain`.
- `MigrationKept`: `MigrationSurvives` where saves succeed, by `Resumes`: memory and
  file name the same destination whenever the agent runs.
- `PaceBounded`: `WaitBounded`, from `TypeOK`.
- `RefusalSlows`: `SlowAfterRefusal`, by `DeniedSlow`: the backoff is at its ceiling,
  which `NextBackoff` does not leave.
- `StatusHonest`: `StatusConsistent`, inductive as it stands.

`SpoolProofs` proves, for any cap, batch, runs, worlds of faults and number of crashes
(invariant `SpoolInv`):

- `CapHolds`: `AddBounds`. It needs `InExcess` (what trim is about to remove is still in
  excess) and `Capped` (without the list it would remove, the spool is under its cap),
  since a crash between a rename and its trim leaves it above.
- `AddedReadingKept`: `AddKeepsReading`, by `NamesOwned` (every name is of a run, and
  within the run that goes on at most the last number) and `NewestKept` (while the clock
  goes forward, the last number is the newest name, and not among those trim removes).
- `PartialsSwept`: `PartialsBounded`, inductive as it stands.
- `PromiseKept`: `Spool` implements `ReadingStore`. Each system call is shown to be one
  of its steps or a stutter; `Evict` rests on `InExcess`, `Offer` on `OldestFirst`
  (no sound reading older than the batch was passed over).

`JournalWatchProofs` proves, for any units, limits, periods, faults and bounds:

- `HoursCountedOnce`: `HoursOnce`, by `HoursCounted`, which ties the hours that wait to
  the last one counted: they ascend from what landed to `counted`, and that hour is
  over. The lemma `NewestIsEnd` says what trimming to a limit keeps.
- `RestartsForgotten`: `Forgets`, inductive given that a counter that was read is not
  the missing key.
- `NewestAlwaysWait`: `NewestWait`, by `Queued` and the lemma `NewestOfNewest`: the newest
  of what is left of the newest, with more behind it, is the newest of all.
- `FailureToldOnce`: `ToldOnce`, by `ToldRemembered`: what was told of a unit that has
  not recovered since is in `failed`. It assumes that `"stamp"` is not in `Faults`: that
  fault is the hazard at services_linux.go:109, and the run with it violates `ToldOnce`.
- `LoopsAreReal`: `NoFalseLoop`, by `RestartsWitnessed`: restarts noted, plus those the
  counter has grown by since it was read, are at most those that happened, or a loop
  has happened anyway.

`JobReportsProofs` proves, for any wrappers, command lines, outputs of any length,
faults, limits and times, from `JobInv` (a command runs only under a wrapper that
waits for it: `Watched`; a file has one owner: `FilesOwn`; a report holds what was
asked: `ReportAsAsked`):

- `NothingLostUnsaid`: `NoSilentLoss`, where `"read"` is not in `Faults` (the hazard at
  jobs.go:224, which no property covers because the code does lose the report).
- `CommandNeverAlone`: `NoOrphan`, which is `Watched` seen from outside.
- `OutputToldAsAsked`: `OutputAsAsked`, where a report has room for two lines (20 in
  jobs.go:28); with room for one, half of it for each output is none. What it needs
  of masking and cutting is proved of sequences of any length; a key that is within the
  half an output is sure of keeps its first line through both cuts, so that `InKey` holds
  of its lines where they end up.

`TrackersProofs`, for any containers, devices, counter width and pids:

- `RestartsAreReal`: `RestartsReal`, by `NotCountedYet`: a container that started after the
  tracker saw it has a restart that is not counted yet.
- `RatesAreReal`: `RateReal`, by `GrownPassed`: what the counters that are ahead of the last
  reading have grown by, taken together, is at most what has passed since. The sums
  are counted out (`Sums`), so that this is a fact about the size of finite sets.
- `SharesAreOwn`: `ShareOwn`, by `StartTells`: two processes under a pid differ in their
  start times.

`CollectorProofs`, for any mounts, filesystems, units and limits:

- `SameMountSurvives`: `SurvivorSteady`, by `ReceivedListed` (the mounts received are
  those that answered, whatever the order), by what each has measured of a filesystem that
  is not `busy`, and since sorting and `dedupeMounts` then make the same list of the same
  set (`SortedMounts`, `DedupeKeepsFirst`).
- `DeadShareRetriedAtPace`: `RetryPaced`, by `SkipCounts`, which ties the block list to the
  time since a mount was given up.
- `AnswersAreMatched`: `AnswersMatched`, by `SerialsTell` (a message that carries the serial
  of the call under way is the reply to it, all others being to earlier calls) and
  `Paired`.
- `FailuresAreListed`: `FailuresListed`, by `InPlan` and `FailuresKept`, and `SortServices`
  putting failures first.
- `SettingsNeverGuessed`, for any files of any length, keywords and limits:
  `SshNeverGuessed`. The invariant says of the files that are open, innermost first,
  what they have still to say (`StackValue`, `StackPorts`): while nothing was left unread,
  a keyword that is not decided will be given by them the value sshd gives it, and the
  ports met with theirs are sshd's (`RestRight`); what was decided is sshd's value
  (`DecidedRight`). An Include is replaced by its files without changing what the whole
  says (`FolderFirst`), since what comes first is associative. That `Sshd`, a recursive
  function, satisfies its equation is `SshdDefined`.

`ReaderProofs`:

- `IndexIsRight`, for any packages, paths and names: `IndexRight`. The invariant says of a
  half-built index that, if the status file's time is still the one it began with and
  dpkg is not at work, what it has of the lists read so far is right; dpkg's own order
  (list first, status after) is what makes it inductive.
- `EveryTreeHasItsShare`, for any tree, budget and times of system calls:
  `EveryTreeTried`. While no call has overrun a share, the time left is at least a fair
  share for each subtree left (`TimeLeft`), within a walk too. It assumes that
  the budget outlasts the listing of the mount by a tick for each subtree (60 s counted
  in nanoseconds in the code): otherwise the walk ends before it begins.
- `ScansAreComplete`, for any tree, sizes, access, times and limits: `ScanComplete`. While a
  scan is not partial, the totals are the bytes of the files it can reach and has passed,
  and the refusals named or counted are the directories it has passed (`AllTold`, with
  `Pending` for what is ahead: the rest of this subtree and all of the later ones). Steps
  that skip a subtree need that nodes are numbered in the order of the walk, so that
  what is below a node follows it (`DiskAssumptions`), and that the recursive `Path` is
  what its definition says (`PathDefined`).
- `AnswersStayFresh`, for any number of changes of any kind at any moment and any
  `MaxCronFiles`: `CachesFresh`. The kept print is related to what was read under it file by
  file (`CronHeld`, `SetupHeld`): a mark never comes back once it has changed, but for the
  changes `Unseen` names.
- `LinesAreNewest` and `HoursAreHonest`, for any entries, window, bounds and files that cannot
  be read: `LinesNewest` and `HourHonest`. `ReaderInv` says what a walk has ahead of it
  (`Left`): the lines found are newer than all of that and nothing else that was asked for
  and could be read is missing (`NewestKept`); the counts are those of the hour but for what is
  ahead and what is `unread` (`CountedRight`). That cutting messages into lines and dropping
  the oldest leaves whole messages but one is proved of `Rows` by sums (`ToldWhole`). Assumes that
  files are in the order in which journald wrote them (`JournalAssumptions`: its clock is
  not set back, and two files do not end in the same moment).

`OrderProofs` shows once, for any finite set and total order, that ranks are distinct
and fill `1..n`, so that choosing by rank is sorting. TLAPS cannot open `SelectSeq` and
`SortSeq`, hence the form of `Found`, `sortMounts`, `SortServices`, `ReadDir`, `rankUnreadable`
and `Noisiest`. Induction over numbers is out of the provers' reach; where a recursive
function must be shown to exist, the least number for which it fails is led to a
contradiction (`LeastOf`), and sums are sizes of finite sets.

Each inductive invariant was checked by TLC on the instance of the module's run before
it was proved. The assumptions on the constants are named in the modules that declare
them (`TimesAssumption`, `UrlsAssumption`: PushEndpoint is idempotent and keeps the
domain, `AnswersAssumption`, `BoundsAssumption`; `StartsAssumption`: runs start
further apart than they have readings, `WorldsAssumption`; `LimitsAssumption`,
`EpochAssumption`: the zero time is further back than any period; `JobAssumptions`,
`OutputsAssumption`, `TrackerAssumptions`, `MountAssumptions`, `UnitAssumptions`: systemd
has at least one unit, `DiskAssumptions`: the numbering of the tree, `CacheAssumptions`,
`PackageAssumptions`, `JournalAssumptions`, `SshAssumptions`: no line sets a keyword to
"unknown", which sshd would not accept, and a port can be kept); sets of units, mounts, nodes and packages are finite. TLC evaluates them in every run.

The proofs are about `MountSpec`, `UnitSpec`, `TrackerSpec`, `DiskSpec`, `SshSpec`, `CacheSpec`,
`PackageSpec` and `ReaderSpec`; `MCCollectors` runs the same `Init`s and `Next`s, one at a time.

Only model-checked: liveness (`Delivers`, `Stops`, `Drains`, `FailuresTold`,
`FolderDrains`), which the prover does not handle. Every invariant and every action
property of the passing runs is a theorem.

## Not modelled

The contents of readings and the parsing that makes them (`listening.go`, `renewers.go`,
`system.go`, `autoupdate.go`, the Windows collectors, the wire format of D-Bus and the
format of journal files), the envelope's encoding, formatting and logs: one pass over
bytes without state, where a model would only repeat the code. `PROJECT.json` has every part with its reason.
Not in `JournalReader`: what journald appends while a file is walked, the bound of one
message, and the one name the instances of a login unit are counted under
(`ReportedUnit`). Not in `PackageIndex`: `usrMergeTwins`.
Simplifications of `Agent`: readings are numbered in the order of collection
(`Spool` has the clock going back); a request processed after its timeout counts
as processed at it; time does not pass during a collection or a push; clocks do
not go back within `Agent`.

## Plan

1. Done: spool, run loop, state file, destination; proofs about the run loop.
2. Done: `JournalWatch` and its proofs.
3. Done: `JobReports` and the collectors that keep state, race with what they look at,
   or work under budgets.
4. Done: proofs of the safety of every module, and of `Spool` implementing `ReadingStore`.
5. Left: `trimSnapshots`, parsing of the configuration, version comparison.
