# Dogwatch in TLA+

Dogwatch is a single-binary observability server: eBPF probes and an OTLP
receiver feed an aggregator and SQLite stores; background engines evaluate
alerts, SLOs, recording rules and escalations; a web UI and query engines read
it all; several servers may form a federation. This directory holds TLA+ models
of the parts whose correctness depends on order, concurrency and failure, the TLC
runs that check them, and TLAPS proofs.

## Inventory

State and operations of the parts that carry the system's own logic.

| Part | Source | State | Operations | What is hard | What makes it correct |
|---|---|---|---|---|---|
| Write-ahead log | `internal/storage/wal.go` | current segment and its buffer, segment files, `entrySeq`, `pending` | Write, WriteBatch, sync worker, checkpoint (ticker and ForceCheckpoint), rotation, cleaning, Stop, recovery | checkpoints overlap each other and writes; the callback runs with no lock; crashes between write, flush, fsync, apply, clear and clean | nothing durable is lost or dropped before it is applied; recovery forgets nothing |
| Alert evaluator | `internal/alerting/evaluator.go`, rows in `rule.go` | `alerts`, per rule `ActiveSince`, `FiringAlerts`, `LastEval`; rows in SQLite | evaluation rounds, results seen or missing, resolution, cleanup, acknowledgement, restart | three maps under two locks changed on five paths; series that vanish; saves that fail | the maps agree; an alert fires after ForDuration, once, and resolves |
| Federation | `internal/federation` | node states, incidents, tombstones, on-call, metric summaries; memberlist | add, update, merge, full state, hourly cleanup, join and leave | best-effort messages, two-lock check and store, encoding through shared pointers, clocks | last writer wins; nodes converge; resolved incidents stay resolved |
| Escalation engine | `internal/oncall/escalation.go`, rows in `schedule.go` | escalation state per incident, in memory and in SQLite | trigger, 30 s check loop, acknowledge, restart | the loop changes and saves states without the lock the handlers take; two engines over one store | an acknowledged incident escalates no further; an unanswered one reaches the last level |
| Watch engine | `internal/watch` | `pendingStart`, `activeIncidents`, watch rows | ticker pass, ForceCheck, edit, delete, restart | passes overlap and save whole rows they copied before | a lasting breach alerts, with an incident, once |
| Incidents and pager | `internal/incidents` | incident rows | trigger, acknowledge, resolve | several sources trigger the same incident | an alert has an incident |
| Tail sampler | `internal/sampling`, `internal/otlp/traces.go` | traces waiting for a decision, counters | buffer a span, time out, evict, flush, replace the sampler | three goroutines finalize outside the lock; full buffers | each span is decided once, with its trace, and errors are kept |
| Storage tiering | `internal/storage/tiering.go`, the hot tables of `storage.go` | hot rows, warm files, cold objects, the lists in `tiering_state.json` | TierData (ticker and request), Compact, RestoreFromCold; inserts and `Store.cleanup` | copy, delete and list are separate steps; the state is saved last; another ticker deletes hot rows | no row is destroyed before its time, every row is in the end |
| Router, inhibitor, dependency alerting | `internal/alerting/router.go`, `inhibitor.go`, `dependency.go` | groups with timers, active alerts | group, inhibit, flush | timers against resolutions | every alert is sent or inhibited for a reason |
| Notification service | `internal/notify` | channels, rate limits | send, retry | partial failure | |
| Quotas | `internal/quotas` | counters against limits | consume, reset | resets against use | the limit holds |

The components interact through callbacks and a shared database: the evaluator
calls `onNotify` at a transition to firing (router, inhibitor, notify, incidents
and escalation follow); federation calls `onIncidentChange` into the web server;
the WAL hands batches to a checkpoint callback, which `cmd/dogwatch/main.go`
does not install; the watch engine opens incidents through the pager; the OTLP
receivers ask the sampling manager about every span, and the sampler records the
spans it keeps in the same trace store. `BroadcastIncident`, `UpdateOnCall` and `AddMetricsSummary` have
no caller outside `internal/federation`: they are its API.

`PROJECT.json` lists every component, the ones left out too, and the hazards
this code is exposed to, each at its line.

## Modules

| Module | Models | Extends |
|---|---|---|
| `WAL` | the write-ahead log | |
| `MCWAL` | its TLC instances | `WAL` |
| `WALProofs` | `TypeCorrect`, `NoEntryLost`, `NoEntryDropped`, `LogStaysPending`, `SequenceIsOrder`, `OneApplicationPerRun` | `WAL`, `TLAPS` |
| `AlertEvaluator` | the evaluator and the alert rows | |
| `MCAlertEvaluator` | its TLC instances | `AlertEvaluator` |
| `AlertEvaluatorProofs` | `TypeCorrect`, `MapsAgree`, `RowsFaithful`, `NoRepeat`, `ForDurationKept` | `AlertEvaluator`, `TLAPS` |
| `FederatedIncidents` | shared incidents of a cluster | |
| `MCFederatedIncidents` | its TLC instances | `FederatedIncidents` |
| `FederatedIncidentsProofs` | `TypeCorrect`, `LastWriterWins`, `TombstonesSound`, `WholeReadsMisdateNothing` | `FederatedIncidents`, `TLAPS` |
| `Escalation` | the escalation engines and their rows | |
| `MCEscalation` | its TLC instance | `Escalation` |
| `EscalationProofs` | `TypeCorrect`, `OneLatePage`, `RecoverySkipsNoLevel`, `RowIsMemory`, `AckIsKept` | `Escalation`, `TLAPS` |
| `WatchPaging` | the watch engine with the pager, the incident store and the handlers that edit watches | |
| `MCWatchPaging` | its TLC instance | `WatchPaging` |
| `WatchPagingProofs` | `TypeCorrect`, `AlertingIsPaged`, `DuplicatesAreFew` | `WatchPaging`, `TLAPS` |
| `SpanSampling` | what tail sampling promises (abstract) | |
| `TailSampler` | sampler, manager and OTLP receivers; implements `SpanSampling` | instantiates `SpanSampling` |
| `MCTailSampler` | its TLC instances; `DroppedIsNotStored` | `TailSampler` |
| `TailSamplerProofs` | `Implements`, `StatsAreRight`, `TypeCorrect` | `TailSampler`, `TLAPS` |
| `Tiering` | the three storage tiers | |
| `MCTiering` | its TLC instances; `KeptForColdRetention` | `Tiering` |
| `TieringProofs` | `TypeCorrect`, `ListedCanBeHad`, `RowsAreKept` | `Tiering`, `TLAPS` |

Operators whose names begin with `Mut` are deliberately wrong variants of the
definition that follows them; each property was seen to fail with one of them in
place.

### WAL

`log` is the current segment with its `bufio.Writer` (content and sticky error) and
the directory: files, the entries in their readable prefix, and those an fsync has
covered. `pending`, `entrySeq` and `mode` are the struct's fields; `ck[c]` is the
program counter and copied slice of a goroutine in `checkpoint()`, which is five
actions, one per critical section or unlocked call. An entry is its segment, its
sequence number and two ghosts naming the call it came from; payload, checksum and
byte sizes are abstracted (segment and buffer sizes are in entries). Segments and
`pending` are sets: their order is the order of the sequence numbers, which
`SequenceOrdersLog` states.

`Write`, `WriteBatch` and `Sync` take a set of I/O calls that fail and, for a short
write, how far the flush got: a failed flush makes the writer's error sticky, a
failed rotation still returns the sequence number, and a failed open leaves a
closed file behind the old writer, as in the code. `Crash` keeps what was fsynced
and any prefix of what was only flushed, which also covers a mere process exit.
`Recover` is `NewWAL` and `Start`.

Ghosts: `acked` (returned to a caller), `durable` (acknowledged and fsynced),
`applied`, `runApplied`, `cleared`.

`RotationLag` states the assumption that decides the safety of `cleanOldSegments`:
how many segments may fill up while one checkpoint runs. The cleaning keeps the
newest `MaxSegments` files whatever they hold, so the log is safe exactly when
`RotationLag < MaxSegments` (10 segments of 64 MB as `main.go` configures it).

### AlertEvaluator

One action per step of the single evaluator goroutine (`StartRound`,
`EvaluateRule`, `EndRound`), one for `AcknowledgeAlert`, one for a restart, and the
environment: the clock, metrics, silences and rule edits. `EvaluateRule` is one step
because no other goroutine changes what it reads: handlers only set
`AcknowledgedAt` and read, and `SaveAlert` reads the alert and writes the row under
the store's mutex after that assignment. `NewAlert`, `NewActive`, `NewFiring`
and `Saved` say what `processResults` does to one fingerprint on each of its paths;
`Saved` has a disjunct for each of the three calls of `SaveAlert`.

Time is kept as ages that saturate at `AgeCap`, which the assumption puts at or
above every duration they are compared with; the model is finite with no bound on
how long it runs. `Env` selects the disturbances of an instance: series that vanish,
queries that fail, silences, disabled rules, acknowledgements, restarts, failing
saves. Rows of alerts that memory has forgotten are kept as the set of active states
they show (`orphans`). Ghosts: `condTrue` (age of the first evaluation that saw the
condition hold since one last saw the series and found it not to), `fires` (transitions
to firing since an evaluation last found the condition not to hold) and `lapsed` (a save
failed; restarts, at most `MaxRestarts`). A restart resets none of them: it empties the
evaluator's maps, not the history of the conditions, so the notification it repeats is
counted.

### FederatedIncidents

Each node has the maps of `SharedState`, the `AddIncident` calls that are between the
tombstone check and the store (two locks), the incidents being encoded, and the
cutoff of a cleanup between its two halves. An encoding collects the values an
incident had between `GetFullState` or `BroadcastIncident` and the end of
`json.Marshal`; with `TornReads` each field of the result is any one of them, since
`UpdateIncident` writes in place under a lock the encoder does not hold. Without
it the encoding is atomic. The ghost `misdated` names the incidents of which a node has
stored a copy that is resolved and was updated after its `ResolvedAt`, which only a
mixture of two versions can be. Updates stay available for `Delay` ticks, so they
arrive late, twice, in any order or never. A full state is one message per incident,
because `MergeFullState` takes the locks anew for each. Clocks differ by `Skew`.
`MaxFlight` bounds the records on their way to a node and its concurrent
`AddIncident` calls.

`Delay <= Expiry` (a datagram arrives before the 24 hours of the cleanup have
passed) is needed: with a later one, TLC finds a resolution applied between the two
halves of a cleanup that leaves a tombstone without an incident.

### Escalation

The process starts two engines over one store: the HTTP API's (`web/server.go`) and
the alert router's (`main.go`). A state object is shared by pointer, so it is named
by engine, incident and generation: a second `TriggerIncident` makes a new object
while the loop, or the first call, may still hold the old one. A round is
`BeginRound` (the copy under `RLock`), then for each state `CheckSkip` or
`CheckEscalate` (the assignments), `EscalateNotify` and `EscalateSave`, none of which
takes the lock that `AcknowledgeIncident` holds from its test to its save. The
router's engine only ever has what `Start` restores, since `main.go` gives it the
empty policy, which `TriggerIncident` refuses. `ResolveIncident` and
`DeleteEscalationState` have no caller in the program. `late` is a ghost: escalations
that began after the object was acknowledged. `SlowCalls = FALSE` assumes that a
trigger's notifications are sent before the first level's delay is over.

### WatchPaging

A pass (`Passes`: the ticker's, and a goroutine for each `ForceCheck`) copies the rows
(`BeginPass`), and for each enabled one reads the metric (`Measure`), updates
`pendingStart` under the lock (`Evaluate`, `Transition`), tells the channels and looks
at `activeIncidents` (`Notify`), creates the incident with no lock held
(`TriggerIncident`, `TriggerFails`), tracks it (`Track`) and writes the whole copy
back (`SaveWatch`). PUT, POST and DELETE change the row in between. The handlers save
whatever state the body has (`BodyStates`; the instance has none and "alerting", the two
that matter); one without a state is saved with the empty one by PUT and NoData by POST.
The metric is the
environment's. The time a watch has been pending is an age that saturates at `AgeCap`,
no less than any duration. Ghosts: `opened` (incidents since a pass found the watch
fine), `failed` (the last incident was not created) and `claimed` (a client, not a pass,
made the watch alerting when it had neither).

### TailSampler implements SpanSampling

`SpanSampling` has one variable, the status of each span, and says: an accepted span
is held, then kept, dropped or refused, once; a decision covers spans of one trace;
a group with a marked span is kept. `TailSampler` has the map of buffers, the buffers
the loop or a flush has taken out of it, the receivers' calls between
`ShouldSample` and `RecordSpan`, the counters, and the manager's replacement of the
sampler (`Stop`, `Stopped`, `Start`). The refinement mapping gives a span the status of
the set it is in, "held" while it is in a call, a buffer or a taken buffer. The rules
of `makeDecision` (errors, latency, priority services, each at rate 1) are the set
`Marked`; the hash of the trace id under the default rate is the set `Lucky`.
`Unstorable` are the spans `RecordSpan` refuses.

Every atomic add is a step of its own: `ShouldSample` and `CountDeferred` are the two of
a receiver, `FinalizeTrace` and `TraceFinalized` the two of `finalizeTrace` (with
`EvictOldestTrace` in the place of the first when a receiver evicts), and `owing` are the
buffers between them. An evicting receiver holds `tracesMu` until its second add
(`TracesMuFree`). `StatsAddUp` is about the counters at every moment; one `GetStats`
loads them one after the other, so adds may fall between its loads and its four numbers
need not be of one moment.

### Tiering

One table. `hot`, `warm` and `cold` say where the rows are, `warmFiles` and
`coldArchives` are the lists, `saved` is the state file. A `TierData` is a program
counter in `pass`: the cutoff, the export, the DELETE with the same cutoff, the
listing, the choice of files to archive, upload and removal of each, the choice of
expired archives, their deletion, and the save. `helper` is the same for a `Compact` or a
`RestoreFromCold`. A save is two steps, the marshalling under `stateMu` and the write
after it, so savers may write in the opposite order. A restore creates or empties the warm
file (`DownloadFromCold`), fills it (`Downloaded`) or removes it again (`DownloadFails`),
and moves the entry (`ListRestored`): a TierData may archive the file half written.
`LocalBackend.Put` writes a temporary file and renames it, so a restore goes on reading
the object it has opened.

Each step may fail where the code has an error path. A crash may come between any two
steps and may leave the state file unreadable (`os.WriteFile` truncates first); it is a
crash of the process, not of the machine, since nothing here calls fsync.
`exportToWarm` may read fewer rows than it should (a failing Scan, an unchecked
`rows.Err()`) and write fewer than it read (a failing insert, the ignored error of the gzip
`Close`).

The hot tables have another writer: `Cleanup` is `Store.cleanup`, which deletes rows of
`CleanupAge` from the same database on its own ticker and exports nothing.
Timestamps and cutoffs are compared as text, of different zones and formats: `Shift[r]`
is by how much row `r` passes for older than it is, a constant of the row. `Parsed` are
the rows whose timestamp the driver returns as RFC 3339 text. The tiered tables declare
DATETIME, which the driver returns as `time.Time`: their rows are not in `Parsed`, and
the properties are checked and proved for rows of both kinds. `SameSecond` says whether
two exports may share a file name, `Lateness` how old a row may be when it is inserted.
Ghosts: `skipped`, `purged`, `cleaned` and `torn` are the rows that were lost, by the
way they were.

## Runs

| Run | Checks | Instance |
|---|---|---|
| `wal` | `TypeOK`, `NothingDroppedUnapplied`, `DurableUntilApplied`, `LogIsPending`, `SequenceOrdersLog` | two checkpoint goroutines, 2 segments kept, 1 entry per segment and buffer, 4 writes, a crash, an I/O fault |
| `wal_ticker` | `AppliedOncePerRun`, `DurableLeadsToApplied` | the ticker alone, 3 writes, a crash, a fault, fair |
| `evaluator` | `TypeOK`, `FiringMapAgrees`, `StoreFaithful`, `NoRepeatWithoutRecovery`, `ForDurationHonoured` | one threshold rule with ForDuration and KeepFiringFor, every disturbance, one restart |
| `evaluator_rules` | `ConditionGoneLeadsToResolved` | a threshold rule, an absence rule, a composite that is evaluated before both, failing queries, fair |
| `federation` | `TypeOK`, `TombstoneHasRecord` | two nodes, one incident, two updates, torn encodings, `Delay = Expiry = 1`, clock to 3 |
| `federation_live` | `NewestWins`, `NewestSpreads` | skewed clocks, torn encodings, a restart, fair |
| `escalation` | `TypeOK`, `AtMostOneLatePage`, `ResumableRowWasPaged`, `RowFollowsMemory`, `AckSurvivesLoop`, `UnansweredReachesLastLevel` | one incident, two engines, two levels repeated once, two triggers, a restart, a failing save, fair |
| `watch` | `TypeOK`, `AlertingHasIncident`, `FewDuplicates`, `BreachAlerts`, `FineEndsOK` | one watch with duration 0 or 1, ticker and ForceCheck, an edit with any state, and a restart or a failing incident, fair |
| `sampler` | `TypeOK`, `StatsAddUp`, `ImplementsSampling`, `DeferredIsDecided` | two traces of three and one spans, one an error, room for one trace of two spans, one span that is not stored, two receivers, one change of configuration, fair |
| `sampler_drop` | `DroppedIsNotStored`, violated | the same |
| `tiering` | `TypeOK`, `RowKept`, `ListedExists`, `RetentionEnforced` | a row that parses and one that does not and passes for a tick younger, the ticker's TierData beside a Compact or restore and `Store.cleanup`, two failures, crashes or restores, fair |
| `tiering_retention` | `KeptForColdRetention`, violated | timestamps that do not parse, no failures, `Store.cleanup` not in time |

**Bounds.** Two overlapping checkpoints, with a rotation and a crash between any two
of their steps, are what the WAL's comparison by sequence number can get wrong;
segments of one entry make every write a possible rotation, and four writes let
cleaning reach segments that a running checkpoint has not covered. In the evaluator
ages make time unbounded; two units separate before, at and after each duration, and
one restart is enough to see the notification it repeats.
For incidents two nodes suffice, since nodes interact pairwise through records and
updates that keep no sender; three ticks let a resolution, its expiry and a
late arrival follow each other. The exception of `TombstoneHasRecord` takes a third update
and a fourth tick to be needed; the instance checks the property without using it and the
theorem with it. `SYMMETRY` over nodes is used only in
`federation`, where clocks agree and no temporal property is checked. The proofs
remove all these bounds for the safety properties they cover. For escalations two
levels and one repetition reach every branch of `checkEscalation`, and two
triggers are the least that let an old object outlive its replacement. One watch is
enough, as passes share nothing across watches. In the sampler one trace fills its
buffer and the other pushes it out, so timeout, eviction and flush all meet; two
receivers overlap on both. In `tiering`, `Store.cleanup` deletes at the age of two ticks,
after the hot retention, so that it meets rows that a failing TierData has left behind as
well as rows in the middle of one. Two rows in `Tiering` make a file that holds some
rows and not others, and retentions of 0, 1 and 2 ticks keep the three cutoffs
apart.

**Deadlock** is checked for the WAL, the evaluator, escalation, watches and tiering.
It is not checked for federation, where the bounded clock and update count end every
behaviour, nor for the sampler, where a finite supply of spans does.

**Fairness.** `WAL`: the process is restarted, and the checkpoint worker, a ticker
loop, takes its next step; the callback is assumed to succeed in the end when it is
retried (`SF` on `CkptApply`). `AlertEvaluator`: `runLoop` is a ticker, so rounds
start, evaluate each listed rule and end, and time passes. Nothing is assumed of the
metrics. `FederatedIncidents`: memberlist's push/pull runs every 30 seconds over TCP,
so encodings start, end and are merged, and the cleanup runs every hour. No fairness
is assumed of the best-effort updates. `Escalation`, `WatchPaging`, `TailSampler` and
`Tiering`: their loops are tickers that only a shutdown ends, so rounds begin and a round,
a pass or a request that has begun takes its next step; time passes. Nothing is
assumed of metrics, users, edits, restarts, or of `Compact` and restores.

**Violations.** Two runs show where the code does not do what a comment says; each is
a finding in `PROJECT.json` with the quoted line:

* tail sampling drops nothing: the adapter takes a deferred decision for a yes, and
  the receiver stores the span at once (`sampler_drop`);
* a row whose timestamp does not read back as RFC 3339 text, as with
  `CURRENT_TIMESTAMP` in a DATETIME column, goes from hot to warm to cold to deleted in
  one TierData, because the range of its file is zero (`tiering_retention`).

The other models show more of the kind. Each can be seen by changing a constant or by
dropping the condition that is named:

* WAL: with `RotationLag = MaxSegments` cleaning deletes fsynced entries that no
  checkpoint has applied (`DurableUntilApplied`); with `HasCallback = FALSE`, as in
  `main.go`, checkpoints discard the pending entries (`NothingDroppedUnapplied`). A
  restart replays applied entries (`Committed` is never set), so the callback must be
  idempotent; half of a batch can survive a crash.
* AlertEvaluator: with `KeepFiringFor`, an alert whose condition clears early fires for
  ever, since `ActiveSince` is deleted before the early return
  (`ConditionGoneLeadsToResolved` with `MCKeep`). A pending series that vanishes keeps its
  `ActiveSince` and fires at once when it returns, although `rule.go:77` says "Must be true
  for this long": `ForDurationHonoured` is worded for what the code keeps, that no
  evaluation in between saw the series and found the condition not to hold. A restarted
  evaluator notifies of a condition that still holds a second time (the `restarts` in
  `NoRepeatWithoutRecovery`) and leaves rows that say firing for ever beside the new ones.
* FederatedIncidents: a node with a tombstone refuses newer states for ever, so nodes need
  not agree (the exception in `NewestSpreads`); with `TornReads` a peer can store a
  status with the timestamp of another: a copy that is resolved, updated later than its
  `ResolvedAt`, is dropped by the cleanup before its tombstone (`TombstoneHasRecord`
  without its exception, with `MaxUpdates = 3` and `MaxTime = 4`); nodes can teach each other expired incidents
  for ever, since each cleans up on its own timer.
* Escalation: after a restart both engines hold the incident; the one that did not
  get the acknowledgement goes on paging and saves its copy over it (`AckSurvivesLoop`
  without `Alone`). A crash between page and save pages the level again. The upsert
  never changes `policy_id`.
* WatchPaging: with a duration, a continuous breach alternates between alerting and
  pending and notifies each time, since entering Alerting clears `pendingStart`; a
  recovery by way of Pending or NoData leaves the incident tracked, and the next episode
  opens none; a failed `CreateIncident` is not retried; a client that saves a watch as
  alerting gets no incident for it (`claimed`), nor does the breach that follows; a pass can undo an edit or bring
  a deleted watch back.
* TailSampler: a span that arrives after its trace was decided is decided anew, perhaps
  otherwise; spans over `MaxSpansPerTrace` stay in the deferred count for ever, and an
  error in one of them is not seen.
* Tiering: `Store.cleanup` runs every five minutes and deletes rows of 24 hours, the age from
  which TierData, every six hours, exports them: most rows are gone before an export
  (`purged`). A TierData that
  archives a file a restore is writing replaces the object by an unreadable one (`torn`);
  with `SameSecond = TRUE` and a second pass two exports overwrite each other's
  file (`RowKept`); a crash between the removal of a warm file and the save makes every
  later TierData stop at the missing file; one failed upload forgets the other files
  taken off the list.

## Proofs

TLAPS checks these for every value of the constants that satisfies the named
assumptions (`WALAssumption`, `EvaluatorAssumption`, `FederationAssumption`,
`SamplerAssumption`, `WatchAssumption`, `RetentionAssumption`, and `PolicyAssumption`,
`EngineAssumption` and `BoundAssumption` of `Escalation`), which say little more than that sizes are natural numbers and
`AgeCap` is large enough.

* `WALProofs!TypeCorrect`: the file operations only ever extend the log
  (`Extends`), so one lemma covers every writing action.
* `WALProofs!NoEntryLost`, `NoEntryDropped` and `LogStaysPending`, assuming a callback
  and, for the first, `RotationLag < MaxSegments`: `DurableUntilApplied`, `NothingDroppedUnapplied` and
  `LogIsPending`. They are not inductive: whether a checkpoint may drop or delete depends on what its copy
  covers. `IInv` adds, for every running checkpoint, that pending entries outside
  the copy have larger sequence numbers, and that acknowledged entries outside it are
  applied or no older than the segment that was current at the copy; counting files
  (`OldSegmentsAreOld`) then shows that cleaning stays below that segment.
* `WALProofs!SequenceIsOrder`: `SequenceOrdersLog`, with no further assumption. A running
  log numbers above `entrySeq` and writes to its highest segment; after a crash `recover`
  must find both in the directory, which works because every entry on disk is in a file
  that is listed there (`Placed`): a rotation whose open fails leaves a closed file, and
  nothing buffered behind it can reach the disk.
* `WALProofs!OneApplicationPerRun`, assuming one checkpoint goroutine: `AppliedOncePerRun`.
  What was applied in this run is not pending, except between the callback's return and
  the clearing, when it is in the copy (`Once`).
* `AlertEvaluatorProofs!TypeCorrect`, `MapsAgree` and `RowsFaithful`: `TypeOK`,
  `FiringMapAgrees` and `StoreFaithful` are inductive together, with no further assumption.
* `AlertEvaluatorProofs!NoRepeat` adds `FiresOwed`: an alert that does not fire has a
  transition to spare, because it was found not to hold since, or was forgotten by a
  restart. Forgetting a resolved alert keeps it only because a resolved alert does not fire.
* `AlertEvaluatorProofs!ForDurationKept`, series that vanish and restarts included, adds
  `HeldSince`: whenever `ActiveSince` is set, the evaluations have seen nothing against the
  condition since at least then.
* `FederatedIncidentsProofs!LastWriterWins`: both writers compare timestamps before
  they replace; `Known` (a missing incident has no timestamp) closes the induction.
* `FederatedIncidentsProofs!TombstonesSound`, assuming `Delay <= Expiry`, with torn reads or
  without: `IInv` adds that a misdated copy is one that is marked (`MisdatedMarked`:
  `UpdateIncident` never makes one, only `StoreIncident` brings one in) and that a running
  cleanup has left only tombstones at or after its cutoff. An incident that is not marked
  and is resolved has a `ResolvedAt` no older than its `UpdatedAt`, which is no older than
  the tombstone, so the cleanup spares it as long.
* `FederatedIncidentsProofs!WholeReadsMisdateNothing`, assuming `~TornReads`: a resolved
  incident's `ResolvedAt` is then its `UpdatedAt` wherever a copy of it is (`AllWhole`).
* `TailSamplerProofs!Implements`: `ImplementsSampling`, the refinement of `SpanSampling`.
  A span's status is read off the sets it is in, so `IInv` says that it is in one place
  at a time (entering a buffer, in the map, in one taken buffer, decided), that it is in
  a buffer of its own trace, and that a receiver about to record a span has left it in
  one of these places; then `finalizeTrace`, called by three goroutines, can decide no
  span twice. Five lemmas (`PassStep` to `DecideStep`, `MoveStep`) say what a change of
  places is to `SpanSampling`; each action is one of them.
* `TailSamplerProofs!StatsAreRight` and `TypeCorrect`: `StatsAddUp` counts the spans that
  wait, so a step's effect on the counters is set against the cardinality of the spans
  that change places under `IInv`, add by add: a buffer in `owing`
  is decided and still deferred. `Managed` says that a sampler that is being replaced has
  neither buffers nor callers, so what its loop still holds is counted by nobody.
* `EscalationProofs`: every argument begins with `Owned`, that who holds an object by pointer
  holds one its engine has made. `OneLatePage` adds that an object escalated after its
  acknowledgement is in no copied round any more (`LatePageIsLast`).
  `RecoverySkipsNoLevel` adds that a level that nobody was told of is one the loop or the
  call is about to announce (`Announced`); it assumes `Orderly`: notifications are sent
  before the first level's delay is over, that delay is not zero, and the policy lists its
  lowest level first. Otherwise the loop escalates an object whose call has yet to page,
  or a repetition begins above a level. `RowIsMemory` and `AckIsKept` rest on
  `RowTrailsMemory`: while one engine has the incident and no save failed, an acknowledged
  row is of an acknowledged object, however the savers interleave.
* `WatchPagingProofs!AlertingIsPaged`: not only rows, but every copy a pass or a handler may
  save must be covered when it is alerting (`AlertsCovered`), also after a client's edit
  (`claimed`). `DuplicatesAreFew`
  is a counting argument: the incidents opened, the one the ticker's pass may still open
  (`Chance`) and the forced passes that may still open one or stop tracking one (`Threats`)
  are together at most `1 + edits + restarts` (`Budget`); `OncePerPass` makes a pass spend
  its share once.
* `TieringProofs!ListedCanBeHad` and `RowsAreKept`, for any number of `TierData`, `Compact`
  and `RestoreFromCold` side by side, though TLC runs one of each: while no two exports
  begin in the same second, a name stands for one record and one set of rows. `IInv` says
  that such a catalogue exists (`Kept`): every record that is in a list, in the saved state,
  in a state about to be written or in a pass's hands is the catalogue's and exists
  (`Listed`); a warm file that is not whole has its rows in the cold backend or lost in a
  way that is named (`Whole`, `Backed`), also when it is removed (`Removing`) or restored
  (`Copying`); an archive about to be deleted is expired (`Cleaning`), and no row whose
  timestamp parses is younger than its file's range says (`Ranges`). One lemma (`MoveStep`)
  covers every step but the export and the insert. `RowsAreKept` assumes besides that no
  row passes for older than `HotRetention` when it is inserted
  (`Lateness + Shift[r] <= HotRetention`): one that does, between the export and the DELETE
  with the same cutoff, is deleted without having been exported. Whether timestamps
  parse does not matter: for rows that do not, the theorem says that only
  `cleanExpiredCold` may destroy them, and `tiering_retention` that it may do so at once.

Only model-checked: the liveness properties (`DurableLeadsToApplied`,
`ConditionGoneLeadsToResolved`, `NewestSpreads`, `UnansweredReachesLastLevel`,
`BreachAlerts`, `FineEndsOK`, `DeferredIsDecided`, `RetentionEnforced`), which are out of the
prover's reach, and the violations. Every invariant and action property that a passing run
checks is also a theorem.

## Not modelled

Contents and formats: entry checksums and corrupted segments, label matching of
silences, what queries compute, SQL, HTTP. Statistics counters, but for the
sampler's. Most of the repository's 132,000 lines are parsers and query engines over text
and floats, SQL stores with a query per method, page rendering and HTTP handlers, adapters
to other systems and eBPF programs: they keep no state of their own between calls, or
compute what TLC cannot, so the share of the code the modules map stays small. What they
cover is the part with state, goroutines and failures. `PROJECT.json` gives the reason for
each component.

The alert router and the pager's escalation are left out because the program never
sets them up: `SetRoutes` and `SetDefaultPolicy` have no caller, and the router's trigger
carries a policy that `TriggerIncident` refuses. Of federation, node states, on-call
changes, metric summaries and memberlist's life cycle are still to come.

## Plan

1. Proofs: `RowKept` for late rows that no running export can miss; the steps of the
   liveness arguments that are safety (what each waiting state leads to next). A run of two
   TierData side by side, which is proved and too large for TLC beside restores.
2. `ClusterLifecycle`: `Start` holds the cluster's mutex during `Join`, whose merge
   calls back into code that takes it; the event channel's capacity; `Stop`.
3. The last-writer-wins maps of `SharedState`, and a departed node that returns.
4. Quotas, and the buffers of the audit and SIEM forwarders at their limits.
