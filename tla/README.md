# ipcap in TLA+

ipcap captures packets on a machine, keeps them in a durable *spool*, streams them over an
encrypted link to a *collector*, which writes a *mirror* (pcap files) and serves it to
PCAP-over-IP clients. Every packet has a *gpidx*, its number in the spool; the collector
resumes, dedupes and detects loss by gpidx alone. Beside the packets, TLS keys are hooked
out of containers and relayed to a keylog file.

This directory holds TLA+ models of that code, TLC configurations that check them on small
instances, and proofs, checked by TLAPS, of the safety properties of the spool and of the
collector, of the epoch file and of the hook reconciler, for every value of the bounds. `PROJECT.json` maps each definition to the source lines it models, and lists
the runs, the mutants that show each property can fail, the hazards and the theorems.

## The parts and their modules

    capture loop -> spool writer -> segment files, manifest.ndjson, head.json <- janitor
                                        |
                                   spool reader -> serve -> link -> demux -> mirror -> clients
    containers -> eCapture -> logs -> merge -> relay file -> serve -> link -> keylog sink

| Module | Code | State | Actions |
|---|---|---|---|
| `Spool` | `spool/spool.go`, `recover.go`, `janitor.go`, `manifest.go` | the directory (files, manifest, head.json), what of it is durable, the writer's fields | one per system call of `NewWriter`, `WritePacket`, `Tick`, `rotate`, `Close`, `Reap`, `recoverSpool`; `Kill`, `PowerCut`, `FailWrite`, `FailCall` |
| `Serve` (extends `Spool`) | `spool/reader.go`, `agent/serve_cmd.go` | the reader's view and position, the batch, the last frame | `refresh` in three reads, `position` as open and flock, each return of `Next`, batches, GAPs, connections |
| `Mirror` | `collector/mirror.go` | session files, resume.json, the published atomics | `openSession`, `Append`, `SetHeader`, `NewSession`, `persistState`, `publish` by system call; crashes and failing calls |
| `Collector` (extends `Mirror`) | `collector/demux.go`, `collector.go` | the link, the agent reduced to head and retention edge per epoch | `runOnce`, each frame of `Demux.Run`, the agent's capture, retention and redeployment |
| `Relay` | the promise of the two above | instance, next gpidx, packets held | `Deliver`, `Skip`, `Realign` |
| `FanOut` (extends `Collector`) | `pcapoverip/server.go` | one client's cursor | the loads of `Snapshot` one by one, reads, the session check |
| `Epoch` | `spool/epoch.go` | the epoch file and its callers | `Epoch` by system call |
| `KeylogMerge` | `tls/reconcile.go` (merge), `keylog/keylog.go` | hook logs, relay file, offsets, the pass in progress | `mergeLoop`, `mergeOnce`, `mergeTail` by chunk and by line |
| `KeylogRelay` (extends `KeylogMerge`) | `agent/keylog.go`, `collector/keylog.go` | the tailer of the connection, frames, the sink | `emitNew`, `Write`, `OpenKeylogSink`, connections, crashes, failing writes |
| `Reconcile` | `tls/reconcile.go` (hooks), `tls/config.go` | override file, containers, the `running` map, the goroutines | `reconcileOnce`, `runHook` step by step |

Theorems are in modules of their own: `SpoolInvariant` and `SpoolProofs` about `Spool`;
`CollectorFacts`, `CollectorTyping`, `CollectorSteps`, `CollectorRelay` and `CollectorProofs`
about `Collector`, with the inductive invariant in `CollectorInvariant`; `AgentProofs` about
`Epoch` and `Reconcile`.

The steps of a module are the points where another process, goroutine or crash can come in
between. The writer's operations exclude one another by `w.mu`, so one program counter drives
them; the reader shares no lock with it, so each of its reads is a step.

What is abstracted:

- A packet is a serial number (`Spool`) or a pair of epoch and gpidx (`Mirror`: a spool gives
  no gpidx twice, which is `OneIdentity`). A file is the sequence of its whole records plus a
  flag for a torn one. Lengths are counted in records, so rotation and retention sizes are too.
- A mirror file is its records and what its header declares: a link type, no header (records
  from the first byte on), or garbage in a header's place. A restart measures whole records from
  behind the header's length, so a file without a header loses an arbitrary part of its tail.
- A power cut keeps of a file what was fdatasync'd and any part of the rest. Of a directory it
  keeps the names at its last fsync and any of the creations since. Unlinks since then are undone
  from the last one back, as a journal that is replayed in order does it: the files that return
  are the newest of the unlinked ones, or none. A kill loses memory, never the page cache.
- `Collector` replaces the agent by what `Serve` checks: contiguous batches with true packets
  (`WireTrue`), no jump without a GAP (`NoForwardJump`), GAPs over reaped packets only
  (`GapIsLoss`). The replacement also allows a view that shows less than there is. With the fault
  `noid` a preamble may carry no epoch id, which `Epoch` shows to happen and `reconcileEpoch`
  ignores. A redeployment (`Wipe`) restarts the listener, so it ends the connection: a spool
  directory that is emptied under a running listener is not modelled.
- `FanOut` counts a cursor in records, which is exact for a cursor of the file that is read. The
  published length may be that of another session's file (`lenOf`): as a limit it then covers any
  number of the file's records, and as a cursor it may point into the middle of one (`torn`). From
  such a cursor `ReadRecordAt` may stall for ever, yield a record made of other records' bytes
  (`Junk`), or by chance a whole one.
- In the key models a line is a sequence of tokens: a key, a newline, garbage. Two keys joined
  by a torn write are an invalid line, as `keylog.Valid` makes them. Logs of hooks are only
  appended to.
- In `Reconcile` a container uses one TLS library and an override names no path, so that a
  target's key is its name. A container has two names, its id and its label: discovery knows the
  id only, and an override or an exclude entry may be either.

## What the runs check

Each run is `tlc -config <cfg> <module>`. Deadlock is checked in all of them.

| Run | Faults | Question | States |
|---|---|---|---|
| `spool_kill` | kills, clean stops | Is a gpidx ever reissued, does anything advertised disappear before retention takes it, does recovery refuse its own spool, is the reported edge true? Is every packet shown in the end, and is the cap enforced unless a reader holds the oldest sealed file? | 100,813 |
| `spool_power` | power cuts | The same but for the edge and the refusal (which is proved), and: is only synced data advertised? | 184,238 |
| `spool_faults` | all, with torn lines and failing calls | Do types hold, and is the active file never unlinked? | 257,590 |
| `serve_crash` | kills, power cuts | Does a reader without locks stay aligned, tell the truth on the wire, and announce exactly the real losses? | 915,670 |
| `serve_live` | kills, power cuts | Is every advertised packet sent or given up while the connection lasts? | 367,268 |
| `collector_epochs` | a power cut, redeployed spool | Does the collector realign, never mix two spools in a file, implement `Relay`, and catch up? | 459,329 |
| `collector_errors` | failing calls, kills, power cuts, empty epoch ids | Is a session with a durable successor left as it is? | 3,795,957 |
| `fanout_crash` | kills, power cuts | Is the commit point backed, does it only move forward, is nothing below it lost silently, do headers tell the truth, is a client given durable records only, and, if its first `Snapshot` was not torn, a contiguous run to the end? | 1,009,629 |
| `epoch_faults` | kills, power cuts | Is a durable epoch kept, and the only one returned? | 25,517 |
| `keylog` | kills, power cuts, failing writes, lost connections | Does every key arrive, once, and no garbage? | 486,315 |
| `reconcile` | exits of eCapture, failed discoveries, stops | Do map and goroutines agree, do hooks follow the plan, do they run? | 139,204 |
| `collector_epoch_skip` | none | Violated: see below. | |

The type invariants of `Serve`, `Collector`, `FanOut`, `Epoch` and `Reconcile` are stated in the
modules and hold in these instances; the runs keep to the properties above.

### Bounds

- *Spool*: six packets in files of two make three files, enough for a sealed file before, in
  and after the one at hand; the cap of five records lets the janitor take a file while one
  sealed file remains (below that the code itself fails, see `SpoolSmallCap.cfg`). Two outages
  give a crash in the recovery from a crash. A crash between a write and the rotation it calls
  for lets the file grow by one more record, so a third outage needs a cap of six: this is
  `RoomForTwo` of `SpoolProofs`, and five is the smallest cap that satisfies it for two outages.
- *Serve*: four packets in up to three files of two, so that batches end inside, at and across
  a file's end, and the janitor overtakes a reader between two of its steps. A view without
  faults has no hole in it: `NextAtHole` needs a torn line (`ServeTornStall.cfg`). `serve_live` has one record per file instead, and a cap that leaves one file: a view goes
  stale at every step.
- *Collector and FanOut*: batches of two, so that a batch straddles a commit point.
  `collector_epochs` has two frames in flight, so that another is on its way when the connection
  breaks; the other two runs have one, and what they check of the wire is proved for any number. Sessions are bounded
  above what GAPs, wipes and crashes can open within the other bounds. `collector_epochs` has
  one outage beside the wipe, which ends a connection too; its safety properties are proved for
  any number. The other two runs have two.
- *Keys*: a line may be one token, a chunk is two, so that lines end inside, at and across
  chunks, and an oversized line spans several; five tokens hold two keys and garbage. One outage
  of any kind; two exceed a few minutes.
- *Reconcile*: one container with its two names, so that there are up to two targets, two starts,
  one edit to any other override file, two failures.

### Fairness

- `FairSpec`: systemd restarts the capture process (`Restart=always`, DESIGN.md:20), and an operation that has
  begun goes on: weak. `maintenanceLoop` calls `Tick` and `Reap` for ever but competes for
  `w.mu` with packets: strong, since a Go mutex in starvation mode hands over in order.
- `FairServeSpec`: `RunServe` polls while connected; the writer ends what it has begun. Neither
  packets, retention nor connections are owed.
- `FairCollectorSpec`, `FairFanOutSpec`: the supervisor redials, the demux reads, serve sends,
  the client goroutine polls every 20 ms. Lost connections and crashes are bounded outages.
- `FairKeylogSpec`: the merge's ticker, the beats and the supervisor. A lost connection is a
  bounded outage here because keys are sent from the start each time: a network in which no
  connection lives long enough would deliver the first keys for ever.
- `FairReconcileSpec`: the ticker, and each goroutine for itself.

### Refinement

`IsRelay` of `Collector` states that the collector implements `Relay`, seen through resume.json
and the synced records below its commit point: each step delivers the next packets once, skips
reaped ones, or turns to a newer spool. It turns to it at the retention edge or before it, or at
the position it had in the old one (`Realign`): then packets of the new spool are lost, which is
what `collector_epoch_skip` shows, and no other position is allowed. The run has power cuts only: after a kill the synced
part of a file lags behind what the process will find, and a power cut may take that back. The
theorem `IsRelayHolds` covers all bounds, and kills alone as well.

## What is proved

Everything below is checked by `tlapm` for every value of the bounds (packets, file sizes, files,
sessions, batches, outages, callers, containers), from the named assumptions that the modules
make about their constants (`BoundsAssumption` and the like: bounds are natural numbers, faults
are among the known ones).

### The spool

| Theorem | States | Under |
|---|---|---|
| `TypeCorrect` | `TypeOK` | any faults |
| `ActiveOnDiskHolds` | `ActiveOnDisk` | any faults |
| `SpoolSound` | `OneIdentity`, `NothingVanishes`, `NeverRefuses`, `OldestIsTrue` | `CleanFaults`, `RoomForTwo` |
| `IdentityHolds`, `NothingVanishesHolds`, `NeverRefusesHolds`, `OldestIsTrueHolds` | the same, one by one | `CleanFaults`, `[]OldestAnchored` |
| `DurableHolds` | `AdvertisedDurable` | `CleanFaults`, no kills, `[]OldestAnchored` |
| `AnchoredHolds` | `OldestAnchored` | `CleanFaults`, `RoomForTwo` |

- `CleanFaults`: no torn manifest line, no failing call, and not kills *and* power cuts. The
  configurations below show that each is needed.
- `OldestAnchored`: retention leaves an oldest file whose first gpidx recovery can know.
- `RoomForTwo`: the retention cap has room for two full files and one more record per outage. A
  restart can take a full file for its active one, and `WritePacket` rotates only after it has
  written, so each outage can add a record to a file. The cap of five in `spool_kill` and
  `spool_power` is the least that satisfies it, and with four TLC finds `Anchored` violated.

`OneIdentity` is not inductive: it says nothing about where packets are. `IInv`
(`SpoolInvariant`) adds it. The files on disk are an interval; each starts where the one before
ends and only the newest grows (`Span`, `Chain`). Every manifest line is true of its file, comes
once, and is durable before the next file exists (`Lines`). head.json never exceeds what the
faults cannot take back (`HeadTrue`). The writer's fields agree with the disk in each phase
(`Writer`, `SealedTrue`). Every advertised packet is still at its place in some file, counting
reaped files (`Kept`). `Stable` is what the faults in force cannot take back: synced records with
power cuts, all records with kills alone.

On top of `IInv`, `SpoolProofs` shows that the view of a running writer covers all that was
advertised (`Shown`), that the reported edge is the oldest file's in every phase (`Edge`), and
that the janitor never leaves the active file alone: two neighbouring files fit under the cap
(`Sized`), so a file that is alone starts at 0 or has a lasting manifest line (`Anchored`). The
janitor's sum over all files is needed only where two are left (`PairSum`).

### The collector

| Theorem | States | Under |
|---|---|---|
| `CollectorTypeCorrect` | `CollectorTypeOK` | any faults |
| `SealedStaysHolds` | `SealedStays` | any faults |
| `CommitBackedHolds`, `ExactlyOnceHolds`, `NoJumpSeenHolds`, `ResumeForwardHolds` | the property of that name | `CallsSucceed` |
| `NoSilentLossHolds`, `HeaderTrueHolds` | the property of that name | `CallsSucceed`, one spool instance |
| `ClientContiguousHolds`, `ClientDurableHolds` (of `FanOut`) | the property of that name | `CallsSucceed` |
| `IsRelayHolds` | the refinement of `Relay` | `CallsSucceed`, not kills *and* power cuts |

`CallsSucceed`: no call on the mirror's files fails, and every preamble names its spool instance.
Failing calls are excluded because the code does break these properties then
(`CollectorPartialWrite`, `CollectorDoubleCount`, `CollectorResumeBack`, ...), and so does it when
`Epoch` has returned "" (`CollectorEmptyEpoch`). With several spool
instances `collector_epoch_skip` refutes `NoSilentLoss`, and a file whose session was never
persisted can be taken over with the old header (`CollectorStaleHeader`). Kills followed by a
power cut make what a restart finds go back, which is no step of `Relay`.

The invariant `CInv` (`CollectorInvariant`) relates five things: the session files, the
resume.json that a process finds, the one that a power cut leaves, the mirror's fields, and the
frames in flight. Each file is one run of packets, and the runs do not overlap (`Runs`). Each of
the three states is backed by its file and lies between what earlier and what later sessions hold
(`Point`); they are in the order in which one can follow the other (`Later`). The open file has
what is committed, and in `Append` what is being appended (`Opened`). A batch on the wire begins
at or before the position that the frames before it lead to, and a GAP ends where retention has
got to (`Stream`, `Position`, `Welcome`). The conjunct that is easy to miss is `Clear`: a crash
between the records and resume.json leaves packets in a session nobody names, so no batch in
flight may lie below them. `LInv`, `HInv` and `RInv` add what loss, headers and the refinement
need.

A client's `Snapshot` can pair a new session with the length of the old one. `LenInv` says when:
only between the two stores of `publish`. `ClientInv` (`CollectorProofs`) says why this gives the
client no uncommitted record: its file is that of the published session or of one that is over for
good, and a length that bounds its reads covers only what is durably committed of that file
(`Good`), or ends below its cursor. What it is given are therefore good records of its file, and
junk only if its first `Snapshot` was torn; `ClientContiguous` is claimed for the others.

### The epoch file and the hooks

`EpochStaysHolds` (any faults, callers and ids): an id that is durable is never replaced and is
the only one returned from then on. The invariant is that at most one caller is between its
`O_EXCL` create and its sync (`OneWriter`). `HooksTrackedHolds` (any containers, edits, restarts
and failures): a goroutine that nobody cancelled is the one in the `running` map.

### Only model-checked

- Liveness (`CatchesUp`, `ClientCatchesUp`, the liveness of spool, serve, keys and hooks): fairness
  and `ENABLED` are out of the prover's reach.
- The reader and serve (`Serve`). Its steps extend the writer's, so its invariant would have to
  relate three stale reads to every phase of `IInv`.
- The keylog path: what its merge computes is a fold over lines cut into chunks, and what it
  computes for every log is an induction over data.
- Everything under the faults that a theorem excludes.

## Where the code differs from what it says

Run `collector_epoch_skip` is part of the list of runs: after a redeployment, the old commit
point is taken for a position in the new spool if that already holds as many packets
(`reader.go:54`), and the new spool's first packets are never sent, though the comment promises
"all of the fresh spool's data". The other configurations here, each with one property that TLC
finds violated, reproduce further disagreements:

| Configuration (module) | Property | What happens |
|---|---|---|
| `SpoolKilledUnsynced` (Spool) | `AdvertisedDurable` | After a kill recovery advertises records still only in the page cache (`recover.go:173`). |
| `SpoolKilledThenCut` (Spool) | `OneIdentity` | A power cut after that takes them back; their gpidx are given again. |
| `SpoolSmallCap` (Spool) | `OneIdentity` | With a cap below one file only the unsealed file is left; a restart numbers it from 0 (`recover.go:92`). |
| `SpoolTornLine` (Spool) | `NothingVanishes` | A torn manifest line is never cut off; lines behind it are not read (`manifest.go:84`). |
| `SpoolFailedRotation` (Spool) | `OneIdentity` | `openNewSegment` fails after the seal; the sealed file grows on (`spool.go:273`). |
| `SpoolOrphan` (Spool) | `NeverRefuses` | A failed rotation leaves a headerless file that later is a middle one (`recover.go:154`). |
| `ServeTornGap` (Serve) | `GapIsLoss` | Behind a torn line files are there, and a GAP skips them. |
| `ServeTornStall` (Serve) | `StreamCatchesUp` | The hole behind a torn line never closes (`reader.go:153`). |
| `ServeStrayLock` (Serve) | `LockedByReader` | `defer r.Close()` closes the first reader, not the reopened one (`serve_cmd.go:77`). |
| `CollectorDoubleCount` (Collector) | `NoSilentLoss` | `persistState` fails after the state moved: a batch counts twice (`mirror.go:232`). |
| `CollectorPartialWrite` (Collector) | `ExactlyOnce` | A retry in the same process appends behind a partial write (`mirror.go:225`). |
| `CollectorStaleHeader` (Collector) | `HeaderTrue` | An unpersisted session's file is reused with its old header (`mirror.go:118`). |
| `CollectorLostHeader` (Collector) | `HeaderTrue` | `SetHeader` fails after the truncation; the next call finds nothing to do (`mirror.go:193`). |
| `CollectorResumeBack` (Collector) | `ResumeForward` | The same, and records follow into the headerless file; after a kill the file is begun afresh, and a GAP persists a lower commit point (`mirror.go:193`). |
| `CollectorClosedFile` (Collector) | `CatchesUp` | `openSession` fails after the close; every later `Append` fails (`mirror.go:245`). |
| `CollectorEmptyEpoch` (Collector) | `ExactlyOnce` | A preamble without an epoch id is ignored: packets of the new spool follow in the old one's file (`demux.go:133`). |
| `FanOutTornCursor` (FanOut) | `OnlyRecords` | A client pairs the new session's file with the old length as its cursor (`mirror.go:55`) and is sent bytes that are no record. |
| `FanOutTornStall` (FanOut) | `EveryClientCatchesUp` | From such a cursor every read fails and is retried for ever (`server.go:93`). |
| `EpochRace` (Epoch) | `AllAgree` | The loser reads the file before it is written and returns "" (`epoch.go:47`). |
| `EpochLost` (Epoch) | `OneEpoch` | An id is returned before it is durable (`epoch.go:51`). |
| `EpochStuck` (Epoch) | `EpochKnown` | A crash before the write leaves an empty file for good (`epoch.go:44`). |
| `ReconcileEdit` (Reconcile) | `EditsApplied` | A running hook keeps its target after an edit or a restart of its container (`reconcile.go:95`). |
| `ReconcileExcludeLabel` (Reconcile) | `ExcludedByAnyName` | `IsExcluded` compares with the id of a discovered container only; an entry with its label does not exclude it (`config.go:63`), though `config.go:25` and `deploy/tls_targets.yml` promise it. |

## Not modelled

- Capture sources and the exclusion filter: kernel rings and a pure function of packet bytes.
- The record codec and `ScanRecords`: a file is its whole records. A smaller snaplen at a restart,
  which makes whole records look torn, is therefore out of reach.
- The encoding of frames, zstd and Noise: a frame arrives whole or the connection ends.
- ACKs, heartbeats and statistics: they never move a commit point.
- Two writers on one spool (`RecoverReport` beside a live capture): nothing in the code
  prevents it, and the models have one writer.
- The scan of `/proc`, eCapture's arguments and the dry run of the reconciler.
- Configuration, metrics, systemd notifications and the command line.
- Go data races on plain fields (`Mirror.gh` in `Snapshot`).
