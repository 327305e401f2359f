# transfer-assistant in TLA+

A model of the LAN file-transfer program in `src/`: what it does to its records,
files and tasks, which of its promises hold, which do not, and why. Eleven modules model the
program, two of them (`Pairing`, `Delivery`) what others promise; all are model-checked with
TLC, and every safety property that holds of the code is also proved with TLAPS, for all values of
the constants (section *Proofs*). The last section is what is left.

Paths without a directory are under `src/native/transfer_core/src/`.

## 1. The system

One process per device. A Rust core (`transfer_core`, a Tokio runtime with four worker
threads) is loaded by a Flutter application through a C interface; it keeps its state in
memory behind one mutex and in a SQLite database.

| component | state | operations | talks to |
|---|---|---|---|
| lifecycle `model.rs` | one `TransferState` per record | `transition_to`, `apply_command` | everyone |
| core `core.rs` | `transfers`, `outgoing_jobs`, `incoming_controls`, `pending_answers`, events, two permits | `send`, `command_transfer`, `answer_offer`, `clear_history`, `delete_history_transfer`, `shutdown`, `initialize` | spawns sender tasks, starts the network |
| sender `outgoing.rs` | the task of an attempt, its `JobControl` (paused, cancelled, a queue), the shared chunk queue | `run_outgoing`, `send_data_channel`, `checkpoint` | one control and up to four data connections over TLS |
| receiver `lan.rs` | `NetworkState.incoming`, one handler per connection | `accept_loop`, `handle_incoming_control` | the core, `incoming.rs` |
| data plane `incoming.rs` | `IncomingContext`: resume maps, `remaining_chunks`, `active_channels`, the notification `completed` | `prepare_incoming`, `handle_incoming_data`, `finalize_incoming` | file system, tables |
| persistence `persistence.rs` | tables `transfers`, `transfer_items`, `completed_chunks`, `trusted_peers`, `core_settings` | one transaction per call | |
| chunks `chunk.rs`, storage `storage.rs` | a bitmap per file; the `.part` file | `mark_complete`, `write_verified_chunk` | |
| wire `wire.rs`, `protocol.rs`, `transfer.rs`, `identity.rs` | certificates | framing, hello, pairing code, token | |
| names `manifest.rs`, `path_safety.rs` | none | `validate`, `allocate_final_paths` | |
| discovery `mdns.rs` | the peer list | `upsert_peer`, removal | UI |
| FFI `ffi.rs` | one engine slot behind a mutex | `initialize`, `invoke`, `poll_event` | Dart |
| application `app/` | `pendingOffer`, lists, foreground-service reasons | buttons, event loop | FFI |

How they interact: the user's commands change a record under the lock, save it, and tell
the task through its `JobControl`. The task only looks at the control at certain awaits.
Two processes talk over the control connection (hello, offer, manifest, pairing, decision,
resume map, pause/resume/cancel, result), and chunks travel on independent data connections
that join a context by transfer id and token. Results come back to the record through
`cancel_transfer_with_error`, `interrupt_transfer` and `fail_transfer`.

What is hard: several tasks and handlers, the user, the peer and a crash all write the same
record; handlers of an old attempt live on when the next one starts; files, rows and records
are three stores without a common transaction; notifications reach only who already waits;
no read of the protocol has a timeout. What makes each component correct:

* core and sender: one live task per transfer, no record under way without its task, no lost
  permit, terminal records final, a cancel ends the task, cleared history stays cleared;
* receiver: a file under its final name is whole, progress survives failure, a cancel leaves
  nothing behind, the receiver does not wait when nothing is missing;
* both sides: the sender never claims more than the receiver has, nobody waits for ever, no
  deadlock on trust or permits;
* data plane: every missing chunk is sent once, to its place, over stealing, prefetch and retries;
* chunks and names: both sides cut a file alike and mean the same chunks, and no file replaces another;
* discovery: what two sources, the sessions and the user write into one list ends up right.

`PROJECT.json` lists every hazard with its line; the properties are aimed at them.

## 2. The modules

### TransferModel
`model.rs` and the three ways in which an outcome or a message of the peer changes a record
(`AfterOutcome`, `AfterRemotePause/Resume/Cancel`), and what a start makes of it (`Restored`).
`Outcome` classifies errors as `is_cancelled` / `is_retryable` do: cancelled, retryable, fatal.

### OutgoingJobs
The device that sends. `record` and `row` are the state in memory and in the database; they
differ where the code lets them: between the two steps of the history commands, and after a save that failed. Every
writer changes the memory first and then calls `save_transfer`, which may fail (`WriteLost` next to `Write`): a command
then returns before the control is told or the task spawned, a task ends with the error, the wrapper of a task ignores
it. `unsaved` is history, the transfers whose row such a save has left behind. `items` and `job` say
whether sources were saved and whether `outgoing_jobs` has an entry. A task is an attempt of
a transfer; `pc[t][a]` is its place in `run_outgoing`, named after the await it stands at
(`permit`, `connect`, `pairing`, ..., `stream`, an outcome on its way to the wrapper of
`spawn_outgoing`). `control` is its `JobControl`. The FFI serialises commands with one mutex;
commands that take the state lock more than once are split where another thread may come in
(`SendSave`/`SendSpawn`, `ClearHistoryRows`/`ClearHistoryRecords`, ...) and `call` remembers
the command in between. The peer is open: it may answer, refuse, send any control message or
break the connection at any time. `Restart` is a crash as well as a restart: memory is rebuilt
from the rows, all tasks are gone.

### IncomingTransfer
The device that receives, for one transfer id. An attempt is a control connection of the
sender, with its handler in `lan.rs`; channels are data connections with their handlers in
`incoming.rs`. The stored state is `record`, `rows` (completed_chunks), `listed`
(transfer_items), the `.part` files and the delivered files. A file on disk is an inode: an
attempt that creates a `.part` file makes a new one, `temp` says which inode the path names
now, `target` which one an attempt has open, `copies` which ones were renamed to a final
path. This is what tells a late writer of a removed file from a writer of its successor.
Each place between two awaits, lock sections or stores is a step of its own, in the order of
the code: `write`, `mark`, `count`; rename, clear rows, remove the directory; record, control,
files, rows for a cancel. `Return` is every way out of the control handler, with the guard
that unregisters; `SettleControl`/`SettleChannel` and `CleanControl`/`CleanChannel` are the
wrapper of `accept_loop`. `Command` is any command of the user but Cancel; `Commands` says which
ones a run allows. The sender is open: it offers again at any time, sends any chunk on any channel
and closes or breaks any connection. A crash ends the process; what was written or committed
stays. `DeleteFiles` and `DeleteRows` are `delete_partial_data`:
with `MayFail` the items cannot be listed, a `.part` file cannot be removed or the rows cannot be deleted, and the save
of a Cancel may fail as well; the error is ignored, as in `accept_loop`. `keptParts` and `keptRows` are history of what the
last clean-up failed to delete. Left out: pairing, permits, the Android storage variant, directories and the choice
of final names, and other failing saves of the record, which leave its wrapper the same record in memory and are in
`OutgoingJobs`; since the row of an unsaved record is not followed here, `MayFail` goes without crashes. A pause only stops the data handlers,
which every safety property allows anyway, so the paused flag is left out; an orderly
shutdown is, for what is stored, a crash.

### Pairing and Handshake
`Pairing` is the promise of the handshake without its messages: each side of a session looks
the other up once, each user answers once, trust is stored, the receiver grants, the
sender starts, each under the condition that makes it right. `Handshake` is how the code
does it: both ends of the control connection of every session, from the first message to the
result, on any number of devices. `spc` and `rpc` say where `run_outgoing` and
`handle_incoming_control` stand, named after the message or permit they wait for;
`toReceiver` and `toSender` are the two directions of a connection, in order. `trusts` is the
table of trusted peers of every device, as pairs; `view` is what a side found there
(`is_trusted` is asked once a session), `prompt` is `pending_answers`, which holds one prompt per
transfer and so loses the older one when a sender connects again, `record` is the receiver's
record, and `free` counts the permits of `active_tasks`, shared by the tasks and the handlers of a
device. `granted` and `started` are history. A retry is the next session of the transfer;
its receiver may still serve the previous one. Users answer anything at any time,
forget a peer on one device only, and cancel on the receiving side; connections break at every read
and a crash empties all but the two stored tables. `PairingPromised` says that `Handshake`
implements `Pairing`; the variables of the promise have the same names, so the mapping is the
identity on them and drops the rest. Left out: what happens within the stream (that is
`IncomingTransfer`), the saved rows of the sender (that is `OutgoingJobs`), shutdown, and the
computation of the six digits: the users, who compare them, may answer anything.

### DataPlane and Delivery
Both ends of the data connections of one transfer. The sender has one queue (`queue`, the
`shared_jobs` of `outgoing.rs`) from which its channels steal; a channel holds the chunk it is about to
write (`hold`) and reads the next one ahead (`ahead`); `spc` and `rpc` are the places of
`send_data_channel` and `handle_incoming_data`. Writing a chunk and
counting it are two steps (`SendChunk`, `CountSent`), between which the result may arrive and complete the record; a
channel that is aborted there still counts, because no await lies between the two. `link` and `cut` are a connection. A chunk is its index
and what was read for it: a source without random access is read where its `cursor` stands,
a target without random access is written in order from `position`, and then only one channel is used.
`handler` and `signal` are the loop of `handle_incoming_control` that waits for the
channels, `nap` is where a channel stands in `checkpoint` (`FindPaused` reads the flag, `FallAsleep`
creates the `Notified` future). Any read, write or connection may fail; `Retry` begins
the next attempt with what the resume map lacks. `Delivery` is the promise: chunks only arrive, an attempt may break
and be followed by another, and the transfer is whole only when nothing is missing;
`DeliveryPromised` is the refinement, with "missing" mapped to what is not rightly on the disk. A source
without random access is excused from "rightly", because the code does not promise it (see section 3). `NothingForgotten` speaks of
the stations a chunk may be at between the queue and the disk, of which it is at exactly one. Left out: several files (the
queue is their concatenation) and late handlers of an old attempt (`IncomingTransfer`).

### Session
One accepted attempt on both devices at once: the two records, the two tasks, the control connection.
A frame is read in two parts (`ReadLength`, `ReadBody`); when `select!` takes another branch in
between, `DropRead` loses what was read and the next read begins inside the frame (`garbled`), which
`protocol.rs` takes for a length too large: a fatal error. `outbox` is the queue of `JobControl`, `paused` and
`stopped` its flags. The users give any command the buttons of `transfers_view.dart` offer (`Offered`: Resume
only on a paused record), or quit. The data plane is one channel and a count of chunks. Left out: what comes before the
decision (`Handshake`), retries (`OutgoingJobs`, `IncomingTransfer`), the wake-ups `checkpoint` misses (`DataPlane`).

### ChunkPlan
`chunk.rs` as operators, with the widths of words, bytes and counts as constants, and a small
machine that calls them: chunks arrive in any order and repeatedly (`Arrive`), the map is rebuilt from rows (`Rebuild`),
also from a row that is out of range, and the sender asks for what is missing (`Resume`) whatever is in the unused bits of the last
byte. `Accepts` is `validate_header` with the comparison of `handle_incoming_data`.

### FinalPaths
The names, from the sources the user picks to the files in the receive directory. The sender gives its
sources roots that differ (`UniqueRoot`; files picked on Android keep their names, as in the code) and
refuses a manifest in which a path occurs twice (`Valid`). The receiver gives each root a free name
when the attempt begins (`Allocate`) and, when it ends, makes folders, checks each name and
renames in two steps (`Check`, `Rename`). Names are words with numbers; which words become
one when characters are replaced, on either side, or in another case, are functions that are parameters
of the module, and so is what may be picked; either all sources of a transfer come from a picker on Android or
none does, because one makes `scan_sources` treat all of them so. `disk` is what the directory holds and who put it there. Rename replaces a file that appeared
after the check (`docs/spec.md:13` says that files are never overwritten): `raced` remembers these, and
`Kept` excuses them only. Inside a folder names are not made unique: two that become one
refuse the manifest, or fail every attempt. Left out: depth of more than one folder, links, the lengths
and characters `validate_relative_path` refuses, the Android variant.

### Discovery
The list of devices (`peers`) and its writers. The browse thread looks trust up (`looked`), then takes the lock and
writes the whole entry (`Upsert`); it notes in `services` and `heard` which source has the device, ages what it has
not heard for twelve seconds, and begins a new browse every thirty seconds, with which unread
events are gone. Sessions write the entry with the trust they found and, for incoming connections, the port
of the connection; pairing stores trust first and the list next. The user enters an address, forgets one
device or all. The mDNS daemon is external: it tells each browse what it knows and drops what is not
renewed. An entered address has an id of its own (`Manual`), assumed to be that of no device:
it has a prefix, and ids of devices are fingerprints. Left out: names, kinds and interfaces, sources that fail for good.

## 3. Runs

| run | bounds | shows |
|---|---|---|
| `outgoing_jobs` | 2 transfers, 1 permit, 1 retry, 1 restart, a failing save before the restart | `TypeOK`, `OneLiveTask`, `RetryableIsQuiet`, `PermitsAddUp`, `OrphansOnlyUnsaved`, `TerminalIsFinal` |
| `incoming_crash` | 1 file of 2 chunks, 1 channel, 2 attempts, 1 crash | `FirstDeliveryIntact`, `ProgressSurvives` |
| `incoming_channels` | 2 files of 1 chunk, 2 channels, 1 attempt, cancels, `.part` files may vanish, deletions and the save of a Cancel may fail | `TypeOK`, `CompletedDelivered`, `RemainingCoversMissing`, `CancelledForgets` |
| `incoming_rename` | 1 chunk, 2 attempts, 1 crash | `EveryCopyIntact` is violated |
| `handshake` | 2 devices, 1 transfer, 2 sessions, 1 permit, 1 crash | `TypeOK`, `StreamsVouched`, `PermitsShared`, `AlikeNeverStuck`, `PairingPromised` |
| `handshake_trust` | the same without a crash | `NoMutualWait` is violated |
| `data_plane` | 3 chunks, 2 channels, 2 attempts, 1 pause or failure, every kind of source and target | `TypeOK`, `NothingForgotten`, `ProgressHonest`, `GivesUpForCause`, `DeliveryPromised` |
| `data_plane_live` | the same in 1 attempt, fair | `AllArrives` |
| `session` | up to 2 chunks, 2 commands, 1 failure, fair | `TypeOK`, `CompletedTogether`, `ShownAsHeld`, `CancelledOnRequest`, `OutcomeStands`, `BothEnd`, `CancelEndsBoth` |
| `chunk_plan` | files of up to 10 bytes, chunks of up to 3, words of 4 bits, bytes of 2, at most 9 chunks | `Tiles`, `MapMeansSet`, `ResumeExact`, `HeaderExact` |
| `final_paths` | 2 transfers, 9 selections, 1 retry, 1 file of another program | `TypeOK`, `Kept`, `FailsForCause` |
| `discovery` | 1 device, 1 session, 2 commands, 2 moves, 2 unread events, fair | `OnlineAsHeard`, `EntryRight`, `GoneShown` |

Why the bounds are enough to be of use: two tasks that compete for one permit are the smallest
case in which a permit can be lost, given twice or waited for; a second attempt is what a stale task
or handler can meet, and one record out of step with its row is what a restart or a retry can meet. No save fails after
the restart of `outgoing_jobs`, and its retry is the only one: the theorems of `OutgoingJobsProofs` have neither bound. Two chunks are the
least for a file to be partly received, two channels for a chunk to be received twice, two
files for a finalization to fail half way. `CancelledForgets` is checked for one attempt only, two of them take too long; its theorem holds for any number.
Two sessions are the least for a retry to find trust that the first one stored, or a prompt that
it replaces; the five properties of `handshake` also hold for one transfer each way (one session,
1.1 million states). In the run itself one device only sends and the other only receives, so that its `PermitsShared`
says little of a semaphore shared by a sending task and a handler: that case is the theorem's (`PermitsAddUp`). Three chunks on two channels are the least for one to steal and to prefetch while the
other does; one failure with a retry is enough for every place to be left half way. Two commands are the least
to cross, from one user or from both. The widths of `chunk_plan` are small so that two words, three bytes
and a count that does not fit all occur; the code's 64, 8 and 2^32 - 1 are the same constants. The
selections of `final_paths` are the ways in which names collide: equal, in another case, after
cleaning on either side, with a number, inside a folder, picked on Android. Entries of different devices in `peers`
do not touch each other, so one device is enough for `discovery`; it has one session
at a time, and two sessions that write the same entry at once are not explored.
`CHECK_DEADLOCK FALSE` wherever attempts, restarts or commands are bounded: a
device whose transfers are all over does nothing more. `chunk_plan` never stops and is checked for deadlock.
Symmetry is used only in runs without liveness properties; `ProgressSurvives`, `OrphansOnlyUnsaved` and `TerminalIsFinal` are
properties of single steps and mention no particular file, chunk or transfer.

What the violated runs show:

* `EveryCopyIntact`: the rows are cleared after the renames. A crash, or a later file whose target has
  appeared, leaves rows of a file that is gone; the next attempt creates an empty `.part` file,
  believes the rows and delivers zeros. `FirstDeliveryIntact` is what remains true: only
  repeated deliveries are hit.
* `NoMutualWait`: whether there is a pairing step is decided by each side from its own table. When only
  one user asked to remember the other device, or forgot it later, the sender reads a decision and
  the receiver a confirmation, for ever. `AlikeNeverStuck` is what remains true: devices
  that found the same do not wait for each other, whoever refuses.

### Found while modelling

The following also happen in the models; no run repeats them, and the properties that hold name them where
they are exceptions.

* A cancel given while the sender's task connects, or waits for pairing or for the decision, sets a flag that nobody
  reads there: the task keeps its permit until the peer or the user acts (`outgoing.rs:734`). `CancelEndsBoth`
  therefore speaks of cancels that were put into the outbox.
* A source without random access is read on from wherever the file stands (`read_sequential_chunk`). A retry asks only for the
  chunks the receiver lacks, and labels what it reads with their offsets; the hash is computed from what was read and
  agrees, and the transfer completes with parts at the wrong place. `DeliveryPromised` excuses such sources, and
  `CompletedWithRandomAccess` proves the rest (`CompletedTrue`).
* A Retry whose save fails leaves the record in Preparing without a task (`core.rs:376`, `386`, `419`), from which no Retry is
  allowed, although `docs/项目现状与后续实施提示词.md:380` says that no task stays there for ever: only a cancel, a deletion or a
  restart helps. `OrphansOnlyUnsaved` says that nothing else does this.
* A Cancel whose save fails shows Cancelled while the control is not told: the task goes on sending, and the next start
  shows the transfer Interrupted. This is the exception of `TerminalIsFinal`.
* A deletion that fails leaves rows or `.part` files behind a Cancelled record (`keptRows`, `keptParts`), and so does a
  crash between the record and the deletion (`core.rs:386`, `424`): no start deletes them, a terminal record takes no
  second Cancel, and the same document says that no `.part` data is left. `CancelledForgets` is what remains true.
* A task that ends between the two steps of `clear_history` saves its row again (`core.rs:528`).
* The last chunk, or the end of the last channel, falls between the check of the counter (`lan.rs:366`) and the
  creation of the `Notified` future (`lan.rs:426`): nobody wakes the handler (`WakeMissed` in `BothEnd`). `checkpoint` has
  the same gap (`outgoing.rs:242`, `WakeMissed` in `AllArrives`).
* A Retry of an incoming transfer sets its record to Preparing and finds no job to spawn; it stays
  there until the sender happens to offer again (`core.rs:438`).
* A sender takes its permit before it connects and keeps it while it waits for the decision, and the handler at the other
  end decides only after it has taken one too: two devices that send to each other at their limit wait for ever.
* A pause while the last chunk or the result is on its way leaves the sender Paused, from which it may not go to
  Verifying: it ends Failed or Interrupted while the receiver shows Completed (`lan.rs:466`, `outgoing.rs:789`;
  `docs/项目现状与后续实施提示词.md:370` wants both ends consistent). `CompletedTogether` is the direction that holds.
* A removal among the events of a receiver that `Refresh` replaces is never seen: the device stays online
  until the next removal (`mdns.rs:259`, `missed` in `GoneShown`).

## 4. Fairness

The liveness properties are those of `DataPlane`, `Session` and `Discovery`.

* `DataPlane` (run `data_plane_live`): some channel that can take a step takes one (one `WF` for all of them). Nothing is
  assumed of the users, who may leave a transfer paused, or of what comes after a failure.
* `Session`: some step of the program is taken when one is possible (`WF_vars(Program)`). No step of it can
  be repeated for ever, so this serves every task. That a connection does not lose what was written to it
  is TCP; that it may break at any time is a failure. Users, disks and failures are under no obligation.
* `Discovery`: the thread goes round its loop, the daemon reports and drops, twelve seconds pass, and sessions and
  commands that were begun go on: `WF`. Reading an event and beginning a new browse are
  `SF`: each is possible again and again but not all the time, and between two browses lie at
  least five seconds, in which the loop goes round every 150 ms.

The other modules have safety properties only.

## 5. Proofs

`OutgoingJobsProofs` proves, for any set of transfers, any number of permits, attempts and
restarts:

* `TypeCorrect`: `TypeOK`, with `SendIsFirst` (a `send` in progress has spawned nothing yet);
* `TasksAgreeWithRecords`: `OneLiveTask`, `RetryableIsQuiet`, whichever saves fail;
* `OnlyLostRetriesOrphan`: `OrphansOnlyUnsaved`, no step but a Retry whose save fails leaves a record under way without its task;
* `PermitsNeverLost`: `PermitsAddUp`;
* `TerminalRecordsAreFinal`: `TerminalIsFinal`.

`OneLiveTask` is not inductive: a retry spawns without looking for a running task, so the proof needs
that a retryable record has no live task and that only the last attempt can be live:
`TaskInv`, checked with TLC before it was proved. That a record under way has its task is not part of it, since a
Retry that could not be saved breaks it; each action is shown not to break it otherwise (`NoNewOrphan`). Each
task action is shown to move one program counter and to write one record (`OnlyMoves`,
`GotoMoves`, `WriteMoves`), and the invariant is proved once for such moves.
`PermitsAddUp` needs the cardinality theorems for adding and removing one task.
`TerminalIsFinal` rests on `FinalInv`: a stored row of a terminal record agrees
with it unless its last save failed, so that otherwise no restart can bring an older state back. The only assumption is
`OutgoingJobsAssumption`: finite transfers, natural bounds.

`IncomingTransferProofs` proves, for any finite sets of files, chunks and channels and any number
of attempts and crashes (`IncomingTransferAssumption`):

* `TypesKept` and `RemainingIsCovered`: `TypeOK` and `RemainingCoversMissing`, from `CountsRight`.
  While a handler prepares, its count is the number of chunks its opened files lack
  (`Prepared`); from then on, as long as anybody can reach its context (`Published`), the count is at
  least what is missing and what is marked but not yet counted. The cardinalities of one file more,
  one chunk less and one channel more are the lemmas `ReadResumeCounts`, `MarkCounts`, `CountChunkCounts`;
* `CompletedIsDelivered`: `CompletedDelivered`, from `ClaimsTrue` (what `finalize_incoming` has counted is
  renamed, and it goes on only when it has counted all);
* `FirstDeliveryIsIntact`, under `~MayCancel /\ ~MayLosePart`: `FirstDeliveryIntact`, from `DataHeld`. It is not
  inductive alone: until a file is delivered every attempt must hold the inode the path names
  (`TargetsCurrent`), and rows, resume maps and chunks about to be marked must all be backed by
  it (`RowsBacked`, `ResumeHeld`, `MarksWritten`). A handler of an old attempt therefore
  helps the new one and does not harm it;
* `ProgressIsKept`, under `~MayCancel`: `ProgressSurvives`, from the same invariants and `NeverCancelled`.

All of these invariants were checked with TLC before they were proved, on the bounds of the runs and on two files with two attempts. The two assumptions are the
bounds of the runs that check the properties, and both are needed: a cancelled handler deletes files another attempt
writes, and after the loss of a `.part` file the rows of its chunks are still believed.

`CancelledIsForgotten` proves `CancelledForgets` under `MaxCrashes = 0`, the bound of the run: a crash takes
with it whoever was about to delete, and nothing deletes at the next start. The invariant is
`CleanerLeft`: as long as a cancelled transfer has rows or `.part` files, some handler or command
stands at a place from which it comes to delete them, or the last one has failed to (`keptRows`, `keptParts`).

`HandshakeProofs` proves, for any finite sets of devices and transfers, any number of retries,
permits and crashes (`HandshakeAssumption`):

* `PromiseVouches`, of `Pairing` alone: who keeps the promise remembers nobody
  (`TrustConfirmed`) and streams to nobody (`StreamsVouched`) without a session of the two devices in which
  both users confirmed. The invariant adds that a side that knew the other owes it to such a
  session (`KnownConfirmed`), which survives the removal of the trust;
* `KeepsPromise`: `PairingPromised`, the refinement. `HandshakeInv` says for each session what a side
  knows at its place (`SenderKnows`, `ReceiverKnows`) and that what is on the wire is
  true for as long as it is there (`WireTrue`): a "yes" to the sender means that both users
  confirmed, a "grant" that the session is granted. Without the wire a step that reads
  could not be related to the step of the other device that wrote. Each action changes one session
  (`OneSession`), keeps its invariant, and is one step of the promise or none;
* `StreamsAreVouched`: `StreamsVouched`, from the two theorems above;
* `AlikeIsNeverStuck`: `AlikeNeverStuck`. `AllCounted` says that what is under way in each direction is
  what one side has written and the other has not read, as numbers of messages that follow from their
  places and from what each found in its table. When both found the same, the numbers leave no
  state in which both read and nothing is under way;
* `PermitsAddUp`: `PermitsShared`; every step moves at most one holder (`OneMoves`) except a crash,
  which takes all those of a device (`CrashFrees`);
* `TypesKept`: `TypeOK`, whose bound on the permits is a consequence of `PermitsShared`.

`SessionProofs` proves, for any number of chunks, commands and failures (`SessionAssumption`):

* `TypesKept`: `TypeOK`, with `HalfRead` (half a frame belongs to a loop or to a task that has ended);
  that no chunk is counted twice is part of it (`DataTypes`);
* `OutcomesStand`: `OutcomeStands`, by showing of every write that it respects a terminal record;
* `RecordsAgreeWithControls`: `ShownAsHeld`, from `HeldInv`, which adds how a task begins;
* `CancelledForCause`: `CancelledOnRequest`, from `CancelInv`: as long as no user has asked, no queue, no
  connection, no flag and no outcome on its way carries a cancellation (`NoCancel`);
* `CompletedOnBothSides`: `CompletedTogether`, from `ResultInv`: a good result, wherever it is between the report
  of the receiver and the record of the sender (`Claimed`), was true when it was written and stays true.

`DataPlaneProofs` proves, for any number of chunks, channels, attempts and failures and every kind of source and
target (`DataPlaneAssumption`), with the invariant `IInv`:

* `Ends` relates the places of both ends of a channel to what they hold and to how the attempt stands;
  `Right` follows the content: what is read for a chunk is that chunk, and a target
  without random access is sent its chunks in turn; `WayInv` follows the indices over the stations;
* `TypesKept`, `NothingIsForgotten` and `ProgressIsHonest` (`TypeOK`, `NothingForgotten`, `ProgressHonest`),
  `GivesUpOnlyForCause` (`GivesUpForCause`: were all channels at their end, the way would be empty and nothing missing);
* `DataPlaneDelivers`: `DeliveryPromised`, the refinement, one lemma per action;
* `CompletedWithRandomAccess`: the formula of `CompletedTrue`, under the assumption that no kind of transfer has
  a source without random access. The assumption is needed, see "Found while modelling".

`DiscoveryProofs` proves `OnlineIsHeard` (`OnlineAsHeard`) for any number of devices, sessions, commands and events.
The invariant `OnlineInv` adds that an entry somebody is about to write says online (`Writers`).

`ChunkPlanProofs` proves the four properties for every width of words, bytes and counts and every size of file and
chunk: `ChunksTile` (`Tiles`), `HeadersAreExact` (`HeaderExact`), `MapsMeanSets` (`MapMeansSet`), `ResumesExactly`
(`ResumeExact`). The model computes with folds, as the code with loops; the proof gives what they compute in closed
form (`MapOf`, `BytesOf`), and `MapInv` says that the map in memory is the one of a set of
stored rows.

`FinalPathsProofs` proves, for any transfers, any selections, any functions on the words of names, any number of
retries and foreign files (`FinalPathsAssumption`):

* `FilesAreKept`: `Kept`. What `finalize_incoming` has dealt with is on the disk (`PlacedInv`), and a name is
  never renamed to when it was seen at the check (`SeenInv`);
* `FailsOnlyForCause`: `FailsForCause`. On the sender, roots picked from the file system differ whatever their
  case (`RootsFacts`: the search of `unique_manifest_root` ends, because among one more number than
  there are names one is free), so that a refused manifest has one of the two causes
  (`RefusedForCause`) and in a valid one every root is of one source (`OneSource`). On the receiver, target roots
  differ for the file system (`NamesInv`), so that items at one place are files of one folder (`SameKey`), and under the
  roots of an attempt the transfer itself has put only items of this attempt (`OwnInv`): what an earlier
  attempt left is at other roots, because its folders are still there (`DiskInv`). Hence what is in the way is a merged name or
  somebody else's;
* `TypesKept`: `TypeOK`.

All the invariants were checked with TLC on the bounds of the runs before they were proved.

Only model-checked: the liveness properties (`AllArrives`, `BothEnd`, `CancelEndsBoth`, `EntryRight`, `GoneShown`) and
the violated ones (`EveryCopyIntact`, `NoMutualWait`). Liveness and `ENABLED` are outside what
the installed provers can do. So is induction over data by the theorems of the library, which take
an operator as a parameter. Where a recursive function or a fold had to be reasoned about (`InOrder` of
`DataPlane`, `Roots` of `FinalPaths`, the loops of `ChunkPlan`), the proof takes a least counterexample, which the
library's theorem on well-founded relations provides, or proves a closed form the same way.
There are no RECURSIVE operators.

## 6. Plan

The modules of the first plan are written. What is left, in this order:

1. Two engines in `OutgoingJobs`: a second `initialize` reads the rows before the first core is shut down (`ffi.rs:153`).
2. `OfferPrompt`: the single `pendingOffer` of the application (`app_controller.dart:535`) and the foreground service.
3. Theorems: the tables of `TransferModel` by themselves; for liveness, the safety facts it rests on (that a
   channel which can neither read nor write has a partner that can).

Not modelled, and why: cryptography (certificates, hashes and the six digits are taken to do
their work), platform I/O (JNI, Windows channels, notifications), the mDNS daemon, the encoding of messages, settings
and the migration of the schema, widgets, build files.
