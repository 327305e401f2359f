---------------------------- MODULE OutgoingJobs ----------------------------
(***************************************************************************)
(* One device's outgoing transfers: the in-memory records and the rows of  *)
(* the database (core.rs, persistence.rs), the table of stored jobs, the   *)
(* semaphore of active tasks, and one task of run_outgoing per spawn       *)
(* (outgoing.rs).  The commands of the user, the peer at the other end of  *)
(* each connection, shutdown, crash and restart interleave with the tasks. *)
(*                                                                         *)
(* Each critical section under the CoreInner lock is one action, and so is *)
(* each stretch of run_outgoing between two awaits.  FFI commands hold the *)
(* engine slot for their whole duration (ffi.rs), so at most one of them   *)
(* is under way: `call` is the one whose steps are not atomic.             *)
(*                                                                         *)
(* The peer is open: every message it could send next, and every failure   *)
(* of the connection, is a choice.  Which chunks go over which channel is  *)
(* not modelled here: the data tasks only matter by how they fail, and by  *)
(* the progress they save.                                                 *)
(*                                                                         *)
(* Every writer changes the record in memory first and saves it second,    *)
(* under one lock.  The save can fail: the change stays in memory, the row *)
(* keeps what it had, and the writer returns early with the error.         *)
(***************************************************************************)
EXTENDS TransferModel, Integers, FiniteSets

CONSTANTS
    Transfers,      \* ids of the transfers this device ever sends
    MaxActive,      \* permits of active_tasks (2 in core.rs)
    MaxAttempts,    \* bound: spawns per transfer, the first send included
    MaxRestarts,    \* bound: restarts of the process
    MaxRetries,     \* bound: retries of all transfers together
    MaxUnsaved,     \* bound: rows behind their record at a time, one less a restart
    NoRecord        \* no record, or no row, for an id

ASSUME OutgoingJobsAssumption ==
    /\ MaxActive \in Nat \ {0}
    /\ MaxAttempts \in Nat \ {0}
    /\ MaxRestarts \in Nat
    /\ MaxRetries \in Nat
    /\ MaxUnsaved \in Nat
    /\ NoRecord \notin TransferState
    /\ IsFiniteSet(Transfers)

Attempts == 1..MaxAttempts

VARIABLES
    record,     \* CoreState.transfers
    row,        \* table transfers
    unsaved,    \* history: the transfers whose row a failing save left behind
    items,      \* whether table transfer_items has rows for the transfer
    job,        \* CoreState.outgoing_jobs: the attempt whose control is stored
    spawned,    \* number of tasks ever spawned for the transfer
    pc,         \* where each task of run_outgoing is
    control,    \* the JobControl of each task
    permits,    \* free permits of active_tasks
    phase,      \* "running", or "stopped" once shutdown was called
    call,       \* the FFI command under way
    restarts    \* number of restarts so far

vars == <<record, row, unsaved, items, job, spawned, pc, control, permits, phase, call,
          restarts>>

NoJob == -1

(* The places of run_outgoing past acquire_owned, in program order.        *)
Holding == {"connect", "pairing", "confirmed", "refused", "decision",
            "register", "stream", "complete"}

(* A task that has not left spawn_outgoing's block: it waits for a permit, *)
(* runs, or has an error its wrapper has not handled yet.                  *)
Live == {"acquire"} \cup Holding \cup Outcome

Location == {"unborn", "done"} \cup Live

Control == [cancelled : BOOLEAN, registered : BOOLEAN, queued : BOOLEAN]

NewControl == [cancelled |-> FALSE, registered |-> FALSE, queued |-> FALSE]

(* JobControl::cancel: the flag, and a message for the select loop if it   *)
(* has registered its channel.                                             *)
Cancelled(c) == [c EXCEPT !.cancelled = TRUE, !.queued = c.registered]

Idle == [op |-> "none", on |-> {}]

TypeOK ==
    /\ record \in [Transfers -> TransferState \cup {NoRecord}]
    /\ row \in [Transfers -> TransferState \cup {NoRecord}]
    /\ unsaved \in SUBSET Transfers
    /\ items \in [Transfers -> BOOLEAN]
    /\ job \in [Transfers -> {NoJob, 0} \cup Attempts]
    /\ spawned \in [Transfers -> 0..MaxAttempts]
    /\ pc \in [Transfers -> [Attempts -> Location]]
    /\ control \in [Transfers -> [Attempts -> Control]]
    /\ permits \in Int
    /\ phase \in {"running", "stopped"}
    /\ call \in [op : {"none", "send", "clear", "delete"}, on : SUBSET Transfers]
    /\ restarts \in 0..MaxRestarts

Init ==
    /\ record = [t \in Transfers |-> NoRecord]
    /\ row = [t \in Transfers |-> NoRecord]
    /\ unsaved = {}
    /\ items = [t \in Transfers |-> FALSE]
    /\ job = [t \in Transfers |-> NoJob]
    /\ spawned = [t \in Transfers |-> 0]
    /\ pc = [t \in Transfers |-> [a \in Attempts |-> "unborn"]]
    /\ control = [t \in Transfers |-> [a \in Attempts |-> NewControl]]
    /\ permits = MaxActive
    /\ phase = "running"
    /\ call = Idle
    /\ restarts = 0

-----------------------------------------------------------------------------
(* The FFI commands.                                                       *)

Ready == phase = "running" /\ call = Idle

(* A record changed and saved, and one whose save_transfer failed: what    *)
(* memory holds is then lost at the next restart, if the row differs.      *)
Tolerated(transfers) == transfers = {} \/ Cardinality(transfers) + restarts <= MaxUnsaved

Write(t, state) ==
    /\ record' = [record EXCEPT ![t] = state]
    /\ row' = [row EXCEPT ![t] = state]
    /\ unsaved' = unsaved \ {t}

WriteLost(t, state) ==
    /\ unsaved' = IF row[t] = state THEN unsaved \ {t} ELSE unsaved \cup {t}
    /\ Tolerated(unsaved')
    /\ record' = [record EXCEPT ![t] = state]
    /\ UNCHANGED row

(* Mutant: the stored control belongs to the next attempt. *)
SpawnOffByOne(t) ==
    /\ spawned' = [spawned EXCEPT ![t] = @ + 1]
    /\ job' = [job EXCEPT ![t] = spawned[t] + 2]
    /\ pc' = [pc EXCEPT ![t][spawned[t] + 1] = "acquire"]

Spawn(t) ==
    /\ spawned' = [spawned EXCEPT ![t] = @ + 1]
    /\ job' = [job EXCEPT ![t] = spawned[t] + 1]
    /\ pc' = [pc EXCEPT ![t][spawned[t] + 1] = "acquire"]

(* send: the row first, the items next, and only then the memory.          *)
SendSave(t) ==
    /\ Ready
    /\ spawned[t] = 0 /\ job[t] = NoJob
    /\ record[t] = NoRecord /\ row[t] = NoRecord
    /\ row' = [row EXCEPT ![t] = "Preparing"]
    /\ call' = [op |-> "send", on |-> {t}]
    /\ UNCHANGED <<record, unsaved, items, job, spawned, pc, control, permits, phase, restarts>>

SendSpawn(t) ==
    /\ phase = "running"
    /\ call = [op |-> "send", on |-> {t}]
    /\ items' = [items EXCEPT ![t] = TRUE]
    /\ record' = [record EXCEPT ![t] = "Preparing"]
    /\ Spawn(t)
    /\ call' = Idle
    /\ UNCHANGED <<row, unsaved, control, permits, phase, restarts>>

(* A failing save_item returns early: the row is left without a record.    *)
SendFails(t) ==
    /\ phase = "running"
    /\ call = [op |-> "send", on |-> {t}]
    /\ \E stored \in BOOLEAN : items' = [items EXCEPT ![t] = stored]
    /\ call' = Idle
    /\ UNCHANGED <<record, row, unsaved, job, spawned, pc, control, permits, phase, restarts>>

(* command_transfer with Pause, Resume or Cancel.  A failing save returns  *)
(* before the control is told: a cancelled record whose task goes on.      *)
Command(t, c) ==
    /\ Ready
    /\ c \in TransferCommand \ {"Retry"}
    /\ record[t] # NoRecord
    /\ CanTransition(record[t], CommandTarget[c])
    /\ \/ /\ Write(t, CommandTarget[c])
          /\ control' = IF c = "Cancel" /\ job[t] \in Attempts
                        THEN [control EXCEPT ![t][job[t]] = Cancelled(@)]
                        ELSE control
       \/ /\ WriteLost(t, CommandTarget[c])
          /\ UNCHANGED control
    /\ UNCHANGED <<items, job, spawned, pc, permits, phase, call, restarts>>

(* The tasks a Retry has spawned, counted for the bound.                   *)
Retries == {k \in Transfers \X Attempts : k[2] \in 2..spawned[k[1]]}

(* The job restore_outgoing_job leaves in memory, without a task.          *)
RestoredJob(t) == [job EXCEPT ![t] = IF @ = NoJob THEN 0 ELSE @]

(* command_transfer with Retry: restore_outgoing_job, then the transition  *)
(* under the lock, a fresh control and a fresh task.  A failing save comes *)
(* back with the record already Preparing and nothing spawned, a refused   *)
(* transition leaves the restored job behind.                              *)
Retry(t) ==
    /\ Ready
    /\ record[t] # NoRecord
    /\ job[t] # NoJob \/ items[t]
    /\ \/ /\ CanTransition(record[t], CommandTarget["Retry"])
          /\ spawned[t] < MaxAttempts /\ Cardinality(Retries) < MaxRetries
          /\ Write(t, CommandTarget["Retry"])
          /\ Spawn(t)
       \/ /\ CanTransition(record[t], CommandTarget["Retry"])
          /\ WriteLost(t, CommandTarget["Retry"])
          /\ job' = RestoredJob(t)
          /\ UNCHANGED <<spawned, pc>>
       \/ /\ ~CanTransition(record[t], CommandTarget["Retry"])
          /\ job' = RestoredJob(t)
          /\ UNCHANGED <<record, row, unsaved, spawned, pc>>
    /\ UNCHANGED <<items, control, permits, phase, call, restarts>>

(* clear_history: one statement on the database, and the memory after it.  *)
ClearHistoryRows ==
    LET finished == {t \in Transfers : row[t] \in TransferState \ Active}
    IN  /\ Ready
        /\ row' = [t \in Transfers |-> IF t \in finished THEN NoRecord ELSE row[t]]
        /\ items' = [t \in Transfers |-> items[t] /\ t \notin finished]
        /\ call' = [op |-> "clear", on |-> {}]
        /\ UNCHANGED <<record, unsaved, job, spawned, pc, control, permits, phase, restarts>>

ClearHistoryRecords ==
    /\ phase = "running"
    /\ call.op = "clear"
    /\ record' = [t \in Transfers |-> IF record[t] \in Active THEN record[t] ELSE NoRecord]
    /\ unsaved' = {t \in unsaved : record[t] \in Active}
    /\ call' = Idle
    /\ UNCHANGED <<row, items, job, spawned, pc, control, permits, phase, restarts>>

(* delete_history_transfer: same two steps, whatever the record's state.   *)
DeleteHistoryRow(t) ==
    /\ Ready
    /\ row[t] # NoRecord
    /\ row' = [row EXCEPT ![t] = NoRecord]
    /\ items' = [items EXCEPT ![t] = FALSE]
    /\ call' = [op |-> "delete", on |-> {t}]
    /\ UNCHANGED <<record, unsaved, job, spawned, pc, control, permits, phase, restarts>>

DeleteHistoryRecord(t) ==
    /\ phase = "running"
    /\ call = [op |-> "delete", on |-> {t}]
    /\ record' = [record EXCEPT ![t] = NoRecord]
    /\ unsaved' = unsaved \ {t}
    /\ call' = Idle
    /\ UNCHANGED <<row, items, job, spawned, pc, control, permits, phase, restarts>>

(* shutdown: the token, every stored control, and a last save of memory,   *)
(* each of which may fail unnoticed.                                       *)
Shutdown ==
    /\ Ready
    /\ phase' = "stopped"
    /\ control' = [t \in Transfers |-> [a \in Attempts |->
                      IF a = job[t] THEN Cancelled(control[t][a]) ELSE control[t][a]]]
    /\ unsaved' \in SUBSET {t \in Transfers : record[t] \notin {NoRecord, row[t]}}
    /\ Tolerated(unsaved')
    /\ row' = [t \in Transfers |->
                  IF record[t] # NoRecord /\ t \notin unsaved' THEN record[t] ELSE row[t]]
    /\ UNCHANGED <<record, items, job, spawned, pc, permits, call, restarts>>

(* The process ends, after shutdown or by a crash at any point, and a new  *)
(* one runs initialize.  An initialize that cannot save a restored record  *)
(* gives up, and what it saved the next one restores to the same.          *)
Restart ==
    /\ restarts < MaxRestarts
    /\ restarts' = restarts + 1
    /\ record' = [t \in Transfers |-> IF row[t] = NoRecord THEN NoRecord ELSE Restored(row[t])]
    /\ row' = record'
    /\ unsaved' = {}
    /\ job' = [t \in Transfers |-> NoJob]
    /\ pc' = [t \in Transfers |-> [a \in Attempts |->
                 IF pc[t][a] = "unborn" THEN "unborn" ELSE "done"]]
    /\ control' = [t \in Transfers |-> [a \in Attempts |-> NewControl]]
    /\ permits' = MaxActive
    /\ phase' = "running"
    /\ call' = Idle
    /\ UNCHANGED <<items, spawned>>

-----------------------------------------------------------------------------
(* The task run_outgoing, from one await to the next.                      *)

Goto(t, a, location) == pc' = [pc EXCEPT ![t][a] = location]

(* Mutant: an error path that forgets the permit. *)
LeaveLeaky(t, a, outcome) ==
    /\ Goto(t, a, outcome)
    /\ permits' = IF outcome = "fatal" THEN permits ELSE permits + 1

(* run_outgoing returns: the permit is dropped with its frame.             *)
Leave(t, a, outcome) ==
    /\ Goto(t, a, outcome)
    /\ permits' = permits + 1

Return(t, a, outcome) ==
    /\ Leave(t, a, outcome)
    /\ UNCHANGED <<record, row, unsaved>>

Accepts(t, next) == record[t] # NoRecord /\ CanTransition(record[t], next)

(* transition_transfer: an illegal transition, a record that is gone and a *)
(* save that fails are a LanError::Core each and end the task.             *)
Advance(t, a, next, location) ==
    \/ /\ Accepts(t, next)
       /\ Write(t, next)
       /\ Goto(t, a, location)
       /\ UNCHANGED permits
    \/ /\ Accepts(t, next)
       /\ WriteLost(t, next)
       /\ Leave(t, a, "fatal")
    \/ /\ ~Accepts(t, next)
       /\ Return(t, a, "fatal")

Acquire(t, a) ==
    /\ pc[t][a] = "acquire"
    /\ permits > 0
    /\ \/ /\ Accepts(t, "Connecting")
          /\ Write(t, "Connecting")
          /\ Goto(t, a, "connect")
          /\ permits' = permits - 1
       \/ /\ Accepts(t, "Connecting")
          /\ WriteLost(t, "Connecting")
          /\ Goto(t, a, "fatal")
          /\ UNCHANGED permits
       \/ /\ ~Accepts(t, "Connecting")
          /\ Goto(t, a, "fatal")
          /\ UNCHANGED <<record, row, unsaved, permits>>

(* Connected, hellos exchanged, offer and manifest sent.                   *)
Greeted(t, a) ==
    /\ pc[t][a] = "connect"
    /\ \/ Advance(t, a, "WaitingForAcceptance", "decision")   \* a trusted peer
       \/ Advance(t, a, "Pairing", "pairing")

(* The user compares the codes: answer_offer wakes request_answer, and the *)
(* task sends its confirmation before it waits for the peer's.             *)
AnswerPairing(t, a) ==
    /\ Ready
    /\ pc[t][a] = "pairing"
    /\ \/ Goto(t, a, "confirmed")
       \/ Goto(t, a, "refused")
    /\ UNCHANGED <<record, row, unsaved, permits>>

PairingStopped(t, a) ==
    /\ pc[t][a] = "pairing"
    /\ phase = "stopped"
    /\ Return(t, a, "fatal")

PeerConfirmed(t, a) ==
    \/ /\ pc[t][a] = "confirmed"
       /\ \/ Advance(t, a, "WaitingForAcceptance", "decision")
          \/ Return(t, a, "fatal")
    \/ /\ pc[t][a] = "refused"
       /\ Return(t, a, "fatal")

(* The decision and the resume state; set_completed_bytes saves the record *)
(* as it stands before the transition.                                     *)
PeerDecided(t, a) ==
    /\ pc[t][a] = "decision"
    /\ \/ Return(t, a, "fatal")
       \/ Advance(t, a, "Transferring", "register")
       \/ /\ record[t] # NoRecord
          /\ \/ WriteLost(t, record[t])
             \/ Write(t, record[t]) /\ ~Accepts(t, "Transferring")
          /\ Leave(t, a, "fatal")

(* The connection fails, or something unexpected arrives, before the data. *)
HandshakeFails(t, a) ==
    /\ pc[t][a] \in {"connect", "confirmed", "refused", "decision"}
    /\ \E outcome \in {"retryable", "fatal"} : Return(t, a, outcome)

RegisterChannel(t, a) ==
    /\ pc[t][a] = "register"
    /\ Goto(t, a, "stream")
    /\ control' = [control EXCEPT ![t][a].registered = TRUE]
    /\ UNCHANGED <<record, row, unsaved, permits>>

(* The branches of the select loop.                                        *)
ForwardCancel(t, a) ==
    /\ pc[t][a] = "stream"
    /\ control[t][a].queued
    /\ Return(t, a, "cancelled")

(* pause_from_remote and resume_from_remote: a save that fails ends the    *)
(* task.                                                                   *)
FollowPeer(t, a, state) ==
    \/ Write(t, state) /\ UNCHANGED <<pc, permits>>
    \/ WriteLost(t, state) /\ Leave(t, a, "fatal")

RemoteControl(t, a) ==
    /\ pc[t][a] = "stream"
    /\ \/ /\ record[t] \notin Terminal \cup {NoRecord}
          /\ FollowPeer(t, a, AfterRemotePause(record[t]))
       \/ /\ record[t] = "Paused"
          /\ FollowPeer(t, a, AfterRemoteResume(record[t]))

(* cancel_from_remote: the control first, and then the record, unless it   *)
(* is terminal.                                                            *)
RemoteCancel(t, a) ==
    /\ pc[t][a] = "stream"
    /\ \/ /\ record[t] \notin Terminal \cup {NoRecord}
          /\ \/ Write(t, AfterRemoteCancel(record[t])) /\ Leave(t, a, "cancelled")
             \/ WriteLost(t, AfterRemoteCancel(record[t])) /\ Leave(t, a, "fatal")
       \/ /\ record[t] \in Terminal \cup {NoRecord}
          /\ Return(t, a, "cancelled")
    /\ control' = IF job[t] \in Attempts
                  THEN [control EXCEPT ![t][job[t]].cancelled = TRUE]
                  ELSE control

(* update_completed_bytes saves the record as it stands, every now and     *)
(* then: in a data task, which run_outgoing starts just before it          *)
(* registers its channel and aborts a little before it is really gone.     *)
SaveProgress(t, a) ==
    /\ pc[t][a] = "register" \/ control[t][a].registered
    /\ record[t] # NoRecord
    /\ \/ Write(t, record[t])
       \/ WriteLost(t, record[t])
    /\ UNCHANGED <<pc, permits>>

ResultArrives(t, a) ==
    /\ pc[t][a] = "stream"
    /\ \/ Return(t, a, "retryable")                  \* RemoteTransferFailed
       \/ Advance(t, a, "Verifying", "complete")

Complete(t, a) ==
    /\ pc[t][a] = "complete"
    /\ \/ /\ Accepts(t, "Completed")
          /\ Write(t, "Completed")
          /\ Leave(t, a, "done")
       \/ /\ Accepts(t, "Completed")
          /\ WriteLost(t, "Completed")
          /\ Leave(t, a, "fatal")
       \/ /\ ~Accepts(t, "Completed")
          /\ Return(t, a, "fatal")

ReadFails(t, a) ==
    LET cancelled == control[t][a].cancelled \/ record[t] = "Cancelled"
    IN  /\ pc[t][a] = "stream"
        /\ \E outcome \in IF cancelled THEN {"cancelled"} ELSE {"retryable", "fatal"} :
              Return(t, a, outcome)

(* A data channel failed; checkpoint() reports a cancelled control.        *)
DataFails(t, a) ==
    /\ pc[t][a] = "stream"
    /\ \E outcome \in {"retryable", "fatal"}
                      \cup (IF control[t][a].cancelled THEN {"cancelled"} ELSE {}) :
          Return(t, a, outcome)

Stopped(t, a) ==
    /\ pc[t][a] = "stream"
    /\ phase = "stopped"
    /\ Return(t, a, "retryable")

(* spawn_outgoing's wrapper: after shutdown the record is left for the     *)
(* next start to restore.  A save that fails is ignored.                   *)
Finish(t, a) ==
    /\ pc[t][a] \in Outcome
    /\ Goto(t, a, "done")
    /\ \/ /\ phase = "running" /\ record[t] # NoRecord
          /\ \/ Write(t, AfterOutcome(record[t], pc[t][a]))
             \/ WriteLost(t, AfterOutcome(record[t], pc[t][a]))
       \/ /\ phase = "stopped" \/ record[t] = NoRecord
          /\ UNCHANGED <<record, row, unsaved>>
    /\ UNCHANGED permits

-----------------------------------------------------------------------------
UserStep ==
    \/ \E t \in Transfers :
          \/ SendSave(t) \/ SendSpawn(t) \/ SendFails(t) \/ Retry(t)
          \/ DeleteHistoryRow(t) \/ DeleteHistoryRecord(t)
          \/ \E c \in TransferCommand : Command(t, c)
    \/ ClearHistoryRows
    \/ ClearHistoryRecords
    \/ Shutdown
    \/ Restart

(* Steps of a task that touch no control.                                  *)
PlainTaskStep(t, a) ==
    /\ \/ Acquire(t, a) \/ Greeted(t, a) \/ AnswerPairing(t, a) \/ PairingStopped(t, a)
       \/ PeerConfirmed(t, a) \/ PeerDecided(t, a) \/ HandshakeFails(t, a)
       \/ ForwardCancel(t, a) \/ RemoteControl(t, a) \/ ResultArrives(t, a)
       \/ SaveProgress(t, a) \/ Complete(t, a) \/ ReadFails(t, a) \/ DataFails(t, a) \/ Stopped(t, a)
       \/ Finish(t, a)
    /\ UNCHANGED control

TaskStep(t, a) ==
    /\ \/ PlainTaskStep(t, a)
       \/ RegisterChannel(t, a)
       \/ RemoteCancel(t, a)
    /\ UNCHANGED <<items, job, spawned, phase, call, restarts>>

Next ==
    \/ UserStep
    \/ \E t \in Transfers, a \in Attempts : TaskStep(t, a)

Spec == Init /\ [][Next]_vars

-----------------------------------------------------------------------------
(* Properties.                                                             *)

LiveTasks(t) == {a \in Attempts : pc[t][a] \in Live}

(* A second run_outgoing for a transfer never overlaps the first one, over *)
(* retries, restarts and remote pauses: two of them would drive the same   *)
(* record and the same id at the receiver.  Retry spawns without looking   *)
(* for a running task, it relies on the record being Interrupted/Failed.   *)
OneLiveTask == \A t \in Transfers : \A a, b \in LiveTasks(t) : a = b

(* A record shown as under way that no task will move on.                  *)
Orphan(t) ==
    /\ phase = "running"
    /\ record[t] \in Active \ {"Interrupted"}
    /\ LiveTasks(t) = {}

(* A record shown as under way has its task: no step of a task, a command, *)
(* a deletion, a shutdown or a restart leaves one behind, but a Retry      *)
(* whose save fails.  That one is left in Preparing, which the user cannot *)
(* retry again.                                                            *)
LostRetry(t) ==
    record[t] \in {"Interrupted", "Failed"} /\ record'[t] = "Preparing" /\ row' = row

OrphansOnlyUnsaved == [][\A t \in Transfers : Orphan(t)' => Orphan(t) \/ LostRetry(t)]_vars

(* A record the user may retry has no task left that could still overwrite *)
(* the outcome of the next attempt.                                        *)
RetryableIsQuiet ==
    \A t \in Transfers : record[t] \in {"Interrupted", "Failed"} => LiveTasks(t) = {}

HoldingTasks == {k \in Transfers \X Attempts : pc[k[1]][k[2]] \in Holding}

(* Every way out of run_outgoing gives its permit back, once: the free     *)
(* permits and the tasks past acquire_owned always add up, so at most      *)
(* MaxActive transfers are active and none is lost to an error path.       *)
PermitsAddUp == permits + Cardinality(HoldingTasks) = MaxActive /\ permits >= 0

(* A completed or cancelled record keeps that state until its history is   *)
(* deleted, whatever its late task, a remote command, a crash or a restart *)
(* do: no racing handler brings it back to life, and a restart only if the *)
(* last save of the record had failed (a Cancel that returned an error).   *)
TerminalIsFinal ==
    [][\A t \in Transfers :
          record[t] \in Terminal =>
              \/ record'[t] \in {record[t], NoRecord}
              \/ t \in unsaved /\ restarts' # restarts]_vars

=============================================================================
