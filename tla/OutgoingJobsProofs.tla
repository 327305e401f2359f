-------------------------- MODULE OutgoingJobsProofs --------------------------
(***************************************************************************)
(* Proofs about OutgoingJobs for every set of transfers and every value of *)
(* the constants: type correctness, and the invariant that ties a record   *)
(* to the one task that may write it.                                      *)
(***************************************************************************)
EXTENDS OutgoingJobs, FiniteSetTheorems, TLAPS

(***************************************************************************)
(* The inductive invariant.  OneLiveTask alone is not inductive: that      *)
(* Retry spawns the only task follows from RetryableIsQuiet, which itself  *)
(* needs that the task which writes a final record was the only live one.  *)
(***************************************************************************)

(* Attempts are numbered in the order they are spawned, and only the last  *)
(* one may be alive.                                                       *)
LastAttemptLives ==
    \A t \in Transfers : \A a \in Attempts :
        /\ pc[t][a] \in Live => a = spawned[t]
        /\ a > spawned[t] => pc[t][a] = "unborn"

(* While send is between its two steps nothing was spawned for the id.     *)
SendIsFirst ==
    \A t \in Transfers : call = [op |-> "send", on |-> {t}] => spawned[t] = 0

TaskInv ==
    /\ LastAttemptLives
    /\ SendIsFirst
    /\ RetryableIsQuiet

(* A record changed by any of its writers, whether or not the save worked. *)
Changes(t, state) == Write(t, state) \/ WriteLost(t, state)

-----------------------------------------------------------------------------
(* Type correctness.                                                       *)

(* The part of TypeOK a step of a task can disturb.                        *)
TaskTypes ==
    /\ record \in [Transfers -> TransferState \cup {NoRecord}]
    /\ row \in [Transfers -> TransferState \cup {NoRecord}]
    /\ unsaved \in SUBSET Transfers
    /\ pc \in [Transfers -> [Attempts -> Location]]
    /\ permits \in Int

(* Whatever a writer saves is one of the states of model.rs.               *)
LEMMA WriteTypes ==
    ASSUME TypeOK, NEW t \in Transfers, NEW state \in TransferState, Changes(t, state)
    PROVE  /\ record' \in [Transfers -> TransferState \cup {NoRecord}]
           /\ row' \in [Transfers -> TransferState \cup {NoRecord}]
           /\ unsaved' \in SUBSET Transfers
<1>1. CASE Write(t, state)
  BY <1>1 DEF TypeOK, Write
<1>2. CASE WriteLost(t, state)
  <2>1. record' = [record EXCEPT ![t] = state] /\ row' = row /\ unsaved' \subseteq unsaved \cup {t}
    BY <1>2 DEF WriteLost
  <2>2. QED
    BY <2>1 DEF TypeOK
<1>3. QED
  BY <1>1, <1>2 DEF Changes

(* A task only ever moves to a location of run_outgoing.                   *)
LEMMA GotoTypes ==
    ASSUME TypeOK, NEW t \in Transfers, NEW a \in Attempts,
           NEW location \in Location, Goto(t, a, location)
    PROVE  pc' \in [Transfers -> [Attempts -> Location]]
BY DEF TypeOK, Goto

(* The end of run_outgoing, with or without a last change of the record.   *)
LEMMA LeaveTypes ==
    ASSUME TypeOK, NEW t \in Transfers, NEW a \in Attempts,
           NEW location \in Location, Leave(t, a, location)
    PROVE  pc' \in [Transfers -> [Attempts -> Location]] /\ permits' \in Int
BY GotoTypes DEF Leave, TypeOK

LEMMA ReturnTypes ==
    ASSUME TypeOK, NEW t \in Transfers, NEW a \in Attempts,
           NEW outcome \in Outcome, Return(t, a, outcome)
    PROVE  TaskTypes'
<1>1. outcome \in Location
  BY DEF Location, Live, Outcome
<1>2. Leave(t, a, outcome) /\ UNCHANGED <<record, row, unsaved>>
  BY DEF Return
<1>3. QED
  BY <1>1, <1>2, LeaveTypes DEF TypeOK, TaskTypes

(* A task that leaves with a record changed keeps the types.               *)
LEMMA LeaveChangedTypes ==
    ASSUME TypeOK, NEW t \in Transfers, NEW a \in Attempts, NEW state \in TransferState,
           NEW location \in Outcome \cup {"done"}, Changes(t, state), Leave(t, a, location)
    PROVE  TaskTypes'
<1>1. location \in Location
  BY DEF Location, Live, Outcome
<1>2. QED
  BY <1>1, LeaveTypes, WriteTypes DEF TaskTypes

(* transition_transfer keeps the types.                                    *)
LEMMA AdvanceTypes ==
    ASSUME TypeOK, NEW t \in Transfers, NEW a \in Attempts,
           NEW next \in TransferState, NEW location \in Location,
           Advance(t, a, next, location)
    PROVE  TaskTypes'
<1>1. CASE Write(t, next) /\ Goto(t, a, location) /\ UNCHANGED permits
  BY <1>1, WriteTypes, GotoTypes DEF TypeOK, TaskTypes, Changes
<1>2. CASE WriteLost(t, next) /\ Leave(t, a, "fatal")
  BY <1>2, LeaveChangedTypes DEF Outcome, Changes
<1>3. CASE Return(t, a, "fatal")
  BY <1>3, ReturnTypes DEF Outcome
<1>4. QED
  BY <1>1, <1>2, <1>3 DEF Advance

(* Each step of a task that leaves the controls alone keeps the types.     *)
LEMMA PlainTaskStepTypes ==
    ASSUME TypeOK, NEW t \in Transfers, NEW a \in Attempts, PlainTaskStep(t, a)
    PROVE  TaskTypes'
<1> USE DEF Location, Live, Holding, Outcome, TransferState
<1>1. CASE Acquire(t, a)
  <2>1. CASE Write(t, "Connecting") /\ Goto(t, a, "connect") /\ permits' = permits - 1
    BY <2>1, WriteTypes, GotoTypes DEF TypeOK, TaskTypes, Changes
  <2>2. CASE WriteLost(t, "Connecting") /\ Goto(t, a, "fatal") /\ UNCHANGED permits
    BY <2>2, WriteTypes, GotoTypes DEF TypeOK, TaskTypes, Changes
  <2>3. CASE Goto(t, a, "fatal") /\ UNCHANGED <<record, row, unsaved, permits>>
    BY <2>3, GotoTypes DEF TypeOK, TaskTypes
  <2>4. QED
    BY <1>1, <2>1, <2>2, <2>3 DEF Acquire
<1>2. CASE Greeted(t, a)
  BY <1>2, AdvanceTypes DEF Greeted
<1>3. CASE AnswerPairing(t, a)
  BY <1>3, GotoTypes DEF AnswerPairing, TypeOK, TaskTypes
<1>4. CASE PairingStopped(t, a)
  BY <1>4, ReturnTypes DEF PairingStopped
<1>5. CASE PeerConfirmed(t, a)
  BY <1>5, ReturnTypes, AdvanceTypes DEF PeerConfirmed
<1>6. CASE PeerDecided(t, a)
  <2>1. CASE record[t] # NoRecord /\ Changes(t, record[t]) /\ Leave(t, a, "fatal")
    BY <2>1, LeaveChangedTypes DEF TypeOK
  <2>2. QED
    BY <1>6, <2>1, ReturnTypes, AdvanceTypes DEF PeerDecided, Changes
<1>7. CASE HandshakeFails(t, a)
  BY <1>7, ReturnTypes DEF HandshakeFails
<1>8. CASE ForwardCancel(t, a)
  BY <1>8, ReturnTypes DEF ForwardCancel
<1>9. CASE RemoteControl(t, a)
  <2>1. record[t] \in TransferState
    BY <1>9 DEF RemoteControl, TypeOK, Terminal
  <2>2. PICK state \in TransferState : FollowPeer(t, a, state)
    BY <1>9, <2>1 DEF RemoteControl, AfterRemotePause, AfterRemoteResume
  <2>3. CASE Write(t, state) /\ UNCHANGED <<pc, permits>>
    BY <2>3, WriteTypes DEF TypeOK, TaskTypes, Changes
  <2>4. CASE WriteLost(t, state) /\ Leave(t, a, "fatal")
    BY <2>4, LeaveChangedTypes DEF Changes
  <2>5. QED
    BY <2>2, <2>3, <2>4 DEF FollowPeer
<1>10. CASE ResultArrives(t, a)
  BY <1>10, ReturnTypes, AdvanceTypes DEF ResultArrives
<1>11. CASE Complete(t, a)
  <2>1. CASE Write(t, "Completed") /\ Leave(t, a, "done")
    BY <2>1, LeaveChangedTypes DEF Changes
  <2>2. CASE WriteLost(t, "Completed") /\ Leave(t, a, "fatal")
    BY <2>2, LeaveChangedTypes DEF Changes
  <2>3. CASE Return(t, a, "fatal")
    BY <2>3, ReturnTypes
  <2>4. QED
    BY <1>11, <2>1, <2>2, <2>3 DEF Complete
<1>12. CASE ReadFails(t, a)
  <2>1. PICK outcome \in Outcome : Return(t, a, outcome)
    BY <1>12 DEF ReadFails
  <2>2. QED
    BY <2>1, ReturnTypes
<1>13. CASE DataFails(t, a)
  <2>1. PICK outcome \in Outcome : Return(t, a, outcome)
    BY <1>13 DEF DataFails
  <2>2. QED
    BY <2>1, ReturnTypes
<1>14. CASE Stopped(t, a)
  BY <1>14, ReturnTypes DEF Stopped
<1>15. CASE Finish(t, a)
  <2>1. pc' \in [Transfers -> [Attempts -> Location]] /\ UNCHANGED permits
    BY <1>15, GotoTypes DEF Finish
  <2>2. CASE record[t] # NoRecord /\ Changes(t, AfterOutcome(record[t], pc[t][a]))
    <3>1. record[t] \in TransferState /\ pc[t][a] \in Outcome
      BY <1>15, <2>2 DEF Finish, TypeOK
    <3>2. AfterOutcome(record[t], pc[t][a]) \in TransferState
      BY <3>1 DEF AfterOutcome
    <3>3. QED
      BY <2>1, <2>2, <3>2, WriteTypes DEF TypeOK, TaskTypes
  <2>3. CASE UNCHANGED <<record, row, unsaved>>
    BY <2>1, <2>3 DEF TypeOK, TaskTypes
  <2>4. QED
    BY <1>15, <2>2, <2>3 DEF Finish, Changes
<1>16. CASE SaveProgress(t, a)
  <2>1. record[t] \in TransferState /\ Changes(t, record[t]) /\ UNCHANGED <<pc, permits>>
    BY <1>16 DEF SaveProgress, TypeOK, Changes
  <2>2. QED
    BY <2>1, WriteTypes DEF TypeOK, TaskTypes
<1>17. QED
  BY <1>1, <1>2, <1>3, <1>4, <1>5, <1>6, <1>7, <1>8, <1>9, <1>10, <1>11,
     <1>12, <1>13, <1>14, <1>15, <1>16 DEF PlainTaskStep

(* Setting a flag of one JobControl, and JobControl::cancel.               *)
LEMMA ControlTypes ==
    ASSUME TypeOK, NEW t \in Transfers, NEW a \in Attempts
    PROVE  /\ [control EXCEPT ![t][a].registered = TRUE] \in [Transfers -> [Attempts -> Control]]
           /\ [control EXCEPT ![t][a].cancelled = TRUE] \in [Transfers -> [Attempts -> Control]]
           /\ Cancelled(control[t][a]) \in Control
           /\ [control EXCEPT ![t][a] = Cancelled(@)] \in [Transfers -> [Attempts -> Control]]
<1>1. control \in [Transfers -> [Attempts -> Control]]
  BY DEF TypeOK
<1>2. control[t][a] \in Control /\ control[t] \in [Attempts -> Control]
  BY <1>1
<1>3. /\ [control[t][a] EXCEPT !.registered = TRUE] \in Control
      /\ [control[t][a] EXCEPT !.cancelled = TRUE] \in Control
      /\ Cancelled(control[t][a]) \in Control
  BY <1>2, Zenon DEF Control, Cancelled
<1>4. ASSUME NEW c \in Control
      PROVE  [control EXCEPT ![t][a] = c] \in [Transfers -> [Attempts -> Control]]
  BY <1>1, <1>2
<1>5. QED
  BY <1>3, <1>4

(* A step of a task, its channel and the remote cancellation included.     *)
LEMMA TaskStepTypes ==
    ASSUME TypeOK, NEW t \in Transfers, NEW a \in Attempts, TaskStep(t, a)
    PROVE  TypeOK'
<1>1. CASE PlainTaskStep(t, a)
  BY <1>1, PlainTaskStepTypes DEF PlainTaskStep, TaskStep, TaskTypes, TypeOK
<1>2. CASE RegisterChannel(t, a)
  <2>1. pc' \in [Transfers -> [Attempts -> Location]]
    BY <1>2, GotoTypes DEF RegisterChannel, Location, Live, Holding
  <2>2. control' \in [Transfers -> [Attempts -> Control]]
    BY <1>2, ControlTypes DEF RegisterChannel
  <2>3. QED
    BY <1>2, <2>1, <2>2 DEF RegisterChannel, TaskStep, TypeOK
<1>3. CASE RemoteCancel(t, a)
  <2>1. control' \in [Transfers -> [Attempts -> Control]]
    <3>1. CASE job[t] \in Attempts
      BY <1>3, <3>1, ControlTypes DEF RemoteCancel
    <3>2. CASE job[t] \notin Attempts
      BY <1>3, <3>2 DEF RemoteCancel, TypeOK
    <3>3. QED
      BY <3>1, <3>2
  <2>2. TaskTypes'
    <3>1. CASE Return(t, a, "cancelled")
      BY <3>1, ReturnTypes DEF Outcome
    <3>2. CASE /\ record[t] \notin Terminal \cup {NoRecord}
               /\ Changes(t, AfterRemoteCancel(record[t]))
               /\ \E outcome \in Outcome : Leave(t, a, outcome)
      <4>1. AfterRemoteCancel(record[t]) \in TransferState
        BY <3>2 DEF AfterRemoteCancel, TransferState, TypeOK
      <4>2. QED
        BY <3>2, <4>1, LeaveChangedTypes
    <3>3. QED
      BY <1>3, <3>1, <3>2 DEF RemoteCancel, Changes, Outcome
  <2>3. QED
    BY <1>3, <2>1, <2>2 DEF TaskStep, TaskTypes, TypeOK
<1>4. QED
  BY <1>1, <1>2, <1>3 DEF TaskStep

(* A fresh task takes the next number.                                     *)
LEMMA SpawnTypes ==
    ASSUME TypeOK, NEW t \in Transfers, spawned[t] < MaxAttempts, Spawn(t)
    PROVE  /\ spawned' \in [Transfers -> 0..MaxAttempts]
           /\ job' \in [Transfers -> {NoJob, 0} \cup Attempts]
           /\ pc' \in [Transfers -> [Attempts -> Location]]
<1>1. spawned[t] + 1 \in Attempts
  BY OutgoingJobsAssumption DEF TypeOK, Attempts
<1>2. QED
  BY <1>1, OutgoingJobsAssumption DEF TypeOK, Spawn, Location, Live, Attempts

(* The commands of the user, shutdown and restart.                         *)
LEMMA UserStepTypes ==
    ASSUME TypeOK, SendIsFirst, UserStep
    PROVE  TypeOK'
<1> USE DEF TransferState
<1>1. ASSUME NEW t \in Transfers, SendSave(t) PROVE TypeOK'
  BY <1>1 DEF SendSave, TypeOK
<1>2. ASSUME NEW t \in Transfers, SendSpawn(t) PROVE TypeOK'
  <2>1. spawned[t] < MaxAttempts
    BY <1>2, OutgoingJobsAssumption DEF SendSpawn, SendIsFirst
  <2>2. QED
    BY <1>2, <2>1, SpawnTypes DEF SendSpawn, TypeOK, Idle
<1>3. ASSUME NEW t \in Transfers, SendFails(t) PROVE TypeOK'
  BY <1>3 DEF SendFails, TypeOK, Idle
<1>4. ASSUME NEW t \in Transfers, NEW c \in TransferCommand, Command(t, c) PROVE TypeOK'
  <2>1. CommandTarget[c] \in TransferState
    BY <1>4 DEF CommandTarget, TransferCommand
  <2>2. control' \in [Transfers -> [Attempts -> Control]]
    <3>1. CASE job[t] \in Attempts /\ control' = [control EXCEPT ![t][job[t]] = Cancelled(@)]
      BY <3>1, ControlTypes
    <3>2. CASE UNCHANGED control
      BY <3>2 DEF TypeOK
    <3>3. QED
      BY <1>4, <3>1, <3>2 DEF Command
  <2>3. Changes(t, CommandTarget[c])
    BY <1>4 DEF Command, Changes
  <2>4. QED
    BY <1>4, <2>1, <2>2, <2>3, WriteTypes DEF Command, TypeOK
<1>5. ASSUME NEW t \in Transfers, Retry(t) PROVE TypeOK'
  <2>1. CommandTarget["Retry"] \in TransferState
    BY DEF CommandTarget, TransferCommand
  <2>2. RestoredJob(t) \in [Transfers -> {NoJob, 0} \cup Attempts]
    BY DEF RestoredJob, TypeOK
  <2>3. CASE spawned[t] < MaxAttempts /\ Write(t, CommandTarget["Retry"]) /\ Spawn(t)
    BY <1>5, <2>1, <2>3, WriteTypes, SpawnTypes DEF Retry, TypeOK, Changes
  <2>4. CASE /\ WriteLost(t, CommandTarget["Retry"])
             /\ job' = RestoredJob(t)
             /\ UNCHANGED <<spawned, pc>>
    BY <1>5, <2>1, <2>2, <2>4, WriteTypes DEF Retry, TypeOK, Changes
  <2>5. CASE job' = RestoredJob(t) /\ UNCHANGED <<record, row, unsaved, spawned, pc>>
    BY <1>5, <2>2, <2>5 DEF Retry, TypeOK
  <2>6. QED
    BY <1>5, <2>3, <2>4, <2>5 DEF Retry
<1>6. ASSUME NEW t \in Transfers, DeleteHistoryRow(t) PROVE TypeOK'
  BY <1>6 DEF DeleteHistoryRow, TypeOK
<1>7. ASSUME NEW t \in Transfers, DeleteHistoryRecord(t) PROVE TypeOK'
  BY <1>7 DEF DeleteHistoryRecord, TypeOK, Idle
<1>8. CASE ClearHistoryRows
  BY <1>8 DEF ClearHistoryRows, TypeOK
<1>9. CASE ClearHistoryRecords
  BY <1>9 DEF ClearHistoryRecords, TypeOK, Idle
<1>10. CASE Shutdown
  <2>1. control' \in [Transfers -> [Attempts -> Control]]
    <3>1. ASSUME NEW t \in Transfers, NEW a \in Attempts
          PROVE  control[t][a] \in Control /\ Cancelled(control[t][a]) \in Control
      <4>1. control \in [Transfers -> [Attempts -> Control]]
        BY DEF TypeOK
      <4>2. QED
        <5>1. control[t][a] \in Control
          BY <3>1, <4>1
        <5>2. QED
          BY <3>1, <5>1, ControlTypes
    <3>2. QED
      BY <1>10, <3>1 DEF Shutdown
  <2>2. row' \in [Transfers -> TransferState \cup {NoRecord}] /\ unsaved' \in SUBSET Transfers
    BY <1>10 DEF Shutdown, TypeOK
  <2>3. QED
    BY <1>10, <2>1, <2>2 DEF Shutdown, TypeOK
<1>11. CASE Restart
  <2>1. record' \in [Transfers -> TransferState \cup {NoRecord}]
    BY <1>11 DEF Restart, TypeOK, Restored
  <2>2. pc' \in [Transfers -> [Attempts -> Location]]
    BY <1>11 DEF Restart, TypeOK, Location
  <2>3. control' \in [Transfers -> [Attempts -> Control]]
    BY <1>11 DEF Restart, NewControl, Control
  <2>4. QED
    BY <1>11, <2>1, <2>2, <2>3, OutgoingJobsAssumption DEF Restart, TypeOK, Idle
<1>12. QED
  BY <1>1, <1>2, <1>3, <1>4, <1>5, <1>6, <1>7, <1>8, <1>9, <1>10, <1>11 DEF UserStep

-----------------------------------------------------------------------------
(* Every step.                                                             *)

(* SendIsFirst: an id is spawned for the first time by the second step of  *)
(* the send that saved it, and the engine slot keeps other commands out.   *)
LEMMA SendIsFirstPreserved ==
    ASSUME TypeOK, SendIsFirst, [Next]_vars
    PROVE  SendIsFirst'
<1>1. ASSUME NEW t \in Transfers, NEW a \in Attempts, TaskStep(t, a) PROVE SendIsFirst'
  BY <1>1 DEF TaskStep, SendIsFirst
<1>2. CASE UNCHANGED vars
  BY <1>2 DEF vars, SendIsFirst
<1>3. ASSUME NEW t \in Transfers, SendSave(t) PROVE SendIsFirst'
  BY <1>3 DEF SendSave, SendIsFirst, TypeOK
<1>4. ASSUME call' = Idle PROVE SendIsFirst'
  BY <1>4 DEF SendIsFirst, Idle
<1>5. ASSUME NEW t \in Transfers, NEW c \in TransferCommand, Command(t, c) PROVE SendIsFirst'
  BY <1>5 DEF Command, SendIsFirst
<1>6. ASSUME NEW t \in Transfers, Retry(t) PROVE SendIsFirst'
  BY <1>6 DEF Retry, Ready, SendIsFirst, Idle
<1>7. ASSUME NEW t \in Transfers, DeleteHistoryRow(t) PROVE SendIsFirst'
  BY <1>7 DEF DeleteHistoryRow, SendIsFirst
<1>8. CASE ClearHistoryRows
  BY <1>8 DEF ClearHistoryRows, SendIsFirst
<1>9. CASE Shutdown
  BY <1>9 DEF Shutdown, SendIsFirst
<1>10. ASSUME UserStep PROVE SendIsFirst'
  BY <1>3, <1>4, <1>5, <1>6, <1>7, <1>8, <1>9, <1>10
     DEF UserStep, SendSpawn, SendFails, DeleteHistoryRecord, ClearHistoryRecords, Restart
<1>11. QED
  BY <1>1, <1>2, <1>10 DEF Next

LEMMA InitTypes == Init => TypeOK /\ SendIsFirst
BY OutgoingJobsAssumption
   DEF Init, TypeOK, SendIsFirst, Idle, NewControl, Control, Location, Attempts, NoJob

LEMMA NextTypes ==
    ASSUME TypeOK, SendIsFirst, [Next]_vars
    PROVE  TypeOK'
<1>1. CASE UserStep
  BY <1>1, UserStepTypes
<1>2. ASSUME NEW t \in Transfers, NEW a \in Attempts, TaskStep(t, a) PROVE TypeOK'
  BY <1>2, TaskStepTypes
<1>3. CASE UNCHANGED vars
  BY <1>3 DEF vars, TypeOK
<1>4. QED
  BY <1>1, <1>2, <1>3 DEF Next

(* Every variable of the model keeps its type, whatever the commands, the  *)
(* peer, a crash and a restart do (core.rs, outgoing.rs).                  *)
THEOREM TypeCorrect == Spec => [](TypeOK /\ SendIsFirst)
<1>1. Init => TypeOK /\ SendIsFirst
  BY InitTypes
<1>2. TypeOK /\ SendIsFirst /\ [Next]_vars => (TypeOK /\ SendIsFirst)'
  BY NextTypes, SendIsFirstPreserved
<1>3. QED
  BY <1>1, <1>2, PTL DEF Spec

-----------------------------------------------------------------------------
(* The task behind a record.                                               *)

(* A step of one task, seen from the other tasks and records.              *)
OnlyMoves(t, a) ==
    /\ \A b \in Attempts \ {a} : pc'[t][b] = pc[t][b]
    /\ \A u \in Transfers \ {t} : pc'[u] = pc[u] /\ record'[u] = record[u]
    /\ UNCHANGED <<spawned, call, phase>>

(* What OrphansOnlyUnsaved says of one step.                               *)
NoNewOrphan ==
    \A t \in Transfers :
        Orphan(t)' => Orphan(t) \/ LostRetry(t)

LEMMA OrphanMeans ==
    ASSUME NEW t \in Transfers
    PROVE  /\ Orphan(t) <=> /\ phase = "running"
                            /\ record[t] \in Active \ {"Interrupted"}
                            /\ \A a \in Attempts : pc[t][a] \notin Live
           /\ Orphan(t)' <=> /\ phase' = "running"
                             /\ record'[t] \in Active \ {"Interrupted"}
                             /\ \A a \in Attempts : pc'[t][a] \notin Live
<1>1. LiveTasks(t) = {} <=> \A a \in Attempts : pc[t][a] \notin Live
  BY DEF LiveTasks
<1>2. LiveTasks(t)' = {} <=> \A a \in Attempts : pc'[t][a] \notin Live
  BY DEF LiveTasks
<1>3. QED
  BY <1>1, <1>2 DEF Orphan

(* Goto and the writers touch nothing but their own task and record.             *)
LEMMA GotoMoves ==
    ASSUME TypeOK, NEW t \in Transfers, NEW a \in Attempts, NEW location,
           Goto(t, a, location), UNCHANGED <<spawned, call, phase>>,
           \A u \in Transfers \ {t} : record'[u] = record[u]
    PROVE  OnlyMoves(t, a) /\ pc'[t][a] = location
BY DEF TypeOK, Goto, OnlyMoves

LEMMA WriteMoves ==
    ASSUME TypeOK, NEW t \in Transfers, NEW state, Changes(t, state)
    PROVE  record'[t] = state /\ \A u \in Transfers \ {t} : record'[u] = record[u]
BY DEF TypeOK, Changes, Write, WriteLost

(* A step that moves one live task and writes only that transfer's record  *)
(* keeps TaskInv when no live task stays behind a record the user may      *)
(* retry, and leaves no orphan when one stays behind a record under way.   *)
LEMMA OneTaskMoves ==
    ASSUME TypeOK, TaskInv,
           NEW t \in Transfers, NEW a \in Attempts, pc[t][a] \in Live,
           OnlyMoves(t, a), pc'[t][a] \in Live \cup {"done"},
           pc'[t][a] \in Live => record'[t] \notin {"Interrupted", "Failed"},
           pc'[t][a] = "done" /\ phase = "running"
               => record'[t] \notin Active \ {"Interrupted"}
    PROVE  TaskInv' /\ NoNewOrphan
<1>1. a = spawned[t] /\ a \in Attempts /\ "unborn" \notin Live /\ "done" \notin Live
  BY DEF TaskInv, LastAttemptLives, Live, Holding, Outcome
<1>2. /\ \A b \in Attempts : b # a => pc'[t][b] = pc[t][b]
      /\ \A u \in Transfers : u # t => pc'[u] = pc[u]
      /\ UNCHANGED <<spawned, call, phase>>
  BY DEF OnlyMoves
<1>3. \A u \in Transfers : u # t => record'[u] = record[u]
  BY DEF OnlyMoves
<1>4. LastAttemptLives'
  BY <1>1, <1>2 DEF TaskInv, LastAttemptLives
<1>5. SendIsFirst'
  BY <1>2 DEF TaskInv, SendIsFirst
<1>6. RetryableIsQuiet'
  <2>1. ASSUME NEW u \in Transfers, record'[u] \in {"Interrupted", "Failed"},
               NEW b \in Attempts
        PROVE  pc'[u][b] \notin Live
    <3>1. CASE u # t
      BY <1>2, <1>3, <2>1, <3>1 DEF TaskInv, RetryableIsQuiet, LiveTasks
    <3>2. CASE u = t
      BY <1>1, <1>2, <1>3, <2>1, <3>2 DEF TaskInv, LastAttemptLives
    <3>3. QED
      BY <3>1, <3>2
  <2>2. QED
    BY <2>1 DEF RetryableIsQuiet, LiveTasks
<1>7. NoNewOrphan
  <2>1. ASSUME NEW u \in Transfers, phase' = "running",
               record'[u] \in Active \ {"Interrupted"},
               \A b \in Attempts : pc'[u][b] \notin Live
        PROVE  /\ record[u] \in Active \ {"Interrupted"} /\ phase = "running"
               /\ \A b \in Attempts : pc[u][b] \notin Live
    <3>1. CASE u # t
      BY <1>2, <1>3, <2>1, <3>1
    <3>2. CASE u = t
      BY <1>1, <1>2, <2>1, <3>2
    <3>3. QED
      BY <3>1, <3>2
  <2>2. QED
    BY <2>1, OrphanMeans DEF NoNewOrphan
<1>8. QED
  BY <1>4, <1>5, <1>6, <1>7 DEF TaskInv

(* A live task's record is never one the user may retry.                   *)
LEMMA LiveRecord ==
    ASSUME TypeOK, TaskInv, NEW t \in Transfers, NEW a \in Attempts, pc[t][a] \in Live
    PROVE  record[t] \notin {"Interrupted", "Failed"}
BY DEF TaskInv, RetryableIsQuiet, LiveTasks

(* run_outgoing returns with an error its wrapper still has to handle.     *)
LEMMA LeaveKeepsTaskInv ==
    ASSUME TypeOK, TaskInv, NEW t \in Transfers, NEW a \in Attempts, pc[t][a] \in Live,
           NEW outcome \in Outcome, Leave(t, a, outcome),
           record'[t] \notin {"Interrupted", "Failed"},
           \A u \in Transfers \ {t} : record'[u] = record[u],
           UNCHANGED <<spawned, call, phase>>
    PROVE  TaskInv' /\ NoNewOrphan
<1>1. outcome \in Live /\ outcome # "done"
  BY DEF Live, Outcome
<1>2. OnlyMoves(t, a) /\ pc'[t][a] = outcome
  BY GotoMoves DEF Leave
<1>3. QED
  BY <1>1, <1>2, OneTaskMoves

LEMMA ReturnKeepsTaskInv ==
    ASSUME TypeOK, TaskInv, NEW t \in Transfers, NEW a \in Attempts, pc[t][a] \in Live,
           NEW outcome \in Outcome, Return(t, a, outcome),
           UNCHANGED <<spawned, call, phase>>
    PROVE  TaskInv' /\ NoNewOrphan
<1>1. record' = record /\ Leave(t, a, outcome)
  BY DEF Return
<1>2. QED
  BY <1>1, LiveRecord, LeaveKeepsTaskInv

(* A task that leaves with its record changed, to none that may be retried. *)
LEMMA LeaveChangedKeepsTaskInv ==
    ASSUME TypeOK, TaskInv, NEW t \in Transfers, NEW a \in Attempts, pc[t][a] \in Live,
           NEW outcome \in Outcome, NEW state,
           Changes(t, state), state \notin {"Interrupted", "Failed"}, Leave(t, a, outcome),
           UNCHANGED <<spawned, call, phase>>
    PROVE  TaskInv' /\ NoNewOrphan
BY WriteMoves, LeaveKeepsTaskInv

(* transition_transfer, or the return a refusal or a failing save leads to. *)
LEMMA AdvanceKeepsTaskInv ==
    ASSUME TypeOK, TaskInv, NEW t \in Transfers, NEW a \in Attempts, pc[t][a] \in Live,
           NEW next \in TransferState \ {"Interrupted", "Failed"},
           NEW location \in Holding, Advance(t, a, next, location),
           UNCHANGED <<spawned, call, phase>>
    PROVE  TaskInv' /\ NoNewOrphan
<1>1. CASE Write(t, next) /\ Goto(t, a, location)
  <2>1. OnlyMoves(t, a) /\ pc'[t][a] = location /\ record'[t] = next
    BY <1>1, GotoMoves, WriteMoves DEF Changes
  <2>2. location \in Live /\ location # "done"
    BY DEF Live, Holding
  <2>3. QED
    BY <2>1, <2>2, OneTaskMoves
<1>2. CASE WriteLost(t, next) /\ Leave(t, a, "fatal")
  BY <1>2, LeaveChangedKeepsTaskInv DEF Outcome, Changes
<1>3. CASE Return(t, a, "fatal")
  BY <1>3, ReturnKeepsTaskInv DEF Outcome
<1>4. QED
  BY <1>1, <1>2, <1>3 DEF Advance

(* A writer that moves no task, and makes no record one the user may retry *)
(* or one under way.                                                       *)
LEMMA NoTaskMoves ==
    ASSUME TypeOK, TaskInv, SendIsFirst', UNCHANGED <<pc, spawned, phase>>,
           \A t \in Transfers :
               /\ record'[t] \in {"Interrupted", "Failed"} => record[t] \in {"Interrupted", "Failed"}
               /\ record'[t] \in Active \ {"Interrupted"} =>
                      \/ record[t] \in Active \ {"Interrupted"}
                      \/ LostRetry(t)
    PROVE  TaskInv' /\ NoNewOrphan
<1>1. TaskInv'
  BY DEF TaskInv, LastAttemptLives, RetryableIsQuiet, LiveTasks
<1>2. NoNewOrphan
  BY OrphanMeans DEF NoNewOrphan
<1>3. QED
  BY <1>1, <1>2

(* Every step of a task keeps TaskInv.                                     *)
LEMMA TaskStepKeepsTaskInv ==
    ASSUME TypeOK, TaskInv, NEW t \in Transfers, NEW a \in Attempts, TaskStep(t, a)
    PROVE  TaskInv' /\ NoNewOrphan
<1>0. UNCHANGED <<spawned, call, phase>>
  BY DEF TaskStep
<1>a. /\ {"acquire"} \cup Holding \cup Outcome \subseteq Live
      /\ "done" \notin Live
  BY DEF Live, Holding, Outcome
<1> USE DEF Holding, Outcome, TransferState
<1>1. CASE Acquire(t, a)
  <2>1. CASE Write(t, "Connecting") /\ Goto(t, a, "connect")
    <3>1. OnlyMoves(t, a) /\ pc'[t][a] = "connect" /\ record'[t] = "Connecting"
      BY <1>0, <2>1, GotoMoves, WriteMoves DEF Changes
    <3>2. QED
      BY <1>1, <1>a, <3>1, OneTaskMoves DEF Acquire
  <2>2. CASE WriteLost(t, "Connecting") /\ Goto(t, a, "fatal")
    <3>1. OnlyMoves(t, a) /\ pc'[t][a] = "fatal" /\ record'[t] = "Connecting"
      BY <1>0, <2>2, GotoMoves, WriteMoves DEF Changes
    <3>2. QED
      BY <1>1, <1>a, <3>1, OneTaskMoves DEF Acquire
  <2>3. CASE Goto(t, a, "fatal") /\ UNCHANGED record
    <3>1. OnlyMoves(t, a) /\ pc'[t][a] = "fatal" /\ record'[t] = record[t]
      BY <1>0, <2>3, GotoMoves
    <3>2. QED
      BY <1>1, <1>a, <3>1, LiveRecord, OneTaskMoves DEF Acquire
  <2>4. QED
    BY <1>1, <2>1, <2>2, <2>3 DEF Acquire
<1>2. CASE Greeted(t, a)
  BY <1>0, <1>2, <1>a, AdvanceKeepsTaskInv DEF Greeted
<1>3. ASSUME NEW location \in Holding, Goto(t, a, location), UNCHANGED record,
             pc[t][a] \in Live
      PROVE  TaskInv' /\ NoNewOrphan
  <2>1. OnlyMoves(t, a) /\ pc'[t][a] = location /\ record'[t] = record[t]
    BY <1>0, <1>3, GotoMoves
  <2>2. QED
    BY <1>3, <1>a, <2>1, LiveRecord, OneTaskMoves
<1>4. CASE AnswerPairing(t, a)
  BY <1>3, <1>4, <1>a DEF AnswerPairing
<1>5. CASE RegisterChannel(t, a)
  BY <1>3, <1>5, <1>a DEF RegisterChannel
<1>6. CASE PairingStopped(t, a) \/ ForwardCancel(t, a) \/ Stopped(t, a)
  BY <1>0, <1>6, <1>a, ReturnKeepsTaskInv DEF PairingStopped, ForwardCancel, Stopped
<1>7. CASE PeerConfirmed(t, a)
  BY <1>0, <1>7, <1>a, ReturnKeepsTaskInv, AdvanceKeepsTaskInv DEF PeerConfirmed
<1>8. CASE PeerDecided(t, a)
  <2>1. CASE record[t] # NoRecord /\ Changes(t, record[t]) /\ Leave(t, a, "fatal")
    <3>1. pc[t][a] \in Live
      BY <1>8, <1>a DEF PeerDecided
    <3>2. QED
      BY <1>0, <2>1, <3>1, LiveRecord, LeaveChangedKeepsTaskInv
  <2>2. QED
    BY <1>0, <1>8, <1>a, <2>1, ReturnKeepsTaskInv, AdvanceKeepsTaskInv DEF PeerDecided, Changes
<1>9. CASE HandshakeFails(t, a)
  BY <1>0, <1>9, <1>a, ReturnKeepsTaskInv DEF HandshakeFails
<1>10. CASE RemoteControl(t, a)
  <2>1. pc[t][a] \in Live /\ record[t] \in TransferState \ {"Interrupted", "Failed"}
    BY <1>10, <1>a, LiveRecord DEF RemoteControl, TypeOK, Terminal
  <2>2. PICK state \in TransferState \ {"Interrupted", "Failed"} : FollowPeer(t, a, state)
    BY <1>10, <2>1 DEF RemoteControl, AfterRemotePause, AfterRemoteResume
  <2>3. CASE Write(t, state) /\ UNCHANGED pc
    <3>1. OnlyMoves(t, a) /\ pc'[t][a] = pc[t][a] /\ record'[t] = state
      BY <1>0, <2>3, WriteMoves DEF OnlyMoves, Changes
    <3>2. QED
      BY <1>a, <2>1, <3>1, OneTaskMoves
  <2>4. CASE WriteLost(t, state) /\ Leave(t, a, "fatal")
    BY <1>0, <2>1, <2>4, LeaveChangedKeepsTaskInv DEF Changes
  <2>5. QED
    BY <2>2, <2>3, <2>4 DEF FollowPeer
<1>11. CASE RemoteCancel(t, a)
  <2>1. pc[t][a] \in Live /\ record[t] \notin {"Interrupted", "Failed"}
    BY <1>11, <1>a, LiveRecord DEF RemoteCancel
  <2>2. AfterRemoteCancel(record[t]) \notin {"Interrupted", "Failed"}
    BY <2>1 DEF AfterRemoteCancel
  <2>3. CASE /\ Changes(t, AfterRemoteCancel(record[t]))
             /\ \E outcome \in Outcome : Leave(t, a, outcome)
    BY <1>0, <2>1, <2>2, <2>3, LeaveChangedKeepsTaskInv
  <2>4. CASE Return(t, a, "cancelled")
    BY <1>0, <2>1, <2>4, ReturnKeepsTaskInv
  <2>5. QED
    BY <1>11, <2>3, <2>4 DEF RemoteCancel, Changes
<1>12. CASE ResultArrives(t, a)
  BY <1>0, <1>12, <1>a, ReturnKeepsTaskInv, AdvanceKeepsTaskInv DEF ResultArrives
<1>13. CASE Complete(t, a)
  <2>1. CASE Write(t, "Completed") /\ Leave(t, a, "done")
    <3>1. OnlyMoves(t, a) /\ pc'[t][a] = "done" /\ record'[t] = "Completed"
      BY <1>0, <2>1, GotoMoves, WriteMoves DEF Changes, Leave
    <3>2. QED
      BY <1>13, <1>a, <3>1, OneTaskMoves DEF Complete, Active
  <2>2. CASE WriteLost(t, "Completed") /\ Leave(t, a, "fatal")
    BY <1>0, <1>13, <1>a, <2>2, LeaveChangedKeepsTaskInv DEF Complete, Changes
  <2>3. CASE Return(t, a, "fatal")
    BY <1>0, <1>13, <1>a, <2>3, ReturnKeepsTaskInv DEF Complete
  <2>4. QED
    BY <1>13, <2>1, <2>2, <2>3 DEF Complete
<1>14. CASE ReadFails(t, a) \/ DataFails(t, a)
  <2>1. pc[t][a] \in Live /\ \E outcome \in Outcome : Return(t, a, outcome)
    BY <1>14, <1>a DEF ReadFails, DataFails
  <2>2. QED
    BY <1>0, <2>1, ReturnKeepsTaskInv
<1>15. CASE Finish(t, a)
  <2>1. pc[t][a] \in Live /\ pc[t][a] \in Outcome /\ Goto(t, a, "done")
    BY <1>15, <1>a DEF Finish
  <2>2. CASE record[t] # NoRecord /\ Changes(t, AfterOutcome(record[t], pc[t][a]))
    <3>1. AfterOutcome(record[t], pc[t][a]) \notin Active \ {"Interrupted"}
      BY <2>1, <2>2 DEF AfterOutcome, Active, Terminal
    <3>2. OnlyMoves(t, a) /\ pc'[t][a] = "done"
                         /\ record'[t] = AfterOutcome(record[t], pc[t][a])
      BY <1>0, <2>1, <2>2, GotoMoves, WriteMoves
    <3>3. QED
      BY <1>a, <2>1, <3>1, <3>2, OneTaskMoves
  <2>3. CASE (phase = "stopped" \/ record[t] = NoRecord) /\ UNCHANGED record
    <3>1. OnlyMoves(t, a) /\ pc'[t][a] = "done" /\ record'[t] = record[t]
      BY <1>0, <2>1, <2>3, GotoMoves
    <3>2. record[t] = NoRecord => record[t] \notin Active
      BY OutgoingJobsAssumption DEF Active
    <3>3. QED
      BY <1>a, <2>1, <2>3, <3>1, <3>2, OneTaskMoves
  <2>4. QED
    BY <1>15, <2>2, <2>3 DEF Finish, Changes
<1>16. CASE SaveProgress(t, a)
  <2>1. Changes(t, record[t]) /\ UNCHANGED pc
    BY <1>16 DEF SaveProgress, Changes
  <2>2. UNCHANGED record
    BY <2>1 DEF Changes, Write, WriteLost, TypeOK
  <2>3. SendIsFirst'
    BY <1>0 DEF TaskInv, SendIsFirst
  <2>4. QED
    BY <1>0, <2>1, <2>2, <2>3, NoTaskMoves
<1>17. QED
  BY <1>1, <1>2, <1>4, <1>5, <1>6, <1>7, <1>8, <1>9, <1>10, <1>11, <1>12, <1>13, <1>14, <1>15,
     <1>16
     DEF TaskStep, PlainTaskStep

(* Spawning is safe when the transfer has no task: its new one is live,    *)
(* and the record is one the task will move on.                            *)
LEMMA SpawnKeepsTaskInv ==
    ASSUME TypeOK, TaskInv, SendIsFirst', NEW t \in Transfers, spawned[t] < MaxAttempts,
           Spawn(t), \A a \in Attempts : pc[t][a] \notin Live,
           record'[t] = "Preparing",
           \A u \in Transfers \ {t} : record'[u] = record[u],
           UNCHANGED phase
    PROVE  TaskInv' /\ NoNewOrphan
<1> DEFINE new == spawned[t] + 1
<1>1. new \in Attempts /\ spawned[t] \in Nat
  BY OutgoingJobsAssumption DEF TypeOK, Attempts
<1>2. /\ pc'[t][new] = "acquire"
      /\ \A b \in Attempts \ {new} : pc'[t][b] = pc[t][b]
      /\ \A u \in Transfers \ {t} : pc'[u] = pc[u] /\ spawned'[u] = spawned[u]
      /\ spawned'[t] = new
  BY <1>1 DEF Spawn, TypeOK
<1>3. "acquire" \in Live /\ "unborn" \notin Live
  BY DEF Live, Holding, Outcome
<1>4. LastAttemptLives'
  <2>1. ASSUME NEW b \in Attempts, b > new PROVE pc'[t][b] = "unborn"
    BY <1>1, <1>2, <2>1 DEF TaskInv, LastAttemptLives, Attempts
  <2>2. \A b \in Attempts : pc'[t][b] \in Live => b = new
    BY <1>2
  <2>3. QED
    BY <1>2, <2>1, <2>2 DEF TaskInv, LastAttemptLives
<1>5. RetryableIsQuiet'
  BY <1>2 DEF TaskInv, RetryableIsQuiet, LiveTasks
<1>6. NoNewOrphan
  <2>1. \A u \in Transfers : u # t => phase' = phase /\ pc'[u] = pc[u] /\ record'[u] = record[u]
    BY <1>2
  <2>2. ~Orphan(t)'
    BY <1>1, <1>2, <1>3, OrphanMeans
  <2>3. QED
    BY <2>1, <2>2, OrphanMeans DEF NoNewOrphan
<1>7. QED
  BY <1>4, <1>5, <1>6 DEF TaskInv

(* The commands, shutdown and restart keep TaskInv.                        *)
LEMMA UserStepKeepsTaskInv ==
    ASSUME TypeOK, TaskInv, SendIsFirst', UserStep
    PROVE  TaskInv' /\ NoNewOrphan
<1>1. ASSUME UNCHANGED <<pc, spawned, phase, record>> PROVE TaskInv' /\ NoNewOrphan
  BY <1>1, NoTaskMoves
<1>2. ASSUME NEW t \in Transfers, SendSpawn(t) PROVE TaskInv' /\ NoNewOrphan
  <2>1. spawned[t] = 0
    BY <1>2 DEF SendSpawn, TaskInv, SendIsFirst
  <2>2. spawned[t] < MaxAttempts /\ \A a \in Attempts : pc[t][a] \notin Live
    BY <2>1, OutgoingJobsAssumption DEF TaskInv, LastAttemptLives, Attempts
  <2>3. record'[t] = "Preparing" /\ \A u \in Transfers \ {t} : record'[u] = record[u]
    BY <1>2 DEF SendSpawn, TypeOK
  <2>4. QED
    BY <1>2, <2>2, <2>3, SpawnKeepsTaskInv DEF SendSpawn
<1>3. ASSUME NEW t \in Transfers, NEW c \in TransferCommand, Command(t, c) PROVE TaskInv' /\ NoNewOrphan
  <2>1. /\ record'[t] = CommandTarget[c]
        /\ \A u \in Transfers \ {t} : record'[u] = record[u]
    BY <1>3, WriteMoves DEF Command, Changes
  <2>2. CommandTarget[c] \in {"Paused", "Transferring", "Cancelled"}
    BY <1>3 DEF Command, CommandTarget, TransferCommand
  <2>3. CommandTarget[c] # "Cancelled" => record[t] \in Active \ {"Interrupted"}
    BY <1>3, <2>2 DEF Command, CanTransition, Active, TransferState
  <2>4. QED
    BY <1>3, <2>1, <2>2, <2>3, NoTaskMoves DEF Command, Active
<1>4. ASSUME NEW t \in Transfers, Retry(t) PROVE TaskInv' /\ NoNewOrphan
  <2>1. CommandTarget["Retry"] = "Preparing"
    BY DEF CommandTarget, TransferCommand
  <2>2. CASE /\ CanTransition(record[t], CommandTarget["Retry"])
             /\ spawned[t] < MaxAttempts
             /\ Write(t, CommandTarget["Retry"])
             /\ Spawn(t)
    <3>1. record[t] \in {"Interrupted", "Failed"}
      BY <2>1, <2>2 DEF CanTransition
    <3>2. \A a \in Attempts : pc[t][a] \notin Live
      BY <3>1 DEF TaskInv, RetryableIsQuiet, LiveTasks
    <3>3. record'[t] = "Preparing" /\ \A u \in Transfers \ {t} : record'[u] = record[u]
      BY <2>1, <2>2, WriteMoves DEF Changes
    <3>4. QED
      BY <1>4, <2>2, <3>2, <3>3, SpawnKeepsTaskInv DEF Retry
  <2>3. CASE /\ CanTransition(record[t], CommandTarget["Retry"])
             /\ WriteLost(t, CommandTarget["Retry"])
             /\ UNCHANGED <<spawned, pc>>
    <3>1. record'[t] = "Preparing" /\ \A u \in Transfers \ {t} : record'[u] = record[u]
      BY <2>1, <2>3, WriteMoves DEF Changes
    <3>2. LostRetry(t)
      BY <2>1, <2>3, <3>1 DEF WriteLost, LostRetry, CanTransition
    <3>3. QED
      BY <1>4, <2>3, <3>1, <3>2, NoTaskMoves DEF Retry
  <2>4. CASE UNCHANGED <<record, row, unsaved, spawned, pc>>
    BY <1>1, <1>4, <2>4 DEF Retry
  <2>5. QED
    BY <1>4, <2>2, <2>3, <2>4 DEF Retry
<1>5. ASSUME NEW t \in Transfers, DeleteHistoryRecord(t) PROVE TaskInv' /\ NoNewOrphan
  <2>1. \A u \in Transfers : record'[u] \in {record[u], NoRecord}
    BY <1>5 DEF DeleteHistoryRecord, TypeOK
  <2>2. QED
    BY <1>5, <2>1, NoTaskMoves, OutgoingJobsAssumption
       DEF DeleteHistoryRecord, Active, TransferState
<1>6. CASE ClearHistoryRecords
  <2>1. \A u \in Transfers : record'[u] \in {record[u], NoRecord}
    BY <1>6 DEF ClearHistoryRecords
  <2>2. QED
    BY <1>6, <2>1, NoTaskMoves, OutgoingJobsAssumption
       DEF ClearHistoryRecords, Active, TransferState
<1>7. CASE Shutdown
  BY <1>7 DEF Shutdown, TaskInv, LastAttemptLives, RetryableIsQuiet, NoNewOrphan, Orphan,
              LiveTasks, SendIsFirst
<1>8. CASE Restart
  <2>1. \A t \in Transfers : record'[t] \notin Active \ {"Interrupted"}
    BY <1>8, OutgoingJobsAssumption DEF Restart, Restored, Active, TransferState
  <2>2. \A t \in Transfers : \A a \in Attempts :
            /\ pc'[t][a] \in {"unborn", "done"}
            /\ pc[t][a] = "unborn" => pc'[t][a] = "unborn"
    BY <1>8 DEF Restart
  <2>3. \A t \in Transfers : \A a \in Attempts : pc'[t][a] \notin Live
    BY <2>2 DEF Live, Holding, Outcome
  <2>4. UNCHANGED spawned
    BY <1>8 DEF Restart
  <2>5. QED
    BY <2>1, <2>2, <2>3, <2>4
       DEF TaskInv, LastAttemptLives, RetryableIsQuiet, NoNewOrphan, Orphan, LiveTasks
<1>9. QED
  BY <1>1, <1>2, <1>3, <1>4, <1>5, <1>6, <1>7, <1>8
     DEF UserStep, SendSave, SendFails, DeleteHistoryRow, ClearHistoryRows

LEMMA TaskInvInit == Init => TaskInv
<1>1. "unborn" \notin Live
  BY DEF Live, Holding, Outcome
<1>2. NoRecord \notin TransferState
  BY OutgoingJobsAssumption
<1>3. QED
  BY <1>1, <1>2 DEF Init, TaskInv, LastAttemptLives, SendIsFirst, RetryableIsQuiet,
     LiveTasks, Idle, Active, TransferState

LEMMA NextKeepsTaskInv ==
    ASSUME TypeOK, TaskInv, [Next]_vars
    PROVE  TaskInv' /\ NoNewOrphan
<1>1. SendIsFirst'
  BY SendIsFirstPreserved DEF TaskInv
<1>2. CASE UserStep
  BY <1>1, <1>2, UserStepKeepsTaskInv
<1>3. ASSUME NEW t \in Transfers, NEW a \in Attempts, TaskStep(t, a)
      PROVE  TaskInv' /\ NoNewOrphan
  BY <1>3, TaskStepKeepsTaskInv
<1>4. CASE UNCHANGED vars
  BY <1>1, <1>4, NoTaskMoves DEF vars
<1>5. QED
  BY <1>2, <1>3, <1>4 DEF Next

(* TaskInv is an invariant.                                                *)
LEMMA TaskInvHolds == Spec => []TaskInv
<1>1. TypeOK /\ TaskInv /\ [Next]_vars => TaskInv'
  BY NextKeepsTaskInv
<1>2. QED
  BY <1>1, TaskInvInit, TypeCorrect, PTL DEF Spec

(* At most one run_outgoing per transfer, and none behind a record the     *)
(* user may retry: for any number of transfers, retries and restarts, and  *)
(* whichever saves fail.                                                   *)
THEOREM TasksAgreeWithRecords == Spec => [](OneLiveTask /\ RetryableIsQuiet)
<1>1. TaskInv => OneLiveTask /\ RetryableIsQuiet
  BY DEF TaskInv, LastAttemptLives, OneLiveTask, LiveTasks
<1>2. QED
  BY <1>1, TaskInvHolds, PTL

(* A record that may be retried has no task left, whatever attempts, peers *)
(* and restarts came before: what Retry of command_transfer relies on when *)
(* it spawns without looking.                                              *)
THEOREM RetryFindsNoTask == Spec => []RetryableIsQuiet
BY TasksAgreeWithRecords, PTL

(* No step of a command, a task, a crash or a restart leaves a record      *)
(* under way without its task, but a Retry whose save fails.               *)
THEOREM OnlyLostRetriesOrphan == Spec => OrphansOnlyUnsaved
<1>1. TypeOK /\ TaskInv /\ [Next]_vars
        => [\A t \in Transfers : Orphan(t)' => Orphan(t) \/ LostRetry(t)]_vars
  BY NextKeepsTaskInv DEF NoNewOrphan
<1>2. QED
  BY <1>1, TaskInvHolds, TypeCorrect, PTL DEF Spec, OrphansOnlyUnsaved

-----------------------------------------------------------------------------
(* Permits.                                                                *)

LEMMA HoldingTasksFinite == IsFiniteSet(HoldingTasks)
<1>1. IsFiniteSet(Attempts)
  BY OutgoingJobsAssumption, FS_Interval DEF Attempts
<1>2. IsFiniteSet(Transfers \X Attempts)
  BY <1>1, OutgoingJobsAssumption, FS_Product
<1>3. QED
  BY <1>2, FS_Subset DEF HoldingTasks

(* One task moves: it enters the tasks past acquire_owned or leaves them.  *)
LEMMA HoldingTasksMove ==
    ASSUME TypeOK, NEW t \in Transfers, NEW a \in Attempts, NEW location,
           Goto(t, a, location)
    PROVE  HoldingTasks' = IF location \in Holding THEN HoldingTasks \cup {<<t, a>>}
                                                   ELSE HoldingTasks \ {<<t, a>>}
<1>1. pc'[t][a] = location
  BY DEF Goto, TypeOK
<1>2. \A k \in Transfers \X Attempts : k # <<t, a>> => pc'[k[1]][k[2]] = pc[k[1]][k[2]]
  BY DEF Goto, TypeOK
<1>3. QED
  BY <1>1, <1>2 DEF HoldingTasks

(* A permit is taken by the step that enters, given back by the step that  *)
(* leaves, and untouched by every other step.                              *)
LEMMA PermitMoves ==
    ASSUME TypeOK, PermitsAddUp, NEW t \in Transfers, NEW a \in Attempts, NEW location,
           Goto(t, a, location),
           \/ pc[t][a] \in Holding /\ location \notin Holding /\ permits' = permits + 1
           \/ (pc[t][a] \in Holding <=> location \in Holding) /\ permits' = permits
           \/ /\ pc[t][a] \notin Holding /\ location \in Holding
              /\ permits > 0 /\ permits' = permits - 1
    PROVE  PermitsAddUp'
<1> DEFINE k == <<t, a>>
<1>1. k \in HoldingTasks <=> pc[t][a] \in Holding
  BY DEF HoldingTasks
<1>2. Cardinality(HoldingTasks) \in Nat
  BY HoldingTasksFinite, FS_CardinalityType
<1>3. permits \in Int /\ MaxActive \in Nat
  BY OutgoingJobsAssumption DEF TypeOK
<1>4. CASE pc[t][a] \in Holding /\ location \notin Holding /\ permits' = permits + 1
  <2>1. HoldingTasks' = HoldingTasks \ {k} /\ k \in HoldingTasks
    BY <1>1, <1>4, HoldingTasksMove
  <2>2. Cardinality(HoldingTasks') = Cardinality(HoldingTasks) - 1
    BY <2>1, HoldingTasksFinite, FS_RemoveElement
  <2>3. QED
    BY <1>2, <1>3, <1>4, <2>2 DEF PermitsAddUp
<1>5. CASE (pc[t][a] \in Holding <=> location \in Holding) /\ permits' = permits
  <2>1. HoldingTasks' = HoldingTasks
    BY <1>1, <1>5, HoldingTasksMove
  <2>2. QED
    BY <1>5, <2>1 DEF PermitsAddUp
<1>6. CASE /\ pc[t][a] \notin Holding /\ location \in Holding
           /\ permits > 0 /\ permits' = permits - 1
  <2>1. HoldingTasks' = HoldingTasks \cup {k} /\ k \notin HoldingTasks
    BY <1>1, <1>6, HoldingTasksMove
  <2>2. Cardinality(HoldingTasks') = Cardinality(HoldingTasks) + 1
    BY <2>1, HoldingTasksFinite, FS_AddElement
  <2>3. QED
    BY <1>2, <1>3, <1>6, <2>2 DEF PermitsAddUp
<1>7. QED
  BY <1>4, <1>5, <1>6

(* No step but those of the tasks and a restart touches a permit.          *)
LEMMA PermitsUntouched ==
    ASSUME PermitsAddUp, UNCHANGED <<pc, permits>>
    PROVE  PermitsAddUp'
BY DEF PermitsAddUp, HoldingTasks

LEMMA PermitsLeave ==
    ASSUME TypeOK, PermitsAddUp, NEW t \in Transfers, NEW a \in Attempts,
           pc[t][a] \in Holding, NEW location \in Outcome \cup {"done"}, Leave(t, a, location)
    PROVE  PermitsAddUp'
<1>1. location \notin Holding
  BY DEF Outcome, Holding
<1>2. QED
  BY <1>1, PermitMoves DEF Leave

LEMMA PermitsReturn ==
    ASSUME TypeOK, PermitsAddUp, NEW t \in Transfers, NEW a \in Attempts,
           pc[t][a] \in Holding, NEW outcome \in Outcome, Return(t, a, outcome)
    PROVE  PermitsAddUp'
BY PermitsLeave DEF Return

LEMMA PermitsAdvance ==
    ASSUME TypeOK, PermitsAddUp, NEW t \in Transfers, NEW a \in Attempts,
           pc[t][a] \in Holding, NEW next, NEW location \in Holding,
           Advance(t, a, next, location)
    PROVE  PermitsAddUp'
<1>1. CASE Goto(t, a, location) /\ UNCHANGED permits
  BY <1>1, PermitMoves
<1>2. CASE Leave(t, a, "fatal")
  BY <1>2, PermitsLeave DEF Outcome
<1>3. CASE Return(t, a, "fatal")
  BY <1>3, PermitsReturn DEF Outcome
<1>4. QED
  BY <1>1, <1>2, <1>3 DEF Advance

LEMMA TaskStepPermits ==
    ASSUME TypeOK, PermitsAddUp, NEW t \in Transfers, NEW a \in Attempts, TaskStep(t, a)
    PROVE  PermitsAddUp'
<1> USE DEF Holding, Outcome
<1>1. CASE Acquire(t, a)
  <2>1. CASE Goto(t, a, "connect") /\ permits' = permits - 1
    BY <1>1, <2>1, PermitMoves DEF Acquire
  <2>2. CASE Goto(t, a, "fatal") /\ UNCHANGED permits
    BY <1>1, <2>2, PermitMoves DEF Acquire
  <2>3. QED
    BY <1>1, <2>1, <2>2 DEF Acquire
<1>2. CASE Greeted(t, a) \/ PeerConfirmed(t, a) \/ PeerDecided(t, a) \/ ResultArrives(t, a)
  BY <1>2, PermitsAdvance, PermitsReturn, PermitsLeave
     DEF Greeted, PeerConfirmed, PeerDecided, ResultArrives
<1>3. CASE AnswerPairing(t, a)
  BY <1>3, PermitMoves DEF AnswerPairing
<1>4. CASE RegisterChannel(t, a)
  BY <1>4, PermitMoves DEF RegisterChannel
<1>5. CASE PairingStopped(t, a) \/ ForwardCancel(t, a) \/ Stopped(t, a)
  BY <1>5, PermitsReturn DEF PairingStopped, ForwardCancel, Stopped
<1>6. CASE HandshakeFails(t, a)
  BY <1>6, PermitsReturn DEF HandshakeFails
<1>7. CASE RemoteControl(t, a)
  <2>1. CASE UNCHANGED <<pc, permits>>
    BY <2>1, PermitsUntouched
  <2>2. CASE Leave(t, a, "fatal")
    BY <1>7, <2>2, PermitsLeave DEF RemoteControl
  <2>3. QED
    BY <1>7, <2>1, <2>2 DEF RemoteControl, FollowPeer
<1>8. CASE RemoteCancel(t, a)
  BY <1>8, PermitsLeave DEF RemoteCancel, Return
<1>9. CASE Complete(t, a)
  BY <1>9, PermitsLeave DEF Complete, Return
<1>10. CASE ReadFails(t, a) \/ DataFails(t, a)
  <2>1. pc[t][a] \in Holding /\ \E outcome \in Outcome : Return(t, a, outcome)
    BY <1>10 DEF ReadFails, DataFails
  <2>2. QED
    BY <2>1, PermitsReturn
<1>11. CASE Finish(t, a)
  BY <1>11, PermitMoves DEF Finish
<1>12. CASE SaveProgress(t, a)
  BY <1>12, PermitsUntouched DEF SaveProgress
<1>13. QED
  BY <1>1, <1>2, <1>3, <1>4, <1>5, <1>6, <1>7, <1>8, <1>9, <1>10, <1>11, <1>12
     DEF TaskStep, PlainTaskStep

(* Spawning adds a task that waits for its permit.                         *)
LEMMA SpawnPermits ==
    ASSUME TypeOK, PermitsAddUp, NEW t \in Transfers, spawned[t] < MaxAttempts,
           pc[t][spawned[t] + 1] = "unborn", Spawn(t), UNCHANGED permits
    PROVE  PermitsAddUp'
<1>1. spawned[t] + 1 \in Attempts
  BY OutgoingJobsAssumption DEF TypeOK, Attempts
<1>2. Goto(t, spawned[t] + 1, "acquire")
  BY DEF Spawn, Goto
<1>3. "unborn" \notin Holding /\ "acquire" \notin Holding
  BY DEF Holding
<1>4. QED
  BY <1>1, <1>2, <1>3, PermitMoves

LEMMA UserStepPermits ==
    ASSUME TypeOK, TaskInv, PermitsAddUp, UserStep
    PROVE  PermitsAddUp'
<1>1. ASSUME NEW t \in Transfers, spawned[t] < MaxAttempts
      PROVE  pc[t][spawned[t] + 1] = "unborn"
  BY <1>1, OutgoingJobsAssumption DEF TypeOK, TaskInv, LastAttemptLives, Attempts
<1>2. ASSUME NEW t \in Transfers, SendSpawn(t) PROVE PermitsAddUp'
  <2>1. spawned[t] < MaxAttempts
    BY <1>2, OutgoingJobsAssumption DEF SendSpawn, TaskInv, SendIsFirst
  <2>2. QED
    BY <1>1, <1>2, <2>1, SpawnPermits DEF SendSpawn
<1>3. ASSUME NEW t \in Transfers, Retry(t) PROVE PermitsAddUp'
  <2>1. CASE spawned[t] < MaxAttempts /\ Spawn(t)
    BY <1>1, <1>3, <2>1, SpawnPermits DEF Retry
  <2>2. CASE UNCHANGED pc
    BY <1>3, <2>2, PermitsUntouched DEF Retry
  <2>3. QED
    BY <1>3, <2>1, <2>2 DEF Retry
<1>4. CASE Restart
  <2>1. HoldingTasks' = {}
    BY <1>4 DEF Restart, HoldingTasks, Holding
  <2>2. QED
    BY <1>4, <2>1, FS_EmptySet, OutgoingJobsAssumption DEF Restart, PermitsAddUp
<1>5. ASSUME UNCHANGED <<pc, permits>> PROVE PermitsAddUp'
  BY <1>5, PermitsUntouched
<1>6. QED
  BY <1>2, <1>3, <1>4, <1>5
     DEF UserStep, SendSave, SendFails, Command, DeleteHistoryRow, DeleteHistoryRecord,
         ClearHistoryRows, ClearHistoryRecords, Shutdown

(* No way through run_outgoing, and no restart, loses or doubles a permit  *)
(* of active_tasks.                                                        *)
THEOREM PermitsNeverLost == Spec => []PermitsAddUp
<1>1. Init => PermitsAddUp
  <2>1. Init => HoldingTasks = {}
    BY DEF Init, HoldingTasks, Holding
  <2>2. QED
    BY <2>1, FS_EmptySet, OutgoingJobsAssumption DEF Init, PermitsAddUp
<1>2. TypeOK /\ TaskInv /\ PermitsAddUp /\ [Next]_vars => PermitsAddUp'
  <2>1. CASE UserStep
    BY <2>1, UserStepPermits
  <2>2. ASSUME TypeOK, PermitsAddUp, NEW t \in Transfers, NEW a \in Attempts, TaskStep(t, a)
        PROVE  PermitsAddUp'
    BY <2>2, TaskStepPermits
  <2>3. CASE UNCHANGED vars
    BY <2>3, PermitsUntouched DEF vars
  <2>4. QED
    BY <2>1, <2>2, <2>3 DEF Next
<1>3. QED
  BY <1>1, <1>2, TaskInvHolds, TypeCorrect, PTL DEF Spec

-----------------------------------------------------------------------------
(* Terminal records.                                                       *)

(* What makes a terminal record survive a restart: its row is the same,    *)
(* was deleted, or is behind because the last save failed.  And send never *)
(* meets a record of its id.                                               *)
FinalInv ==
    /\ \A t \in Transfers :
          record[t] \in Terminal => row[t] \in {record[t], NoRecord} \/ t \in unsaved
    /\ \A t \in Transfers : call = [op |-> "send", on |-> {t}] => record[t] = NoRecord

(* The writers of a task: none, or one that respects a terminal record.    *)
TaskWrites(t) ==
    \/ UNCHANGED <<record, row, unsaved>>
    \/ \E state \in TransferState :
          Changes(t, state) /\ (record[t] \in Terminal => state = record[t])

(* A terminal record has no way out of can_transition_to.                  *)
LEMMA TerminalAccepts ==
    ASSUME NEW t \in Transfers, NEW next \in TransferState, Accepts(t, next)
    PROVE  record[t] \notin Terminal
BY DEF Accepts, CanTransition, Terminal, TransferState

LEMMA AdvanceWrites ==
    ASSUME NEW t \in Transfers, NEW a, NEW next \in TransferState, NEW location,
           Advance(t, a, next, location)
    PROVE  TaskWrites(t)
BY TerminalAccepts DEF Advance, Return, TaskWrites, Changes

LEMMA TaskStepWrites ==
    ASSUME TypeOK, NEW t \in Transfers, NEW a \in Attempts, TaskStep(t, a)
    PROVE  TaskWrites(t)
<1> USE DEF TransferState
<1>1. ASSUME NEW next \in {"Connecting", "Completed"}, Accepts(t, next), Changes(t, next)
      PROVE  TaskWrites(t)
  BY <1>1, TerminalAccepts DEF TaskWrites
<1>2. ASSUME UNCHANGED <<record, row, unsaved>> PROVE TaskWrites(t)
  BY <1>2 DEF TaskWrites
<1>3. CASE Acquire(t, a) \/ Complete(t, a)
  BY <1>1, <1>2, <1>3 DEF Acquire, Complete, Return, Changes
<1>4. CASE Greeted(t, a) \/ PeerConfirmed(t, a) \/ ResultArrives(t, a)
  BY <1>2, <1>4, AdvanceWrites DEF Greeted, PeerConfirmed, ResultArrives, Return
<1>5. CASE AnswerPairing(t, a) \/ PairingStopped(t, a) \/ HandshakeFails(t, a)
  BY <1>2, <1>5 DEF AnswerPairing, PairingStopped, HandshakeFails, Return
<1>6. CASE ForwardCancel(t, a) \/ ReadFails(t, a) \/ DataFails(t, a) \/ Stopped(t, a)
  BY <1>2, <1>6 DEF ForwardCancel, ReadFails, DataFails, Stopped, Return
<1>7. CASE RegisterChannel(t, a)
  BY <1>2, <1>7 DEF RegisterChannel
<1>8. ASSUME record[t] # NoRecord, Changes(t, record[t]) PROVE TaskWrites(t)
  BY <1>8 DEF TypeOK, TaskWrites
<1>9. CASE PeerDecided(t, a)
  BY <1>2, <1>8, <1>9, AdvanceWrites DEF PeerDecided, Return, Changes
<1>10. CASE SaveProgress(t, a)
  BY <1>8, <1>10 DEF SaveProgress, Changes
<1>11. CASE RemoteControl(t, a)
  <2>1. \E state \in {"Paused", "Transferring"} : record[t] \notin Terminal /\ Changes(t, state)
    BY <1>11 DEF RemoteControl, FollowPeer, Changes, AfterRemotePause, AfterRemoteResume, Terminal
  <2>2. QED
    BY <2>1 DEF TaskWrites
<1>12. CASE RemoteCancel(t, a)
  <2>1. CASE record[t] \notin Terminal /\ Changes(t, AfterRemoteCancel(record[t]))
    BY <2>1 DEF TaskWrites, AfterRemoteCancel
  <2>2. QED
    BY <1>2, <1>12, <2>1 DEF RemoteCancel, Return, Changes
<1>13. CASE Finish(t, a)
  <2>1. CASE record[t] # NoRecord /\ Changes(t, AfterOutcome(record[t], pc[t][a]))
    <3>1. record[t] \in TransferState /\ pc[t][a] \in Outcome
      BY <1>13, <2>1 DEF Finish, TypeOK
    <3>2. /\ AfterOutcome(record[t], pc[t][a]) \in TransferState
          /\ record[t] \in Terminal => AfterOutcome(record[t], pc[t][a]) = record[t]
      BY <3>1 DEF AfterOutcome, Outcome
    <3>3. QED
      BY <2>1, <3>2 DEF TaskWrites
  <2>2. QED
    BY <1>2, <1>13, <2>1 DEF Finish, Changes
<1>14. QED
  BY <1>3, <1>4, <1>5, <1>6, <1>7, <1>9, <1>10, <1>11, <1>12, <1>13
     DEF TaskStep, PlainTaskStep

(* What every step does to the records: this is TerminalIsFinal for the    *)
(* step, and the half of FinalInv the next one needs.                      *)
KeepsFinal ==
    \A t \in Transfers :
        /\ record[t] \in Terminal =>
              \/ record'[t] \in {record[t], NoRecord}
              \/ t \in unsaved /\ restarts' # restarts
        /\ record'[t] \in Terminal => row'[t] \in {record'[t], NoRecord} \/ t \in unsaved'

LEMMA WriteKeepsFinal ==
    ASSUME TypeOK, FinalInv, NEW t \in Transfers, NEW state \in TransferState,
           Changes(t, state), record[t] \in Terminal => state = record[t]
    PROVE  KeepsFinal
<1>1. record'[t] = state /\ \A u \in Transfers \ {t} : record'[u] = record[u]
  BY WriteMoves
<1>2. /\ row'[t] = state \/ t \in unsaved'
      /\ \A u \in Transfers \ {t} : row'[u] = row[u] /\ (u \in unsaved => u \in unsaved')
  BY DEF Changes, Write, WriteLost, TypeOK
<1>3. ASSUME NEW u \in Transfers
      PROVE  /\ record[u] \in Terminal => record'[u] \in {record[u], NoRecord}
             /\ record'[u] \in Terminal => row'[u] \in {record'[u], NoRecord} \/ u \in unsaved'
  BY <1>1, <1>2 DEF FinalInv
<1>4. QED
  BY <1>3 DEF KeepsFinal

LEMMA UnchangedKeepsFinal ==
    ASSUME FinalInv, UNCHANGED <<record, unsaved>>,
           \A t \in Transfers : row'[t] \in {row[t], NoRecord}
    PROVE  KeepsFinal
BY DEF KeepsFinal, FinalInv

LEMMA UserStepKeepsFinal ==
    ASSUME TypeOK, FinalInv, UserStep
    PROVE  KeepsFinal
<1>0. NoRecord \notin Terminal
  BY OutgoingJobsAssumption DEF Terminal, TransferState
<1>1. ASSUME NEW t \in Transfers, SendSave(t) PROVE KeepsFinal
  BY <1>0, <1>1 DEF SendSave, KeepsFinal, FinalInv, TypeOK
<1>2. ASSUME NEW t \in Transfers, SendSpawn(t) PROVE KeepsFinal
  BY <1>0, <1>2 DEF SendSpawn, KeepsFinal, FinalInv, TypeOK, Terminal
<1>3. ASSUME NEW t \in Transfers, SendFails(t) PROVE KeepsFinal
  BY <1>3, UnchangedKeepsFinal DEF SendFails
<1>4. ASSUME NEW t \in Transfers, NEW c \in TransferCommand, CanTransition(record[t], CommandTarget[c]),
             Changes(t, CommandTarget[c])
      PROVE  KeepsFinal
  <2>1. CommandTarget[c] \in TransferState
    BY <1>4 DEF CommandTarget, TransferCommand, TransferState
  <2>2. record[t] \notin Terminal
    BY <1>4, <2>1 DEF CanTransition, Terminal, TransferState
  <2>3. QED
    BY <1>4, <2>1, <2>2, WriteKeepsFinal
<1>5. ASSUME NEW t \in Transfers, Retry(t) PROVE KeepsFinal
  BY <1>4, <1>5, UnchangedKeepsFinal DEF Retry, TransferCommand, Changes
<1>6. ASSUME NEW t \in Transfers, DeleteHistoryRow(t) PROVE KeepsFinal
  BY <1>6, UnchangedKeepsFinal DEF DeleteHistoryRow, TypeOK
<1>7. ASSUME NEW t \in Transfers, DeleteHistoryRecord(t) PROVE KeepsFinal
  BY <1>0, <1>7 DEF DeleteHistoryRecord, KeepsFinal, FinalInv, TypeOK
<1>8. CASE ClearHistoryRows
  BY <1>8, UnchangedKeepsFinal DEF ClearHistoryRows
<1>9. CASE ClearHistoryRecords
  BY <1>0, <1>9 DEF ClearHistoryRecords, KeepsFinal, FinalInv
<1>10. CASE Shutdown
  BY <1>0, <1>10 DEF Shutdown, KeepsFinal
<1>11. CASE Restart
  <2>1. \A t \in Transfers :
            record[t] \in Terminal =>
                record'[t] \in {record[t], NoRecord} \/ t \in unsaved
    BY <1>0, <1>11 DEF Restart, FinalInv, Restored, Terminal
  <2>2. restarts' # restarts
    BY <1>11 DEF Restart, TypeOK
  <2>3. QED
    BY <1>11, <2>1, <2>2 DEF Restart, KeepsFinal
<1>12. QED
  BY <1>1, <1>2, <1>3, <1>4, <1>5, <1>6, <1>7, <1>8, <1>9, <1>10, <1>11
     DEF UserStep, Command, Changes

LEMMA NextKeepsFinal ==
    ASSUME TypeOK, FinalInv, [Next]_vars
    PROVE  KeepsFinal
<1>1. CASE UserStep
  BY <1>1, UserStepKeepsFinal
<1>2. ASSUME NEW t \in Transfers, NEW a \in Attempts, TaskStep(t, a) PROVE KeepsFinal
  <2>1. TaskWrites(t)
    BY <1>2, TaskStepWrites
  <2>2. QED
    BY <1>2, <2>1, WriteKeepsFinal, UnchangedKeepsFinal DEF TaskWrites
<1>3. CASE UNCHANGED vars
  BY <1>3, UnchangedKeepsFinal DEF vars
<1>4. QED
  BY <1>1, <1>2, <1>3 DEF Next

(* The engine slot: nothing gives the id of a send under way a record.     *)
LEMMA SendUnknown ==
    ASSUME TypeOK, TaskInv, FinalInv, [Next]_vars,
           NEW t \in Transfers, call' = [op |-> "send", on |-> {t}]
    PROVE  record'[t] = NoRecord
<1>1. ASSUME NEW u \in Transfers, NEW a \in Attempts, TaskStep(u, a) PROVE record'[t] = NoRecord
  <2>1. call = [op |-> "send", on |-> {t}] /\ record[t] = NoRecord
    BY <1>1 DEF TaskStep, FinalInv
  <2>2. spawned[t] = 0 /\ \A b \in Attempts : pc[t][b] \notin Live
    BY <2>1, OutgoingJobsAssumption DEF TaskInv, SendIsFirst, LastAttemptLives, Attempts
  <2>3. CASE SaveProgress(u, a)
    <3>1. record' = record
      BY <2>3 DEF SaveProgress, Write, WriteLost, TypeOK
    <3>2. QED
      BY <2>1, <3>1
  <2>4. CASE pc[u][a] \in Live
    <3>1. u # t /\ TaskWrites(u)
      BY <1>1, <2>2, <2>4, TaskStepWrites
    <3>2. QED
      BY <2>1, <3>1, WriteMoves DEF TaskWrites
  <2>5. SaveProgress(u, a) \/ pc[u][a] \in Live
    BY <1>1 DEF TaskStep, PlainTaskStep, Acquire, Greeted, AnswerPairing, PairingStopped,
       PeerConfirmed, PeerDecided, HandshakeFails, RegisterChannel, ForwardCancel,
       RemoteControl, RemoteCancel, ResultArrives, Complete, ReadFails, DataFails, Stopped,
       Finish, Live, Holding, Outcome
  <2>6. QED
    BY <2>3, <2>4, <2>5
<1>2. CASE UserStep
  <2>1. ASSUME NEW u \in Transfers, SendSave(u) PROVE record'[t] = NoRecord
    BY <2>1 DEF SendSave
  <2>2. ASSUME Ready PROVE call # [op |-> "send", on |-> {t}]
    BY <2>2 DEF Ready, Idle
  <2>3. call' # Idle
    BY DEF Idle
  <2>4. ASSUME NEW u \in Transfers, DeleteHistoryRow(u) PROVE FALSE
    BY <2>4 DEF DeleteHistoryRow
  <2>5. CASE ClearHistoryRows
    BY <2>5 DEF ClearHistoryRows
  <2>6. QED
    BY <1>2, <2>1, <2>2, <2>3, <2>4, <2>5
       DEF UserStep, SendSpawn, SendFails, Command, Retry, DeleteHistoryRecord,
           ClearHistoryRecords, Shutdown, Restart
<1>3. CASE UNCHANGED vars
  BY <1>3 DEF vars, FinalInv
<1>4. QED
  BY <1>1, <1>2, <1>3 DEF Next

(* A completed or cancelled record keeps that state until it is deleted,   *)
(* over late tasks, remote commands, crashes and restarts, unless its last *)
(* save failed and a restart takes the row for it.                         *)
THEOREM TerminalRecordsAreFinal == Spec => TerminalIsFinal
<1>1. Init => FinalInv
  BY OutgoingJobsAssumption DEF Init, FinalInv, Terminal, TransferState, Idle
<1>2. TypeOK /\ TaskInv /\ FinalInv /\ [Next]_vars => FinalInv'
  BY NextKeepsFinal, SendUnknown DEF FinalInv, KeepsFinal
<1>3. TypeOK /\ FinalInv /\ [Next]_vars
        => [\A t \in Transfers :
               record[t] \in Terminal =>
                   \/ record'[t] \in {record[t], NoRecord}
                   \/ t \in unsaved /\ restarts' # restarts]_vars
  BY NextKeepsFinal DEF KeepsFinal
<1>4. QED
  BY <1>1, <1>2, <1>3, TaskInvHolds, TypeCorrect, PTL DEF Spec, TerminalIsFinal
=============================================================================
