------------------------------ MODULE Session -------------------------------
(***************************************************************************)
(* One accepted attempt seen from both devices: their two records, the     *)
(* control connection between run_outgoing (outgoing.rs) and               *)
(* handle_incoming_control (lan.rs), with the commands both users give and *)
(* the messages these become, and the result at the end.                   *)
(*                                                                         *)
(* A frame is read in two parts, its length and its body, inside a select! *)
(* that drops the read when another branch is ready.  The data plane is    *)
(* one channel and a number of chunks; DataPlane has its details, and the  *)
(* wake-ups checkpoint misses.  Retries begin another attempt and are in   *)
(* OutgoingJobs and IncomingTransfer.                                      *)
(***************************************************************************)
EXTENDS TransferModel, Naturals, Sequences, FiniteSets

CONSTANTS
    MaxChunks,      \* bound: chunks the receiver lacks when the attempt begins
    Commands,       \* commands the users give
    MaxCommands,    \* bound: how many
    MaxTroubles     \* bound: failures of the network, a disk or a process

Side == {"sender", "receiver"}
Other(s) == IF s = "sender" THEN "receiver" ELSE "sender"

ASSUME SessionAssumption ==
    /\ {MaxChunks, MaxCommands, MaxTroubles} \subseteq Nat
    /\ Commands \subseteq {"Pause", "Resume", "Cancel"}

VARIABLES
    record,     \* the record of the transfer on each side
    pc,         \* where run_outgoing and handle_incoming_control are
    paused,     \* sides whose JobControl is paused
    stopped,    \* sides whose JobControl is cancelled
    outbox,     \* control_rx: what is to be forwarded to the other side
    wire,       \* frames on their way TO each side
    half,       \* sides that have read the length of a frame and not its body
    garbled,    \* sides whose next read begins inside a frame
    signal,     \* the receiver's wait on `completed` was notified
    unsent,     \* chunks the sender has still to write
    air,        \* chunks written and not read
    left,       \* remaining_chunks
    send,       \* send_data_channel: "sending", "ok", or how it ended
    joined,     \* data_completed: the sender has seen its channels end well
    recv,       \* handle_incoming_data: "none", "open", "left", or how it ended
    asked,      \* sides whose user has cancelled
    commands, troubles

Conversation == {"Pause", "Resume", "Cancel"}
Result == {"Done", "Failed"}

Running == [sender |-> {"begin", "register", "loop", "confirm"},
            receiver |-> {"begin", "register", "check", "arm", "wait", "grace",
                          "verify", "finalize", "report"}]
Gone(s) == pc[s] \notin Running[s]

task == <<pc, outbox>>
flags == <<paused, stopped>>
network == <<wire, half, garbled>>
data == <<unsent, air, left, send, recv>>
environment == <<asked, commands, troubles>>
vars == <<record, task, flags, network, signal, data, joined, environment>>

TypeOK ==
    /\ record \in [Side -> TransferState]
    /\ pc \in [Side -> Running.sender \cup Running.receiver \cup Outcome \cup {"ended"}]
    /\ paused \subseteq Side /\ stopped \subseteq Side /\ asked \subseteq Side
    /\ outbox \in [Side -> Seq(Conversation)]
    /\ wire \in [Side -> Seq(Conversation \cup Result)]
    /\ half \subseteq Side /\ garbled \subseteq Side
    /\ {signal, joined} \subseteq BOOLEAN
    /\ {unsent, air, left} \subseteq 0..MaxChunks
    /\ send \in {"none", "sending", "ok", "gone"} \cup Outcome
    /\ recv \in {"none", "open", "left"} \cup Outcome
    /\ commands \in 0..MaxCommands /\ troubles \in 0..MaxTroubles

(* The decision and the resume state are on the wire; the sender has       *)
(* computed what is missing, and opens no channel for nothing.             *)
Init ==
    /\ record = [s \in Side |-> "WaitingForAcceptance"]
    /\ pc = [s \in Side |-> "begin"]
    /\ paused = {} /\ stopped = {} /\ asked = {}
    /\ outbox = [s \in Side |-> <<>>] /\ wire = [s \in Side |-> <<>>]
    /\ half = {} /\ garbled = {} /\ signal = FALSE
    /\ left \in 0..MaxChunks /\ unsent = left /\ air = 0
    /\ send = IF left = 0 THEN "ok" ELSE "none"
    /\ recv = "none" /\ joined = FALSE
    /\ commands = 0 /\ troubles = 0

-----------------------------------------------------------------------------
(* What the steps of both tasks have in common.                            *)

Flagged(s) == s \in stopped \/ record[s] = "Cancelled"

Goto(s, place) == pc' = [pc EXCEPT ![s] = place]

SetRecord(s, state) == record' = [record EXCEPT ![s] = state]

(* A branch of select! other than the read is taken: what the read had of  *)
(* its frame is lost.                                                      *)
DropRead(s) ==
    /\ half' = half \ {s}
    /\ garbled' = IF s \in half THEN garbled \cup {s} ELSE garbled

(* write_envelope; an error is ignored.                                    *)
Post(s, message) ==
    wire' = IF Gone(Other(s)) THEN wire ELSE [wire EXCEPT ![Other(s)] = Append(@, message)]

(* The task returns: its connections close, control_rx is dropped, and     *)
(* DataTasksGuard aborts the channels of the sender.                       *)
Leaves(s) ==
    /\ outbox' = [outbox EXCEPT ![s] = <<>>]
    /\ send' = IF s = "sender" /\ send = "sending" THEN "gone" ELSE send

Return(s, outcome) ==
    /\ Goto(s, outcome)
    /\ Leaves(s)
    /\ UNCHANGED <<unsent, air, left, recv>>

Stay(s, place) == Goto(s, place) /\ UNCHANGED <<outbox, data>>

(* transition_transfer, or the fatal error of an illegal transition.       *)
Transition(s, next, place) ==
    IF CanTransition(record[s], next)
    THEN SetRecord(s, next) /\ Stay(s, place)
    ELSE Return(s, "fatal") /\ UNCHANGED record

Begin(s) ==
    /\ pc[s] = "begin"
    /\ Transition(s, "Transferring", "register")
    /\ UNCHANGED <<flags, network, signal, joined, environment>>

(* register_channel: commands given before only set flags.  The receiver   *)
(* skips the loop when nothing is left.                                    *)
Register(s) ==
    /\ pc[s] = "register"
    /\ Stay(s, IF s = "sender" THEN "loop" ELSE IF left = 0 THEN "verify" ELSE "check")
    /\ UNCHANGED <<record, flags, network, signal, joined, environment>>

Listening(s) == pc[s] = (IF s = "sender" THEN "loop" ELSE "wait")

(* Where the loop goes on after a branch.                                  *)
Again(s) == IF s = "sender" THEN "loop" ELSE "check"

(* Mutant: a paused task forwards nothing. *)
ForwardUnpaused(s) ==
    /\ Listening(s) /\ outbox[s] # <<>> /\ s \notin paused
    /\ Post(s, Head(outbox[s]))
    /\ \/ Head(outbox[s]) = "Cancel" /\ Return(s, "cancelled")
       \/ /\ Head(outbox[s]) # "Cancel"
          /\ Goto(s, Again(s)) /\ outbox' = [outbox EXCEPT ![s] = Tail(@)]
          /\ UNCHANGED data
    /\ DropRead(s)
    /\ UNCHANGED <<record, flags, signal, joined, environment>>

(* control_rx.recv.                                                        *)
Forward(s) ==
    /\ Listening(s) /\ outbox[s] # <<>>
    /\ Post(s, Head(outbox[s]))
    /\ \/ Head(outbox[s]) = "Cancel" /\ Return(s, "cancelled")
       \/ /\ Head(outbox[s]) # "Cancel"
          /\ Goto(s, Again(s)) /\ outbox' = [outbox EXCEPT ![s] = Tail(@)]
          /\ UNCHANGED data
    /\ DropRead(s)
    /\ UNCHANGED <<record, flags, signal, joined, environment>>

(* read_exact of the four bytes; of a body they are a length no frame has. *)
ReadLength(s) ==
    /\ Listening(s) /\ s \notin half /\ wire[s] # <<>>
    /\ IF s \in garbled
       THEN Return(s, IF Flagged(s) THEN "cancelled" ELSE "fatal") /\ UNCHANGED half
       ELSE half' = half \cup {s} /\ UNCHANGED <<task, data>>
    /\ UNCHANGED <<record, flags, wire, garbled, signal, joined, environment>>

(* Mutant: a resume of the other side does not reach the control. *)
HearRecordOnly(s, message) ==
    /\ \/ message = "Pause" /\ SetRecord(s, AfterRemotePause(record[s]))
          /\ paused' = paused \cup {s}
       \/ message = "Resume" /\ SetRecord(s, AfterRemoteResume(record[s]))
          /\ UNCHANGED paused
    /\ Stay(s, Again(s))
    /\ UNCHANGED stopped

(* pause_from_remote, resume_from_remote.                                  *)
Hear(s, message) ==
    /\ \/ message = "Pause" /\ SetRecord(s, AfterRemotePause(record[s]))
          /\ paused' = paused \cup {s}
       \/ message = "Resume" /\ SetRecord(s, AfterRemoteResume(record[s]))
          /\ paused' = paused \ {s}
    /\ Stay(s, Again(s))
    /\ UNCHANGED stopped

(* cancel_from_remote.                                                     *)
HearCancel(s) ==
    /\ SetRecord(s, AfterRemoteCancel(record[s]))
    /\ stopped' = stopped \cup {s}
    /\ Return(s, "cancelled")
    /\ UNCHANGED paused

(* A result; Completed takes two transitions.                              *)
HearResult(message) ==
    /\ \/ message = "Failed" /\ Return("sender", "retryable") /\ UNCHANGED record
       \/ message = "Done" /\ Transition("sender", "Verifying", "confirm")
    /\ UNCHANGED flags

(* The body.                                                               *)
ReadBody(s) ==
    /\ Listening(s) /\ s \in half
    /\ half' = half \ {s}
    /\ wire' = [wire EXCEPT ![s] = Tail(@)]
    /\ LET message == Head(wire[s])
       IN  CASE message \in {"Pause", "Resume"} -> Hear(s, message)
             [] message = "Cancel"              -> HearCancel(s)
             [] message \in Result              -> HearResult(message)
    /\ UNCHANGED <<garbled, signal, joined, environment>>

(* Mutant: the sender does not take the end of the stream for an error. *)
ReadFailsUnseen(s) ==
    /\ Listening(s) /\ s = "receiver"
    /\ Gone(Other(s)) /\ (wire[s] = <<>> \/ wire[Other(s)] # <<>>)
    /\ Return(s, IF Flagged(s) THEN "cancelled" ELSE "retryable")
    /\ UNCHANGED <<record, flags, network, signal, joined, environment>>

(* The end of the stream; a peer that closes over unread messages resets   *)
(* the connection, and its own last ones are lost.                         *)
ReadFails(s) ==
    /\ Listening(s)
    /\ Gone(Other(s)) /\ (wire[s] = <<>> \/ wire[Other(s)] # <<>>)
    /\ Return(s, IF Flagged(s) THEN "cancelled" ELSE "retryable")
    /\ UNCHANGED <<record, flags, network, signal, joined, environment>>

(* The control connection breaks.                                          *)
Breaks(s) ==
    /\ Listening(s) /\ troubles < MaxTroubles /\ troubles' = troubles + 1
    /\ Return(s, IF Flagged(s) THEN "cancelled" ELSE "retryable")
    /\ UNCHANGED <<record, flags, network, signal, joined, asked, commands>>

(* Mutant: a cancelled task overwrites a completed record. *)
SettleAlways(s) ==
    /\ pc[s] \in Outcome
    /\ SetRecord(s, CASE pc[s] = "cancelled" -> "Cancelled"
                      [] pc[s] = "retryable" -> "Interrupted"
                      [] pc[s] = "fatal"     -> "Failed")
    /\ Stay(s, "ended")
    /\ UNCHANGED <<flags, network, signal, joined, environment>>

(* The wrappers of spawn_outgoing and accept_loop.                         *)
Settle(s) ==
    /\ pc[s] \in Outcome
    /\ SetRecord(s, AfterOutcome(record[s], pc[s]))
    /\ Stay(s, "ended")
    /\ UNCHANGED <<flags, network, signal, joined, environment>>

(* The buttons of transfers_view: Resume is only shown on a paused         *)
(* transfer, which is narrower than CanTransition.                         *)
Offered(s, command) == command = "Resume" => record[s] = "Paused"

(* command_transfer.  The control of the receiver goes with its handler.   *)
Command(s, command) ==
    /\ commands < MaxCommands /\ commands' = commands + 1
    /\ Offered(s, command)
    /\ CanTransition(record[s], CommandTarget[command])
    /\ SetRecord(s, CommandTarget[command])
    /\ paused' = CASE Gone(s)             -> paused
                   [] command = "Pause"  -> paused \cup {s}
                   [] command = "Resume" -> paused \ {s}
                   [] command = "Cancel" -> paused
    /\ stopped' = IF command = "Cancel" /\ ~Gone(s) THEN stopped \cup {s} ELSE stopped
    /\ outbox' = IF Gone(s) \/ pc[s] \in {"begin", "register"} THEN outbox
                 ELSE [outbox EXCEPT ![s] = Append(@, command)]
    /\ asked' = IF command = "Cancel" THEN asked \cup {s} ELSE asked
    /\ UNCHANGED <<pc, network, signal, data, joined, troubles>>

(* A shutdown or a crash: the record comes back as initialize restores it. *)
Quit(s) ==
    /\ ~Gone(s) /\ troubles < MaxTroubles /\ troubles' = troubles + 1
    /\ SetRecord(s, Restored(record[s]))
    /\ Goto(s, "ended")
    /\ Leaves(s)
    /\ recv' = IF s = "receiver" THEN "left" ELSE recv
    /\ UNCHANGED <<flags, network, signal, unsent, air, left, joined, asked, commands>>

-----------------------------------------------------------------------------
(* The sender.                                                             *)

(* All channels have ended well: data_completed.                           *)
DataCompleted ==
    /\ pc.sender = "loop" /\ send = "ok" /\ ~joined
    /\ joined' = TRUE
    /\ DropRead("sender")
    /\ UNCHANGED <<record, task, flags, wire, signal, data, environment>>

DataFailed ==
    /\ pc.sender = "loop" /\ send \in Outcome
    /\ Return("sender", send)
    /\ UNCHANGED <<record, flags, network, signal, joined, environment>>

(* The second transition of a good result.                                 *)
Confirm ==
    /\ pc.sender = "confirm"
    /\ Transition("sender", "Completed", "ended")
    /\ UNCHANGED <<flags, network, signal, joined, environment>>

-----------------------------------------------------------------------------
(* The receiver.                                                           *)

(* The head of the loop.                                                   *)
Check ==
    /\ pc.receiver = "check"
    /\ \/ left = 0 /\ Stay("receiver", "verify") /\ UNCHANGED wire
       \/ left # 0 /\ Flagged("receiver")
          /\ Post("receiver", "Cancel") /\ Return("receiver", "cancelled")
       \/ left # 0 /\ ~Flagged("receiver") /\ record.receiver \in {"Failed", "Interrupted"}
          /\ Post("receiver", "Failed") /\ Return("receiver", "fatal")
       \/ left # 0 /\ ~Flagged("receiver") /\ record.receiver \notin {"Failed", "Interrupted"}
          /\ Stay("receiver", "arm") /\ UNCHANGED wire
    /\ UNCHANGED <<record, flags, half, garbled, signal, joined, environment>>

Arm ==
    /\ pc.receiver = "arm"
    /\ Stay("receiver", "wait")
    /\ signal' = FALSE
    /\ UNCHANGED <<record, flags, network, joined, environment>>

(* `completed` was notified: the last chunk, or the last channel.          *)
Woken ==
    /\ pc.receiver = "wait" /\ signal
    /\ signal' = FALSE
    /\ IF left # 0 /\ Flagged("receiver")
       THEN Return("receiver", "cancelled")
       ELSE Stay("receiver", IF left = 0 THEN "verify"
                             ELSE IF recv = "open" THEN "check" ELSE "grace")
    /\ DropRead("receiver")
    /\ UNCHANGED <<record, flags, wire, joined, environment>>

(* Within 50 ms a Cancel counts.                                           *)
GraceCancel ==
    /\ pc.receiver = "grace" /\ wire.receiver # <<>> /\ "receiver" \notin garbled
    /\ Head(wire.receiver) = "Cancel"
    /\ wire' = [wire EXCEPT !.receiver = Tail(@)]
    /\ HearCancel("receiver")
    /\ UNCHANGED <<half, garbled, signal, joined, environment>>

(* Mutant: whatever ends the 50 ms counts as a cancel. *)
GraceCancels ==
    /\ pc.receiver = "grace"
    /\ Return("receiver", "cancelled")
    /\ UNCHANGED <<record, flags, network, signal, joined, environment>>

(* They are over, or anything else is read.                                *)
GraceOver ==
    /\ pc.receiver = "grace"
    /\ Return("receiver", IF Flagged("receiver") THEN "cancelled" ELSE "retryable")
    /\ UNCHANGED <<record, flags, network, signal, joined, environment>>

(* A transfer that is not Transferring may not become Verifying.           *)
Verify ==
    /\ pc.receiver = "verify"
    /\ Transition("receiver", "Verifying", "finalize")
    /\ UNCHANGED <<flags, network, signal, joined, environment>>

(* Mutant: the result is sent without asking the record. *)
FinalizeReports ==
    /\ pc.receiver = "finalize"
    /\ Post("receiver", "Done")
    /\ Transition("receiver", "Completed", "ended")
    /\ UNCHANGED <<flags, half, garbled, signal, joined, environment>>

(* finalize_incoming has delivered the files.                              *)
Finalize ==
    /\ pc.receiver = "finalize"
    /\ Transition("receiver", "Completed", "report")
    /\ UNCHANGED <<flags, network, signal, joined, environment>>

(* It has not: the sender is told.                                         *)
FinalizeFails ==
    /\ pc.receiver = "finalize" /\ troubles < MaxTroubles /\ troubles' = troubles + 1
    /\ Post("receiver", "Failed")
    /\ \E outcome \in {"retryable", "fatal"} : Return("receiver", outcome)
    /\ UNCHANGED <<record, flags, half, garbled, signal, joined, asked, commands>>

Report ==
    /\ pc.receiver = "report"
    /\ Post("receiver", "Done")
    /\ Stay("receiver", "ended")
    /\ UNCHANGED <<record, flags, half, garbled, signal, joined, environment>>

-----------------------------------------------------------------------------
(* The data plane.                                                         *)

SendStep(place) ==
    /\ send' = place
    /\ UNCHANGED <<record, task, flags, network, signal, left, joined, environment>>

(* The channels are spawned with the stream.                               *)
Connect ==
    /\ send = "none" /\ pc.sender \in {"register", "loop"}
    /\ SendStep("sending")
    /\ UNCHANGED <<unsent, air, recv>>

(* Mutant: the queue is looked at and not popped. *)
SendRepeats ==
    /\ send = "sending" /\ "sender" \notin paused \cup stopped
    /\ IF unsent > 0
       THEN SendStep("sending") /\ air' = air + 1 /\ UNCHANGED unsent
       ELSE SendStep("ok") /\ UNCHANGED <<unsent, air>>
    /\ UNCHANGED recv

(* checkpoint, and a chunk is written, or nothing is left to be.           *)
SendChunk ==
    /\ send = "sending" /\ "sender" \notin paused \cup stopped
    /\ IF unsent > 0
       THEN SendStep("sending") /\ unsent' = unsent - 1 /\ air' = air + 1
       ELSE SendStep("ok") /\ UNCHANGED <<unsent, air>>
    /\ UNCHANGED recv

SendStops ==
    /\ send = "sending"
    /\ \/ "sender" \in stopped /\ SendStep("cancelled")
       \/ recv \notin {"none", "open"} /\ SendStep("retryable")
    /\ UNCHANGED <<unsent, air, recv>>

(* No connection, a broken one, or a source that cannot be read.           *)
SendTrouble ==
    /\ send \in {"none", "sending"} /\ pc.sender \in {"register", "loop"}
    /\ troubles < MaxTroubles /\ troubles' = troubles + 1
    /\ \E outcome \in {"retryable", "fatal"} : send' = outcome
    /\ recv' = IF send = "none" THEN "left" ELSE recv
    /\ UNCHANGED <<record, task, flags, network, signal, unsent, air, left, joined, asked, commands>>

(* The context is there from before the decision until the control handler *)
(* ends.                                                                   *)
Accept ==
    /\ recv = "none" /\ send # "none" /\ unsent + air + left > 0
    /\ recv' = IF Gone("receiver") THEN "fatal" ELSE "open"
    /\ UNCHANGED <<record, task, flags, network, signal, unsent, air, left, send, joined, environment>>

(* Two checkpoints, a verified chunk, and the count.                       *)
TakeChunk ==
    /\ recv = "open" /\ air > 0
    /\ "receiver" \notin paused /\ ~Flagged("receiver")
    /\ air' = air - 1 /\ left' = left - 1
    /\ signal' = (signal \/ (left = 1 /\ pc.receiver = "wait"))
    /\ UNCHANGED <<record, task, flags, network, unsent, send, recv, joined, environment>>

(* ChannelGuard.                                                           *)
Leave(place) ==
    /\ recv' = place
    /\ signal' = (signal \/ pc.receiver = "wait")
    /\ UNCHANGED <<record, task, flags, network, unsent, left, send, joined>>

(* A checkpoint of a cancelled control, a record found cancelled when      *)
(* something is read, the end of the stream, or its middle.                *)
ChannelEnds ==
    /\ recv = "open"
    /\ \/ Flagged("receiver") /\ Leave("cancelled") /\ UNCHANGED air
       \/ /\ ~Flagged("receiver") /\ "receiver" \notin paused /\ send # "sending"
          /\ air = 0 \/ send # "ok"
          /\ air' = 0
          /\ Leave("left") \/ (send # "ok" /\ Leave("retryable"))
    /\ UNCHANGED environment

ChannelTrouble ==
    /\ recv = "open" /\ troubles < MaxTroubles /\ troubles' = troubles + 1
    /\ \E outcome \in {"retryable", "fatal"} : Leave(outcome)
    /\ UNCHANGED <<air, asked, commands>>

(* accept_loop settles the record for a data connection as well.           *)
SettleChannel ==
    /\ recv \in Outcome
    /\ SetRecord("receiver", AfterOutcome(record.receiver, recv))
    /\ recv' = "left"
    /\ UNCHANGED <<task, flags, network, signal, unsent, air, left, send, joined, environment>>

SideStep(s) ==
    \/ Begin(s) \/ Register(s) \/ Forward(s) \/ ReadLength(s) \/ ReadBody(s)
    \/ ReadFails(s) \/ Settle(s)
SenderStep == DataCompleted \/ DataFailed \/ Confirm
ReceiverStep == Check \/ Arm \/ Woken \/ GraceOver \/ Verify \/ Finalize \/ Report
DataStep ==
    \/ Connect \/ SendChunk \/ SendStops \/ Accept \/ TakeChunk \/ ChannelEnds
    \/ SettleChannel

Program == (\E s \in Side : SideStep(s)) \/ SenderStep \/ ReceiverStep \/ DataStep

Next ==
    \/ Program
    \/ GraceCancel
    \/ FinalizeFails \/ SendTrouble \/ ChannelTrouble
    \/ \E s \in Side : Breaks(s) \/ Quit(s) \/ \E command \in Commands : Command(s, command)

Spec == Init /\ [][Next]_vars

(* Tokio polls some task that can go on and the network delivers what was  *)
(* written to a connection that does not break.  No step of the program    *)
(* can be repeated for ever, so that this serves every task.  The users    *)
(* need not do anything.                                                   *)
FairSpec == Spec /\ WF_vars(Program)

-----------------------------------------------------------------------------
(* Properties.                                                             *)

Over == Gone("sender") /\ Gone("receiver")

Quiet == \A s \in Side : pc[s] = "ended"

(* A sender that shows Completed speaks of a receiver that has every chunk *)
(* and shows Completed too, whatever crosses on the wire and whichever     *)
(* process ends.                                                           *)
CompletedTogether ==
    record.sender = "Completed" => record.receiver = "Completed" /\ left = 0

(* The record a user sees and the flag the channels obey agree while the   *)
(* task runs: a transfer shown as Paused is held, and one shown as         *)
(* Transferring is not held by its own device, over commands of both users *)
(* that cross.                                                             *)
ShownAsHeld ==
    \A s \in Side : ~Gone(s) =>
        /\ record[s] = "Paused" => s \in paused
        /\ record[s] = "Transferring" => s \notin paused

(* No interruption, failure or race turns into a cancellation, after which *)
(* the receiver deletes what it has: someone has cancelled.                *)
CancelledOnRequest == asked = {} => \A s \in Side : record[s] # "Cancelled"

(* An outcome the user has been shown is not replaced: late tasks, data    *)
(* handlers and messages of the other side respect a terminal record.      *)
OutcomeStands ==
    [][\A s \in Side : record[s] \in Terminal => record'[s] = record[s]]_vars

(* notify_waiters came before the wait began (IncomingTransfer has the     *)
(* details): nothing but a message takes the receiver out of it.           *)
WakeMissed ==
    /\ pc.receiver = "wait" /\ ~signal
    /\ left = 0 \/ recv \in {"left"} \cup Outcome

(* No two peers wait for each other: unless someone keeps it paused, an    *)
(* attempt ends on both sides, over lost messages, half-read frames and    *)
(* processes that quit; the missed wake-up is the only exception.          *)
BothEnd == <>[](paused = {}) => <>(Over \/ WakeMissed)

(* A cancel that can be forwarded ends both tasks, paused or not, whatever *)
(* it crosses; one given before register_channel only sets a flag.         *)
CancelEndsBoth ==
    \A s \in Side :
        (~Gone(s) /\ \E i \in DOMAIN outbox[s] : outbox[s][i] = "Cancel") ~> Over

=============================================================================
