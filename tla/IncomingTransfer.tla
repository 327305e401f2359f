-------------------------- MODULE IncomingTransfer --------------------------
(***************************************************************************)
(* The receiving side of one transfer id: its record, the completed_chunks *)
(* table, the .part files and the delivered files, one control handler per *)
(* attempt of the sender (lan.rs) and the data handlers of its channels    *)
(* (incoming.rs).  Handlers of an earlier attempt may still run when a     *)
(* later one starts, the user may pause and cancel, and the process may    *)
(* crash and restart at any step.                                          *)
(*                                                                         *)
(* The sender is open: it offers again whenever it likes, sends any chunk  *)
(* on any channel, twice if it likes, and any connection may fail.  Chunk  *)
(* contents are abstract: a chunk of a file on disk is written or still    *)
(* the zeros of set_len.  A crash ends the process, not the machine: what  *)
(* was written stays written, what SQLite committed stays committed.       *)
(***************************************************************************)
EXTENDS TransferModel, Integers, FiniteSets, Sequences

CONSTANTS
    Files,          \* files of the manifest
    Chunks,         \* chunks of each file
    Channels,       \* data connections the sender may have open at a time
    MaxAttempts,    \* bound: offers of this transfer
    MaxCrashes,     \* bound: crashes of the receiving process
    Commands,       \* commands the user gives on the transfer, Cancel aside
    MayCancel,      \* whether the user or the sender ever cancels
    MayLosePart,    \* whether someone else may remove a .part file
    MayFail         \* whether deletions and the save of a Cancel may fail

ASSUME IncomingTransferAssumption ==
    /\ IsFiniteSet(Files) /\ IsFiniteSet(Chunks) /\ IsFiniteSet(Channels)
    /\ Chunks # {}
    /\ MaxAttempts \in Nat /\ MaxCrashes \in Nat
    /\ Commands \subseteq TransferCommand \ {"Cancel"}
    /\ {MayCancel, MayLosePart, MayFail} \subseteq BOOLEAN
    /\ MayFail => MaxCrashes = 0   \* the row of an unsaved record is not followed

Attempts == 1..MaxAttempts

Pieces == Files \X Chunks

VARIABLES
    record,     \* the record of the transfer, saved with every change
    rows,       \* table completed_chunks
    listed,     \* files with a row in table transfer_items
    disk,       \* chunks written in each inode of a file; attempt a creates inode a
    temp,       \* the inode at the path of the .part file, 0 when there is none
    copies,     \* the inodes renamed to a final path, in order
    pc,         \* where the control handler of each attempt is
    ready,      \* files whose resume map prepare_incoming has read
    target,     \* IncomingFile.target: the inode each attempt writes to
    resume,     \* IncomingFile.resume of all files
    remaining,  \* IncomingContext.remaining_chunks
    renamed,    \* files finalize_incoming is done with
    signal,     \* attempts whose wait on `completed` was notified
    cancelled,  \* attempts whose JobControl is cancelled
    queued,     \* attempts with a Cancel in control_rx
    current,    \* NetworkState.incoming: the attempt new channels join, or 0
    registered, \* CoreState.incoming_controls: the attempt commands reach, or 0
    cpc,        \* where the data handler of each channel is
    joined,     \* the attempt whose context a data handler holds
    piece,      \* the chunk it is working on
    user,       \* the cancel command of the user, while it deletes files
    keptParts,  \* history: the .part files the last clean-up failed to delete
    keptRows,   \* history: whether it left the rows
    crashes

stored == <<record, rows, listed, disk, temp, copies>>
memory == <<ready, target, resume, remaining, renamed, signal>>
handler == <<pc, memory>>
controls == <<cancelled, queued, current, registered>>
channel == <<cpc, joined, piece>>
kept == <<keptParts, keptRows>>
vars == <<stored, handler, controls, channel, user, kept, crashes>>

NoPiece == <<>>

(* Places of handle_incoming_control, in program order; "files" and "rows" *)
(* are delete_partial_data in accept_loop's wrapper.                       *)
WithContext == {"greet", "check", "arm", "wait", "grace", "verify", "finalize",
                "remove", "finish"}
Cleaning == {"files", "rows"}
HandlerLocation ==
    {"unborn", "done", "answer", "prepare"} \cup WithContext \cup Outcome \cup Cleaning

(* Places of handle_incoming_data while its ChannelGuard is alive.         *)
InChannel == {"read", "write", "mark", "count"}
ChannelLocation == {"idle"} \cup InChannel \cup Outcome \cup Cleaning

StoredTypeOK ==
    /\ record \in TransferState \cup {"none"}
    /\ rows \subseteq Pieces
    /\ listed \subseteq Files
    /\ disk \in [Files -> [Attempts -> SUBSET Chunks]]
    /\ temp \in [Files -> 0..MaxAttempts]
    /\ copies \in [Files -> Seq(Attempts)]

HandlerTypeOK ==
    /\ pc \in [Attempts -> HandlerLocation]
    /\ ready \in [Attempts -> SUBSET Files]
    /\ target \in [Attempts -> [Files -> 0..MaxAttempts]]
    /\ resume \in [Attempts -> SUBSET Pieces]
    /\ renamed \in [Attempts -> SUBSET Files]
    /\ signal \subseteq Attempts

ControlTypeOK ==
    /\ cancelled \subseteq Attempts
    /\ queued \subseteq Attempts
    /\ current \in 0..MaxAttempts
    /\ registered \in 0..MaxAttempts
    /\ user \in {"idle"} \cup Cleaning
    /\ crashes \in 0..MaxCrashes

ChannelTypeOK ==
    /\ cpc \in [Channels -> ChannelLocation]
    /\ joined \in [Channels -> 0..MaxAttempts]
    /\ piece \in [Channels -> Pieces \cup {NoPiece}]

(* remaining_chunks is an AtomicU64 that must not wrap.                    *)
TypeOK ==
    /\ StoredTypeOK /\ HandlerTypeOK /\ ControlTypeOK /\ ChannelTypeOK
    /\ remaining \in [Attempts -> Nat]
    /\ keptParts \subseteq Files /\ keptRows \in BOOLEAN

(* The memory of a process that has just started.                          *)
None == [a \in Attempts |-> {}]
NoTarget == [a \in Attempts |-> [f \in Files |-> 0]]
NoCount == [a \in Attempts |-> 0]
AllIdle == [c \in Channels |-> "idle"]
NotJoined == [c \in Channels |-> 0]
Nothing == [c \in Channels |-> NoPiece]

Init ==
    /\ record = "none"
    /\ rows = {}
    /\ listed = {}
    /\ disk = [f \in Files |-> [i \in Attempts |-> {}]]
    /\ temp = [f \in Files |-> 0]
    /\ copies = [f \in Files |-> <<>>]
    /\ pc = [a \in Attempts |-> "unborn"]
    /\ ready = None /\ target = NoTarget /\ resume = None
    /\ remaining = NoCount /\ renamed = None /\ signal = {}
    /\ cancelled = {} /\ queued = {} /\ current = 0 /\ registered = 0
    /\ cpc = AllIdle /\ joined = NotJoined /\ piece = Nothing /\ user = "idle"
    /\ keptParts = {} /\ keptRows = FALSE
    /\ crashes = 0

-----------------------------------------------------------------------------
(* The control handler.                                                    *)

Flagged(a) == a \in cancelled \/ record = "Cancelled"

Goto(a, location) == pc' = [pc EXCEPT ![a] = location]

(* What prepare_incoming and finalize_incoming keep count of ends with them.*)
DropLocals(a) ==
    /\ ready' = [ready EXCEPT ![a] = {}]
    /\ renamed' = [renamed EXCEPT ![a] = {}]

(* handle_incoming_control returns; the guard of its context unregisters   *)
(* whatever control is registered, and its own context.                    *)
Return(a, outcome) ==
    /\ Goto(a, outcome)
    /\ signal' = signal \ {a}
    /\ IF pc[a] \in WithContext
       THEN /\ registered' = 0
            /\ current' = IF current = a THEN 0 ELSE current
       ELSE UNCHANGED <<registered, current>>
    /\ DropLocals(a)
    /\ UNCHANGED <<target, resume, remaining, cancelled, queued>>

(* transition_transfer, or the fatal error of an illegal transition.       *)
Advance(a, next, location) ==
    \/ /\ CanTransition(record, next)
       /\ record' = next
       /\ Goto(a, location)
       /\ UNCHANGED <<memory, controls>>
    \/ /\ ~CanTransition(record, next)
       /\ Return(a, "fatal")
       /\ UNCHANGED record

(* An offer: a fresh record replaces whatever is known of the transfer.    *)
Offer(a) ==
    /\ pc[a] = "unborn"
    /\ \A b \in Attempts : b < a => pc[b] # "unborn"
    /\ record' = "WaitingForAcceptance"
    /\ Goto(a, "answer")
    /\ UNCHANGED <<rows, listed, disk, temp, copies>>
    /\ UNCHANGED <<memory, controls, channel, user, kept>>

(* A control connection that fails before its offer settles the record of  *)
(* the earlier ones all the same.                                          *)
OfferFails(a) ==
    /\ pc[a] = "unborn"
    /\ \A b \in Attempts : b < a => pc[b] # "unborn"
    /\ record # "none"
    /\ \E outcome \in {"retryable", "fatal"} : Goto(a, outcome)
    /\ UNCHANGED <<stored, memory, controls, channel, user, kept>>

(* The user's answer, or the trusted peer's, or none at all.               *)
Answer(a) ==
    /\ pc[a] = "answer"
    /\ \/ Goto(a, "prepare") /\ UNCHANGED record
       \/ record' = AfterOutcome(record, "fatal") /\ Goto(a, "done")
    /\ UNCHANGED <<rows, listed, disk, temp, copies>>
    /\ UNCHANGED <<memory, controls, channel, user, kept>>

(* Mutant: the .part file is opened with truncate(true). *)
OpenPartTruncates(a, f) ==
    /\ pc[a] = "prepare"
    /\ target[a][f] = 0
    /\ \A g \in Files : target[a][g] # 0 => g \in ready[a]
    /\ temp' = [temp EXCEPT ![f] = IF @ = 0 THEN a ELSE @]
    /\ target' = [target EXCEPT ![a][f] = temp'[f]]
    /\ disk' = [disk EXCEPT ![f][temp'[f]] = {}]
    /\ UNCHANGED <<record, rows, listed, copies>>
    /\ UNCHANGED <<pc, ready, resume, remaining, renamed, signal, controls, channel, user, kept>>

(* prepare_incoming opens the .part file, creating it filled with zeros.   *)
OpenPart(a, f) ==
    /\ pc[a] = "prepare"
    /\ target[a][f] = 0
    /\ \A g \in Files : target[a][g] # 0 => g \in ready[a]
    /\ temp' = [temp EXCEPT ![f] = IF @ = 0 THEN a ELSE @]
    /\ target' = [target EXCEPT ![a][f] = temp'[f]]
    /\ UNCHANGED <<record, rows, listed, disk, copies>>
    /\ UNCHANGED <<pc, ready, resume, remaining, renamed, signal, controls, channel, user, kept>>

(* Mutant: the last, shorter chunk is not counted. *)
ReadResumeRoundsDown(a, f) ==
    LET known == {p \in rows : p[1] = f}
    IN  /\ pc[a] = "prepare"
        /\ target[a][f] # 0 /\ f \notin ready[a]
        /\ ready' = [ready EXCEPT ![a] = @ \cup {f}]
        /\ resume' = [resume EXCEPT ![a] = @ \cup known]
        /\ remaining' = [remaining EXCEPT ![a] = @ + Cardinality(Chunks) - 1 - Cardinality(known)]
        /\ listed' = listed \cup {f}
        /\ UNCHANGED <<record, rows, disk, temp, copies>>
        /\ UNCHANGED <<pc, target, renamed, signal, controls, channel, user, kept>>

(* It believes the rows of the table, the file it just created included,   *)
(* and saves the item.                                                     *)
ReadResume(a, f) ==
    LET known == {p \in rows : p[1] = f}
    IN  /\ pc[a] = "prepare"
        /\ target[a][f] # 0 /\ f \notin ready[a]
        /\ ready' = [ready EXCEPT ![a] = @ \cup {f}]
        /\ resume' = [resume EXCEPT ![a] = @ \cup known]
        /\ remaining' = [remaining EXCEPT ![a] = @ + Cardinality(Chunks) - Cardinality(known)]
        /\ listed' = listed \cup {f}
        /\ UNCHANGED <<record, rows, disk, temp, copies>>
        /\ UNCHANGED <<pc, target, renamed, signal, controls, channel, user, kept>>

(* The context and its control become visible.                             *)
Publish(a) ==
    /\ pc[a] = "prepare"
    /\ ready[a] = Files
    /\ current' = a
    /\ registered' = a
    /\ Goto(a, "greet")
    /\ DropLocals(a)
    /\ UNCHANGED <<stored, target, resume, remaining, signal>>
    /\ UNCHANGED <<cancelled, queued, channel, user, kept>>

(* Decision and resume state sent; Transferring; nothing left to receive   *)
(* skips the loop.                                                         *)
Start(a) ==
    /\ pc[a] = "greet"
    /\ Advance(a, "Transferring", IF remaining[a] = 0 THEN "verify" ELSE "check")
    /\ UNCHANGED <<rows, listed, disk, temp, copies, channel, user, kept>>

(* The head of the loop.                                                   *)
Check(a) ==
    /\ pc[a] = "check"
    /\ \/ /\ remaining[a] = 0
          /\ Goto(a, "verify")
          /\ UNCHANGED <<memory, controls>>
       \/ remaining[a] # 0 /\ Flagged(a) /\ Return(a, "cancelled")
       \/ /\ remaining[a] # 0 /\ ~Flagged(a)
          /\ record \in {"Failed", "Interrupted"}
          /\ Return(a, "fatal")
       \/ /\ remaining[a] # 0 /\ ~Flagged(a)
          /\ record \notin {"Failed", "Interrupted"}
          /\ Goto(a, "arm")
          /\ UNCHANGED <<memory, controls>>
    /\ UNCHANGED <<stored, channel, user, kept>>

(* select! creates the Notified future: a notify_waiters before this is    *)
(* lost.                                                                   *)
Arm(a) ==
    /\ pc[a] = "arm"
    /\ Goto(a, "wait")
    /\ UNCHANGED <<stored, ready, target, resume, remaining, renamed, signal, controls, channel, user, kept>>

(* `completed` was notified.                                               *)
Woken(a) ==
    /\ pc[a] = "wait" /\ a \in signal
    /\ \/ /\ remaining[a] # 0 /\ Flagged(a)
          /\ Return(a, "cancelled")
       \/ /\ remaining[a] = 0 \/ ~Flagged(a)
          /\ signal' = signal \ {a}
          /\ Goto(a, IF remaining[a] = 0 THEN "verify"
                     ELSE IF \E c \in Channels : joined[c] = a /\ cpc[c] \in InChannel
                     THEN "check" ELSE "grace")
          /\ UNCHANGED <<ready, target, resume, remaining, renamed, controls>>
    /\ UNCHANGED <<stored, channel, user, kept>>

(* No channel left: 50 ms for a cancellation to arrive, then incomplete.   *)
GraceOver(a) ==
    /\ pc[a] = "grace"
    /\ Return(a, IF Flagged(a) THEN "cancelled" ELSE "retryable")
    /\ UNCHANGED <<stored, channel, user, kept>>

(* The sender cancels: cancel_from_remote.                                 *)
RemoteCancel(a) ==
    /\ MayCancel
    /\ pc[a] \in {"wait", "grace"}
    /\ record' = AfterRemoteCancel(record)
    /\ cancelled' = cancelled \cup ({registered} \ {0})
    /\ Goto(a, "cancelled")
    /\ signal' = signal \ {a}
    /\ registered' = 0
    /\ current' = IF current = a THEN 0 ELSE current
    /\ UNCHANGED <<rows, listed, disk, temp, copies>>
    /\ UNCHANGED <<ready, target, resume, remaining, renamed, queued, channel, user, kept>>

(* Another message of the sender, or a Pause or Resume of the user to      *)
(* forward, takes the loop round; a Pause or Resume of the sender is       *)
(* applied to the record first.                                            *)
RemoteControl(a) ==
    /\ pc[a] = "wait"
    /\ record' \in {record, AfterRemotePause(record), AfterRemoteResume(record)}
    /\ Goto(a, "check")
    /\ signal' = signal \ {a}
    /\ UNCHANGED <<rows, listed, disk, temp, copies>>
    /\ UNCHANGED <<ready, target, resume, remaining, renamed, controls, channel, user, kept>>

(* The user's Cancel, forwarded to the sender.                             *)
ForwardCancel(a) ==
    /\ pc[a] = "wait" /\ a \in queued
    /\ Return(a, "cancelled")
    /\ UNCHANGED <<stored, channel, user, kept>>

(* The control connection fails, or the local file system does.            *)
ControlFails(a) ==
    /\ \/ /\ pc[a] \in {"answer", "prepare", "greet"}
          /\ \E outcome \in {"retryable", "fatal"} : Return(a, outcome)
       \/ pc[a] = "wait" /\ Return(a, IF Flagged(a) THEN "cancelled" ELSE "retryable")
    /\ UNCHANGED <<stored, channel, user, kept>>

Verify(a) ==
    /\ pc[a] = "verify"
    /\ Advance(a, "Verifying", "finalize")
    /\ UNCHANGED <<rows, listed, disk, temp, copies, channel, user, kept>>

Complete(a, f) == {p \in resume[a] : p[1] = f} = {f} \X Chunks

(* finalize_incoming, one file after the other in no particular order; a   *)
(* target that appeared, a .part file that is gone, an incomplete map or a *)
(* failing disk end it.                                                    *)
FinalizeFile(a, f) ==
    /\ pc[a] = "finalize"
    /\ f \notin renamed[a]
    /\ \/ /\ \E outcome \in {"retryable", "fatal"} : Return(a, outcome)
          /\ UNCHANGED <<temp, copies>>
       \/ /\ Complete(a, f) /\ temp[f] # 0
          /\ copies' = [copies EXCEPT ![f] = Append(@, temp[f])]
          /\ temp' = [temp EXCEPT ![f] = 0]
          /\ renamed' = [renamed EXCEPT ![a] = @ \cup {f}]
          /\ UNCHANGED <<pc, ready, target, resume, remaining, signal, controls>>
    /\ UNCHANGED <<record, rows, listed, disk, channel, user, kept>>

(* Mutant: the loop over the files ends after the first. *)
ClearAfterAny(a) ==
    /\ pc[a] = "finalize"
    /\ renamed[a] # {}
    /\ rows' = {}
    /\ Goto(a, "remove")
    /\ UNCHANGED <<record, listed, disk, temp, copies>>
    /\ UNCHANGED <<memory, controls, channel, user, kept>>

(* All renamed: the rows of the transfer are cleared.                      *)
ClearChunks(a) ==
    /\ pc[a] = "finalize"
    /\ renamed[a] = Files
    /\ rows' = {}
    /\ Goto(a, "remove")
    /\ UNCHANGED <<record, listed, disk, temp, copies>>
    /\ UNCHANGED <<memory, controls, channel, user, kept>>

(* remove_dir_all of the directory of the .part files, whoever created     *)
(* them in the meantime; its error is ignored.                             *)
RemoveDirectory(a) ==
    /\ pc[a] = "remove"
    /\ \/ temp' = [f \in Files |-> 0]
       \/ UNCHANGED temp
    /\ Goto(a, "finish")
    /\ UNCHANGED <<record, rows, listed, disk, copies, memory, controls, channel, user, kept>>

(* Completed, the result sent or not, and the handler returns.             *)
Finish(a) ==
    /\ pc[a] = "finish"
    /\ \/ /\ CanTransition(record, "Completed")
          /\ record' = "Completed"
          /\ \E outcome \in {"done", "retryable"} : Return(a, outcome)
       \/ /\ ~CanTransition(record, "Completed")
          /\ Return(a, "fatal")
          /\ UNCHANGED record
    /\ UNCHANGED <<rows, listed, disk, temp, copies, channel, user, kept>>

-----------------------------------------------------------------------------
(* The wrapper of accept_loop, for the error of any handler.               *)

AsCancelled(outcome) == outcome = "cancelled" \/ record = "Cancelled"

(* Mutant: an interruption cleans up like a cancellation. *)
InterruptCleans(a) ==
    /\ pc[a] \in Outcome
    /\ record' = AfterOutcome(record, IF AsCancelled(pc[a]) THEN "cancelled" ELSE pc[a])
    /\ Goto(a, IF AsCancelled(pc[a]) \/ pc[a] = "retryable" THEN "files" ELSE "done")
    /\ UNCHANGED <<rows, listed, disk, temp, copies>>
    /\ UNCHANGED <<memory, controls, channel, user, kept>>

SettleControl(a) ==
    /\ pc[a] \in Outcome
    /\ record' = AfterOutcome(record, IF AsCancelled(pc[a]) THEN "cancelled" ELSE pc[a])
    /\ Goto(a, IF AsCancelled(pc[a]) THEN "files" ELSE "done")
    /\ UNCHANGED <<rows, listed, disk, temp, copies>>
    /\ UNCHANGED <<memory, controls, channel, user, kept>>

SettleChannel(c) ==
    /\ cpc[c] \in Outcome
    /\ record' = AfterOutcome(record, IF AsCancelled(cpc[c]) THEN "cancelled" ELSE cpc[c])
    /\ cpc' = [cpc EXCEPT ![c] = IF AsCancelled(cpc[c]) THEN "files" ELSE "idle"]
    /\ UNCHANGED <<rows, listed, disk, temp, copies, handler, controls, joined, piece, user, kept>>

(* delete_partial_data on the items whose .part file it can remove: one    *)
(* that stays after ten tries is passed over in silence.                   *)
DeleteAllBut(rest) ==
    /\ temp' = [f \in Files |-> IF f \in listed \ rest THEN 0 ELSE temp[f]]
    /\ keptParts' = {f \in rest : temp[f] # 0}

DeleteFiles ==
    /\ \E rest \in SUBSET listed : (rest # {} => MayFail) /\ DeleteAllBut(rest)
    /\ UNCHANGED <<record, rows, listed, disk, copies, keptRows>>

(* list_items fails, or one file does on Android: the rows are not reached.*)
DeletionStops ==
    /\ MayFail
    /\ \E rest \in SUBSET listed : DeleteAllBut(rest)
    /\ keptRows' = TRUE
    /\ UNCHANGED <<record, rows, listed, disk, copies>>

(* clear_completed_chunks.                                                 *)
DeleteRows ==
    /\ \/ rows' = {} /\ keptRows' = FALSE
       \/ MayFail /\ keptRows' = TRUE /\ UNCHANGED rows
    /\ UNCHANGED <<record, listed, disk, temp, copies, keptParts>>

CleanControl(a) ==
    /\ \/ pc[a] = "files" /\ DeleteFiles /\ Goto(a, "rows")
       \/ pc[a] = "files" /\ DeletionStops /\ Goto(a, "done")
       \/ pc[a] = "rows" /\ DeleteRows /\ Goto(a, "done")
    /\ UNCHANGED <<memory, controls, channel, user>>

(* Mutant: a data handler leaves the rows behind. *)
CleanChannelFilesOnly(c) ==
    /\ cpc[c] = "files" /\ DeleteFiles /\ cpc' = [cpc EXCEPT ![c] = "idle"]
    /\ UNCHANGED <<handler, controls, joined, piece, user>>

CleanChannel(c) ==
    /\ \/ cpc[c] = "files" /\ DeleteFiles /\ cpc' = [cpc EXCEPT ![c] = "rows"]
       \/ cpc[c] = "files" /\ DeletionStops /\ cpc' = [cpc EXCEPT ![c] = "idle"]
       \/ cpc[c] = "rows" /\ DeleteRows /\ cpc' = [cpc EXCEPT ![c] = "idle"]
    /\ UNCHANGED <<handler, controls, joined, piece, user>>

-----------------------------------------------------------------------------
(* The data handlers.                                                      *)

(* notify_waiters only reaches a handler that waits.                       *)
Notified(a) == signal \cup (IF a # 0 /\ pc[a] = "wait" THEN {a} ELSE {})

(* A handler holds a chunk while it works on it and its context until it   *)
(* returns.                                                                *)
Goes(c, location) ==
    /\ cpc' = [cpc EXCEPT ![c] = location]
    /\ piece' = IF location \in {"mark", "count"} THEN piece ELSE [piece EXCEPT ![c] = NoPiece]
    /\ joined' = IF location \in InChannel THEN joined ELSE [joined EXCEPT ![c] = 0]

(* handle_incoming_data returns and drops its ChannelGuard; the last one   *)
(* to leave notifies the control handler.                                  *)
Leave(c, location) ==
    /\ Goes(c, location)
    /\ signal' = IF \E d \in Channels \ {c} : joined[d] = joined[c] /\ cpc[d] \in InChannel
                 THEN signal ELSE Notified(joined[c])
    /\ UNCHANGED <<stored, pc, ready, target, remaining, renamed, controls, user, kept>>

(* A data connection joins the current context, whichever attempt of the   *)
(* sender it belongs to: the token is the same for all of them.            *)
OpenChannel(c) ==
    /\ cpc[c] = "idle"
    /\ record # "none"
    /\ cpc' = [cpc EXCEPT ![c] = IF current = 0 THEN "fatal" ELSE "read"]
    /\ joined' = [joined EXCEPT ![c] = current]
    /\ UNCHANGED <<stored, handler, controls, piece, user, kept>>

(* The lock of a file's resume map is held from mark_complete to the       *)
(* fetch_sub of remaining_chunks.                                          *)
Locked(a, f) == \E d \in Channels : joined[d] = a /\ cpc[d] = "count" /\ piece[d][1] = f

(* A chunk arrives and its hash is right; one that the map already has is  *)
(* dropped.                                                                *)
Receive(c, p) ==
    /\ cpc[c] = "read"
    /\ ~Locked(joined[c], p[1])
    /\ ~Flagged(joined[c])
    /\ p \notin resume[joined[c]]
    /\ piece' = [piece EXCEPT ![c] = p]
    /\ cpc' = [cpc EXCEPT ![c] = "write"]
    /\ UNCHANGED <<stored, handler, controls, joined, user, kept>>

(* write_verified_chunk, into the inode this context opened.               *)
WriteChunk(c) ==
    LET f == piece[c][1]
        inode == target[joined[c]][f]
    IN  /\ cpc[c] = "write"
        /\ disk' = [disk EXCEPT ![f][inode] = @ \cup {piece[c][2]}]
        /\ cpc' = [cpc EXCEPT ![c] = "mark"]
        /\ UNCHANGED <<record, rows, listed, temp, copies, handler, controls, joined, piece, user, kept>>

(* Mutant: the row is inserted without asking whether the chunk was new. *)
MarkAlways(c) ==
    /\ cpc[c] = "mark"
    /\ ~Locked(joined[c], piece[c][1])
    /\ resume' = [resume EXCEPT ![joined[c]] = @ \cup {piece[c]}]
    /\ rows' = rows \cup {piece[c]}
    /\ Goes(c, "count")
    /\ UNCHANGED <<record, listed, disk, temp, copies, pc, ready, target, remaining, renamed, signal>>
    /\ UNCHANGED <<controls, user, kept>>

(* mark_complete and mark_chunk_complete, under the lock of the map; a     *)
(* chunk another channel has marked in the meantime counts once.           *)
MarkChunk(c) ==
    /\ cpc[c] = "mark"
    /\ ~Locked(joined[c], piece[c][1])
    /\ \/ /\ piece[c] \notin resume[joined[c]]
          /\ resume' = [resume EXCEPT ![joined[c]] = @ \cup {piece[c]}]
          /\ rows' = rows \cup {piece[c]}
          /\ Goes(c, "count")
       \/ /\ piece[c] \in resume[joined[c]]
          /\ Goes(c, "read")
          /\ UNCHANGED <<resume, rows>>
    /\ UNCHANGED <<record, listed, disk, temp, copies, pc, ready, target, remaining, renamed, signal>>
    /\ UNCHANGED <<controls, user, kept>>

(* remaining_chunks.fetch_sub; the last one notifies.                      *)
CountChunk(c) ==
    /\ cpc[c] = "count"
    /\ remaining' = [remaining EXCEPT ![joined[c]] = @ - 1]
    /\ signal' = IF remaining[joined[c]] = 1 THEN Notified(joined[c]) ELSE signal
    /\ Goes(c, "read")
    /\ UNCHANGED <<stored, pc, ready, target, resume, renamed, controls, user, kept>>

(* The sender closes the channel: a cancelled handler cleans up, any other *)
(* returns Ok.                                                             *)
ChannelCloses(c) ==
    /\ cpc[c] = "read"
    /\ Leave(c, IF Flagged(joined[c]) THEN "cancelled" ELSE "idle")
    /\ UNCHANGED resume

(* The connection breaks, a chunk is refused, the disk fails, or           *)
(* update_completed_bytes cannot save the record.                          *)
ChannelFails(c) ==
    /\ \/ /\ cpc[c] = "read"
          /\ \E outcome \in IF Flagged(joined[c]) THEN {"cancelled"} ELSE {"retryable", "fatal"} :
                Leave(c, outcome)
       \/ /\ cpc[c] = "write"
          /\ \E outcome \in {"retryable", "fatal"} : Leave(c, outcome)
       \/ cpc[c] = "count" /\ Leave(c, "fatal")
    /\ UNCHANGED resume

(* mark_chunk_complete fails: the chunk stays marked in memory only.       *)
RowFails(c) ==
    /\ cpc[c] = "mark"
    /\ ~Locked(joined[c], piece[c][1])
    /\ piece[c] \notin resume[joined[c]]
    /\ resume' = [resume EXCEPT ![joined[c]] = @ \cup {piece[c]}]
    /\ Leave(c, "fatal")

-----------------------------------------------------------------------------
(* The user, other programs, and crashes.                                  *)

(* command_transfer on an incoming transfer; a Retry finds no job to spawn *)
(* and only changes the record.                                            *)
Command ==
    /\ \E command \in Commands :
          /\ record # "none"
          /\ CanTransition(record, CommandTarget[command])
          /\ record' = CommandTarget[command]
    /\ UNCHANGED <<rows, listed, disk, temp, copies, handler, controls, channel, user, kept>>

(* Cancel: the record first, then the registered control, then the files. *)
(* When the record cannot be saved the command ends there.                 *)
Cancel ==
    /\ MayCancel
    /\ user = "idle"
    /\ record # "none"
    /\ CanTransition(record, "Cancelled")
    /\ record' = "Cancelled"
    /\ \/ /\ cancelled' = cancelled \cup ({registered} \ {0})
          /\ queued' = IF registered # 0 /\ pc[registered] \in {"check", "arm", "wait"}
                       THEN queued \cup {registered} ELSE queued
          /\ user' = "files"
          /\ UNCHANGED kept
       \/ /\ MayFail
          /\ keptParts' = {f \in listed : temp[f] # 0}
          /\ keptRows' = TRUE
          /\ UNCHANGED <<cancelled, queued, user>>
    /\ UNCHANGED <<rows, listed, disk, temp, copies, handler, current, registered, channel>>

CancelCleans ==
    /\ \/ user = "files" /\ DeleteFiles /\ user' = "rows"
       \/ user = "files" /\ DeletionStops /\ user' = "idle"
       \/ user = "rows" /\ DeleteRows /\ user' = "idle"
    /\ UNCHANGED <<handler, controls, channel>>

LosePart(f) ==
    /\ MayLosePart
    /\ temp[f] # 0
    /\ temp' = [temp EXCEPT ![f] = 0]
    /\ UNCHANGED <<record, rows, listed, disk, copies, handler, controls, channel, user, kept>>

(* Files, rows and the saved record stay; every handler and every context  *)
(* is gone.                                                                *)
Crash ==
    /\ crashes < MaxCrashes
    /\ crashes' = crashes + 1
    /\ record' = IF record = "none" THEN record ELSE Restored(record)
    /\ pc' = [a \in Attempts |-> IF pc[a] = "unborn" THEN "unborn" ELSE "done"]
    /\ ready' = None /\ target' = NoTarget /\ resume' = None
    /\ remaining' = NoCount /\ renamed' = None /\ signal' = {}
    /\ cancelled' = {} /\ queued' = {} /\ current' = 0 /\ registered' = 0
    /\ cpc' = AllIdle /\ joined' = NotJoined /\ piece' = Nothing /\ user' = "idle"
    /\ UNCHANGED <<rows, listed, disk, temp, copies, kept>>

ControlStep(a) ==
    \/ Offer(a) \/ OfferFails(a) \/ Answer(a) \/ Publish(a) \/ Start(a) \/ Check(a) \/ Arm(a) \/ Woken(a)
    \/ GraceOver(a) \/ RemoteCancel(a) \/ RemoteControl(a) \/ ForwardCancel(a)
    \/ ControlFails(a) \/ Verify(a) \/ ClearChunks(a) \/ RemoveDirectory(a) \/ Finish(a)
    \/ SettleControl(a) \/ CleanControl(a)
    \/ \E f \in Files : OpenPart(a, f) \/ ReadResume(a, f) \/ FinalizeFile(a, f)

ChannelStep(c) ==
    \/ OpenChannel(c) \/ WriteChunk(c) \/ MarkChunk(c) \/ CountChunk(c)
    \/ ChannelCloses(c) \/ ChannelFails(c) \/ RowFails(c) \/ SettleChannel(c) \/ CleanChannel(c)
    \/ \E p \in Pieces : Receive(c, p)

Next ==
    \/ /\ \/ \E a \in Attempts : ControlStep(a)
          \/ \E c \in Channels : ChannelStep(c)
          \/ Command \/ Cancel \/ CancelCleans
          \/ \E f \in Files : LosePart(f)
       /\ UNCHANGED crashes
    \/ Crash

Spec == Init /\ [][Next]_vars

-----------------------------------------------------------------------------
(* Properties.                                                             *)

Intact(f, inode) == disk[f][inode] = Chunks

(* Whatever attempt delivers a file first delivers all of it, over late    *)
(* handlers of earlier attempts, failed finalizations and crashes: no      *)
(* chunk is taken for received on the word of a row whose data is gone.    *)
FirstDeliveryIntact == \A f \in Files : copies[f] # <<>> => Intact(f, copies[f][1])

(* Every file that reaches its final path is complete ("only after all     *)
(* chunks are verified is it renamed").                                    *)
EveryCopyIntact ==
    \A f \in Files : \A i \in 1..Len(copies[f]) : Intact(f, copies[f][i])

(* remaining_chunks never runs ahead of the resume maps, whatever the      *)
(* channels interleave and the sender repeats: when it is 0 nothing is     *)
(* missing.                                                                *)
RemainingCoversMissing ==
    \A a \in Attempts :
        pc[a] \in WithContext =>
            remaining[a] >= Cardinality(Pieces \ resume[a])
                            + Cardinality({c \in Channels : joined[c] = a /\ cpc[c] = "count"})

(* A transfer shown as completed has delivered every file.                 *)
CompletedDelivered ==
    record = "Completed" => \A f \in Files : copies[f] # <<>>

(* Rows are only dropped when every file was delivered or the transfer was *)
(* cancelled: an interruption, a failure or a crash loses no progress.     *)
ProgressSurvives ==
    [][rows \subseteq rows' \/ record = "Cancelled" \/ \A f \in Files : copies[f] # <<>>]_vars

Quiet ==
    /\ \A a \in Attempts : pc[a] \in {"unborn", "done"}
    /\ \A c \in Channels : cpc[c] = "idle"
    /\ user = "idle"

(* A cancelled transfer leaves no row and no .part file of a saved item    *)
(* behind once its handlers are gone, whoever cancelled and whatever was   *)
(* being written, other than what the last clean-up failed to delete.      *)
CancelledForgets ==
    Quiet /\ record = "Cancelled" =>
        /\ rows = {} \/ keptRows
        /\ \A f \in listed \ keptParts : temp[f] = 0

=============================================================================
