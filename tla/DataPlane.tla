----------------------------- MODULE DataPlane ------------------------------
(***************************************************************************)
(* Both ends of the data plane of one transfer: run_outgoing's stream with *)
(* the queue its data channels share (outgoing.rs), the data connections,  *)
(* and the handlers of the receiver with the loop that waits for them      *)
(* (incoming.rs, lan.rs).  An attempt breaks when a source, a connection   *)
(* or one end fails, and a retry sends what the resume map lacks.          *)
(*                                                                         *)
(* One file: the queue of several is their concatenation.  A chunk is its  *)
(* index, its content the index of the part of the source it was read      *)
(* from, so that a chunk is right when the two agree: hashes are computed  *)
(* by the sender from what it read and tell nothing about this.  Handlers  *)
(* of a broken attempt, and the channels it aborts, end before the next    *)
(* one begins; how late handlers meet it otherwise is in IncomingTransfer. *)
(***************************************************************************)
EXTENDS Integers, FiniteSets, Sequences

CONSTANTS
    Size,           \* number of chunks of the file
    MaxChannels,    \* MAX_DATA_CHANNELS
    Kinds,          \* which ends may be without random access, a set of sets
    Buffer,         \* bound: chunks a connection holds that nobody has read
    MaxAttempts,    \* bound: attempts
    MaxTroubles     \* bound: pauses, and failures of the network, a source or a process

End == {"source", "target"}
Side == {"sender", "receiver"}

ASSUME DataPlaneAssumption ==
    /\ Size \in Nat /\ MaxChannels \in Nat \ {0} /\ Buffer \in Nat \ {0}
    /\ Kinds \subseteq SUBSET End
    /\ MaxAttempts \in Nat \ {0} /\ MaxTroubles \in Nat

Chunks == 1..Size
Channels == 1..MaxChannels

VARIABLES
    sequential, \* ends without random access
    cursor,     \* how far the sender has read a sequential source
    queue,      \* shared_jobs
    spc,        \* where send_data_channel is, for each channel
    hold,       \* the chunk it is about to write
    ahead,      \* the chunk it prefetches
    sent,       \* completed_bytes of the sender, in chunks
    task,       \* run_outgoing: "streaming", "completed" or "failed"
    link,       \* chunks on their way on each connection
    cut,        \* each connection: "open", "shut" after tls.shutdown, or "cut"
    rpc,        \* where handle_incoming_data is, for each channel
    got,        \* the chunk it is working on
    file,       \* content of each chunk of the .part file, 0 when not written
    position,   \* how far a sequential target has been written
    marked,     \* chunks in the resume map and in completed_chunks
    handler,    \* where the loop of handle_incoming_control is
    signal,     \* its wait on `completed` was notified
    spoiled,    \* a data handler has interrupted the record
    paused,     \* sides whose JobControl is paused
    nap,        \* where each channel of each side is in checkpoint
    attempt, troubles

source == <<sequential, cursor>>
sending == <<queue, spc, hold, ahead, sent>>
wire == <<link, cut>>
data == <<rpc, got>>
stored == <<file, position, marked>>
waiting == <<handler, signal, spoiled>>
control == <<paused, nap>>
bounds == <<attempt, troubles>>
vars == <<source, sending, task, wire, data, stored, waiting, control, bounds>>

(* A chunk in a task: its index and what was read for it, 0 before.        *)
None == <<0, 0>>
Job == {None} \cup (Chunks \X (0..Size))

Inside == {"gate", "read", "header", "write"}

Missing == Chunks \ marked

TypeOK ==
    /\ sequential \in Kinds /\ cursor \in 0..Size
    /\ queue \in Seq(Chunks)
    /\ spc \in [Channels -> {"off", "connect", "gate", "peek", "send", "count", "done", "failed"}]
    /\ hold \in [Channels -> Job] /\ ahead \in [Channels -> Job]
    /\ sent \in 0..Size
    /\ task \in {"streaming", "completed", "failed"}
    /\ link \in [Channels -> Seq(Job)]
    /\ cut \in [Channels -> {"open", "shut", "cut"}]
    /\ rpc \in [Channels -> Inside \cup {"none", "broken", "left"}]
    /\ got \in [Channels -> Job]
    /\ file \in [Chunks -> 0..Size] /\ position \in 0..Size /\ marked \subseteq Chunks
    /\ handler \in {"check", "arm", "wait", "grace", "done", "failed"}
    /\ {signal, spoiled} \subseteq BOOLEAN
    /\ paused \subseteq Side
    /\ nap \in [Side \X Channels -> {"awake", "arming", "asleep"}]
    /\ attempt \in 1..MaxAttempts /\ troubles \in 0..MaxTroubles

(* missing_chunks: in the order of the file.                               *)
InOrder(S) ==
    LET upTo[k \in 0..Size] ==
            IF k = 0 THEN <<>> ELSE IF k \in S THEN Append(upTo[k - 1], k) ELSE upTo[k - 1]
    IN  upTo[Size]

Least(m, n) == IF m < n THEN m ELSE n

(* Mutant: every target gets all channels. *)
ChannelsForAll(n) == Least(n, MaxChannels)

(* The channels of an attempt with n chunks to send: the receiver and the  *)
(* sender each allow one only when their end has no random access.         *)
ChannelCount(n) ==
    Least(n, IF sequential = {} THEN MaxChannels ELSE 1)

(* Mutant: a retry adds to what was shown before. *)
ProgressKept(S) == sent

(* set_completed_bytes: what the receiver has already.                     *)
Progress(S) == Size - Cardinality(S)

(* build_chunk_jobs, set_completed_bytes and the spawn of the channels.    *)
Launch(S) ==
    /\ queue' = InOrder(S)
    /\ sent' = Progress(S)
    /\ spc' = [c \in Channels |-> IF c <= ChannelCount(Cardinality(S)) THEN "connect" ELSE "off"]
    /\ hold' = [c \in Channels |-> None]
    /\ ahead' = [c \in Channels |-> None]
    /\ link' = [c \in Channels |-> <<>>]
    /\ cut' = [c \in Channels |-> "open"]
    /\ rpc' = [c \in Channels |-> "none"]
    /\ got' = [c \in Channels |-> None]
    /\ task' = "streaming"
    /\ handler' = "check" /\ signal' = FALSE /\ spoiled' = FALSE
    /\ paused' = {}
    /\ nap' = [n \in Side \X Channels |-> "awake"]

Init ==
    /\ sequential \in Kinds /\ cursor = 0
    /\ queue = InOrder(Chunks)
    /\ sent = 0
    /\ spc = [c \in Channels |-> IF c <= ChannelCount(Size) THEN "connect" ELSE "off"]
    /\ hold = [c \in Channels |-> None] /\ ahead = [c \in Channels |-> None]
    /\ link = [c \in Channels |-> <<>>] /\ cut = [c \in Channels |-> "open"]
    /\ rpc = [c \in Channels |-> "none"] /\ got = [c \in Channels |-> None]
    /\ file = [k \in Chunks |-> 0] /\ position = 0 /\ marked = {}
    /\ task = "streaming"
    /\ handler = "check" /\ signal = FALSE /\ spoiled = FALSE
    /\ paused = {} /\ nap = [n \in Side \X Channels |-> "awake"]
    /\ attempt = 1 /\ troubles = 0

-----------------------------------------------------------------------------
(* JobControl::checkpoint.                                                 *)

Move(c, place) == spc' = [spc EXCEPT ![c] = place]
MoveR(c, place) == rpc' = [rpc EXCEPT ![c] = place]

(* A checkpoint lets a channel of this side pass.                          *)
Free(side, c) == nap[<<side, c>>] = "awake" /\ side \notin paused

ReceiverPasses(c) ==
    /\ rpc[c] \in {"gate", "header"}
    /\ Free("receiver", c)
    /\ MoveR(c, IF rpc[c] = "gate" THEN "read" ELSE "write")
    /\ UNCHANGED <<source, sending, task, wire, got, stored, waiting, control, bounds>>

AtGate(side, c) ==
    IF side = "sender" THEN spc[c] = "gate" ELSE rpc[c] \in {"gate", "header"}

FindPaused(side, c) ==
    /\ AtGate(side, c) /\ nap[<<side, c>>] = "awake" /\ side \in paused
    /\ nap' = [nap EXCEPT ![<<side, c>>] = "arming"]
    /\ UNCHANGED <<source, sending, task, wire, data, stored, waiting, paused, bounds>>

(* changed.notified() exists from here on: a resume before this wakes      *)
(* nobody.                                                                 *)
FallAsleep(side, c) ==
    /\ nap[<<side, c>>] = "arming"
    /\ nap' = [nap EXCEPT ![<<side, c>>] = "asleep"]
    /\ UNCHANGED <<source, sending, task, wire, data, stored, waiting, paused, bounds>>

(* By the user of this side or, forwarded, of the other one.               *)
Pause(side) ==
    /\ side \notin paused /\ troubles < MaxTroubles /\ task = "streaming"
    /\ paused' = paused \cup {side}
    /\ troubles' = troubles + 1
    /\ UNCHANGED <<source, sending, task, wire, data, stored, waiting, nap, attempt>>

(* notify_waiters.                                                         *)
Resume(side) ==
    /\ side \in paused
    /\ paused' = paused \ {side}
    /\ nap' = [n \in DOMAIN nap |->
                 IF n[1] = side /\ nap[n] = "asleep" THEN "awake" ELSE nap[n]]
    /\ UNCHANGED <<source, sending, task, wire, data, stored, waiting, bounds>>

-----------------------------------------------------------------------------
(* send_data_channel.                                                      *)

(* What is read for chunk k: a sequential source ignores the offset.       *)
(* Mutant: the end of the source goes unnoticed. *)
NeverEnds == TRUE

Readable == "source" \notin sequential \/ cursor < Size
Content(k) == IF "source" \in sequential THEN cursor + 1 ELSE k
Advance == cursor' = IF "source" \in sequential THEN cursor + 1 ELSE cursor

SConnect(c) ==
    /\ spc[c] = "connect"
    /\ Move(c, "gate")
    /\ UNCHANGED <<source, queue, hold, ahead, sent, task, wire, data, stored, waiting,
                   control, bounds>>

(* Mutant: the queue is looked at before the prefetched chunk. *)
TakeAheadWhileQueued(c) ==
    /\ spc[c] = "gate" /\ Free("sender", c) /\ queue # <<>>
    /\ ahead[c] # None /\ ahead[c][2] # 0
    /\ hold' = [hold EXCEPT ![c] = ahead[c]]
    /\ ahead' = [ahead EXCEPT ![c] = None]
    /\ Move(c, "peek")
    /\ UNCHANGED <<source, queue, sent, task, wire, data, stored, waiting, control, bounds>>

(* The prefetched chunk comes first; without one, the queue.               *)
TakeAhead(c) ==
    /\ spc[c] = "gate" /\ Free("sender", c) /\ ahead[c] # None /\ ahead[c][2] # 0
    /\ hold' = [hold EXCEPT ![c] = ahead[c]]
    /\ ahead' = [ahead EXCEPT ![c] = None]
    /\ Move(c, "peek")
    /\ UNCHANGED <<source, queue, sent, task, wire, data, stored, waiting, control, bounds>>

TakeQueued(c) ==
    /\ spc[c] = "gate" /\ Free("sender", c) /\ ahead[c] = None /\ queue # <<>>
    /\ Readable
    /\ hold' = [hold EXCEPT ![c] = <<Head(queue), Content(Head(queue))>>]
    /\ queue' = Tail(queue)
    /\ Advance
    /\ Move(c, "peek")
    /\ UNCHANGED <<sequential, ahead, sent, task, wire, data, stored, waiting, control, bounds>>

(* Nothing left: tls.shutdown; the drain waits at most five seconds and    *)
(* touches nothing.                                                        *)
Shut(c) ==
    /\ spc[c] = "gate" /\ Free("sender", c) /\ ahead[c] = None /\ queue = <<>>
    /\ cut' = [cut EXCEPT ![c] = IF @ = "open" THEN "shut" ELSE @]
    /\ Move(c, "done")
    /\ UNCHANGED <<source, queue, hold, ahead, sent, task, link, data, stored, waiting,
                   control, bounds>>

(* Mutant: front() instead of pop_front(). *)
PeekLeaves(c) ==
    /\ spc[c] = "peek"
    /\ IF queue = <<>> THEN UNCHANGED ahead
       ELSE ahead' = [ahead EXCEPT ![c] =
                         <<Head(queue), IF "source" \in sequential THEN 0 ELSE Head(queue)>>]
    /\ Move(c, "send")
    /\ UNCHANGED <<source, queue, hold, sent, task, wire, data, stored, waiting, control, bounds>>

(* The next chunk is claimed before this one is written, and its read      *)
(* started; a positioned read tells nobody when it happens.                *)
Peek(c) ==
    /\ spc[c] = "peek"
    /\ IF queue = <<>> THEN UNCHANGED <<queue, ahead>>
       ELSE /\ ahead' = [ahead EXCEPT ![c] =
                         <<Head(queue), IF "source" \in sequential THEN 0 ELSE Head(queue)>>]
            /\ queue' = Tail(queue)
    /\ Move(c, "send")
    /\ UNCHANGED <<source, hold, sent, task, wire, data, stored, waiting, control, bounds>>

(* The spawned read_chunk_job; it goes on when its channel is aborted.     *)
ReadAhead(c) ==
    /\ ahead[c] # None /\ ahead[c][2] = 0
    /\ Readable
    /\ ahead' = [ahead EXCEPT ![c][2] = Content(ahead[c][1])]
    /\ Advance
    /\ UNCHANGED <<sequential, queue, spc, hold, sent, task, wire, data, stored, waiting,
                   control, bounds>>

(* write_header, write_all.                                                *)
SendChunk(c) ==
    /\ spc[c] = "send" /\ cut[c] = "open" /\ Len(link[c]) < Buffer
    /\ link' = [link EXCEPT ![c] = Append(@, hold[c])]
    /\ hold' = [hold EXCEPT ![c] = None]
    /\ Move(c, "count")
    /\ UNCHANGED <<source, queue, ahead, sent, task, cut, data, stored, waiting, control, bounds>>

(* update_completed_bytes, after which an aborted channel is gone.  When   *)
(* the record cannot be saved it has counted all the same.                 *)
CountSent(c) ==
    /\ spc[c] = "count"
    /\ sent' = Least(sent + 1, Size)
    /\ \/ /\ Move(c, IF task = "failed" THEN "failed" ELSE "gate")
          /\ UNCHANGED <<cut, troubles>>
       \/ /\ troubles < MaxTroubles /\ troubles' = troubles + 1
          /\ Move(c, "failed")
          /\ cut' = [cut EXCEPT ![c] = "cut"]
    /\ UNCHANGED <<source, queue, hold, ahead, task, link, data, stored, waiting, control, attempt>>

Fails(c) ==
    /\ Move(c, "failed")
    /\ cut' = [cut EXCEPT ![c] = "cut"]
    /\ UNCHANGED <<source, queue, hold, ahead, sent, task, link, stored, waiting, control>>

(* No connection, or a source that has changed.                            *)
ChannelFails(c) ==
    /\ spc[c] = "connect" \/ (spc[c] = "gate" /\ Free("sender", c))
    /\ troubles < MaxTroubles /\ troubles' = troubles + 1
    /\ rpc' = [rpc EXCEPT ![c] = IF spc[c] = "connect" THEN "left" ELSE @]
    /\ Fails(c)
    /\ UNCHANGED <<got, attempt>>

(* The end of a sequential source, or a broken connection.                 *)
IoFails(c) ==
    /\ \/ ~Readable /\ spc[c] = "gate" /\ Free("sender", c) /\ ahead[c][2] = 0 /\ (ahead[c] # None \/ queue # <<>>)
       \/ spc[c] = "send" /\ cut[c] = "cut"
    /\ Fails(c)
    /\ UNCHANGED <<data, bounds>>

-----------------------------------------------------------------------------
(* The stream loop of run_outgoing.                                        *)

(* It returns an error: DataTasksGuard aborts the channels, which drops    *)
(* their connections; between a write and its count there is no await at   *)
(* which a channel could be aborted.                                       *)
TaskFails ==
    /\ task = "streaming" /\ task' = "failed"
    /\ cut' = [c \in Channels |-> IF cut[c] = "open" THEN "cut" ELSE cut[c]]
    /\ spc' = [c \in Channels |-> IF spc[c] \in {"off", "done", "count"} THEN spc[c] ELSE "failed"]
    /\ UNCHANGED <<source, queue, hold, ahead, sent, link, data, stored, waiting, control>>

(* The tasks are awaited in order: an error is seen when all before it     *)
(* have ended well.                                                        *)
SeesChannelFail ==
    /\ \E c \in Channels : spc[c] = "failed" /\ \A d \in 1..(c - 1) : spc[d] = "done"
    /\ TaskFails
    /\ UNCHANGED bounds

SeesReceiverFail == handler = "failed" /\ TaskFails /\ UNCHANGED bounds

(* Shutdown, a cancel or a broken control connection.                      *)
TaskStops ==
    /\ troubles < MaxTroubles /\ troubles' = troubles + 1
    /\ TaskFails
    /\ UNCHANGED attempt

(* A good result.  Paused may not become Verifying.                        *)
ResultArrives ==
    /\ handler = "done"
    /\ \/ "sender" \in paused /\ TaskFails
       \/ /\ "sender" \notin paused /\ task = "streaming" /\ task' = "completed"
          /\ UNCHANGED <<source, sending, wire, data, stored, waiting, control>>
    /\ UNCHANGED bounds

-----------------------------------------------------------------------------
(* handle_incoming_data.                                                   *)

(* The connection is accepted some time after the sender has opened it and *)
(* perhaps written to it; its context may be gone by then.                 *)
Accept(c) ==
    /\ spc[c] \notin {"off", "connect"} /\ rpc[c] = "none"
    /\ IF handler \in {"done", "failed"}
       THEN MoveR(c, "left") /\ cut' = [cut EXCEPT ![c] = "cut"]
       ELSE MoveR(c, "gate") /\ UNCHANGED cut
    /\ UNCHANGED <<source, sending, task, link, got, stored, waiting, control, bounds>>

ReadHeader(c) ==
    /\ rpc[c] = "read" /\ link[c] # <<>>
    /\ got' = [got EXCEPT ![c] = Head(link[c])]
    /\ link' = [link EXCEPT ![c] = Tail(@)]
    /\ MoveR(c, "header")
    /\ UNCHANGED <<source, sending, task, cut, stored, waiting, control, bounds>>

(* write_verified_chunk, or write_sequential_verified_chunk, which appends;*)
(* mark_complete, mark_chunk_complete and the count; the last one notifies *)
(* a handler that waits.                                                   *)
WriteChunk(c) ==
    LET place == IF "target" \in sequential THEN position + 1 ELSE got[c][1]
    IN  /\ rpc[c] = "write" /\ place <= Size
        /\ file' = [file EXCEPT ![place] = got[c][2]]
        /\ position' = IF "target" \in sequential THEN place ELSE position
        /\ marked' = marked \cup {got[c][1]}
        /\ signal' = (signal \/ (marked' = Chunks /\ handler = "wait"))
        /\ got' = [got EXCEPT ![c] = None]
        /\ MoveR(c, "gate")
        /\ UNCHANGED <<source, sending, task, wire, handler, spoiled, control, bounds>>

Leaves(c, place) ==
    /\ MoveR(c, place)
    /\ got' = [got EXCEPT ![c] = None]
    /\ nap' = [nap EXCEPT ![<<"receiver", c>>] = "awake"]
    /\ signal' = (signal \/ (handler = "wait" /\ \A d \in Channels \ {c} : rpc[d] \notin Inside))

(* Nothing more to read: the end of the stream, or a reset between two     *)
(* chunks, is the end of the channel.                                      *)
ChannelEnds(c) ==
    /\ rpc[c] = "read"
    /\ cut[c] = "cut" \/ (cut[c] = "shut" /\ link[c] = <<>>)
    /\ link' = [link EXCEPT ![c] = <<>>]
    /\ Leaves(c, "left")
    /\ UNCHANGED <<source, sending, task, cut, stored, handler, spoiled, paused, bounds>>

(* A reset inside a chunk is an error: the guard drops, then the wrapper   *)
(* of accept_loop interrupts the record.                                   *)
ChannelBreaks(c) ==
    /\ rpc[c] = "write" /\ cut[c] = "cut"
    /\ link' = [link EXCEPT ![c] = <<>>]
    /\ Leaves(c, "broken")
    /\ UNCHANGED <<source, sending, task, cut, stored, handler, spoiled, paused, bounds>>

Settle(c) ==
    /\ rpc[c] = "broken"
    /\ spoiled' = TRUE
    /\ MoveR(c, "left")
    /\ UNCHANGED <<source, sending, task, wire, got, stored, handler, signal, control, bounds>>

-----------------------------------------------------------------------------
(* The loop of handle_incoming_control.                                    *)

(* Verifying and finalize_incoming.  Paused may not become Verifying.      *)
Verify(place) == IF "receiver" \in paused THEN "failed" ELSE place

Check ==
    /\ handler = "check"
    /\ handler' = IF Missing = {} THEN Verify("done")
                  ELSE IF spoiled THEN "failed" ELSE "arm"
    /\ UNCHANGED <<source, sending, task, wire, data, stored, signal, spoiled, control, bounds>>

Arm ==
    /\ handler = "arm" /\ handler' = "wait" /\ signal' = FALSE
    /\ UNCHANGED <<source, sending, task, wire, data, stored, spoiled, control, bounds>>

(* Mutant: any channel that ends ends the wait. *)
WokenGivesUp ==
    /\ handler = "wait" /\ signal
    /\ signal' = FALSE
    /\ handler' = IF Missing = {} THEN Verify("done")
                  ELSE IF \E c \in Channels : rpc[c] \notin Inside THEN "grace"
                  ELSE "check"
    /\ UNCHANGED <<source, sending, task, wire, data, stored, spoiled, control, bounds>>

Woken ==
    /\ handler = "wait" /\ signal
    /\ signal' = FALSE
    /\ handler' = IF Missing = {} THEN Verify("done")
                  ELSE IF \A c \in Channels : rpc[c] \notin Inside THEN "grace"
                  ELSE "check"
    /\ UNCHANGED <<source, sending, task, wire, data, stored, spoiled, control, bounds>>

(* A control message of either user takes the loop round.                  *)
Turn ==
    /\ handler = "wait" /\ troubles > 0
    /\ handler' = "check" /\ signal' = FALSE
    /\ UNCHANGED <<source, sending, task, wire, data, stored, spoiled, control, bounds>>

(* 50 ms are over, or the sender is gone.                                  *)
GiveUp ==
    /\ handler = "grace" \/ (handler = "wait" /\ task = "failed")
    /\ handler' = "failed"
    /\ UNCHANGED <<source, sending, task, wire, data, stored, signal, spoiled, control, bounds>>

-----------------------------------------------------------------------------
(* The network, and the next attempt.                                      *)

CutData(c) ==
    /\ cut[c] = "open" /\ spc[c] \notin {"off", "connect"}
    /\ troubles < MaxTroubles /\ troubles' = troubles + 1
    /\ cut' = [cut EXCEPT ![c] = "cut"]
    /\ UNCHANGED <<source, sending, task, link, data, stored, waiting, control, attempt>>

(* A retry: the source is where it was read to, or reopened after a        *)
(* restart; a sequential target starts over.                               *)
Retry ==
    /\ task = "failed" /\ handler = "failed" /\ attempt < MaxAttempts
    /\ \A c \in Channels :
          /\ rpc[c] = "left" \/ (rpc[c] = "none" /\ spc[c] \in {"off", "failed"})
          /\ spc[c] # "count"
    /\ attempt' = attempt + 1
    /\ cursor' \in {cursor, 0}
    /\ marked' = IF "target" \in sequential THEN {} ELSE marked
    /\ position' = 0
    /\ Launch(Chunks \ marked')
    /\ UNCHANGED <<sequential, file, troubles>>

SenderStep(c) ==
    \/ SConnect(c) \/ TakeAhead(c) \/ TakeQueued(c)
    \/ Shut(c) \/ Peek(c) \/ ReadAhead(c) \/ SendChunk(c) \/ CountSent(c) \/ IoFails(c)
ReceiverStep(c) ==
    \/ ReceiverPasses(c) \/ Accept(c) \/ ReadHeader(c) \/ WriteChunk(c)
    \/ ChannelEnds(c) \/ Settle(c)
NapStep(c) == \E s \in Side : FindPaused(s, c) \/ FallAsleep(s, c)
LoopStep == Check \/ Arm \/ Woken \/ GiveUp
TaskStep == SeesChannelFail \/ SeesReceiverFail \/ ResultArrives

Next ==
    \/ \E c \in Channels :
          SenderStep(c) \/ ReceiverStep(c) \/ NapStep(c) \/ ChannelFails(c)
          \/ ChannelBreaks(c) \/ CutData(c)
    \/ LoopStep \/ Turn \/ TaskStep \/ TaskStops
    \/ \E s \in Side : Pause(s) \/ Resume(s)
    \/ Retry

Spec == Init /\ [][Next]_vars

(* Tokio polls some channel that can go on.  Nothing is assumed of the     *)
(* users, who may leave a transfer paused, nor of what comes after a       *)
(* failure.                                                                *)
FairSpec ==
    /\ Spec
    /\ WF_vars(\E c \in Channels : SenderStep(c) \/ ReceiverStep(c) \/ NapStep(c))

-----------------------------------------------------------------------------
(* Properties.                                                             *)

Held(tasks) == {c \in Channels : tasks[c] # None}

(* The places a chunk can be at between the two ends, and the indices of   *)
(* the chunks at each.                                                     *)
Station == {<<"queue", 0>>} \cup ({"hold", "ahead", "link", "got"} \X Channels)

IndexOf(job) == IF job = None THEN <<>> ELSE <<job[1]>>

Way ==
    [s \in Station |->
        CASE s[1] = "queue" -> queue
          [] s[1] = "hold"  -> IndexOf(hold[s[2]])
          [] s[1] = "ahead" -> IndexOf(ahead[s[2]])
          [] s[1] = "link"  -> [i \in DOMAIN link[s[2]] |-> link[s[2]][i][1]]
          [] s[1] = "got"   -> IndexOf(got[s[2]])]

(* Where chunk k is on its way.                                            *)
At(k) == {p \in UNION {{s} \X DOMAIN Way[s] : s \in Station} : Way[p[1]][p[2]] = k}

Healthy ==
    /\ task = "streaming"
    /\ \A c \in Channels : cut[c] # "cut" /\ spc[c] # "failed" /\ rpc[c] # "broken"

(* Stealing and prefetching lose nothing and send nothing twice: as long   *)
(* as no channel has failed, each chunk the receiver lacks is at exactly   *)
(* one place on its way, and one it has is nowhere.                        *)
NothingForgotten ==
    Healthy => \A k \in Chunks : Cardinality(At(k)) = IF k \in Missing THEN 1 ELSE 0

(* Channels that have written a chunk and not counted it yet.              *)
Uncounted == {c \in Channels : spc[c] = "count"}

(* The progress the sender shows is what it has written in this attempt    *)
(* plus what the receiver had before, whatever earlier attempts had shown, *)
(* short of the chunk each channel is about to count; the result may       *)
(* overtake those, and nothing else is missing when the transfer is        *)
(* completed.                                                              *)
ProgressHonest ==
    /\ task = "streaming" =>
          sent + Cardinality(Uncounted)
             + Len(queue) + Cardinality(Held(hold)) + Cardinality(Held(ahead)) = Size
    /\ task = "completed" => sent + Cardinality(Uncounted) = Size

(* A transfer the sender calls Completed has every part of the source at   *)
(* its place, on which "every 4 MiB block is verified with BLAKE3"         *)
(* (docs/spec.md) insists.                                                 *)
CompletedTrue == task = "completed" => \A k \in Chunks : file[k] = k

(* The receiver gives up for want of channels only when one has failed, or *)
(* is open at the sender and not yet accepted: it never gives up on        *)
(* channels that have done all their work.                                 *)
GivesUpForCause ==
    [][handler = "wait" /\ handler' = "grace" =>
          \/ ~Healthy
          \/ \E c \in Channels : spc[c] # "off" /\ rpc[c] = "none"]_vars

(* A resume that came between the check of the flag and the wait.          *)
WakeMissed == \E s \in Side, c \in Channels : nap[<<s, c>>] = "asleep" /\ s \notin paused

(* As long as no channel has failed and nobody keeps the attempt paused,   *)
(* every chunk arrives: channels neither wait for each other nor starve,   *)
(* and the missed wake-up of checkpoint is the only thing in their way.    *)
AllArrives == [](Healthy => <>(Missing = {} \/ ~Healthy \/ paused # {} \/ WakeMissed))

(* The promise: what is missing is what is not rightly on the disk.        *)
Promise ==
    INSTANCE Delivery WITH
        missing <- {k \in Chunks :
                      k \notin marked \/ ("source" \notin sequential /\ file[k] # k)},
        phase <- CASE task = "streaming" -> "moving"
                   [] task = "failed"    -> "broken"
                   [] task = "completed" -> "whole"

(* DataPlane implements Delivery: a sender that says Completed speaks of a *)
(* receiver that has every chunk as it was in the source, over any         *)
(* number of broken attempts, and nothing received is lost on the way.     *)
DeliveryPromised == Promise!Spec
=============================================================================
