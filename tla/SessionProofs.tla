---------------------------- MODULE SessionProofs ----------------------------
(***************************************************************************)
(* Proofs about Session for any number of chunks, commands and failures:   *)
(* what the two records of one attempt say of each other, of the controls  *)
(* of the tasks and of what the users have asked for.                      *)
(***************************************************************************)
EXTENDS Session, TLAPS

Place == Running.sender \cup Running.receiver \cup Outcome \cup {"ended"}

Message == Conversation \cup Result

(* The parts of TypeOK, by what changes together.                          *)
RecordTypes == record \in [Side -> TransferState]

TaskTypes == pc \in [Side -> Place] /\ outbox \in [Side -> Seq(Conversation)]

(* Results are for the sender.                                             *)
NetworkTypes ==
    /\ wire \in [Side -> Seq(Message)] /\ wire.receiver \in Seq(Conversation)
    /\ half \subseteq Side /\ garbled \subseteq Side

(* Chunks on their way are chunks the receiver lacks.                      *)
DataTypes ==
    /\ {unsent, air, left} \subseteq 0..MaxChunks /\ unsent + air <= left
    /\ send \in {"none", "sending", "ok", "gone"} \cup Outcome
    /\ recv \in {"none", "open", "left"} \cup Outcome

OtherTypes ==
    /\ paused \subseteq Side /\ stopped \subseteq Side /\ asked \subseteq Side
    /\ {signal, joined} \subseteq BOOLEAN
    /\ commands \in 0..MaxCommands /\ troubles \in 0..MaxTroubles

(* A frame that is half read is there, and belongs to a loop or to a task  *)
(* that has ended.                                                         *)
HalfRead == \A s \in half : wire[s] # <<>> /\ (Listening(s) \/ Gone(s))

Types == RecordTypes /\ TaskTypes /\ NetworkTypes /\ DataTypes /\ OtherTypes /\ HalfRead

-----------------------------------------------------------------------------
(* Records, places and queues.                                             *)

LEMMA Sides ==
    /\ Side = {"sender", "receiver"} /\ "sender" \in Side /\ "receiver" \in Side
    /\ \A s \in Side : Other(s) \in Side /\ Other(s) # s
  BY DEF Side, Other

LEMMA Bounds ==
    MaxChunks \in Nat /\ MaxCommands \in Nat /\ MaxTroubles \in Nat
    /\ Commands \subseteq {"Pause", "Resume", "Cancel"}
  BY SessionAssumption

LEMMA Places ==
    Place = {"begin", "register", "loop", "confirm", "check", "arm", "wait", "grace",
             "verify", "finalize", "report", "cancelled", "retryable", "fatal", "ended"}
  BY DEF Place, Running, Outcome

(* No writer of a record leaves the states of the model.                   *)
LEMMA RemoteStates ==
    ASSUME NEW state \in TransferState
    PROVE  /\ AfterRemotePause(state) \in TransferState
           /\ AfterRemoteResume(state) \in TransferState
           /\ AfterRemoteCancel(state) \in TransferState
           /\ Restored(state) \in TransferState
  BY DEF TransferState, AfterRemotePause, AfterRemoteResume, AfterRemoteCancel, Restored

LEMMA OutcomeStates ==
    ASSUME NEW state \in TransferState, NEW outcome \in Outcome
    PROVE  AfterOutcome(state, outcome) \in TransferState
  BY DEF TransferState, AfterOutcome, Outcome

LEMMA NextStates ==
    ASSUME NEW state, NEW next, CanTransition(state, next)
    PROVE  next \in TransferState
  BY DEF TransferState, CanTransition

(* A task that has ended is not running, on either side.                   *)
LEMMA EndedPlaces ==
    ASSUME NEW s \in Side, NEW p \in Outcome \cup {"ended"}
    PROVE  p \notin Running[s]
<1>1. CASE s = "sender"
  BY <1>1 DEF Running, Outcome
<1>2. CASE s = "receiver"
  BY <1>2 DEF Running, Outcome
<1> QED BY <1>1, <1>2, Sides

LEMMA QueueTail ==
    ASSUME NEW S, NEW q \in Seq(S), q # <<>>
    PROVE  Head(q) \in S /\ Tail(q) \in Seq(S)
  OBVIOUS

LEMMA QueueAppend ==
    ASSUME NEW S, NEW q \in Seq(S), NEW m \in S
    PROVE  Append(q, m) \in Seq(S) /\ Append(q, m) # <<>>
<1>1. Append(q, m) \in Seq(S)
  OBVIOUS
<1>2. Len(Append(q, m)) = Len(q) + 1 /\ Len(q) \in Nat /\ Len(<<>>) = 0
  OBVIOUS
<1>3. Append(q, m) # <<>>
  BY <1>2, SMT
<1> QED BY <1>1, <1>3

Has(q, m) == \E k \in 1..Len(q) : q[k] = m

LEMMA TailHas ==
    ASSUME NEW S, NEW q \in Seq(S), q # <<>>
    PROVE  Has(q, Head(q)) /\ \A m : Has(Tail(q), m) => Has(q, m)
<1>1. Tail(q) \in Seq(S) /\ Head(q) = q[1] /\ 1 \in 1..Len(q)
  OBVIOUS
<1>2. ASSUME NEW k \in 1..Len(Tail(q)) PROVE Tail(q)[k] = q[k + 1] /\ k + 1 \in 1..Len(q)
  BY <1>2
<1> QED BY <1>1, <1>2 DEF Has

LEMMA AppendHas ==
    ASSUME NEW S, NEW q \in Seq(S), NEW m \in S
    PROVE  \A n : Has(Append(q, m), n) => Has(q, n) \/ n = m
<1>1. ASSUME NEW k \in 1..Len(Append(q, m))
      PROVE  (k \in 1..Len(q) /\ Append(q, m)[k] = q[k]) \/ Append(q, m)[k] = m
  BY <1>1
<1> QED BY <1>1 DEF Has

LEMMA EmptyHas == \A m : ~Has(<<>>, m)
<1>1. 1..Len(<<>>) = {}
  OBVIOUS
<1> QED BY <1>1 DEF Has

-----------------------------------------------------------------------------
(* Types.                                                                  *)

LEMMA TypesTogether == Types => TypeOK
  BY DEF Types, RecordTypes, TaskTypes, NetworkTypes, DataTypes, OtherTypes, TypeOK, Place, Message

LEMMA TypesAtFirst == Init => Types
<1> SUFFICES ASSUME Init PROVE Types
  OBVIOUS
<1> USE DEF Init
<1>1. RecordTypes
  BY DEF RecordTypes, TransferState
<1>2. TaskTypes /\ NetworkTypes
  <2>1. <<>> \in Seq(Conversation) /\ <<>> \in Seq(Message)
    OBVIOUS
  <2> QED BY <2>1, Places, Sides DEF TaskTypes, NetworkTypes
<1>3. DataTypes
  BY Bounds DEF DataTypes
<1>4. commands \in 0..MaxCommands /\ troubles \in 0..MaxTroubles
  BY Bounds
<1>5. OtherTypes /\ HalfRead
  BY <1>4 DEF OtherTypes, HalfRead
<1> QED BY <1>1, <1>2, <1>3, <1>5 DEF Types

LEMMA WriteTypes ==
    ASSUME RecordTypes, NEW s \in Side, NEW state \in TransferState, SetRecord(s, state)
    PROVE  RecordTypes'
  BY DEF RecordTypes, SetRecord

LEMMA LeaveTypes ==
    ASSUME TaskTypes, DataTypes, NEW s \in Side, NEW p \in Place, Goto(s, p), Leaves(s)
    PROVE  /\ TaskTypes'
           /\ send' \in {"none", "sending", "ok", "gone"} \cup Outcome
<1>1. pc' \in [Side -> Place]
  BY DEF TaskTypes, Goto
<1>2. <<>> \in Seq(Conversation)
  OBVIOUS
<1>3. outbox' \in [Side -> Seq(Conversation)]
  BY <1>2 DEF TaskTypes, Leaves
<1>4. send' \in {"none", "sending", "ok", "gone"} \cup Outcome
  BY DEF DataTypes, Leaves
<1> QED BY <1>1, <1>3, <1>4 DEF TaskTypes

LEMMA ReturnTypes ==
    ASSUME TaskTypes, DataTypes, NEW s \in Side, NEW p \in Place, Return(s, p)
    PROVE  TaskTypes' /\ DataTypes'
  BY LeaveTypes DEF DataTypes, Return

LEMMA StayTypes ==
    ASSUME TaskTypes, DataTypes, NEW s \in Side, NEW p \in Place, Stay(s, p)
    PROVE  TaskTypes' /\ DataTypes'
  BY DEF TaskTypes, DataTypes, Stay, Goto, data

LEMMA TransitionTypes ==
    ASSUME RecordTypes, TaskTypes, DataTypes,
           NEW s \in Side, NEW p \in Place, NEW next, Transition(s, next, p)
    PROVE  RecordTypes' /\ TaskTypes' /\ DataTypes'
<1>1. CASE CanTransition(record[s], next)
  BY <1>1, NextStates, WriteTypes, StayTypes DEF Transition
<1>2. CASE ~CanTransition(record[s], next)
  BY <1>2, Places, ReturnTypes DEF Transition, RecordTypes
<1> QED BY <1>1, <1>2

LEMMA PostTypes ==
    ASSUME NetworkTypes, NEW s \in Side, NEW m \in Message, Post(s, m),
           s = "receiver" \/ m \in Conversation
    PROVE  /\ wire' \in [Side -> Seq(Message)] /\ wire'.receiver \in Seq(Conversation)
           /\ \A r \in Side : wire[r] # <<>> => wire'[r] # <<>>
<1>1. CASE Gone(Other(s))
  BY <1>1 DEF NetworkTypes, Post
<1>2. CASE ~Gone(Other(s))
  <2>1. Append(wire[Other(s)], m) \in Seq(Message) /\ Append(wire[Other(s)], m) # <<>>
    BY Sides, QueueAppend DEF NetworkTypes
  <2>2. wire' = [wire EXCEPT ![Other(s)] = Append(wire[Other(s)], m)]
    BY <1>2 DEF Post
  <2>3. wire'.receiver \in Seq(Conversation)
    <3>1. CASE s = "receiver"
      BY <2>2, <3>1 DEF NetworkTypes, Side, Other
    <3>2. CASE s = "sender" /\ m \in Conversation
      <4>1. Append(wire.receiver, m) \in Seq(Conversation)
        BY <3>2, QueueAppend DEF NetworkTypes
      <4> QED BY <2>2, <3>2, <4>1 DEF NetworkTypes, Side, Other
    <3> QED BY <3>1, <3>2, Sides
  <2> QED BY <2>1, <2>2, <2>3, Sides DEF NetworkTypes
<1> QED BY <1>1, <1>2

(* A queue holds what it held and what was posted.                         *)
LEMMA PostHas ==
    ASSUME NetworkTypes, NEW s \in Side, NEW m \in Message, Post(s, m)
    PROVE  \A r \in Side : \A n : Has(wire'[r], n) => Has(wire[r], n) \/ (r = Other(s) /\ n = m)
<1>1. CASE Gone(Other(s))
  BY <1>1 DEF Post
<1>2. CASE ~Gone(Other(s))
  <2>1. wire' = [wire EXCEPT ![Other(s)] = Append(wire[Other(s)], m)]
    BY <1>2 DEF Post
  <2>2. \A n : Has(Append(wire[Other(s)], m), n) => Has(wire[Other(s)], n) \/ n = m
    BY AppendHas, Sides DEF NetworkTypes
  <2> QED BY <2>1, <2>2 DEF NetworkTypes
<1> QED BY <1>1, <1>2

LEMMA DropTypes ==
    ASSUME NetworkTypes, NEW s \in Side, DropRead(s)
    PROVE  half' \subseteq Side /\ garbled' \subseteq Side
  BY DEF NetworkTypes, DropRead

(* A task that moves on has read its frame, or has ended.                  *)
LEMMA HalfMoves ==
    ASSUME HalfRead,
           \A r \in half' : r \in half /\ (wire[r] # <<>> => wire'[r] # <<>>),
           \A r \in half' : pc'[r] = pc[r] \/ pc'[r] \notin Running[r]
    PROVE  HalfRead'
  BY DEF HalfRead, Listening, Gone

LEMMA SideTypes ==
    ASSUME Types, NEW s \in Side, SideStep(s)
    PROVE  Types'
<1> USE Sides, Bounds, Places DEF Types, task, flags, network, data, environment
<1>1. CASE Begin(s)
  <2>1. RecordTypes' /\ TaskTypes' /\ DataTypes'
    BY <1>1, TransitionTypes DEF Begin
  <2>2. NetworkTypes' /\ OtherTypes'
    BY <1>1 DEF Begin, NetworkTypes, OtherTypes
  <2>3. s \notin half
    BY <1>1 DEF Begin, HalfRead, Listening, Gone, Running
  <2>4. \A r \in Side \ {s} : pc'[r] = pc[r]
    BY <1>1 DEF Begin, Transition, Stay, Return, Goto, TaskTypes
  <2>5. HalfRead'
    BY <1>1, <2>3, <2>4, HalfMoves DEF Begin, NetworkTypes
  <2> QED BY <2>1, <2>2, <2>5
<1>2. CASE Register(s)
  <2>1. TaskTypes' /\ DataTypes'
    BY <1>2, StayTypes DEF Register
  <2>2. RecordTypes' /\ NetworkTypes' /\ OtherTypes'
    BY <1>2 DEF Register, RecordTypes, NetworkTypes, OtherTypes
  <2>3. s \notin half
    BY <1>2 DEF Register, HalfRead, Listening, Gone, Running
  <2>4. \A r \in Side \ {s} : pc'[r] = pc[r]
    BY <1>2 DEF Register, Stay, Goto, TaskTypes
  <2>5. HalfRead'
    BY <1>2, <2>3, <2>4, HalfMoves DEF Register, NetworkTypes
  <2> QED BY <2>1, <2>2, <2>5
<1>3. CASE Forward(s)
  <2>1. Head(outbox[s]) \in Conversation /\ Tail(outbox[s]) \in Seq(Conversation)
    BY <1>3, QueueTail DEF Forward, TaskTypes
  <2>2. TaskTypes' /\ DataTypes'
    <3>1. CASE Return(s, "cancelled")
      BY <3>1, ReturnTypes
    <3>2. CASE Goto(s, Again(s)) /\ outbox' = [outbox EXCEPT ![s] = Tail(@)] /\ UNCHANGED data
      BY <2>1, <3>2 DEF TaskTypes, DataTypes, Goto, Again
    <3> QED BY <1>3, <3>1, <3>2 DEF Forward
  <2>3. NetworkTypes' /\ \A r \in Side : wire[r] # <<>> => wire'[r] # <<>>
    BY <1>3, <2>1, PostTypes, DropTypes DEF Forward, NetworkTypes, Message
  <2>4. RecordTypes' /\ OtherTypes'
    BY <1>3 DEF Forward, RecordTypes, OtherTypes
  <2>5. half' = half \ {s} /\ \A r \in Side \ {s} : pc'[r] = pc[r]
    BY <1>3 DEF Forward, DropRead, Goto, Return, TaskTypes
  <2>6. HalfRead'
    BY <2>3, <2>5, HalfMoves DEF NetworkTypes
  <2> QED BY <2>2, <2>3, <2>4, <2>6
<1>4. CASE ReadLength(s)
  <2>1. CASE s \in garbled
    <3>1. TaskTypes' /\ DataTypes'
      BY <1>4, <2>1, ReturnTypes DEF ReadLength
    <3>2. pc'[s] \notin Running[s] /\ \A r \in Side \ {s} : pc'[r] = pc[r]
      BY <1>4, <2>1, EndedPlaces DEF ReadLength, Return, Goto, TaskTypes, Outcome
    <3>3. HalfRead'
      BY <1>4, <2>1, <3>2, HalfMoves DEF ReadLength, NetworkTypes
    <3> QED BY <1>4, <2>1, <3>1, <3>3 DEF ReadLength, RecordTypes, NetworkTypes, OtherTypes
  <2>2. CASE s \notin garbled
    <3>1. HalfRead' /\ NetworkTypes'
      BY <1>4, <2>2 DEF ReadLength, HalfRead, NetworkTypes, Listening, Gone
    <3> QED
      BY <1>4, <2>2, <3>1 DEF ReadLength, RecordTypes, TaskTypes, DataTypes, OtherTypes
  <2> QED BY <2>1, <2>2
<1>5. CASE ReadBody(s)
  <2>1. /\ wire[s] # <<>> /\ Head(wire[s]) \in Message /\ Tail(wire[s]) \in Seq(Message)
        /\ s = "receiver" => Head(wire[s]) \in Conversation /\ Tail(wire[s]) \in Seq(Conversation)
    BY <1>5, QueueTail DEF ReadBody, HalfRead, NetworkTypes
  <2>2. NetworkTypes' /\ half' = half \ {s} /\ \A r \in half' : wire'[r] = wire[r]
    BY <1>5, <2>1 DEF ReadBody, NetworkTypes
  <2>3. \/ Hear(s, "Pause") \/ Hear(s, "Resume") \/ HearCancel(s)
        \/ s = "sender" /\ \E m \in Result : HearResult(m)
    BY <1>5, <2>1 DEF ReadBody, Message, Conversation, Result
  <2>4. UNCHANGED <<signal, joined, environment>>
    BY <1>5 DEF ReadBody
  <2>5. ASSUME Hear(s, "Pause") \/ Hear(s, "Resume") PROVE Types'
    <3>1. TaskTypes' /\ DataTypes' /\ \A r \in Side \ {s} : pc'[r] = pc[r]
      BY <2>5, StayTypes DEF Hear, Again, Stay, Goto, TaskTypes
    <3>2. RecordTypes'
      BY <2>5, WriteTypes, RemoteStates DEF Hear, RecordTypes
    <3>3. OtherTypes'
      BY <2>4, <2>5 DEF Hear, OtherTypes
    <3> QED BY <2>2, <3>1, <3>2, <3>3, HalfMoves DEF NetworkTypes
  <2>6. ASSUME HearCancel(s) PROVE Types'
    <3>1. TaskTypes' /\ DataTypes' /\ \A r \in Side \ {s} : pc'[r] = pc[r]
      BY <2>6, ReturnTypes DEF HearCancel, Return, Goto, TaskTypes
    <3>2. RecordTypes'
      BY <2>6, WriteTypes, RemoteStates DEF HearCancel, RecordTypes
    <3>3. OtherTypes'
      BY <2>4, <2>6 DEF HearCancel, OtherTypes
    <3> QED BY <2>2, <3>1, <3>2, <3>3, HalfMoves DEF NetworkTypes
  <2>7. ASSUME s = "sender", NEW m \in Result, HearResult(m) PROVE Types'
    <3>1. RecordTypes' /\ TaskTypes' /\ DataTypes'
      BY <2>7, ReturnTypes, TransitionTypes DEF HearResult, RecordTypes
    <3>2. OtherTypes'
      BY <2>4, <2>7 DEF HearResult, OtherTypes
    <3>3. pc'["receiver"] = pc["receiver"]
      BY <2>7 DEF HearResult, Transition, Stay, Return, Goto, TaskTypes
    <3>4. HalfRead'
      BY <2>2, <2>7, <3>3, HalfMoves DEF NetworkTypes
    <3> QED BY <2>2, <3>1, <3>2, <3>4
  <2> QED BY <2>3, <2>5, <2>6, <2>7
<1>6. CASE ReadFails(s)
  <2>1. \E p \in Outcome : Return(s, p)
    BY <1>6 DEF ReadFails, Outcome
  <2>2. TaskTypes' /\ DataTypes'
    BY <2>1, ReturnTypes DEF Place
  <2>3. pc'[s] \notin Running[s] /\ \A r \in Side \ {s} : pc'[r] = pc[r]
    BY <2>1 DEF Return, Goto, TaskTypes, Running, Outcome
  <2>4. HalfRead'
    BY <1>6, <2>3, HalfMoves DEF ReadFails, NetworkTypes
  <2> QED BY <1>6, <2>2, <2>4 DEF ReadFails, RecordTypes, NetworkTypes, OtherTypes
<1>7. CASE Settle(s)
  <2>1. TaskTypes' /\ DataTypes'
    BY <1>7, StayTypes DEF Settle
  <2>2. RecordTypes'
    BY <1>7, WriteTypes, OutcomeStates DEF Settle, RecordTypes
  <2>3. pc'[s] \notin Running[s] /\ \A r \in Side \ {s} : pc'[r] = pc[r]
    BY <1>7 DEF Settle, Stay, Goto, TaskTypes, Running
  <2>4. HalfRead'
    BY <1>7, <2>3, HalfMoves DEF Settle, NetworkTypes
  <2> QED BY <1>7, <2>1, <2>2, <2>4 DEF Settle, NetworkTypes, OtherTypes
<1> QED BY <1>1, <1>2, <1>3, <1>4, <1>5, <1>6, <1>7 DEF SideStep

LEMMA SenderTypes ==
    ASSUME Types, SenderStep
    PROVE  Types'
<1> USE Sides, Bounds, Places DEF Types, task, flags, network, data, environment
<1>1. CASE DataCompleted
  <2>1. NetworkTypes'
    BY <1>1, DropTypes DEF DataCompleted, NetworkTypes
  <2>2. HalfRead'
    BY <1>1, HalfMoves DEF DataCompleted, DropRead, NetworkTypes
  <2> QED BY <1>1, <2>1, <2>2 DEF DataCompleted, RecordTypes, TaskTypes, DataTypes, OtherTypes
<1>2. CASE DataFailed
  <2>1. TaskTypes' /\ DataTypes'
    BY <1>2, ReturnTypes DEF DataFailed, Place
  <2>2. pc'["sender"] \notin Running["sender"] /\ pc'["receiver"] = pc["receiver"]
    BY <1>2 DEF DataFailed, Return, Goto, TaskTypes, Running, Outcome
  <2>3. HalfRead'
    BY <1>2, <2>2, HalfMoves DEF DataFailed, NetworkTypes
  <2> QED BY <1>2, <2>1, <2>3 DEF DataFailed, RecordTypes, NetworkTypes, OtherTypes
<1>3. CASE Confirm
  <2>1. RecordTypes' /\ TaskTypes' /\ DataTypes'
    BY <1>3, TransitionTypes DEF Confirm
  <2>2. pc'["sender"] \notin Running["sender"] /\ pc'["receiver"] = pc["receiver"]
    BY <1>3 DEF Confirm, Transition, Stay, Return, Goto, TaskTypes, Running
  <2>3. HalfRead'
    BY <1>3, <2>2, HalfMoves DEF Confirm, NetworkTypes
  <2> QED BY <1>3, <2>1, <2>3 DEF Confirm, NetworkTypes, OtherTypes
<1> QED BY <1>1, <1>2, <1>3 DEF SenderStep

(* The receiver is not in the middle of a frame anywhere but at its wait.  *)
LEMMA ReceiverTypes ==
    ASSUME Types, ReceiverStep \/ GraceCancel \/ FinalizeFails
    PROVE  Types'
<1> USE Sides, Bounds, Places DEF Types, task, flags, network, data, environment
<1>0. pc.receiver \in {"check", "arm", "grace", "verify", "finalize", "report"} => "receiver" \notin half
  BY DEF HalfRead, Listening, Gone, Running
<1>1. CASE Check
  <2>1. /\ \/ \E p \in Place : Stay("receiver", p)
           \/ \E p \in Place : Return("receiver", p)
        /\ \/ UNCHANGED wire
           \/ \E m \in {"Cancel", "Failed"} : Post("receiver", m)
    BY <1>1 DEF Check
  <2>2. TaskTypes' /\ DataTypes' /\ pc'["sender"] = pc["sender"]
    BY <2>1, StayTypes, ReturnTypes DEF Stay, Return, Goto, TaskTypes
  <2>3. NetworkTypes' /\ \A r \in Side : wire[r] # <<>> => wire'[r] # <<>>
    BY <1>1, <2>1, PostTypes DEF Check, NetworkTypes, Message, Conversation, Result
  <2>4. HalfRead'
    BY <1>0, <1>1, <2>2, <2>3, HalfMoves DEF Check, NetworkTypes, Outcome
  <2> QED BY <1>1, <2>2, <2>3, <2>4 DEF Check, RecordTypes, OtherTypes
<1>2. CASE Arm
  <2>1. TaskTypes' /\ DataTypes' /\ pc'["sender"] = pc["sender"]
    BY <1>2, StayTypes DEF Arm, Stay, Goto, TaskTypes
  <2>2. HalfRead'
    BY <1>0, <1>2, <2>1, HalfMoves DEF Arm, NetworkTypes, Outcome
  <2> QED BY <1>2, <2>1, <2>2 DEF Arm, RecordTypes, NetworkTypes, OtherTypes
<1>3. CASE Woken
  <2>1. \E p \in Place : Stay("receiver", p) \/ Return("receiver", p)
    BY <1>3 DEF Woken
  <2>2. TaskTypes' /\ DataTypes' /\ pc'["sender"] = pc["sender"]
    BY <2>1, StayTypes, ReturnTypes DEF Stay, Return, Goto, TaskTypes
  <2>3. NetworkTypes'
    BY <1>3, DropTypes DEF Woken, NetworkTypes
  <2>4. HalfRead'
    BY <1>3, <2>2, HalfMoves DEF Woken, DropRead, NetworkTypes
  <2> QED BY <1>3, <2>2, <2>3, <2>4 DEF Woken, RecordTypes, OtherTypes
<1>4. CASE GraceCancel
  <2>1. Tail(wire.receiver) \in Seq(Conversation) /\ Tail(wire.receiver) \in Seq(Message)
    BY <1>4, QueueTail DEF GraceCancel, NetworkTypes
  <2>2. NetworkTypes' /\ wire'.sender = wire.sender
    BY <1>4, <2>1 DEF GraceCancel, NetworkTypes
  <2>3. TaskTypes' /\ DataTypes' /\ pc'["sender"] = pc["sender"]
    BY <1>4, ReturnTypes DEF GraceCancel, HearCancel, Return, Goto, TaskTypes
  <2>4. RecordTypes'
    BY <1>4, WriteTypes, RemoteStates DEF GraceCancel, HearCancel, RecordTypes
  <2>5. HalfRead'
    BY <1>0, <1>4, <2>2, <2>3, HalfMoves DEF GraceCancel, NetworkTypes, Outcome
  <2> QED BY <1>4, <2>2, <2>3, <2>4, <2>5 DEF GraceCancel, HearCancel, OtherTypes
<1>5. CASE GraceOver
  <2>1. TaskTypes' /\ DataTypes' /\ pc'["sender"] = pc["sender"]
    BY <1>5, ReturnTypes DEF GraceOver, Return, Goto, TaskTypes
  <2>2. HalfRead'
    BY <1>0, <1>5, <2>1, HalfMoves DEF GraceOver, NetworkTypes, Outcome
  <2> QED BY <1>5, <2>1, <2>2 DEF GraceOver, RecordTypes, NetworkTypes, OtherTypes
<1>6. CASE Verify \/ Finalize
  <2>1. RecordTypes' /\ TaskTypes' /\ DataTypes'
    BY <1>6, TransitionTypes DEF Verify, Finalize
  <2>2. pc'["sender"] = pc["sender"]
    BY <1>6 DEF Verify, Finalize, Transition, Stay, Return, Goto, TaskTypes
  <2>3. HalfRead'
    BY <1>0, <1>6, <2>2, HalfMoves DEF Verify, Finalize, NetworkTypes, Outcome
  <2> QED BY <1>6, <2>1, <2>3 DEF Verify, Finalize, NetworkTypes, OtherTypes
<1>7. CASE Report
  <2>1. TaskTypes' /\ DataTypes' /\ pc'["sender"] = pc["sender"]
    BY <1>7, StayTypes DEF Report, Stay, Goto, TaskTypes
  <2>2. NetworkTypes' /\ \A r \in Side : wire[r] # <<>> => wire'[r] # <<>>
    BY <1>7, PostTypes DEF Report, NetworkTypes, Message, Result
  <2>3. HalfRead'
    BY <1>0, <1>7, <2>1, <2>2, HalfMoves DEF Report, NetworkTypes, Outcome
  <2> QED BY <1>7, <2>1, <2>2, <2>3 DEF Report, RecordTypes, OtherTypes
<1>8. CASE FinalizeFails
  <2>1. TaskTypes' /\ DataTypes' /\ pc'["sender"] = pc["sender"]
    BY <1>8, ReturnTypes DEF FinalizeFails, Return, Goto, TaskTypes
  <2>2. NetworkTypes' /\ \A r \in Side : wire[r] # <<>> => wire'[r] # <<>>
    BY <1>8, PostTypes DEF FinalizeFails, NetworkTypes, Message, Result
  <2>3. HalfRead'
    BY <1>0, <1>8, <2>1, <2>2, HalfMoves DEF FinalizeFails, NetworkTypes, Outcome
  <2> QED BY <1>8, <2>1, <2>2, <2>3 DEF FinalizeFails, RecordTypes, OtherTypes
<1> QED BY <1>1, <1>2, <1>3, <1>4, <1>5, <1>6, <1>7, <1>8 DEF ReceiverStep

LEMMA DataStepTypes ==
    ASSUME Types, DataStep \/ SendTrouble \/ ChannelTrouble
    PROVE  Types'
<1> USE Sides, Bounds, Places DEF Types, task, flags, network, data, environment
<1>1. ASSUME UNCHANGED <<record, task, network>>, DataTypes', OtherTypes' PROVE Types'
  BY <1>1 DEF RecordTypes, TaskTypes, NetworkTypes, HalfRead, Listening, Gone
<1>2. CASE Connect
  BY <1>1, <1>2 DEF Connect, SendStep, DataTypes, OtherTypes
<1>3. CASE SendChunk
  <2>1. CASE unsent > 0
    <3>1. unsent' = unsent - 1 /\ air' = air + 1 /\ left' = left /\ send' = "sending" /\ recv' = recv
      BY <1>3, <2>1 DEF SendChunk, SendStep
    <3>2. unsent' \in 0..MaxChunks /\ air' \in 0..MaxChunks /\ unsent' + air' <= left'
      BY <2>1, <3>1 DEF DataTypes
    <3>3. DataTypes'
      BY <3>1, <3>2 DEF DataTypes
    <3> QED BY <1>1, <1>3, <2>1, <3>3 DEF SendChunk, SendStep, OtherTypes
  <2>2. CASE ~(unsent > 0)
    BY <1>1, <1>3, <2>2 DEF SendChunk, SendStep, DataTypes, OtherTypes
  <2> QED BY <2>1, <2>2
<1>4. CASE SendStops
  BY <1>1, <1>4 DEF SendStops, SendStep, DataTypes, OtherTypes, Outcome
<1>5. CASE SendTrouble
  BY <1>1, <1>5 DEF SendTrouble, DataTypes, OtherTypes, Outcome
<1>6. CASE Accept
  BY <1>1, <1>6 DEF Accept, DataTypes, OtherTypes, Outcome
<1>7. CASE TakeChunk
  BY <1>1, <1>7 DEF TakeChunk, DataTypes, OtherTypes
<1>8. CASE ChannelEnds
  <2>1. PICK p \in {"left"} \cup Outcome : Leave(p)
    BY <1>8 DEF ChannelEnds, Outcome
  <2>2. air' \in {air, 0}
    BY <1>8 DEF ChannelEnds
  <2> QED BY <1>1, <1>8, <2>1, <2>2 DEF ChannelEnds, Leave, DataTypes, OtherTypes
<1>9. CASE ChannelTrouble
  BY <1>1, <1>9 DEF ChannelTrouble, Leave, DataTypes, OtherTypes, Outcome
<1>10. CASE SettleChannel
  <2>1. RecordTypes'
    BY <1>10, WriteTypes, OutcomeStates DEF SettleChannel, RecordTypes
  <2>2. DataTypes' /\ OtherTypes'
    BY <1>10 DEF SettleChannel, DataTypes, OtherTypes
  <2> QED BY <1>10, <2>1, <2>2 DEF SettleChannel, TaskTypes, NetworkTypes, HalfRead, Listening, Gone
<1> QED BY <1>2, <1>3, <1>4, <1>5, <1>6, <1>7, <1>8, <1>9, <1>10 DEF DataStep

LEMMA UserTypes ==
    ASSUME Types, NEW s \in Side,
           Breaks(s) \/ Quit(s) \/ \E command \in Commands : Command(s, command)
    PROVE  Types'
<1> USE Sides, Bounds, Places DEF Types, task, flags, network, data, environment
<1>1. CASE Breaks(s)
  <2>1. \E p \in Outcome : Return(s, p)
    BY <1>1 DEF Breaks, Outcome
  <2>2. TaskTypes' /\ DataTypes'
    BY <2>1, ReturnTypes DEF Place
  <2>3. pc'[s] \notin Running[s] /\ \A r \in Side \ {s} : pc'[r] = pc[r]
    BY <2>1 DEF Return, Goto, TaskTypes, Running, Outcome
  <2>4. HalfRead'
    BY <1>1, <2>3, HalfMoves DEF Breaks, NetworkTypes
  <2> QED BY <1>1, <2>2, <2>4 DEF Breaks, RecordTypes, NetworkTypes, OtherTypes
<1>2. CASE Quit(s)
  <2>1. RecordTypes'
    BY <1>2, WriteTypes, RemoteStates DEF Quit, RecordTypes
  <2>2. TaskTypes' /\ send' \in {"none", "sending", "ok", "gone"} \cup Outcome
    BY <1>2, LeaveTypes DEF Quit
  <2>3. DataTypes' /\ OtherTypes'
    BY <1>2, <2>2 DEF Quit, DataTypes, OtherTypes
  <2>4. pc'[s] \notin Running[s] /\ \A r \in Side \ {s} : pc'[r] = pc[r]
    BY <1>2, EndedPlaces DEF Quit, Goto, TaskTypes
  <2>5. HalfRead'
    BY <1>2, <2>4, HalfMoves DEF Quit, NetworkTypes
  <2> QED BY <1>2, <2>1, <2>2, <2>3, <2>5 DEF Quit, NetworkTypes
<1>3. ASSUME NEW command \in Commands, Command(s, command) PROVE Types'
  <2>1. RecordTypes'
    BY <1>3, WriteTypes, NextStates DEF Command
  <2>2. Append(outbox[s], command) \in Seq(Conversation)
    BY QueueAppend DEF TaskTypes, Conversation
  <2>3. TaskTypes'
    BY <1>3, <2>2 DEF Command, TaskTypes
  <2>4. OtherTypes'
    BY <1>3 DEF Command, OtherTypes
  <2> QED BY <1>3, <2>1, <2>3, <2>4 DEF Command, NetworkTypes, DataTypes, HalfRead, Listening, Gone
<1> QED BY <1>1, <1>2, <1>3

LEMMA TypesNext == Types /\ [Next]_vars => Types'
<1> SUFFICES ASSUME Types, [Next]_vars PROVE Types'
  OBVIOUS
<1>1. CASE UNCHANGED vars
  BY <1>1 DEF vars, task, flags, network, data, environment, Types, RecordTypes, TaskTypes,
              NetworkTypes, DataTypes, OtherTypes, HalfRead, Listening, Gone
<1> QED
  BY <1>1, SideTypes, SenderTypes, ReceiverTypes, DataStepTypes, UserTypes DEF Next, Program

(* Every variable keeps its type: in particular no chunk is counted that   *)
(* was not missing, and no result is sent to the receiver.                 *)
THEOREM TypesKept == Spec => []TypeOK
  BY TypesAtFirst, TypesNext, TypesTogether, PTL DEF Spec

-----------------------------------------------------------------------------
(* Terminal records.                                                       *)

TerminalStays == \A s \in Side : record[s] \in Terminal => record'[s] = record[s]

LEMMA WriteStays ==
    ASSUME Types, NEW s \in Side, NEW state, SetRecord(s, state),
           record[s] \in Terminal => state = record[s]
    PROVE  TerminalStays
  BY DEF Types, RecordTypes, SetRecord, TerminalStays

LEMMA TransitionStays ==
    ASSUME Types, NEW s \in Side, NEW next, NEW p, Transition(s, next, p)
    PROVE  TerminalStays
<1>1. CASE CanTransition(record[s], next)
  BY <1>1, WriteStays DEF Transition, CanTransition, Terminal
<1>2. CASE ~CanTransition(record[s], next)
  BY <1>2 DEF Transition, TerminalStays
<1> QED BY <1>1, <1>2

(* What the other side, the end of a task and a restart do to a record     *)
(* that is terminal: nothing.                                              *)
LEMMA TerminalWritten ==
    ASSUME NEW state \in Terminal
    PROVE  /\ AfterRemotePause(state) = state /\ AfterRemoteResume(state) = state
           /\ AfterRemoteCancel(state) = state /\ Restored(state) = state
           /\ \A outcome : AfterOutcome(state, outcome) = state
           /\ \A next : ~CanTransition(state, next)
  BY DEF Terminal, AfterRemotePause, AfterRemoteResume, AfterRemoteCancel, Restored,
         AfterOutcome, CanTransition

LEMMA TerminalNext == Types /\ [Next]_vars => TerminalStays
<1> SUFFICES ASSUME Types, [Next]_vars PROVE TerminalStays
  OBVIOUS
<1>1. ASSUME UNCHANGED record PROVE TerminalStays
  BY <1>1 DEF TerminalStays
<1>2. ASSUME NEW s \in Side, SideStep(s) PROVE TerminalStays
  <2>1. CASE Begin(s)
    BY <2>1, TransitionStays DEF Begin
  <2>2. CASE Register(s) \/ Forward(s) \/ ReadLength(s) \/ ReadFails(s)
    BY <1>1, <2>2 DEF Register, Forward, ReadLength, ReadFails
  <2>3. CASE ReadBody(s)
    <3>1. CASE \E m \in {"Pause", "Resume"} : Hear(s, m)
      BY <3>1, WriteStays, TerminalWritten DEF Hear
    <3>2. CASE HearCancel(s)
      BY <3>2, WriteStays, TerminalWritten DEF HearCancel
    <3>3. CASE \E m \in Result : HearResult(m)
      BY <1>1, <3>3, TransitionStays, Sides DEF HearResult
    <3>4. Head(wire[s]) \in Message
      BY <2>3, QueueTail DEF ReadBody, Types, HalfRead, NetworkTypes
    <3> QED BY <2>3, <3>1, <3>2, <3>3, <3>4 DEF ReadBody, Message, Conversation, Result
  <2>4. CASE Settle(s)
    BY <2>4, WriteStays, TerminalWritten DEF Settle
  <2> QED BY <1>2, <2>1, <2>2, <2>3, <2>4 DEF SideStep
<1>3. CASE SenderStep
  BY <1>1, <1>3, TransitionStays, Sides DEF SenderStep, DataCompleted, DataFailed, Confirm
<1>4. CASE ReceiverStep
  BY <1>1, <1>4, TransitionStays, Sides
  DEF ReceiverStep, Check, Arm, Woken, GraceOver, Verify, Finalize, Report
<1>5. CASE GraceCancel
  BY <1>5, WriteStays, TerminalWritten, Sides DEF GraceCancel, HearCancel
<1>6. CASE FinalizeFails \/ SendTrouble \/ ChannelTrouble
  BY <1>1, <1>6 DEF FinalizeFails, SendTrouble, ChannelTrouble, Leave
<1>7. CASE DataStep
  <2>1. CASE SettleChannel
    BY <2>1, WriteStays, TerminalWritten, Sides DEF SettleChannel
  <2>2. CASE Connect \/ SendChunk \/ SendStops \/ Accept \/ TakeChunk \/ ChannelEnds
    BY <1>1, <2>2 DEF Connect, SendChunk, SendStops, Accept, TakeChunk, ChannelEnds, SendStep, Leave
  <2> QED BY <1>7, <2>1, <2>2 DEF DataStep
<1>8. ASSUME NEW s \in Side, Breaks(s) PROVE TerminalStays
  BY <1>1, <1>8 DEF Breaks
<1>9. ASSUME NEW s \in Side, Quit(s) PROVE TerminalStays
  BY <1>9, WriteStays, TerminalWritten DEF Quit
<1>10. ASSUME NEW s \in Side, NEW command \in Commands, Command(s, command) PROVE TerminalStays
  BY <1>10, WriteStays, TerminalWritten DEF Command
<1>11. CASE UNCHANGED vars
  BY <1>1, <1>11 DEF vars
<1> QED
  BY <1>2, <1>3, <1>4, <1>5, <1>6, <1>7, <1>8, <1>9, <1>10, <1>11 DEF Next, Program

(* No late task, data handler, message or restart replaces an outcome the  *)
(* user has been shown.                                                    *)
THEOREM OutcomesStand == Spec => OutcomeStands
<1>1. Types /\ [Next]_vars => [\A s \in Side : record[s] \in Terminal => record'[s] = record[s]]_vars
  BY TerminalNext DEF TerminalStays
<1> QED
  BY <1>1, TypesAtFirst, TypesNext, PTL DEF Spec, OutcomeStands

-----------------------------------------------------------------------------
(* Records and controls.                                                   *)

(* A task that has not begun is not paused.                                *)
HeldInv ==
    /\ ShownAsHeld
    /\ \A s \in Side : pc[s] = "begin" => s \notin paused /\ record[s] \notin {"Paused", "Transferring"}

(* What one side has at stake.                                             *)
HeldAt(s) ==
    /\ ~Gone(s) =>
        /\ record[s] = "Paused" => s \in paused
        /\ record[s] = "Transferring" => s \notin paused
    /\ pc[s] = "begin" => s \notin paused /\ record[s] \notin {"Paused", "Transferring"}

LEMMA HeldParts == HeldInv <=> \A s \in Side : HeldAt(s)
  BY DEF HeldInv, HeldAt, ShownAsHeld

(* A side a step does not touch, and one whose task has ended or moved on  *)
(* with the same record and flag.                                          *)
LEMMA HeldSame ==
    ASSUME NEW s \in Side, HeldAt(s), record'[s] = record[s], s \in paused' <=> s \in paused,
           pc'[s] # "begin" \/ pc'[s] = pc[s], Gone(s) => Gone(s)'
    PROVE  HeldAt(s)'
  BY DEF HeldAt

LEMMA HeldGone ==
    ASSUME NEW s \in Side, Gone(s)'
    PROVE  HeldAt(s)'
<1>1. pc'[s] # "begin"
  BY Sides DEF Gone, Running
<1> QED BY <1>1 DEF HeldAt

(* Neither held nor free: any other state.                                 *)
LEMMA HeldElse ==
    ASSUME NEW s \in Side, record'[s] \notin {"Paused", "Transferring"}, pc'[s] # "begin" \/ (s \notin paused)'
    PROVE  HeldAt(s)'
  BY DEF HeldAt

LEMMA HeldOne ==
    ASSUME HeldInv, NEW s \in Side, HeldAt(s)',
           \A r \in Side \ {s} : record'[r] = record[r] /\ pc'[r] = pc[r] /\ (r \in paused' <=> r \in paused)
    PROVE  HeldInv'
<1>1. ASSUME NEW r \in Side \ {s} PROVE HeldAt(r)'
  BY <1>1, HeldParts, HeldSame DEF Gone
<1> QED BY <1>1 DEF HeldInv, HeldAt, ShownAsHeld

(* The task of s returns or moves on; no record and no flag changes.       *)
LEMMA HeldStep ==
    ASSUME Types, HeldInv, NEW s \in Side, ~Gone(s), NEW p, p # "begin", Goto(s, p),
           UNCHANGED <<record, paused>>
    PROVE  HeldInv'
<1>1. pc'[s] = p /\ \A r \in Side \ {s} : pc'[r] = pc[r]
  BY DEF Types, TaskTypes, Goto
<1>2. HeldAt(s)'
  BY <1>1, HeldParts, HeldSame
<1> QED BY <1>1, <1>2, HeldOne

(* The task of s returns.                                                  *)
LEMMA HeldReturn ==
    ASSUME Types, HeldInv, NEW s \in Side, NEW p \in Outcome \cup {"ended"}, Goto(s, p),
           \A r \in Side \ {s} : record'[r] = record[r] /\ (r \in paused' <=> r \in paused)
    PROVE  HeldInv'
<1>1. pc'[s] = p /\ \A r \in Side \ {s} : pc'[r] = pc[r]
  BY DEF Types, TaskTypes, Goto
<1>2. HeldAt(s)'
  BY <1>1, HeldGone, EndedPlaces DEF Gone
<1> QED BY <1>1, <1>2, HeldOne

(* A transition to a state that is neither.                                *)
LEMMA HeldTransition ==
    ASSUME Types, HeldInv, NEW s \in Side, NEW next, next \notin {"Paused", "Transferring"},
           NEW p, p # "begin", Transition(s, next, p), UNCHANGED paused
    PROVE  HeldInv'
<1>1. CASE CanTransition(record[s], next)
  <2>1. /\ record'[s] = next /\ pc'[s] = p
        /\ \A r \in Side \ {s} : pc'[r] = pc[r] /\ record'[r] = record[r]
    BY <1>1 DEF Types, RecordTypes, TaskTypes, Transition, SetRecord, Stay, Goto
  <2>2. HeldAt(s)'
    BY <2>1, HeldElse
  <2> QED BY <2>1, <2>2, HeldOne
<1>2. CASE ~CanTransition(record[s], next)
  BY <1>2, HeldReturn DEF Transition, Return, Outcome
<1> QED BY <1>1, <1>2

LEMMA Listens ==
    ASSUME NEW s \in Side, Listening(s)
    PROVE  ~Gone(s) /\ Again(s) # "begin"
<1>1. CASE s = "sender"
  BY <1>1 DEF Listening, Gone, Running, Again
<1>2. CASE s = "receiver"
  BY <1>2 DEF Listening, Gone, Running, Again
<1> QED BY <1>1, <1>2, Sides

LEMMA HeldHear ==
    ASSUME Types, HeldInv, NEW s \in Side, Listening(s), NEW m \in {"Pause", "Resume"}, Hear(s, m)
    PROVE  HeldInv'
<1>1. /\ pc'[s] = Again(s) /\ \A r \in Side \ {s} : pc'[r] = pc[r] /\ record'[r] = record[r]
      /\ \A r \in Side \ {s} : r \in paused' <=> r \in paused
  BY DEF Types, RecordTypes, TaskTypes, Hear, SetRecord, Stay, Goto
<1>2. CASE m = "Pause"
  <2>1. record'[s] \in {"Paused"} \cup Terminal /\ s \in paused'
    BY <1>2 DEF Types, RecordTypes, Hear, SetRecord, AfterRemotePause
  <2>2. HeldAt(s)'
    BY <1>1, <2>1, Listens DEF HeldAt, Terminal
  <2> QED BY <1>1, <2>2, HeldOne
<1>3. CASE m = "Resume"
  <2>1. record'[s] # "Paused" /\ s \notin paused'
    BY <1>3 DEF Types, RecordTypes, Hear, SetRecord, AfterRemoteResume
  <2>2. HeldAt(s)'
    BY <1>1, <2>1, Listens DEF HeldAt
  <2> QED BY <1>1, <2>2, HeldOne
<1> QED BY <1>2, <1>3

LEMMA HeldCommand ==
    ASSUME Types, HeldInv, NEW s \in Side, NEW command \in Commands, Command(s, command)
    PROVE  HeldInv'
<1>1. /\ record'[s] = CommandTarget[command] /\ pc' = pc
      /\ \A r \in Side \ {s} : record'[r] = record[r] /\ (r \in paused' <=> r \in paused)
  BY Bounds DEF Types, RecordTypes, Command, SetRecord
<1>2. HeldAt(s)'
  <2>1. CASE Gone(s)
    BY <1>1, <2>1, HeldGone DEF Gone
  <2>2. CASE ~Gone(s) /\ command = "Pause"
    <3>1. record'[s] = "Paused" /\ s \in paused' /\ record[s] = "Transferring"
      BY <1>1, <2>2 DEF Command, CommandTarget, TransferCommand, CanTransition
    <3> QED BY <1>1, <3>1, HeldParts DEF HeldAt
  <2>3. CASE ~Gone(s) /\ command = "Resume"
    <3>1. record'[s] = "Transferring" /\ s \notin paused' /\ record[s] = "Paused"
      BY <1>1, <2>3 DEF Command, Offered, CommandTarget, TransferCommand
    <3> QED BY <1>1, <3>1, HeldParts DEF HeldAt
  <2>4. CASE ~Gone(s) /\ command = "Cancel"
    <3>1. record'[s] = "Cancelled" /\ paused' = paused
      BY <1>1, <2>4 DEF Command, CommandTarget, TransferCommand
    <3> QED BY <1>1, <3>1, HeldElse, HeldParts DEF HeldAt
  <2> QED BY <2>1, <2>2, <2>3, <2>4, Bounds
<1> QED BY <1>1, <1>2, HeldOne

LEMMA HeldNext == Types /\ HeldInv /\ [Next]_vars => HeldInv'
<1> SUFFICES ASSUME Types, HeldInv, [Next]_vars PROVE HeldInv'
  OBVIOUS
<1> USE Sides DEF task, flags
<1>1. ASSUME UNCHANGED <<record, pc, paused>> PROVE HeldInv'
  BY <1>1 DEF HeldInv, ShownAsHeld, Gone
<1>2. ASSUME NEW s \in Side, SideStep(s) PROVE HeldInv'
  <2>1. CASE Begin(s)
    <3>1. CASE CanTransition(record[s], "Transferring")
      <4>1. /\ record'[s] = "Transferring" /\ pc'[s] = "register" /\ paused' = paused
            /\ \A r \in Side \ {s} : pc'[r] = pc[r] /\ record'[r] = record[r]
        BY <2>1, <3>1 DEF Types, RecordTypes, TaskTypes, Begin, Transition, SetRecord, Stay, Goto
      <4>2. HeldAt(s)'
        BY <2>1, <4>1, HeldParts DEF Begin, HeldAt
      <4> QED BY <4>1, <4>2, HeldOne
    <3>2. CASE ~CanTransition(record[s], "Transferring")
      BY <2>1, <3>2, HeldReturn DEF Begin, Transition, Return, Outcome
    <3> QED BY <3>1, <3>2
  <2>2. CASE Register(s)
    <3>1. ~Gone(s)
      BY <2>2 DEF Register, Gone, Running, Side
    <3> QED BY <2>2, <3>1, HeldStep DEF Register, Stay
  <2>3. CASE Forward(s)
    BY <2>3, Listens, HeldStep DEF Forward, Return
  <2>4. CASE ReadLength(s)
    BY <1>1, <2>4, HeldReturn DEF ReadLength, Return, Outcome
  <2>5. CASE ReadBody(s)
    <3>1. Head(wire[s]) \in Message /\ (s = "receiver" => Head(wire[s]) \in Conversation)
      BY <2>5, QueueTail DEF ReadBody, Types, HalfRead, NetworkTypes
    <3>2. CASE \E m \in {"Pause", "Resume"} : Hear(s, m)
      BY <2>5, <3>2, HeldHear DEF ReadBody
    <3>3. CASE HearCancel(s)
      <4>1. \A r \in Side \ {s} : record'[r] = record[r]
        BY <3>3 DEF HearCancel, SetRecord, Types, RecordTypes
      <4> QED BY <3>3, <4>1, HeldReturn DEF HearCancel, Return, Outcome
    <3>4. CASE s = "sender" /\ \E m \in Result : HearResult(m)
      BY <3>4, HeldReturn, HeldTransition DEF HearResult, Return, Outcome
    <3> QED BY <2>5, <3>1, <3>2, <3>3, <3>4 DEF ReadBody, Message, Conversation, Result
  <2>6. CASE ReadFails(s)
    BY <2>6, HeldReturn DEF ReadFails, Return, Outcome
  <2>7. CASE Settle(s)
    <3>1. \A r \in Side \ {s} : record'[r] = record[r]
      BY <2>7 DEF Settle, SetRecord, Types, RecordTypes
    <3> QED BY <2>7, <3>1, HeldReturn DEF Settle, Stay
  <2> QED BY <1>2, <2>1, <2>2, <2>3, <2>4, <2>5, <2>6, <2>7 DEF SideStep
<1>3. CASE SenderStep
  BY <1>1, <1>3, HeldReturn, HeldTransition DEF SenderStep, DataCompleted, DataFailed, Confirm, Return, Outcome
<1>4. CASE ReceiverStep \/ GraceCancel \/ FinalizeFails
  <2>1. pc.receiver \in {"check", "arm", "wait", "grace", "verify", "finalize", "report"} => ~Gone("receiver")
    BY DEF Gone, Running
  <2>2. CASE Check
    BY <2>1, <2>2, HeldStep DEF Check, Stay, Return
  <2>3. CASE Arm
    BY <2>1, <2>3, HeldStep DEF Arm, Stay
  <2>4. CASE Woken
    BY <2>1, <2>4, HeldStep DEF Woken, Stay, Return
  <2>5. CASE GraceOver
    BY <2>5, HeldReturn DEF GraceOver, Return, Outcome
  <2>6. CASE Verify \/ Finalize
    BY <2>6, HeldTransition DEF Verify, Finalize
  <2>7. CASE Report
    BY <2>7, HeldReturn DEF Report, Stay
  <2>8. CASE GraceCancel
    <3>1. \A r \in Side \ {"receiver"} : record'[r] = record[r]
      BY <2>8 DEF GraceCancel, HearCancel, SetRecord, Types, RecordTypes
    <3> QED BY <2>8, <3>1, HeldReturn DEF GraceCancel, HearCancel, Return, Outcome
  <2>9. CASE FinalizeFails
    BY <2>9, HeldReturn DEF FinalizeFails, Return, Outcome
  <2> QED BY <1>4, <2>2, <2>3, <2>4, <2>5, <2>6, <2>7, <2>8, <2>9 DEF ReceiverStep
<1>5. CASE SettleChannel
  <2>1. /\ record'["receiver"] \notin {"Paused", "Transferring"} /\ record'["sender"] = record["sender"]
        /\ UNCHANGED <<pc, paused>>
    BY <1>5 DEF SettleChannel, SetRecord, Types, RecordTypes, AfterOutcome, Outcome, Terminal
  <2>2. HeldAt("receiver")'
    BY <2>1, HeldElse, HeldParts DEF HeldAt
  <2> QED BY <2>1, <2>2, HeldOne
<1>6. CASE Connect \/ SendChunk \/ SendStops \/ Accept \/ TakeChunk \/ ChannelEnds \/ SendTrouble \/ ChannelTrouble
  BY <1>1, <1>6
  DEF Connect, SendChunk, SendStops, Accept, TakeChunk, ChannelEnds, SendTrouble, ChannelTrouble, SendStep, Leave
<1>7. ASSUME NEW s \in Side, Breaks(s) PROVE HeldInv'
  BY <1>7, HeldReturn DEF Breaks, Return, Outcome
<1>8. ASSUME NEW s \in Side, Quit(s) PROVE HeldInv'
  <2>1. \A r \in Side \ {s} : record'[r] = record[r]
    BY <1>8 DEF Quit, SetRecord, Types, RecordTypes
  <2> QED BY <1>8, <2>1, HeldReturn DEF Quit
<1>9. CASE UNCHANGED vars
  BY <1>1, <1>9 DEF vars
<1> QED
  BY <1>2, <1>3, <1>4, <1>5, <1>6, <1>7, <1>8, <1>9, HeldCommand DEF Next, Program, DataStep

(* What a user sees and what the channels obey agree on each side, over    *)
(* commands of both users that cross.                                      *)
THEOREM RecordsAgreeWithControls == Spec => []ShownAsHeld
<1>1. Init => HeldInv
  BY DEF Init, HeldInv, ShownAsHeld
<1>2. HeldInv => ShownAsHeld
  BY DEF HeldInv
<1> QED
  BY <1>1, <1>2, TypesAtFirst, TypesNext, HeldNext, PTL DEF Spec

-----------------------------------------------------------------------------
(* Cancellations.                                                          *)

(* Nothing that could end in a cancellation is anywhere.                   *)
NoCancel ==
    /\ stopped = {}
    /\ \A s \in Side :
          /\ record[s] # "Cancelled" /\ pc[s] # "cancelled"
          /\ ~Has(outbox[s], "Cancel") /\ ~Has(wire[s], "Cancel")
    /\ send # "cancelled" /\ recv # "cancelled"

CancelInv == asked = {} => NoCancel

(* A step that leaves the places, queues and records alone, or moves a     *)
(* task of s to somewhere else than a cancellation.                        *)
LEMMA NoCancelKept ==
    ASSUME NoCancel,
           \A r \in Side : pc'[r] # "cancelled" /\ record'[r] # "Cancelled",
           \A r \in Side : Has(wire'[r], "Cancel") => Has(wire[r], "Cancel"),
           \A r \in Side : Has(outbox'[r], "Cancel") => Has(outbox[r], "Cancel"),
           UNCHANGED stopped,
           send' # "cancelled", recv' # "cancelled"
    PROVE  NoCancel'
  BY DEF NoCancel

LEMMA NoFlag == NoCancel => \A s \in Side : ~Flagged(s)
  BY DEF NoCancel, Flagged

LEMMA CancelGoto ==
    ASSUME Types, NoCancel, NEW s \in Side, NEW p, p # "cancelled", Goto(s, p)
    PROVE  \A r \in Side : pc'[r] # "cancelled"
  BY DEF Types, TaskTypes, NoCancel, Goto

LEMMA CancelWrite ==
    ASSUME Types, NoCancel, NEW s \in Side, NEW state, state # "Cancelled", SetRecord(s, state)
    PROVE  \A r \in Side : record'[r] # "Cancelled"
  BY DEF Types, RecordTypes, NoCancel, SetRecord

LEMMA CancelReturn ==
    ASSUME Types, NoCancel, NEW s \in Side, NEW p, p # "cancelled", Return(s, p)
    PROVE  /\ \A r \in Side : pc'[r] # "cancelled"
           /\ \A r \in Side : Has(outbox'[r], "Cancel") => Has(outbox[r], "Cancel")
           /\ send' # "cancelled" /\ recv' # "cancelled"
<1>1. \A r \in Side : Has(outbox'[r], "Cancel") => Has(outbox[r], "Cancel")
  BY EmptyHas DEF Types, TaskTypes, Return, Leaves
<1> QED BY <1>1, CancelGoto DEF NoCancel, Return, Leaves

LEMMA CancelStay ==
    ASSUME Types, NoCancel, NEW s \in Side, NEW p, p # "cancelled", Stay(s, p)
    PROVE  /\ \A r \in Side : pc'[r] # "cancelled"
           /\ outbox' = outbox /\ send' # "cancelled" /\ recv' # "cancelled"
  BY CancelGoto DEF NoCancel, Stay, data

LEMMA CancelTransition ==
    ASSUME Types, NoCancel, NEW s \in Side, NEW next, next # "Cancelled",
           NEW p, p # "cancelled", Transition(s, next, p)
    PROVE  /\ \A r \in Side : pc'[r] # "cancelled" /\ record'[r] # "Cancelled"
           /\ \A r \in Side : Has(outbox'[r], "Cancel") => Has(outbox[r], "Cancel")
           /\ send' # "cancelled" /\ recv' # "cancelled"
<1>1. CASE CanTransition(record[s], next)
  BY <1>1, CancelWrite, CancelStay DEF Transition
<1>2. CASE ~CanTransition(record[s], next)
  BY <1>2, CancelReturn DEF Transition, NoCancel
<1> QED BY <1>1, <1>2

LEMMA CancelPost ==
    ASSUME Types, NEW s \in Side, NEW m \in Message, m # "Cancel", Post(s, m)
    PROVE  \A r \in Side : Has(wire'[r], "Cancel") => Has(wire[r], "Cancel")
  BY PostHas DEF Types

(* No writer but a command cancels a record by itself.                     *)
LEMMA UncancelledStates ==
    ASSUME NEW state \in TransferState, state # "Cancelled"
    PROVE  /\ AfterRemotePause(state) # "Cancelled" /\ AfterRemoteResume(state) # "Cancelled"
           /\ Restored(state) # "Cancelled"
           /\ \A outcome \in Outcome \ {"cancelled"} : AfterOutcome(state, outcome) # "Cancelled"
  BY DEF AfterRemotePause, AfterRemoteResume, Restored, AfterOutcome, Outcome

LEMMA CancelNext == Types /\ CancelInv /\ [Next]_vars => CancelInv'
<1> SUFFICES ASSUME Types, NoCancel, [Next]_vars, asked' = {}, asked = {} PROVE NoCancel'
  <2>1. ASSUME Types, [Next]_vars PROVE asked \subseteq asked'
    BY <2>1
    DEF Next, Program, SideStep, SenderStep, ReceiverStep, DataStep, Begin, Register, Forward,
        ReadLength, ReadBody, ReadFails, Settle, DataCompleted, DataFailed, Confirm, Check, Arm,
        Woken, GraceOver, Verify, Finalize, Report, Connect, SendChunk, SendStops, Accept,
        TakeChunk, ChannelEnds, SettleChannel, GraceCancel, FinalizeFails, SendTrouble,
        ChannelTrouble, Breaks, Quit, Command, SendStep, Leave, environment, vars
  <2> QED BY <2>1 DEF CancelInv
<1> USE Sides DEF task, flags, network, data, environment
<1>0. /\ \A s \in Side : ~Flagged(s) /\ record[s] \in TransferState /\ record[s] # "Cancelled"
      /\ \A s \in Side : pc[s] # "cancelled" /\ ~Has(outbox[s], "Cancel") /\ ~Has(wire[s], "Cancel")
      /\ stopped = {} /\ send # "cancelled" /\ recv # "cancelled"
  BY NoFlag DEF Types, RecordTypes, NoCancel
<1>1. ASSUME UNCHANGED <<record, pc, outbox, wire, stopped>>,
             send' # "cancelled", recv' # "cancelled"
      PROVE  NoCancel'
  BY <1>1 DEF NoCancel
<1>2. ASSUME NEW s \in Side, SideStep(s) PROVE NoCancel'
  <2>1. CASE Begin(s)
    BY <2>1, CancelTransition, NoCancelKept DEF Begin
  <2>2. CASE Register(s)
    BY <1>0, <2>2, CancelStay, NoCancelKept DEF Register
  <2>3. CASE Forward(s)
    <3>1. /\ Head(outbox[s]) # "Cancel" /\ Head(outbox[s]) \in Message
          /\ Has(Tail(outbox[s]), "Cancel") => Has(outbox[s], "Cancel")
      BY <1>0, <2>3, TailHas, QueueTail DEF Forward, Types, TaskTypes, Message
    <3>2. Goto(s, Again(s)) /\ outbox' = [outbox EXCEPT ![s] = Tail(@)] /\ UNCHANGED data
      BY <2>3, <3>1 DEF Forward
    <3>3. \A r \in Side : Has(outbox'[r], "Cancel") => Has(outbox[r], "Cancel")
      BY <3>1, <3>2 DEF Types, TaskTypes
    <3>4. \A r \in Side : pc'[r] # "cancelled"
      BY <3>2, CancelGoto DEF Again
    <3>5. \A r \in Side : Has(wire'[r], "Cancel") => Has(wire[r], "Cancel")
      BY <2>3, <3>1, CancelPost DEF Forward
    <3> QED BY <1>0, <2>3, <3>2, <3>3, <3>4, <3>5, NoCancelKept DEF Forward
  <2>4. CASE ReadLength(s)
    BY <1>0, <1>1, <2>4, CancelReturn, NoCancelKept DEF ReadLength
  <2>5. CASE ReadBody(s)
    <3>1. Head(wire[s]) \in Message \ {"Cancel"} /\ (s = "receiver" => Head(wire[s]) \in Conversation)
      BY <1>0, <2>5, QueueTail, TailHas DEF ReadBody, Types, HalfRead, NetworkTypes
    <3>2. \A r \in Side : Has(wire'[r], "Cancel") => Has(wire[r], "Cancel")
      BY <2>5, TailHas DEF ReadBody, Types, HalfRead, NetworkTypes
    <3>3. CASE \E m \in {"Pause", "Resume"} : Hear(s, m)
      <4>1. \A r \in Side : record'[r] # "Cancelled"
        BY <1>0, <3>3, CancelWrite, UncancelledStates DEF Hear
      <4>2. /\ \A r \in Side : pc'[r] # "cancelled"
            /\ outbox' = outbox /\ send' # "cancelled" /\ recv' # "cancelled" /\ stopped' = stopped
        BY <3>3, CancelStay DEF Hear, Again
      <4> QED BY <3>2, <4>1, <4>2, NoCancelKept
    <3>4. CASE s = "sender" /\ \E m \in Result : HearResult(m)
      BY <1>0, <3>2, <3>4, CancelReturn, CancelTransition, NoCancelKept DEF HearResult
    <3> QED BY <2>5, <3>1, <3>3, <3>4 DEF ReadBody, Message, Conversation, Result
  <2>6. CASE ReadFails(s)
    BY <1>0, <2>6, CancelReturn, NoCancelKept DEF ReadFails
  <2>7. CASE Settle(s)
    <3>1. \A r \in Side : record'[r] # "Cancelled"
      BY <1>0, <2>7, CancelWrite, UncancelledStates DEF Settle
    <3> QED BY <2>7, <3>1, CancelStay, NoCancelKept DEF Settle
  <2> QED BY <1>2, <2>1, <2>2, <2>3, <2>4, <2>5, <2>6, <2>7 DEF SideStep
<1>3. CASE SenderStep
  <2>1. CASE DataCompleted
    BY <1>0, <1>1, <2>1 DEF DataCompleted
  <2>2. CASE DataFailed
    BY <1>0, <2>2, CancelReturn, NoCancelKept DEF DataFailed
  <2>3. CASE Confirm
    BY <2>3, CancelTransition, NoCancelKept DEF Confirm
  <2> QED BY <1>3, <2>1, <2>2, <2>3 DEF SenderStep
<1>4. CASE ReceiverStep \/ FinalizeFails
  <2>1. CASE Check
    <3>1. \/ \E p \in {"verify", "arm"} : Stay("receiver", p) /\ UNCHANGED wire
          \/ Return("receiver", "fatal") /\ Post("receiver", "Failed")
      BY <1>0, <2>1 DEF Check
    <3> QED BY <1>0, <2>1, <3>1, CancelStay, CancelReturn, CancelPost, NoCancelKept DEF Check, Message, Result
  <2>2. CASE Arm
    BY <1>0, <2>2, CancelStay, NoCancelKept DEF Arm
  <2>3. CASE Woken
    BY <1>0, <2>3, CancelStay, NoCancelKept DEF Woken
  <2>4. CASE GraceOver
    BY <1>0, <2>4, CancelReturn, NoCancelKept DEF GraceOver
  <2>5. CASE Verify \/ Finalize
    BY <2>5, CancelTransition, NoCancelKept DEF Verify, Finalize
  <2>6. CASE Report
    BY <1>0, <2>6, CancelStay, CancelPost, NoCancelKept DEF Report, Message, Result
  <2>7. CASE FinalizeFails
    BY <1>0, <2>7, CancelReturn, CancelPost, NoCancelKept DEF FinalizeFails, Message, Result
  <2> QED BY <1>4, <2>1, <2>2, <2>3, <2>4, <2>5, <2>6, <2>7 DEF ReceiverStep
<1>5. ~GraceCancel
  BY <1>0, TailHas DEF GraceCancel, Types, NetworkTypes
<1>6. CASE DataStep \/ SendTrouble \/ ChannelTrouble
  <2>1. CASE SettleChannel
    <3>1. \A r \in Side : record'[r] # "Cancelled"
      BY <1>0, <2>1, CancelWrite, UncancelledStates DEF SettleChannel
    <3> QED BY <1>0, <2>1, <3>1, NoCancelKept DEF SettleChannel
  <2>2. CASE Connect \/ SendChunk \/ SendStops \/ Accept \/ TakeChunk
    BY <1>0, <1>1, <2>2 DEF Connect, SendChunk, SendStops, Accept, TakeChunk, SendStep
  <2>3. CASE ChannelEnds \/ ChannelTrouble \/ SendTrouble
    BY <1>0, <1>1, <2>3 DEF ChannelEnds, ChannelTrouble, SendTrouble, Leave
  <2> QED BY <1>6, <2>1, <2>2, <2>3 DEF DataStep
<1>7. ASSUME NEW s \in Side, Breaks(s) PROVE NoCancel'
  BY <1>0, <1>7, CancelReturn, NoCancelKept DEF Breaks
<1>8. ASSUME NEW s \in Side, Quit(s) PROVE NoCancel'
  <2>1. \A r \in Side : record'[r] # "Cancelled"
    BY <1>0, <1>8, CancelWrite, UncancelledStates DEF Quit
  <2>2. \A r \in Side : Has(outbox'[r], "Cancel") => Has(outbox[r], "Cancel")
    BY <1>8, EmptyHas DEF Types, TaskTypes, Quit, Leaves
  <2>3. \A r \in Side : pc'[r] # "cancelled"
    BY <1>8, CancelGoto DEF Quit
  <2> QED BY <1>0, <1>8, <2>1, <2>2, <2>3, NoCancelKept DEF Quit, Leaves
<1>9. ASSUME NEW s \in Side, NEW command \in Commands, Command(s, command) PROVE NoCancel'
  <2>1. command # "Cancel" /\ command \in Conversation
    BY <1>9, Bounds DEF Command, Conversation
  <2>2. CommandTarget[command] # "Cancelled"
    BY <2>1 DEF CommandTarget, TransferCommand, Conversation
  <2>3. \A r \in Side : record'[r] # "Cancelled"
    BY <1>9, <2>2, CancelWrite DEF Command
  <2>4. \A r \in Side : Has(outbox'[r], "Cancel") => Has(outbox[r], "Cancel")
    <3>1. Has(Append(outbox[s], command), "Cancel") => Has(outbox[s], "Cancel")
      BY <2>1, AppendHas DEF Types, TaskTypes
    <3> QED BY <1>9, <3>1 DEF Command, Types, TaskTypes
  <2> QED BY <1>0, <1>9, <2>1, <2>3, <2>4, NoCancelKept DEF Command
<1>10. CASE UNCHANGED vars
  BY <1>0, <1>1, <1>10 DEF vars
<1> QED
  BY <1>2, <1>3, <1>4, <1>5, <1>6, <1>7, <1>8, <1>9, <1>10 DEF Next, Program

(* No interruption, failure or race becomes a cancellation, after which    *)
(* the receiver deletes what it has.                                       *)
THEOREM CancelledForCause == Spec => []CancelledOnRequest
<1>1. Init => CancelInv
  <2> SUFFICES ASSUME Init PROVE NoCancel
    BY DEF CancelInv
  <2> QED BY EmptyHas DEF Init, NoCancel
<1>2. CancelInv => CancelledOnRequest
  BY DEF CancelInv, NoCancel, CancelledOnRequest
<1> QED
  BY <1>1, <1>2, TypesAtFirst, TypesNext, CancelNext, PTL DEF Spec

-----------------------------------------------------------------------------
(* Results.                                                                *)

(* Somebody says, or is about to say, that the transfer is completed.      *)
Claimed ==
    \/ pc.receiver = "report" \/ Has(wire.sender, "Done")
    \/ pc.sender = "confirm" \/ record.sender = "Completed"

(* The receiver verifies what is complete, and a claim is true.            *)
ResultInv ==
    /\ pc.receiver \in {"verify", "finalize", "report"} => left = 0
    /\ Claimed => record.receiver = "Completed" /\ left = 0

LEMMA NothingComesBack == Types /\ [Next]_vars => (left = 0 => left' = 0)
<1> SUFFICES ASSUME Types, [Next]_vars, left = 0 PROVE left' = 0
  OBVIOUS
<1>1. ~TakeChunk
  BY DEF TakeChunk, Types, DataTypes
<1>2. ASSUME NEW s \in Side, SideStep(s) PROVE left' = left
  <2>1. CASE Begin(s) \/ Register(s) \/ Settle(s)
    BY <2>1 DEF Begin, Register, Settle, Transition, Stay, Return, data
  <2>2. CASE Forward(s) \/ ReadLength(s) \/ ReadFails(s)
    BY <2>2 DEF Forward, ReadLength, ReadFails, Return, data
  <2>3. CASE ReadBody(s)
    <3>1. Head(wire[s]) \in Message
      BY <2>3, QueueTail DEF ReadBody, Types, HalfRead, NetworkTypes
    <3> QED
      BY <2>3, <3>1 DEF ReadBody, Hear, HearCancel, HearResult, Transition, Stay, Return, data,
                        Message, Conversation, Result
  <2> QED BY <1>2, <2>1, <2>2, <2>3 DEF SideStep
<1>3. CASE SenderStep \/ ReceiverStep \/ GraceCancel \/ FinalizeFails
  BY <1>3 DEF SenderStep, ReceiverStep, DataCompleted, DataFailed, Confirm, Check, Arm, Woken, GraceOver,
              Verify, Finalize, Report, GraceCancel, FinalizeFails, HearCancel, Transition, Stay, Return, data
<1>4. CASE DataStep \/ SendTrouble \/ ChannelTrouble
  BY <1>1, <1>4 DEF DataStep, Connect, SendChunk, SendStops, Accept, ChannelEnds, SettleChannel,
                    SendTrouble, ChannelTrouble, SendStep, Leave
<1>5. ASSUME NEW s \in Side, Breaks(s) \/ Quit(s) \/ \E command \in Commands : Command(s, command)
      PROVE  left' = left
  BY <1>5 DEF Breaks, Quit, Command, Return, data
<1>6. CASE UNCHANGED vars
  BY <1>6 DEF vars, data
<1> QED BY <1>2, <1>3, <1>4, <1>5, <1>6 DEF Next, Program

(* Every step but the one that completes the record of the receiver.       *)
LEMMA ResultKept ==
    ASSUME Types, ResultInv, [Next]_vars,
           pc'.receiver \in {"verify", "finalize", "report"} =>
               left = 0 /\ (pc'.receiver = "report" => pc.receiver = "report"),
           Has(wire'.sender, "Done") => Has(wire.sender, "Done") \/ pc.receiver = "report",
           pc'.sender = "confirm" => Claimed,
           record'.sender = "Completed" => Claimed
    PROVE  ResultInv'
<1>1. Claimed' => Claimed
  BY DEF Claimed
<1>2. left = 0 => left' = 0
  BY NothingComesBack
<1>3. record.receiver = "Completed" => record'.receiver = "Completed"
  BY TerminalNext, Sides DEF TerminalStays, Terminal
<1> QED BY <1>1, <1>2, <1>3 DEF ResultInv

LEMMA ResultGoto ==
    ASSUME Types, NEW s \in Side, NEW p, p # "confirm", Goto(s, p)
    PROVE  pc'.sender = "confirm" => pc.sender = "confirm"
  BY Sides DEF Types, TaskTypes, Goto

LEMMA ResultWrite ==
    ASSUME Types, NEW s \in Side, NEW state, state = "Completed" => record[s] = "Completed",
           SetRecord(s, state)
    PROVE  record'.sender = "Completed" => record.sender = "Completed"
  BY Sides DEF Types, RecordTypes, SetRecord

(* A result on the wire is one that was there, or was posted.              *)
LEMMA ResultPost ==
    ASSUME Types, NEW s \in Side, NEW m \in Message, Post(s, m), Has(wire'.sender, "Done"), m # "Done"
    PROVE  Has(wire.sender, "Done")
  BY PostHas, Sides DEF Types

(* Only a transition completes a record.                                   *)
LEMMA UncompletedStates ==
    ASSUME NEW state
    PROVE  /\ AfterRemotePause(state) = "Completed" => state = "Completed"
           /\ AfterRemoteResume(state) = "Completed" => state = "Completed"
           /\ AfterRemoteCancel(state) = "Completed" => state = "Completed"
           /\ Restored(state) = "Completed" => state = "Completed"
           /\ \A outcome \in Outcome : AfterOutcome(state, outcome) = "Completed" => state = "Completed"
  BY DEF AfterRemotePause, AfterRemoteResume, AfterRemoteCancel, Restored, AfterOutcome, Outcome, Terminal

LEMMA ResultNext == Types /\ ResultInv /\ [Next]_vars => ResultInv'
<1> SUFFICES ASSUME Types, ResultInv, [Next]_vars PROVE ResultInv'
  OBVIOUS
<1> USE Sides DEF task, flags, network, data, environment
<1>0. pc \in [Side -> Place] /\ record \in [Side -> TransferState]
  BY DEF Types, TaskTypes, RecordTypes
<1>1. ASSUME UNCHANGED <<pc, wire>>, record'.sender = "Completed" => record.sender = "Completed"
      PROVE  ResultInv'
  BY <1>1, ResultKept DEF Claimed, ResultInv
<1>2. ASSUME NEW s \in Side, NEW p, p \notin {"confirm", "verify", "finalize", "report"}, Goto(s, p),
             UNCHANGED record, Has(wire'.sender, "Done") => Has(wire.sender, "Done")
      PROVE  ResultInv'
  <2>1. /\ pc'.sender = "confirm" => pc.sender = "confirm"
        /\ pc'.receiver \in {"verify", "finalize", "report"} => pc'.receiver = pc.receiver
    BY <1>0, <1>2 DEF Goto
  <2> QED BY <1>2, <2>1, ResultKept DEF Claimed, ResultInv
<1>3. ASSUME NEW s \in Side, NEW p, p \notin {"confirm", "verify", "finalize", "report"},
             NEW next, next # "Completed", Transition(s, next, p), UNCHANGED wire
      PROVE  ResultInv'
  <2>1. CASE CanTransition(record[s], next)
    <3>1. Goto(s, p) /\ SetRecord(s, next)
      BY <1>3, <2>1 DEF Transition, Stay
    <3>2. /\ pc'.sender = "confirm" => pc.sender = "confirm"
          /\ pc'.receiver \in {"verify", "finalize", "report"} => pc'.receiver = pc.receiver
      BY <1>0, <1>3, <3>1 DEF Goto
    <3>3. record'.sender = "Completed" => record.sender = "Completed"
      BY <1>3, <3>1, ResultWrite
    <3> QED BY <1>3, <3>2, <3>3, ResultKept DEF Claimed, ResultInv
  <2>2. CASE ~CanTransition(record[s], next)
    BY <1>2, <1>3, <2>2 DEF Transition, Return
  <2> QED BY <2>1, <2>2
<1>4. ASSUME NEW s \in Side, SideStep(s) PROVE ResultInv'
  <2>1. CASE Begin(s)
    BY <1>3, <2>1 DEF Begin
  <2>2. CASE Register(s)
    <3>1. CASE s = "sender" \/ left # 0
      BY <1>2, <2>2, <3>1 DEF Register, Stay
    <3>2. CASE s = "receiver" /\ left = 0
      <4>1. pc'.receiver = "verify" /\ pc'.sender = pc.sender
        BY <1>0, <2>2, <3>2 DEF Register, Stay, Goto
      <4> QED BY <2>2, <3>2, <4>1, ResultKept DEF Register, Claimed
    <3> QED BY <3>1, <3>2
  <2>3. CASE Forward(s)
    <3>1. Head(outbox[s]) \in Conversation
      BY <2>3, QueueTail DEF Forward, Types, TaskTypes
    <3>2. Has(wire'.sender, "Done") => Has(wire.sender, "Done")
      BY <2>3, <3>1, ResultPost DEF Forward, Message, Conversation
    <3>3. \E p \in {Again(s), "cancelled"} : Goto(s, p)
      BY <2>3 DEF Forward, Return
    <3> QED BY <1>2, <2>3, <3>2, <3>3 DEF Forward, Again
  <2>4. CASE ReadLength(s)
    BY <1>1, <1>2, <2>4 DEF ReadLength, Return
  <2>5. CASE ReadBody(s)
    <3>1. Head(wire[s]) \in Message /\ (s = "receiver" => Head(wire[s]) \in Conversation)
      BY <2>5, QueueTail DEF ReadBody, Types, HalfRead, NetworkTypes
    <3>2. /\ Has(wire'.sender, "Done") => Has(wire.sender, "Done")
          /\ s = "sender" => Has(wire.sender, Head(wire[s]))
      BY <2>5, TailHas DEF ReadBody, Types, HalfRead, NetworkTypes
    <3>3. CASE \E m \in {"Pause", "Resume"} : Hear(s, m)
      <4>1. record'.sender = "Completed" => record.sender = "Completed"
        BY <3>3, ResultWrite, UncompletedStates DEF Hear
      <4>2. /\ pc'.sender = "confirm" => pc.sender = "confirm"
            /\ pc'.receiver \in {"verify", "finalize", "report"} => pc'.receiver = pc.receiver
        BY <1>0, <3>3 DEF Hear, Stay, Goto, Again
      <4> QED BY <3>2, <4>1, <4>2, ResultKept DEF Claimed, ResultInv
    <3>4. CASE HearCancel(s)
      <4>1. record'.sender = "Completed" => record.sender = "Completed"
        BY <3>4, ResultWrite, UncompletedStates DEF HearCancel
      <4>2. /\ pc'.sender = "confirm" => pc.sender = "confirm"
            /\ pc'.receiver \in {"verify", "finalize", "report"} => pc'.receiver = pc.receiver
        BY <1>0, <3>4 DEF HearCancel, Return, Goto
      <4> QED BY <3>2, <4>1, <4>2, ResultKept DEF Claimed, ResultInv
    <3>5. CASE s = "sender" /\ Head(wire[s]) = "Failed" /\ HearResult("Failed")
      BY <1>2, <3>2, <3>5 DEF HearResult, Return
    <3>6. CASE s = "sender" /\ Head(wire[s]) = "Done" /\ HearResult("Done")
      <4>1. Transition("sender", "Verifying", "confirm")
        BY <3>6 DEF HearResult
      <4>2. pc'.receiver = pc.receiver
        BY <1>0, <4>1 DEF Transition, Stay, Return, Goto
      <4>3. Claimed
        BY <3>2, <3>6 DEF Claimed
      <4> QED BY <3>2, <4>2, <4>3, ResultKept DEF ResultInv, Claimed
    <3> QED BY <2>5, <3>1, <3>3, <3>4, <3>5, <3>6 DEF ReadBody, Message, Conversation, Result
  <2>6. CASE ReadFails(s)
    BY <1>2, <2>6 DEF ReadFails, Return
  <2>7. CASE Settle(s)
    <3>1. record'.sender = "Completed" => record.sender = "Completed"
      BY <2>7, ResultWrite, UncompletedStates DEF Settle
    <3>2. /\ pc'.sender = "confirm" => pc.sender = "confirm"
          /\ pc'.receiver \in {"verify", "finalize", "report"} => pc'.receiver = pc.receiver
      BY <1>0, <2>7 DEF Settle, Stay, Goto
    <3> QED BY <2>7, <3>1, <3>2, ResultKept DEF Settle, Claimed, ResultInv
  <2> QED BY <1>4, <2>1, <2>2, <2>3, <2>4, <2>5, <2>6, <2>7 DEF SideStep
<1>5. CASE SenderStep
  <2>1. CASE DataCompleted
    BY <1>1, <2>1 DEF DataCompleted
  <2>2. CASE DataFailed
    BY <1>2, <2>2 DEF DataFailed, Return, Outcome
  <2>3. CASE Confirm
    <3>1. Claimed
      BY <2>3 DEF Confirm, Claimed
    <3>2. pc'.receiver = pc.receiver
      BY <1>0, <2>3 DEF Confirm, Transition, Stay, Return, Goto
    <3> QED BY <2>3, <3>1, <3>2, ResultKept DEF Confirm, ResultInv
  <2> QED BY <1>5, <2>1, <2>2, <2>3 DEF SenderStep
<1>6. CASE ReceiverStep \/ GraceCancel \/ FinalizeFails
  <2>1. CASE Check
    <3>1. pc'.sender = pc.sender /\ (pc'.receiver \in {"verify", "finalize", "report"} => left = 0 /\ pc'.receiver = "verify")
      BY <1>0, <2>1 DEF Check, Stay, Return, Goto
    <3>2. Has(wire'.sender, "Done") => Has(wire.sender, "Done")
      BY <2>1, ResultPost DEF Check, Message, Conversation, Result
    <3> QED BY <2>1, <3>1, <3>2, ResultKept DEF Check, Claimed
  <2>2. CASE Arm
    BY <1>2, <2>2 DEF Arm, Stay
  <2>3. CASE Woken
    <3>1. pc'.sender = pc.sender /\ (pc'.receiver \in {"verify", "finalize", "report"} => left = 0 /\ pc'.receiver = "verify")
      BY <1>0, <2>3 DEF Woken, Stay, Return, Goto
    <3> QED BY <2>3, <3>1, ResultKept DEF Woken, Claimed
  <2>4. CASE GraceOver
    BY <1>2, <2>4 DEF GraceOver, Return
  <2>5. CASE Verify
    <3>1. /\ pc'.sender = pc.sender /\ pc'.receiver \notin {"verify", "report"}
          /\ record'.sender = record.sender
      BY <1>0, <2>5 DEF Verify, Transition, SetRecord, Stay, Return, Goto
    <3> QED BY <2>5, <3>1, ResultKept DEF Verify, Claimed, ResultInv
  <2>6. CASE Finalize
    <3>1. left = 0 /\ left' = 0
      BY <2>6, NothingComesBack DEF Finalize, ResultInv
    <3>2. CASE CanTransition(record.receiver, "Completed")
      <4>1. record'.receiver = "Completed"
        BY <1>0, <2>6, <3>2 DEF Finalize, Transition, SetRecord
      <4> QED BY <3>1, <4>1 DEF ResultInv
    <3>3. CASE ~CanTransition(record.receiver, "Completed")
      BY <1>2, <2>6, <3>3 DEF Finalize, Transition, Return
    <3> QED BY <3>2, <3>3
  <2>7. CASE Report
    <3>1. pc'.sender = pc.sender /\ pc'.receiver = "ended"
      BY <1>0, <2>7 DEF Report, Stay, Goto
    <3> QED BY <2>7, <3>1, ResultKept DEF Report, Claimed
  <2>8. CASE GraceCancel
    <3>1. /\ pc'.sender = pc.sender /\ pc'.receiver = "cancelled" /\ record'.sender = record.sender
          /\ wire'.sender = wire.sender
      BY <1>0, <2>8 DEF GraceCancel, HearCancel, SetRecord, Return, Goto, Types, NetworkTypes
    <3> QED BY <2>8, <3>1, ResultKept DEF Claimed
  <2>9. CASE FinalizeFails
    <3>1. Has(wire'.sender, "Done") => Has(wire.sender, "Done")
      BY <2>9, ResultPost DEF FinalizeFails, Message, Result
    <3> QED BY <1>2, <2>9, <3>1 DEF FinalizeFails, Return
  <2> QED BY <1>6, <2>1, <2>2, <2>3, <2>4, <2>5, <2>6, <2>7, <2>8, <2>9 DEF ReceiverStep
<1>7. CASE DataStep \/ SendTrouble \/ ChannelTrouble
  <2>1. CASE SettleChannel
    <3>1. record'.sender = record.sender
      BY <1>0, <2>1 DEF SettleChannel, SetRecord
    <3> QED BY <1>1, <2>1, <3>1 DEF SettleChannel
  <2>2. CASE Connect \/ SendChunk \/ SendStops \/ Accept \/ TakeChunk \/ ChannelEnds
    BY <1>1, <2>2 DEF Connect, SendChunk, SendStops, Accept, TakeChunk, ChannelEnds, SendStep, Leave
  <2>3. CASE SendTrouble \/ ChannelTrouble
    BY <1>1, <2>3 DEF SendTrouble, ChannelTrouble, Leave
  <2> QED BY <1>7, <2>1, <2>2, <2>3 DEF DataStep
<1>8. ASSUME NEW s \in Side, Breaks(s) PROVE ResultInv'
  BY <1>2, <1>8 DEF Breaks, Return
<1>9. ASSUME NEW s \in Side, Quit(s) PROVE ResultInv'
  <2>1. record'.sender = "Completed" => record.sender = "Completed"
    BY <1>9, ResultWrite, UncompletedStates DEF Quit
  <2>2. /\ pc'.sender = "confirm" => pc.sender = "confirm"
        /\ pc'.receiver \in {"verify", "finalize", "report"} => pc'.receiver = pc.receiver
    BY <1>0, <1>9 DEF Quit, Goto
  <2> QED BY <1>9, <2>1, <2>2, ResultKept DEF Quit, Claimed, ResultInv
<1>10. ASSUME NEW s \in Side, NEW command \in Commands, Command(s, command) PROVE ResultInv'
  <2>1. CommandTarget[command] # "Completed"
    BY Bounds DEF CommandTarget, TransferCommand
  <2>2. record'.sender = "Completed" => record.sender = "Completed"
    BY <1>10, <2>1, ResultWrite DEF Command
  <2> QED BY <1>1, <1>10, <2>2 DEF Command
<1>11. CASE UNCHANGED vars
  BY <1>1, <1>11 DEF vars
<1> QED
  BY <1>4, <1>5, <1>6, <1>7, <1>8, <1>9, <1>10, <1>11 DEF Next, Program

(* The sender shows Completed only for a receiver that has every chunk and *)
(* shows Completed too, whatever crosses and whoever ends.                 *)
THEOREM CompletedOnBothSides == Spec => []CompletedTogether
<1>1. Init => ResultInv
  <2> SUFFICES ASSUME Init PROVE ResultInv
    OBVIOUS
  <2> QED BY EmptyHas, Sides DEF Init, ResultInv, Claimed
<1>2. ResultInv => CompletedTogether
  BY DEF ResultInv, Claimed, CompletedTogether
<1> QED
  BY <1>1, <1>2, TypesAtFirst, TypesNext, ResultNext, PTL DEF Spec
=============================================================================
