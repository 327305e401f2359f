----------------------- MODULE IncomingTransferProofs -----------------------
(***************************************************************************)
(* Proofs about IncomingTransfer for every set of files, chunks and        *)
(* channels and any number of attempts and crashes.                        *)
(***************************************************************************)
EXTENDS IncomingTransfer, FiniteSetTheorems, TLAPS

-----------------------------------------------------------------------------
(* Types.                                                                  *)

(* TypeOK before it is known that remaining_chunks does not wrap.          *)
Shapes ==
    /\ StoredTypeOK /\ HandlerTypeOK /\ ControlTypeOK /\ ChannelTypeOK
    /\ remaining \in [Attempts -> Int]

(* A data handler at work has a context, and a chunk when it works on one. *)
ChannelsHold ==
    \A c \in Channels :
        /\ cpc[c] \in InChannel => joined[c] \in Attempts
        /\ cpc[c] \in {"write", "mark", "count"} => piece[c] \in Pieces

(* What Return and Goto leave of the handler types.                        *)
LEMMA ReturnShapes ==
    ASSUME HandlerTypeOK, ControlTypeOK, remaining \in [Attempts -> Int],
           NEW a \in Attempts, NEW outcome \in Outcome \cup {"done"}, Return(a, outcome),
           UNCHANGED <<user, crashes>>
    PROVE  HandlerTypeOK' /\ ControlTypeOK' /\ remaining' \in [Attempts -> Int]
<1>1. pc' \in [Attempts -> HandlerLocation]
  BY DEF HandlerTypeOK, Return, Goto, HandlerLocation
<1>2. current' \in 0..MaxAttempts /\ registered' \in 0..MaxAttempts
  BY IncomingTransferAssumption DEF ControlTypeOK, Return
<1>3. ready' \in [Attempts -> SUBSET Files] /\ renamed' \in [Attempts -> SUBSET Files]
  BY DEF HandlerTypeOK, Return, DropLocals
<1>4. UNCHANGED <<target, resume, remaining, cancelled, queued>> /\ signal' \subseteq signal
  BY DEF Return
<1> QED
  BY <1>1, <1>2, <1>3, <1>4 DEF HandlerTypeOK, ControlTypeOK

LEMMA RecordOutcomes ==
    ASSUME NEW state \in TransferState \cup {"none"}, NEW outcome \in Outcome
    PROVE  /\ AfterOutcome(state, outcome) \in TransferState
           /\ AfterRemotePause(state) \in TransferState
           /\ AfterRemoteCancel(state) \in TransferState
           /\ AfterRemoteResume(state) \in TransferState \cup {"none"}
           /\ Restored(state) \in TransferState
BY DEF AfterOutcome, AfterRemotePause, AfterRemoteCancel, AfterRemoteResume, Restored,
       Outcome, TransferState, Terminal

LEMMA FiniteKnown ==
    ASSUME rows \subseteq Pieces, NEW f \in Files
    PROVE  /\ Cardinality({p \in rows : p[1] = f}) \in Nat
           /\ Cardinality(Chunks) \in Nat
           /\ IsFiniteSet(Pieces)
<1>1. IsFiniteSet(Pieces)
  BY IncomingTransferAssumption, FS_Product DEF Pieces
<1>2. {p \in rows : p[1] = f} \subseteq Pieces
  OBVIOUS
<1>3. IsFiniteSet({p \in rows : p[1] = f})
  BY <1>1, <1>2, FS_Subset
<1> QED
  BY <1>1, <1>3, IncomingTransferAssumption, FS_CardinalityType

LEMMA DeletionShapes ==
    ASSUME StoredTypeOK, DeleteFiles \/ DeletionStops \/ DeleteRows
    PROVE  /\ temp' \in [Files -> 0..MaxAttempts]
           /\ rows' \subseteq Pieces
<1>1. CASE DeleteFiles
  BY <1>1, IncomingTransferAssumption DEF DeleteAllBut, DeleteFiles, StoredTypeOK
<1>2. CASE DeletionStops
  BY <1>2, IncomingTransferAssumption DEF DeleteAllBut, DeletionStops, StoredTypeOK
<1>3. CASE DeleteRows
  BY <1>3 DEF DeleteRows, StoredTypeOK
<1> QED
  BY <1>1, <1>2, <1>3

LEMMA ControlShapes ==
    ASSUME Shapes, NEW a \in Attempts, ControlStep(a), UNCHANGED crashes
    PROVE  Shapes'
<1> USE DEF Shapes, stored, memory, controls, channel
<1>1. CASE Offer(a)
  BY <1>1 DEF Offer, Goto, StoredTypeOK, HandlerTypeOK, ControlTypeOK, ChannelTypeOK,
              HandlerLocation, TransferState
<1>2. CASE OfferFails(a)
  BY <1>2 DEF OfferFails, Goto, StoredTypeOK, HandlerTypeOK, ControlTypeOK, ChannelTypeOK,
              HandlerLocation, Outcome
<1>3. CASE Answer(a)
  BY <1>3, RecordOutcomes DEF Answer, Goto, StoredTypeOK, HandlerTypeOK, ControlTypeOK, ChannelTypeOK,
              HandlerLocation, Outcome
<1>4. CASE Publish(a)
  BY <1>4 DEF Publish, Goto, DropLocals, StoredTypeOK, HandlerTypeOK, ControlTypeOK, ChannelTypeOK,
              HandlerLocation, WithContext, Attempts
<1>5. CASE \E next \in {"Transferring", "Verifying"}, location \in HandlerLocation :
              Advance(a, next, location) /\ UNCHANGED <<rows, listed, disk, temp, copies, channel, user>>
  <2> PICK next \in {"Transferring", "Verifying"}, location \in HandlerLocation :
              Advance(a, next, location) /\ UNCHANGED <<rows, listed, disk, temp, copies, channel, user>>
    BY <1>5
  <2>1. CASE record' = next /\ Goto(a, location) /\ UNCHANGED <<memory, controls>>
    BY <2>1 DEF Goto, StoredTypeOK, HandlerTypeOK, ControlTypeOK, ChannelTypeOK, TransferState
  <2>2. CASE Return(a, "fatal") /\ UNCHANGED record
    BY <2>2, ReturnShapes DEF StoredTypeOK, ChannelTypeOK, Outcome
  <2> QED
    BY <2>1, <2>2 DEF Advance
<1>6. CASE Start(a)
  BY <1>6, <1>5 DEF Start, HandlerLocation, WithContext
<1>7. CASE Verify(a)
  BY <1>7, <1>5 DEF Verify, HandlerLocation, WithContext
<1>8. CASE \E outcome \in Outcome : Return(a, outcome) /\ UNCHANGED <<stored, channel, user>>
  BY <1>8, ReturnShapes DEF StoredTypeOK, ChannelTypeOK
<1>9. CASE \E location \in HandlerLocation :
              /\ Goto(a, location) /\ signal' \subseteq signal
              /\ UNCHANGED <<stored, ready, target, resume, remaining, renamed, controls, channel, user>>
  BY <1>9 DEF Goto, StoredTypeOK, HandlerTypeOK, ControlTypeOK, ChannelTypeOK
<1>10. CASE Check(a)
  BY <1>8, <1>9, <1>10 DEF Check, HandlerLocation, WithContext, Outcome
<1>11. CASE Arm(a)
  BY <1>9, <1>11 DEF Arm, HandlerLocation, WithContext
<1>12. CASE Woken(a)
  BY <1>8, <1>9, <1>12 DEF Woken, HandlerLocation, WithContext, Outcome
<1>13. CASE GraceOver(a)
  BY <1>8, <1>13 DEF GraceOver, Outcome
<1>14. CASE RemoteCancel(a)
  BY <1>14, RecordOutcomes, IncomingTransferAssumption DEF RemoteCancel, Goto, StoredTypeOK, HandlerTypeOK, ControlTypeOK,
              ChannelTypeOK, HandlerLocation, Outcome, Attempts
<1>15. CASE RemoteControl(a)
  BY <1>15, RecordOutcomes DEF RemoteControl, Goto, StoredTypeOK, HandlerTypeOK, ControlTypeOK,
              ChannelTypeOK, HandlerLocation, WithContext, Outcome
<1>16. CASE ForwardCancel(a)
  BY <1>8, <1>16 DEF ForwardCancel, Outcome
<1>17. CASE ControlFails(a)
  BY <1>8, <1>17 DEF ControlFails, Outcome
<1>18. CASE ClearChunks(a)
  BY <1>18 DEF ClearChunks, Goto, StoredTypeOK, HandlerTypeOK, ControlTypeOK, ChannelTypeOK,
              HandlerLocation, WithContext
<1>19. CASE RemoveDirectory(a)
  BY <1>19, IncomingTransferAssumption DEF RemoveDirectory, Goto, StoredTypeOK, HandlerTypeOK, ControlTypeOK, ChannelTypeOK,
              HandlerLocation, WithContext
<1>20. CASE Finish(a)
  BY <1>20, ReturnShapes DEF Finish, StoredTypeOK, ChannelTypeOK, TransferState, Outcome
<1>21. CASE SettleControl(a)
  BY <1>21, RecordOutcomes DEF SettleControl, Goto, StoredTypeOK, HandlerTypeOK, ControlTypeOK,
              ChannelTypeOK, HandlerLocation, Outcome, Cleaning
<1>22. CASE CleanControl(a)
  <2>1. pc' \in [Attempts -> HandlerLocation]
    BY <1>22 DEF CleanControl, Goto, HandlerTypeOK, HandlerLocation, Cleaning
  <2>2. temp' \in [Files -> 0..MaxAttempts] /\ rows' \subseteq Pieces
    BY <1>22, DeletionShapes DEF CleanControl
  <2>3. UNCHANGED <<record, listed, disk, copies, memory, controls, channel, user>>
    BY <1>22 DEF CleanControl, DeletionStops, DeleteFiles, DeleteRows
  <2> QED
    BY <2>1, <2>2, <2>3 DEF StoredTypeOK, HandlerTypeOK, ControlTypeOK, ChannelTypeOK
<1>23. ASSUME NEW f \in Files, OpenPart(a, f) PROVE Shapes'
  <2>1. temp' \in [Files -> 0..MaxAttempts]
    BY <1>23 DEF OpenPart, StoredTypeOK, Attempts
  <2>2. temp'[f] \in 0..MaxAttempts
    BY <2>1, <1>23
  <2>3. target' \in [Attempts -> [Files -> 0..MaxAttempts]]
    BY <1>23, <2>2 DEF OpenPart, HandlerTypeOK
  <2>4. UNCHANGED <<record, rows, listed, disk, copies, pc, ready, resume, remaining, renamed, signal,
                    controls, channel, user>>
    BY <1>23 DEF OpenPart
  <2> QED
    BY <2>1, <2>3, <2>4 DEF StoredTypeOK, HandlerTypeOK, ControlTypeOK, ChannelTypeOK
<1>24. ASSUME NEW f \in Files, ReadResume(a, f) PROVE Shapes'
  <2> DEFINE known == {p \in rows : p[1] = f}
  <2>1. known \subseteq Pieces /\ Cardinality(known) \in Nat /\ Cardinality(Chunks) \in Nat
    BY <1>24, FiniteKnown DEF StoredTypeOK
  <2>2. /\ ready' = [ready EXCEPT ![a] = @ \cup {f}]
        /\ resume' = [resume EXCEPT ![a] = @ \cup known]
        /\ remaining' = [remaining EXCEPT ![a] = @ + Cardinality(Chunks) - Cardinality(known)]
        /\ listed' = listed \cup {f}
        /\ UNCHANGED <<record, rows, disk, temp, copies, pc, target, renamed, signal, controls, channel, user>>
    BY <1>24 DEF ReadResume
  <2> HIDE DEF known
  <2>3. remaining' \in [Attempts -> Int]
    BY <2>1, <2>2
  <2>4. ready' \in [Attempts -> SUBSET Files] /\ resume' \in [Attempts -> SUBSET Pieces]
    BY <1>24, <2>1, <2>2 DEF HandlerTypeOK
  <2> QED
    BY <1>24, <2>2, <2>3, <2>4 DEF StoredTypeOK, HandlerTypeOK, ControlTypeOK, ChannelTypeOK
<1>25. ASSUME NEW f \in Files, FinalizeFile(a, f) PROVE Shapes'
  <2>1. CASE \E outcome \in {"retryable", "fatal"} : Return(a, outcome) /\ UNCHANGED <<temp, copies>>
    BY <1>25, <2>1, ReturnShapes DEF FinalizeFile, StoredTypeOK, ChannelTypeOK, Outcome
  <2>2. CASE /\ temp[f] # 0
             /\ copies' = [copies EXCEPT ![f] = Append(@, temp[f])]
             /\ temp' = [temp EXCEPT ![f] = 0]
             /\ renamed' = [renamed EXCEPT ![a] = @ \cup {f}]
             /\ UNCHANGED <<pc, ready, target, resume, remaining, signal, controls>>
    <3>1. temp[f] \in Attempts
      BY <2>2 DEF StoredTypeOK, Attempts
    <3>2. copies[f] \in Seq(Attempts) /\ Append(copies[f], temp[f]) \in Seq(Attempts)
      BY <3>1 DEF StoredTypeOK
    <3>3. StoredTypeOK'
      BY <1>25, <2>2, <3>2, IncomingTransferAssumption DEF FinalizeFile, StoredTypeOK
    <3> QED
      BY <1>25, <2>2, <3>3 DEF FinalizeFile, HandlerTypeOK, ControlTypeOK, ChannelTypeOK
  <2> QED
    BY <1>25, <2>1, <2>2 DEF FinalizeFile
<1> QED
  BY <1>1, <1>2, <1>3, <1>4, <1>6, <1>7, <1>10, <1>11, <1>12, <1>13, <1>14, <1>15, <1>16, <1>17,
     <1>18, <1>19, <1>20, <1>21, <1>22, <1>23, <1>24, <1>25 DEF ControlStep

(* What handle_incoming_data changes of handler state.                     *)
LEMMA GoesShapes ==
    ASSUME ChannelTypeOK, ChannelsHold, NEW c \in Channels, NEW location \in ChannelLocation,
           cpc[c] \in InChannel, location = "write" => FALSE,
           location \in {"mark", "count"} => cpc[c] = "mark",
           Goes(c, location)
    PROVE  ChannelTypeOK' /\ ChannelsHold'
<1>1. cpc' \in [Channels -> ChannelLocation]
  BY DEF ChannelTypeOK, Goes
<1>2. joined' \in [Channels -> 0..MaxAttempts] /\ piece' \in [Channels -> Pieces \cup {NoPiece}]
  BY IncomingTransferAssumption DEF ChannelTypeOK, Goes
<1>3. ASSUME NEW d \in Channels, d # c
      PROVE  cpc'[d] = cpc[d] /\ joined'[d] = joined[d] /\ piece'[d] = piece[d]
  BY <1>3 DEF ChannelTypeOK, Goes
<1>4. /\ cpc'[c] = location
      /\ location \in InChannel => joined'[c] = joined[c]
      /\ location \in {"mark", "count"} => piece'[c] = piece[c]
  BY DEF ChannelTypeOK, Goes
<1>5. ChannelsHold'
  BY <1>3, <1>4 DEF ChannelsHold, InChannel
<1> QED
  BY <1>1, <1>2, <1>5 DEF ChannelTypeOK

LEMMA SignalShapes ==
    ASSUME HandlerTypeOK, NEW a \in 0..MaxAttempts
    PROVE  Notified(a) \subseteq Attempts
BY DEF Notified, HandlerTypeOK, Attempts

LEMMA LeaveShapes ==
    ASSUME Shapes, ChannelsHold, NEW c \in Channels, NEW location \in {"idle"} \cup Outcome,
           cpc[c] \in InChannel, Leave(c, location),
           resume' \in [Attempts -> SUBSET Pieces], UNCHANGED crashes
    PROVE  Shapes' /\ ChannelsHold'
<1> USE DEF Shapes, stored, controls
<1>1. ChannelTypeOK' /\ ChannelsHold'
  BY GoesShapes DEF Leave, ChannelLocation, Outcome, InChannel
<1>2. joined[c] \in 0..MaxAttempts
  BY DEF ChannelTypeOK
<1>3. signal' \subseteq Attempts
  BY <1>2, SignalShapes DEF Leave, HandlerTypeOK
<1> QED
  BY <1>1, <1>3 DEF Leave, StoredTypeOK, HandlerTypeOK, ControlTypeOK

LEMMA ChannelShapes ==
    ASSUME Shapes, ChannelsHold, NEW c \in Channels, ChannelStep(c), UNCHANGED crashes
    PROVE  Shapes' /\ ChannelsHold'
<1> USE DEF Shapes, stored, memory, handler, controls
<1>1. CASE OpenChannel(c)
  <2>1. ChannelTypeOK'
    BY <1>1 DEF OpenChannel, ChannelTypeOK, ControlTypeOK, ChannelLocation, InChannel, Outcome
  <2>2. ChannelsHold'
    BY <1>1 DEF OpenChannel, ChannelTypeOK, ControlTypeOK, ChannelsHold, InChannel, Attempts
  <2> QED
    BY <1>1, <2>1, <2>2 DEF OpenChannel, StoredTypeOK, HandlerTypeOK, ControlTypeOK
<1>2. ASSUME NEW p \in Pieces, Receive(c, p) PROVE Shapes' /\ ChannelsHold'
  <2>1. ChannelTypeOK'
    BY <1>2 DEF Receive, ChannelTypeOK, ChannelLocation, InChannel
  <2>2. ChannelsHold'
    BY <1>2 DEF Receive, ChannelTypeOK, ChannelsHold, InChannel
  <2> QED
    BY <1>2, <2>1, <2>2 DEF Receive, StoredTypeOK, HandlerTypeOK, ControlTypeOK
<1>3. CASE WriteChunk(c)
  <2>1. piece[c] \in Pieces
    BY <1>3 DEF WriteChunk, ChannelsHold
  <2>2. piece[c][2] \in Chunks
    BY <2>1 DEF Pieces
  <2>3. disk' \in [Files -> [Attempts -> SUBSET Chunks]]
    BY <1>3, <2>2 DEF WriteChunk, StoredTypeOK
  <2>4. ChannelTypeOK' /\ ChannelsHold'
    BY <1>3, <2>1 DEF WriteChunk, ChannelTypeOK, ChannelsHold, ChannelLocation, InChannel
  <2> QED
    BY <1>3, <2>3, <2>4 DEF WriteChunk, StoredTypeOK, HandlerTypeOK, ControlTypeOK
<1>4. ASSUME cpc[c] = "mark" PROVE [resume EXCEPT ![joined[c]] = @ \cup {piece[c]}] \in [Attempts -> SUBSET Pieces]
  BY <1>4 DEF ChannelsHold, HandlerTypeOK
<1>5. CASE MarkChunk(c)
  <2>1. ChannelTypeOK' /\ ChannelsHold'
    BY <1>5, GoesShapes DEF MarkChunk, ChannelLocation, InChannel
  <2>2. rows' \subseteq Pieces /\ resume' \in [Attempts -> SUBSET Pieces]
    <3>1. /\ cpc[c] = "mark" /\ piece[c] \in Pieces
          /\ [resume EXCEPT ![joined[c]] = @ \cup {piece[c]}] \in [Attempts -> SUBSET Pieces]
      BY <1>4, <1>5 DEF MarkChunk, ChannelsHold
    <3>2. \/ UNCHANGED <<rows, resume>>
          \/ rows' = rows \cup {piece[c]} /\ resume' = [resume EXCEPT ![joined[c]] = @ \cup {piece[c]}]
      BY <1>5 DEF MarkChunk
    <3> QED
      BY <3>1, <3>2 DEF StoredTypeOK, HandlerTypeOK
  <2> QED
    BY <1>5, <2>1, <2>2 DEF MarkChunk, StoredTypeOK, HandlerTypeOK, ControlTypeOK
<1>6. CASE CountChunk(c)
  <2>1. ChannelTypeOK' /\ ChannelsHold'
    BY <1>6, GoesShapes DEF CountChunk, ChannelLocation, InChannel
  <2>2. remaining' \in [Attempts -> Int]
    BY <1>6 DEF CountChunk, ChannelsHold, InChannel
  <2>3. signal' \subseteq Attempts
    BY <1>6, SignalShapes DEF CountChunk, HandlerTypeOK, ChannelTypeOK
  <2> QED
    BY <1>6, <2>1, <2>2, <2>3 DEF CountChunk, StoredTypeOK, HandlerTypeOK, ControlTypeOK
<1>7. CASE ChannelCloses(c)
  BY <1>7, LeaveShapes DEF ChannelCloses, InChannel, Outcome, HandlerTypeOK
<1>8. CASE ChannelFails(c)
  <2>1. PICK outcome \in Outcome : Leave(c, outcome) /\ cpc[c] \in InChannel /\ UNCHANGED resume
    BY <1>8 DEF ChannelFails, InChannel, Outcome
  <2> QED
    BY <2>1, LeaveShapes DEF HandlerTypeOK
<1>9. CASE RowFails(c)
  BY <1>4, <1>9, LeaveShapes DEF RowFails, InChannel, Outcome
<1>10. CASE SettleChannel(c)
  <2>1. record' \in TransferState \cup {"none"}
    BY <1>10, RecordOutcomes DEF SettleChannel, StoredTypeOK, Outcome
  <2>2. ChannelTypeOK' /\ ChannelsHold'
    BY <1>10 DEF SettleChannel, ChannelTypeOK, ChannelsHold, ChannelLocation, InChannel, Cleaning
  <2> QED
    BY <1>10, <2>1, <2>2 DEF SettleChannel, StoredTypeOK, HandlerTypeOK, ControlTypeOK
<1>11. CASE CleanChannel(c)
  <2>1. ChannelTypeOK' /\ ChannelsHold'
    BY <1>11 DEF CleanChannel, ChannelTypeOK, ChannelsHold, ChannelLocation, InChannel, Cleaning
  <2>2. temp' \in [Files -> 0..MaxAttempts] /\ rows' \subseteq Pieces
    BY <1>11, DeletionShapes DEF CleanChannel
  <2>3. UNCHANGED <<record, listed, disk, copies, handler, controls, user>>
    BY <1>11 DEF CleanChannel, DeletionStops, DeleteFiles, DeleteRows
  <2> QED
    BY <2>1, <2>2, <2>3 DEF StoredTypeOK, HandlerTypeOK, ControlTypeOK
<1> QED
  BY <1>1, <1>2, <1>3, <1>5, <1>6, <1>7, <1>8, <1>9, <1>10, <1>11 DEF ChannelStep

LEMMA RestShapes ==
    ASSUME Shapes, ChannelsHold,
           \/ /\ Command \/ Cancel \/ CancelCleans \/ \E f \in Files : LosePart(f)
              /\ UNCHANGED crashes
           \/ Crash
           \/ UNCHANGED vars
    PROVE  Shapes' /\ ChannelsHold'
<1> USE DEF Shapes, stored, memory, handler, controls, channel
<1>1. CASE Command /\ UNCHANGED crashes
  <2>1. record' \in TransferState
    BY <1>1, IncomingTransferAssumption DEF Command, CommandTarget, TransferCommand, TransferState
  <2> QED
    BY <1>1, <2>1 DEF Command, StoredTypeOK, HandlerTypeOK, ControlTypeOK, ChannelTypeOK, ChannelsHold
<1>2. CASE Cancel /\ UNCHANGED crashes
  <2>1. record' \in TransferState /\ user' \in {"idle"} \cup Cleaning
    BY <1>2 DEF Cancel, TransferState, Cleaning, ChannelTypeOK
  <2>2. cancelled' \subseteq Attempts /\ queued' \subseteq Attempts
    <3>1. {registered} \ {0} \subseteq Attempts
      BY IncomingTransferAssumption DEF ControlTypeOK, Attempts
    <3>2. cancelled' = cancelled \cup ({registered} \ {0}) \/ cancelled' = cancelled
      BY <1>2 DEF Cancel
    <3>3. queued' = queued \/ (registered # 0 /\ queued' = queued \cup {registered})
      BY <1>2 DEF Cancel
    <3> QED
      BY <3>1, <3>2, <3>3 DEF ControlTypeOK
  <2>3. UNCHANGED <<rows, listed, disk, temp, copies, handler, current, registered, channel>>
    BY <1>2 DEF Cancel
  <2>4. StoredTypeOK' /\ HandlerTypeOK'
    BY <2>1, <2>3 DEF StoredTypeOK, HandlerTypeOK
  <2>5. ControlTypeOK'
    BY <1>2, <2>1, <2>2, <2>3 DEF ControlTypeOK
  <2>6. ChannelTypeOK' /\ ChannelsHold'
    BY <2>1, <2>3 DEF ChannelTypeOK, ChannelsHold
  <2> QED
    BY <2>3, <2>4, <2>5, <2>6
<1>3. CASE CancelCleans /\ UNCHANGED crashes
  <2>1. temp' \in [Files -> 0..MaxAttempts] /\ rows' \subseteq Pieces /\ user' \in {"idle"} \cup Cleaning
    BY <1>3, DeletionShapes DEF CancelCleans, Cleaning
  <2>2. UNCHANGED <<record, listed, disk, copies, handler, controls, channel>>
    BY <1>3 DEF CancelCleans, DeletionStops, DeleteFiles, DeleteRows
  <2> QED
    BY <1>3, <2>1, <2>2 DEF StoredTypeOK, HandlerTypeOK, ControlTypeOK, ChannelTypeOK, ChannelsHold
<1>4. CASE (\E f \in Files : LosePart(f)) /\ UNCHANGED crashes
  BY <1>4, IncomingTransferAssumption
     DEF LosePart, StoredTypeOK, HandlerTypeOK, ControlTypeOK, ChannelTypeOK, ChannelsHold
<1>5. CASE Crash
  <2>1. record' \in TransferState \cup {"none"}
    BY <1>5, RecordOutcomes DEF Crash, StoredTypeOK, Outcome
  <2>2. HandlerTypeOK' /\ remaining' \in [Attempts -> Int]
    BY <1>5, IncomingTransferAssumption
       DEF Crash, HandlerTypeOK, HandlerLocation, None, NoTarget, NoCount
  <2>3. ControlTypeOK'
    BY <1>5, IncomingTransferAssumption DEF Crash, ControlTypeOK
  <2>4. ChannelTypeOK' /\ ChannelsHold'
    BY <1>5, IncomingTransferAssumption
       DEF Crash, ChannelTypeOK, ChannelsHold, AllIdle, NotJoined, Nothing, ChannelLocation, InChannel
  <2> QED
    BY <1>5, <2>1, <2>2, <2>3, <2>4 DEF Crash, StoredTypeOK
<1>6. CASE UNCHANGED vars
  BY <1>6 DEF vars, StoredTypeOK, HandlerTypeOK, ControlTypeOK, ChannelTypeOK, ChannelsHold
<1> QED
  BY <1>1, <1>2, <1>3, <1>4, <1>5, <1>6

LEMMA InitShapes == Init => Shapes /\ ChannelsHold
BY IncomingTransferAssumption
   DEF Init, Shapes, StoredTypeOK, HandlerTypeOK, ControlTypeOK, ChannelTypeOK, ChannelsHold,
       None, NoTarget, NoCount, AllIdle, NotJoined, Nothing, HandlerLocation, ChannelLocation, InChannel

LEMMA ControlChannels ==
    ASSUME ChannelsHold, NEW a \in Attempts, ControlStep(a)
    PROVE  ChannelsHold' /\ UNCHANGED channel
<1>1. UNCHANGED channel
  BY DEF ControlStep, Offer, OfferFails, Answer, OpenPart, ReadResume, Publish, Start, Check, Arm, Woken,
         GraceOver, RemoteCancel, RemoteControl, ForwardCancel, ControlFails, Verify, FinalizeFile,
         ClearChunks, RemoveDirectory, Finish, SettleControl, CleanControl
<1> QED
  BY <1>1 DEF ChannelsHold, channel

LEMMA StepShapes ==
    ASSUME Shapes, ChannelsHold, [Next]_vars
    PROVE  Shapes' /\ ChannelsHold'
BY ControlShapes, ControlChannels, ChannelShapes, RestShapes DEF Next

(* The state keeps its shape on every run.                                 *)
THEOREM ShapesKept == Spec => [](Shapes /\ ChannelsHold)
<1>1. Shapes /\ ChannelsHold /\ [Next]_vars => (Shapes /\ ChannelsHold)'
  BY StepShapes
<1> QED
  BY <1>1, InitShapes, PTL DEF Spec

-----------------------------------------------------------------------------
(* What a record and a handler claim was delivered.                        *)

Delivered(f) == copies[f] # <<>>

AllDelivered == \A f \in Files : Delivered(f)

(* finalize_incoming counts a file only once it is renamed, and only goes  *)
(* on when it has counted them all.                                        *)
ClaimsTrue ==
    /\ \A a \in Attempts :
          /\ \A f \in renamed[a] : Delivered(f)
          /\ pc[a] \in {"remove", "finish"} => AllDelivered
    /\ record = "Completed" => AllDelivered

(* Append never changes which element is first.                            *)
LEMMA AppendFirst ==
    ASSUME NEW S, NEW s \in Seq(S), NEW e \in S
    PROVE  /\ Append(s, e) # <<>>
           /\ s # <<>> => Append(s, e)[1] = s[1]
           /\ s = <<>> => Append(s, e)[1] = e
<1>1. Len(Append(s, e)) = Len(s) + 1 /\ Len(s) \in Nat
  OBVIOUS
<1>2. Append(s, e) # <<>>
  BY <1>1
<1>3. s # <<>> => Append(s, e)[1] = s[1]
  OBVIOUS
<1>4. s = <<>> => Append(s, e)[1] = e
  OBVIOUS
<1> QED
  BY <1>2, <1>3, <1>4


LEMMA ClaimsFrame ==
    ASSUME Shapes, ClaimsTrue, UNCHANGED copies,
           \A b \in Attempts : renamed'[b] \subseteq renamed[b],
           \A b \in Attempts : pc'[b] \in {"remove", "finish"} => pc[b] \in {"remove", "finish"} \/ AllDelivered,
           record' = "Completed" => record = "Completed" \/ AllDelivered
    PROVE  ClaimsTrue'
BY DEF ClaimsTrue, AllDelivered, Delivered

LEMMA OutcomesComplete ==
    ASSUME NEW state \in TransferState \cup {"none"}, NEW outcome \in Outcome
    PROVE  /\ AfterOutcome(state, outcome) = "Completed" => state = "Completed"
           /\ AfterRemotePause(state) = "Completed" => state = "Completed"
           /\ AfterRemoteCancel(state) = "Completed" => state = "Completed"
           /\ AfterRemoteResume(state) = "Completed" => state = "Completed"
           /\ Restored(state) = "Completed" => state = "Completed"
BY DEF AfterOutcome, AfterRemotePause, AfterRemoteCancel, AfterRemoteResume, Restored,
       Outcome, TransferState, Terminal

(* The control handler moves to a location it had nothing to prove for.    *)
LEMMA ClaimsMove ==
    ASSUME Shapes, ClaimsTrue, NEW a \in Attempts, NEW location,
           Goto(a, location), location \notin {"remove", "finish"}, UNCHANGED <<copies, renamed>>,
           record' = "Completed" => record = "Completed" \/ AllDelivered
    PROVE  ClaimsTrue'
<1>1. \A b \in Attempts : pc'[b] = IF b = a THEN location ELSE pc[b]
  BY DEF Shapes, HandlerTypeOK, Goto
<1> QED
  BY <1>1, ClaimsFrame

LEMMA ClaimsReturn ==
    ASSUME Shapes, ClaimsTrue, NEW a \in Attempts, NEW outcome \in Outcome \cup {"done"},
           Return(a, outcome), UNCHANGED copies,
           record' = "Completed" => record = "Completed" \/ AllDelivered
    PROVE  ClaimsTrue'
<1>1. \A b \in Attempts : pc'[b] = IF b = a THEN outcome ELSE pc[b]
  BY DEF Shapes, HandlerTypeOK, Goto, Return
<1>2. \A b \in Attempts : renamed'[b] \subseteq renamed[b]
  BY DEF Shapes, HandlerTypeOK, DropLocals, Return
<1>3. outcome \notin {"remove", "finish"}
  BY DEF Outcome
<1> QED
  BY <1>1, <1>2, <1>3, ClaimsFrame

LEMMA ControlClaims ==
    ASSUME Shapes, ClaimsTrue, NEW a \in Attempts, ControlStep(a)
    PROVE  ClaimsTrue'
<1> USE DEF stored, memory
<1>1. CASE Offer(a)
  BY <1>1, ClaimsMove DEF Offer
<1>2. CASE OfferFails(a)
  BY <1>2, ClaimsMove DEF OfferFails
<1>3. CASE Answer(a)
  BY <1>3, ClaimsMove, OutcomesComplete DEF Answer, Shapes, StoredTypeOK, Outcome
<1>4. CASE Publish(a)
  <2>1. \A b \in Attempts : pc'[b] = IF b = a THEN "greet" ELSE pc[b]
    BY <1>4 DEF Publish, Shapes, HandlerTypeOK, Goto
  <2>2. \A b \in Attempts : renamed'[b] \subseteq renamed[b]
    BY <1>4 DEF Publish, Shapes, HandlerTypeOK, DropLocals
  <2> QED
    BY <1>4, <2>1, <2>2, ClaimsFrame DEF Publish
<1>5. CASE \E next \in {"Transferring", "Verifying"}, location \in {"verify", "check", "finalize"} :
              Advance(a, next, location) /\ UNCHANGED copies
  <2>1. PICK next \in {"Transferring", "Verifying"}, location \in {"verify", "check", "finalize"} :
              Advance(a, next, location) /\ UNCHANGED copies
    BY <1>5
  <2>2. CASE record' = next /\ Goto(a, location) /\ UNCHANGED <<memory, controls>>
    BY <2>1, <2>2, ClaimsMove
  <2>3. CASE Return(a, "fatal") /\ UNCHANGED record
    BY <2>1, <2>3, ClaimsReturn DEF Outcome
  <2> QED
    BY <2>1, <2>2, <2>3 DEF Advance
<1>6. CASE Start(a)
  BY <1>5, <1>6 DEF Start
<1>7. CASE Verify(a)
  BY <1>5, <1>7 DEF Verify
<1>8. CASE Check(a) \/ Arm(a)
  BY <1>8, ClaimsMove, ClaimsReturn DEF Check, Arm, Outcome
<1>9. CASE Woken(a)
  BY <1>9, ClaimsMove, ClaimsReturn DEF Woken, Outcome
<1>10. CASE GraceOver(a) \/ ForwardCancel(a) \/ ControlFails(a)
  BY <1>10, ClaimsReturn DEF GraceOver, ForwardCancel, ControlFails, Outcome
<1>11. CASE RemoteCancel(a) \/ RemoteControl(a)
  BY <1>11, ClaimsMove, OutcomesComplete DEF RemoteCancel, RemoteControl, Shapes, StoredTypeOK, Outcome
<1>12. CASE ClearChunks(a)
  <2>1. AllDelivered
    BY <1>12 DEF ClearChunks, ClaimsTrue, AllDelivered
  <2> QED
    BY <1>12, <2>1, ClaimsFrame DEF ClearChunks
<1>13. CASE RemoveDirectory(a)
  <2>1. AllDelivered
    BY <1>13 DEF RemoveDirectory, ClaimsTrue
  <2> QED
    BY <1>13, <2>1, ClaimsFrame DEF RemoveDirectory
<1>14. CASE Finish(a)
  <2>1. AllDelivered
    BY <1>14 DEF Finish, ClaimsTrue
  <2> QED
    BY <1>14, <2>1, ClaimsReturn DEF Finish, Outcome
<1>15. CASE SettleControl(a)
  BY <1>15, ClaimsMove, OutcomesComplete DEF SettleControl, Shapes, StoredTypeOK, Outcome
<1>16. CASE CleanControl(a)
  BY <1>16, ClaimsMove DEF CleanControl, DeletionStops, DeleteFiles, DeleteRows
<1>17. ASSUME NEW f \in Files, OpenPart(a, f) \/ ReadResume(a, f) PROVE ClaimsTrue'
  BY <1>17, ClaimsFrame DEF OpenPart, ReadResume
<1>18. ASSUME NEW f \in Files, FinalizeFile(a, f) PROVE ClaimsTrue'
  <2>1. CASE \E outcome \in {"retryable", "fatal"} : Return(a, outcome) /\ UNCHANGED <<temp, copies>>
    BY <1>18, <2>1, ClaimsReturn DEF FinalizeFile, Outcome
  <2>2. CASE /\ temp[f] # 0
             /\ copies' = [copies EXCEPT ![f] = Append(@, temp[f])]
             /\ renamed' = [renamed EXCEPT ![a] = @ \cup {f}]
             /\ UNCHANGED pc
    <3>1. \A g \in Files : copies'[g] = IF g = f THEN Append(copies[f], temp[f]) ELSE copies[g]
      BY <1>18, <2>2 DEF Shapes, StoredTypeOK
    <3>2. Append(copies[f], temp[f]) # <<>>
      <4>1. copies[f] \in Seq(Attempts) /\ temp[f] \in Attempts
        BY <1>18, <2>2 DEF Shapes, StoredTypeOK, Attempts
      <4> QED
        BY <4>1, AppendFirst
    <3>3. Delivered(f)' /\ \A g \in Files : Delivered(g) => Delivered(g)'
      BY <1>18, <3>1, <3>2 DEF Delivered
    <3>4. \A b \in Attempts : renamed'[b] \subseteq renamed[b] \cup {f} /\ renamed[b] \subseteq Files
      BY <2>2 DEF Shapes, HandlerTypeOK
    <3> QED
      BY <1>18, <2>2, <3>3, <3>4 DEF FinalizeFile, ClaimsTrue, AllDelivered
  <2> QED
    BY <1>18, <2>1, <2>2 DEF FinalizeFile
<1> QED
  BY <1>1, <1>2, <1>3, <1>4, <1>6, <1>7, <1>8, <1>9, <1>10, <1>11, <1>12, <1>13, <1>14, <1>15,
     <1>16, <1>17, <1>18 DEF ControlStep

LEMMA ChannelClaims ==
    ASSUME Shapes, ClaimsTrue, NEW c \in Channels, ChannelStep(c)
    PROVE  ClaimsTrue'
<1>1. UNCHANGED <<pc, renamed, copies>>
  BY DEF ChannelStep, OpenChannel, WriteChunk, MarkChunk, CountChunk, ChannelCloses, ChannelFails, RowFails,
         SettleChannel, CleanChannel, Receive, Leave, DeletionStops, DeleteFiles, DeleteRows, stored, handler, memory
<1>2. UNCHANGED record \/ SettleChannel(c)
  BY DEF ChannelStep, OpenChannel, WriteChunk, MarkChunk, CountChunk, ChannelCloses, ChannelFails, RowFails,
         CleanChannel, Receive, Leave, DeletionStops, DeleteFiles, DeleteRows, stored
<1>3. record' = "Completed" => record = "Completed"
  BY <1>2, OutcomesComplete DEF SettleChannel, Shapes, StoredTypeOK, Outcome
<1> QED
  BY <1>1, <1>3, ClaimsFrame

LEMMA RestClaims ==
    ASSUME Shapes, ClaimsTrue,
           \/ Command \/ Cancel \/ CancelCleans \/ \E f \in Files : LosePart(f)
           \/ Crash
           \/ UNCHANGED vars
    PROVE  ClaimsTrue'
<1> USE DEF stored, memory, handler
<1>1. CASE Command
  BY <1>1, ClaimsFrame, IncomingTransferAssumption DEF Command, CommandTarget, TransferCommand
<1>2. CASE Cancel \/ CancelCleans \/ (\E f \in Files : LosePart(f)) \/ UNCHANGED vars
  BY <1>2, ClaimsFrame DEF Cancel, CancelCleans, LosePart, vars, DeletionStops, DeleteFiles, DeleteRows
<1>3. CASE Crash
  BY <1>3, ClaimsFrame, OutcomesComplete DEF Crash, Shapes, StoredTypeOK, None, Outcome
<1> QED
  BY <1>1, <1>2, <1>3

LEMMA StepClaims ==
    ASSUME Shapes, ClaimsTrue, [Next]_vars
    PROVE  ClaimsTrue'
BY ControlClaims, ChannelClaims, RestClaims DEF Next

(* A transfer shown as completed has delivered every file, however its     *)
(* attempts overlap, fail, are cancelled or crash: CompletedDelivered.     *)
THEOREM CompletedIsDelivered == Spec => []CompletedDelivered
<1>1. Init => ClaimsTrue
  BY DEF Init, ClaimsTrue, None
<1>2. Shapes /\ ClaimsTrue /\ [Next]_vars => ClaimsTrue'
  BY StepClaims
<1>3. ClaimsTrue => CompletedDelivered
  BY DEF ClaimsTrue, CompletedDelivered, AllDelivered, Delivered
<1> QED
  BY <1>1, <1>2, <1>3, ShapesKept, PTL DEF Spec

-----------------------------------------------------------------------------
(* What is known of the data when nothing is cancelled.                    *)

NeverCancelled ==
    /\ record # "Cancelled" /\ cancelled = {} /\ queued = {} /\ user = "idle"
    /\ \A a \in Attempts : pc[a] \notin {"cancelled"} \cup Cleaning
    /\ \A c \in Channels : cpc[c] \notin {"cancelled"} \cup Cleaning

LEMMA NeverFrame ==
    ASSUME NeverCancelled, UNCHANGED <<cancelled, queued, user>>, record' # "Cancelled",
           \A b \in Attempts : pc'[b] = pc[b] \/ pc'[b] \notin {"cancelled"} \cup Cleaning,
           \A d \in Channels : cpc'[d] = cpc[d] \/ cpc'[d] \notin {"cancelled"} \cup Cleaning
    PROVE  NeverCancelled'
BY DEF NeverCancelled, Cleaning

LEMMA OutcomesNotCancelled ==
    ASSUME NEW state \in TransferState \cup {"none"}, state # "Cancelled",
           NEW outcome \in {"retryable", "fatal"}
    PROVE  /\ AfterOutcome(state, outcome) # "Cancelled"
           /\ AfterRemotePause(state) # "Cancelled"
           /\ AfterRemoteResume(state) # "Cancelled"
           /\ Restored(state) # "Cancelled"
BY DEF AfterOutcome, AfterRemotePause, AfterRemoteResume, Restored, TransferState, Terminal

LEMMA NeverMove ==
    ASSUME Shapes, NeverCancelled, NEW a \in Attempts, NEW location,
           Goto(a, location), location \notin {"cancelled"} \cup Cleaning,
           UNCHANGED <<cancelled, queued, user, channel>>, record' # "Cancelled"
    PROVE  NeverCancelled'
<1>1. \A b \in Attempts : pc'[b] = IF b = a THEN location ELSE pc[b]
  BY DEF Shapes, HandlerTypeOK, Goto
<1> QED
  BY <1>1, NeverFrame DEF channel

LEMMA NeverReturn ==
    ASSUME Shapes, NeverCancelled, NEW a \in Attempts, NEW outcome \in {"retryable", "fatal", "done"},
           Return(a, outcome), UNCHANGED <<user, channel>>, record' # "Cancelled"
    PROVE  NeverCancelled'
BY NeverMove DEF Return, Cleaning

LEMMA ControlNever ==
    ASSUME ~MayCancel, Shapes, NeverCancelled, NEW a \in Attempts, ControlStep(a)
    PROVE  NeverCancelled'
<1> USE DEF stored, memory, controls, Cleaning
<1>1. record # "Cancelled" /\ ~Flagged(a) /\ queued = {}
  BY DEF NeverCancelled, Flagged
<1>2. CASE Offer(a) \/ OfferFails(a) \/ Arm(a)
  BY <1>1, <1>2, NeverMove DEF Offer, OfferFails, Arm
<1>3. CASE Answer(a)
  BY <1>1, <1>3, NeverMove, OutcomesNotCancelled DEF Answer, Shapes, StoredTypeOK
<1>4. CASE Publish(a)
  BY <1>1, <1>4, NeverMove DEF Publish
<1>5. CASE Start(a) \/ Verify(a)
  <2>1. PICK next \in {"Transferring", "Verifying"}, location \in {"verify", "check", "finalize"} :
              Advance(a, next, location) /\ UNCHANGED <<user, channel>>
    BY <1>5 DEF Start, Verify
  <2>2. CASE record' = next /\ Goto(a, location) /\ UNCHANGED <<memory, controls>>
    BY <1>1, <2>1, <2>2, NeverMove
  <2>3. CASE Return(a, "fatal") /\ UNCHANGED record
    BY <1>1, <2>1, <2>3, NeverReturn
  <2> QED
    BY <2>1, <2>2, <2>3 DEF Advance
<1>6. CASE Check(a) \/ Woken(a)
  BY <1>1, <1>6, NeverMove, NeverReturn DEF Check, Woken
<1>7. CASE GraceOver(a) \/ ControlFails(a)
  BY <1>1, <1>7, NeverReturn DEF GraceOver, ControlFails
<1>8. CASE RemoteCancel(a) \/ ForwardCancel(a)
  BY <1>1, <1>8 DEF RemoteCancel, ForwardCancel
<1>9. CASE RemoteControl(a)
  BY <1>1, <1>9, NeverMove, OutcomesNotCancelled DEF RemoteControl, Shapes, StoredTypeOK
<1>10. CASE ClearChunks(a) \/ RemoveDirectory(a)
  BY <1>1, <1>10, NeverMove DEF ClearChunks, RemoveDirectory
<1>11. CASE Finish(a)
  BY <1>1, <1>11, NeverReturn DEF Finish
<1>12. CASE SettleControl(a)
  <2>1. pc[a] \in {"retryable", "fatal"} /\ ~AsCancelled(pc[a])
    BY <1>1, <1>12 DEF SettleControl, NeverCancelled, Outcome, AsCancelled
  <2> QED
    BY <1>1, <1>12, <2>1, NeverMove, OutcomesNotCancelled DEF SettleControl, Shapes, StoredTypeOK
<1>13. CASE CleanControl(a)
  BY <1>13 DEF CleanControl, NeverCancelled
<1>14. ASSUME NEW f \in Files, OpenPart(a, f) \/ ReadResume(a, f) PROVE NeverCancelled'
  BY <1>1, <1>14, NeverFrame DEF OpenPart, ReadResume, channel
<1>15. ASSUME NEW f \in Files, FinalizeFile(a, f) PROVE NeverCancelled'
  <2>1. CASE UNCHANGED <<pc, controls>>
    BY <1>1, <1>15, <2>1, NeverFrame DEF FinalizeFile, channel
  <2>2. CASE \E outcome \in {"retryable", "fatal"} : Return(a, outcome)
    BY <1>1, <1>15, <2>2, NeverReturn DEF FinalizeFile
  <2> QED
    BY <1>15, <2>1, <2>2 DEF FinalizeFile
<1> QED
  BY <1>2, <1>3, <1>4, <1>5, <1>6, <1>7, <1>8, <1>9, <1>10, <1>11, <1>12, <1>13, <1>14, <1>15
     DEF ControlStep

LEMMA ChannelNever ==
    ASSUME Shapes, ChannelsHold, NeverCancelled, NEW c \in Channels, ChannelStep(c)
    PROVE  NeverCancelled'
<1> USE DEF stored, handler, memory, controls, Cleaning
<1>1. record # "Cancelled" /\ \A b : ~Flagged(b)
  BY DEF NeverCancelled, Flagged
<1>2. ASSUME NEW location, cpc' = [cpc EXCEPT ![c] = location],
             location \notin {"cancelled"} \cup Cleaning, record' # "Cancelled",
             UNCHANGED <<pc, controls, user>>
      PROVE  NeverCancelled'
  <2>1. \A d \in Channels : cpc'[d] = IF d = c THEN location ELSE cpc[d]
    BY <1>2 DEF Shapes, ChannelTypeOK
  <2> QED
    BY <1>2, <2>1, NeverFrame
<1>3. CASE SettleChannel(c)
  <2>1. cpc[c] \in {"retryable", "fatal"} /\ ~AsCancelled(cpc[c])
    BY <1>1, <1>3 DEF SettleChannel, NeverCancelled, Outcome, AsCancelled
  <2> QED
    BY <1>1, <1>2, <1>3, <2>1, OutcomesNotCancelled DEF SettleChannel, Shapes, StoredTypeOK
<1>4. CASE CleanChannel(c)
  BY <1>4 DEF CleanChannel, NeverCancelled
<1>5. CASE OpenChannel(c) \/ WriteChunk(c)
  BY <1>1, <1>2, <1>5 DEF OpenChannel, WriteChunk
<1>6. CASE MarkChunk(c) \/ CountChunk(c)
  BY <1>1, <1>2, <1>6 DEF MarkChunk, CountChunk, Goes
<1>7. CASE ChannelCloses(c) \/ ChannelFails(c) \/ RowFails(c)
  BY <1>1, <1>2, <1>7 DEF ChannelCloses, ChannelFails, RowFails, Leave, Goes
<1>8. ASSUME NEW p \in Pieces, Receive(c, p) PROVE NeverCancelled'
  BY <1>1, <1>2, <1>8 DEF Receive
<1> QED
  BY <1>3, <1>4, <1>5, <1>6, <1>7, <1>8 DEF ChannelStep

LEMMA RestNever ==
    ASSUME ~MayCancel, Shapes, NeverCancelled,
           \/ Command \/ Cancel \/ CancelCleans \/ \E f \in Files : LosePart(f)
           \/ Crash
           \/ UNCHANGED vars
    PROVE  NeverCancelled'
<1> USE DEF stored, handler, memory, controls, channel
<1>1. CASE Command
  <2>1. record' # "Cancelled"
    BY <1>1, IncomingTransferAssumption DEF Command, CommandTarget, TransferCommand
  <2> QED
    BY <1>1, <2>1, NeverFrame DEF Command
<1>2. CASE Cancel \/ CancelCleans
  BY <1>2 DEF Cancel, CancelCleans, NeverCancelled
<1>3. CASE (\E f \in Files : LosePart(f)) \/ UNCHANGED vars
  BY <1>3, NeverFrame DEF LosePart, vars, NeverCancelled
<1>4. CASE Crash
  <2>1. record' # "Cancelled"
    BY <1>4, OutcomesNotCancelled DEF Crash, Shapes, StoredTypeOK, NeverCancelled
  <2> QED
    BY <1>4, <2>1 DEF Crash, NeverCancelled, AllIdle, Cleaning
<1> QED
  BY <1>1, <1>2, <1>3, <1>4

LEMMA StepNever ==
    ASSUME ~MayCancel, Shapes, ChannelsHold, NeverCancelled, [Next]_vars
    PROVE  NeverCancelled'
BY ControlNever, ChannelNever, RestNever DEF Next


Opened(a) == \A f \in Files : target[a][f] # 0

(* Contexts others can reach have all their files open.                    *)
ContextsOpened ==
    /\ \A a \in Attempts : \A f \in ready[a] : target[a][f] # 0
    /\ current # 0 => Opened(current)
    /\ \A c \in Channels : cpc[c] \in InChannel => Opened(joined[c])

(* Every attempt writes the inode now at the path of the .part file, until *)
(* the file is delivered.                                                  *)
TargetsCurrent ==
    \A a \in Attempts, f \in Files :
        target[a][f] # 0 => target[a][f] = temp[f] \/ Delivered(f)

(* A row claims what the .part file holds.                                 *)
RowsBacked ==
    \A p \in rows : Delivered(p[1]) \/ (temp[p[1]] # 0 /\ p[2] \in disk[p[1]][temp[p[1]]])

(* A resume map claims what the file it belongs to holds.                  *)
ResumeHeld ==
    \A a \in Attempts : \A p \in resume[a] :
        Delivered(p[1]) \/ (target[a][p[1]] # 0 /\ p[2] \in disk[p[1]][target[a][p[1]]])

(* A chunk is marked after it is written.                                  *)
MarksWritten ==
    \A c \in Channels :
        cpc[c] = "mark" => piece[c][2] \in disk[piece[c][1]][target[joined[c]][piece[c][1]]]

DataHeld ==
    /\ ContextsOpened /\ TargetsCurrent /\ RowsBacked /\ ResumeHeld /\ MarksWritten
    /\ FirstDeliveryIntact

(* Steps that touch no data, and let no data handler reach new files.      *)
LEMMA DataFrame ==
    ASSUME DataHeld, UNCHANGED <<rows, disk, temp, copies, target, resume>>,
           \A b \in Attempts : ready'[b] \subseteq ready[b],
           current' \in {0, current},
           \A c \in Channels :
              /\ cpc'[c] \in InChannel =>
                    \/ cpc[c] \in InChannel /\ joined'[c] = joined[c]
                    \/ joined'[c] = current /\ current # 0
              /\ cpc'[c] = "mark" =>
                    cpc[c] = "mark" /\ joined'[c] = joined[c] /\ piece'[c] = piece[c]
    PROVE  DataHeld'
<1>1. ContextsOpened'
  BY DEF DataHeld, ContextsOpened, Opened
<1>2. TargetsCurrent' /\ RowsBacked' /\ ResumeHeld' /\ FirstDeliveryIntact'
  BY DEF DataHeld, TargetsCurrent, RowsBacked, ResumeHeld, FirstDeliveryIntact, Intact, Delivered
<1>3. MarksWritten'
  BY DEF DataHeld, MarksWritten
<1> QED
  BY <1>1, <1>2, <1>3 DEF DataHeld

(* A row, a target and a mark stay backed while data only grows and files  *)
(* are only delivered.                                                     *)
LEMMA ControlFrame ==
    ASSUME Shapes, DataHeld, NEW a \in Attempts, UNCHANGED <<rows, disk, temp, copies, target, resume, channel>>,
           ready' = ready \/ DropLocals(a), current' \in {0, current}
    PROVE  DataHeld'
<1>1. \A b \in Attempts : ready'[b] \subseteq ready[b]
  BY DEF DropLocals, Shapes, HandlerTypeOK
<1>2. UNCHANGED <<cpc, joined, piece>>
  BY DEF channel
<1> QED
  BY <1>1, <1>2, DataFrame

LEMMA ReturnFrame ==
    ASSUME Shapes, DataHeld, NEW a \in Attempts, NEW outcome, Return(a, outcome),
           UNCHANGED <<rows, disk, temp, copies, channel>>
    PROVE  DataHeld'
BY ControlFrame DEF Return

LEMMA OpenPartHolds ==
    ASSUME Shapes, ChannelsHold, DataHeld, NEW a \in Attempts, NEW f \in Files, OpenPart(a, f)
    PROVE  DataHeld'
<1> USE DEF memory, controls, channel
<1>1. UNCHANGED <<rows, disk, copies, ready, resume, current, channel>>
  BY DEF OpenPart
<1>2. /\ \A g \in Files : temp'[g] = IF g = f /\ temp[f] = 0 THEN a ELSE temp[g]
      /\ temp'[f] # 0
  BY DEF OpenPart, Shapes, StoredTypeOK, Attempts
<1>3. /\ target[a][f] = 0
      /\ \A b \in Attempts, g \in Files :
            target'[b][g] = IF b = a /\ g = f THEN temp'[f] ELSE target[b][g]
  BY DEF OpenPart, Shapes, HandlerTypeOK
<1>4. ContextsOpened'
  <2>1. \A b \in Attempts, g \in Files : target[b][g] # 0 => target'[b][g] # 0
    BY <1>2, <1>3
  <2>2. (current # 0 => current \in Attempts) /\ \A b \in Attempts : ready[b] \subseteq Files
    BY IncomingTransferAssumption DEF Shapes, ControlTypeOK, HandlerTypeOK, Attempts
  <2>3. \A b \in Attempts : Opened(b) => Opened(b)'
    BY <2>1 DEF Opened
  <2> QED
    BY <1>1, <2>1, <2>2, <2>3 DEF DataHeld, ContextsOpened, ChannelsHold
<1>5. TargetsCurrent'
  BY <1>1, <1>2, <1>3 DEF DataHeld, TargetsCurrent, Delivered
<1>6. RowsBacked'
  BY <1>1, <1>2 DEF DataHeld, RowsBacked, Delivered, Shapes, StoredTypeOK, Pieces
<1>7. ResumeHeld'
  <2> SUFFICES ASSUME NEW b \in Attempts, NEW p \in resume[b], p \in Pieces, ~Delivered(p[1])
               PROVE  target'[b][p[1]] # 0 /\ p[2] \in disk[p[1]][target'[b][p[1]]]
    BY <1>1 DEF ResumeHeld, Delivered, Shapes, HandlerTypeOK
  <2>1. p[1] \in Files /\ target[b][p[1]] # 0 /\ p[2] \in disk[p[1]][target[b][p[1]]]
    BY DEF DataHeld, ResumeHeld, Pieces
  <2> QED
    BY <1>3, <2>1
<1>8. MarksWritten'
  <2> SUFFICES ASSUME NEW c \in Channels, cpc[c] = "mark"
               PROVE  piece[c][2] \in disk[piece[c][1]][target'[joined[c]][piece[c][1]]]
    BY <1>1 DEF MarksWritten
  <2>1. joined[c] \in Attempts /\ piece[c][1] \in Files
    BY DEF ChannelsHold, InChannel, Pieces
  <2>2. target[joined[c]][piece[c][1]] # 0
    BY <2>1 DEF DataHeld, ContextsOpened, Opened, InChannel
  <2> QED
    BY <1>3, <2>1, <2>2 DEF DataHeld, MarksWritten
<1>9. FirstDeliveryIntact'
  BY <1>1 DEF DataHeld, FirstDeliveryIntact, Intact
<1> QED
  BY <1>4, <1>5, <1>6, <1>7, <1>8, <1>9 DEF DataHeld

LEMMA ReadResumeHolds ==
    ASSUME Shapes, DataHeld, NEW a \in Attempts, NEW f \in Files, ReadResume(a, f)
    PROVE  DataHeld'
<1> USE DEF memory, controls, channel
<1>1. UNCHANGED <<rows, disk, temp, copies, target, current, channel>> /\ target[a][f] # 0
  BY DEF ReadResume
<1>2. \A b \in Attempts : \A g \in ready'[b] : g \in ready[b] \/ (b = a /\ g = f)
  BY DEF ReadResume, Shapes, HandlerTypeOK
<1>3. \A b \in Attempts : \A p \in resume'[b] : p \in resume[b] \/ (b = a /\ p \in rows /\ p[1] = f)
  BY DEF ReadResume, Shapes, HandlerTypeOK
<1>4. ContextsOpened'
  BY <1>1, <1>2 DEF DataHeld, ContextsOpened, Opened
<1>5. ResumeHeld'
  <2> SUFFICES ASSUME NEW b \in Attempts, NEW p \in resume'[b], ~Delivered(p[1])
               PROVE  target[b][p[1]] # 0 /\ p[2] \in disk[p[1]][target[b][p[1]]]
    BY <1>1 DEF ResumeHeld, Delivered
  <2>1. CASE p \in resume[b]
    BY <2>1 DEF DataHeld, ResumeHeld
  <2>2. CASE b = a /\ p \in rows /\ p[1] = f
    BY <1>1, <2>2 DEF DataHeld, RowsBacked, TargetsCurrent
  <2> QED
    BY <1>3, <2>1, <2>2
<1>6. TargetsCurrent' /\ RowsBacked' /\ MarksWritten' /\ FirstDeliveryIntact'
  BY <1>1 DEF DataHeld, TargetsCurrent, RowsBacked, MarksWritten, FirstDeliveryIntact, Intact, Delivered
<1> QED
  BY <1>4, <1>5, <1>6 DEF DataHeld

LEMMA PublishHolds ==
    ASSUME Shapes, DataHeld, NEW a \in Attempts, Publish(a)
    PROVE  DataHeld'
<1> USE DEF stored, channel
<1>1. UNCHANGED <<rows, disk, temp, copies, target, resume, channel>> /\ current' = a
  BY DEF Publish
<1>2. Opened(a)
  BY DEF Publish, DataHeld, ContextsOpened, Opened
<1>3. \A b \in Attempts : ready'[b] \subseteq ready[b]
  BY DEF Publish, DropLocals, Shapes, HandlerTypeOK
<1>4. ContextsOpened'
  BY <1>1, <1>2, <1>3 DEF DataHeld, ContextsOpened, Opened
<1>5. TargetsCurrent' /\ RowsBacked' /\ ResumeHeld' /\ MarksWritten' /\ FirstDeliveryIntact'
  BY <1>1 DEF DataHeld, TargetsCurrent, RowsBacked, ResumeHeld, MarksWritten, FirstDeliveryIntact, Intact, Delivered
<1> QED
  BY <1>4, <1>5 DEF DataHeld

(* A complete resume map and a .part file at its path: what is renamed is  *)
(* the inode the map is about, or the file was delivered before.           *)
LEMMA FinalizeHolds ==
    ASSUME Shapes, ChannelsHold, DataHeld, NEW a \in Attempts, NEW f \in Files, FinalizeFile(a, f)
    PROVE  DataHeld'
<1> USE DEF memory, controls, channel
<1>1. CASE \E outcome \in {"retryable", "fatal"} : Return(a, outcome) /\ UNCHANGED <<temp, copies>>
  BY <1>1, ReturnFrame DEF FinalizeFile
<1>2. CASE /\ Complete(a, f) /\ temp[f] # 0
           /\ copies' = [copies EXCEPT ![f] = Append(@, temp[f])]
           /\ temp' = [temp EXCEPT ![f] = 0]
           /\ UNCHANGED <<ready, target, resume, current>>
  <2>1. UNCHANGED <<rows, disk, ready, target, resume, current, channel>>
    BY <1>2 DEF FinalizeFile
  <2>2. /\ \A g \in Files : g # f => temp'[g] = temp[g] /\ copies'[g] = copies[g]
        /\ copies'[f] = Append(copies[f], temp[f])
    BY <1>2 DEF Shapes, StoredTypeOK
  <2>3. copies[f] \in Seq(Attempts) /\ temp[f] \in Attempts
    BY <1>2 DEF Shapes, StoredTypeOK, Attempts
  <2>4. /\ copies'[f] # <<>>
        /\ copies[f] # <<>> => copies'[f][1] = copies[f][1]
        /\ copies[f] = <<>> => copies'[f][1] = temp[f]
    BY <2>2, <2>3, AppendFirst
  <2>5. Delivered(f)' /\ \A g \in Files : Delivered(g) => Delivered(g)'
    BY <2>2, <2>4 DEF Delivered
  <2>6. copies[f] = <<>> => disk[f][temp[f]] = Chunks
    <3> SUFFICES ASSUME copies[f] = <<>>, NEW k \in Chunks PROVE k \in disk[f][temp[f]]
      BY <2>3 DEF Shapes, StoredTypeOK
    <3>1. <<f, k>> \in resume[a]
      BY <1>2 DEF Complete
    <3>2. target[a][f] # 0 /\ k \in disk[f][target[a][f]]
      BY <3>1 DEF DataHeld, ResumeHeld, Delivered
    <3> QED
      BY <3>2 DEF DataHeld, TargetsCurrent, Delivered
  <2>7. FirstDeliveryIntact'
    BY <2>1, <2>2, <2>4, <2>6 DEF DataHeld, FirstDeliveryIntact, Intact
  <2>8. TargetsCurrent'
    BY <2>1, <2>2, <2>5 DEF DataHeld, TargetsCurrent
  <2>9. RowsBacked'
    <3> SUFFICES ASSUME NEW p \in rows, ~Delivered(p[1])'
                 PROVE  temp'[p[1]] # 0 /\ p[2] \in disk[p[1]][temp'[p[1]]]
      BY <2>1 DEF RowsBacked
    <3>1. p[1] \in Files /\ p[1] # f /\ ~Delivered(p[1])
      BY <2>5 DEF Shapes, StoredTypeOK, Pieces
    <3> QED
      BY <2>2, <3>1 DEF DataHeld, RowsBacked
  <2>10. ResumeHeld'
    <3> SUFFICES ASSUME NEW b \in Attempts, NEW p \in resume[b], ~Delivered(p[1])'
                 PROVE  target[b][p[1]] # 0 /\ p[2] \in disk[p[1]][target[b][p[1]]]
      BY <2>1 DEF ResumeHeld
    <3>1. p[1] \in Files /\ ~Delivered(p[1])
      BY <2>5 DEF Shapes, HandlerTypeOK, Pieces
    <3> QED
      BY <3>1 DEF DataHeld, ResumeHeld
  <2>11. ContextsOpened' /\ MarksWritten'
    BY <2>1 DEF DataHeld, ContextsOpened, MarksWritten, Opened
  <2> QED
    BY <2>7, <2>8, <2>9, <2>10, <2>11 DEF DataHeld
<1> QED
  BY <1>1, <1>2 DEF FinalizeFile

(* Once all is delivered, rows and .part files may go.                     *)
LEMMA ForgetHolds ==
    ASSUME DataHeld, AllDelivered, Shapes, UNCHANGED <<disk, copies, memory, controls, channel>>,
           rows' \subseteq rows
    PROVE  DataHeld'
<1> USE DEF memory, controls, channel
<1>1. TargetsCurrent'
  BY DEF TargetsCurrent, AllDelivered, Delivered
<1>2. RowsBacked'
  BY DEF RowsBacked, AllDelivered, Delivered, Shapes, StoredTypeOK, Pieces
<1>3. ContextsOpened' /\ ResumeHeld' /\ MarksWritten' /\ FirstDeliveryIntact'
  BY DEF DataHeld, ContextsOpened, Opened, ResumeHeld, MarksWritten, FirstDeliveryIntact, Intact, Delivered
<1> QED
  BY <1>1, <1>2, <1>3 DEF DataHeld

LEMMA ControlHolds ==
    ASSUME ~MayCancel, Shapes, ChannelsHold, ClaimsTrue, NeverCancelled, DataHeld,
           NEW a \in Attempts, ControlStep(a)
    PROVE  DataHeld'
<1> USE DEF stored, memory, controls, channel
<1>1. CASE Offer(a) \/ OfferFails(a) \/ Answer(a) \/ Arm(a) \/ RemoteControl(a) \/ SettleControl(a)
  BY <1>1, ControlFrame DEF Offer, OfferFails, Answer, Arm, RemoteControl, SettleControl
<1>2. CASE Start(a) \/ Verify(a) \/ Check(a) \/ Woken(a)
  BY <1>2, ControlFrame, ReturnFrame DEF Start, Verify, Check, Woken, Advance
<1>3. CASE GraceOver(a) \/ ControlFails(a) \/ ForwardCancel(a) \/ Finish(a)
  BY <1>3, ReturnFrame DEF GraceOver, ControlFails, ForwardCancel, Finish
<1>4. CASE RemoteCancel(a) \/ CleanControl(a)
  BY <1>4 DEF RemoteCancel, CleanControl, NeverCancelled, Cleaning
<1>5. CASE ClearChunks(a)
  <2>1. AllDelivered
    BY <1>5 DEF ClearChunks, ClaimsTrue, AllDelivered
  <2> QED
    BY <1>5, <2>1, ForgetHolds DEF ClearChunks
<1>6. CASE RemoveDirectory(a)
  <2>1. AllDelivered
    BY <1>6 DEF RemoveDirectory, ClaimsTrue
  <2> QED
    BY <1>6, <2>1, ForgetHolds DEF RemoveDirectory
<1> QED
  BY <1>1, <1>2, <1>3, <1>4, <1>5, <1>6, PublishHolds, OpenPartHolds, ReadResumeHolds, FinalizeHolds
     DEF ControlStep

(* Goes never takes a data handler to "read" or a mark out of nowhere.     *)
LEMMA GoesFrame ==
    ASSUME Shapes, NEW c \in Channels, NEW location, Goes(c, location),
           cpc[c] \in InChannel, location # "mark"
    PROVE  \A d \in Channels :
              /\ cpc'[d] \in InChannel => cpc[d] \in InChannel /\ joined'[d] = joined[d]
              /\ cpc'[d] = "mark" => cpc[d] = "mark" /\ joined'[d] = joined[d] /\ piece'[d] = piece[d]
BY DEF Goes, Shapes, ChannelTypeOK, InChannel

(* A chunk that is being marked is on disk, in the file of its context.    *)
LEMMA MarkedWritten ==
    ASSUME Shapes, ChannelsHold, DataHeld, NEW c \in Channels, cpc[c] = "mark"
    PROVE  /\ joined[c] \in Attempts /\ piece[c] \in Pieces /\ piece[c][1] \in Files
           /\ target[joined[c]][piece[c][1]] # 0
           /\ piece[c][2] \in disk[piece[c][1]][target[joined[c]][piece[c][1]]]
<1>1. joined[c] \in Attempts /\ piece[c] \in Pieces /\ piece[c][1] \in Files
  BY DEF ChannelsHold, InChannel, Pieces
<1> QED
  BY <1>1 DEF DataHeld, ContextsOpened, Opened, MarksWritten, InChannel

(* Marking a chunk in the map, with or without its row, and going on.      *)
LEMMA MarkHolds ==
    ASSUME Shapes, ChannelsHold, DataHeld, NEW c \in Channels, NEW location,
           cpc[c] = "mark", Goes(c, location), location # "mark",
           resume' = [resume EXCEPT ![joined[c]] = @ \cup {piece[c]}],
           rows' = rows \/ rows' = rows \cup {piece[c]},
           UNCHANGED <<disk, temp, copies, target, ready, current>>
    PROVE  DataHeld'
<1>1. \A d \in Channels :
         /\ cpc'[d] \in InChannel => cpc[d] \in InChannel /\ joined'[d] = joined[d]
         /\ cpc'[d] = "mark" => cpc[d] = "mark" /\ joined'[d] = joined[d] /\ piece'[d] = piece[d]
  BY GoesFrame DEF InChannel
<1>2. ContextsOpened' /\ MarksWritten'
  BY <1>1 DEF DataHeld, ContextsOpened, Opened, MarksWritten
<1>3. TargetsCurrent' /\ FirstDeliveryIntact'
  BY DEF DataHeld, TargetsCurrent, FirstDeliveryIntact, Intact, Delivered
<1>4. /\ joined[c] \in Attempts /\ piece[c] \in Pieces /\ piece[c][1] \in Files
      /\ target[joined[c]][piece[c][1]] # 0
      /\ piece[c][2] \in disk[piece[c][1]][target[joined[c]][piece[c][1]]]
  BY MarkedWritten
<1>5. RowsBacked'
  <2>1. Delivered(piece[c][1]) \/ target[joined[c]][piece[c][1]] = temp[piece[c][1]]
    BY <1>4 DEF DataHeld, TargetsCurrent
  <2> QED
    BY <1>4, <2>1 DEF DataHeld, RowsBacked, Delivered
<1>6. ResumeHeld'
  <2>1. \A b \in Attempts : \A p \in resume'[b] : p \in resume[b] \/ (b = joined[c] /\ p = piece[c])
    BY DEF Shapes, HandlerTypeOK
  <2> QED
    BY <1>4, <2>1 DEF DataHeld, ResumeHeld, Delivered
<1> QED
  BY <1>2, <1>3, <1>5, <1>6 DEF DataHeld

LEMMA WriteHolds ==
    ASSUME Shapes, ChannelsHold, DataHeld, NEW c \in Channels, WriteChunk(c)
    PROVE  DataHeld'
<1> USE DEF handler, memory, controls
<1> DEFINE f == piece[c][1]
           inode == target[joined[c]][f]
<1>1. /\ cpc[c] = "write"
      /\ disk' = [disk EXCEPT ![f][inode] = @ \cup {piece[c][2]}]
      /\ cpc' = [cpc EXCEPT ![c] = "mark"]
      /\ UNCHANGED <<rows, temp, copies, target, resume, ready, current, joined, piece>>
  BY DEF WriteChunk
<1>2. f \in Files /\ piece[c][2] \in Chunks /\ joined[c] \in Attempts
  BY <1>1 DEF ChannelsHold, InChannel, Pieces
<1>3. inode \in Attempts
  BY <1>1, <1>2, IncomingTransferAssumption
     DEF DataHeld, ContextsOpened, Opened, InChannel, Shapes, HandlerTypeOK, Attempts
<1> HIDE DEF f, inode
<1>4. \A g \in Files, i \in Attempts :
         disk'[g][i] = IF g = f /\ i = inode THEN disk[g][i] \cup {piece[c][2]} ELSE disk[g][i]
  BY <1>1, <1>2, <1>3 DEF Shapes, StoredTypeOK
<1>5. \A g \in Files, i \in Attempts : disk[g][i] \subseteq disk'[g][i]
  BY <1>4
<1>6. \A d \in Channels : cpc'[d] = IF d = c THEN "mark" ELSE cpc[d]
  BY <1>1 DEF Shapes, ChannelTypeOK
<1>7. ContextsOpened'
  BY <1>1, <1>6 DEF DataHeld, ContextsOpened, Opened, InChannel
<1>8. TargetsCurrent'
  BY <1>1 DEF DataHeld, TargetsCurrent, Delivered
<1>9. RowsBacked'
  <2> SUFFICES ASSUME NEW p \in rows, ~Delivered(p[1])
               PROVE  temp[p[1]] # 0 /\ p[2] \in disk'[p[1]][temp[p[1]]]
    BY <1>1 DEF RowsBacked, Delivered
  <2>1. p[1] \in Files /\ temp[p[1]] # 0 /\ p[2] \in disk[p[1]][temp[p[1]]]
    BY DEF DataHeld, RowsBacked, Shapes, StoredTypeOK, Pieces
  <2>2. temp[p[1]] \in Attempts
    BY <2>1, IncomingTransferAssumption DEF Shapes, StoredTypeOK, Attempts
  <2> QED
    BY <1>5, <2>1, <2>2
<1>10. ResumeHeld'
  <2> SUFFICES ASSUME NEW b \in Attempts, NEW p \in resume[b], ~Delivered(p[1])
               PROVE  target[b][p[1]] # 0 /\ p[2] \in disk'[p[1]][target[b][p[1]]]
    BY <1>1 DEF ResumeHeld, Delivered
  <2>1. p[1] \in Files /\ target[b][p[1]] # 0 /\ p[2] \in disk[p[1]][target[b][p[1]]]
    BY DEF DataHeld, ResumeHeld, Shapes, HandlerTypeOK, Pieces
  <2>2. target[b][p[1]] \in Attempts
    BY <2>1, IncomingTransferAssumption DEF Shapes, HandlerTypeOK, Attempts
  <2> QED
    BY <1>5, <2>1, <2>2
<1>11. MarksWritten'
  <2> SUFFICES ASSUME NEW d \in Channels, cpc'[d] = "mark"
               PROVE  piece[d][2] \in disk'[piece[d][1]][target[joined[d]][piece[d][1]]]
    BY <1>1 DEF MarksWritten
  <2>1. CASE d = c
    BY <1>2, <1>3, <1>4, <2>1 DEF f, inode
  <2>2. CASE d # c
    <3>1. cpc[d] = "mark"
      BY <1>6, <2>2
    <3>2. /\ joined[d] \in Attempts /\ piece[d][1] \in Files
          /\ target[joined[d]][piece[d][1]] # 0
          /\ piece[d][2] \in disk[piece[d][1]][target[joined[d]][piece[d][1]]]
      BY <3>1, MarkedWritten
    <3>3. target[joined[d]][piece[d][1]] \in Attempts
      BY <3>2, IncomingTransferAssumption DEF Shapes, HandlerTypeOK, Attempts
    <3> QED
      BY <1>5, <3>2, <3>3
  <2> QED
    BY <2>1, <2>2
<1>12. FirstDeliveryIntact'
  <2> SUFFICES ASSUME NEW g \in Files, copies[g] # <<>>
               PROVE  disk'[g][copies[g][1]] = Chunks
    BY <1>1 DEF FirstDeliveryIntact, Intact
  <2>1. disk[g][copies[g][1]] = Chunks
    BY DEF DataHeld, FirstDeliveryIntact, Intact
  <2>2. copies[g][1] \in Attempts
    <3>1. copies[g] \in Seq(Attempts)
      BY DEF Shapes, StoredTypeOK
    <3> QED
      BY <3>1
  <2> QED
    BY <1>2, <1>4, <2>1, <2>2
<1> QED
  BY <1>7, <1>8, <1>9, <1>10, <1>11, <1>12 DEF DataHeld

LEMMA ChannelHolds ==
    ASSUME Shapes, ChannelsHold, NeverCancelled, DataHeld, NEW c \in Channels, ChannelStep(c)
    PROVE  DataHeld'
<1> USE DEF stored, handler, memory, controls
<1>1. CASE OpenChannel(c)
  <2>1. \A d \in Channels :
           /\ cpc'[d] \in InChannel =>
                 \/ cpc[d] \in InChannel /\ joined'[d] = joined[d]
                 \/ joined'[d] = current /\ current # 0
           /\ cpc'[d] = "mark" => cpc[d] = "mark" /\ joined'[d] = joined[d] /\ piece'[d] = piece[d]
    BY <1>1 DEF OpenChannel, Shapes, ChannelTypeOK, InChannel
  <2> QED
    BY <1>1, <2>1, DataFrame DEF OpenChannel
<1>2. ASSUME NEW p \in Pieces, Receive(c, p) PROVE DataHeld'
  <2>1. \A d \in Channels :
           /\ cpc'[d] \in InChannel => cpc[d] \in InChannel /\ joined'[d] = joined[d]
           /\ cpc'[d] = "mark" => cpc[d] = "mark" /\ joined'[d] = joined[d] /\ piece'[d] = piece[d]
    BY <1>2 DEF Receive, Shapes, ChannelTypeOK, InChannel
  <2> QED
    BY <1>2, <2>1, DataFrame DEF Receive
<1>3. ASSUME NEW location, Goes(c, location), cpc[c] \in InChannel, location # "mark",
             UNCHANGED <<rows, disk, temp, copies, target, resume, ready, current>>
      PROVE  DataHeld'
  <2>1. \A d \in Channels :
           /\ cpc'[d] \in InChannel => cpc[d] \in InChannel /\ joined'[d] = joined[d]
           /\ cpc'[d] = "mark" => cpc[d] = "mark" /\ joined'[d] = joined[d] /\ piece'[d] = piece[d]
    BY <1>3, GoesFrame
  <2> QED
    BY <1>3, <2>1, DataFrame
<1>4. CASE CountChunk(c) \/ ChannelCloses(c)
  BY <1>3, <1>4 DEF CountChunk, ChannelCloses, Leave, InChannel
<1>5. CASE ChannelFails(c)
  BY <1>3, <1>5 DEF ChannelFails, Leave, InChannel
<1>6. CASE MarkChunk(c)
  <2>1. CASE UNCHANGED <<rows, resume>> /\ Goes(c, "read")
    BY <1>3, <1>6, <2>1 DEF MarkChunk, InChannel
  <2>2. CASE /\ resume' = [resume EXCEPT ![joined[c]] = @ \cup {piece[c]}]
             /\ rows' = rows \cup {piece[c]}
             /\ Goes(c, "count")
    BY <1>6, <2>2, MarkHolds DEF MarkChunk
  <2> QED
    BY <1>6, <2>1, <2>2 DEF MarkChunk
<1>7. CASE RowFails(c)
  BY <1>7, MarkHolds DEF RowFails, Leave
<1>8. CASE SettleChannel(c)
  <2>1. \A d \in Channels :
           /\ cpc'[d] \in InChannel => cpc[d] \in InChannel /\ joined'[d] = joined[d]
           /\ cpc'[d] = "mark" => cpc[d] = "mark" /\ joined'[d] = joined[d] /\ piece'[d] = piece[d]
    BY <1>8 DEF SettleChannel, Shapes, ChannelTypeOK, InChannel
  <2> QED
    BY <1>8, <2>1, DataFrame DEF SettleChannel
<1>9. CASE CleanChannel(c)
  BY <1>9 DEF CleanChannel, NeverCancelled, Cleaning
<1> QED
  BY <1>1, <1>2, <1>4, <1>5, <1>6, <1>7, <1>8, <1>9, WriteHolds DEF ChannelStep

LEMMA CrashHolds ==
    ASSUME DataHeld, Crash
    PROVE  DataHeld'
<1>1. ContextsOpened' /\ MarksWritten'
  BY DEF Crash, ContextsOpened, MarksWritten, None, AllIdle, InChannel
<1>2. TargetsCurrent' /\ ResumeHeld'
  BY DEF Crash, TargetsCurrent, ResumeHeld, NoTarget, None
<1>3. RowsBacked' /\ FirstDeliveryIntact'
  BY DEF Crash, DataHeld, RowsBacked, FirstDeliveryIntact, Intact, Delivered
<1> QED
  BY <1>1, <1>2, <1>3 DEF DataHeld

LEMMA StepHolds ==
    ASSUME ~MayCancel, ~MayLosePart, Shapes, ChannelsHold, ClaimsTrue, NeverCancelled, DataHeld,
           [Next]_vars
    PROVE  DataHeld'
<1>1. CASE Command \/ UNCHANGED vars
  <2>1. UNCHANGED <<rows, disk, temp, copies, target, resume, ready, current, cpc, joined, piece>>
    BY <1>1 DEF Command, vars, stored, handler, memory, controls, channel
  <2> QED
    BY <2>1, DataFrame
<1>2. CASE Cancel \/ CancelCleans \/ \E f \in Files : LosePart(f)
  BY <1>2 DEF Cancel, CancelCleans, LosePart, NeverCancelled
<1> QED
  BY <1>1, <1>2, ControlHolds, ChannelHolds, CrashHolds DEF Next

LEMMA InitHolds == Init => NeverCancelled /\ DataHeld /\ ClaimsTrue
<1> SUFFICES ASSUME Init PROVE NeverCancelled /\ DataHeld /\ ClaimsTrue
  OBVIOUS
<1>1. NeverCancelled
  BY DEF Init, NeverCancelled, AllIdle, Cleaning
<1>2. ContextsOpened /\ MarksWritten
  BY DEF Init, ContextsOpened, MarksWritten, None, AllIdle, InChannel
<1>3. TargetsCurrent /\ ResumeHeld /\ RowsBacked /\ FirstDeliveryIntact
  BY DEF Init, TargetsCurrent, ResumeHeld, NoTarget, None, RowsBacked, FirstDeliveryIntact
<1>4. ClaimsTrue
  BY DEF Init, ClaimsTrue, None
<1> QED
  BY <1>1, <1>2, <1>3, <1>4 DEF DataHeld

(* Rows only go when all is delivered.                                     *)
LEMMA RowsKept ==
    ASSUME ~MayCancel, ClaimsTrue, NeverCancelled, [Next]_vars
    PROVE  rows \subseteq rows' \/ AllDelivered
<1> USE DEF stored, handler, memory, controls, channel
<1>1. ASSUME NEW a \in Attempts, ControlStep(a) PROVE rows' = rows \/ AllDelivered
  <2>1. CASE ClearChunks(a)
    BY <2>1 DEF ClearChunks, ClaimsTrue, AllDelivered
  <2>2. CASE CleanControl(a)
    BY <2>2 DEF CleanControl, NeverCancelled, Cleaning
  <2>3. CASE \E f \in Files : OpenPart(a, f) \/ ReadResume(a, f) \/ FinalizeFile(a, f)
    BY <2>3 DEF OpenPart, ReadResume, FinalizeFile
  <2> QED
    BY <1>1, <2>1, <2>2, <2>3
       DEF ControlStep, Offer, OfferFails, Answer, Publish, Start, Check, Arm, Woken, GraceOver,
           RemoteCancel, RemoteControl, ForwardCancel, ControlFails, Verify, RemoveDirectory, Finish,
           SettleControl
<1>2. ASSUME NEW c \in Channels, ChannelStep(c) PROVE rows \subseteq rows'
  <2>1. CASE CleanChannel(c)
    BY <2>1 DEF CleanChannel, NeverCancelled, Cleaning
  <2>2. CASE MarkChunk(c)
    BY <2>2 DEF MarkChunk
  <2> QED
    BY <1>2, <2>1, <2>2
       DEF ChannelStep, OpenChannel, WriteChunk, CountChunk, ChannelCloses, ChannelFails, RowFails,
           SettleChannel, Receive, Leave
<1>3. CASE Command \/ Cancel \/ CancelCleans \/ (\E f \in Files : LosePart(f)) \/ Crash \/ UNCHANGED vars
  BY <1>3 DEF Command, Cancel, CancelCleans, LosePart, Crash, vars, NeverCancelled
<1> QED
  BY <1>1, <1>2, <1>3 DEF Next

(* Without a cancellation, and while nobody else removes the .part files:  *)
(* the first delivery of a file is the whole of it, whatever the attempts  *)
(* of the sender interleave, repeat, fail or lose in crashes.              *)
THEOREM FirstDeliveryIsIntact ==
    ASSUME ~MayCancel, ~MayLosePart
    PROVE  Spec => []FirstDeliveryIntact
<1>1. /\ Shapes /\ ChannelsHold
      /\ ClaimsTrue /\ NeverCancelled /\ DataHeld
      /\ [Next]_vars
      => (ClaimsTrue /\ NeverCancelled /\ DataHeld)'
  BY StepClaims, StepNever, StepHolds
<1>2. DataHeld => FirstDeliveryIntact
  BY DEF DataHeld
<1> QED
  BY <1>1, <1>2, InitHolds, ShapesKept, PTL DEF Spec

(* Without a cancellation no interruption, failure or crash loses a row of *)
(* completed_chunks before every file is delivered.                        *)
THEOREM ProgressIsKept ==
    ASSUME ~MayCancel
    PROVE  Spec => ProgressSurvives
<1>1. Shapes /\ ChannelsHold /\ ClaimsTrue /\ NeverCancelled /\ [Next]_vars
      => (ClaimsTrue /\ NeverCancelled)'
  BY StepClaims, StepNever
<1>2. ClaimsTrue /\ NeverCancelled /\ [Next]_vars
      => [rows \subseteq rows' \/ record = "Cancelled" \/ \A f \in Files : copies[f] # <<>>]_vars
  BY RowsKept DEF AllDelivered, Delivered
<1> QED
  BY <1>1, <1>2, InitHolds, ShapesKept, PTL DEF Spec, ProgressSurvives

-----------------------------------------------------------------------------
(* What remaining_chunks counts.                                           *)

Counting(a) == {c \in Channels : joined[c] = a /\ cpc[c] = "count"}

Prepared(a) == (ready[a] \X Chunks) \ resume[a]

Missing(a) == Pieces \ resume[a]

(* Contexts that data handlers can reach.                                  *)
Published(a) ==
    \/ pc[a] \in WithContext
    \/ current = a
    \/ \E c \in Channels : joined[c] = a /\ cpc[c] \in InChannel

Early == {"unborn", "answer", "prepare"}

(* A prepared context counts what its files lack; once data handlers can   *)
(* reach it, the count covers what is missing and what is marked but not   *)
(* yet counted.                                                            *)
CountsRightFor(a) ==
    /\ remaining[a] >= 0
    /\ pc[a] \in Early =>
          /\ remaining[a] = Cardinality(Prepared(a))
          /\ resume[a] \subseteq ready[a] \X Chunks
          /\ ~Published(a)
    /\ Published(a) => remaining[a] >= Cardinality(Missing(a)) + Cardinality(Counting(a))

CountsRight == \A a \in Attempts : CountsRightFor(a)

LEMMA FiniteCounts ==
    ASSUME Shapes, NEW a \in Attempts
    PROVE  /\ IsFiniteSet(Missing(a)) /\ Cardinality(Missing(a)) \in Nat
           /\ IsFiniteSet(Counting(a)) /\ Cardinality(Counting(a)) \in Nat
<1>1. IsFiniteSet(Pieces)
  BY IncomingTransferAssumption, FS_Product DEF Pieces
<1>2. IsFiniteSet(Missing(a))
  BY <1>1, FS_Subset DEF Missing
<1>3. IsFiniteSet(Counting(a))
  BY IncomingTransferAssumption, FS_Subset DEF Counting
<1> QED
  BY <1>2, <1>3, FS_CardinalityType

(* An attempt keeps its count while nothing of it is counted, and less of  *)
(* it can be reached, is missing or is marked.                             *)
LEMMA CountsFrame ==
    ASSUME Shapes, Shapes', NEW b \in Attempts, CountsRightFor(b),
           remaining'[b] = remaining[b],
           resume[b] \subseteq resume'[b],
           pc'[b] \in Early => pc[b] \in Early /\ ready'[b] = ready[b] /\ resume'[b] = resume[b],
           Published(b)' => Published(b),
           Counting(b)' \subseteq Counting(b)
    PROVE  CountsRightFor(b)'
<1>1. Cardinality(Missing(b)') <= Cardinality(Missing(b))
  <2>1. Missing(b)' \subseteq Missing(b)
    BY DEF Missing
  <2> QED
    BY <2>1, FiniteCounts, FS_Subset
<1>2. Cardinality(Counting(b)') <= Cardinality(Counting(b))
  BY FiniteCounts, FS_Subset
<1>3. /\ Cardinality(Missing(b)) \in Nat /\ Cardinality(Missing(b)') \in Nat
      /\ Cardinality(Counting(b)) \in Nat /\ Cardinality(Counting(b)') \in Nat
  <2>1. IsFiniteSet(Missing(b)') /\ IsFiniteSet(Counting(b)')
    BY FiniteCounts, FS_Subset DEF Missing
  <2> QED
    BY <2>1, FiniteCounts, FS_CardinalityType
<1>4. remaining[b] \in Int
  BY DEF Shapes
<1>5. pc'[b] \in Early => Prepared(b)' = Prepared(b)
  BY DEF Prepared
<1>6. Published(b)' => remaining'[b] >= Cardinality(Missing(b)') + Cardinality(Counting(b)')
  BY <1>1, <1>2, <1>3, <1>4 DEF CountsRightFor
<1> QED
  BY <1>5, <1>6 DEF CountsRightFor

(* A step of a control handler that leaves what it counts alone.           *)
LEMMA CountsMove ==
    ASSUME Shapes, Shapes', CountsRight, NEW a \in Attempts, NEW location,
           Goto(a, location), UNCHANGED <<remaining, resume, channel>>, current' \in {0, current},
           location \in WithContext => pc[a] \in WithContext,
           location \in Early => pc[a] \in Early /\ UNCHANGED ready,
           ready' = ready \/ DropLocals(a)
    PROVE  CountsRight'
<1> SUFFICES ASSUME NEW b \in Attempts PROVE CountsRightFor(b)'
  BY DEF CountsRight
<1>1. pc'[b] = IF b = a THEN location ELSE pc[b]
  BY DEF Goto, Shapes, HandlerTypeOK
<1>2. pc'[b] \in Early => pc[b] \in Early /\ ready'[b] = ready[b]
  BY <1>1 DEF DropLocals, Shapes, HandlerTypeOK
<1>3. Published(b)' => Published(b)
  BY <1>1 DEF Published, channel, Attempts
<1>4. Counting(b)' = Counting(b)
  BY DEF Counting, channel
<1> QED
  BY <1>2, <1>3, <1>4, CountsFrame DEF CountsRight

LEMMA CountsReturn ==
    ASSUME Shapes, Shapes', CountsRight, NEW a \in Attempts, NEW outcome \in Outcome \cup {"done"},
           Return(a, outcome), UNCHANGED channel
    PROVE  CountsRight'
BY CountsMove DEF Return, Outcome, WithContext, Early

LEMMA PublishCounts ==
    ASSUME Shapes, Shapes', CountsRight, NEW a \in Attempts, Publish(a)
    PROVE  CountsRight'
<1>1. /\ pc[a] = "prepare" /\ ready[a] = Files
      /\ current' = a /\ UNCHANGED <<remaining, resume, channel>>
      /\ \A b \in Attempts : pc'[b] = IF b = a THEN "greet" ELSE pc[b]
      /\ \A b \in Attempts : b # a => ready'[b] = ready[b]
  BY DEF Publish, Goto, DropLocals, Shapes, HandlerTypeOK
<1>2. ASSUME NEW b \in Attempts, b # a PROVE CountsRightFor(b)'
  <2>1. Published(b)' => Published(b)
    BY <1>1, <1>2 DEF Published, channel
  <2>2. Counting(b)' = Counting(b)
    BY <1>1 DEF Counting, channel
  <2> QED
    BY <1>1, <1>2, <2>1, <2>2, CountsFrame DEF CountsRight
<1>3. CountsRightFor(a)'
  <2>1. remaining[a] = Cardinality(Prepared(a)) /\ ~Published(a) /\ remaining[a] >= 0
    BY <1>1 DEF CountsRight, CountsRightFor, Early
  <2>2. Prepared(a) = Missing(a)' /\ pc'[a] \notin Early
    BY <1>1 DEF Prepared, Missing, Pieces, Early
  <2>3. Counting(a)' = {}
    BY <1>1, <2>1 DEF Published, Counting, channel, InChannel
  <2>4. Cardinality(Counting(a)') = 0 /\ remaining[a] \in Int
    BY <2>3, FS_EmptySet DEF Shapes
  <2> QED
    BY <1>1, <2>1, <2>2, <2>4 DEF CountsRightFor
<1> QED
  BY <1>2, <1>3 DEF CountsRight

(* prepare_incoming adds what one more file lacks.                         *)
LEMMA ReadResumeCounts ==
    ASSUME Shapes, Shapes', CountsRight, NEW a \in Attempts, NEW f \in Files, ReadResume(a, f)
    PROVE  CountsRight'
<1> DEFINE known == {p \in rows : p[1] = f}
           row == {f} \X Chunks
<1>1. /\ pc[a] = "prepare" /\ f \notin ready[a]
      /\ remaining' = [remaining EXCEPT ![a] = @ + Cardinality(Chunks) - Cardinality(known)]
      /\ UNCHANGED <<pc, current, channel>>
      /\ \A b \in Attempts : b # a => ready'[b] = ready[b] /\ resume'[b] = resume[b]
      /\ ready'[a] = ready[a] \cup {f} /\ resume'[a] = resume[a] \cup known
  BY DEF ReadResume, controls, Shapes, HandlerTypeOK
<1>2. known \subseteq row
  BY DEF Shapes, StoredTypeOK, Pieces
<1> HIDE DEF known
<1>3. \A b \in Attempts : /\ Published(b)' = Published(b)
                          /\ Counting(b)' = Counting(b)
  BY <1>1 DEF Published, Counting, channel
<1>4. ASSUME NEW b \in Attempts, b # a PROVE CountsRightFor(b)'
  <2>1. remaining'[b] = remaining[b]
    BY <1>1, <1>4 DEF Shapes
  <2> QED
    BY <1>1, <1>3, <1>4, <2>1, CountsFrame DEF CountsRight
<1>5. CountsRightFor(a)'
  <2>1. /\ remaining[a] = Cardinality(Prepared(a)) /\ ~Published(a)
        /\ resume[a] \subseteq ready[a] \X Chunks
    BY <1>1 DEF CountsRight, CountsRightFor, Early
  <2>2. Prepared(a)' = Prepared(a) \cup (row \ known)
    BY <1>1, <1>2, <2>1 DEF Prepared
  <2>3. Prepared(a) \cap (row \ known) = {}
    BY <1>1 DEF Prepared
  <2>4. resume'[a] \subseteq ready'[a] \X Chunks
    BY <1>1, <1>2, <2>1
  <2>5. IsFiniteSet(row) /\ Cardinality(row) = Cardinality(Chunks)
    <3>1. IsFiniteSet({f}) /\ Cardinality({f}) = 1
      BY FS_Singleton
    <3>2. Cardinality(Chunks) \in Nat
      BY IncomingTransferAssumption, FS_CardinalityType
    <3> QED
      BY <3>1, <3>2, IncomingTransferAssumption, FS_Product
  <2> HIDE DEF row
  <2>6. /\ IsFiniteSet(known)
        /\ IsFiniteSet(row \ known)
        /\ Cardinality(row \ known) = Cardinality(Chunks) - Cardinality(known)
    <3>1. IsFiniteSet(known)
      BY <1>2, <2>5, FS_Subset
    <3>2. IsFiniteSet(row \ known) /\ Cardinality(row \ known) = Cardinality(row) - Cardinality(row \cap known)
      BY <2>5, FS_Difference
    <3>3. row \cap known = known
      BY <1>2
    <3> QED
      BY <2>5, <3>1, <3>2, <3>3
  <2>7. IsFiniteSet(Prepared(a))
    <3>1. IsFiniteSet(Pieces)
      BY IncomingTransferAssumption, FS_Product DEF Pieces
    <3>2. Prepared(a) \subseteq Pieces
      BY DEF Prepared, Pieces, Shapes, HandlerTypeOK
    <3> QED
      BY <3>1, <3>2, FS_Subset
  <2>8. Cardinality(Prepared(a)') = Cardinality(Prepared(a)) + Cardinality(row \ known)
    <3>1. Cardinality(Prepared(a) \cap (row \ known)) = 0
      BY <2>3, FS_EmptySet
    <3>2. Cardinality(Prepared(a)) \in Nat /\ Cardinality(row \ known) \in Nat
      BY <2>6, <2>7, FS_CardinalityType
    <3> QED
      BY <2>2, <2>6, <2>7, <3>1, <3>2, FS_Union
  <2>9. Cardinality(Chunks) \in Nat /\ Cardinality(known) \in Nat /\ Cardinality(Prepared(a)) \in Nat
        /\ Cardinality(row \ known) \in Nat
    BY <2>6, <2>7, IncomingTransferAssumption, FS_CardinalityType
  <2>10. remaining'[a] = Cardinality(Prepared(a)') /\ remaining'[a] >= 0
    <3>1. remaining'[a] = remaining[a] + Cardinality(Chunks) - Cardinality(known)
      BY <1>1 DEF Shapes
    <3> QED
      BY <2>1, <2>6, <2>8, <2>9, <3>1
  <2>11. ~Published(a)'
    BY <1>3, <2>1
  <2> QED
    BY <2>4, <2>10, <2>11 DEF CountsRightFor
<1> QED
  BY <1>4, <1>5 DEF CountsRight

LEMMA ControlCounts ==
    ASSUME Shapes, Shapes', CountsRight, NEW a \in Attempts, ControlStep(a)
    PROVE  CountsRight'
<1> USE DEF stored, memory, controls, WithContext, Early, Outcome, Cleaning
<1>1. CASE Offer(a) \/ OfferFails(a) \/ Answer(a)
  BY <1>1, CountsMove DEF Offer, OfferFails, Answer
<1>2. CASE Start(a) \/ Verify(a)
  BY <1>2, CountsMove, CountsReturn DEF Start, Verify, Advance
<1>3. CASE Check(a) \/ Arm(a) \/ Woken(a)
  BY <1>3, CountsMove, CountsReturn DEF Check, Arm, Woken
<1>4. CASE GraceOver(a) \/ ForwardCancel(a) \/ ControlFails(a) \/ Finish(a)
  BY <1>4, CountsReturn DEF GraceOver, ForwardCancel, ControlFails, Finish
<1>5. CASE RemoteCancel(a) \/ RemoteControl(a)
  BY <1>5, CountsMove DEF RemoteCancel, RemoteControl
<1>6. CASE ClearChunks(a) \/ RemoveDirectory(a)
  BY <1>6, CountsMove DEF ClearChunks, RemoveDirectory
<1>7. CASE SettleControl(a)
  BY <1>7, CountsMove DEF SettleControl
<1>8. CASE CleanControl(a)
  BY <1>8, CountsMove DEF CleanControl
<1>9. ASSUME UNCHANGED <<pc, ready, remaining, resume, current, channel>> PROVE CountsRight'
  <2> SUFFICES ASSUME NEW b \in Attempts PROVE CountsRightFor(b)'
    BY DEF CountsRight
  <2>1. Published(b)' = Published(b) /\ Counting(b)' = Counting(b)
    BY <1>9 DEF Published, Counting, channel
  <2> QED
    BY <1>9, <2>1, CountsFrame DEF CountsRight
<1>10. ASSUME NEW f \in Files, OpenPart(a, f) PROVE CountsRight'
  BY <1>9, <1>10 DEF OpenPart
<1>11. ASSUME NEW f \in Files, FinalizeFile(a, f) PROVE CountsRight'
  BY <1>9, <1>11, CountsReturn DEF FinalizeFile
<1> QED
  BY <1>1, <1>2, <1>3, <1>4, <1>5, <1>6, <1>7, <1>8, <1>10, <1>11, PublishCounts, ReadResumeCounts
     DEF ControlStep

(* A step of a data handler that neither marks nor counts.                 *)
LEMMA CountsChannel ==
    ASSUME Shapes, Shapes', CountsRight, UNCHANGED <<pc, ready, remaining, resume, current>>,
           \A d \in Channels :
              /\ cpc'[d] \in InChannel =>
                    \/ cpc[d] \in InChannel /\ joined'[d] = joined[d]
                    \/ joined'[d] = current /\ current # 0
              /\ cpc'[d] = "count" => cpc[d] = "count" /\ joined'[d] = joined[d]
    PROVE  CountsRight'
<1> SUFFICES ASSUME NEW b \in Attempts PROVE CountsRightFor(b)'
  BY DEF CountsRight
<1>1. Published(b)' => Published(b)
  BY DEF Published
<1>2. Counting(b)' \subseteq Counting(b)
  BY DEF Counting
<1> QED
  BY <1>1, <1>2, CountsFrame DEF CountsRight

(* A chunk that is new to the map is no longer missing, and is counted or, *)
(* when its row cannot be saved, never will be.                            *)
LEMMA MarkCounts ==
    ASSUME Shapes, Shapes', ChannelsHold, CountsRight, NEW c \in Channels,
           NEW location \in {"count", "fatal"},
           cpc[c] = "mark", Goes(c, location), piece[c] \notin resume[joined[c]],
           resume' = [resume EXCEPT ![joined[c]] = @ \cup {piece[c]}],
           UNCHANGED <<pc, ready, remaining, current>>
    PROVE  CountsRight'
<1>1. joined[c] \in Attempts /\ piece[c] \in Pieces
  BY DEF ChannelsHold, InChannel
<1> PICK a \in Attempts : a = joined[c]
  BY <1>1
<1>2. \A d \in Channels : d # c => cpc'[d] = cpc[d] /\ joined'[d] = joined[d]
  BY DEF Goes, Shapes, ChannelTypeOK
<1>3. /\ cpc'[c] = location
      /\ location = "count" => joined'[c] = a
  BY DEF Goes, Shapes, ChannelTypeOK, InChannel
<1>4. \A b \in Attempts : b # a => resume'[b] = resume[b]
  BY <1>1 DEF Shapes, HandlerTypeOK
<1>5. resume'[a] = resume[a] \cup {piece[c]}
  BY <1>1 DEF Shapes, HandlerTypeOK
<1>6. \A b \in Attempts : Published(b)' => Published(b)
  BY <1>2, <1>3 DEF Published, InChannel
<1>7. Published(a)
  BY DEF Published, InChannel
<1>8. ASSUME NEW b \in Attempts, b # a PROVE CountsRightFor(b)'
  <2>1. Counting(b)' \subseteq Counting(b)
    BY <1>2, <1>3, <1>8 DEF Counting
  <2> QED
    BY <1>4, <1>6, <1>8, <2>1, CountsFrame DEF CountsRight
<1>9. CountsRightFor(a)'
  <2>1. /\ remaining[a] >= Cardinality(Missing(a)) + Cardinality(Counting(a))
        /\ remaining[a] >= 0 /\ pc[a] \notin Early
    BY <1>1, <1>7 DEF CountsRight, CountsRightFor
  <2>2. Missing(a)' = Missing(a) \ {piece[c]} /\ piece[c] \in Missing(a)
    BY <1>1, <1>5 DEF Missing
  <2>3. Cardinality(Missing(a)') = Cardinality(Missing(a)) - 1
    BY <1>1, <2>2, FiniteCounts, FS_RemoveElement
  <2>4. Counting(a)' \subseteq Counting(a) \cup {c} /\ c \notin Counting(a)
    BY <1>2, <1>3 DEF Counting
  <2>5. /\ IsFiniteSet(Counting(a) \cup {c})
        /\ Cardinality(Counting(a) \cup {c}) = Cardinality(Counting(a)) + 1
    BY <1>1, <2>4, FiniteCounts, FS_AddElement
  <2>6. Cardinality(Counting(a)') <= Cardinality(Counting(a)) + 1 /\ Cardinality(Counting(a)') \in Nat
    BY <2>4, <2>5, FS_Subset, FS_CardinalityType
  <2>7. Cardinality(Missing(a)) \in Nat /\ Cardinality(Counting(a)) \in Nat /\ remaining[a] \in Int
    BY <1>1, FiniteCounts DEF Shapes
  <2>8. remaining'[a] >= Cardinality(Missing(a)') + Cardinality(Counting(a)')
    BY <2>1, <2>3, <2>6, <2>7
  <2> QED
    BY <2>1, <2>8 DEF CountsRightFor
<1> QED
  BY <1>8, <1>9 DEF CountsRight

LEMMA CountChunkCounts ==
    ASSUME Shapes, Shapes', ChannelsHold, CountsRight, NEW c \in Channels, CountChunk(c)
    PROVE  CountsRight'
<1>1. joined[c] \in Attempts /\ cpc[c] = "count"
  BY DEF CountChunk, ChannelsHold, InChannel
<1> PICK a \in Attempts : a = joined[c]
  BY <1>1
<1>2. /\ UNCHANGED <<pc, ready, resume, current>>
      /\ remaining' = [remaining EXCEPT ![a] = @ - 1]
  BY DEF CountChunk, controls
<1>3. /\ \A d \in Channels : d # c => cpc'[d] = cpc[d] /\ joined'[d] = joined[d]
      /\ cpc'[c] = "read" /\ joined'[c] = a
  BY DEF CountChunk, Goes, Shapes, ChannelTypeOK, InChannel
<1>4. \A b \in Attempts : Published(b)' => Published(b)
  BY <1>1, <1>2, <1>3 DEF Published, InChannel
<1>5. Published(a) /\ c \in Counting(a)
  BY <1>1 DEF Published, InChannel, Counting
<1>6. \A b \in Attempts : Counting(b)' = Counting(b) \ {c}
  BY <1>3 DEF Counting
<1>7. ASSUME NEW b \in Attempts, b # a PROVE CountsRightFor(b)'
  <2>1. remaining'[b] = remaining[b]
    BY <1>2, <1>7 DEF Shapes
  <2> QED
    BY <1>2, <1>4, <1>6, <1>7, <2>1, CountsFrame DEF CountsRight
<1>8. CountsRightFor(a)'
  <2>1. /\ remaining[a] >= Cardinality(Missing(a)) + Cardinality(Counting(a))
        /\ pc[a] \notin Early
    BY <1>1, <1>5 DEF CountsRight, CountsRightFor
  <2>2. Cardinality(Counting(a)') = Cardinality(Counting(a)) - 1
    BY <1>1, <1>5, <1>6, FiniteCounts, FS_RemoveElement
  <2>3. Cardinality(Counting(a)') \in Nat
    BY <1>1, <1>6, FiniteCounts, FS_RemoveElement, FS_CardinalityType
  <2>4. Missing(a)' = Missing(a)
    BY <1>2 DEF Missing
  <2>5. remaining'[a] = remaining[a] - 1 /\ remaining[a] \in Int
    BY <1>1, <1>2 DEF Shapes
  <2>6. Cardinality(Missing(a)) \in Nat /\ Cardinality(Counting(a)) \in Nat
    BY <1>1, FiniteCounts
  <2>7. /\ remaining'[a] >= Cardinality(Missing(a)') + Cardinality(Counting(a)')
        /\ remaining'[a] >= 0
    BY <2>1, <2>2, <2>3, <2>4, <2>5, <2>6
  <2> QED
    BY <1>2, <2>1, <2>7 DEF CountsRightFor
<1> QED
  BY <1>7, <1>8 DEF CountsRight

LEMMA ChannelCounts ==
    ASSUME Shapes, Shapes', ChannelsHold, CountsRight, NEW c \in Channels, ChannelStep(c)
    PROVE  CountsRight'
<1> USE DEF stored, handler, memory, controls
<1>1. ASSUME UNCHANGED <<pc, ready, remaining, resume, current>>,
             \A d \in Channels : d # c => cpc'[d] = cpc[d] /\ joined'[d] = joined[d],
             cpc'[c] \in InChannel =>
                 \/ cpc[c] \in InChannel /\ joined'[c] = joined[c]
                 \/ joined'[c] = current /\ current # 0,
             cpc'[c] # "count"
      PROVE  CountsRight'
  BY <1>1, CountsChannel
<1>2. CASE OpenChannel(c)
  <2>1. /\ \A d \in Channels : d # c => cpc'[d] = cpc[d] /\ joined'[d] = joined[d]
        /\ cpc'[c] = IF current = 0 THEN "fatal" ELSE "read"
        /\ joined'[c] = current
    BY <1>2 DEF OpenChannel, Shapes, ChannelTypeOK
  <2> QED
    BY <1>1, <1>2, <2>1 DEF OpenChannel, InChannel
<1>3. ASSUME NEW location, cpc' = [cpc EXCEPT ![c] = location], location # "count",
             location \in InChannel => cpc[c] \in InChannel,
             UNCHANGED <<pc, ready, remaining, resume, current, joined>>
      PROVE  CountsRight'
  <2>1. \A d \in Channels : cpc'[d] = IF d = c THEN location ELSE cpc[d]
    BY <1>3 DEF Shapes, ChannelTypeOK
  <2> QED
    BY <1>1, <1>3, <2>1
<1>4. ASSUME NEW p \in Pieces, Receive(c, p) PROVE CountsRight'
  BY <1>3, <1>4 DEF Receive, InChannel
<1>5. CASE WriteChunk(c)
  BY <1>3, <1>5 DEF WriteChunk, InChannel
<1>6. CASE SettleChannel(c) \/ CleanChannel(c)
  BY <1>3, <1>6 DEF SettleChannel, CleanChannel, InChannel
<1>7. ASSUME NEW location, Goes(c, location), location # "count", cpc[c] \in InChannel,
             UNCHANGED <<pc, ready, remaining, resume, current>>
      PROVE  CountsRight'
  <2>1. /\ \A d \in Channels : d # c => cpc'[d] = cpc[d] /\ joined'[d] = joined[d]
        /\ cpc'[c] = location
        /\ location \in InChannel => joined'[c] = joined[c]
    BY <1>7 DEF Goes, Shapes, ChannelTypeOK
  <2> QED
    BY <1>1, <1>7, <2>1
<1>8. CASE ChannelCloses(c) \/ ChannelFails(c)
  BY <1>7, <1>8 DEF ChannelCloses, ChannelFails, Leave, InChannel
<1>9. CASE RowFails(c)
  BY <1>9, MarkCounts DEF RowFails, Leave
<1>10. CASE MarkChunk(c)
  <2>1. CASE UNCHANGED <<rows, resume>> /\ Goes(c, "read")
    BY <1>7, <1>10, <2>1 DEF MarkChunk, InChannel
  <2>2. CASE /\ piece[c] \notin resume[joined[c]]
             /\ resume' = [resume EXCEPT ![joined[c]] = @ \cup {piece[c]}]
             /\ Goes(c, "count")
    BY <1>10, <2>2, MarkCounts DEF MarkChunk
  <2> QED
    BY <1>10, <2>1, <2>2 DEF MarkChunk
<1> QED
  BY <1>2, <1>4, <1>5, <1>6, <1>8, <1>9, <1>10, CountChunkCounts DEF ChannelStep

LEMMA FreshCounts ==
    ASSUME ready = None, resume = None, remaining = NoCount, current = 0, cpc = AllIdle,
           \A a \in Attempts : pc[a] \notin WithContext
    PROVE  CountsRight
<1> SUFFICES ASSUME NEW a \in Attempts PROVE CountsRightFor(a)
  BY DEF CountsRight
<1>1. ~Published(a)
  BY DEF Published, AllIdle, InChannel, Attempts
<1>2. Prepared(a) = {} /\ resume[a] \subseteq ready[a] \X Chunks
  BY DEF Prepared, None
<1>3. remaining[a] = 0
  BY DEF NoCount
<1> QED
  BY <1>1, <1>2, <1>3, FS_EmptySet DEF CountsRightFor

LEMMA StepCounts ==
    ASSUME Shapes, Shapes', ChannelsHold, CountsRight, [Next]_vars
    PROVE  CountsRight'
<1>1. CASE Command \/ Cancel \/ CancelCleans \/ (\E f \in Files : LosePart(f)) \/ UNCHANGED vars
  <2>1. UNCHANGED <<pc, ready, remaining, resume, current, cpc, joined>>
    BY <1>1 DEF Command, Cancel, CancelCleans, LosePart, vars, stored, handler, memory, controls, channel
  <2> QED
    BY <2>1, CountsChannel
<1>2. CASE Crash
  <2>1. /\ ready' = None /\ resume' = None /\ remaining' = NoCount /\ current' = 0 /\ cpc' = AllIdle
        /\ \A a \in Attempts : pc'[a] \notin WithContext
    BY <1>2 DEF Crash, WithContext
  <2> SUFFICES ASSUME NEW a \in Attempts PROVE CountsRightFor(a)'
    BY DEF CountsRight
  <2>2. ~Published(a)'
    BY <2>1 DEF Published, AllIdle, InChannel, Attempts
  <2>3. Prepared(a)' = {} /\ resume'[a] \subseteq ready'[a] \X Chunks
    BY <2>1 DEF Prepared, None
  <2>4. remaining'[a] = 0
    BY <2>1 DEF NoCount
  <2> QED
    BY <2>2, <2>3, <2>4, FS_EmptySet DEF CountsRightFor
<1> QED
  BY <1>1, <1>2, ControlCounts, ChannelCounts DEF Next

LEMMA InitCounts == Init => CountsRight
BY FreshCounts DEF Init, WithContext

LEMMA CountsKept == Spec => [](Shapes /\ CountsRight)
<1>1. Shapes /\ ChannelsHold /\ CountsRight /\ [Next]_vars => CountsRight'
  BY StepShapes, StepCounts
<1> QED
  BY <1>1, InitCounts, ShapesKept, PTL DEF Spec

(* remaining_chunks covers what is missing, however many channels share    *)
(* the context and whatever the sender repeats: a count of zero means a    *)
(* complete resume map.                                                    *)
THEOREM RemainingIsCovered == Spec => []RemainingCoversMissing
<1>1. Shapes /\ CountsRight => RemainingCoversMissing
  BY DEF CountsRight, CountsRightFor, RemainingCoversMissing, Published, Missing, Counting
<1> QED
  BY <1>1, CountsKept, PTL

KeptTypeOK == keptParts \subseteq Files /\ keptRows \in BOOLEAN

(* Only a clean-up that fails changes what is known to be kept.            *)
LEMMA StepKept ==
    ASSUME Shapes, KeptTypeOK, [Next]_vars
    PROVE  KeptTypeOK'
<1> USE DEF KeptTypeOK
<1>1. CASE UNCHANGED kept
  BY <1>1 DEF kept
<1>2. CASE DeleteFiles \/ DeletionStops \/ DeleteRows
  BY <1>2 DEF DeleteFiles, DeletionStops, DeleteRows, DeleteAllBut, Shapes, StoredTypeOK
<1>3. CASE Cancel
  BY <1>1, <1>3 DEF Cancel, Shapes, StoredTypeOK
<1>4. CASE CancelCleans
  BY <1>2, <1>4 DEF CancelCleans
<1>5. ASSUME NEW a \in Attempts, ControlStep(a) PROVE KeptTypeOK'
  BY <1>1, <1>2, <1>5
  DEF ControlStep, Offer, OfferFails, Answer, OpenPart, ReadResume, Publish, Start, Check, Arm, Woken,
      GraceOver, RemoteCancel, RemoteControl, ForwardCancel, ControlFails, Verify, FinalizeFile,
      ClearChunks, RemoveDirectory, Finish, SettleControl, CleanControl
<1>6. ASSUME NEW c \in Channels, ChannelStep(c) PROVE KeptTypeOK'
  BY <1>1, <1>2, <1>6
  DEF ChannelStep, OpenChannel, Receive, WriteChunk, MarkChunk, CountChunk, ChannelCloses, ChannelFails,
      RowFails, Leave, SettleChannel, CleanChannel
<1>7. CASE Command \/ (\E f \in Files : LosePart(f)) \/ Crash \/ UNCHANGED vars
  BY <1>1, <1>7 DEF Command, LosePart, Crash, vars
<1> QED
  BY <1>3, <1>4, <1>5, <1>6, <1>7 DEF Next

(* Every variable keeps its type; the AtomicU64 remaining_chunks does not  *)
(* wrap below zero.                                                        *)
THEOREM TypesKept == Spec => []TypeOK
<1>1. Shapes /\ CountsRight /\ KeptTypeOK => TypeOK
  <2> SUFFICES ASSUME Shapes, CountsRight PROVE remaining \in [Attempts -> Nat]
    BY DEF Shapes, TypeOK, KeptTypeOK
  <2>1. \A a \in Attempts : remaining[a] \in Nat
    BY DEF Shapes, CountsRight, CountsRightFor
  <2> QED
    BY <2>1 DEF Shapes
<1>2. Init => KeptTypeOK
  BY DEF Init, KeptTypeOK
<1>3. Shapes /\ KeptTypeOK /\ [Next]_vars => KeptTypeOK'
  BY StepKept
<1> QED
  BY <1>1, <1>2, <1>3, CountsKept, PTL DEF Spec

-----------------------------------------------------------------------------
(* A cancelled transfer is forgotten.                                      *)

(* Handlers and the command that will still come to delete_partial_data    *)
(* when the record stays Cancelled, and those that have yet to delete the  *)
(* files.  A handler that waits for its answer is not one of them.         *)
Resting == {"unborn", "done", "answer"}

CleansFiles ==
    \/ \E a \in Attempts : pc[a] \notin Resting \cup {"rows"}
    \/ \E c \in Channels : cpc[c] \notin {"idle", "rows"}
    \/ user = "files"

CleansRows ==
    \/ CleansFiles
    \/ \E a \in Attempts : pc[a] = "rows"
    \/ \E c \in Channels : cpc[c] = "rows"
    \/ user = "rows"

NoFiles == \A f \in listed \ keptParts : temp[f] = 0

NoRows == rows = {} \/ keptRows

(* What is left of a cancelled transfer still has someone to delete it, or *)
(* the last one who tried failed.                                          *)
CleanerLeft ==
    record = "Cancelled" => (NoRows \/ CleansRows) /\ (NoFiles \/ CleansFiles)

LEMMA CleanerComes == CleansFiles' => CleanerLeft'
BY DEF CleanerLeft, CleansRows

LEMMA NotCancelled == record' # "Cancelled" => CleanerLeft'
BY DEF CleanerLeft

(* Nobody whom the others wait for goes away.                              *)
LEMMA CleanersStay ==
    ASSUME CleanerLeft, record' = "Cancelled" => record = "Cancelled",
           NoRows => NoRows', NoFiles => NoFiles',
           CleansFiles => CleansFiles' \/ NoFiles', CleansRows => CleansRows' \/ NoRows'
    PROVE  CleanerLeft'
BY DEF CleanerLeft

LEMMA OutcomesNotCancelling ==
    ASSUME NEW state, NEW outcome
    PROVE  AfterOutcome(state, outcome) = "Cancelled" /\ outcome \in {"retryable", "fatal"}
              => state = "Cancelled"
BY DEF AfterOutcome, Terminal

(* Most steps of a handler leave it where it will come to clean.           *)
LEMMA ControlGoesOn ==
    ASSUME Shapes, NEW a \in Attempts, NEW location, Goto(a, location),
           location \notin Resting \cup {"rows"}
    PROVE  CleanerLeft'
<1>1. pc'[a] = location
  BY DEF Goto, Shapes, HandlerTypeOK
<1> QED BY <1>1, CleanerComes DEF CleansFiles

LEMMA ChannelGoesOn ==
    ASSUME Shapes, NEW c \in Channels, NEW location, cpc' = [cpc EXCEPT ![c] = location],
           location \notin {"idle", "rows"}
    PROVE  CleanerLeft'
<1>1. cpc'[c] = location
  BY DEF Shapes, ChannelTypeOK
<1> QED BY <1>1, CleanerComes DEF CleansFiles

(* delete_partial_data, whoever calls it.                                  *)
LEMMA PartsDeleted ==
    ASSUME Shapes, NEW rest \in SUBSET listed, DeleteAllBut(rest), listed' = listed
    PROVE  NoFiles'
<1> SUFFICES ASSUME NEW f \in listed, f \notin keptParts' PROVE temp'[f] = 0
  BY DEF NoFiles
<1>1. f \in Files
  BY DEF Shapes, StoredTypeOK
<1>2. temp'[f] = IF f \in listed \ rest THEN 0 ELSE temp[f]
  BY <1>1 DEF DeleteAllBut
<1>3. f \in rest => temp[f] = 0
  BY DEF DeleteAllBut
<1> QED BY <1>2, <1>3

LEMMA FilesDeleted ==
    ASSUME Shapes, CleanerLeft, DeleteFiles, CleansRows'
    PROVE  CleanerLeft'
<1>1. NoFiles'
  BY PartsDeleted DEF DeleteFiles
<1> QED BY <1>1 DEF CleanerLeft

LEMMA DeletionStopped ==
    ASSUME Shapes, DeletionStops
    PROVE  CleanerLeft'
<1>1. NoFiles'
  BY PartsDeleted DEF DeletionStops
<1> QED BY <1>1 DEF CleanerLeft, NoRows, DeletionStops

LEMMA RowsDeleted ==
    ASSUME CleanerLeft, DeleteRows, CleansFiles => CleansFiles'
    PROVE  CleanerLeft'
<1>1. NoRows' /\ (NoFiles => NoFiles') /\ record' = record
  BY DEF NoRows, NoFiles, DeleteRows
<1> QED BY <1>1 DEF CleanerLeft

LEMMA ControlCleans ==
    ASSUME Shapes, CleanerLeft, NEW a \in Attempts, ControlStep(a)
    PROVE  CleanerLeft'
<1> USE DEF Resting, Outcome
<1>1. CASE Offer(a)
  BY <1>1, NotCancelled DEF Offer
<1>2. CASE Answer(a)
  <2>1. CASE Goto(a, "prepare")
    BY <2>1, ControlGoesOn
  <2>2. CASE record' = AfterOutcome(record, "fatal") /\ Goto(a, "done")
    <3>1. record' = "Cancelled" => record = "Cancelled"
      BY <2>2, OutcomesNotCancelling
    <3>2. pc[a] = "answer" /\ \A b \in Attempts : pc'[b] = IF b = a THEN "done" ELSE pc[b]
      BY <1>2, <2>2 DEF Answer, Goto, Shapes, HandlerTypeOK
    <3>3. UNCHANGED <<rows, listed, temp, cpc, user, keptParts, keptRows>>
      BY <1>2 DEF Answer, channel, kept
    <3>4. (CleansFiles => CleansFiles') /\ (CleansRows => CleansRows')
      BY <3>2, <3>3 DEF CleansFiles, CleansRows
    <3> QED BY <3>1, <3>3, <3>4, CleanersStay DEF NoFiles, NoRows
  <2> QED BY <1>2, <2>1, <2>2 DEF Answer
<1>3. CASE \E outcome \in Outcome : Return(a, outcome)
  BY <1>3, ControlGoesOn DEF Return
<1>4. CASE Finish(a)
  BY <1>3, <1>4, NotCancelled DEF Finish
<1>5. CASE SettleControl(a)
  <2>1. CASE AsCancelled(pc[a])
    BY <1>5, <2>1, ControlGoesOn DEF SettleControl
  <2>2. CASE ~AsCancelled(pc[a])
    <3>1. record # "Cancelled" /\ pc[a] \in {"retryable", "fatal"}
      BY <1>5, <2>2 DEF SettleControl, AsCancelled
    <3>2. record' = AfterOutcome(record, pc[a])
      BY <1>5, <2>2 DEF SettleControl
    <3> QED BY <3>1, <3>2, OutcomesNotCancelling, NotCancelled
  <2> QED BY <2>1, <2>2
<1>6. CASE CleanControl(a)
  <2>1. CASE pc[a] = "files" /\ DeleteFiles /\ Goto(a, "rows")
    <3>1. pc'[a] = "rows"
      BY <2>1 DEF Goto, Shapes, HandlerTypeOK
    <3> QED BY <2>1, <3>1, FilesDeleted DEF CleansRows
  <2>2. CASE pc[a] = "rows" /\ DeleteRows /\ Goto(a, "done")
    <3>1. \A b \in Attempts : pc'[b] = IF b = a THEN "done" ELSE pc[b]
      BY <2>2 DEF Goto, Shapes, HandlerTypeOK
    <3>2. CleansFiles => CleansFiles'
      BY <1>6, <2>2, <3>1 DEF CleansFiles, CleanControl, channel
    <3> QED BY <2>2, <3>2, RowsDeleted
  <2>3. CASE DeletionStops
    BY <2>3, DeletionStopped
  <2> QED BY <1>6, <2>1, <2>2, <2>3 DEF CleanControl
<1>7. CASE OfferFails(a) \/ Publish(a) \/ Arm(a) \/ RemoteCancel(a) \/ RemoteControl(a)
           \/ ClearChunks(a) \/ RemoveDirectory(a)
  BY <1>7, ControlGoesOn
  DEF OfferFails, Publish, Arm, RemoteCancel, RemoteControl, ClearChunks, RemoveDirectory
<1>8. CASE Start(a) \/ Verify(a)
  BY <1>3, <1>8, ControlGoesOn DEF Start, Verify, Advance
<1>9. CASE Check(a) \/ Woken(a) \/ GraceOver(a) \/ ForwardCancel(a) \/ ControlFails(a)
  BY <1>3, <1>9, ControlGoesOn DEF Check, Woken, GraceOver, ForwardCancel, ControlFails
<1>10. ASSUME NEW f \in Files, OpenPart(a, f) \/ ReadResume(a, f) \/ FinalizeFile(a, f)
       PROVE  CleanerLeft'
  <2>1. CASE \E outcome \in Outcome : Return(a, outcome)
    BY <1>3, <2>1
  <2>2. CASE UNCHANGED pc /\ pc[a] \in {"prepare", "finalize"}
    <3>1. pc'[a] \in {"prepare", "finalize"}
      BY <2>2
    <3> QED BY <3>1, CleanerComes DEF CleansFiles
  <2> QED BY <1>10, <2>1, <2>2 DEF OpenPart, ReadResume, FinalizeFile
<1> QED
  BY <1>1, <1>2, <1>4, <1>5, <1>6, <1>7, <1>8, <1>9, <1>10 DEF ControlStep

LEMMA ChannelCleans ==
    ASSUME Shapes, CleanerLeft, NEW c \in Channels, ChannelStep(c)
    PROVE  CleanerLeft'
<1> USE DEF Outcome
<1>1. CASE OpenChannel(c) \/ WriteChunk(c) \/ (\E p \in Pieces : Receive(c, p))
  BY <1>1, ChannelGoesOn DEF OpenChannel, WriteChunk, Receive
<1>2. CASE MarkChunk(c) \/ CountChunk(c) \/ ChannelFails(c) \/ RowFails(c)
  <2>1. PICK location \in {"read", "count"} \cup Outcome : Goes(c, location)
    BY <1>2 DEF MarkChunk, CountChunk, ChannelFails, RowFails, Leave
  <2> QED BY <2>1, ChannelGoesOn DEF Goes
<1>3. CASE ChannelCloses(c)
  <2>1. CASE Flagged(joined[c])
    BY <1>3, <2>1, ChannelGoesOn DEF ChannelCloses, Leave, Goes
  <2>2. CASE ~Flagged(joined[c])
    BY <1>3, <2>2, NotCancelled DEF ChannelCloses, Leave, stored, Flagged
  <2> QED BY <2>1, <2>2
<1>4. CASE SettleChannel(c)
  <2>1. CASE AsCancelled(cpc[c])
    BY <1>4, <2>1, ChannelGoesOn DEF SettleChannel
  <2>2. CASE ~AsCancelled(cpc[c])
    <3>1. record # "Cancelled" /\ cpc[c] \in {"retryable", "fatal"}
      BY <1>4, <2>2 DEF SettleChannel, AsCancelled
    <3>2. record' = AfterOutcome(record, cpc[c])
      BY <1>4, <2>2 DEF SettleChannel
    <3> QED BY <3>1, <3>2, OutcomesNotCancelling, NotCancelled
  <2> QED BY <2>1, <2>2
<1>5. CASE CleanChannel(c)
  <2>1. CASE cpc[c] = "files" /\ DeleteFiles /\ cpc' = [cpc EXCEPT ![c] = "rows"]
    <3>1. cpc'[c] = "rows"
      BY <2>1 DEF Shapes, ChannelTypeOK
    <3> QED BY <2>1, <3>1, FilesDeleted DEF CleansRows
  <2>2. CASE cpc[c] = "rows" /\ DeleteRows /\ cpc' = [cpc EXCEPT ![c] = "idle"]
    <3>1. \A d \in Channels : cpc'[d] = IF d = c THEN "idle" ELSE cpc[d]
      BY <2>2 DEF Shapes, ChannelTypeOK
    <3>2. CleansFiles => CleansFiles'
      BY <1>5, <2>2, <3>1 DEF CleansFiles, CleanChannel, handler
    <3> QED BY <2>2, <3>2, RowsDeleted
  <2>3. CASE DeletionStops
    BY <2>3, DeletionStopped
  <2> QED BY <1>5, <2>1, <2>2, <2>3 DEF CleanChannel
<1> QED BY <1>1, <1>2, <1>3, <1>4, <1>5 DEF ChannelStep

LEMMA RestCleans ==
    ASSUME Shapes, CleanerLeft, Command \/ Cancel \/ CancelCleans \/ \E f \in Files : LosePart(f)
    PROVE  CleanerLeft'
<1>1. CASE Command
  <2>1. PICK command \in Commands : record' = CommandTarget[command]
    BY <1>1 DEF Command
  <2>2. CommandTarget[command] # "Cancelled"
    BY IncomingTransferAssumption DEF CommandTarget, TransferCommand
  <2> QED BY <2>1, <2>2, NotCancelled
<1>2. CASE Cancel
  <2>1. CASE user' = "files"
    BY <2>1, CleanerComes DEF CleansFiles
  <2>2. CASE keptParts' = {f \in listed : temp[f] # 0} /\ keptRows' = TRUE
    BY <1>2, <2>2 DEF Cancel, CleanerLeft, NoFiles, NoRows
  <2> QED BY <1>2, <2>1, <2>2 DEF Cancel
<1>3. CASE CancelCleans
  <2>1. CASE user = "files" /\ DeleteFiles /\ user' = "rows"
    BY <2>1, FilesDeleted DEF CleansRows
  <2>2. CASE user = "rows" /\ DeleteRows /\ user' = "idle"
    BY <1>3, <2>2, RowsDeleted DEF CleansFiles, CancelCleans, handler, channel
  <2>3. CASE DeletionStops
    BY <2>3, DeletionStopped
  <2> QED BY <1>3, <2>1, <2>2, <2>3 DEF CancelCleans
<1>4. ASSUME NEW f \in Files, LosePart(f) PROVE CleanerLeft'
  <2>1. /\ \A g \in Files : temp'[g] = IF g = f THEN 0 ELSE temp[g]
        /\ UNCHANGED <<record, rows, listed, pc, cpc, user, keptParts, keptRows>>
        /\ listed \subseteq Files
    BY <1>4 DEF LosePart, handler, channel, kept, Shapes, StoredTypeOK
  <2>2. NoFiles => NoFiles'
    BY <2>1 DEF NoFiles
  <2>3. NoRows => NoRows'
    BY <2>1 DEF NoRows
  <2> QED BY <2>1, <2>2, <2>3, CleanersStay DEF CleansFiles, CleansRows
<1> QED BY <1>1, <1>2, <1>3, <1>4

(* Whoever cancels, and whatever is being written: as long as the process  *)
(* does not end, the last one to go leaves no row and no .part file of a   *)
(* saved item but what it tried to delete in vain (CancelledForgets).  A   *)
(* process that ends takes those who would have deleted them with it.      *)
THEOREM CancelledIsForgotten ==
    ASSUME MaxCrashes = 0
    PROVE  Spec => []CancelledForgets
<1>1. Init => CleanerLeft
  BY DEF Init, CleanerLeft
<1>2. Shapes /\ CleanerLeft /\ [Next]_vars => CleanerLeft'
  <2> SUFFICES ASSUME Shapes, CleanerLeft, [Next]_vars PROVE CleanerLeft'
    OBVIOUS
  <2>1. CASE UNCHANGED vars
    BY <2>1 DEF vars, stored, handler, channel, kept, CleanerLeft, CleansFiles, CleansRows, NoFiles, NoRows
  <2>2. ~Crash
    BY DEF Crash, Shapes, ControlTypeOK
  <2> QED BY <2>1, <2>2, ControlCleans, ChannelCleans, RestCleans DEF Next
<1>3. CleanerLeft => CancelledForgets
  BY DEF CleanerLeft, CleansFiles, CleansRows, CancelledForgets, Quiet, NoFiles, NoRows, Resting
<1> QED BY <1>1, <1>2, <1>3, ShapesKept, PTL DEF Spec
=============================================================================
