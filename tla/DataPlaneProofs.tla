-------------------------- MODULE DataPlaneProofs ---------------------------
(***************************************************************************)
(* What TLAPS proves of DataPlane, for every number of chunks, channels,   *)
(* attempts and troubles and every kind of source and target: its types,   *)
(* that no chunk is lost or sent twice (NothingForgotten), that the        *)
(* progress shown is what was written, short of what each channel is about *)
(* to count (ProgressHonest), that the receiver gives up only for a cause  *)
(* (GivesUpForCause), and that the data plane implements Delivery          *)
(* (DeliveryPromised).                                                     *)
(*                                                                         *)
(* The inductive invariant IInv has three parts.  Ends relates the places  *)
(* of both ends of a channel to what they hold and to how the attempt      *)
(* stands.  Right follows the content of the chunks: what is read for a    *)
(* chunk is that chunk, and a target without random access is sent its     *)
(* chunks in turn.  WayInv follows their indices over the stations of the  *)
(* way.  Induction over the recursion of InOrder is by a least             *)
(* counterexample.                                                         *)
(***************************************************************************)
EXTENDS DataPlane, FiniteSetTheorems, WellFoundedInduction, TLAPS

(* A set of numbers that is not empty has a least one.                     *)
LEMMA LeastOne ==
    ASSUME NEW T \in SUBSET Nat, T # {}
    PROVE  \E n \in T : \A m \in T : n <= m
<1> DEFINE R == OpToRel(<, Nat)
<1>1. PICK x \in T : \A y \in T : ~(<<y, x>> \in R)
  BY WFMin, NatLessThanWellFounded
<1>2. \A y \in Nat : y < x => <<y, x>> \in R
  BY DEF OpToRel
<1> HIDE DEF R
<1>3. ASSUME NEW m \in T PROVE x <= m
  <2>1. ~(m < x)
    BY <1>1, <1>2
  <2> QED BY <2>1
<1> QED BY <1>3

(* The recursion of InOrder as far as n.                                   *)
Extends(f, S, n) ==
    f = [k \in 0..n |->
            IF k = 0 THEN <<>> ELSE IF k \in S THEN Append(f[k - 1], k) ELSE f[k - 1]]

(* Every finite part of the recursion exists.                              *)
LEMMA Extended ==
    ASSUME NEW S
    PROVE  \A n \in Nat : \E f : Extends(f, S, n)
<1> DEFINE T == {n \in Nat : ~\E f : Extends(f, S, n)}
<1> SUFFICES ASSUME T # {} PROVE FALSE
  OBVIOUS
<1>1. PICK n \in T : \A m \in T : n <= m
  BY LeastOne
<1>2. CASE n = 0
  <2>1. Extends([k \in 0..0 |-> <<>>], S, 0)
    BY DEF Extends
  <2> QED BY <1>1, <1>2, <2>1
<1>3. CASE n # 0
  <2>1. n - 1 \in Nat /\ n - 1 \notin T
    BY <1>1, <1>3
  <2>2. PICK f : Extends(f, S, n - 1)
    BY <2>1
  <2> DEFINE g == [k \in 0..n |-> IF k = n THEN IF n \in S THEN Append(f[n - 1], n) ELSE f[n - 1] ELSE f[k]]
  <2>3. \A k \in 0..(n - 1) : g[k] = f[k]
    BY <1>1
  <2>4. ASSUME NEW k \in 0..n
        PROVE g[k] = IF k = 0 THEN <<>> ELSE IF k \in S THEN Append(g[k - 1], k) ELSE g[k - 1]
    <3>1. CASE k = n
      BY <1>1, <1>3, <3>1
    <3>2. CASE k # n
      <4>1. k \in 0..(n - 1) /\ g[k] = f[k] /\ (k # 0 => g[k - 1] = f[k - 1])
        BY <1>1, <3>2
      <4>2. f[k] = IF k = 0 THEN <<>> ELSE IF k \in S THEN Append(f[k - 1], k) ELSE f[k - 1]
        BY <2>2, <4>1 DEF Extends
      <4> QED BY <4>1, <4>2
    <3> QED BY <3>1, <3>2
  <2>5. Extends(g, S, n)
    BY <2>4 DEF Extends
  <2> QED BY <1>1, <2>5
<1> QED BY <1>2, <1>3

LEMMA InOrderExtends ==
    ASSUME NEW S
    PROVE  \E f : Extends(f, S, Size) /\ InOrder(S) = f[Size]
<1>1. \E f : Extends(f, S, Size)
  BY Extended, DataPlaneAssumption
<1> DEFINE f == CHOOSE f : Extends(f, S, Size)
<1>2. Extends(f, S, Size)
  BY <1>1
<1>3. InOrder(S) = f[Size]
  BY DEF InOrder, Extends
<1> QED BY <1>2, <1>3

(* s lists the chunks of S up to k, in their order.                        *)
Lists(s, S, k) ==
    /\ s \in Seq(Chunks)
    /\ \A i \in 1..Len(s) : s[i] \in S /\ s[i] <= k
    /\ \A i, j \in 1..Len(s) : s[i] = s[j] => i = j
    /\ \A x \in S : x <= k => \E i \in 1..Len(s) : s[i] = x
    /\ Len(s) = Cardinality(S \cap (1..k))
    /\ S = Chunks => Len(s) = k /\ \A i \in 1..k : s[i] = i

LEMMA ListsNothing ==
    ASSUME NEW S \in SUBSET Chunks
    PROVE  Lists(<<>>, S, 0)
<1>1. S \cap (1..0) = {}
  OBVIOUS
<1>2. Cardinality({}) = 0
  BY FS_EmptySet
<1>3. \A x \in S : ~(x <= 0)
  BY DataPlaneAssumption DEF Chunks
<1> QED BY <1>1, <1>2, <1>3 DEF Lists

LEMMA ListsOneMore ==
    ASSUME NEW S \in SUBSET Chunks, NEW k \in Chunks, NEW s, Lists(s, S, k - 1)
    PROVE  Lists(IF k \in S THEN Append(s, k) ELSE s, S, k)
<1>0. k \in Nat /\ k > 0 /\ Size \in Nat /\ k <= Size /\ S \subseteq 1..Size
  BY DataPlaneAssumption DEF Chunks
<1>a. s \in Seq(Chunks) /\ Len(s) \in Nat
  BY DEF Lists
<1>b. \A i \in 1..Len(s) : s[i] \in S /\ s[i] <= k - 1
  BY DEF Lists
<1>c. \A i, j \in 1..Len(s) : s[i] = s[j] => i = j
  BY DEF Lists
<1>d. \A x \in S : x <= k - 1 => \E i \in 1..Len(s) : s[i] = x
  BY DEF Lists
<1>e. Len(s) = Cardinality(S \cap (1..(k - 1)))
  BY DEF Lists
<1>g. S = Chunks => Len(s) = k - 1 /\ \A i \in 1..(k - 1) : s[i] = i
  BY DEF Lists
<1>h. \A i \in 1..Len(s) : s[i] \in Nat /\ s[i] < k
  <2>1. \A x \in S : x \in Nat /\ (x <= k - 1 => x < k)
    BY <1>0
  <2> QED BY <1>b, <2>1
<1>1. IsFiniteSet(S \cap (1..(k - 1)))
  <2>1. IsFiniteSet(1..(k - 1))
    BY <1>0, FS_Interval
  <2> QED BY <2>1, FS_Subset
<1>2. CASE k \notin S
  <2>1. S \cap (1..k) = S \cap (1..(k - 1))
    BY <1>0, <1>2
  <2>2. \A x \in S : x <= k => x <= k - 1
    BY <1>0, <1>2
  <2>3. \A i \in 1..Len(s) : s[i] <= k
    BY <1>0, <1>b, <1>h
  <2>4. S # Chunks
    BY <1>2
  <2> QED BY <1>a, <1>b, <1>c, <1>d, <1>e, <1>2, <2>1, <2>2, <2>3, <2>4 DEF Lists
<1>3. CASE k \in S
  <2> DEFINE t == Append(s, k)
  <2>1. s \in Seq(Chunks) /\ t \in Seq(Chunks) /\ Len(t) = Len(s) + 1 /\ Len(s) \in Nat
        /\ t[Len(s) + 1] = k /\ \A i \in 1..Len(s) : t[i] = s[i]
    BY <1>a
  <2> HIDE DEF t
  <2>2. \A i \in 1..Len(t) : t[i] \in S /\ t[i] <= k
    <3>1. \A i \in 1..Len(t) : i = Len(s) + 1 \/ i \in 1..Len(s)
      BY <2>1
    <3>2. \A i \in 1..Len(s) : t[i] \in S /\ t[i] <= k
      BY <1>0, <1>b, <1>h, <2>1
    <3> QED BY <1>0, <1>3, <2>1, <3>1, <3>2
  <2>3. \A i, j \in 1..Len(t) : t[i] = t[j] => i = j
    <3>1. \A i \in 1..Len(s) : t[i] # k
      BY <1>0, <1>h, <2>1
    <3>2. \A i \in 1..Len(t) : i # Len(s) + 1 => i \in 1..Len(s)
      BY <2>1
    <3>3. \A i, j \in 1..Len(s) : t[i] = t[j] => i = j
      BY <1>c, <2>1
    <3> QED BY <2>1, <3>1, <3>2, <3>3
  <2>4. ASSUME NEW x \in S, x <= k PROVE \E i \in 1..Len(t) : t[i] = x
    <3>1. CASE x = k
      BY <2>1, <3>1
    <3>2. CASE x # k
      <4>1. x <= k - 1
        BY <1>0, <2>4, <3>2
      <4>2. PICK i \in 1..Len(s) : s[i] = x
        BY <1>d, <4>1
      <4> QED BY <2>1, <4>2
    <3> QED BY <3>1, <3>2
  <2>5. Len(t) = Cardinality(S \cap (1..k))
    <3>1. S \cap (1..k) = (S \cap (1..(k - 1))) \cup {k}
      BY <1>0, <1>3
    <3>2. k \notin S \cap (1..(k - 1))
      BY <1>0
    <3>3. Cardinality(S \cap (1..k)) = Cardinality(S \cap (1..(k - 1))) + 1
      BY <1>1, <3>1, <3>2, FS_AddElement
    <3> QED BY <1>e, <2>1, <3>3
  <2>6. S = Chunks => Len(t) = k /\ \A i \in 1..k : t[i] = i
    BY <1>0, <1>g, <2>1
  <2> QED BY <1>3, <2>1, <2>2, <2>3, <2>4, <2>5, <2>6 DEF Lists, t
<1> QED BY <1>2, <1>3

LEMMA InOrderLists ==
    ASSUME NEW S \in SUBSET Chunks
    PROVE  Lists(InOrder(S), S, Size)
<1>0. Size \in Nat
  BY DataPlaneAssumption
<1>1. PICK f : Extends(f, S, Size) /\ InOrder(S) = f[Size]
  BY InOrderExtends
<1> DEFINE T == {k \in 0..Size : ~Lists(f[k], S, k)}
<1>2. ASSUME T # {} PROVE FALSE
  <2>1. T \in SUBSET Nat
    OBVIOUS
  <2>2. PICK k \in T : \A m \in T : k <= m
    BY <1>2, <2>1, LeastOne
  <2>3. k \in 0..Size /\ ~Lists(f[k], S, k)
    OBVIOUS
  <2>4. f[k] = IF k = 0 THEN <<>> ELSE IF k \in S THEN Append(f[k - 1], k) ELSE f[k - 1]
    BY <1>1, <2>3 DEF Extends
  <2>5. CASE k = 0
    BY <2>3, <2>4, <2>5, ListsNothing
  <2>6. CASE k # 0
    <3>1. k \in Chunks /\ k - 1 \in 0..Size /\ ~(k <= k - 1)
      BY <1>0, <2>3, <2>6 DEF Chunks
    <3>2. Lists(f[k - 1], S, k - 1)
      BY <2>2, <3>1
    <3> QED BY <2>3, <2>4, <2>6, <3>1, <3>2, ListsOneMore
  <2> QED BY <2>5, <2>6
<1> QED BY <1>0, <1>1, <1>2

(* missing_chunks names every chunk of S once, in the order of the file. *)
LEMMA InOrderFacts ==
    ASSUME NEW S \in SUBSET Chunks
    PROVE  /\ InOrder(S) \in Seq(Chunks)
           /\ Len(InOrder(S)) = Cardinality(S)
           /\ \A i \in 1..Len(InOrder(S)) : InOrder(S)[i] \in S
           /\ \A i, j \in 1..Len(InOrder(S)) : InOrder(S)[i] = InOrder(S)[j] => i = j
           /\ \A k \in S : \E i \in 1..Len(InOrder(S)) : InOrder(S)[i] = k
           /\ S = Chunks => \A i \in 1..Size : InOrder(S)[i] = i
<1>1. S \cap (1..Size) = S
  BY DEF Chunks
<1>2. \A k \in S : k <= Size
  BY DataPlaneAssumption DEF Chunks
<1> QED BY InOrderLists, <1>1, <1>2 DEF Lists
-----------------------------------------------------------------------------
(* Types, and what each place of the two ends says of the chunk at it.     *)

(* A chunk with what was read for it.                                      *)
Full == Chunks \X Chunks

SenderTypes ==
    /\ queue \in Seq(Chunks)
    /\ spc \in [Channels -> {"off", "connect", "gate", "peek", "send", "count", "done", "failed"}]
    /\ hold \in [Channels -> {None} \cup Full] /\ ahead \in [Channels -> Job]
    /\ sent \in 0..Size
    /\ task \in {"streaming", "completed", "failed"}

PathTypes ==
    /\ link \in [Channels -> Seq(Full)]
    /\ cut \in [Channels -> {"open", "shut", "cut"}]
    /\ rpc \in [Channels -> Inside \cup {"none", "broken", "left"}]
    /\ got \in [Channels -> {None} \cup Full]

StoreTypes ==
    /\ sequential \in Kinds /\ cursor \in 0..Size
    /\ file \in [Chunks -> 0..Size] /\ position \in 0..Size /\ marked \subseteq Chunks

ControlTypes ==
    /\ handler \in {"check", "arm", "wait", "grace", "done", "failed"}
    /\ signal \in BOOLEAN /\ spoiled \in BOOLEAN
    /\ paused \subseteq Side
    /\ nap \in [Side \X Channels -> {"awake", "arming", "asleep"}]
    /\ attempt \in 1..MaxAttempts /\ troubles \in 0..MaxTroubles

(* What a place of send_data_channel says of the chunk it works on and of  *)
(* the one it has claimed, and a place of handle_incoming_data of its own. *)
SenderPlaces ==
    \A c \in Channels :
        /\ spc[c] \in {"off", "connect", "gate", "count", "done"} => hold[c] = None
        /\ spc[c] \in {"peek", "send"} => hold[c] # None
        /\ spc[c] \in {"off", "connect", "peek", "done"} => ahead[c] = None

ReceiverPlaces ==
    \A c \in Channels : rpc[c] \in {"header", "write"} <=> got[c] # None

(* Before the sender has opened a connection nothing is on it.             *)
Unopened ==
    \A c \in Channels : spc[c] \in {"off", "connect"} => rpc[c] = "none" /\ link[c] = <<>>

Types == SenderTypes /\ PathTypes /\ StoreTypes /\ ControlTypes
Places == SenderPlaces /\ ReceiverPlaces /\ Unopened

LEMMA Jobs ==
    /\ None \notin Full
    /\ \A j \in Full : j[1] \in Chunks /\ j[2] \in Chunks /\ j[2] # 0 /\ j = <<j[1], j[2]>>
    /\ \A j \in Job : j # None => j[1] \in Chunks /\ j[2] \in 0..Size /\ j = <<j[1], j[2]>>
    /\ \A j \in Job : j # None /\ j[2] # 0 => j \in Full
    /\ \A k, n \in Chunks : <<k, n>> \in Full
    /\ \A k \in Chunks, n \in 0..Size : <<k, n>> \in Job /\ <<k, n>> # None
    /\ Full \subseteq Job /\ None \in Job
<1> USE DataPlaneAssumption DEF Chunks, None, Full, Job
<1>1. \A j \in Full : j[1] \in Chunks /\ j[2] \in Chunks /\ j = <<j[1], j[2]>>
  OBVIOUS
<1>2. \A j \in Job : j # None => j[1] \in Chunks /\ j[2] \in 0..Size /\ j = <<j[1], j[2]>>
  OBVIOUS
<1>3. \A k \in Chunks : k # 0 /\ k \in 0..Size
  OBVIOUS
<1>4. None \notin Full
  BY <1>1, <1>3
<1>5. \A n \in 0..Size : n # 0 => n \in Chunks
  OBVIOUS
<1>6. \A k \in Chunks, n \in 0..Size : <<k, n>> \in Job /\ <<k, n>> # None
  BY <1>3
<1> QED BY <1>1, <1>2, <1>3, <1>4, <1>5, <1>6

(* missing_chunks and progress of what a retry sends.                      *)
LEMMA LaunchFacts ==
    ASSUME NEW S \in SUBSET Chunks
    PROVE  /\ Cardinality(S) \in 0..Size
           /\ Progress(S) \in 0..Size
           /\ Cardinality(Chunks) = Size
<1>1. IsFiniteSet(Chunks) /\ Cardinality(Chunks) = Size
  BY DataPlaneAssumption, FS_Interval DEF Chunks
<1>2. Cardinality(S) \in Nat /\ Cardinality(S) <= Size
  BY <1>1, FS_Subset, FS_CardinalityType
<1> QED BY <1>1, <1>2, DataPlaneAssumption DEF Progress

LEMMA TypesInit == Init => Types /\ Places
<1> SUFFICES ASSUME Init PROVE Types /\ Places
  OBVIOUS
<1>1. InOrder(Chunks) \in Seq(Chunks)
  BY InOrderFacts
<1>2. SenderTypes
  BY <1>1, DataPlaneAssumption DEF Init, SenderTypes, Job
<1>3. PathTypes
  BY DEF Init, PathTypes
<1>4. StoreTypes
  BY DataPlaneAssumption DEF Init, StoreTypes
<1>5. ControlTypes
  <2>1. 1 \in 1..MaxAttempts /\ 0 \in 0..MaxTroubles
    BY DataPlaneAssumption
  <2> QED BY <2>1 DEF Init, ControlTypes
<1>6. Places
  BY DEF Init, Places, SenderPlaces, ReceiverPlaces, Unopened
<1> QED BY <1>2, <1>3, <1>4, <1>5, <1>6 DEF Types

(* A step of the sender's channels.                                        *)
LEMMA SenderTypesNext ==
    ASSUME Types, Places, Next
    PROVE  SenderTypes' /\ SenderPlaces'
<1> USE DEF Move, MoveR, source, sending, wire, data, stored, waiting, control, bounds
<1>q. /\ Types /\ SenderTypes /\ SenderPlaces /\ StoreTypes /\ Size \in Nat
      /\ queue # <<>> => Head(queue) \in Chunks /\ Tail(queue) \in Seq(Chunks)
  BY DataPlaneAssumption DEF Types, Places, SenderTypes
<1>r. Readable => \A k \in Chunks : Content(k) \in Chunks
  BY <1>q DEF Readable, Content, StoreTypes, Chunks
<1>1. ASSUME NEW c \in Channels, SConnect(c) PROVE SenderTypes' /\ SenderPlaces'
  BY <1>q, <1>1 DEF SConnect, SenderTypes, SenderPlaces
<1>2. ASSUME NEW c \in Channels, TakeAhead(c) PROVE SenderTypes' /\ SenderPlaces'
  <2>1. ahead[c] \in Full
    BY <1>q, <1>2, Jobs DEF TakeAhead, SenderTypes
  <2> QED BY <1>q, <1>2, <2>1, Jobs DEF TakeAhead, SenderTypes, SenderPlaces
<1>3. ASSUME NEW c \in Channels, TakeQueued(c) PROVE SenderTypes' /\ SenderPlaces'
  <2>1. <<Head(queue), Content(Head(queue))>> \in Full
    BY <1>q, <1>r, <1>3, Jobs DEF TakeQueued
  <2> QED BY <1>q, <1>3, <2>1, Jobs DEF TakeQueued, SenderTypes, SenderPlaces
<1>4. ASSUME NEW c \in Channels, Shut(c) PROVE SenderTypes' /\ SenderPlaces'
  BY <1>q, <1>4 DEF Shut, SenderTypes, SenderPlaces
<1>5. ASSUME NEW c \in Channels, Peek(c) PROVE SenderTypes' /\ SenderPlaces'
  <2> DEFINE j == <<Head(queue), IF "source" \in sequential THEN 0 ELSE Head(queue)>>
  <2>1. queue # <<>> => j \in Job
    <3>1. 0 \in 0..Size /\ \A k \in Chunks : k \in 0..Size
      BY <1>q DEF Chunks
    <3> QED BY <1>q, <3>1, Jobs
  <2> HIDE DEF j
  <2>2. /\ spc[c] = "peek" /\ spc' = [spc EXCEPT ![c] = "send"]
        /\ IF queue = <<>> THEN queue' = queue /\ ahead' = ahead
           ELSE ahead' = [ahead EXCEPT ![c] = j] /\ queue' = Tail(queue)
        /\ hold' = hold /\ sent' = sent /\ task' = task
    BY <1>5 DEF Peek, j
  <2> QED BY <1>q, <2>1, <2>2 DEF SenderTypes, SenderPlaces
<1>6. ASSUME NEW c \in Channels, ReadAhead(c) PROVE SenderTypes' /\ SenderPlaces'
  <2> DEFINE j == [ahead[c] EXCEPT ![2] = Content(ahead[c][1])]
  <2>1. j = <<ahead[c][1], Content(ahead[c][1])>> /\ j \in Full /\ j \in Job /\ j # None
    <3>1. ahead[c][1] \in Chunks /\ ahead[c] = <<ahead[c][1], ahead[c][2]>>
      BY <1>q, <1>6, Jobs DEF ReadAhead, SenderTypes
    <3>2. j = <<ahead[c][1], Content(ahead[c][1])>>
      BY <3>1
    <3>3. j \in Full
      BY <1>6, <1>r, <3>1, <3>2, Jobs DEF ReadAhead
    <3> QED BY <3>2, <3>3, Jobs
  <2>2. ahead' = [ahead EXCEPT ![c] = j]
    BY <1>q, <1>6 DEF ReadAhead, SenderTypes
  <2> HIDE DEF j
  <2> QED BY <1>q, <1>6, <2>1, <2>2 DEF ReadAhead, SenderTypes, SenderPlaces
<1>7. ASSUME NEW c \in Channels, SendChunk(c) PROVE SenderTypes' /\ SenderPlaces'
  BY <1>q, <1>7 DEF SendChunk, SenderTypes, SenderPlaces
<1>17. ASSUME NEW c \in Channels, CountSent(c) PROVE SenderTypes' /\ SenderPlaces'
  <2>1. /\ spc[c] = "count" /\ \E place \in {"gate", "failed"} : spc' = [spc EXCEPT ![c] = place]
        /\ sent' \in 0..Size /\ UNCHANGED <<queue, hold, ahead, task>>
    BY <1>q, <1>17 DEF CountSent, SenderTypes, Least
  <2> QED BY <1>q, <2>1 DEF SenderTypes, SenderPlaces
<1>8. ASSUME NEW c \in Channels, IoFails(c) \/ ChannelFails(c)
      PROVE SenderTypes' /\ SenderPlaces'
  <2>1. Fails(c)
    BY <1>8 DEF IoFails, ChannelFails
  <2> QED BY <1>q, <2>1 DEF Fails, SenderTypes, SenderPlaces
<1>9. ASSUME TaskFails PROVE SenderTypes' /\ SenderPlaces'
  BY <1>q, <1>9 DEF TaskFails, SenderTypes, SenderPlaces
<1>10. ASSUME ResultArrives PROVE SenderTypes' /\ SenderPlaces'
  BY <1>q, <1>9, <1>10 DEF ResultArrives, SenderTypes, SenderPlaces
<1>11. ASSUME Retry PROVE SenderTypes' /\ SenderPlaces'
  <2> DEFINE S == Chunks \ marked'
  <2>1. S \in SUBSET Chunks /\ Launch(S)
    BY <1>11 DEF Retry
  <2> HIDE DEF S
  <2>2. InOrder(S) \in Seq(Chunks) /\ Progress(S) \in 0..Size
    BY <2>1, InOrderFacts, LaunchFacts
  <2> QED BY <2>1, <2>2, Jobs DEF Launch, SenderTypes, SenderPlaces
<1>12. ASSUME UNCHANGED <<sending, task>> PROVE SenderTypes' /\ SenderPlaces'
  BY <1>q, <1>12 DEF SenderTypes, SenderPlaces
<1>13. ASSUME NEW c \in Channels,
              \/ ReceiverStep(c) \/ NapStep(c) \/ ChannelBreaks(c) \/ CutData(c)
       PROVE UNCHANGED <<sending, task>>
  BY <1>13 DEF ReceiverStep, NapStep, ReceiverPasses, Accept, ReadHeader, WriteChunk,
     ChannelEnds, Settle, FindPaused, FallAsleep, ChannelBreaks, CutData
<1>14. ASSUME LoopStep \/ Turn \/ \E s \in Side : Pause(s) \/ Resume(s)
       PROVE UNCHANGED <<sending, task>>
  BY <1>14 DEF LoopStep, Check, Arm, Woken, GiveUp, Turn, Pause, Resume
<1>15. ASSUME NEW c \in Channels, SenderStep(c) PROVE SenderTypes' /\ SenderPlaces'
  BY <1>1, <1>2, <1>3, <1>4, <1>5, <1>6, <1>7, <1>8, <1>15, <1>17 DEF SenderStep
<1>16. ASSUME TaskStep \/ TaskStops PROVE SenderTypes' /\ SenderPlaces'
  BY <1>9, <1>10, <1>16 DEF TaskStep, TaskStops, SeesChannelFail, SeesReceiverFail
<1> QED BY <1>8, <1>11, <1>12, <1>13, <1>14, <1>15, <1>16 DEF Next

(* What a chunk the receiver has read is, and what the connection is left  *)
(* with.                                                                   *)
LEMMA ReadFacts ==
    ASSUME NEW s \in Seq(Full), s # <<>>
    PROVE  /\ Head(s) \in Full /\ Tail(s) \in Seq(Full) /\ Head(s) = s[1]
           /\ Len(s) \in Nat /\ Len(s) >= 1 /\ Len(Tail(s)) = Len(s) - 1
           /\ \A i \in 1..(Len(s) - 1) : Tail(s)[i] = s[i + 1]
  OBVIOUS

(* A step of the connections and of the receiver's handlers.               *)
LEMMA PathTypesNext ==
    ASSUME Types, Places, Next
    PROVE  PathTypes' /\ ReceiverPlaces'
<1> USE DEF Move, MoveR, source, sending, wire, data, stored, waiting, control, bounds
<1>q. Types /\ PathTypes /\ ReceiverPlaces /\ SenderTypes /\ SenderPlaces /\ Unopened
  BY DEF Types, Places
<1>1. ASSUME NEW c \in Channels, Shut(c) \/ CutData(c) PROVE PathTypes' /\ ReceiverPlaces'
  BY <1>q, <1>1 DEF Shut, CutData, PathTypes, ReceiverPlaces
<1>2. ASSUME NEW c \in Channels, SendChunk(c) PROVE PathTypes' /\ ReceiverPlaces'
  <2>1. hold[c] \in Full
    BY <1>q, <1>2 DEF SendChunk, SenderTypes, SenderPlaces
  <2>2. link[c] \in Seq(Full) /\ Append(link[c], hold[c]) \in Seq(Full)
    BY <1>q, <2>1 DEF PathTypes
  <2> QED BY <1>q, <1>2, <2>2 DEF SendChunk, PathTypes, ReceiverPlaces
<1>3. ASSUME NEW c \in Channels, IoFails(c) PROVE PathTypes' /\ ReceiverPlaces'
  BY <1>q, <1>3 DEF IoFails, Fails, PathTypes, ReceiverPlaces
<1>4. ASSUME NEW c \in Channels, ChannelFails(c) PROVE PathTypes' /\ ReceiverPlaces'
  BY <1>q, <1>4 DEF ChannelFails, Fails, PathTypes, ReceiverPlaces, Unopened
<1>5. ASSUME TaskFails PROVE PathTypes' /\ ReceiverPlaces'
  BY <1>q, <1>5 DEF TaskFails, PathTypes, ReceiverPlaces
<1>6. ASSUME ResultArrives PROVE PathTypes' /\ ReceiverPlaces'
  BY <1>q, <1>5, <1>6 DEF ResultArrives, PathTypes, ReceiverPlaces
<1>7. ASSUME Retry PROVE PathTypes' /\ ReceiverPlaces'
  BY <1>7 DEF Retry, Launch, PathTypes, ReceiverPlaces
<1>8. ASSUME NEW c \in Channels, ReceiverPasses(c) PROVE PathTypes' /\ ReceiverPlaces'
  BY <1>q, <1>8 DEF ReceiverPasses, PathTypes, ReceiverPlaces, Inside
<1>9. ASSUME NEW c \in Channels, Accept(c) PROVE PathTypes' /\ ReceiverPlaces'
  BY <1>q, <1>9 DEF Accept, PathTypes, ReceiverPlaces, Inside
<1>10. ASSUME NEW c \in Channels, ReadHeader(c) PROVE PathTypes' /\ ReceiverPlaces'
  <2>1. Head(link[c]) \in Full /\ Tail(link[c]) \in Seq(Full)
    BY <1>q, <1>10, ReadFacts DEF ReadHeader, PathTypes
  <2> QED BY <1>q, <1>10, <2>1, Jobs DEF ReadHeader, PathTypes, ReceiverPlaces, Inside
<1>11. ASSUME NEW c \in Channels, WriteChunk(c) PROVE PathTypes' /\ ReceiverPlaces'
  BY <1>q, <1>11 DEF WriteChunk, PathTypes, ReceiverPlaces, Inside
<1>12. ASSUME NEW c \in Channels, ChannelEnds(c) \/ ChannelBreaks(c)
       PROVE PathTypes' /\ ReceiverPlaces'
  <2>1. \E p \in {"left", "broken"} :
           /\ rpc' = [rpc EXCEPT ![c] = p] /\ got' = [got EXCEPT ![c] = None]
           /\ link' = [link EXCEPT ![c] = <<>>] /\ cut' = cut
    BY <1>12 DEF ChannelEnds, ChannelBreaks, Leaves
  <2>2. <<>> \in Seq(Full)
    OBVIOUS
  <2> QED BY <1>q, <2>1, <2>2 DEF PathTypes, ReceiverPlaces
<1>13. ASSUME NEW c \in Channels, Settle(c) PROVE PathTypes' /\ ReceiverPlaces'
  BY <1>q, <1>13 DEF Settle, PathTypes, ReceiverPlaces
<1>14. ASSUME UNCHANGED <<wire, data>> PROVE PathTypes' /\ ReceiverPlaces'
  BY <1>q, <1>14 DEF PathTypes, ReceiverPlaces
<1>15. ASSUME NEW c \in Channels,
              \/ SConnect(c) \/ TakeAhead(c) \/ TakeQueued(c) \/ Peek(c) \/ ReadAhead(c)
              \/ NapStep(c)
       PROVE UNCHANGED <<wire, data>>
  BY <1>15 DEF NapStep, FindPaused, FallAsleep, SConnect, TakeAhead, TakeQueued, Peek, ReadAhead
<1>16. ASSUME LoopStep \/ Turn \/ \E s \in Side : Pause(s) \/ Resume(s)
       PROVE UNCHANGED <<wire, data>>
  BY <1>16 DEF LoopStep, Check, Arm, Woken, GiveUp, Turn, Pause, Resume
<1>20. ASSUME NEW c \in Channels, CountSent(c) PROVE PathTypes' /\ ReceiverPlaces'
  <2>1. cut' = cut \/ cut' = [cut EXCEPT ![c] = "cut"]
    BY <1>20 DEF CountSent
  <2>2. UNCHANGED <<link, data>>
    BY <1>20 DEF CountSent
  <2> QED BY <1>q, <2>1, <2>2 DEF PathTypes, ReceiverPlaces
<1>17. ASSUME NEW c \in Channels, SenderStep(c) PROVE PathTypes' /\ ReceiverPlaces'
  BY <1>1, <1>2, <1>3, <1>14, <1>15, <1>17, <1>20 DEF SenderStep
<1>18. ASSUME NEW c \in Channels, ReceiverStep(c) PROVE PathTypes' /\ ReceiverPlaces'
  BY <1>8, <1>9, <1>10, <1>11, <1>12, <1>13, <1>18 DEF ReceiverStep
<1>19. ASSUME TaskStep \/ TaskStops PROVE PathTypes' /\ ReceiverPlaces'
  BY <1>5, <1>6, <1>19 DEF TaskStep, TaskStops, SeesChannelFail, SeesReceiverFail
<1> QED BY <1>1, <1>4, <1>7, <1>12, <1>14, <1>15, <1>16, <1>17, <1>18, <1>19 DEF Next

LEMMA StoreTypesNext ==
    ASSUME Types, Places, Next
    PROVE  StoreTypes'
<1> USE DEF source, sending, wire, data, stored, waiting, control, bounds
<1>q. Types /\ PathTypes /\ ReceiverPlaces /\ StoreTypes /\ Size \in Nat
  BY DataPlaneAssumption DEF Types, Places
<1>1. ASSUME NEW c \in Channels, TakeQueued(c) \/ ReadAhead(c) PROVE StoreTypes'
  <2>1. Readable /\ Advance /\ UNCHANGED <<sequential, stored>>
    BY <1>1 DEF TakeQueued, ReadAhead
  <2> QED BY <1>q, <2>1 DEF Readable, Advance, StoreTypes
<1>2. ASSUME NEW c \in Channels, WriteChunk(c) PROVE StoreTypes'
  <2>1. got[c] \in Full /\ got[c][1] \in Chunks /\ got[c][2] \in Chunks
    BY <1>q, <1>2, Jobs DEF WriteChunk, PathTypes, ReceiverPlaces
  <2> DEFINE place == IF "target" \in sequential THEN position + 1 ELSE got[c][1]
  <2>2. place \in Chunks
    BY <1>q, <1>2, <2>1 DEF WriteChunk, StoreTypes, Chunks
  <2>3. /\ file' = [file EXCEPT ![place] = got[c][2]]
        /\ position' = IF "target" \in sequential THEN place ELSE position
        /\ marked' = marked \cup {got[c][1]}
        /\ UNCHANGED <<sequential, cursor>>
    BY <1>2 DEF WriteChunk
  <2>4. place \in 0..Size /\ got[c][2] \in 0..Size
    BY <1>q, <2>1, <2>2 DEF Chunks
  <2> HIDE DEF place
  <2> QED BY <1>q, <2>1, <2>2, <2>3, <2>4 DEF StoreTypes
<1>3. ASSUME Retry PROVE StoreTypes'
  BY <1>q, <1>3 DEF Retry, StoreTypes
<1>4. ASSUME UNCHANGED <<source, stored>> PROVE StoreTypes'
  BY <1>q, <1>4 DEF StoreTypes
<1>5. ASSUME NEW c \in Channels,
             \/ SConnect(c) \/ TakeAhead(c) \/ Shut(c) \/ Peek(c) \/ SendChunk(c) \/ CountSent(c)
             \/ IoFails(c) \/ NapStep(c) \/ ChannelFails(c) \/ CutData(c)
      PROVE UNCHANGED <<source, stored>>
  BY <1>5 DEF NapStep, FindPaused, FallAsleep, SConnect, TakeAhead, Shut, Peek, SendChunk,
     CountSent, IoFails, Fails, ChannelFails, CutData
<1>6. ASSUME NEW c \in Channels,
             \/ ReceiverPasses(c) \/ Accept(c) \/ ReadHeader(c) \/ ChannelEnds(c)
             \/ ChannelBreaks(c) \/ Settle(c)
      PROVE UNCHANGED <<source, stored>>
  BY <1>6 DEF ReceiverPasses, Accept, ReadHeader, ChannelEnds, ChannelBreaks, Settle
<1>7. ASSUME LoopStep \/ Turn \/ TaskStep \/ TaskStops \/ \E s \in Side : Pause(s) \/ Resume(s)
      PROVE UNCHANGED <<source, stored>>
  BY <1>7 DEF LoopStep, Check, Arm, Woken, GiveUp, Turn, Pause, Resume, TaskStep, TaskStops,
     SeesChannelFail, SeesReceiverFail, ResultArrives, TaskFails
<1> QED BY <1>1, <1>2, <1>3, <1>4, <1>5, <1>6, <1>7 DEF Next, SenderStep, ReceiverStep

LEMMA ControlTypesNext ==
    ASSUME Types, Next
    PROVE  ControlTypes'
<1> USE DEF source, sending, wire, data, stored, waiting, control, bounds
<1>q. Types /\ ControlTypes /\ MaxTroubles \in Nat /\ MaxAttempts \in Nat
  BY DataPlaneAssumption DEF Types
<1>1. ASSUME NEW c \in Channels, NapStep(c) PROVE ControlTypes'
  BY <1>q, <1>1 DEF NapStep, FindPaused, FallAsleep, ControlTypes
<1>2. ASSUME NEW s \in Side, Pause(s) \/ Resume(s) PROVE ControlTypes'
  BY <1>q, <1>2 DEF Pause, Resume, ControlTypes
<1>3. ASSUME NEW c \in Channels, ChannelFails(c) \/ CutData(c) PROVE ControlTypes'
  BY <1>q, <1>3 DEF ChannelFails, Fails, CutData, ControlTypes
<1>4. ASSUME TaskStops PROVE ControlTypes'
  BY <1>q, <1>4 DEF TaskStops, TaskFails, ControlTypes
<1>5. ASSUME NEW c \in Channels, WriteChunk(c) \/ Settle(c) PROVE ControlTypes'
  BY <1>q, <1>5 DEF WriteChunk, Settle, ControlTypes
<1>6. ASSUME NEW c \in Channels, ChannelEnds(c) \/ ChannelBreaks(c) PROVE ControlTypes'
  BY <1>q, <1>6 DEF ChannelEnds, ChannelBreaks, Leaves, ControlTypes
<1>7. ASSUME LoopStep \/ Turn PROVE ControlTypes'
  BY <1>q, <1>7 DEF LoopStep, Check, Arm, Woken, GiveUp, Turn, Verify, ControlTypes
<1>8. ASSUME Retry PROVE ControlTypes'
  <2>1. nap' = [n \in Side \X Channels |-> "awake"]
    BY <1>8 DEF Retry, Launch
  <2>2. attempt' \in 1..MaxAttempts /\ troubles' = troubles
    BY <1>q, <1>8 DEF Retry, ControlTypes
  <2>3. handler' = "check" /\ signal' = FALSE /\ spoiled' = FALSE /\ paused' = {}
    BY <1>8 DEF Retry, Launch
  <2> QED BY <1>q, <2>1, <2>2, <2>3 DEF ControlTypes
<1>9. ASSUME UNCHANGED <<waiting, control, bounds>> PROVE ControlTypes'
  BY <1>q, <1>9 DEF ControlTypes
<1>12. ASSUME NEW c \in Channels, CountSent(c) PROVE ControlTypes'
  <2>1. UNCHANGED <<waiting, control, attempt>> /\ troubles' \in 0..MaxTroubles
    BY <1>q, <1>12 DEF CountSent, ControlTypes
  <2> QED BY <1>q, <2>1 DEF ControlTypes
<1>10. ASSUME NEW c \in Channels, ~CountSent(c),
              SenderStep(c) \/ ReceiverPasses(c) \/ Accept(c) \/ ReadHeader(c)
       PROVE UNCHANGED <<waiting, control, bounds>>
  BY <1>10 DEF SenderStep, SConnect, TakeAhead, TakeQueued, Shut, Peek, ReadAhead, SendChunk,
     IoFails, Fails, ReceiverPasses, Accept, ReadHeader
<1>11. ASSUME TaskStep PROVE UNCHANGED <<waiting, control, bounds>>
  BY <1>11 DEF TaskStep, SeesChannelFail, SeesReceiverFail, ResultArrives, TaskFails
<1> QED BY <1>1, <1>2, <1>3, <1>4, <1>5, <1>6, <1>7, <1>8, <1>9, <1>10, <1>11, <1>12
        DEF Next, ReceiverStep

(* A connection is opened once in an attempt.                              *)
LEMMA UnopenedNext ==
    ASSUME Types, Places, Next
    PROVE  Unopened'
<1> USE DEF Move, MoveR, source, sending, wire, data, stored, waiting, control, bounds
<1>q. Types /\ PathTypes /\ SenderTypes /\ Unopened
  BY DEF Types, Places
<1>1. ASSUME NEW c \in Channels, SConnect(c) \/ TakeAhead(c) \/ TakeQueued(c) \/ Shut(c) \/ Peek(c)
      PROVE Unopened'
  BY <1>q, <1>1 DEF SConnect, TakeAhead, TakeQueued, Shut, Peek, SenderTypes, Unopened
<1>2. ASSUME NEW c \in Channels, SendChunk(c) PROVE Unopened'
  BY <1>q, <1>2 DEF SendChunk, SenderTypes, PathTypes, Unopened
<1>12. ASSUME NEW c \in Channels, CountSent(c) PROVE Unopened'
  BY <1>q, <1>12 DEF CountSent, SenderTypes, Unopened
<1>3. ASSUME NEW c \in Channels, IoFails(c) \/ ChannelFails(c) PROVE Unopened'
  BY <1>q, <1>3 DEF IoFails, ChannelFails, Fails, SenderTypes, PathTypes, Unopened
<1>4. ASSUME TaskFails PROVE Unopened'
  BY <1>q, <1>4 DEF TaskFails, SenderTypes, Unopened
<1>5. ASSUME TaskStep \/ TaskStops PROVE Unopened'
  BY <1>q, <1>4, <1>5
     DEF TaskStep, TaskStops, SeesChannelFail, SeesReceiverFail, ResultArrives, Unopened
<1>6. ASSUME NEW c \in Channels,
             ReceiverPasses(c) \/ Accept(c) \/ ReadHeader(c) \/ WriteChunk(c) \/ Settle(c)
      PROVE Unopened'
  BY <1>q, <1>6
     DEF ReceiverPasses, Accept, ReadHeader, WriteChunk, Settle, PathTypes, Unopened, Inside
<1>7. ASSUME NEW c \in Channels, ChannelEnds(c) \/ ChannelBreaks(c) PROVE Unopened'
  BY <1>q, <1>7 DEF ChannelEnds, ChannelBreaks, Leaves, PathTypes, Unopened
<1>8. ASSUME Retry PROVE Unopened'
  BY <1>8 DEF Retry, Launch, Unopened
<1>9. ASSUME UNCHANGED <<spc, rpc, link>> PROVE Unopened'
  BY <1>q, <1>9 DEF Unopened
<1>10. ASSUME NEW c \in Channels, ReadAhead(c) \/ NapStep(c) \/ CutData(c)
       PROVE UNCHANGED <<spc, rpc, link>>
  BY <1>10 DEF ReadAhead, NapStep, FindPaused, FallAsleep, CutData
<1>11. ASSUME LoopStep \/ Turn \/ \E s \in Side : Pause(s) \/ Resume(s)
       PROVE UNCHANGED <<spc, rpc, link>>
  BY <1>11 DEF LoopStep, Check, Arm, Woken, GiveUp, Turn, Pause, Resume
<1> QED BY <1>1, <1>2, <1>3, <1>5, <1>6, <1>7, <1>8, <1>9, <1>10, <1>11, <1>12
        DEF Next, SenderStep, ReceiverStep

LEMMA TypesNext == Types /\ Places /\ [Next]_vars => Types' /\ Places'
<1> SUFFICES ASSUME Types, Places, [Next]_vars PROVE Types' /\ Places'
  OBVIOUS
<1>1. CASE Next
  BY <1>1, SenderTypesNext, PathTypesNext, StoreTypesNext, ControlTypesNext,
     UnopenedNext DEF Types, Places
<1>2. CASE UNCHANGED vars
  BY <1>2 DEF vars, source, sending, wire, data, stored, waiting, control, bounds, Types,
     SenderTypes, PathTypes, StoreTypes, ControlTypes, Places, SenderPlaces, ReceiverPlaces, Unopened
<1> QED BY <1>1, <1>2

LEMMA TypesAlways == Spec => [](Types /\ Places)
<1> QED BY TypesInit, TypesNext, PTL DEF Spec

(* The types of the model, for every number of chunks and channels: no     *)
(* chunk outside the file is queued, read, written or marked.              *)
THEOREM TypesKept == Spec => []TypeOK
<1>1. Types => TypeOK
  <2>1. Full \subseteq Job /\ None \in Job
    BY Jobs
  <2>2. \A s \in Seq(Full) : s \in Seq(Job)
    BY <2>1
  <2> QED BY <2>1, <2>2
      DEF Types, TypeOK, SenderTypes, PathTypes, StoreTypes, ControlTypes
<1> QED BY <1>1, TypesAlways, PTL

-----------------------------------------------------------------------------
(* How channels and attempts end.                                          *)

(* A channel of the receiver leaves a sound connection only when the       *)
(* sender has shut it, which it does only when nothing is queued.          *)
Endings ==
    \A c \in Channels :
        /\ rpc[c] = "broken" => cut[c] = "cut"
        /\ cut[c] = "shut" => spc[c] = "done"
        /\ spc[c] = "done" => queue = <<>>
        /\ rpc[c] = "left" /\ cut[c] # "cut" => cut[c] = "shut" /\ link[c] = <<>>

(* An attempt without channels has nothing to send.                        *)
Finished ==
    /\ handler = "done" => Missing = {}
    /\ task = "completed" => handler = "done"
    /\ (\A c \in Channels : spc[c] = "off") => Missing = {}

(* The first channel is opened when there is something to send.            *)
LEMMA SomeChannel ==
    ASSUME NEW n \in Nat, Types, n # 0
    PROVE  1 \in Channels /\ 1 <= ChannelCount(n)
<1>1. MaxChannels \in Nat /\ MaxChannels >= 1
  BY DataPlaneAssumption
<1> QED BY <1>1 DEF ChannelCount, Least, Channels

LEMMA EndingsInit == Init => Endings /\ Finished
<1> SUFFICES ASSUME Init PROVE Endings /\ Finished
  OBVIOUS
<1>1. Endings
  BY DEF Init, Endings
<1>2. ASSUME \A c \in Channels : spc[c] = "off" PROVE Chunks = {}
  <2>1. Size = 0
    <3> SUFFICES ASSUME Size # 0 PROVE FALSE
      OBVIOUS
    <3>1. 1 \in Channels /\ 1 <= ChannelCount(Size)
      BY SomeChannel, TypesInit, DataPlaneAssumption
    <3> QED BY <1>2, <3>1 DEF Init
  <2> QED BY <2>1 DEF Chunks
<1> QED BY <1>1, <1>2 DEF Init, Finished, Missing

LEMMA EndingsNext ==
    ASSUME Types, Places, Endings, Next
    PROVE  Endings'
<1> USE DEF Move, MoveR, source, sending, wire, data, stored, waiting, control, bounds
<1>q. Types /\ PathTypes /\ SenderTypes /\ Unopened /\ Endings
  BY DEF Types, Places
<1>1. ASSUME NEW c \in Channels, SConnect(c) \/ TakeAhead(c) PROVE Endings'
  BY <1>q, <1>1 DEF SConnect, TakeAhead, SenderTypes, Endings
<1>2. ASSUME NEW c \in Channels, TakeQueued(c) \/ Peek(c) PROVE Endings'
  <2>1. \A d \in Channels : spc[d] = "done" => queue = <<>> /\ d # c
    BY <1>q, <1>2 DEF TakeQueued, Peek, Endings
  <2>2. queue = <<>> => queue' = <<>>
    BY <1>2 DEF TakeQueued, Peek
  <2>3. \A d \in Channels : spc'[d] = spc[d] \/ (d = c /\ spc'[d] \in {"peek", "send"})
    BY <1>q, <1>2 DEF TakeQueued, Peek, SenderTypes
  <2>4. UNCHANGED <<rpc, cut, link>>
    BY <1>2 DEF TakeQueued, Peek
  <2> QED BY <1>q, <2>1, <2>2, <2>3, <2>4 DEF Endings
<1>3. ASSUME NEW c \in Channels, Shut(c) PROVE Endings'
  BY <1>q, <1>3 DEF Shut, SenderTypes, PathTypes, Endings
<1>4. ASSUME NEW c \in Channels, SendChunk(c) PROVE Endings'
  BY <1>q, <1>4 DEF SendChunk, SenderTypes, PathTypes, Endings
<1>17. ASSUME NEW c \in Channels, CountSent(c) PROVE Endings'
  <2>1. /\ spc[c] = "count" /\ \E place \in {"gate", "failed"} : spc' = [spc EXCEPT ![c] = place]
        /\ cut' = cut \/ cut' = [cut EXCEPT ![c] = "cut"]
        /\ UNCHANGED <<queue, rpc, link>>
    BY <1>17 DEF CountSent
  <2> QED BY <1>q, <2>1 DEF SenderTypes, PathTypes, Endings
<1>5. ASSUME NEW c \in Channels, IoFails(c) \/ ChannelFails(c) PROVE Endings'
  <2>1. spc[c] # "done" /\ Fails(c)
    BY <1>5 DEF IoFails, ChannelFails
  <2>2. rpc' = rpc \/ rpc' = [rpc EXCEPT ![c] = IF spc[c] = "connect" THEN "left" ELSE @]
    BY <1>5 DEF IoFails, ChannelFails
  <2> QED BY <1>q, <2>1, <2>2 DEF Fails, SenderTypes, PathTypes, Endings
<1>6. ASSUME TaskFails PROVE Endings'
  BY <1>q, <1>6 DEF TaskFails, SenderTypes, PathTypes, Endings
<1>7. ASSUME TaskStep \/ TaskStops PROVE Endings'
  BY <1>q, <1>6, <1>7
     DEF TaskStep, TaskStops, SeesChannelFail, SeesReceiverFail, ResultArrives, Endings
<1>8. ASSUME NEW c \in Channels, ReceiverPasses(c) PROVE Endings'
  BY <1>q, <1>8 DEF ReceiverPasses, PathTypes, Endings
<1>9. ASSUME NEW c \in Channels, Accept(c) PROVE Endings'
  BY <1>q, <1>9 DEF Accept, PathTypes, Endings
<1>10. ASSUME NEW c \in Channels, ReadHeader(c) \/ WriteChunk(c) PROVE Endings'
  BY <1>q, <1>10 DEF ReadHeader, WriteChunk, PathTypes, Endings
<1>11. ASSUME NEW c \in Channels, ChannelEnds(c) \/ ChannelBreaks(c) \/ Settle(c) PROVE Endings'
  <2>1. CASE ChannelEnds(c)
    BY <1>q, <2>1 DEF ChannelEnds, Leaves, PathTypes, Endings
  <2>2. CASE ChannelBreaks(c)
    BY <1>q, <2>2 DEF ChannelBreaks, Leaves, PathTypes, Endings
  <2>3. CASE Settle(c)
    BY <1>q, <2>3 DEF Settle, PathTypes, Endings
  <2> QED BY <1>11, <2>1, <2>2, <2>3
<1>12. ASSUME Retry PROVE Endings'
  BY <1>12 DEF Retry, Launch, Endings
<1>13. ASSUME NEW c \in Channels, CutData(c) PROVE Endings'
  BY <1>q, <1>13 DEF CutData, PathTypes, Endings
<1>14. ASSUME UNCHANGED <<spc, queue, rpc, cut, link>> PROVE Endings'
  BY <1>q, <1>14 DEF Endings
<1>15. ASSUME NEW c \in Channels, ReadAhead(c) \/ NapStep(c)
       PROVE UNCHANGED <<spc, queue, rpc, cut, link>>
  BY <1>15 DEF ReadAhead, NapStep, FindPaused, FallAsleep
<1>16. ASSUME LoopStep \/ Turn \/ \E s \in Side : Pause(s) \/ Resume(s)
       PROVE UNCHANGED <<spc, queue, rpc, cut, link>>
  BY <1>16 DEF LoopStep, Check, Arm, Woken, GiveUp, Turn, Pause, Resume
<1> QED BY <1>1, <1>2, <1>3, <1>4, <1>5, <1>7, <1>8, <1>9, <1>10, <1>11, <1>12, <1>13,
           <1>14, <1>15, <1>16, <1>17 DEF Next, SenderStep, ReceiverStep

(* Within an attempt a channel that is open is not closed again, and what  *)
(* the receiver has it keeps.                                              *)
LEMMA AttemptKeeps ==
    ASSUME Types, Places, Next, ~Retry
    PROVE  /\ \A c \in Channels : spc'[c] = "off" => spc[c] = "off"
           /\ Missing' \subseteq Missing
           /\ sequential' = sequential
<1> USE DEF Move, MoveR, source, sending, wire, data, stored, waiting, control, bounds, Missing
<1>q. SenderTypes
  BY DEF Types
<1> DEFINE Keeps == /\ \A c \in Channels : spc'[c] = "off" => spc[c] = "off"
                    /\ Missing' \subseteq Missing /\ sequential' = sequential
<1>1. ASSUME NEW c \in Channels, SenderStep(c) \/ ChannelFails(c) PROVE Keeps
  BY <1>q, <1>1 DEF SenderStep, SConnect, TakeAhead, TakeQueued, Shut, Peek, ReadAhead,
     SendChunk, CountSent, IoFails, ChannelFails, Fails, SenderTypes
<1>2. ASSUME NEW c \in Channels,
             ReceiverStep(c) \/ NapStep(c) \/ ChannelBreaks(c) \/ CutData(c)
      PROVE Keeps
  BY <1>2 DEF ReceiverStep, ReceiverPasses, Accept, ReadHeader, WriteChunk, ChannelEnds,
     Settle, NapStep, FindPaused, FallAsleep, ChannelBreaks, CutData
<1>3. ASSUME LoopStep \/ Turn \/ \E s \in Side : Pause(s) \/ Resume(s) PROVE Keeps
  BY <1>3 DEF LoopStep, Check, Arm, Woken, GiveUp, Turn, Pause, Resume
<1>4. ASSUME TaskStep \/ TaskStops PROVE Keeps
  BY <1>q, <1>4 DEF TaskStep, TaskStops, SeesChannelFail, SeesReceiverFail, ResultArrives,
     TaskFails, SenderTypes
<1> QED BY <1>1, <1>2, <1>3, <1>4 DEF Next

(* Who moves the loop of the receiver and the task of the sender.          *)
LEMMA LoopMoves ==
    ASSUME Next, ~Retry, ~(LoopStep \/ Turn)
    PROVE  handler' = handler
<1> USE DEF source, sending, wire, data, stored, waiting, control, bounds
<1>1. ASSUME NEW c \in Channels,
             \/ SenderStep(c) \/ ReceiverStep(c) \/ NapStep(c) \/ ChannelFails(c)
             \/ ChannelBreaks(c) \/ CutData(c)
      PROVE handler' = handler
  BY <1>1 DEF SenderStep, SConnect, TakeAhead, TakeQueued, Shut, Peek, ReadAhead,
     SendChunk, CountSent, IoFails, ChannelFails, Fails, ReceiverStep, ReceiverPasses, Accept,
     ReadHeader, WriteChunk, ChannelEnds, Leaves, Settle, NapStep, FindPaused, FallAsleep,
     ChannelBreaks, CutData
<1>2. ASSUME TaskStep \/ TaskStops \/ \E s \in Side : Pause(s) \/ Resume(s)
      PROVE handler' = handler
  BY <1>2 DEF TaskStep, TaskStops, SeesChannelFail, SeesReceiverFail, ResultArrives,
     TaskFails, Pause, Resume
<1> QED BY <1>1, <1>2 DEF Next

LEMMA TaskMoves ==
    ASSUME Next, ~Retry
    PROVE  \/ task' = task
           \/ TaskFails
           \/ handler = "done" /\ task = "streaming" /\ task' = "completed"
              /\ UNCHANGED <<source, sending, wire, data, stored, waiting, control>>
<1> USE DEF source, sending, wire, data, stored, waiting, control, bounds
<1>1. ASSUME NEW c \in Channels,
             \/ SenderStep(c) \/ ReceiverStep(c) \/ NapStep(c) \/ ChannelFails(c)
             \/ ChannelBreaks(c) \/ CutData(c)
      PROVE task' = task
  BY <1>1 DEF SenderStep, SConnect, TakeAhead, TakeQueued, Shut, Peek, ReadAhead,
     SendChunk, CountSent, IoFails, ChannelFails, Fails, ReceiverStep, ReceiverPasses, Accept,
     ReadHeader, WriteChunk, ChannelEnds, Leaves, Settle, NapStep, FindPaused, FallAsleep,
     ChannelBreaks, CutData
<1>2. ASSUME LoopStep \/ Turn \/ \E s \in Side : Pause(s) \/ Resume(s) PROVE task' = task
  BY <1>2 DEF LoopStep, Check, Arm, Woken, GiveUp, Turn, Pause, Resume
<1>3. ASSUME TaskStep \/ TaskStops, ~TaskFails
      PROVE handler = "done" /\ task = "streaming" /\ task' = "completed"
            /\ UNCHANGED <<source, sending, wire, data, stored, waiting, control>>
  BY <1>3 DEF TaskStep, TaskStops, SeesChannelFail, SeesReceiverFail, ResultArrives
<1> QED BY <1>1, <1>2, <1>3 DEF Next

LEMMA FinishedNext ==
    ASSUME Types, Places, Finished, Next
    PROVE  Finished'
<1>1. ASSUME ~Retry PROVE Finished'
  <2>1. Missing' \subseteq Missing /\ \A c \in Channels : spc'[c] = "off" => spc[c] = "off"
    BY <1>1, AttemptKeeps
  <2>2. ASSUME LoopStep \/ Turn
        PROVE handler # "done" /\ (handler' = "done" => Missing = {}) /\ task' = task
    BY <2>2 DEF LoopStep, Check, Arm, Woken, GiveUp, Turn, Verify
  <2>3. ASSUME ~(LoopStep \/ Turn) PROVE handler' = handler
    BY <1>1, <2>3, LoopMoves
  <2>4. task' = "completed" => task = "completed" \/ handler = "done"
    BY <1>1, TaskMoves DEF TaskFails
  <2> QED BY <2>1, <2>2, <2>3, <2>4 DEF Finished
<1>2. ASSUME Retry PROVE Finished'
  <2> DEFINE S == Chunks \ marked'
  <2>1. S \in SUBSET Chunks /\ Launch(S) /\ Missing' = S
    BY <1>2 DEF Retry, Missing
  <2> HIDE DEF S
  <2>2. ASSUME \A c \in Channels : spc'[c] = "off" PROVE S = {}
    <3>1. IsFiniteSet(S)
      <4>1. IsFiniteSet(Chunks)
        BY FS_Interval, DataPlaneAssumption DEF Chunks
      <4> QED BY <2>1, <4>1, FS_Subset
    <3>2. Cardinality(S) \in Nat /\ (Cardinality(S) = 0 => S = {})
      BY <3>1, FS_CardinalityType, FS_EmptySet
    <3>3. Cardinality(S) # 0 => 1 \in Channels /\ 1 <= ChannelCount(Cardinality(S))
      BY <3>2, SomeChannel
    <3> QED BY <2>1, <2>2, <3>2, <3>3 DEF Launch
  <2> QED BY <2>1, <2>2 DEF Launch, Finished
<1> QED BY <1>1, <1>2

Ends == Types /\ Places /\ Endings /\ Finished

LEMMA EndsNext == Ends /\ [Next]_vars => Ends'
<1> SUFFICES ASSUME Ends, [Next]_vars PROVE Ends'
  OBVIOUS
<1>1. Types' /\ Places'
  BY TypesNext DEF Ends
<1>2. CASE Next
  BY <1>1, <1>2, EndingsNext, FinishedNext DEF Ends
<1>3. CASE UNCHANGED vars
  BY <1>1, <1>3 DEF vars, source, sending, wire, data, stored, waiting, Ends, Endings,
     Finished, Missing
<1> QED BY <1>2, <1>3

LEMMA EndsAlways == Spec => []Ends
<1>1. Init => Ends
  BY TypesInit, EndingsInit DEF Ends
<1> QED BY <1>1, EndsNext, PTL DEF Spec

-----------------------------------------------------------------------------
(* The right chunk at the right place.                                     *)

(* What a source with random access delivers for a chunk is that chunk.    *)
Labels ==
    "source" \notin sequential =>
        \A c \in Channels :
            /\ hold[c] # None => hold[c][2] = hold[c][1]
            /\ ahead[c] # None => ahead[c][2] = ahead[c][1]
            /\ \A i \in 1..Len(link[c]) : link[c][i][2] = link[c][i][1]
            /\ got[c] # None => got[c][2] = got[c][1]

(* An end without random access allows one channel.                        *)
OneChannel == sequential # {} => \A c \in Channels : c # 1 => spc[c] = "off"

One(job) == IF job = None THEN 0 ELSE 1

(* How far the one channel of a sequential target has come: the last chunk *)
(* that is written, read, sent, taken and claimed.                         *)
AtGot == position + One(got[1])
AtLink == AtGot + Len(link[1])
AtHold == AtLink + One(hold[1])
AtAhead == AtHold + One(ahead[1])

(* The chunks of a sequential target are on their way in their order, the  *)
(* next one to be written first, as long as the receiver goes on reading.  *)
InTurn ==
    ("target" \in sequential /\ rpc[1] \notin {"left", "broken"}) =>
        /\ got[1] # None => got[1][1] = AtGot
        /\ \A i \in 1..Len(link[1]) : link[1][i][1] = AtGot + i
        /\ hold[1] # None => hold[1][1] = AtHold
        /\ ahead[1] # None => ahead[1][1] = AtAhead
        /\ \A i \in 1..Len(queue) : queue[i] = AtAhead + i

(* What is in the resume map is right on the disk.                         *)
FileRight == "source" \notin sequential => \A k \in marked : file[k] = k

LEMMA LabelsInit == Init => Labels /\ OneChannel /\ InTurn /\ FileRight
<1> SUFFICES ASSUME Init PROVE Labels /\ OneChannel /\ InTurn /\ FileRight
  OBVIOUS
<1>0. 1 \in Channels /\ MaxChannels \in Nat /\ Size \in Nat
  BY DataPlaneAssumption DEF Channels
<1>1. Labels /\ FileRight
  BY DEF Init, Labels, FileRight
<1>2. OneChannel
  BY <1>0 DEF Init, OneChannel, ChannelCount, Least, Channels
<1>3. Len(queue) = Size /\ \A i \in 1..Size : queue[i] = i
  BY InOrderFacts, LaunchFacts DEF Init
<1>4. InTurn
  BY <1>0, <1>3 DEF Init, InTurn, AtGot, AtLink, AtHold, AtAhead, One
<1> QED BY <1>1, <1>2, <1>4

LEMMA LabelsNext ==
    ASSUME Types, Places, Labels, Next
    PROVE  Labels'
<1> USE DEF source, sending, wire, data, stored, waiting, control, bounds
<1>q. Types /\ SenderTypes /\ PathTypes /\ Places /\ SenderPlaces /\ Labels
  BY DEF Types, Places
<1>1. ASSUME NEW c \in Channels, TakeAhead(c) PROVE Labels'
  BY <1>q, <1>1 DEF TakeAhead, SenderTypes, Labels
<1>2. ASSUME NEW c \in Channels, TakeQueued(c) PROVE Labels'
  <2>1. /\ hold' = [hold EXCEPT ![c] = <<Head(queue), Content(Head(queue))>>]
        /\ UNCHANGED <<sequential, ahead, link, got>>
    BY <1>2 DEF TakeQueued
  <2>2. "source" \notin sequential => Content(Head(queue)) = Head(queue)
    BY DEF Content
  <2> QED BY <1>q, <2>1, <2>2 DEF SenderTypes, Labels
<1>3. ASSUME NEW c \in Channels, Peek(c) PROVE Labels'
  <2>1. /\ ahead' = ahead
           \/ ahead' = [ahead EXCEPT ![c] =
                  <<Head(queue), IF "source" \in sequential THEN 0 ELSE Head(queue)>>]
        /\ UNCHANGED <<sequential, hold, link, got>>
    BY <1>3 DEF Peek
  <2> QED BY <1>q, <2>1 DEF SenderTypes, Labels
<1>4. ASSUME NEW c \in Channels, ReadAhead(c) PROVE Labels'
  <2>1. /\ ahead' = [ahead EXCEPT ![c][2] = Content(ahead[c][1])] /\ ahead[c] # None
        /\ UNCHANGED <<sequential, hold, link, got>>
    BY <1>4 DEF ReadAhead
  <2>2. ahead[c] = <<ahead[c][1], ahead[c][2]>>
    BY <1>q, <2>1, Jobs DEF SenderTypes
  <2>3. ahead'[c][1] = ahead[c][1] /\ ahead'[c][2] = Content(ahead[c][1])
        /\ \A d \in Channels : d # c => ahead'[d] = ahead[d]
    BY <1>q, <2>1, <2>2 DEF SenderTypes
  <2>4. "source" \notin sequential => ahead'[c][2] = ahead'[c][1]
    BY <2>3 DEF Content
  <2> QED BY <1>q, <2>1, <2>3, <2>4 DEF Labels
<1>5. ASSUME NEW c \in Channels, SendChunk(c) PROVE Labels'
  <2>1. /\ link' = [link EXCEPT ![c] = Append(@, hold[c])] /\ hold[c] # None
        /\ hold' = [hold EXCEPT ![c] = None] /\ UNCHANGED <<sequential, ahead, got>>
    BY <1>q, <1>5 DEF SendChunk, SenderPlaces
  <2>2. link[c] \in Seq(Full) /\ hold[c] \in Full
    BY <1>q, <2>1 DEF SenderTypes, PathTypes
  <2>3. \A i \in 1..Len(link'[c]) :
          \/ link'[c][i] = hold[c]
          \/ i \in 1..Len(link[c]) /\ link'[c][i] = link[c][i]
    BY <1>q, <2>1, <2>2 DEF PathTypes
  <2> QED BY <1>q, <2>1, <2>3 DEF SenderTypes, PathTypes, Labels
<1>6. ASSUME NEW c \in Channels, ReadHeader(c) PROVE Labels'
  <2>1. /\ got' = [got EXCEPT ![c] = Head(link[c])] /\ link[c] # <<>>
        /\ link' = [link EXCEPT ![c] = Tail(@)] /\ UNCHANGED <<sequential, ahead, hold>>
    BY <1>6 DEF ReadHeader
  <2>2. /\ Head(link[c]) = link[c][1] /\ 1 \in 1..Len(link[c])
        /\ \A i \in 1..Len(link'[c]) : i + 1 \in 1..Len(link[c]) /\ link'[c][i] = link[c][i + 1]
    BY <1>q, <2>1, ReadFacts DEF PathTypes
  <2> QED BY <1>q, <2>1, <2>2 DEF PathTypes, Labels
<1>7. ASSUME NEW c \in Channels, WriteChunk(c) PROVE Labels'
  BY <1>q, <1>7 DEF WriteChunk, PathTypes, Labels
<1>8. ASSUME NEW c \in Channels, ChannelEnds(c) \/ ChannelBreaks(c) PROVE Labels'
  <2>1. /\ got' = [got EXCEPT ![c] = None] /\ link' = [link EXCEPT ![c] = <<>>]
        /\ UNCHANGED <<sequential, ahead, hold>>
    BY <1>8 DEF ChannelEnds, ChannelBreaks, Leaves
  <2> QED BY <1>q, <2>1 DEF PathTypes, Labels
<1>9. ASSUME Retry PROVE Labels'
  BY <1>9 DEF Retry, Launch, Labels
<1>10. ASSUME UNCHANGED <<sequential, ahead, hold, link, got>> PROVE Labels'
  BY <1>q, <1>10 DEF Labels
<1>11. ASSUME NEW c \in Channels,
              \/ SConnect(c) \/ Shut(c) \/ CountSent(c) \/ IoFails(c) \/ ChannelFails(c)
              \/ ReceiverPasses(c) \/ Accept(c) \/ Settle(c) \/ NapStep(c) \/ CutData(c)
       PROVE UNCHANGED <<sequential, ahead, hold, link, got>>
  BY <1>11 DEF SConnect, Shut, CountSent, IoFails, ChannelFails, Fails, ReceiverPasses, Accept, Settle,
     NapStep, FindPaused, FallAsleep, CutData
<1>12. ASSUME LoopStep \/ Turn \/ TaskStep \/ TaskStops \/ \E s \in Side : Pause(s) \/ Resume(s)
       PROVE UNCHANGED <<sequential, ahead, hold, link, got>>
  BY <1>12 DEF LoopStep, Check, Arm, Woken, GiveUp, Turn, Pause, Resume, TaskStep, TaskStops,
     SeesChannelFail, SeesReceiverFail, ResultArrives, TaskFails
<1> QED BY <1>1, <1>2, <1>3, <1>4, <1>5, <1>6, <1>7, <1>8, <1>9, <1>10, <1>11, <1>12
        DEF Next, SenderStep, ReceiverStep

(* A channel that is off makes no step.                                    *)
LEMMA OffIsStill ==
    ASSUME Types, Places, NEW c \in Channels, spc[c] = "off"
    PROVE  /\ ~SenderStep(c) /\ ~ReceiverStep(c) /\ ~ChannelFails(c) /\ ~ChannelBreaks(c)
           /\ ~CutData(c)
<1>1. hold[c] = None /\ ahead[c] = None /\ rpc[c] = "none" /\ link[c] = <<>>
  BY DEF Places, SenderPlaces, Unopened
<1>2. ~SenderStep(c) /\ ~ChannelFails(c)
  BY <1>1 DEF SenderStep, SConnect, TakeAhead, TakeQueued, Shut, Peek, ReadAhead,
     SendChunk, CountSent, IoFails, ChannelFails
<1> QED BY <1>1, <1>2 DEF ReceiverStep, ReceiverPasses, Accept,
     ReadHeader, WriteChunk, ChannelEnds, Settle, ChannelBreaks, CutData

LEMMA OneChannelNext ==
    ASSUME Types, Places, OneChannel, Next
    PROVE  OneChannel'
<1> USE DEF Move, source, sending, wire, data, stored, waiting, control, bounds
<1>q. Types /\ SenderTypes /\ OneChannel
  BY DEF Types
<1>1. ASSUME NEW c \in Channels, SenderStep(c) \/ ChannelFails(c) PROVE OneChannel'
  <2>1. spc[c] # "off"
    BY <1>1, OffIsStill
  <2>2. sequential' = sequential /\ \A d \in Channels : d # c => spc'[d] = spc[d]
    BY <1>q, <1>1 DEF SenderStep, SConnect, TakeAhead, TakeQueued, Shut, Peek, ReadAhead,
       SendChunk, CountSent, IoFails, ChannelFails, Fails, SenderTypes
  <2> QED BY <1>q, <2>1, <2>2 DEF OneChannel
<1>2. ASSUME TaskFails PROVE OneChannel'
  BY <1>q, <1>2 DEF TaskFails, SenderTypes, OneChannel
<1>3. ASSUME Retry PROVE OneChannel'
  <2>1. MaxChannels \in Nat /\ sequential' = sequential
    BY <1>3, DataPlaneAssumption DEF Retry
  <2>2. PICK n : n = Cardinality(Chunks \ marked')
    OBVIOUS
  <2>3. n \in Nat
    BY <2>2, LaunchFacts
  <2>4. spc' = [c \in Channels |-> IF c <= ChannelCount(n) THEN "connect" ELSE "off"]
    BY <1>3, <2>2 DEF Retry, Launch
  <2>5. sequential # {} => ChannelCount(n) \in Nat /\ ChannelCount(n) <= 1
    BY <2>3 DEF ChannelCount, Least
  <2> QED BY <2>1, <2>4, <2>5 DEF OneChannel, Channels
<1>4. ASSUME UNCHANGED <<sequential, spc>> PROVE OneChannel'
  BY <1>q, <1>4 DEF OneChannel
<1>5. ASSUME NEW c \in Channels,
             ReceiverStep(c) \/ NapStep(c) \/ ChannelBreaks(c) \/ CutData(c)
      PROVE UNCHANGED <<sequential, spc>>
  BY <1>5 DEF ReceiverStep, ReceiverPasses, Accept, ReadHeader, WriteChunk, ChannelEnds,
     Settle, NapStep, FindPaused, FallAsleep, ChannelBreaks, CutData
<1>6. ASSUME LoopStep \/ Turn \/ \E s \in Side : Pause(s) \/ Resume(s)
      PROVE UNCHANGED <<sequential, spc>>
  BY <1>6 DEF LoopStep, Check, Arm, Woken, GiveUp, Turn, Pause, Resume
<1>7. ASSUME TaskStep \/ TaskStops, ~TaskFails PROVE UNCHANGED <<sequential, spc>>
  BY <1>7 DEF TaskStep, TaskStops, SeesChannelFail, SeesReceiverFail, ResultArrives
<1> QED BY <1>1, <1>2, <1>3, <1>4, <1>5, <1>6, <1>7 DEF Next

(* Where the one channel of a sequential target stands is a number.        *)
LEMMA InTurnTypes ==
    ASSUME Types
    PROVE  /\ 1 \in Channels
           /\ AtGot \in Nat /\ AtLink \in Nat /\ AtHold \in Nat /\ AtAhead \in Nat
           /\ Len(queue) \in Nat /\ Len(link[1]) \in Nat /\ position \in Nat
<1>1. 1 \in Channels
  BY DataPlaneAssumption DEF Channels
<1>2. Len(queue) \in Nat /\ Len(link[1]) \in Nat /\ position \in Nat
  BY <1>1, DataPlaneAssumption DEF Types, SenderTypes, PathTypes, StoreTypes
<1>3. \A j : One(j) \in Nat
  BY DEF One
<1>4. AtGot \in Nat
  BY <1>2, <1>3 DEF AtGot
<1>5. AtLink \in Nat
  BY <1>2, <1>4 DEF AtLink
<1>6. AtHold \in Nat
  BY <1>3, <1>5 DEF AtHold
<1>7. AtAhead \in Nat
  BY <1>3, <1>6 DEF AtAhead
<1> QED BY <1>1, <1>2, <1>4, <1>5, <1>6, <1>7

(* The next chunk in turn is the next one written: a channel that stays on *)
(* one connection keeps the order of the file.                             *)
LEMMA InTurnNext ==
    ASSUME Types, Places, OneChannel, InTurn, Next
    PROVE  InTurn'
<1> USE DEF Move, MoveR, source, sending, wire, data, stored, waiting, control, bounds
<1>q. /\ Types /\ SenderTypes /\ PathTypes /\ StoreTypes /\ SenderPlaces /\ ReceiverPlaces
      /\ Unopened
  BY DEF Types, Places
<1>0. 1 \in Channels
  BY InTurnTypes
<1>p. Types'
  BY TypesNext
<1>1. ASSUME Retry PROVE InTurn'
  <2>1. "target" \in sequential => Len(queue') = Size /\ \A i \in 1..Size : queue'[i] = i
    <3> SUFFICES ASSUME "target" \in sequential
                 PROVE Len(queue') = Size /\ \A i \in 1..Size : queue'[i] = i
      OBVIOUS
    <3>1. queue' = InOrder(Chunks)
      BY <1>1 DEF Retry, Launch
    <3> QED BY <3>1, InOrderFacts, LaunchFacts
  <2>2. /\ position' = 0 /\ hold'[1] = None /\ ahead'[1] = None /\ link'[1] = <<>> /\ got'[1] = None
        /\ sequential' = sequential
    BY <1>0, <1>1 DEF Retry, Launch
  <2>3. AtGot' = 0 /\ AtAhead' = 0
    BY <2>2 DEF AtGot, AtLink, AtHold, AtAhead, One
  <2>4. Size \in Nat
    BY DataPlaneAssumption
  <2> QED BY <2>1, <2>2, <2>3, <2>4 DEF InTurn
<1>2. ASSUME ~("target" \in sequential /\ rpc[1] \notin {"left", "broken"}), ~Retry PROVE InTurn'
  <2>1. sequential' = sequential
    BY <1>2, AttemptKeeps
  <2>2. rpc[1] \in {"left", "broken"} => rpc'[1] \in {"left", "broken"}
    <3> SUFFICES ASSUME rpc[1] \in {"left", "broken"} PROVE rpc'[1] \in {"left", "broken"}
      OBVIOUS
    <3>1. ASSUME NEW c \in Channels, ReceiverStep(c) \/ ChannelBreaks(c)
          PROVE rpc'[1] \in {"left", "broken"}
      BY <1>q, <1>0, <3>1 DEF ReceiverStep, ReceiverPasses, Accept, ReadHeader, WriteChunk,
         ChannelEnds, ChannelBreaks, Leaves, Settle, PathTypes
    <3>2. ASSUME NEW c \in Channels,
                 \/ SConnect(c) \/ TakeAhead(c) \/ TakeQueued(c) \/ Shut(c) \/ Peek(c)
                 \/ ReadAhead(c) \/ SendChunk(c) \/ CountSent(c) \/ IoFails(c)
                 \/ NapStep(c) \/ CutData(c)
          PROVE rpc' = rpc
      BY <3>2 DEF SConnect, TakeAhead, TakeQueued, Shut, Peek, ReadAhead,
         SendChunk, CountSent, IoFails, Fails, NapStep, FindPaused, FallAsleep, CutData
    <3>3. ASSUME NEW c \in Channels, ChannelFails(c) PROVE rpc'[1] \in {"left", "broken"}
      BY <1>q, <1>0, <3>3 DEF ChannelFails, PathTypes
    <3>4. ASSUME LoopStep \/ Turn \/ TaskStep \/ TaskStops \/ \E s \in Side : Pause(s) \/ Resume(s)
          PROVE rpc' = rpc
      BY <3>4 DEF LoopStep, Check, Arm, Woken, GiveUp, Turn, Pause, Resume, TaskStep,
         TaskStops, SeesChannelFail, SeesReceiverFail, ResultArrives, TaskFails
    <3> QED BY <1>2, <3>1, <3>2, <3>3, <3>4 DEF Next, SenderStep
  <2> QED BY <1>2, <2>1, <2>2 DEF InTurn
<1> DEFINE Aligned ==
             /\ got[1] # None => got[1][1] = AtGot
             /\ \A i \in 1..Len(link[1]) : link[1][i][1] = AtGot + i
             /\ hold[1] # None => hold[1][1] = AtHold
             /\ ahead[1] # None => ahead[1][1] = AtAhead
             /\ \A i \in 1..Len(queue) : queue[i] = AtAhead + i
<1>3. ASSUME "target" \in sequential, rpc[1] \notin {"left", "broken"}, ~Retry PROVE InTurn'
  <2>0. /\ \A c \in Channels : spc[c] # "off" => c = 1
        /\ Aligned
    BY <1>3 DEF OneChannel, InTurn
  <2>n. /\ AtGot \in Nat /\ AtLink \in Nat /\ AtHold \in Nat /\ AtAhead \in Nat
        /\ Len(queue) \in Nat /\ Len(link[1]) \in Nat /\ position \in Nat
    BY InTurnTypes
  <2>q. queue # <<>> => /\ Len(queue) >= 1 /\ Head(queue) = queue[1] /\ Head(queue) \in Chunks
                        /\ Len(Tail(queue)) = Len(queue) - 1
                        /\ \A i \in 1..(Len(queue) - 1) : Tail(queue)[i] = queue[i + 1]
    BY <1>q DEF SenderTypes
  <2>o. One(None) = 0 /\ \A j : j # None => One(j) = 1
    BY DEF One
  <2>z. \A k \in Chunks : k \in Nat /\ k # 0 /\ k \in 1..Size
    BY DataPlaneAssumption DEF Chunks
  <2>i. Aligned' => InTurn'
    BY DEF InTurn
  <2>1. ASSUME TakeAhead(1) PROVE Aligned'
    <3>1. /\ hold[1] = None /\ ahead[1] # None /\ hold'[1] = ahead[1] /\ ahead'[1] = None
          /\ UNCHANGED <<position, got, link, queue>>
      BY <1>q, <1>0, <2>1 DEF TakeAhead, SenderTypes, SenderPlaces
    <3>2. AtGot' = AtGot /\ AtHold' = AtHold + 1 /\ AtAhead' = AtAhead /\ AtAhead = AtHold + 1
      BY <2>n, <2>o, <3>1 DEF AtGot, AtLink, AtHold, AtAhead
    <3> QED BY <2>0, <3>1, <3>2
  <2>2. ASSUME TakeQueued(1) PROVE Aligned'
    <3>1. /\ hold[1] = None /\ ahead[1] = None /\ ahead' = ahead /\ queue # <<>>
          /\ hold'[1] = <<Head(queue), Content(Head(queue))>> /\ queue' = Tail(queue)
          /\ UNCHANGED <<position, got, link>>
      BY <1>q, <1>0, <2>2 DEF TakeQueued, SenderTypes, SenderPlaces
    <3>2. hold'[1] # None
      <4>1. Head(queue) # 0
        BY <2>q, <2>z, <3>1
      <4> QED BY <3>1, <4>1 DEF None
    <3>3. AtGot' = AtGot /\ AtHold' = AtAhead + 1 /\ AtAhead' = AtAhead + 1
      <4>1. /\ One(hold[1]) = 0 /\ One(ahead[1]) = 0 /\ One(hold'[1]) = 1 /\ One(ahead'[1]) = 0
        BY <2>o, <3>1, <3>2
      <4>2. AtGot' = AtGot /\ AtLink' = AtLink
        BY <3>1 DEF AtGot, AtLink
      <4> QED BY <2>n, <4>1, <4>2 DEF AtHold, AtAhead
    <3>4. hold'[1][1] = AtAhead + 1 /\ \A i \in 1..Len(queue') : queue'[i] = AtAhead' + i
      <4>1. hold'[1][1] = AtAhead + 1
        BY <2>0, <2>n, <2>q, <3>1
      <4>2. ASSUME NEW i \in 1..Len(queue') PROVE queue'[i] = AtAhead' + i
        <5>1. i + 1 \in 1..Len(queue) /\ i \in 1..(Len(queue) - 1)
          BY <2>n, <2>q, <3>1
        <5>2. queue[i + 1] = AtAhead + (i + 1) /\ queue'[i] = queue[i + 1]
          BY <2>0, <2>q, <3>1, <5>1
        <5> QED BY <2>n, <3>3, <5>1, <5>2
      <4> QED BY <4>1, <4>2
    <3> QED BY <2>0, <3>1, <3>3, <3>4
  <2>3. ASSUME Peek(1), queue # <<>> PROVE Aligned'
    <3>1. /\ ahead[1] = None /\ queue' = Tail(queue) /\ UNCHANGED <<position, got, link, hold>>
          /\ ahead'[1] = <<Head(queue), IF "source" \in sequential THEN 0 ELSE Head(queue)>>
      BY <1>q, <1>0, <2>3 DEF Peek, SenderTypes, SenderPlaces
    <3>2. ahead'[1] # None
      <4>1. Head(queue) # 0
        BY <2>3, <2>q, <2>z
      <4> QED BY <3>1, <4>1 DEF None
    <3>3. AtGot' = AtGot /\ AtHold' = AtHold /\ AtAhead' = AtAhead + 1
      BY <2>n, <2>o, <3>1, <3>2 DEF AtGot, AtLink, AtHold, AtAhead
    <3>4. ahead'[1][1] = AtAhead + 1 /\ \A i \in 1..Len(queue') : queue'[i] = AtAhead' + i
      <4>1. ahead'[1][1] = AtAhead + 1
        BY <2>0, <2>3, <2>n, <2>q, <3>1
      <4>2. ASSUME NEW i \in 1..Len(queue') PROVE queue'[i] = AtAhead' + i
        <5>1. i + 1 \in 1..Len(queue) /\ i \in 1..(Len(queue) - 1)
          BY <2>n, <2>q, <2>3, <3>1
        <5>2. queue[i + 1] = AtAhead + (i + 1) /\ queue'[i] = queue[i + 1]
          BY <2>0, <2>q, <2>3, <3>1, <5>1
        <5> QED BY <2>n, <3>3, <5>1, <5>2
      <4> QED BY <4>1, <4>2
    <3> QED BY <2>0, <3>1, <3>3, <3>4
  <2>4. ASSUME ReadAhead(1) PROVE Aligned'
    <3>1. /\ ahead[1] # None /\ UNCHANGED <<position, got, link, hold, queue>>
          /\ ahead'[1] = <<ahead[1][1], Content(ahead[1][1])>>
      <4>1. ahead[1] # None /\ ahead[1] = <<ahead[1][1], ahead[1][2]>> /\ ahead[1][1] \in Chunks
        BY <1>q, <1>0, <2>4, Jobs DEF ReadAhead, SenderTypes
      <4> QED BY <1>q, <1>0, <2>4, <4>1 DEF ReadAhead, SenderTypes
    <3>2. ahead'[1] # None
      <4>1. ahead[1][1] # 0
        BY <1>q, <1>0, <3>1, Jobs DEF SenderTypes, Chunks
      <4> QED BY <3>1, <4>1 DEF None
    <3>3. AtGot' = AtGot /\ AtHold' = AtHold /\ AtAhead' = AtAhead
      BY <2>n, <2>o, <3>1, <3>2 DEF AtGot, AtLink, AtHold, AtAhead
    <3> QED BY <2>0, <3>1, <3>3
  <2>5. ASSUME SendChunk(1) PROVE Aligned'
    <3>1. /\ hold[1] # None /\ hold'[1] = None /\ link'[1] = Append(link[1], hold[1])
          /\ UNCHANGED <<position, got, ahead, queue>>
      BY <1>q, <1>0, <2>5 DEF SendChunk, SenderTypes, PathTypes, SenderPlaces
    <3>2. /\ Len(link'[1]) = Len(link[1]) + 1 /\ link'[1][Len(link[1]) + 1] = hold[1]
          /\ \A i \in 1..Len(link[1]) : link'[1][i] = link[1][i]
      BY <1>q, <1>0, <3>1 DEF PathTypes, SenderTypes
    <3>3. AtGot' = AtGot /\ AtHold' = AtHold /\ AtAhead' = AtAhead /\ AtHold = AtGot + Len(link[1]) + 1
      BY <2>n, <2>o, <3>1, <3>2 DEF AtGot, AtLink, AtHold, AtAhead
    <3>4. ASSUME NEW i \in 1..Len(link'[1]) PROVE link'[1][i][1] = AtGot + i
      <4>1. CASE i = Len(link[1]) + 1
        BY <2>0, <2>n, <3>1, <3>2, <3>3, <4>1
      <4>2. CASE i # Len(link[1]) + 1
        <5>1. i \in 1..Len(link[1])
          BY <2>n, <3>2, <4>2
        <5> QED BY <2>0, <3>2, <5>1
      <4> QED BY <4>1, <4>2
    <3> QED BY <2>0, <3>1, <3>3, <3>4
  <2>6. ASSUME ReadHeader(1) PROVE Aligned'
    <3>1. /\ got[1] = None /\ got'[1] = Head(link[1]) /\ link'[1] = Tail(link[1])
          /\ link[1] # <<>> /\ UNCHANGED <<position, hold, ahead, queue>>
      BY <1>q, <1>0, <2>6 DEF ReadHeader, PathTypes, ReceiverPlaces
    <3>2. /\ Head(link[1]) = link[1][1] /\ got'[1] # None /\ Len(link[1]) >= 1
          /\ Len(link'[1]) = Len(link[1]) - 1
          /\ \A i \in 1..(Len(link[1]) - 1) : link'[1][i] = link[1][i + 1]
      BY <1>q, <1>0, <3>1, ReadFacts, Jobs DEF PathTypes
    <3>3. AtGot' = AtGot + 1 /\ AtHold' = AtHold /\ AtAhead' = AtAhead
      BY <2>n, <2>o, <3>1, <3>2 DEF AtGot, AtLink, AtHold, AtAhead
    <3>4. got'[1][1] = AtGot + 1
      BY <2>0, <2>n, <3>1, <3>2
    <3>5. ASSUME NEW i \in 1..Len(link'[1]) PROVE link'[1][i][1] = AtGot' + i
      <4>1. i + 1 \in 1..Len(link[1]) /\ i \in 1..(Len(link[1]) - 1)
        BY <2>n, <3>2
      <4>2. link[1][i + 1][1] = AtGot + (i + 1)
        BY <2>0, <4>1
      <4>3. link'[1][i] = link[1][i + 1]
        BY <3>2, <4>1
      <4>4. AtGot + (i + 1) = AtGot' + i
        BY <2>n, <3>3, <4>1
      <4> QED BY <4>2, <4>3, <4>4
    <3> QED BY <2>0, <3>1, <3>3, <3>4, <3>5
  <2>7. ASSUME WriteChunk(1) PROVE Aligned'
    <3>1. /\ got[1] # None /\ got'[1] = None /\ position' = position + 1
          /\ UNCHANGED <<hold, ahead, queue, link>>
      BY <1>q, <1>0, <1>3, <2>7 DEF WriteChunk, PathTypes, ReceiverPlaces
    <3>2. AtGot' = AtGot /\ AtHold' = AtHold /\ AtAhead' = AtAhead
      <4>1. One(got[1]) = 1 /\ One(got'[1]) = 0
        BY <2>o, <3>1
      <4>2. AtGot' = AtGot
        BY <2>n, <3>1, <4>1 DEF AtGot
      <4> QED BY <3>1, <4>2 DEF AtLink, AtHold, AtAhead
    <3> QED BY <2>0, <3>1, <3>2
  <2>8. ASSUME ChannelEnds(1) \/ ChannelBreaks(1) PROVE InTurn'
    <3>1. rpc'[1] \in {"left", "broken"}
      BY <1>q, <1>0, <2>8 DEF ChannelEnds, ChannelBreaks, Leaves, PathTypes
    <3> QED BY <3>1 DEF InTurn
  <2>9. ASSUME UNCHANGED <<position, got, link, hold, ahead, queue>> PROVE Aligned'
    BY <2>0, <2>9 DEF AtGot, AtLink, AtHold, AtAhead, One
  <2>10. ASSUME NEW c \in Channels,
                \/ SConnect(c) \/ Shut(c) \/ (Peek(c) /\ queue = <<>>) \/ CountSent(c)
                \/ IoFails(c) \/ ChannelFails(c) \/ ReceiverPasses(c) \/ Accept(c) \/ Settle(c) \/ NapStep(c)
                \/ CutData(c)
         PROVE UNCHANGED <<position, got, link, hold, ahead, queue>>
    BY <2>10 DEF SConnect, Shut, Peek, CountSent, IoFails, ChannelFails, Fails, ReceiverPasses,
       Accept, Settle, NapStep, FindPaused, FallAsleep, CutData
  <2>11. ASSUME LoopStep \/ Turn \/ TaskStep \/ TaskStops \/ \E s \in Side : Pause(s) \/ Resume(s)
         PROVE UNCHANGED <<position, got, link, hold, ahead, queue>>
    BY <2>11 DEF LoopStep, Check, Arm, Woken, GiveUp, Turn, Pause, Resume, TaskStep, TaskStops,
       SeesChannelFail, SeesReceiverFail, ResultArrives, TaskFails
  <2>12. ASSUME NEW c \in Channels,
                \/ SenderStep(c) \/ ReceiverStep(c) \/ ChannelBreaks(c)
         PROVE c = 1
    BY <2>0, <2>12, OffIsStill
  <2> HIDE DEF Aligned
  <2>13. ASSUME NEW c \in Channels, SenderStep(c) PROVE InTurn'
    BY <2>1, <2>2, <2>3, <2>4, <2>5, <2>9, <2>10, <2>12, <2>13, <2>i DEF SenderStep
  <2>14. ASSUME NEW c \in Channels, ReceiverStep(c) \/ ChannelBreaks(c) PROVE InTurn'
    BY <2>6, <2>7, <2>8, <2>9, <2>10, <2>12, <2>14, <2>i DEF ReceiverStep
  <2> QED BY <1>3, <2>9, <2>10, <2>11, <2>13, <2>14, <2>i DEF Next
<1> QED BY <1>1, <1>2, <1>3

(* A chunk is written where it belongs, whatever the target can do.        *)
LEMMA FileRightNext ==
    ASSUME Types, Places, Labels, OneChannel, InTurn, FileRight, Next
    PROVE  FileRight'
<1> USE DEF source, sending, wire, data, stored, waiting, control, bounds
<1>q. Types /\ PathTypes /\ StoreTypes /\ ReceiverPlaces /\ Places
  BY DEF Types, Places
<1>1. ASSUME NEW c \in Channels, WriteChunk(c), "source" \notin sequential PROVE FileRight'
  <2> DEFINE place == IF "target" \in sequential THEN position + 1 ELSE got[c][1]
  <2>1. /\ file' = [file EXCEPT ![place] = got[c][2]] /\ marked' = marked \cup {got[c][1]}
        /\ rpc[c] = "write" /\ got[c] # None
    BY <1>q, <1>1 DEF WriteChunk, ReceiverPlaces
  <2>2. got[c][2] = got[c][1] /\ got[c][1] \in Chunks
    BY <1>1, <1>q, <2>1, Jobs DEF Labels, PathTypes
  <2>3. place = got[c][1]
    <3>1. CASE "target" \in sequential
      <4>1. c = 1
        BY <1>1, <1>q, <3>1, OffIsStill DEF OneChannel, ReceiverStep
      <4>2. got[1][1] = AtGot /\ AtGot = position + 1
        BY <2>1, <3>1, <4>1, InTurnTypes DEF InTurn, AtGot, One
      <4> QED BY <3>1, <4>1, <4>2
    <3>2. CASE "target" \notin sequential
      BY <3>2
    <3> QED BY <3>1, <3>2
  <2> HIDE DEF place
  <2> QED BY <1>q, <1>1, <2>1, <2>2, <2>3 DEF FileRight, StoreTypes
<1>2. ASSUME Retry PROVE FileRight'
  BY <1>2 DEF Retry, FileRight
<1>3. ASSUME ~Retry, "source" \in sequential PROVE FileRight'
  BY <1>3, AttemptKeeps DEF FileRight
<1>4. ASSUME UNCHANGED <<file, marked, sequential>> PROVE FileRight'
  BY <1>4 DEF FileRight
<1>5. ASSUME NEW c \in Channels,
             \/ SenderStep(c) \/ NapStep(c) \/ ChannelFails(c) \/ CutData(c)
      PROVE UNCHANGED <<file, marked, sequential>>
  BY <1>5 DEF SenderStep, NapStep, FindPaused, FallAsleep, SConnect, TakeAhead, TakeQueued,
     Shut, Peek, ReadAhead, SendChunk, CountSent, IoFails, Fails, ChannelFails, CutData
<1>6. ASSUME NEW c \in Channels,
             \/ ReceiverPasses(c) \/ Accept(c) \/ ReadHeader(c) \/ ChannelEnds(c)
             \/ ChannelBreaks(c) \/ Settle(c)
      PROVE UNCHANGED <<file, marked, sequential>>
  BY <1>6 DEF ReceiverPasses, Accept, ReadHeader, ChannelEnds, ChannelBreaks, Settle
<1>7. ASSUME LoopStep \/ Turn \/ TaskStep \/ TaskStops \/ \E s \in Side : Pause(s) \/ Resume(s)
      PROVE UNCHANGED <<file, marked, sequential>>
  BY <1>7 DEF LoopStep, Check, Arm, Woken, GiveUp, Turn, Pause, Resume, TaskStep, TaskStops,
     SeesChannelFail, SeesReceiverFail, ResultArrives, TaskFails
<1> QED BY <1>1, <1>2, <1>3, <1>4, <1>5, <1>6, <1>7 DEF Next, ReceiverStep

-----------------------------------------------------------------------------
(* No chunk is lost and none is sent twice: chunks move from the head of   *)
(* one station to the end of another until they are written.               *)

(* The same chunk is never at two places of w.                             *)
Apart(w) ==
    \A s, t \in Station : \A i \in 1..Len(w[s]), j \in 1..Len(w[t]) :
        w[s][i] = w[t][j] => s = t /\ i = j

Within(w, M) == \A s \in Station : \A i \in 1..Len(w[s]) : w[s][i] \in M

Covers(w, M) == \A k \in M : \E s \in Station : \E i \in 1..Len(w[s]) : w[s][i] = k

(* The head of station a goes to the end of station b.                     *)
Moves(w, v, a, b) ==
    /\ a \in Station /\ b \in Station /\ a # b
    /\ Len(w[a]) >= 1 /\ Len(v[a]) = Len(w[a]) - 1
    /\ \A i \in 1..Len(v[a]) : v[a][i] = w[a][i + 1]
    /\ Len(v[b]) = Len(w[b]) + 1 /\ v[b][Len(w[b]) + 1] = w[a][1]
    /\ \A i \in 1..Len(w[b]) : v[b][i] = w[b][i]
    /\ \A s \in Station : s # a /\ s # b => v[s] = w[s]

(* Such a move keeps what is apart apart, and covers what was covered.     *)
LEMMA Moved ==
    ASSUME NEW w, NEW v, \A s \in Station : w[s] \in Seq(Chunks) /\ v[s] \in Seq(Chunks),
           NEW a, NEW b, Moves(w, v, a, b)
    PROVE  /\ Apart(w) => Apart(v)
           /\ \A M : (Within(w, M) => Within(v, M)) /\ (Covers(w, M) => Covers(v, M))
<1> DEFINE Origin(s, i, t, j) ==
               \/ s = a /\ t = a /\ j = i + 1
               \/ s = b /\ i = Len(w[b]) + 1 /\ t = a /\ j = 1
               \/ s # a /\ ~(s = b /\ i = Len(w[b]) + 1) /\ t = s /\ j = i
<1> USE DEF Moves
<1>0. \A s \in Station : Len(w[s]) \in Nat /\ Len(v[s]) \in Nat
  OBVIOUS
<1>1. ASSUME NEW s \in Station, NEW i \in 1..Len(v[s])
      PROVE \E t \in Station : \E j \in 1..Len(w[t]) : w[t][j] = v[s][i] /\ Origin(s, i, t, j)
  <2>1. CASE s = a
    <3>1. i + 1 \in 1..Len(w[a]) /\ v[s][i] = w[a][i + 1]
      BY <1>0, <2>1
    <3> QED BY <2>1, <3>1
  <2>2. CASE s = b /\ i = Len(w[b]) + 1
    <3>1. 1 \in 1..Len(w[a]) /\ v[s][i] = w[a][1]
      BY <1>0, <2>2
    <3> QED BY <2>2, <3>1
  <2>3. CASE s = b /\ i # Len(w[b]) + 1
    <3>1. i \in 1..Len(w[b]) /\ v[s][i] = w[b][i]
      BY <1>0, <2>3
    <3> QED BY <2>3, <3>1
  <2>4. CASE s # a /\ s # b
    BY <2>4
  <2> QED BY <2>1, <2>2, <2>3, <2>4
<1>2. ASSUME NEW t \in Station, NEW j \in 1..Len(w[t])
      PROVE \E s \in Station : \E i \in 1..Len(v[s]) : v[s][i] = w[t][j]
  <2>1. CASE t = a /\ j = 1
    <3>1. Len(w[b]) + 1 \in 1..Len(v[b])
      BY <1>0
    <3> QED BY <2>1, <3>1
  <2>2. CASE t = a /\ j # 1
    <3>1. j - 1 \in 1..Len(v[a]) /\ (j - 1) + 1 = j
      BY <1>0, <2>2
    <3>2. v[a][j - 1] = w[a][j]
      BY <3>1
    <3> QED BY <2>2, <3>1, <3>2
  <2>3. CASE t = b
    <3>1. j \in 1..Len(v[b]) /\ v[b][j] = w[b][j]
      BY <1>0, <2>3
    <3> QED BY <2>3, <3>1
  <2>4. CASE t # a /\ t # b
    BY <2>4
  <2> QED BY <2>1, <2>2, <2>3, <2>4
<1>3. ASSUME NEW s \in Station, NEW t \in Station, NEW i \in 1..Len(v[s]), NEW j \in 1..Len(v[t]),
             NEW u \in Station, NEW k \in 1..Len(w[u]), Origin(s, i, u, k), Origin(t, j, u, k)
      PROVE s = t /\ i = j
  BY <1>0, <1>3
<1>4. ASSUME Apart(w) PROVE Apart(v)
  <2>1. SUFFICES ASSUME NEW s \in Station, NEW t \in Station,
                        NEW i \in 1..Len(v[s]), NEW j \in 1..Len(v[t]), v[s][i] = v[t][j]
                 PROVE s = t /\ i = j
    BY DEF Apart
  <2>2. PICK u \in Station : \E k \in 1..Len(w[u]) : w[u][k] = v[s][i] /\ Origin(s, i, u, k)
    BY <1>1
  <2>3. PICK k \in 1..Len(w[u]) : w[u][k] = v[s][i] /\ Origin(s, i, u, k)
    BY <2>2
  <2>4. PICK x \in Station : \E y \in 1..Len(w[x]) : w[x][y] = v[t][j] /\ Origin(t, j, x, y)
    BY <1>1
  <2>5. PICK y \in 1..Len(w[x]) : w[x][y] = v[t][j] /\ Origin(t, j, x, y)
    BY <2>4
  <2> HIDE DEF Origin
  <2>6. u = x /\ k = y
    BY <1>4, <2>1, <2>3, <2>5 DEF Apart
  <2> QED BY <1>3, <2>3, <2>5, <2>6
<1> HIDE DEF Origin
<1>5. ASSUME NEW M, Within(w, M) PROVE Within(v, M)
  <2>1. ASSUME NEW s \in Station, NEW i \in 1..Len(v[s]) PROVE v[s][i] \in M
    <3>1. PICK t \in Station : \E j \in 1..Len(w[t]) : w[t][j] = v[s][i] /\ Origin(s, i, t, j)
      BY <1>1
    <3>2. PICK j \in 1..Len(w[t]) : w[t][j] = v[s][i]
      BY <3>1
    <3>3. w[t][j] \in M
      BY <1>5 DEF Within
    <3> QED BY <3>2, <3>3
  <2> QED BY <2>1 DEF Within
<1>6. ASSUME NEW M, Covers(w, M) PROVE Covers(v, M)
  <2>1. SUFFICES ASSUME NEW k \in M
                 PROVE \E s \in Station : \E i \in 1..Len(v[s]) : v[s][i] = k
    BY DEF Covers
  <2>2. PICK t \in Station : \E j \in 1..Len(w[t]) : w[t][j] = k
    BY <1>6 DEF Covers
  <2>3. PICK j \in 1..Len(w[t]) : w[t][j] = k
    BY <2>2
  <2>4. PICK s \in Station : \E i \in 1..Len(v[s]) : v[s][i] = w[t][j]
    BY <1>2
  <2> QED BY <2>3, <2>4
<1> QED BY <1>4, <1>5, <1>6

(* What a channel that ends drops.                                         *)
LEMMA Dropped ==
    ASSUME NEW w, NEW v, \A s \in Station : v[s] = w[s] \/ v[s] = <<>>
    PROVE  /\ Apart(w) => Apart(v)
           /\ \A M : Within(w, M) => Within(v, M)
<1>1. \A s \in Station : \A i \in 1..Len(v[s]) : v[s] = w[s]
  OBVIOUS
<1> QED BY <1>1 DEF Apart, Within

(* A chunk that is written is nowhere any more.                            *)
LEMMA Removed ==
    ASSUME NEW w, NEW v, NEW M, NEW a \in Station, NEW k,
           Len(w[a]) = 1, w[a][1] = k, v[a] = <<>>,
           \A s \in Station : s # a => v[s] = w[s],
           Apart(w), Within(w, M)
    PROVE  Apart(v) /\ Within(v, M \ {k}) /\ (Covers(w, M) => Covers(v, M \ {k}))
<1>1. Apart(v)
  BY Dropped
<1>2. ASSUME NEW s \in Station, NEW i \in 1..Len(v[s]) PROVE v[s][i] \in M \ {k}
  <2>1. s # a /\ v[s] = w[s]
    BY <1>2
  <2>2. w[s][i] \in M
    BY <1>2, <2>1 DEF Within
  <2>3. 1 \in 1..Len(w[a])
    OBVIOUS
  <2>4. w[s][i] # w[a][1]
    BY <1>2, <2>1, <2>3 DEF Apart
  <2> QED BY <2>1, <2>2, <2>4
<1>3. ASSUME Covers(w, M), NEW n \in M \ {k}
      PROVE \E s \in Station : \E i \in 1..Len(v[s]) : v[s][i] = n
  <2>1. PICK s \in Station : \E i \in 1..Len(w[s]) : w[s][i] = n
    BY <1>3 DEF Covers
  <2>2. s # a
    BY <2>1
  <2> QED BY <2>1, <2>2
<1> QED BY <1>1, <1>2, <1>3 DEF Within, Covers

(* The way as a function of the state.                                     *)
Indices(s) == [i \in DOMAIN s |-> s[i][1]]

WayOf(q, h, a, l, g) ==
    [s \in Station |->
        CASE s[1] = "queue" -> q
          [] s[1] = "hold"  -> IndexOf(h[s[2]])
          [] s[1] = "ahead" -> IndexOf(a[s[2]])
          [] s[1] = "link"  -> Indices(l[s[2]])
          [] s[1] = "got"   -> IndexOf(g[s[2]])]

LEMMA StationCases ==
    /\ <<"queue", 0>> \in Station
    /\ \A c \in Channels : /\ <<"hold", c>> \in Station /\ <<"ahead", c>> \in Station
                           /\ <<"link", c>> \in Station /\ <<"got", c>> \in Station
    /\ \A s \in Station : \/ s = <<"queue", 0>>
                          \/ \E c \in Channels : \/ s = <<"hold", c>> \/ s = <<"ahead", c>>
                                                 \/ s = <<"link", c>> \/ s = <<"got", c>>
  BY DEF Station

LEMMA WayAt ==
    ASSUME NEW q, NEW h, NEW a, NEW l, NEW g
    PROVE  /\ WayOf(q, h, a, l, g)[<<"queue", 0>>] = q
           /\ \A c \in Channels :
                 /\ WayOf(q, h, a, l, g)[<<"hold", c>>] = IndexOf(h[c])
                 /\ WayOf(q, h, a, l, g)[<<"ahead", c>>] = IndexOf(a[c])
                 /\ WayOf(q, h, a, l, g)[<<"link", c>>] = Indices(l[c])
                 /\ WayOf(q, h, a, l, g)[<<"got", c>>] = IndexOf(g[c])
  BY StationCases DEF WayOf

LEMMA IndexFacts ==
    /\ IndexOf(None) = <<>>
    /\ \A j \in Job : j # None => IndexOf(j) = <<j[1]>>
    /\ \A j \in Job : IndexOf(j) \in Seq(Chunks)
<1>1. \A j \in Job : j # None => j[1] \in Chunks
  BY Jobs
<1> QED BY <1>1 DEF IndexOf

LEMMA IndicesFacts ==
    ASSUME NEW s \in Seq(Full)
    PROVE  /\ Indices(s) \in Seq(Chunks) /\ Len(Indices(s)) = Len(s)
           /\ \A i \in 1..Len(s) : Indices(s)[i] = s[i][1]
<1>1. \A i \in 1..Len(s) : s[i][1] \in Chunks
  BY Jobs
<1> QED BY <1>1 DEF Indices

LEMMA WayTypes ==
    ASSUME NEW q \in Seq(Chunks), NEW h \in [Channels -> Job], NEW a \in [Channels -> Job],
           NEW l \in [Channels -> Seq(Full)], NEW g \in [Channels -> Job]
    PROVE  \A s \in Station : WayOf(q, h, a, l, g)[s] \in Seq(Chunks)
<1> DEFINE w == WayOf(q, h, a, l, g)
<1>1. w[<<"queue", 0>>] \in Seq(Chunks)
  BY WayAt
<1>2. ASSUME NEW c \in Channels
      PROVE /\ w[<<"hold", c>>] \in Seq(Chunks) /\ w[<<"ahead", c>>] \in Seq(Chunks)
            /\ w[<<"link", c>>] \in Seq(Chunks) /\ w[<<"got", c>>] \in Seq(Chunks)
  <2>1. h[c] \in Job /\ a[c] \in Job /\ g[c] \in Job /\ l[c] \in Seq(Full)
    OBVIOUS
  <2>2. /\ IndexOf(h[c]) \in Seq(Chunks) /\ IndexOf(a[c]) \in Seq(Chunks)
        /\ IndexOf(g[c]) \in Seq(Chunks) /\ Indices(l[c]) \in Seq(Chunks)
    BY <2>1, IndexFacts, IndicesFacts
  <2> QED BY <2>2, WayAt
<1> HIDE DEF w
<1>3. \A s \in Station : w[s] \in Seq(Chunks)
  BY <1>1, <1>2, StationCases
<1> QED BY <1>3 DEF w

(* The way, station by station, before and after a step.                   *)
Here(w, q, h, a, l, g) ==
    /\ w[<<"queue", 0>>] = q
    /\ \A c \in Channels :
          /\ w[<<"hold", c>>] = IndexOf(h[c]) /\ w[<<"ahead", c>>] = IndexOf(a[c])
          /\ w[<<"link", c>>] = Indices(l[c]) /\ w[<<"got", c>>] = IndexOf(g[c])

LEMMA WayHere ==
    /\ Here(Way, queue, hold, ahead, link, got)
    /\ Here(Way', queue', hold', ahead', link', got')
<1>1. Way = WayOf(queue, hold, ahead, link, got)
  BY DEF Way, WayOf, Indices
<1>2. Way' = WayOf(queue', hold', ahead', link', got')
  BY DEF Way, WayOf, Indices
<1> QED BY <1>1, <1>2, WayAt DEF Here

LEMMA WaySeq ==
    ASSUME Types, Types'
    PROVE  \A s \in Station : Way[s] \in Seq(Chunks) /\ Way'[s] \in Seq(Chunks)
<1>1. Full \subseteq Job /\ None \in Job
  BY Jobs
<1>2. Way = WayOf(queue, hold, ahead, link, got)
  BY DEF Way, WayOf, Indices
<1>3. Way' = WayOf(queue', hold', ahead', link', got')
  BY DEF Way, WayOf, Indices
<1>4. /\ queue \in Seq(Chunks) /\ hold \in [Channels -> Job] /\ ahead \in [Channels -> Job]
      /\ link \in [Channels -> Seq(Full)] /\ got \in [Channels -> Job]
  BY <1>1 DEF Types, SenderTypes, PathTypes
<1>5. /\ queue' \in Seq(Chunks) /\ hold' \in [Channels -> Job] /\ ahead' \in [Channels -> Job]
      /\ link' \in [Channels -> Seq(Full)] /\ got' \in [Channels -> Job]
  BY <1>1 DEF Types, SenderTypes, PathTypes
<1>6. \A s \in Station : WayOf(queue, hold, ahead, link, got)[s] \in Seq(Chunks)
  BY <1>4, WayTypes
<1>7. \A s \in Station : WayOf(queue', hold', ahead', link', got')[s] \in Seq(Chunks)
  BY <1>5, WayTypes
<1> QED BY <1>2, <1>3, <1>6, <1>7

(* Nothing is lost and nothing is twice: the way holds what is missing, or *)
(* part of it when something has failed.                                   *)
WayInv ==
    Apart(Way) /\ Within(Way, Missing) /\ (Healthy => Covers(Way, Missing))

(* An attempt that something has happened to does not recover.             *)
LEMMA HealthKept ==
    ASSUME Types, Places, Endings, Next, ~Retry, Healthy'
    PROVE  Healthy
<1> USE DEF Move, MoveR, source, sending, wire, data, stored, waiting, control, bounds
<1>q. SenderTypes /\ PathTypes
  BY DEF Types
<1>1. task = "streaming"
  BY TaskMoves DEF Healthy, TaskFails
<1> DEFINE Sound == \A c \in Channels : cut[c] # "cut" /\ spc[c] # "failed" /\ rpc[c] # "broken"
<1>2. ASSUME NEW c \in Channels, SenderStep(c) \/ ChannelFails(c), ~CountSent(c) PROVE Sound
  <2>1. CASE SConnect(c) \/ TakeAhead(c) \/ TakeQueued(c) \/ Peek(c) \/ ReadAhead(c) \/ SendChunk(c)
    BY <1>q, <2>1 DEF SConnect, TakeAhead, TakeQueued, Peek, ReadAhead, SendChunk, SenderTypes, Healthy
  <2>2. CASE Shut(c)
    BY <1>q, <2>2 DEF Shut, SenderTypes, PathTypes, Healthy
  <2>3. CASE IoFails(c) \/ ChannelFails(c)
    BY <1>q, <2>3 DEF IoFails, ChannelFails, Fails, SenderTypes, Healthy
  <2> QED BY <1>2, <2>1, <2>2, <2>3 DEF SenderStep
<1>3. ASSUME NEW c \in Channels, ReceiverStep(c) \/ ChannelBreaks(c) PROVE Sound
  <2>1. cut[c] = "cut" => cut'[c] = "cut"
    BY <1>q, <1>3 DEF ReceiverStep, ReceiverPasses, Accept, ReadHeader, WriteChunk,
       ChannelEnds, Settle, ChannelBreaks, PathTypes
  <2>2. spc' = spc /\ \A d \in Channels : d # c => cut'[d] = cut[d] /\ rpc'[d] = rpc[d]
    BY <1>q, <1>3 DEF ReceiverStep, ReceiverPasses, Accept, ReadHeader, WriteChunk,
       ChannelEnds, Leaves, Settle, ChannelBreaks, PathTypes
  <2>3. rpc[c] # "broken"
    BY <2>1 DEF Endings, Healthy
  <2> QED BY <2>1, <2>2, <2>3 DEF Healthy
<1>8. ASSUME NEW c \in Channels, CountSent(c) PROVE Sound
  <2>1. spc[c] = "count" /\ UNCHANGED rpc
    BY <1>8 DEF CountSent
  <2>2. \/ cut' = cut /\ \A d \in Channels : d # c => spc'[d] = spc[d]
        \/ cut' = [cut EXCEPT ![c] = "cut"]
    BY <1>q, <1>8 DEF CountSent, SenderTypes
  <2>3. cut'[c] # "cut"
    BY DEF Healthy
  <2> QED BY <1>q, <2>1, <2>2, <2>3 DEF PathTypes, Healthy
<1>4. ASSUME NEW c \in Channels, NapStep(c) PROVE Sound
  BY <1>4 DEF NapStep, FindPaused, FallAsleep, Healthy
<1>5. ASSUME NEW c \in Channels, CutData(c) PROVE FALSE
  BY <1>q, <1>5 DEF CutData, PathTypes, Healthy
<1>6. ASSUME LoopStep \/ Turn \/ \E s \in Side : Pause(s) \/ Resume(s) PROVE Sound
  BY <1>6 DEF LoopStep, Check, Arm, Woken, GiveUp, Turn, Pause, Resume, Healthy
<1>7. ASSUME TaskStep \/ TaskStops PROVE FALSE
  BY <1>7 DEF TaskStep, TaskStops, SeesChannelFail, SeesReceiverFail, ResultArrives,
     TaskFails, Healthy
<1> QED BY <1>1, <1>2, <1>3, <1>4, <1>5, <1>6, <1>7, <1>8 DEF Next, SenderStep, Healthy

LEMMA WayMoves ==
    ASSUME Types, Types', WayInv, Missing' = Missing, Healthy' => Healthy,
           NEW a, NEW b, Moves(Way, Way', a, b)
    PROVE  WayInv'
<1> DEFINE w == Way v == Way'
<1>1. \A s \in Station : w[s] \in Seq(Chunks) /\ v[s] \in Seq(Chunks)
  BY WaySeq
<1>2. /\ Apart(w) => Apart(v)
      /\ \A M : (Within(w, M) => Within(v, M)) /\ (Covers(w, M) => Covers(v, M))
  <2> HIDE DEF w, v
  <2> QED BY <1>1, Moved DEF w, v
<1> QED BY <1>2 DEF WayInv

LEMMA WayStands ==
    ASSUME WayInv, Missing' = Missing, Healthy' => Healthy, UNCHANGED <<queue, hold, ahead, link, got>>
    PROVE  WayInv'
<1>1. Way' = Way
  BY DEF Way
<1> QED BY <1>1 DEF WayInv

(* What one station holds.                                                 *)
LEMMA Single ==
    /\ Len(IndexOf(None)) = 0
    /\ \A j \in Job : j # None => Len(IndexOf(j)) = 1 /\ IndexOf(j)[1] = j[1]
<1>1. \A j \in Job : j # None => IndexOf(j) = <<j[1]>>
  BY IndexFacts
<1> QED BY <1>1, IndexFacts

(* A station whose part of the state stays is as it was.                   *)
LEMMA Elsewhere ==
    ASSUME NEW s \in Station, s = <<"queue", 0>> => queue' = queue,
           \A d \in Channels : /\ s = <<"hold", d>> => hold'[d] = hold[d]
                               /\ s = <<"ahead", d>> => ahead'[d] = ahead[d]
                               /\ s = <<"link", d>> => link'[d] = link[d]
                               /\ s = <<"got", d>> => got'[d] = got[d]
    PROVE  Way'[s] = Way[s]
<1>1. CASE s = <<"queue", 0>>
  BY <1>1, WayHere DEF Here
<1>2. ASSUME NEW d \in Channels, s = <<"hold", d>> PROVE Way'[s] = Way[s]
  <2>1. hold'[d] = hold[d]
    BY <1>2
  <2>2. /\ Way'[<<"hold", d>>] = IndexOf(hold'[d])
        /\ Way[<<"hold", d>>] = IndexOf(hold[d])
    BY WayHere DEF Here
  <2> QED BY <1>2, <2>1, <2>2
<1>3. ASSUME NEW d \in Channels, s = <<"ahead", d>> PROVE Way'[s] = Way[s]
  <2>1. ahead'[d] = ahead[d]
    BY <1>3
  <2>2. /\ Way'[<<"ahead", d>>] = IndexOf(ahead'[d])
        /\ Way[<<"ahead", d>>] = IndexOf(ahead[d])
    BY WayHere DEF Here
  <2> QED BY <1>3, <2>1, <2>2
<1>4. ASSUME NEW d \in Channels, s = <<"link", d>> PROVE Way'[s] = Way[s]
  <2>1. link'[d] = link[d]
    BY <1>4
  <2>2. /\ Way'[<<"link", d>>] = Indices(link'[d])
        /\ Way[<<"link", d>>] = Indices(link[d])
    BY WayHere DEF Here
  <2> QED BY <1>4, <2>1, <2>2
<1>5. ASSUME NEW d \in Channels, s = <<"got", d>> PROVE Way'[s] = Way[s]
  <2>1. got'[d] = got[d]
    BY <1>5
  <2>2. /\ Way'[<<"got", d>>] = IndexOf(got'[d])
        /\ Way[<<"got", d>>] = IndexOf(got[d])
    BY WayHere DEF Here
  <2> QED BY <1>5, <2>1, <2>2
<1> QED BY <1>1, <1>2, <1>3, <1>4, <1>5, StationCases

(* The chunk a channel has claimed becomes the one it sends.               *)
LEMMA WayTakeAhead ==
    ASSUME Types, Types', Places, WayInv, Healthy' => Healthy,
           NEW c \in Channels, TakeAhead(c)
    PROVE  WayInv'
<1> DEFINE a == <<"ahead", c>> b == <<"hold", c>>
<1>1. /\ ahead[c] # None /\ hold[c] = None
      /\ hold' = [hold EXCEPT ![c] = ahead[c]] /\ ahead' = [ahead EXCEPT ![c] = None]
      /\ UNCHANGED <<queue, link, got, marked>>
  BY DEF TakeAhead, Places, SenderPlaces, source, wire, data, stored
<1>2. hold \in [Channels -> Job] /\ ahead \in [Channels -> Job]
  BY Jobs DEF Types, SenderTypes
<1>3. a \in Station /\ b \in Station /\ a # b
  BY StationCases
<1>4. /\ Way[a] = IndexOf(ahead[c]) /\ Way[b] = IndexOf(None)
      /\ Way'[a] = IndexOf(None) /\ Way'[b] = IndexOf(ahead[c])
  BY <1>1, <1>2, WayHere DEF Here
<1>5. \A s \in Station : s # a /\ s # b => Way'[s] = Way[s]
  <2>1. SUFFICES ASSUME NEW s \in Station, s # a, s # b PROVE Way'[s] = Way[s]
    OBVIOUS
  <2>2. /\ s = <<"queue", 0>> => queue' = queue
        /\ \A d \in Channels : /\ s = <<"hold", d>> => hold'[d] = hold[d]
                               /\ s = <<"ahead", d>> => ahead'[d] = ahead[d]
                               /\ s = <<"link", d>> => link'[d] = link[d]
                               /\ s = <<"got", d>> => got'[d] = got[d]
    BY <1>1, <1>2, <2>1
  <2> QED BY <2>2, Elsewhere
<1>6. ahead[c] \in Job
  BY <1>2
<1>7. Missing' = Missing
  BY <1>1 DEF Missing
<1> HIDE DEF a, b
<1>8. /\ Len(Way[a]) = 1 /\ Len(Way[b]) = 0 /\ Len(Way'[a]) = 0 /\ Len(Way'[b]) = 1
      /\ Way'[b][1] = Way[a][1]
  BY <1>1, <1>4, <1>6, Single
<1>9. Moves(Way, Way', a, b)
  BY <1>3, <1>5, <1>8 DEF Moves
<1> QED BY <1>7, <1>9, WayMoves

(* The head of the queue, and what is left of it.                          *)
LEMMA QueueFacts ==
    ASSUME Types, queue # <<>>
    PROVE  /\ Len(queue) >= 1 /\ Len(queue) \in Nat /\ Head(queue) = queue[1] /\ Head(queue) \in Chunks
           /\ Len(Tail(queue)) = Len(queue) - 1
           /\ \A i \in 1..(Len(queue) - 1) : Tail(queue)[i] = queue[i + 1]
  BY DEF Types, SenderTypes

(* A channel takes the head of the queue.                                  *)
LEMMA WayTakeQueued ==
    ASSUME Types, Types', Places, WayInv, Healthy' => Healthy,
           NEW c \in Channels, TakeQueued(c)
    PROVE  WayInv'
<1> DEFINE a == <<"queue", 0>> b == <<"hold", c>> j == <<Head(queue), Content(Head(queue))>>
<1>1. /\ queue # <<>> /\ hold[c] = None /\ queue' = Tail(queue) /\ hold' = [hold EXCEPT ![c] = j]
      /\ UNCHANGED <<ahead, link, got, marked>>
  BY DEF TakeQueued, Places, SenderPlaces, source, wire, data, stored
<1>2. hold \in [Channels -> Job] /\ hold' \in [Channels -> Job] /\ hold'[c] = j
  BY <1>1, Jobs DEF Types, SenderTypes
<1>3. j \in Job /\ j # None /\ j[1] = queue[1]
  <2>1. Head(queue) = queue[1] /\ Head(queue) # 0
    BY <1>1, QueueFacts, DataPlaneAssumption DEF Chunks
  <2>2. j # None
    BY <2>1 DEF None
  <2> QED BY <1>2, <2>1, <2>2
<1>4. a \in Station /\ b \in Station /\ a # b
  BY StationCases
<1>5. /\ Way[a] = queue /\ Way[b] = IndexOf(None) /\ Way'[a] = Tail(queue) /\ Way'[b] = IndexOf(j)
  BY <1>1, <1>2, WayHere DEF Here
<1>6. \A s \in Station : s # a /\ s # b => Way'[s] = Way[s]
  <2>1. SUFFICES ASSUME NEW s \in Station, s # a, s # b PROVE Way'[s] = Way[s]
    OBVIOUS
  <2>2. /\ s = <<"queue", 0>> => queue' = queue
        /\ \A d \in Channels : /\ s = <<"hold", d>> => hold'[d] = hold[d]
                               /\ s = <<"ahead", d>> => ahead'[d] = ahead[d]
                               /\ s = <<"link", d>> => link'[d] = link[d]
                               /\ s = <<"got", d>> => got'[d] = got[d]
    BY <1>1, <1>2, <2>1
  <2> QED BY <2>2, Elsewhere
<1>7. Missing' = Missing
  BY <1>1 DEF Missing
<1> HIDE DEF a, b, j
<1>8. Len(Way[b]) = 0 /\ Len(Way'[b]) = 1 /\ Way'[b][1] = Way[a][1]
  BY <1>3, <1>5, Single
<1>9. /\ Len(Way[a]) >= 1 /\ Len(Way'[a]) = Len(Way[a]) - 1
      /\ \A i \in 1..Len(Way'[a]) : Way'[a][i] = Way[a][i + 1]
  BY <1>1, <1>5, QueueFacts
<1>10. Moves(Way, Way', a, b)
  BY <1>4, <1>6, <1>8, <1>9 DEF Moves
<1> QED BY <1>7, <1>10, WayMoves

(* It claims the next one.                                                 *)
LEMMA WayPeek ==
    ASSUME Types, Types', Places, WayInv, Healthy' => Healthy,
           NEW c \in Channels, Peek(c)
    PROVE  WayInv'
<1> DEFINE a == <<"queue", 0>> b == <<"ahead", c>>
           j == <<Head(queue), IF "source" \in sequential THEN 0 ELSE Head(queue)>>
<1>0. UNCHANGED <<hold, link, got, marked>> /\ Missing' = Missing
  BY DEF Peek, source, wire, data, stored, Missing
<1>a. CASE queue = <<>>
  <2>1. UNCHANGED <<queue, ahead>>
    BY <1>a DEF Peek
  <2> QED BY <1>0, <2>1, WayStands
<1>b. CASE queue # <<>>
  <2>1. /\ ahead[c] = None /\ queue' = Tail(queue) /\ ahead' = [ahead EXCEPT ![c] = j]
    BY <1>b DEF Peek, Places, SenderPlaces
  <2>2. ahead \in [Channels -> Job] /\ ahead' \in [Channels -> Job] /\ ahead'[c] = j
    BY <2>1 DEF Types, SenderTypes
  <2>3. j \in Job /\ j # None /\ j[1] = queue[1]
    <3>1. Head(queue) = queue[1] /\ Head(queue) # 0
      BY <1>b, QueueFacts, DataPlaneAssumption DEF Chunks
    <3>2. j # None
      BY <3>1 DEF None
    <3> QED BY <2>2, <3>1, <3>2
  <2>4. a \in Station /\ b \in Station /\ a # b
    BY StationCases
  <2>5. /\ Way[a] = queue /\ Way[b] = IndexOf(None) /\ Way'[a] = Tail(queue) /\ Way'[b] = IndexOf(j)
    BY <2>1, <2>2, WayHere DEF Here
  <2>6. \A s \in Station : s # a /\ s # b => Way'[s] = Way[s]
    <3>1. SUFFICES ASSUME NEW s \in Station, s # a, s # b PROVE Way'[s] = Way[s]
      OBVIOUS
    <3>2. /\ s = <<"queue", 0>> => queue' = queue
          /\ \A d \in Channels : /\ s = <<"hold", d>> => hold'[d] = hold[d]
                                 /\ s = <<"ahead", d>> => ahead'[d] = ahead[d]
                                 /\ s = <<"link", d>> => link'[d] = link[d]
                                 /\ s = <<"got", d>> => got'[d] = got[d]
      BY <1>0, <2>1, <2>2, <3>1
    <3> QED BY <3>2, Elsewhere
  <2> HIDE DEF a, b, j
  <2>7. Len(Way[b]) = 0 /\ Len(Way'[b]) = 1 /\ Way'[b][1] = Way[a][1]
    BY <2>3, <2>5, Single
  <2>8. /\ Len(Way[a]) >= 1 /\ Len(Way'[a]) = Len(Way[a]) - 1
        /\ \A i \in 1..Len(Way'[a]) : Way'[a][i] = Way[a][i + 1]
    BY <1>b, <2>5, QueueFacts
  <2>9. Moves(Way, Way', a, b)
    BY <2>4, <2>6, <2>7, <2>8 DEF Moves
  <2> QED BY <1>0, <2>9, WayMoves
<1> QED BY <1>a, <1>b

(* Reading a claimed chunk leaves it where it is.                          *)
LEMMA WayReadAhead ==
    ASSUME Types, Types', Places, WayInv, Healthy' => Healthy,
           NEW c \in Channels, ReadAhead(c)
    PROVE  WayInv'
<1>1. UNCHANGED <<queue, hold, link, got>> /\ Missing' = Missing
  BY DEF ReadAhead, wire, data, stored, Missing
<1>2. ahead \in [Channels -> Job] /\ ahead' \in [Channels -> Job]
  BY DEF Types, SenderTypes
<1>3. ahead[c] # None /\ ahead[c] = <<ahead[c][1], ahead[c][2]>> /\ ahead[c][1] # 0
  BY <1>2, Jobs DEF ReadAhead, Chunks
<1>4. ahead' = [ahead EXCEPT ![c] = <<ahead[c][1], Content(ahead[c][1])>>]
  <2>1. ahead' = [ahead EXCEPT ![c] = [ahead[c] EXCEPT ![2] = Content(ahead[c][1])]]
    BY <1>2 DEF ReadAhead
  <2>2. [ahead[c] EXCEPT ![2] = Content(ahead[c][1])] = <<ahead[c][1], Content(ahead[c][1])>>
    BY <1>3
  <2> QED BY <2>1, <2>2
<1>5. ahead'[c] # None /\ ahead'[c][1] = ahead[c][1]
  BY <1>2, <1>3, <1>4 DEF None
<1>6. IndexOf(ahead'[c]) = IndexOf(ahead[c]) /\ \A d \in Channels : d # c => ahead'[d] = ahead[d]
  BY <1>2, <1>3, <1>4, <1>5 DEF IndexOf
<1>7. \A s \in Station : Way'[s] = Way[s]
  <2>1. \A d \in Channels : Way'[<<"ahead", d>>] = Way[<<"ahead", d>>]
    BY <1>6, WayHere DEF Here
  <2>2. ASSUME NEW s \in Station, \A d \in Channels : s # <<"ahead", d>> PROVE Way'[s] = Way[s]
    BY <1>1, <2>2, Elsewhere
  <2> QED BY <2>1, <2>2
<1> QED BY <1>1, <1>7 DEF WayInv, Apart, Within, Covers

(* A chunk is written to the connection.                                   *)
LEMMA WaySendChunk ==
    ASSUME Types, Types', Places, WayInv, Healthy' => Healthy,
           NEW c \in Channels, SendChunk(c)
    PROVE  WayInv'
<1> DEFINE a == <<"hold", c>> b == <<"link", c>>
<1>1. /\ hold[c] # None /\ hold' = [hold EXCEPT ![c] = None]
      /\ link' = [link EXCEPT ![c] = Append(@, hold[c])]
      /\ UNCHANGED <<queue, ahead, got, marked>>
  BY DEF SendChunk, Places, SenderPlaces, source, data, stored
<1>2. /\ hold \in [Channels -> {None} \cup Full] /\ link \in [Channels -> Seq(Full)]
      /\ link' \in [Channels -> Seq(Full)]
  BY DEF Types, SenderTypes, PathTypes
<1>3. /\ hold[c] \in Full /\ hold[c] \in Job /\ link[c] \in Seq(Full) /\ link'[c] \in Seq(Full)
      /\ Len(link'[c]) = Len(link[c]) + 1 /\ Len(link[c]) \in Nat
      /\ link'[c][Len(link[c]) + 1] = hold[c]
      /\ \A i \in 1..Len(link[c]) : link'[c][i] = link[c][i]
  BY <1>1, <1>2, Jobs
<1>4. a \in Station /\ b \in Station /\ a # b
  BY StationCases
<1>5. /\ Way[a] = IndexOf(hold[c]) /\ Way[b] = Indices(link[c])
      /\ Way'[a] = IndexOf(None) /\ Way'[b] = Indices(link'[c])
  BY <1>1, <1>2, WayHere DEF Here
<1>6. \A s \in Station : s # a /\ s # b => Way'[s] = Way[s]
  <2>1. SUFFICES ASSUME NEW s \in Station, s # a, s # b PROVE Way'[s] = Way[s]
    OBVIOUS
  <2>2. /\ s = <<"queue", 0>> => queue' = queue
        /\ \A d \in Channels : /\ s = <<"hold", d>> => hold'[d] = hold[d]
                               /\ s = <<"ahead", d>> => ahead'[d] = ahead[d]
                               /\ s = <<"link", d>> => link'[d] = link[d]
                               /\ s = <<"got", d>> => got'[d] = got[d]
    BY <1>1, <1>2, <2>1
  <2> QED BY <2>2, Elsewhere
<1>7. Missing' = Missing
  BY <1>1 DEF Missing
<1>8. /\ Len(Way[b]) = Len(link[c]) /\ Len(Way'[b]) = Len(Way[b]) + 1
      /\ Way'[b][Len(Way[b]) + 1] = hold[c][1]
      /\ \A i \in 1..Len(Way[b]) : Way'[b][i] = Way[b][i]
  <2>1. Len(link[c]) + 1 \in 1..Len(link'[c]) /\ \A i \in 1..Len(link[c]) : i \in 1..Len(link'[c])
    BY <1>3
  <2>2. /\ Len(Indices(link[c])) = Len(link[c]) /\ Len(Indices(link'[c])) = Len(link'[c])
        /\ \A i \in 1..Len(link[c]) : Indices(link[c])[i] = link[c][i][1]
        /\ \A i \in 1..Len(link'[c]) : Indices(link'[c])[i] = link'[c][i][1]
    BY <1>3, IndicesFacts
  <2> HIDE DEF a, b
  <2> QED BY <1>3, <1>5, <2>1, <2>2
<1> HIDE DEF a, b
<1>9. Len(Way[a]) = 1 /\ Len(Way'[a]) = 0 /\ Way[a][1] = hold[c][1]
  BY <1>1, <1>3, <1>5, Single
<1>10. Moves(Way, Way', a, b)
  BY <1>4, <1>6, <1>8, <1>9 DEF Moves
<1> QED BY <1>7, <1>10, WayMoves

(* The receiver takes it from there.                                       *)
LEMMA WayReadHeader ==
    ASSUME Types, Types', Places, WayInv, Healthy' => Healthy,
           NEW c \in Channels, ReadHeader(c)
    PROVE  WayInv'
<1> DEFINE a == <<"link", c>> b == <<"got", c>>
<1>1. /\ link[c] # <<>> /\ got[c] = None /\ got' = [got EXCEPT ![c] = Head(link[c])]
      /\ link' = [link EXCEPT ![c] = Tail(@)]
      /\ UNCHANGED <<queue, hold, ahead, marked>>
  BY DEF ReadHeader, Places, ReceiverPlaces, sending, stored
<1>2. /\ got \in [Channels -> {None} \cup Full] /\ link \in [Channels -> Seq(Full)]
      /\ link' \in [Channels -> Seq(Full)]
  BY DEF Types, SenderTypes, PathTypes
<1>3. /\ link[c] \in Seq(Full) /\ link'[c] \in Seq(Full) /\ link'[c] = Tail(link[c])
  BY <1>1, <1>2
<1>4. /\ Head(link[c]) = link[c][1] /\ Head(link[c]) \in Full /\ Len(link[c]) >= 1
      /\ Len(link[c]) \in Nat /\ Len(link'[c]) = Len(link[c]) - 1
      /\ \A i \in 1..(Len(link[c]) - 1) : link'[c][i] = link[c][i + 1]
  BY <1>1, <1>3, ReadFacts
<1>5. a \in Station /\ b \in Station /\ a # b
  BY StationCases
<1>6. /\ Way[a] = Indices(link[c]) /\ Way[b] = IndexOf(None)
      /\ Way'[a] = Indices(link'[c]) /\ Way'[b] = IndexOf(link[c][1])
  BY <1>1, <1>2, <1>4, WayHere DEF Here
<1>7. \A s \in Station : s # a /\ s # b => Way'[s] = Way[s]
  <2>1. SUFFICES ASSUME NEW s \in Station, s # a, s # b PROVE Way'[s] = Way[s]
    OBVIOUS
  <2>2. /\ s = <<"queue", 0>> => queue' = queue
        /\ \A d \in Channels : /\ s = <<"hold", d>> => hold'[d] = hold[d]
                               /\ s = <<"ahead", d>> => ahead'[d] = ahead[d]
                               /\ s = <<"link", d>> => link'[d] = link[d]
                               /\ s = <<"got", d>> => got'[d] = got[d]
    BY <1>1, <1>2, <2>1
  <2> QED BY <2>2, Elsewhere
<1>8. Missing' = Missing
  BY <1>1 DEF Missing
<1>9. /\ Len(Way[a]) >= 1 /\ Len(Way'[a]) = Len(Way[a]) - 1 /\ Way[a][1] = link[c][1][1]
      /\ \A i \in 1..Len(Way'[a]) : Way'[a][i] = Way[a][i + 1]
  <2>1. /\ Len(Indices(link[c])) = Len(link[c]) /\ Len(Indices(link'[c])) = Len(link'[c])
        /\ \A i \in 1..Len(link[c]) : Indices(link[c])[i] = link[c][i][1]
        /\ \A i \in 1..Len(link'[c]) : Indices(link'[c])[i] = link'[c][i][1]
    BY <1>3, IndicesFacts
  <2>2. /\ 1 \in 1..Len(link[c])
        /\ \A i \in 1..Len(link'[c]) :
              i + 1 \in 1..Len(link[c]) /\ i \in 1..(Len(link[c]) - 1)
    BY <1>4
  <2> HIDE DEF a, b
  <2> QED BY <1>4, <1>6, <2>1, <2>2
<1>10. link[c][1] \in Job /\ link[c][1] # None
  BY <1>4, Jobs
<1> HIDE DEF a, b
<1>11. Len(Way[b]) = 0 /\ Len(Way'[b]) = 1 /\ Way'[b][1] = Way[a][1]
  BY <1>6, <1>9, <1>10, Single
<1>12. Moves(Way, Way', a, b)
  BY <1>5, <1>7, <1>9, <1>11 DEF Moves
<1> QED BY <1>8, <1>12, WayMoves

(* It is written and marked.                                               *)
LEMMA WayWriteChunk ==
    ASSUME Types, Types', Places, WayInv, Healthy' => Healthy,
           NEW c \in Channels, WriteChunk(c)
    PROVE  WayInv'
<1> DEFINE a == <<"got", c>> k == got[c][1] w == Way v == Way' m == Missing
<1>1. /\ got[c] # None /\ got' = [got EXCEPT ![c] = None] /\ marked' = marked \cup {k}
      /\ UNCHANGED <<queue, hold, ahead, link>>
  BY DEF WriteChunk, Places, ReceiverPlaces, source, sending, wire
<1>2. got \in [Channels -> Job]
  BY Jobs DEF Types, PathTypes
<1>3. a \in Station /\ got[c] \in Job
  BY <1>2, StationCases
<1>4. w[a] = IndexOf(got[c]) /\ v[a] = IndexOf(None)
  BY <1>1, <1>2, WayHere DEF Here
<1>5. \A s \in Station : s # a => v[s] = w[s]
  <2>1. SUFFICES ASSUME NEW s \in Station, s # a PROVE Way'[s] = Way[s]
    OBVIOUS
  <2>2. \A d \in Channels : s = <<"got", d>> => got'[d] = got[d]
    BY <1>1, <1>2, <2>1
  <2> QED BY <1>1, <2>2, Elsewhere
<1>6. Missing' = m \ {k}
  BY <1>1 DEF Missing
<1>7. \A s \in Station : w[s] \in Seq(Chunks)
  BY WaySeq
<1>8. Apart(w) /\ Within(w, m) /\ (Healthy => Covers(w, m))
  BY DEF WayInv
<1>9. Len(w[a]) = 1 /\ w[a][1] = k /\ v[a] = <<>>
  BY <1>1, <1>3, <1>4, Single, IndexFacts
<1>10. Apart(v) /\ Within(v, m \ {k}) /\ (Covers(w, m) => Covers(v, m \ {k}))
  <2> HIDE DEF a, k, w, v, m
  <2> QED BY <1>3, <1>5, <1>7, <1>8, <1>9, Removed
<1> QED BY <1>6, <1>8, <1>10 DEF WayInv

(* A channel of the receiver that ends with the sender's has nothing more  *)
(* to read; one that breaks loses what it holds.                           *)
LEMMA WayEnds ==
    ASSUME Types, Types', Places, WayInv, Healthy' => Healthy,
           NEW c \in Channels, ChannelEnds(c) \/ ChannelBreaks(c)
    PROVE  WayInv'
<1> DEFINE w == Way v == Way'
<1>1. /\ got' = [got EXCEPT ![c] = None] /\ link' = [link EXCEPT ![c] = <<>>]
      /\ UNCHANGED <<queue, hold, ahead, marked, cut>>
  BY DEF ChannelEnds, ChannelBreaks, Leaves, sending, stored
<1>2. got \in [Channels -> {None} \cup Full] /\ link \in [Channels -> Seq(Full)]
  BY DEF Types, PathTypes
<1>3. Indices(<<>>) = <<>> /\ IndexOf(None) = <<>>
  BY IndexFacts DEF Indices
<1>4. \A s \in Station : v[s] = w[s] \/ v[s] = <<>>
  <2>1. v[<<"link", c>>] = <<>> /\ v[<<"got", c>>] = <<>>
    BY <1>1, <1>2, <1>3, WayHere DEF Here
  <2>2. ASSUME NEW s \in Station, s # <<"link", c>>, s # <<"got", c>> PROVE Way'[s] = Way[s]
    <3>1. \A d \in Channels : (s = <<"link", d>> => link'[d] = link[d])
                             /\ (s = <<"got", d>> => got'[d] = got[d])
      BY <1>1, <1>2, <2>2
    <3> QED BY <1>1, <3>1, Elsewhere
  <2> QED BY <2>1, <2>2
<1>5. Missing' = Missing
  BY <1>1 DEF Missing
<1>6. Apart(v) /\ \A M : Within(w, M) => Within(v, M)
  BY <1>4, Dropped DEF WayInv
<1>7. ASSUME Healthy' PROVE UNCHANGED <<queue, hold, ahead, link, got>>
  <2>1. ChannelEnds(c) /\ cut[c] = "shut" /\ link[c] = <<>>
    BY <1>1, <1>2, <1>7 DEF ChannelEnds, ChannelBreaks, Healthy
  <2>2. got[c] = None
    BY <2>1 DEF ChannelEnds, Places, ReceiverPlaces
  <2>3. got' = got /\ link' = link
    BY <1>1, <1>2, <2>1, <2>2
  <2> QED BY <1>1, <2>3
<1>8. CASE Healthy'
  BY <1>5, <1>7, <1>8, WayStands
<1>9. CASE ~Healthy'
  BY <1>5, <1>6, <1>9 DEF WayInv
<1> QED BY <1>8, <1>9

(* An attempt begins with all that is missing in the queue.                *)
LEMMA WayFresh ==
    ASSUME NEW S \in SUBSET Chunks, NEW w,
           w[<<"queue", 0>>] = InOrder(S),
           \A c \in Channels : /\ w[<<"hold", c>>] = <<>> /\ w[<<"ahead", c>>] = <<>>
                               /\ w[<<"link", c>>] = <<>> /\ w[<<"got", c>>] = <<>>
    PROVE  Apart(w) /\ Within(w, S) /\ Covers(w, S)
<1> DEFINE o == <<"queue", 0>> q == w[o]
<1>1. /\ \A i \in 1..Len(q) : q[i] \in S
      /\ \A i, j \in 1..Len(q) : q[i] = q[j] => i = j
      /\ \A k \in S : \E i \in 1..Len(q) : q[i] = k
  <2>1. q = InOrder(S)
    OBVIOUS
  <2>2. /\ \A i \in 1..Len(InOrder(S)) : InOrder(S)[i] \in S
        /\ \A i, j \in 1..Len(InOrder(S)) : InOrder(S)[i] = InOrder(S)[j] => i = j
        /\ \A k \in S : \E i \in 1..Len(InOrder(S)) : InOrder(S)[i] = k
    BY InOrderFacts
  <2> HIDE DEF q
  <2> QED BY <2>1, <2>2
<1>2. ASSUME NEW s \in Station PROVE s = o \/ w[s] = <<>>
  <2>1. CASE s = o
    BY <2>1
  <2>2. ASSUME NEW c \in Channels, s \in {<<"hold", c>>, <<"ahead", c>>, <<"link", c>>, <<"got", c>>}
        PROVE w[s] = <<>>
    BY <2>2
  <2> QED BY <2>1, <2>2, StationCases
<1>3. o \in Station
  BY StationCases
<1> HIDE DEF o
<1>4. \A s \in Station : \A i \in 1..Len(w[s]) : s = o
  BY <1>2
<1> QED BY <1>1, <1>3, <1>4 DEF Apart, Within, Covers

LEMMA WayInit == Init => WayInv
<1> SUFFICES ASSUME Init PROVE WayInv
  OBVIOUS
<1>1. /\ Way[<<"queue", 0>>] = InOrder(Chunks)
      /\ \A c \in Channels : /\ Way[<<"hold", c>>] = <<>> /\ Way[<<"ahead", c>>] = <<>>
                             /\ Way[<<"link", c>>] = <<>> /\ Way[<<"got", c>>] = <<>>
  <2>1. IndexOf(None) = <<>> /\ Indices(<<>>) = <<>>
    BY IndexFacts DEF Indices
  <2> QED BY <2>1, WayHere DEF Here, Init
<1>2. Missing = Chunks
  BY DEF Init, Missing
<1> QED BY <1>1, <1>2, WayFresh DEF WayInv

LEMMA WayNext ==
    ASSUME Types, Places, Endings, WayInv, Next
    PROVE  WayInv'
<1> USE DEF source, sending, wire, data, stored, waiting, control, bounds
<1>t. Types'
  BY TypesNext
<1>1. CASE Retry
  <2> DEFINE S == Chunks \ marked'
  <2>1. Missing' = S /\ S \in SUBSET Chunks /\ Launch(S)
    BY <1>1 DEF Retry, Missing
  <2>2. /\ Way'[<<"queue", 0>>] = InOrder(S)
        /\ \A c \in Channels : /\ Way'[<<"hold", c>>] = <<>> /\ Way'[<<"ahead", c>>] = <<>>
                               /\ Way'[<<"link", c>>] = <<>> /\ Way'[<<"got", c>>] = <<>>
    <3>1. IndexOf(None) = <<>> /\ Indices(<<>>) = <<>>
      BY IndexFacts DEF Indices
    <3> QED BY <2>1, <3>1, WayHere DEF Here, Launch
  <2> HIDE DEF S
  <2>3. Apart(Way') /\ Within(Way', S) /\ Covers(Way', S)
    BY <2>1, <2>2, WayFresh
  <2> QED BY <2>1, <2>3 DEF WayInv
<1>2. CASE ~Retry
  <2>h. Healthy' => Healthy
    BY <1>2, HealthKept
  <2>1. ASSUME NEW c \in Channels,
               \/ TakeAhead(c) \/ TakeQueued(c) \/ Peek(c) \/ ReadAhead(c) \/ SendChunk(c)
        PROVE WayInv'
    BY <1>t, <2>h, <2>1, WayTakeAhead, WayTakeQueued, WayPeek, WayReadAhead, WaySendChunk
  <2>2. ASSUME NEW c \in Channels,
               \/ ReadHeader(c) \/ WriteChunk(c) \/ ChannelEnds(c) \/ ChannelBreaks(c)
        PROVE WayInv'
    BY <1>t, <2>h, <2>2, WayReadHeader, WayWriteChunk, WayEnds
  <2>3. ASSUME UNCHANGED <<queue, hold, ahead, link, got, marked>> PROVE WayInv'
    BY <2>h, <2>3, WayStands DEF Missing
  <2>4. ASSUME NEW c \in Channels,
               \/ SConnect(c) \/ Shut(c) \/ CountSent(c) \/ IoFails(c) \/ ChannelFails(c)
               \/ ReceiverPasses(c) \/ Accept(c) \/ Settle(c) \/ NapStep(c) \/ CutData(c)
        PROVE UNCHANGED <<queue, hold, ahead, link, got, marked>>
    BY <2>4 DEF SConnect, Shut, CountSent, IoFails, ChannelFails, Fails, ReceiverPasses, Accept, Settle,
       NapStep, FindPaused, FallAsleep, CutData
  <2>5. ASSUME LoopStep \/ Turn \/ TaskStep \/ TaskStops \/ \E s \in Side : Pause(s) \/ Resume(s)
        PROVE UNCHANGED <<queue, hold, ahead, link, got, marked>>
    BY <2>5 DEF LoopStep, Check, Arm, Woken, GiveUp, Turn, Pause, Resume, TaskStep, TaskStops,
       SeesChannelFail, SeesReceiverFail, ResultArrives, TaskFails
  <2> QED BY <1>2, <2>1, <2>2, <2>3, <2>4, <2>5 DEF Next, SenderStep, ReceiverStep
<1> QED BY <1>1, <1>2

-----------------------------------------------------------------------------
(* The inductive invariant, and what it says.                              *)

Right == Labels /\ OneChannel /\ InTurn /\ FileRight

IInv == Ends /\ Right /\ WayInv

LEMMA IInvInit == Init => IInv
  BY TypesInit, EndingsInit, LabelsInit, WayInit DEF IInv, Ends, Right

LEMMA IInvNext == IInv /\ [Next]_vars => IInv'
<1> SUFFICES ASSUME IInv, [Next]_vars PROVE IInv'
  OBVIOUS
<1>1. Ends'
  BY EndsNext DEF IInv
<1>2. CASE Next
  <2>1. Right'
    BY <1>2, LabelsNext, OneChannelNext, InTurnNext, FileRightNext DEF IInv, Ends, Right
  <2>2. WayInv'
    BY <1>2, WayNext DEF IInv, Ends
  <2> QED BY <1>1, <2>1, <2>2 DEF IInv
<1>3. CASE UNCHANGED vars
  <2> USE <1>3 DEF vars, source, sending, wire, data, stored, waiting, control, bounds, IInv, Ends
  <2>1. Labels' /\ OneChannel'
    BY DEF Right, Labels, OneChannel
  <2>2. InTurn' /\ FileRight'
    BY DEF Right, InTurn, FileRight, AtGot, AtLink, AtHold, AtAhead, One
  <2>3. WayInv'
    BY WayStands DEF Missing, Healthy
  <2> QED BY <1>1, <2>1, <2>2, <2>3 DEF Right
<1> QED BY <1>2, <1>3

LEMMA IInvAlways == Spec => []IInv
  BY IInvInit, IInvNext, PTL DEF Spec

(* Channels that steal from one queue and claim the next chunk before they *)
(* have sent one lose none and send none twice, for any number of chunks   *)
(* and channels: each chunk the receiver lacks is at exactly one place.    *)
THEOREM NothingIsForgotten == Spec => []NothingForgotten
<1>1. ASSUME IInv PROVE NothingForgotten
  <2>0. Apart(Way) /\ Within(Way, Missing) /\ (Healthy => Covers(Way, Missing)) /\ Types
    BY <1>1 DEF IInv, Ends, WayInv
  <2>1. \A s \in Station : DOMAIN Way[s] = 1..Len(Way[s])
    <3>1. Way = WayOf(queue, hold, ahead, link, got)
      BY DEF Way, WayOf, Indices
    <3>2. /\ queue \in Seq(Chunks) /\ hold \in [Channels -> Job] /\ ahead \in [Channels -> Job]
          /\ link \in [Channels -> Seq(Full)] /\ got \in [Channels -> Job]
      BY <2>0, Jobs DEF Types, SenderTypes, PathTypes
    <3>3. \A s \in Station : Way[s] \in Seq(Chunks)
      BY <3>1, <3>2, WayTypes
    <3> QED BY <3>3
  <2>2. \A k, p : p \in At(k) <=> \E s \in Station : \E i \in 1..Len(Way[s]) :
                                      p = <<s, i>> /\ Way[s][i] = k
    BY <2>1 DEF At
  <2>3. ASSUME Healthy, NEW k \in Chunks, k \in Missing PROVE Cardinality(At(k)) = 1
    <3>1. PICK s \in Station : \E i \in 1..Len(Way[s]) : Way[s][i] = k
      BY <2>0, <2>3 DEF Covers
    <3>2. PICK i \in 1..Len(Way[s]) : Way[s][i] = k
      BY <3>1
    <3>3. ASSUME NEW p \in At(k) PROVE p = <<s, i>>
      <4>1. PICK t \in Station : \E j \in 1..Len(Way[t]) : p = <<t, j>> /\ Way[t][j] = k
        BY <2>2
      <4>2. PICK j \in 1..Len(Way[t]) : p = <<t, j>> /\ Way[t][j] = k
        BY <4>1
      <4>3. s = t /\ i = j
        BY <2>0, <3>2, <4>2 DEF Apart
      <4> QED BY <4>2, <4>3
    <3>4. <<s, i>> \in At(k)
      BY <2>2, <3>2
    <3>5. At(k) = {<<s, i>>}
      BY <3>3, <3>4
    <3> QED BY <3>5, FS_Singleton
  <2>4. ASSUME NEW k \in Chunks, k \notin Missing PROVE Cardinality(At(k)) = 0
    <3>1. At(k) = {}
      BY <2>0, <2>2, <2>4 DEF Within
    <3> QED BY <3>1, FS_EmptySet
  <2> QED BY <2>3, <2>4 DEF NothingForgotten
<1> QED BY <1>1, IInvAlways, PTL

(* The receiver does not give up on channels that have done their work:    *)
(* were all of them at their end, the way would be empty and nothing       *)
(* missing.                                                                *)
THEOREM GivesUpOnlyForCause == Spec => GivesUpForCause
<1> DEFINE Cause == handler = "wait" /\ handler' = "grace" =>
                        ~Healthy \/ \E c \in Channels : spc[c] # "off" /\ rpc[c] = "none"
<1>1. ASSUME IInv, [Next]_vars PROVE Cause
  <2> SUFFICES ASSUME handler = "wait", handler' = "grace", Healthy,
                      \A c \in Channels : spc[c] # "off" => rpc[c] # "none"
               PROVE FALSE
    OBVIOUS
  <2>0. Types /\ Places /\ Endings /\ Finished /\ Covers(Way, Missing)
    BY <1>1 DEF IInv, Ends, WayInv
  <2>1. Missing # {} /\ \A c \in Channels : rpc[c] \notin Inside
    <3>1. Next /\ ~Retry
      BY <1>1 DEF vars, waiting, Retry, Launch
    <3>2. LoopStep \/ Turn
      BY <3>1, LoopMoves
    <3>3. Woken
      BY <3>2 DEF LoopStep, Check, Arm, GiveUp, Turn, Verify
    <3> QED BY <3>3 DEF Woken, Verify
  <2>2. \A c \in Channels : spc[c] # "off" => spc[c] = "done" /\ link[c] = <<>> /\ rpc[c] = "left"
    <3>1. \A c \in Channels : rpc[c] \in Inside \cup {"none", "broken", "left"}
      BY <2>0 DEF Types, PathTypes
    <3>2. \A c \in Channels : spc[c] # "off" => rpc[c] = "left" /\ cut[c] # "cut"
      BY <2>1, <3>1 DEF Healthy
    <3> QED BY <2>0, <3>2 DEF Endings
  <2>3. queue = <<>>
    BY <2>0, <2>1, <2>2 DEF Finished, Endings
  <2>4. \A c \in Channels : hold[c] = None /\ ahead[c] = None /\ link[c] = <<>> /\ got[c] = None
    BY <2>0, <2>2 DEF Places, SenderPlaces, ReceiverPlaces, Unopened
  <2>5. \A s \in Station : Way[s] = <<>>
    <3>1. Indices(<<>>) = <<>> /\ IndexOf(None) = <<>>
      BY IndexFacts DEF Indices
    <3>2. Way[<<"queue", 0>>] = <<>>
      BY <2>3, WayHere DEF Here
    <3>3. ASSUME NEW c \in Channels
          PROVE /\ Way[<<"hold", c>>] = <<>> /\ Way[<<"ahead", c>>] = <<>>
                /\ Way[<<"link", c>>] = <<>> /\ Way[<<"got", c>>] = <<>>
      BY <2>4, <3>1, WayHere DEF Here
    <3> QED BY <3>2, <3>3, StationCases
  <2> QED BY <2>0, <2>1, <2>5 DEF Covers
<1> QED BY <1>1, IInvAlways, PTL DEF Spec, GivesUpForCause

-----------------------------------------------------------------------------
(* The progress the sender shows.                                          *)

(* How a step of channel c changes the number of channels that hold a      *)
(* chunk.                                                                  *)
LEMMA HeldFacts ==
    ASSUME NEW f, NEW g, NEW c \in Channels, \A d \in Channels : d # c => g[d] = f[d]
    PROVE  /\ Cardinality(Held(f)) \in Nat
           /\ (f[c] = None /\ g[c] # None) => Cardinality(Held(g)) = Cardinality(Held(f)) + 1
           /\ (f[c] # None /\ g[c] = None) => /\ Cardinality(Held(g)) = Cardinality(Held(f)) - 1
                                              /\ Cardinality(Held(f)) >= 1
           /\ (f[c] # None /\ g[c] # None) => Cardinality(Held(g)) = Cardinality(Held(f))
<1>0. IsFiniteSet(Channels)
  BY FS_Interval, DataPlaneAssumption DEF Channels
<1>1. IsFiniteSet(Held(f)) /\ IsFiniteSet(Held(g))
  <2>1. Held(f) \in SUBSET Channels /\ Held(g) \in SUBSET Channels
    BY DEF Held
  <2> QED BY <1>0, <2>1, FS_Subset
<1>2. Cardinality(Held(f)) \in Nat /\ Cardinality(Held(g)) \in Nat
  BY <1>1, FS_CardinalityType
<1>3. ASSUME f[c] = None, g[c] # None PROVE Cardinality(Held(g)) = Cardinality(Held(f)) + 1
  <2>1. Held(g) = Held(f) \cup {c} /\ c \notin Held(f)
    BY <1>3 DEF Held
  <2> QED BY <1>1, <2>1, FS_AddElement
<1>4. ASSUME f[c] # None, g[c] = None
      PROVE Cardinality(Held(g)) = Cardinality(Held(f)) - 1 /\ Cardinality(Held(f)) >= 1
  <2>1. Held(f) = Held(g) \cup {c} /\ c \notin Held(g)
    BY <1>4 DEF Held
  <2>2. Cardinality(Held(f)) = Cardinality(Held(g)) + 1
    BY <1>1, <2>1, FS_AddElement
  <2> QED BY <1>2, <2>2
<1>5. ASSUME f[c] # None, g[c] # None PROVE Held(g) = Held(f)
  BY <1>5 DEF Held
<1> QED BY <1>2, <1>3, <1>4, <1>5

HeldCount(tasks) == Cardinality(Held(tasks))

(* The channels about to count, when the channels are at these places.     *)
Counting(places) == Cardinality({c \in Channels : places[c] = "count"})

Progressed ==
    /\ task = "streaming" =>
          sent + Counting(spc) + Len(queue) + HeldCount(hold) + HeldCount(ahead) = Size
    /\ task = "completed" => sent + Counting(spc) = Size

(* How a step of channel c changes the number of channels about to count.  *)
LEMMA CountingFacts ==
    ASSUME NEW f, NEW g, NEW c \in Channels, \A d \in Channels : d # c => g[d] = f[d]
    PROVE  /\ Counting(f) \in Nat
           /\ (f[c] # "count" /\ g[c] = "count") => Counting(g) = Counting(f) + 1
           /\ (f[c] = "count" /\ g[c] # "count") => /\ Counting(g) = Counting(f) - 1
                                                    /\ Counting(f) >= 1
           /\ (f[c] # "count" /\ g[c] # "count") => Counting(g) = Counting(f)
<1> DEFINE F == {d \in Channels : f[d] = "count"}
           G == {d \in Channels : g[d] = "count"}
<1>0. IsFiniteSet(Channels)
  BY FS_Interval, DataPlaneAssumption DEF Channels
<1>1. IsFiniteSet(F) /\ IsFiniteSet(G)
  <2>1. F \in SUBSET Channels /\ G \in SUBSET Channels
    OBVIOUS
  <2> HIDE DEF F, G
  <2> QED BY <1>0, <2>1, FS_Subset
<1>2. Cardinality(F) \in Nat /\ Cardinality(G) \in Nat
  BY <1>1, FS_CardinalityType
<1>3. ASSUME f[c] # "count", g[c] = "count" PROVE Cardinality(G) = Cardinality(F) + 1
  <2>1. G = F \cup {c} /\ c \notin F
    BY <1>3
  <2> QED BY <1>1, <2>1, FS_AddElement
<1>4. ASSUME f[c] = "count", g[c] # "count"
      PROVE Cardinality(G) = Cardinality(F) - 1 /\ Cardinality(F) >= 1
  <2>1. F = G \cup {c} /\ c \notin G
    BY <1>4
  <2>2. Cardinality(F) = Cardinality(G) + 1
    BY <1>1, <2>1, FS_AddElement
  <2> QED BY <1>2, <2>2
<1>5. ASSUME f[c] # "count", g[c] # "count" PROVE G = F
  BY <1>5
<1>6. Counting(f) = Cardinality(F) /\ Counting(g) = Cardinality(G)
  BY DEF Counting
<1> HIDE DEF F, G
<1> QED BY <1>2, <1>3, <1>4, <1>5, <1>6

LEMMA NobodyCounts ==
    ASSUME NEW f, \A c \in Channels : f[c] # "count"
    PROVE  Counting(f) = 0
<1>1. {c \in Channels : f[c] = "count"} = {}
  OBVIOUS
<1> QED BY <1>1, FS_EmptySet DEF Counting

LEMMA CountingStands ==
    ASSUME NEW f, NEW g, \A c \in Channels : g[c] = "count" <=> f[c] = "count"
    PROVE  Counting(g) = Counting(f)
<1>1. {c \in Channels : g[c] = "count"} = {c \in Channels : f[c] = "count"}
  OBVIOUS
<1> QED BY <1>1 DEF Counting

LEMMA NothingHeld ==
    ASSUME NEW f, \A c \in Channels : f[c] = None
    PROVE  HeldCount(f) = 0
<1>1. Held(f) = {}
  BY DEF Held
<1> QED BY <1>1, FS_EmptySet DEF HeldCount

LEMMA ProgressedInit == Init => Progressed
<1> SUFFICES ASSUME Init PROVE Progressed
  OBVIOUS
<1>1. Len(queue) = Size /\ Size \in Nat
  BY InOrderFacts, LaunchFacts, DataPlaneAssumption DEF Init
<1>2. HeldCount(hold) = 0 /\ HeldCount(ahead) = 0
  BY NothingHeld DEF Init
<1>3. Counting(spc) = 0
  BY NobodyCounts DEF Init
<1> QED BY <1>1, <1>2, <1>3 DEF Init, Progressed

LEMMA ProgressedNext ==
    ASSUME IInv, Progressed, Next
    PROVE  Progressed'
<1> USE DEF Move, source, sending, wire, data, stored, waiting, control, bounds
<1>q. /\ Types /\ SenderTypes /\ Places /\ SenderPlaces /\ Finished /\ Within(Way, Missing)
      /\ Size \in Nat /\ sent \in Nat /\ sent <= Size /\ Len(queue) \in Nat
  BY DataPlaneAssumption DEF IInv, Ends, Types, Places, WayInv, SenderTypes
<1>n. HeldCount(hold) \in Nat /\ HeldCount(ahead) \in Nat
  <2>1. 1 \in Channels
    BY InTurnTypes, <1>q
  <2> QED BY <2>1, HeldFacts DEF HeldCount
<1>c. Counting(spc) \in Nat
  <2>1. 1 \in Channels
    BY InTurnTypes, <1>q
  <2> QED BY <2>1, CountingFacts
<1>s. ASSUME NEW c \in Channels,
             \/ SConnect(c) \/ TakeAhead(c) \/ TakeQueued(c) \/ Shut(c) \/ Peek(c) \/ ReadAhead(c)
             \/ IoFails(c) \/ ChannelFails(c)
      PROVE Counting(spc') = Counting(spc)
  <2>1. \A d \in Channels : spc'[d] = "count" <=> spc[d] = "count"
    BY <1>q, <1>s DEF SConnect, TakeAhead, TakeQueued, Shut, Peek, ReadAhead, IoFails,
       ChannelFails, Fails, SenderTypes
  <2> QED BY <2>1, CountingStands
<1>d. ASSUME handler = "done"
      PROVE  Len(queue) = 0 /\ \A c \in Channels : hold[c] = None /\ ahead[c] = None
  <2>1. Missing = {}
    BY <1>d, <1>q DEF Finished
  <2>2. \A s \in Station : Len(Way[s]) = 0
    <3>1. \A s \in Station : Way[s] \in Seq(Chunks)
      <4>1. Way = WayOf(queue, hold, ahead, link, got)
        BY DEF Way, WayOf, Indices
      <4>2. /\ queue \in Seq(Chunks) /\ hold \in [Channels -> Job] /\ ahead \in [Channels -> Job]
            /\ link \in [Channels -> Seq(Full)] /\ got \in [Channels -> Job]
        BY <1>q, Jobs DEF Types, SenderTypes, PathTypes
      <4> QED BY <4>1, <4>2, WayTypes
    <3>2. \A s \in Station : ~(1 \in 1..Len(Way[s]))
      BY <1>q, <2>1 DEF Within
    <3> QED BY <3>1, <3>2
  <2>3. Len(queue) = 0
    BY <2>2, StationCases, WayHere DEF Here
  <2>4. ASSUME NEW c \in Channels PROVE hold[c] = None /\ ahead[c] = None
    <3>1. hold[c] \in Job /\ ahead[c] \in Job
      BY <1>q, Jobs DEF SenderTypes
    <3>2. Len(IndexOf(hold[c])) = 0 /\ Len(IndexOf(ahead[c])) = 0
      <4>1. <<"hold", c>> \in Station /\ <<"ahead", c>> \in Station
        BY StationCases
      <4>2. Len(Way[<<"hold", c>>]) = 0 /\ Len(Way[<<"ahead", c>>]) = 0
        BY <2>2, <4>1
      <4>3. Way[<<"hold", c>>] = IndexOf(hold[c]) /\ Way[<<"ahead", c>>] = IndexOf(ahead[c])
        BY WayHere DEF Here
      <4> QED BY <4>2, <4>3
    <3> QED BY <3>1, <3>2, Single
  <2> QED BY <2>3, <2>4
<1>1. ASSUME NEW c \in Channels, TakeAhead(c) PROVE Progressed'
  <2>1. /\ ahead[c] # None /\ hold[c] = None /\ hold'[c] = ahead[c] /\ ahead'[c] = None
        /\ \A d \in Channels : d # c => hold'[d] = hold[d] /\ ahead'[d] = ahead[d]
        /\ UNCHANGED <<queue, sent, task>>
    BY <1>q, <1>1 DEF TakeAhead, SenderTypes, SenderPlaces
  <2>2. HeldCount(hold') = HeldCount(hold) + 1 /\ HeldCount(ahead') = HeldCount(ahead) - 1
    BY <2>1, HeldFacts DEF HeldCount
  <2>3. Counting(spc') = Counting(spc) /\ HeldCount(ahead) >= 1
    BY <1>1, <1>s, <2>1, HeldFacts DEF HeldCount
  <2> QED BY <1>q, <1>n, <1>c, <2>1, <2>2, <2>3 DEF Progressed
<1>2. ASSUME NEW c \in Channels, TakeQueued(c) PROVE Progressed'
  <2>1. /\ hold[c] = None /\ queue # <<>> /\ queue' = Tail(queue)
        /\ hold'[c] = <<Head(queue), Content(Head(queue))>>
        /\ \A d \in Channels : d # c => hold'[d] = hold[d]
        /\ UNCHANGED <<ahead, sent, task>>
    BY <1>q, <1>2 DEF TakeQueued, SenderTypes, SenderPlaces
  <2>2. Len(queue') = Len(queue) - 1 /\ hold'[c] # None
    <3>1. Head(queue) # 0
      BY <1>q, <2>1, QueueFacts DEF Chunks
    <3> QED BY <1>q, <2>1, <3>1, QueueFacts DEF None
  <2>3. HeldCount(hold') = HeldCount(hold) + 1
    BY <2>1, <2>2, HeldFacts DEF HeldCount
  <2>4. sent' = sent /\ task' = task /\ HeldCount(ahead') = HeldCount(ahead)
    BY <2>1
  <2>5. HeldCount(hold) \in Nat /\ HeldCount(ahead) \in Nat /\ Counting(spc') = Counting(spc)
    BY <1>n, <1>2, <1>s
  <2> QED BY <1>q, <1>c, <2>2, <2>3, <2>4, <2>5 DEF Progressed
<1>3. ASSUME NEW c \in Channels, Peek(c), queue # <<>> PROVE Progressed'
  <2>1. /\ ahead[c] = None /\ queue' = Tail(queue)
        /\ ahead'[c] = <<Head(queue), IF "source" \in sequential THEN 0 ELSE Head(queue)>>
        /\ \A d \in Channels : d # c => ahead'[d] = ahead[d]
        /\ UNCHANGED <<hold, sent, task>>
    BY <1>q, <1>3 DEF Peek, SenderTypes, SenderPlaces
  <2>2. Len(queue') = Len(queue) - 1 /\ ahead'[c] # None
    <3>1. Head(queue) # 0
      BY <1>q, <1>3, QueueFacts DEF Chunks
    <3> QED BY <1>q, <1>3, <2>1, <3>1, QueueFacts DEF None
  <2>3. HeldCount(ahead') = HeldCount(ahead) + 1
    BY <2>1, <2>2, HeldFacts DEF HeldCount
  <2>4. sent' = sent /\ task' = task /\ HeldCount(hold') = HeldCount(hold)
    BY <2>1
  <2>5. HeldCount(hold) \in Nat /\ HeldCount(ahead) \in Nat /\ Counting(spc') = Counting(spc)
    BY <1>n, <1>3, <1>s
  <2>6. sent' + Counting(spc') + Len(queue') + HeldCount(hold') + HeldCount(ahead')
          = sent + Counting(spc) + Len(queue) + HeldCount(hold) + HeldCount(ahead)
    BY <1>q, <1>c, <2>2, <2>3, <2>4, <2>5
  <2>7. sent' + Counting(spc') = sent + Counting(spc) /\ task' = task
    BY <2>4, <2>5
  <2> QED BY <2>6, <2>7 DEF Progressed
<1>4. ASSUME NEW c \in Channels, ReadAhead(c) PROVE Progressed'
  <2>1. ahead[c] # None /\ ahead[c] = <<ahead[c][1], ahead[c][2]>> /\ ahead[c][1] # 0
    BY <1>q, <1>4, Jobs DEF ReadAhead, SenderTypes, Chunks
  <2>2. /\ ahead'[c] = [ahead[c] EXCEPT ![2] = Content(ahead[c][1])]
        /\ \A d \in Channels : d # c => ahead'[d] = ahead[d]
        /\ UNCHANGED <<hold, sent, task, queue>>
    BY <1>q, <1>4 DEF ReadAhead, SenderTypes
  <2>3. ahead'[c] = <<ahead[c][1], Content(ahead[c][1])>>
    BY <2>1, <2>2
  <2>4. ahead'[c] # None
    BY <2>1, <2>3 DEF None
  <2>5. HeldCount(ahead') = HeldCount(ahead)
    BY <2>1, <2>2, <2>4, HeldFacts DEF HeldCount
  <2>6. Counting(spc') = Counting(spc)
    BY <1>4, <1>s
  <2> QED BY <2>2, <2>5, <2>6 DEF Progressed
<1>5. ASSUME NEW c \in Channels, SendChunk(c) PROVE Progressed'
  <2>1. /\ hold[c] # None /\ hold'[c] = None /\ \A d \in Channels : d # c => hold'[d] = hold[d]
        /\ spc[c] # "count" /\ spc'[c] = "count" /\ \A d \in Channels : d # c => spc'[d] = spc[d]
        /\ UNCHANGED <<queue, ahead, task, sent>>
    BY <1>q, <1>5 DEF SendChunk, SenderTypes, SenderPlaces
  <2>2. HeldCount(hold') = HeldCount(hold) - 1 /\ Counting(spc') = Counting(spc) + 1
    BY <2>1, HeldFacts, CountingFacts DEF HeldCount
  <2>3. HeldCount(ahead') = HeldCount(ahead)
    BY <2>1
  <2>4. task # "completed"
    BY <1>q, <1>d, <2>1 DEF Finished
  <2> QED BY <1>q, <1>n, <1>c, <2>1, <2>2, <2>3, <2>4 DEF Progressed
<1>14. ASSUME NEW c \in Channels, CountSent(c) PROVE Progressed'
  <2>1. /\ spc[c] = "count" /\ spc'[c] # "count" /\ \A d \in Channels : d # c => spc'[d] = spc[d]
        /\ UNCHANGED <<queue, hold, ahead, task>> /\ sent' = Least(sent + 1, Size)
    BY <1>q, <1>14 DEF CountSent, SenderTypes
  <2>2. Counting(spc') = Counting(spc) - 1 /\ Counting(spc) >= 1
    BY <2>1, CountingFacts
  <2>3. HeldCount(hold') = HeldCount(hold) /\ HeldCount(ahead') = HeldCount(ahead)
    BY <2>1
  <2>4. CASE task \in {"streaming", "completed"}
    <3>1. sent + 1 <= Size
      BY <1>q, <1>n, <1>c, <2>2, <2>4 DEF Progressed
    <3>2. sent' = sent + 1
      BY <1>q, <2>1, <3>1 DEF Least
    <3>3. /\ sent' + Counting(spc') = sent + Counting(spc)
          /\ Len(queue') = Len(queue) /\ task' = task
      BY <1>q, <1>c, <2>1, <2>2, <3>2
    <3> QED BY <2>3, <3>3 DEF Progressed
  <2>5. CASE task = "failed"
    BY <2>1, <2>5 DEF Progressed
  <2> QED BY <1>q, <2>4, <2>5 DEF SenderTypes
<1>6. ASSUME Retry PROVE Progressed'
  <2> DEFINE S == Chunks \ marked'
  <2>1. /\ S \in SUBSET Chunks /\ queue' = InOrder(S) /\ sent' = Progress(S) /\ task' = "streaming"
        /\ \A c \in Channels : hold'[c] = None /\ ahead'[c] = None
    BY <1>6 DEF Retry, Launch
  <2> HIDE DEF S
  <2>2. Len(queue') = Cardinality(S) /\ Cardinality(S) \in 0..Size
    BY <2>1, InOrderFacts, LaunchFacts
  <2>3. HeldCount(hold') = 0 /\ HeldCount(ahead') = 0
    BY <2>1, NothingHeld
  <2>4. sent' + Len(queue') = Size
    BY <1>q, <2>1, <2>2 DEF Progress
  <2>6. Counting(spc') = 0
    BY <1>6, NobodyCounts DEF Retry, Launch
  <2>5. sent' + 0 + Len(queue') + 0 + 0 = Size
    BY <1>q, <2>1, <2>2, <2>4 DEF Progress
  <2> QED BY <2>1, <2>3, <2>5, <2>6 DEF Progressed
<1>7. ASSUME handler = "done", task = "streaming" PROVE sent + Counting(spc) = Size
  <2>1. HeldCount(hold) = 0 /\ HeldCount(ahead) = 0
    BY <1>7, <1>d, NothingHeld
  <2> QED BY <1>7, <1>q, <1>c, <1>d, <2>1 DEF Progressed
<1>8. ASSUME TaskStep \/ TaskStops PROVE Progressed'
  <2>1. CASE TaskFails
    BY <2>1 DEF TaskFails, Progressed
  <2>2. CASE ~TaskFails
    <3>1. /\ handler = "done" /\ task = "streaming" /\ task' = "completed"
          /\ sent' = sent /\ spc' = spc
      BY <1>8, <2>2 DEF TaskStep, TaskStops, SeesChannelFail, SeesReceiverFail, ResultArrives
    <3> QED BY <1>7, <3>1 DEF Progressed
  <2> QED BY <2>1, <2>2
<1>9. ASSUME UNCHANGED <<queue, hold, ahead, sent, task>>, Counting(spc') = Counting(spc)
      PROVE Progressed'
  BY <1>9 DEF Progressed
<1>10. ASSUME NEW c \in Channels,
              \/ SConnect(c) \/ Shut(c) \/ (Peek(c) /\ queue = <<>>) \/ IoFails(c) \/ ChannelFails(c)
       PROVE Progressed'
  <2>1. UNCHANGED <<queue, hold, ahead, sent, task>>
    BY <1>10 DEF SConnect, Shut, Peek, IoFails, ChannelFails, Fails
  <2> QED BY <1>9, <1>10, <1>s, <2>1
<1>15. ASSUME NEW c \in Channels,
              ReceiverStep(c) \/ NapStep(c) \/ ChannelBreaks(c) \/ CutData(c)
       PROVE Progressed'
  <2>1. UNCHANGED <<queue, hold, ahead, sent, task, spc>>
    BY <1>15 DEF ReceiverStep, ReceiverPasses, Accept, ReadHeader, WriteChunk, ChannelEnds, Settle,
       NapStep, FindPaused, FallAsleep, ChannelBreaks, CutData
  <2> QED BY <1>9, <2>1
<1>11. ASSUME LoopStep \/ Turn \/ \E s \in Side : Pause(s) \/ Resume(s)
       PROVE Progressed'
  <2>1. UNCHANGED <<queue, hold, ahead, sent, task, spc>>
    BY <1>11 DEF LoopStep, Check, Arm, Woken, GiveUp, Turn, Pause, Resume
  <2> QED BY <1>9, <2>1
<1> QED BY <1>1, <1>2, <1>3, <1>4, <1>5, <1>6, <1>8, <1>10, <1>11, <1>14, <1>15 DEF Next, SenderStep

(* The progress the sender shows is what it has written, over any number   *)
(* of attempts, short of the chunk each channel is about to count; at the  *)
(* end, when the result may have overtaken those, nothing else is short.   *)
THEOREM ProgressIsHonest == Spec => []ProgressHonest
<1>1. IInv /\ Progressed /\ [Next]_vars => Progressed'
  <2> SUFFICES ASSUME IInv, Progressed, [Next]_vars PROVE Progressed'
    OBVIOUS
  <2>1. CASE Next
    BY <2>1, ProgressedNext
  <2>2. CASE UNCHANGED vars
    BY <2>2 DEF vars, sending, Progressed
  <2> QED BY <2>1, <2>2
<1>2. Progressed => ProgressHonest
  BY DEF Progressed, HeldCount, Counting, Uncounted, ProgressHonest
<1> QED BY <1>1, <1>2, ProgressedInit, IInvAlways, PTL DEF Spec

-----------------------------------------------------------------------------
(* The data plane implements Delivery.                                     *)

(* What Delivery sees of a state.                                          *)
Lacking == {k \in Chunks : k \notin marked \/ ("source" \notin sequential /\ file[k] # k)}

Phase == CASE task = "streaming" -> "moving"
           [] task = "failed"    -> "broken"
           [] task = "completed" -> "whole"

LEMMA PhaseFacts ==
    /\ task = "streaming" => Phase = "moving"
    /\ task = "failed" => Phase = "broken"
    /\ task = "completed" => Phase = "whole"
    /\ task' = "streaming" => Phase' = "moving"
    /\ task' = "failed" => Phase' = "broken"
    /\ task' = "completed" => Phase' = "whole"
  BY DEF Phase

(* A transfer the sender calls completed has every chunk as it was in the  *)
(* source, whatever breaks and is tried again: what is in the resume map   *)
(* is right on the disk, and the good result comes only when it is full.   *)
THEOREM DataPlaneDelivers == Spec => DeliveryPromised
<1>1. Init => Promise!Init
  <2> SUFFICES ASSUME Init PROVE Promise!Init
    OBVIOUS
  <2>1. Phase = "moving"
    BY PhaseFacts DEF Init
  <2> QED BY <2>1 DEF Promise!Init, Phase, Lacking
<1>2. ASSUME IInv, IInv', [Next]_vars PROVE [Promise!Next]_(Promise!vars)
  <2> USE DEF source, sending, wire, data, stored, waiting, control, bounds
  <2>0. Lacking = Missing /\ Lacking' = Missing'
    BY <1>2 DEF IInv, Right, FileRight, Lacking, Missing
  <2>v. Promise!vars = <<Lacking, Phase>> /\ (Promise!vars)' = <<Lacking', Phase'>>
    BY DEF Promise!vars, Lacking, Phase
  <2>t. Types /\ Places /\ Finished /\ task \in {"streaming", "completed", "failed"}
    BY <1>2 DEF IInv, Ends, Types, SenderTypes
  <2>s. ASSUME Missing' = Missing, task' = task PROVE UNCHANGED Promise!vars
    <3>1. Phase' = Phase
      BY <2>s DEF Phase
    <3> QED BY <2>0, <2>v, <2>s, <3>1
  <2>1. ASSUME NEW c \in Channels, WriteChunk(c) PROVE [Promise!Next]_(Promise!vars)
    <3> DEFINE k == got[c][1]
    <3>1. marked' = marked \cup {k} /\ task' = task /\ Missing' = Missing \ {k}
      BY <2>1 DEF WriteChunk, Missing
    <3>2. CASE k \notin Missing
      BY <3>1, <3>2, <2>s
    <3>3. CASE k \in Missing
      <4>1. Phase' = Phase /\ k \in Chunks
        BY <3>1, <3>3 DEF Phase, Missing
      <4>2. k \in Lacking /\ Lacking' = Lacking \ {k}
        BY <2>0, <3>1, <3>3
      <4> HIDE DEF k
      <4>3. \E n \in Chunks : n \in Lacking /\ Lacking' = Lacking \ {n} /\ Phase' = Phase
        BY <4>1, <4>2
      <4>4. (\E n \in Chunks : Promise!Arrive(n)) => Promise!Next
        BY DEF Promise!Next
      <4>5. ASSUME NEW n \in Chunks, n \in Lacking, Lacking' = Lacking \ {n}, Phase' = Phase
            PROVE Promise!Arrive(n)
        BY <4>5 DEF Promise!Arrive, Lacking, Phase
      <4> QED BY <4>3, <4>4, <4>5
    <3> QED BY <3>2, <3>3
  <2>2. ASSUME TaskFails PROVE [Promise!Next]_(Promise!vars)
    <3>1. task = "streaming" /\ task' = "failed" /\ Missing' = Missing
      BY <2>2 DEF TaskFails, Missing
    <3>2. Phase = "moving" /\ Phase' = "broken"
      BY <3>1, PhaseFacts
    <3>3. Promise!Break
      BY <2>0, <3>1, <3>2 DEF Promise!Break, Lacking, Phase
    <3> QED BY <3>3 DEF Promise!Next
  <2>3. ASSUME TaskStep \/ TaskStops PROVE [Promise!Next]_(Promise!vars)
    <3>1. CASE ~TaskFails
      <4>1. handler = "done" /\ task = "streaming" /\ task' = "completed" /\ Missing' = Missing
        BY <2>3, <3>1 DEF TaskStep, TaskStops, SeesChannelFail, SeesReceiverFail, ResultArrives, Missing
      <4>2. Phase = "moving" /\ Phase' = "whole" /\ Missing = {}
        BY <2>t, <4>1, PhaseFacts DEF Finished
      <4>3. Promise!Finish
        BY <2>0, <4>1, <4>2 DEF Promise!Finish, Lacking, Phase
      <4> QED BY <4>3 DEF Promise!Next
    <3> QED BY <2>2, <3>1
  <2>4. ASSUME Retry PROVE [Promise!Next]_(Promise!vars)
    <3>1. task = "failed" /\ task' = "streaming" /\ Missing' \in {Missing, Chunks}
      BY <2>4 DEF Retry, Launch, Missing
    <3>2. Phase = "broken" /\ Phase' = "moving"
      BY <3>1, PhaseFacts
    <3>3. Promise!Again
      BY <2>0, <3>1, <3>2 DEF Promise!Again, Lacking, Phase
    <3> QED BY <3>3 DEF Promise!Next
  <2>5. ASSUME NEW c \in Channels,
               \/ SenderStep(c) \/ ReceiverPasses(c) \/ Accept(c) \/ ReadHeader(c) \/ ChannelEnds(c)
               \/ Settle(c) \/ NapStep(c) \/ ChannelFails(c) \/ ChannelBreaks(c) \/ CutData(c)
        PROVE Missing' = Missing /\ task' = task
    BY <2>5 DEF Missing, SenderStep, SConnect, TakeAhead, TakeQueued, Shut, Peek, ReadAhead,
       SendChunk, CountSent, IoFails, ChannelFails, Fails, ReceiverPasses, Accept, ReadHeader, ChannelEnds,
       Settle, NapStep, FindPaused, FallAsleep, ChannelBreaks, CutData
  <2>6. ASSUME LoopStep \/ Turn \/ \E s \in Side : Pause(s) \/ Resume(s)
        PROVE Missing' = Missing /\ task' = task
    BY <2>6 DEF Missing, LoopStep, Check, Arm, Woken, GiveUp, Turn, Pause, Resume
  <2>7. CASE UNCHANGED vars
    BY <2>7, <2>s DEF vars, Missing
  <2> QED BY <1>2, <2>s, <2>1, <2>3, <2>4, <2>5, <2>6, <2>7 DEF Next, ReceiverStep
<1> QED BY <1>1, <1>2, IInvAlways, PTL DEF Spec, DeliveryPromised, Promise!Spec

(* Where every source can be read at any offset, a completed transfer has  *)
(* every part at its place; without that it need not: a piped source is    *)
(* read on from where it stands when a retry asks for a part.              *)
THEOREM CompletedWithRandomAccess ==
    ASSUME \A ends \in Kinds : "source" \notin ends
    PROVE  Spec => []CompletedTrue
<1>1. IInv => CompletedTrue
  <2> SUFFICES ASSUME IInv, task = "completed" PROVE \A k \in Chunks : file[k] = k
    BY DEF CompletedTrue
  <2>1. "source" \notin sequential /\ Missing = {}
    BY DEF IInv, Ends, Types, StoreTypes, Finished
  <2> QED BY <2>1 DEF IInv, Right, FileRight, Missing
<1> QED BY <1>1, IInvAlways, PTL
=============================================================================
