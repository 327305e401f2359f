--------------------------- MODULE HandshakeProofs ---------------------------
(***************************************************************************)
(* Proofs about Handshake for every set of devices and transfers and every *)
(* value of the bounds: the two devices keep the promise of Pairing, their *)
(* permits add up, and devices that found the same of each other do not    *)
(* wait for each other.                                                    *)
(***************************************************************************)
EXTENDS Handshake, FiniteSetTheorems, TLAPS

Has(w, m) == \E k \in 1..Len(w) : w[k] = m

(* What entitles the receiver to grant the session.                        *)
Grantable(s) ==
    \/ view[s]["receiver"] = "known" /\ said[s]["receiver"] # "refuse"
    \/ view[s]["receiver"] = "stranger" /\ Promise!Confirmed(s)

(* TypeOK, but for the upper bound of the permits, which needs             *)
(* PermitsShared.                                                          *)
LooseTypes ==
    /\ trusts \subseteq Device \X Device
    /\ view \in [Session -> [Side -> {"unmet", "known", "stranger"}]]
    /\ said \in [Session -> [Side -> Answer \cup {"silent"}]]
    /\ granted \subseteq Session /\ started \subseteq Session
    /\ spc \in [Session -> SenderPlace] /\ rpc \in [Session -> ReceiverPlace]
    /\ toReceiver \in [Session -> Seq(Message)] /\ toSender \in [Session -> Seq(Message)]
    /\ prompt \in [Transfers -> 0..MaxSessions]
    /\ record \in [Transfers -> TransferState \cup {NoRecord}]
    /\ free \in [Device -> Nat]
    /\ crashes \in 0..MaxCrashes

(* Where the sender stands tells what it has looked up and heard.          *)
SenderKnows(s) ==
    /\ spc[s] \in {"idle", "permit", "hello"} => view[s]["sender"] = "unmet"
    /\ spc[s] = "pairing" => view[s]["sender"] = "stranger" /\ said[s]["sender"] = "silent"
    /\ spc[s] = "confirm" => view[s]["sender"] = "stranger" /\ said[s]["sender"] # "silent"
    /\ spc[s] = "decision" =>
        /\ view[s]["sender"] # "unmet"
        /\ view[s]["sender"] = "stranger" =>
            Promise!Confirmed(s) /\ view[s]["receiver"] = "stranger"
    /\ view[s]["sender"] # "stranger" => said[s]["sender"] = "silent"

(* The same of the receiver.                                               *)
ReceiverKnows(s) ==
    /\ rpc[s] = "hello" => view[s]["receiver"] = "unmet" /\ said[s]["receiver"] = "silent"
    /\ rpc[s] \in {"offer", "answer"} =>
        view[s]["receiver"] # "unmet" /\ said[s]["receiver"] = "silent"
    /\ rpc[s] = "pairing" => view[s]["receiver"] = "stranger" /\ said[s]["receiver"] # "silent"
    /\ rpc[s] = "permit" => Grantable(s)
    /\ s \in granted => Grantable(s) /\ rpc[s] \in {"stream", "over"}

(* What is on the wire is true for as long as it is there.                 *)
WireTrue(s) ==
    /\ Has(toReceiver[s], "yes") => said[s]["sender"] \in Yes
    /\ Has(toSender[s], "yes") => Promise!Confirmed(s) /\ view[s]["receiver"] = "stranger"
    /\ Has(toSender[s], "grant") => s \in granted
    /\ ~Connected(s) => rpc[s] = "hello" /\ toReceiver[s] = <<>>

SessionInv(s) == SenderKnows(s) /\ ReceiverKnows(s) /\ WireTrue(s)

HandshakeInv == LooseTypes /\ \A s \in Session : SessionInv(s)

-----------------------------------------------------------------------------
(* Sessions, messages and records.                                         *)

LEMMA SessionParts ==
    ASSUME NEW s \in Session
    PROVE  /\ s[1] \in Transfers /\ s[2] \in 1..MaxSessions
           /\ From[s[1]] \in Device /\ To[s[1]] \in Device
           /\ DeviceOf[s]["sender"] = From[s[1]] /\ DeviceOf[s]["receiver"] = To[s[1]]
  BY HandshakeAssumption DEF Session, DeviceOf, Side

(* A queue loses its head and keeps the rest.                              *)
LEMMA RestHas ==
    ASSUME NEW w \in Seq(Message), w # <<>>
    PROVE  /\ Tail(w) \in Seq(Message) /\ Head(w) \in Message /\ Has(w, Head(w))
           /\ \A m \in Message : Has(Tail(w), m) => Has(w, m)
<1>1. Tail(w) \in Seq(Message) /\ Head(w) \in Message /\ Head(w) = w[1] /\ 1 \in 1..Len(w)
  OBVIOUS
<1>2. ASSUME NEW k \in 1..Len(Tail(w)) PROVE Tail(w)[k] = w[k + 1] /\ k + 1 \in 1..Len(w)
  BY <1>2
<1> QED
  BY <1>1, <1>2 DEF Has

(* A queue holds what it held and what was put.                            *)
LEMMA PutHas ==
    ASSUME NEW w \in Seq(Message), NEW v \in Seq(Message)
    PROVE  /\ w \o v \in Seq(Message)
           /\ \A m \in Message : Has(w \o v, m) => Has(w, m) \/ Has(v, m)
<1>1. w \o v \in Seq(Message) /\ Len(w \o v) = Len(w) + Len(v)
  OBVIOUS
<1>2. ASSUME NEW k \in 1..Len(w \o v)
      PROVE  \/ k \in 1..Len(w) /\ (w \o v)[k] = w[k]
             \/ k - Len(w) \in 1..Len(v) /\ (w \o v)[k] = v[k - Len(w)]
  BY <1>2
<1> QED
  BY <1>1, <1>2 DEF Has

LEMMA MessageNames ==
    /\ "hello" \in Message /\ "offer" \in Message /\ "yes" \in Message /\ "no" \in Message
    /\ "grant" \in Message /\ "deny" \in Message /\ "ok" \in Message /\ "failed" \in Message
  BY DEF Message

LEMMA EmptyHas == \A n \in Message : ~Has(<<>>, n)
<1>1. 1..Len(<<>>) = {}
  OBVIOUS
<1> QED BY <1>1 DEF Has

LEMMA PutOne ==
    ASSUME NEW w \in Seq(Message), NEW m \in Message
    PROVE  /\ w \o <<m>> \in Seq(Message)
           /\ \A n \in Message : Has(w \o <<m>>, n) => Has(w, n) \/ n = m
<1>1. <<m>> \in Seq(Message) /\ 1..Len(<<m>>) = {1} /\ <<m>>[1] = m
  OBVIOUS
<1>2. \A n \in Message : Has(<<m>>, n) => n = m
  BY <1>1 DEF Has
<1> QED BY <1>1, <1>2, PutHas

(* What a connection holds after one side has read, or written.            *)
LEMMA Reading ==
    ASSUME HandshakeInv, NEW s \in Session
    PROVE  /\ toReceiver[s] # <<>> =>
                /\ Tail(toReceiver[s]) \in Seq(Message) /\ Head(toReceiver[s]) \in Message
                /\ Has(toReceiver[s], Head(toReceiver[s]))
                /\ \A m \in Message : Has(Tail(toReceiver[s]), m) => Has(toReceiver[s], m)
           /\ toSender[s] # <<>> =>
                /\ Tail(toSender[s]) \in Seq(Message) /\ Head(toSender[s]) \in Message
                /\ Has(toSender[s], Head(toSender[s]))
                /\ \A m \in Message : Has(Tail(toSender[s]), m) => Has(toSender[s], m)
<1>1. toReceiver[s] \in Seq(Message) /\ toSender[s] \in Seq(Message)
  BY DEF HandshakeInv, LooseTypes
<1> QED BY <1>1, RestHas

LEMMA Writing ==
    ASSUME HandshakeInv, NEW s \in Session, NEW m \in Message
    PROVE  /\ toReceiver[s] \o <<m>> \in Seq(Message)
           /\ \A n \in Message : Has(toReceiver[s] \o <<m>>, n) => Has(toReceiver[s], n) \/ n = m
           /\ toSender[s] \o <<m>> \in Seq(Message)
           /\ \A n \in Message : Has(toSender[s] \o <<m>>, n) => Has(toSender[s], n) \/ n = m
<1>1. toReceiver[s] \in Seq(Message) /\ toSender[s] \in Seq(Message)
  BY DEF HandshakeInv, LooseTypes
<1> QED BY <1>1, PutOne

LEMMA Refusing ==
    ASSUME HandshakeInv, NEW s \in Session
    PROVE  /\ toSender[s] \o <<"no", "deny">> \in Seq(Message)
           /\ \A n \in Message : Has(toSender[s] \o <<"no", "deny">>, n) =>
                Has(toSender[s], n) \/ n \in {"no", "deny"}
<1>1. toSender[s] \in Seq(Message)
  BY DEF HandshakeInv, LooseTypes
<1>2. <<"no", "deny">> \in Seq(Message)
  BY MessageNames
<1>3. ASSUME NEW n \in Message, Has(<<"no", "deny">>, n) PROVE n \in {"no", "deny"}
  <2>1. 1..Len(<<"no", "deny">>) = {1, 2}
    OBVIOUS
  <2> QED BY <1>3, <2>1 DEF Has
<1> QED BY <1>1, <1>2, <1>3, PutHas

(* Whatever ends a handler leaves a state of the lifecycle.                *)
LEMMA OutcomeTypes ==
    /\ \A state \in TransferState, outcome \in Outcome : AfterOutcome(state, outcome) \in TransferState
    /\ \A state \in TransferState : Restored(state) \in TransferState
    /\ CommandTarget["Cancel"] = "Cancelled"
  BY DEF AfterOutcome, Restored, TransferState, Outcome, Terminal, CommandTarget, TransferCommand

LEMMA PermitTypes ==
    ASSUME HandshakeInv, NEW d \in Device, Release(d) \/ Acquire(d) \/ UNCHANGED free
    PROVE  free' \in [Device -> Nat]
<1>1. free \in [Device -> Nat] /\ free[d] + 1 \in Nat /\ (free[d] > 0 => free[d] - 1 \in Nat)
  BY DEF HandshakeInv, LooseTypes
<1> QED BY <1>1 DEF Release, Acquire

LEMMA EndTypes ==
    ASSUME HandshakeInv, NEW s \in Session, NEW outcome \in Outcome, ReceiverEnds(s, outcome)
    PROVE  /\ record' \in [Transfers -> TransferState \cup {NoRecord}]
           /\ rpc' \in [Session -> ReceiverPlace] /\ rpc' = [rpc EXCEPT ![s] = "over"]
<1>1. s[1] \in Transfers /\ record[s[1]] \in TransferState \cup {NoRecord}
  BY SessionParts DEF HandshakeInv, LooseTypes
<1>2. record[s[1]] # NoRecord => AfterOutcome(record[s[1]], outcome) \in TransferState
  BY <1>1, OutcomeTypes
<1> QED BY <1>1, <1>2 DEF HandshakeInv, LooseTypes, ReceiverEnds, ReceiverPlace

LEMMA StateNames ==
    /\ {"Pairing", "WaitingForAcceptance", "Transferring", "Completed", "Cancelled"} \subseteq TransferState
    /\ {"retryable", "fatal"} \subseteq Outcome /\ "fatal" \in Outcome
  BY DEF TransferState, Outcome

LEMMA WireTypes ==
    ASSUME HandshakeInv, NEW s \in Session
    PROVE  /\ toSender[s] # <<>> => Rest(toSender, s) \in [Session -> Seq(Message)]
           /\ toReceiver[s] # <<>> => Rest(toReceiver, s) \in [Session -> Seq(Message)]
  BY Reading DEF HandshakeInv, LooseTypes, Rest

(* Trust is only ever stored in the peer of the session.                   *)
LEMMA TrustTypes ==
    ASSUME NEW s \in Session, NEW i \in Side, trusts \subseteq Device \X Device,
           NEW agreed \in BOOLEAN, TrustIf(s, i, agreed)
    PROVE  trusts' \subseteq Device \X Device
<1>1. Promise!Trust(s, i) \in Device \X Device
  BY SessionParts DEF Promise!Trust, Promise!Other, Side
<1> QED BY <1>1 DEF TrustIf

-----------------------------------------------------------------------------
(* One session at a time.                                                  *)

Same(r) ==
    /\ view'[r] = view[r] /\ said'[r] = said[r] /\ (r \in granted' <=> r \in granted)
    /\ spc'[r] = spc[r] /\ rpc'[r] = rpc[r]
    /\ toReceiver'[r] = toReceiver[r] /\ toSender'[r] = toSender[r]

LEMMA SameKeeps ==
    ASSUME NEW r \in Session, Same(r), SessionInv(r)
    PROVE  SessionInv(r)'
  BY DEF Same, SessionInv, SenderKnows, ReceiverKnows, WireTrue, Grantable, Connected,
         Promise!Confirmed

(* A step of one session must only keep what is known of that session.     *)
LEMMA OneSession ==
    ASSUME HandshakeInv, NEW s \in Session, LooseTypes', SessionInv(s)',
           \A r \in Session \ {s} : Same(r)
    PROVE  HandshakeInv'
  BY SameKeeps DEF HandshakeInv

(* The steps of a session that the promise knows.                          *)
LEMMA Promised ==
    ASSUME NEW s \in Session
    PROVE  /\ \A i \in Side : Promise!Meet(s, i) \/ Promise!Remember(s, i) => Promise!PairingNext
           /\ \A i \in Side, a \in Answer : Promise!Say(s, i, a) => Promise!PairingNext
           /\ Promise!Grant(s) \/ Promise!Start(s) => Promise!PairingNext
           /\ "sender" \in Side /\ "receiver" \in Side
  BY DEF Promise!PairingNext, Promise!Side, Side, Promise!Answer, Promise!Yes, Answer, Yes

Step == HandshakeInv' /\ [Promise!PairingNext]_(Promise!pairingVars)

-----------------------------------------------------------------------------
(* The steps of the sender.                                                *)

LEMMA SendStep ==
    ASSUME HandshakeInv, NEW s \in Session, Send(s)
    PROVE  Step
<1>1. LooseTypes'
  BY SessionParts DEF HandshakeInv, LooseTypes, Send, pairing,
         SenderPlace, ReceiverPlace
<1>2. \A r \in Session \ {s} : Same(r)
  BY SessionParts DEF HandshakeInv, LooseTypes, Same, Send, pairing
<1>3. SessionInv(s)'
  BY EmptyHas, MessageNames DEF HandshakeInv, LooseTypes, Send, pairing,
         Side, Yes, Answer, SessionInv, SenderKnows, ReceiverKnows, WireTrue,
         Grantable, Connected, Promise!Confirmed, Promise!Side, Promise!Yes
<1>4. UNCHANGED Promise!pairingVars
  BY DEF Send, pairing, Promise!pairingVars
<1> QED BY <1>1, <1>2, <1>3, <1>4, OneSession, Promised DEF Step

LEMMA ConnectStep ==
    ASSUME HandshakeInv, NEW s \in Session, Connect(s)
    PROVE  Step
<1>b. /\ toReceiver[s] \o <<"hello">> \in Seq(Message)
      /\ \A n \in Message : Has(toReceiver[s] \o <<"hello">>, n) => Has(toReceiver[s], n) \/ n = "hello"
  BY Writing, MessageNames
<1>1. LooseTypes'
  BY <1>b, SessionParts DEF HandshakeInv, LooseTypes, Connect, Acquire, Put, pairing,
         SenderPlace, ReceiverPlace
<1>2. \A r \in Session \ {s} : Same(r)
  BY SessionParts DEF HandshakeInv, LooseTypes, Same, Connect, Acquire, Put, pairing
<1>3. SessionInv(s)'
  BY <1>b, EmptyHas, MessageNames DEF HandshakeInv, LooseTypes, Connect, Acquire, Put, pairing,
         Side, Yes, Answer, SessionInv, SenderKnows, ReceiverKnows, WireTrue,
         Grantable, Connected, Promise!Confirmed, Promise!Side, Promise!Yes
<1>4. UNCHANGED Promise!pairingVars
  BY DEF Connect, Acquire, Put, pairing, Promise!pairingVars
<1> QED BY <1>1, <1>2, <1>3, <1>4, OneSession, Promised DEF Step

LEMMA SenderHelloStep ==
    ASSUME HandshakeInv, NEW s \in Session, SenderHello(s)
    PROVE  Step
<1>a. /\ Tail(toSender[s]) \in Seq(Message) /\ Head(toSender[s]) \in Message
      /\ Has(toSender[s], Head(toSender[s]))
      /\ \A m \in Message : Has(Tail(toSender[s]), m) => Has(toSender[s], m)
  BY Reading DEF SenderHello
<1>b. /\ toReceiver[s] \o <<"offer">> \in Seq(Message)
      /\ \A n \in Message : Has(toReceiver[s] \o <<"offer">>, n) => Has(toReceiver[s], n) \/ n = "offer"
  BY Writing, MessageNames
<1>1. LooseTypes'
  BY <1>a, <1>b, SessionParts DEF HandshakeInv, LooseTypes, SenderHello, Rest, Put, Meet, pairing,
         SenderPlace, ReceiverPlace
<1>2. \A r \in Session \ {s} : Same(r)
  BY SessionParts DEF HandshakeInv, LooseTypes, Same, SenderHello, Rest, Put, Meet, pairing
<1>3. SessionInv(s)'
  BY <1>a, <1>b, EmptyHas, MessageNames DEF HandshakeInv, LooseTypes, SenderHello, Rest, Put, Meet, pairing,
         Side, Yes, Answer, SessionInv, SenderKnows, ReceiverKnows, WireTrue,
         Grantable, Connected, Promise!Confirmed, Promise!Side, Promise!Yes
<1>4. Promise!Meet(s, "sender")
  BY DEF HandshakeInv, LooseTypes, SessionInv, SenderKnows, SenderHello, Meet, Promise!Meet
<1> QED BY <1>1, <1>2, <1>3, <1>4, OneSession, Promised DEF Step

LEMMA SenderAnswerStep ==
    ASSUME HandshakeInv, NEW s \in Session, NEW a \in Answer, SenderAnswer(s, a)
    PROVE  Step
<1>c. PICK m \in {"yes", "no"} :
        /\ a \in Yes <=> m = "yes"
        /\ toReceiver' = Put(toReceiver, s, <<m>>)
  BY DEF SenderAnswer
<1>b. /\ m \in Message /\ toReceiver[s] \o <<m>> \in Seq(Message)
      /\ \A n \in Message : Has(toReceiver[s] \o <<m>>, n) => Has(toReceiver[s], n) \/ n = m
  BY Writing, MessageNames
<1>d. /\ spc[s] = "pairing" /\ spc' = [spc EXCEPT ![s] = "confirm"]
      /\ said' = [said EXCEPT ![s]["sender"] = a]
      /\ UNCHANGED <<trusts, view, granted, started, rpc, toSender, prompt, record, free, crashes>>
  BY DEF SenderAnswer
<1>1. LooseTypes'
  BY SessionParts, <1>b, <1>c, <1>d DEF HandshakeInv, LooseTypes, Put, Side, pairing,
         SenderPlace, ReceiverPlace
<1>2. \A r \in Session \ {s} : Same(r)
  BY SessionParts DEF HandshakeInv, LooseTypes, Same, SenderAnswer, Put, Side, pairing
<1>3. SessionInv(s)'
  BY EmptyHas, MessageNames, <1>b, <1>c, <1>d DEF HandshakeInv, LooseTypes, Put, Side, pairing,
         Side, Yes, Answer, SessionInv, SenderKnows, ReceiverKnows, WireTrue,
         Grantable, Connected, Promise!Confirmed, Promise!Side, Promise!Yes
<1>4. Promise!Say(s, "sender", a)
  BY DEF HandshakeInv, LooseTypes, SessionInv, SenderKnows, SenderAnswer, Promise!Say
<1> QED BY <1>1, <1>2, <1>3, <1>4, OneSession, Promised DEF Step

LEMMA SenderConfirmStep ==
    ASSUME HandshakeInv, NEW s \in Session, SenderConfirm(s)
    PROVE  Step
<1> DEFINE agreed == Head(toSender[s]) = "yes" /\ said[s]["sender"] \in Yes
<1>a. /\ Tail(toSender[s]) \in Seq(Message) /\ Head(toSender[s]) \in Message
      /\ Has(toSender[s], Head(toSender[s]))
      /\ \A m \in Message : Has(Tail(toSender[s]), m) => Has(toSender[s], m)
  BY Reading DEF SenderConfirm
<1>b. /\ spc[s] = "confirm" /\ toSender' = Rest(toSender, s) /\ TrustIf(s, "sender", agreed)
      /\ UNCHANGED <<view, said, granted, started, rpc, toReceiver, prompt, record, crashes>>
      /\ \/ agreed /\ spc' = [spc EXCEPT ![s] = "decision"] /\ UNCHANGED free
         \/ spc' = [spc EXCEPT ![s] = "over"] /\ Release(From[s[1]])
  BY DEF SenderConfirm, SenderEnds
<1>c. /\ trusts' \subseteq Device \X Device
      /\ agreed => Promise!Confirmed(s) /\ view[s]["receiver"] = "stranger"
  <2>1. trusts \subseteq Device \X Device /\ "sender" \in Side /\ agreed \in BOOLEAN
    BY DEF HandshakeInv, LooseTypes, Side
  <2>2. trusts' \subseteq Device \X Device
    BY <1>b, <2>1, TrustTypes
  <2> QED
    BY <1>a, <2>2 DEF HandshakeInv, SessionInv, WireTrue
<1>d. view[s]["sender"] = "stranger"
  BY <1>b DEF HandshakeInv, SessionInv, SenderKnows
<1>4. Promise!Remember(s, "sender") \/ UNCHANGED Promise!pairingVars
  <2>1. CASE agreed /\ said[s]["sender"] = "remember"
    BY <2>1, <1>b, <1>c, <1>d DEF TrustIf, Promise!Remember
  <2>2. CASE ~(agreed /\ said[s]["sender"] = "remember")
    BY <2>2, <1>b DEF TrustIf, Promise!pairingVars
  <2> QED BY <2>1, <2>2
<1> HIDE DEF agreed
<1>1. LooseTypes'
  <2>1. free' \in [Device -> Nat] /\ toSender' \in [Session -> Seq(Message)]
    BY <1>b, SessionParts, PermitTypes, WireTypes DEF SenderConfirm
  <2>2. spc' \in [Session -> SenderPlace]
    BY <1>b DEF HandshakeInv, LooseTypes, SenderPlace
  <2> QED BY <1>b, <1>c, <2>1, <2>2 DEF HandshakeInv, LooseTypes
<1>2. \A r \in Session \ {s} : Same(r)
  BY <1>b DEF HandshakeInv, LooseTypes, Same, Rest
<1>3. SessionInv(s)'
  BY <1>a, <1>b, <1>c, <1>d, MessageNames DEF HandshakeInv, LooseTypes, Rest,
         SessionInv, SenderKnows, ReceiverKnows, WireTrue, Grantable, Connected, Promise!Confirmed
<1> QED BY <1>1, <1>2, <1>3, <1>4, OneSession, Promised DEF Step

LEMMA SenderDecisionStep ==
    ASSUME HandshakeInv, NEW s \in Session, SenderDecision(s)
    PROVE  Step
<1>a. /\ Tail(toSender[s]) \in Seq(Message) /\ Head(toSender[s]) \in Message
      /\ Has(toSender[s], Head(toSender[s]))
      /\ \A m \in Message : Has(Tail(toSender[s]), m) => Has(toSender[s], m)
  BY Reading DEF SenderDecision
<1>1. LooseTypes'
  <2>1. free' \in [Device -> Nat] /\ toSender' \in [Session -> Seq(Message)]
    BY SessionParts, PermitTypes, WireTypes DEF SenderDecision, SenderEnds
  <2>2. spc' \in [Session -> SenderPlace]
    BY DEF HandshakeInv, LooseTypes, SenderDecision, SenderEnds, SenderPlace
  <2> QED BY <2>1, <2>2 DEF HandshakeInv, LooseTypes, SenderDecision
<1>2. \A r \in Session \ {s} : Same(r)
  BY DEF HandshakeInv, LooseTypes, Same, SenderDecision, SenderEnds, Rest
<1>3. SessionInv(s)'
  BY <1>a, MessageNames DEF HandshakeInv, LooseTypes, SenderDecision, SenderEnds, Rest,
         SessionInv, SenderKnows, ReceiverKnows, WireTrue, Grantable, Connected, Promise!Confirmed
<1>4. Promise!Start(s) \/ UNCHANGED Promise!pairingVars
  <2>1. CASE Head(toSender[s]) = "grant"
    <3>1. s \in granted /\ Grantable(s)
      BY <1>a, <2>1 DEF HandshakeInv, SessionInv, WireTrue, ReceiverKnows
    <3>2. /\ view[s]["sender"] \in {"known", "stranger"}
          /\ view[s]["sender"] = "stranger" =>
                Promise!Confirmed(s) /\ view[s]["receiver"] = "stranger"
          /\ view[s]["sender"] = "known" => said[s]["sender"] = "silent"
      BY DEF HandshakeInv, LooseTypes, SessionInv, SenderKnows, SenderDecision, Side
    <3>3. Promise!Confirmed(s) => said[s]["sender"] # "silent"
      BY DEF Promise!Confirmed, Promise!Side, Promise!Yes
    <3>4. view[s]["sender"] = view[s]["receiver"]
      BY <3>1, <3>2, <3>3 DEF Grantable
    <3> QED
      BY <2>1, <3>1, <3>2, <3>4 DEF SenderDecision, Promise!Start
  <2>2. CASE Head(toSender[s]) # "grant"
    BY <2>2 DEF SenderDecision, Promise!pairingVars
  <2> QED BY <2>1, <2>2
<1> QED BY <1>1, <1>2, <1>3, <1>4, OneSession, Promised DEF Step

LEMMA SenderResultStep ==
    ASSUME HandshakeInv, NEW s \in Session, SenderResult(s)
    PROVE  Step
<1>a. /\ Tail(toSender[s]) \in Seq(Message) /\ Head(toSender[s]) \in Message
      /\ Has(toSender[s], Head(toSender[s]))
      /\ \A m \in Message : Has(Tail(toSender[s]), m) => Has(toSender[s], m)
  BY Reading DEF SenderResult
<1>1. LooseTypes'
  <2>1. free' \in [Device -> Nat] /\ toSender' \in [Session -> Seq(Message)]
    BY SessionParts, PermitTypes, WireTypes DEF SenderResult, SenderEnds
  <2>2. spc' \in [Session -> SenderPlace]
    BY DEF HandshakeInv, LooseTypes, SenderResult, SenderEnds, SenderPlace
  <2> QED BY <2>1, <2>2 DEF HandshakeInv, LooseTypes, SenderResult, pairing
<1>2. \A r \in Session \ {s} : Same(r)
  BY SessionParts DEF HandshakeInv, LooseTypes, Same, SenderResult, SenderEnds, Rest, Release, pairing
<1>3. SessionInv(s)'
  BY <1>a, EmptyHas, MessageNames DEF HandshakeInv, LooseTypes, SenderResult, SenderEnds, Rest, Release, pairing,
         Side, Yes, Answer, SessionInv, SenderKnows, ReceiverKnows, WireTrue,
         Grantable, Connected, Promise!Confirmed, Promise!Side, Promise!Yes
<1>4. UNCHANGED Promise!pairingVars
  BY DEF SenderResult, SenderEnds, Rest, Release, pairing, Promise!pairingVars
<1> QED BY <1>1, <1>2, <1>3, <1>4, OneSession, Promised DEF Step

LEMMA SenderFailsStep ==
    ASSUME HandshakeInv, NEW s \in Session, SenderFails(s)
    PROVE  Step
<1>1. LooseTypes'
  BY SessionParts DEF HandshakeInv, LooseTypes, SenderFails, SenderEnds, Release, SenderHolding, pairing,
         SenderPlace, ReceiverPlace
<1>2. \A r \in Session \ {s} : Same(r)
  BY SessionParts DEF HandshakeInv, LooseTypes, Same, SenderFails, SenderEnds, Release, SenderHolding, pairing
<1>3. SessionInv(s)'
  BY EmptyHas, MessageNames DEF HandshakeInv, LooseTypes, SenderFails, SenderEnds, Release, SenderHolding, pairing,
         Side, Yes, Answer, SessionInv, SenderKnows, ReceiverKnows, WireTrue,
         Grantable, Connected, Promise!Confirmed, Promise!Side, Promise!Yes
<1>4. UNCHANGED Promise!pairingVars
  BY DEF SenderFails, SenderEnds, Release, SenderHolding, pairing, Promise!pairingVars
<1> QED BY <1>1, <1>2, <1>3, <1>4, OneSession, Promised DEF Step

-----------------------------------------------------------------------------
(* The steps of the receiver.                                              *)

LEMMA ReceiverHelloStep ==
    ASSUME HandshakeInv, NEW s \in Session, ReceiverHello(s)
    PROVE  Step
<1>a. /\ Tail(toReceiver[s]) \in Seq(Message) /\ Head(toReceiver[s]) \in Message
      /\ Has(toReceiver[s], Head(toReceiver[s]))
      /\ \A m \in Message : Has(Tail(toReceiver[s]), m) => Has(toReceiver[s], m)
  BY Reading DEF ReceiverHello
<1>b. /\ toSender[s] \o <<"hello">> \in Seq(Message)
      /\ \A n \in Message : Has(toSender[s] \o <<"hello">>, n) => Has(toSender[s], n) \/ n = "hello"
  BY Writing, MessageNames
<1>1. LooseTypes'
  BY <1>a, <1>b, SessionParts DEF HandshakeInv, LooseTypes, ReceiverHello, Rest, Put, Meet, pairing,
         SenderPlace, ReceiverPlace
<1>2. \A r \in Session \ {s} : Same(r)
  BY SessionParts DEF HandshakeInv, LooseTypes, Same, ReceiverHello, Rest, Put, Meet, pairing
<1>3. SessionInv(s)'
  BY <1>a, <1>b, EmptyHas, MessageNames DEF HandshakeInv, LooseTypes, ReceiverHello, Rest, Put, Meet, pairing,
         Side, Yes, Answer, SessionInv, SenderKnows, ReceiverKnows, WireTrue,
         Grantable, Connected, Promise!Confirmed, Promise!Side, Promise!Yes
<1>4. Promise!Meet(s, "receiver")
  BY DEF HandshakeInv, LooseTypes, SessionInv, ReceiverKnows, ReceiverHello, Meet, Promise!Meet
<1> QED BY <1>1, <1>2, <1>3, <1>4, OneSession, Promised DEF Step

LEMMA ReceiverOfferStep ==
    ASSUME HandshakeInv, NEW s \in Session, ReceiverOffer(s)
    PROVE  Step
<1>a. /\ Tail(toReceiver[s]) \in Seq(Message) /\ Head(toReceiver[s]) \in Message
      /\ Has(toReceiver[s], Head(toReceiver[s]))
      /\ \A m \in Message : Has(Tail(toReceiver[s]), m) => Has(toReceiver[s], m)
  BY Reading DEF ReceiverOffer
<1>1. LooseTypes'
  <2>1. toReceiver' \in [Session -> Seq(Message)]
    BY WireTypes DEF ReceiverOffer
  <2>2. record' \in [Transfers -> TransferState \cup {NoRecord}]
    BY SessionParts, StateNames DEF HandshakeInv, LooseTypes, ReceiverOffer
  <2>3. rpc' \in [Session -> ReceiverPlace] /\ prompt' \in [Transfers -> 0..MaxSessions]
    <3>1. s[2] \in 0..MaxSessions
      BY SessionParts, HandshakeAssumption
    <3> QED BY <3>1, SessionParts DEF HandshakeInv, LooseTypes, ReceiverOffer, ReceiverPlace
  <2> QED BY <2>1, <2>2, <2>3 DEF HandshakeInv, LooseTypes, ReceiverOffer, pairing
<1>2. \A r \in Session \ {s} : Same(r)
  BY SessionParts DEF HandshakeInv, LooseTypes, Same, ReceiverOffer, Rest, pairing
<1>3. SessionInv(s)'
  BY <1>a, EmptyHas, MessageNames DEF HandshakeInv, LooseTypes, ReceiverOffer, Rest, pairing,
         Side, Yes, Answer, SessionInv, SenderKnows, ReceiverKnows, WireTrue,
         Grantable, Connected, Promise!Confirmed, Promise!Side, Promise!Yes
<1>4. UNCHANGED Promise!pairingVars
  BY DEF ReceiverOffer, Rest, pairing, Promise!pairingVars
<1> QED BY <1>1, <1>2, <1>3, <1>4, OneSession, Promised DEF Step

LEMMA PromptLostStep ==
    ASSUME HandshakeInv, NEW s \in Session, PromptLost(s)
    PROVE  Step
<1>a. /\ record' \in [Transfers -> TransferState \cup {NoRecord}]
      /\ rpc' \in [Session -> ReceiverPlace] /\ rpc' = [rpc EXCEPT ![s] = "over"]
  BY EndTypes, StateNames DEF PromptLost
<1>1. LooseTypes'
  BY <1>a DEF HandshakeInv, LooseTypes, PromptLost, pairing
<1>2. \A r \in Session \ {s} : Same(r)
  BY <1>a DEF HandshakeInv, LooseTypes, Same, PromptLost, pairing
<1>3. SessionInv(s)'
  BY <1>a DEF HandshakeInv, LooseTypes, PromptLost, pairing, SessionInv, SenderKnows,
         ReceiverKnows, WireTrue, Grantable, Connected, Promise!Confirmed
<1>4. UNCHANGED Promise!pairingVars
  BY DEF PromptLost, pairing, Promise!pairingVars
<1> QED BY <1>1, <1>2, <1>3, <1>4, OneSession DEF Step

LEMMA ReceiverAnswerStep ==
    ASSUME HandshakeInv, NEW s \in Session, NEW a \in Answer, ReceiverAnswer(s, a)
    PROVE  Step
<1>a. /\ rpc[s] = "answer" /\ said' = [said EXCEPT ![s]["receiver"] = a]
      /\ view[s]["receiver"] # "unmet" /\ said[s]["receiver"] = "silent" /\ s \notin granted
      /\ UNCHANGED <<trusts, view, granted, started, spc, toReceiver, free, crashes>>
      /\ prompt' = [prompt EXCEPT ![s[1]] = 0]
  BY DEF HandshakeInv, SessionInv, ReceiverKnows, ReceiverAnswer
<1>b. /\ toSender[s] \o <<"deny">> \in Seq(Message)
      /\ \A n \in Message : Has(toSender[s] \o <<"deny">>, n) => Has(toSender[s], n) \/ n = "deny"
  BY Writing, MessageNames
<1>c. \/ /\ view[s]["receiver"] = "stranger" /\ rpc' = [rpc EXCEPT ![s] = "pairing"]
         /\ UNCHANGED <<toSender, record>>
      \/ /\ view[s]["receiver"] = "known" /\ a # "refuse"
         /\ rpc' = [rpc EXCEPT ![s] = "permit"]
         /\ UNCHANGED <<toSender, record>>
      \/ /\ rpc' = [rpc EXCEPT ![s] = "over"]
         /\ toSender' = Put(toSender, s, <<"deny">>)
  BY DEF ReceiverAnswer, ReceiverEnds, Yes
<1>d. record' \in [Transfers -> TransferState \cup {NoRecord}]
  BY EndTypes, StateNames DEF HandshakeInv, LooseTypes, ReceiverAnswer
<1>e. 0 \in 0..MaxSessions
  BY HandshakeAssumption
<1>1. LooseTypes'
  <2>1. rpc' \in [Session -> ReceiverPlace]
    BY <1>c DEF HandshakeInv, LooseTypes, ReceiverPlace
  <2>2. toSender' \in [Session -> Seq(Message)]
    BY <1>b, <1>c DEF HandshakeInv, LooseTypes, Put
  <2>3. said' \in [Session -> [Side -> Answer \cup {"silent"}]]
    BY <1>a DEF HandshakeInv, LooseTypes
  <2>4. prompt' \in [Transfers -> 0..MaxSessions]
    BY <1>a, <1>e DEF HandshakeInv, LooseTypes
  <2> QED BY <1>a, <1>d, <2>1, <2>2, <2>3, <2>4 DEF HandshakeInv, LooseTypes
<1>2. \A r \in Session \ {s} : Same(r)
  BY <1>a, <1>c DEF HandshakeInv, LooseTypes, Same, Put
<1>f. /\ said'[s]["sender"] = said[s]["sender"] /\ said'[s]["receiver"] = a
      /\ \A n \in Message : Has(toSender'[s], n) => Has(toSender[s], n) \/ n = "deny"
      /\ \/ rpc'[s] = "pairing" /\ view[s]["receiver"] = "stranger"
         \/ rpc'[s] = "permit" /\ view[s]["receiver"] = "known" /\ a # "refuse"
         \/ rpc'[s] = "over"
  <2>1. toSender'[s] = toSender[s] \/ toSender'[s] = toSender[s] \o <<"deny">>
    BY <1>c DEF HandshakeInv, LooseTypes, Put
  <2>2. said'[s]["sender"] = said[s]["sender"] /\ said'[s]["receiver"] = a
    BY <1>a DEF HandshakeInv, LooseTypes, Side
  <2>3. \/ rpc'[s] = "pairing" /\ view[s]["receiver"] = "stranger"
        \/ rpc'[s] = "permit" /\ view[s]["receiver"] = "known" /\ a # "refuse"
        \/ rpc'[s] = "over"
    BY <1>c DEF HandshakeInv, LooseTypes
  <2> QED BY <1>b, <2>1, <2>2, <2>3
<1>g. ~Promise!Confirmed(s)
  BY <1>a DEF Promise!Confirmed, Promise!Side, Promise!Yes
<1>3. SessionInv(s)'
  <2>1. SenderKnows(s)'
    BY <1>a, <1>f, <1>g DEF HandshakeInv, SessionInv, SenderKnows
  <2>2. ReceiverKnows(s)'
    BY <1>a, <1>f DEF ReceiverKnows, Grantable, Answer, Yes
  <2>3. WireTrue(s)'
    BY <1>a, <1>c, <1>f, <1>g, MessageNames
    DEF HandshakeInv, LooseTypes, SessionInv, WireTrue, Connected
  <2> QED BY <2>1, <2>2, <2>3 DEF SessionInv
<1>4. Promise!Say(s, "receiver", a)
  BY <1>a DEF Promise!Say
<1> QED BY <1>1, <1>2, <1>3, <1>4, OneSession, Promised DEF Step

LEMMA ReceiverPairingStep ==
    ASSUME HandshakeInv, NEW s \in Session, ReceiverPairing(s)
    PROVE  Step
<1> DEFINE agreed == PairingAccepted(s, Head(toReceiver[s]))
<1>a. /\ Tail(toReceiver[s]) \in Seq(Message) /\ Head(toReceiver[s]) \in Message
      /\ Has(toReceiver[s], Head(toReceiver[s]))
      /\ \A m \in Message : Has(Tail(toReceiver[s]), m) => Has(toReceiver[s], m)
  BY Reading DEF ReceiverPairing
<1>b. /\ rpc[s] = "pairing" /\ toReceiver[s] # <<>> /\ toReceiver' = Rest(toReceiver, s)
      /\ toSender' = Put(toSender, s, IF agreed THEN <<"yes">> ELSE <<"no", "deny">>)
      /\ TrustIf(s, "receiver", agreed)
      /\ UNCHANGED <<view, said, granted, started, spc, prompt, free, crashes>>
      /\ \/ agreed /\ rpc' = [rpc EXCEPT ![s] = "permit"]
            /\ record' = [record EXCEPT ![s[1]] = "WaitingForAcceptance"]
         \/ ReceiverEnds(s, "fatal")
  BY DEF ReceiverPairing
<1>c. view[s]["receiver"] = "stranger" /\ (agreed => Promise!Confirmed(s))
  <2>1. view[s]["receiver"] = "stranger"
    BY <1>b DEF HandshakeInv, SessionInv, ReceiverKnows
  <2>2. ASSUME agreed PROVE said[s]["sender"] \in Yes /\ said[s]["receiver"] \in Yes
    BY <1>a, <2>2 DEF HandshakeInv, SessionInv, WireTrue, PairingAccepted
  <2> QED BY <2>1, <2>2 DEF Promise!Confirmed, Promise!Side, Promise!Yes, Yes
<1>d. trusts' \subseteq Device \X Device
  <2>1. trusts \subseteq Device \X Device /\ "receiver" \in Side /\ agreed \in BOOLEAN
    BY DEF HandshakeInv, LooseTypes, Side, PairingAccepted
  <2> QED BY <1>b, <2>1, TrustTypes
<1>4. Promise!Remember(s, "receiver") \/ UNCHANGED Promise!pairingVars
  <2>1. CASE agreed /\ said[s]["receiver"] = "remember"
    BY <2>1, <1>b, <1>c DEF TrustIf, Promise!Remember
  <2>2. CASE ~(agreed /\ said[s]["receiver"] = "remember")
    BY <2>2, <1>b DEF TrustIf, Promise!pairingVars
  <2> QED BY <2>1, <2>2
<1> HIDE DEF agreed
<1>e. /\ toSender' \in [Session -> Seq(Message)]
      /\ \A r \in Session \ {s} : toSender'[r] = toSender[r]
      /\ \A n \in Message : Has(toSender'[s], n) =>
            Has(toSender[s], n) \/ n \in {"no", "deny"} \/ (n = "yes" /\ agreed)
  <2>1. CASE agreed
    BY <1>b, <2>1, Writing, MessageNames DEF HandshakeInv, LooseTypes, Put
  <2>2. CASE ~agreed
    BY <1>b, <2>2, Refusing DEF HandshakeInv, LooseTypes, Put
  <2> QED BY <2>1, <2>2
<1>f. /\ record' \in [Transfers -> TransferState \cup {NoRecord}]
      /\ rpc' \in [Session -> ReceiverPlace]
      /\ \A r \in Session \ {s} : rpc'[r] = rpc[r]
      /\ rpc'[s] = "over" \/ (rpc'[s] = "permit" /\ agreed)
  <2>1. CASE agreed /\ rpc' = [rpc EXCEPT ![s] = "permit"]
             /\ record' = [record EXCEPT ![s[1]] = "WaitingForAcceptance"]
    BY <2>1, StateNames, SessionParts DEF HandshakeInv, LooseTypes, ReceiverPlace
  <2>2. CASE ReceiverEnds(s, "fatal")
    BY <2>2, EndTypes, StateNames DEF HandshakeInv, LooseTypes
  <2> QED BY <1>b, <2>1, <2>2
<1>1. LooseTypes'
  <2>1. toReceiver' \in [Session -> Seq(Message)]
    BY <1>b, WireTypes
  <2> QED BY <1>b, <1>d, <1>e, <1>f, <2>1 DEF HandshakeInv, LooseTypes
<1>2. \A r \in Session \ {s} : Same(r)
  BY <1>b, <1>e, <1>f DEF HandshakeInv, LooseTypes, Same, Rest
<1>3. SessionInv(s)'
  <2>1. SenderKnows(s)'
    BY <1>b DEF HandshakeInv, SessionInv, SenderKnows, Promise!Confirmed
  <2>2. ReceiverKnows(s)'
    BY <1>b, <1>c, <1>f DEF HandshakeInv, SessionInv, ReceiverKnows, Grantable, Promise!Confirmed
  <2>3. Connected(s)
    BY <1>b DEF HandshakeInv, SessionInv, WireTrue
  <2>4. toReceiver'[s] = Tail(toReceiver[s])
    BY <1>b DEF HandshakeInv, LooseTypes, Rest
  <2>5. WireTrue(s)'
    BY <1>a, <1>b, <1>c, <1>e, <2>3, <2>4, MessageNames
    DEF HandshakeInv, SessionInv, WireTrue, Connected, Promise!Confirmed
  <2> QED BY <2>1, <2>2, <2>5 DEF SessionInv
<1> QED BY <1>1, <1>2, <1>3, <1>4, OneSession, Promised DEF Step

LEMMA ReceiverGrantStep ==
    ASSUME HandshakeInv, NEW s \in Session, ReceiverGrant(s)
    PROVE  Step
<1>b. /\ rpc[s] = "permit" /\ toSender' = Put(toSender, s, <<"grant">>)
      /\ granted' = granted \cup {s}
      /\ UNCHANGED <<trusts, view, said, started, spc, toReceiver, prompt, crashes>>
  BY DEF ReceiverGrant
<1>c. Grantable(s) /\ Connected(s)
  BY <1>b DEF HandshakeInv, SessionInv, ReceiverKnows, WireTrue
<1>e. /\ toSender' \in [Session -> Seq(Message)]
      /\ \A r \in Session \ {s} : toSender'[r] = toSender[r]
      /\ \A n \in Message : Has(toSender'[s], n) => Has(toSender[s], n) \/ n = "grant"
  BY <1>b, Writing, MessageNames DEF HandshakeInv, LooseTypes, Put
<1>f. /\ record' \in [Transfers -> TransferState \cup {NoRecord}]
      /\ rpc' \in [Session -> ReceiverPlace]
      /\ \A r \in Session \ {s} : rpc'[r] = rpc[r]
      /\ rpc'[s] \in {"stream", "over"}
  <2>1. CASE rpc' = [rpc EXCEPT ![s] = "stream"]
             /\ record' = [record EXCEPT ![s[1]] = "Transferring"]
    BY <2>1, StateNames, SessionParts DEF HandshakeInv, LooseTypes, ReceiverPlace
  <2>2. CASE ReceiverEnds(s, "fatal")
    BY <2>2, EndTypes, StateNames DEF HandshakeInv, LooseTypes
  <2> QED BY <2>1, <2>2 DEF ReceiverGrant
<1>1. LooseTypes'
  <2>1. free' \in [Device -> Nat]
    BY PermitTypes, SessionParts DEF ReceiverGrant
  <2> QED BY <1>b, <1>e, <1>f, <2>1 DEF HandshakeInv, LooseTypes
<1>2. \A r \in Session \ {s} : Same(r)
  BY <1>b, <1>e, <1>f DEF HandshakeInv, LooseTypes, Same
<1>3. SessionInv(s)'
  <2>1. SenderKnows(s)'
    BY <1>b DEF HandshakeInv, SessionInv, SenderKnows, Promise!Confirmed
  <2>2. ReceiverKnows(s)'
    BY <1>b, <1>c, <1>f DEF ReceiverKnows, Grantable, Promise!Confirmed
  <2>3. WireTrue(s)'
    BY <1>b, <1>c, <1>e, MessageNames
    DEF HandshakeInv, SessionInv, WireTrue, Connected, Promise!Confirmed
  <2> QED BY <2>1, <2>2, <2>3 DEF SessionInv
<1>4. Promise!Grant(s)
  BY <1>b, <1>c DEF Grantable, Promise!Grant
<1> QED BY <1>1, <1>2, <1>3, <1>4, OneSession, Promised DEF Step

(* A handler that ends without a word leaves the sender to find out.       *)
LEMMA EndStep ==
    ASSUME HandshakeInv, NEW s \in Session, Connected(s),
           record' \in [Transfers -> TransferState \cup {NoRecord}],
           rpc' = [rpc EXCEPT ![s] = "over"], free' \in [Device -> Nat],
           UNCHANGED <<pairing, spc, toReceiver, prompt, crashes>>,
           toSender' \in [Session -> Seq(Message)],
           \A r \in Session \ {s} : toSender'[r] = toSender[r],
           \A n \in Message : Has(toSender'[s], n) =>
                Has(toSender[s], n) \/ n \in {"ok", "failed"}
    PROVE  Step
<1>1. LooseTypes'
  BY DEF HandshakeInv, LooseTypes, pairing, ReceiverPlace
<1>2. \A r \in Session \ {s} : Same(r)
  BY DEF HandshakeInv, LooseTypes, Same, pairing
<1>3. SessionInv(s)'
  BY MessageNames DEF HandshakeInv, LooseTypes, pairing, SessionInv, SenderKnows,
         ReceiverKnows, WireTrue, Grantable, Connected, Promise!Confirmed
<1>4. UNCHANGED Promise!pairingVars
  BY DEF pairing, Promise!pairingVars
<1> QED BY <1>1, <1>2, <1>3, <1>4, OneSession DEF Step

LEMMA PrepareFailsStep ==
    ASSUME HandshakeInv, NEW s \in Session, PrepareFails(s)
    PROVE  Step
<1>1. Connected(s)
  BY DEF HandshakeInv, SessionInv, WireTrue, PrepareFails
<1>2. /\ record' \in [Transfers -> TransferState \cup {NoRecord}]
      /\ rpc' = [rpc EXCEPT ![s] = "over"]
  BY EndTypes, StateNames DEF PrepareFails
<1>3. /\ free' \in [Device -> Nat] /\ toSender' = toSender
      /\ toSender' \in [Session -> Seq(Message)]
      /\ UNCHANGED <<pairing, spc, toReceiver, prompt, crashes>>
  BY DEF HandshakeInv, LooseTypes, PrepareFails
<1> QED BY <1>1, <1>2, <1>3, EndStep

LEMMA ReceiverResultStep ==
    ASSUME HandshakeInv, NEW s \in Session, ReceiverResult(s)
    PROVE  Step
<1>1. Connected(s)
  BY DEF HandshakeInv, SessionInv, WireTrue, ReceiverResult
<1>2. /\ record' \in [Transfers -> TransferState \cup {NoRecord}]
      /\ rpc' = [rpc EXCEPT ![s] = "over"]
  <2>1. CASE rpc' = [rpc EXCEPT ![s] = "over"] /\ record' = [record EXCEPT ![s[1]] = "Completed"]
    BY <2>1, StateNames, SessionParts DEF HandshakeInv, LooseTypes
  <2>2. CASE \E outcome \in {"retryable", "fatal"} : ReceiverEnds(s, outcome)
    BY <2>2, EndTypes, StateNames
  <2> QED BY <2>1, <2>2 DEF ReceiverResult
<1>3. PICK m \in {"ok", "failed"} : toSender' = Put(toSender, s, <<m>>)
  BY DEF ReceiverResult
<1>4. /\ toSender' \in [Session -> Seq(Message)]
      /\ \A r \in Session \ {s} : toSender'[r] = toSender[r]
      /\ \A n \in Message : Has(toSender'[s], n) => Has(toSender[s], n) \/ n = m
  BY <1>3, Writing, MessageNames DEF HandshakeInv, LooseTypes, Put
<1>5. /\ free' \in [Device -> Nat]
      /\ UNCHANGED <<pairing, spc, toReceiver, prompt, crashes>>
  BY PermitTypes, SessionParts DEF ReceiverResult
<1> QED BY <1>1, <1>2, <1>3, <1>4, <1>5, EndStep

LEMMA ReceiverFailsStep ==
    ASSUME HandshakeInv, NEW s \in Session, ReceiverFails(s)
    PROVE  Step
<1>2. /\ record' \in [Transfers -> TransferState \cup {NoRecord}]
      /\ rpc' = [rpc EXCEPT ![s] = "over"]
  <2>1. CASE \E outcome \in Outcome : ReceiverEnds(s, outcome)
    BY <2>1, EndTypes
  <2>2. CASE rpc' = [rpc EXCEPT ![s] = "over"] /\ UNCHANGED record
    BY <2>2 DEF HandshakeInv, LooseTypes
  <2> QED BY <2>1, <2>2, StateNames DEF ReceiverFails
<1>3. /\ Connected(s) /\ toSender' = toSender
      /\ toSender' \in [Session -> Seq(Message)]
      /\ UNCHANGED <<pairing, spc, toReceiver, prompt, crashes>>
  BY DEF HandshakeInv, LooseTypes, ReceiverFails
<1>4. free' \in [Device -> Nat]
  BY PermitTypes, SessionParts DEF ReceiverFails
<1> QED BY <1>2, <1>3, <1>4, EndStep

-----------------------------------------------------------------------------
(* The steps of the users and of the processes.                            *)

(* What touches no session keeps what is known of every one.               *)
LEMMA AllSame ==
    ASSUME HandshakeInv, LooseTypes',
           UNCHANGED <<view, said, granted, spc, rpc, toReceiver, toSender>>
    PROVE  HandshakeInv'
<1>1. \A r \in Session : Same(r)
  BY DEF Same
<1> QED BY <1>1, SameKeeps DEF HandshakeInv

LEMMA CancelStep ==
    ASSUME HandshakeInv, NEW t \in Transfers, CancelIncoming(t)
    PROVE  Step
<1>1. LooseTypes'
  BY OutcomeTypes, StateNames DEF HandshakeInv, LooseTypes, CancelIncoming, pairing
<1>2. HandshakeInv' /\ UNCHANGED Promise!pairingVars
  BY <1>1, AllSame DEF CancelIncoming, pairing, Promise!pairingVars
<1> QED BY <1>2 DEF Step

LEMMA ForgetStep ==
    ASSUME HandshakeInv, NEW d \in Device, NEW e \in Device, ForgetPeer(d, e)
    PROVE  Step
<1>1. LooseTypes'
  BY DEF HandshakeInv, LooseTypes, ForgetPeer
<1>2. HandshakeInv'
  BY <1>1, AllSame DEF ForgetPeer
<1>3. Promise!Forget(d, e)
  BY DEF ForgetPeer, Promise!Forget
<1> QED BY <1>2, <1>3 DEF Step, Promise!PairingNext

LEMMA CrashStep ==
    ASSUME HandshakeInv, NEW d \in Device, Crash(d)
    PROVE  Step
<1>1. LooseTypes'
  <2>1. record' \in [Transfers -> TransferState \cup {NoRecord}]
    BY OutcomeTypes DEF HandshakeInv, LooseTypes, Crash
  <2>2. /\ spc' \in [Session -> SenderPlace] /\ rpc' \in [Session -> ReceiverPlace]
    BY DEF HandshakeInv, LooseTypes, Crash, SenderPlace, ReceiverPlace
  <2>3. prompt' \in [Transfers -> 0..MaxSessions] /\ crashes' \in 0..MaxCrashes
        /\ free' \in [Device -> Nat]
    BY HandshakeAssumption DEF HandshakeInv, LooseTypes, Crash
  <2> QED BY <2>1, <2>2, <2>3 DEF HandshakeInv, LooseTypes, Crash, pairing
<1>2. ASSUME NEW s \in Session PROVE SessionInv(s)'
  <2>1. /\ spc'[s] = "over" \/ spc'[s] = spc[s]
        /\ rpc'[s] = rpc[s] \/ (rpc'[s] = "over" /\ Connected(s))
        /\ spc[s] \notin {"idle", "permit"} => spc'[s] \notin {"idle", "permit"}
    BY DEF Crash
  <2>2. UNCHANGED <<view, said, granted, toReceiver, toSender>>
    BY DEF Crash, pairing
  <2> QED
    BY <2>1, <2>2 DEF HandshakeInv, SessionInv, SenderKnows, ReceiverKnows, WireTrue, Grantable,
         Connected, Promise!Confirmed
<1>3. UNCHANGED Promise!pairingVars
  BY DEF Crash, pairing, Promise!pairingVars
<1> QED BY <1>1, <1>2, <1>3 DEF Step, HandshakeInv

LEMMA StutterStep ==
    ASSUME HandshakeInv, UNCHANGED vars
    PROVE  Step
<1>1. LooseTypes'
  BY DEF HandshakeInv, LooseTypes, vars, pairing
<1>2. HandshakeInv' /\ UNCHANGED Promise!pairingVars
  BY <1>1, AllSame DEF vars, pairing, Promise!pairingVars
<1> QED BY <1>2 DEF Step

-----------------------------------------------------------------------------
(* The promise is kept.                                                    *)

LEMMA NextStep == HandshakeInv /\ [Next]_vars => Step
<1> SUFFICES ASSUME HandshakeInv, [Next]_vars PROVE Step
  OBVIOUS
<1>1. ASSUME NEW s \in Session, SenderNext(s) PROVE Step
  BY <1>1, SendStep, ConnectStep, SenderHelloStep, SenderAnswerStep, SenderConfirmStep,
     SenderDecisionStep, SenderResultStep, SenderFailsStep DEF SenderNext
<1>2. ASSUME NEW s \in Session, ReceiverNext(s) PROVE Step
  BY <1>2, ReceiverHelloStep, ReceiverOfferStep, PromptLostStep, ReceiverAnswerStep,
     ReceiverPairingStep, ReceiverGrantStep, PrepareFailsStep, ReceiverResultStep,
     ReceiverFailsStep DEF ReceiverNext
<1>3. ASSUME Next PROVE Step
  BY <1>1, <1>2, <1>3, CancelStep, ForgetStep, CrashStep DEF Next
<1> QED BY <1>3, StutterStep

LEMMA InitHolds == Init => HandshakeInv /\ Promise!PairingInit
<1> SUFFICES ASSUME Init PROVE HandshakeInv /\ Promise!PairingInit
  OBVIOUS
<1>1. LooseTypes
  BY HandshakeAssumption DEF Init, LooseTypes, SenderPlace, ReceiverPlace
<1>2. ASSUME NEW s \in Session PROVE SessionInv(s)
  BY EmptyHas, MessageNames DEF Init, SessionInv, SenderKnows, ReceiverKnows, WireTrue, Connected,
     Side
<1>3. Promise!PairingInit
  BY DEF Init, Promise!PairingInit, Promise!Side, Side
<1> QED BY <1>1, <1>2, <1>3 DEF HandshakeInv

(* However messages, answers, refusals, retries and crashes interleave, a  *)
(* step of the two devices is one the promise allows (outgoing.rs:614-677, *)
(* lan.rs:200-338).                                                        *)
THEOREM KeepsPromise == Spec => PairingPromised
<1>1. HandshakeInv /\ [Next]_vars => HandshakeInv' /\ [Promise!PairingNext]_(Promise!pairingVars)
  BY NextStep DEF Step
<1> QED
  BY <1>1, InitHolds, PTL DEF Spec, PairingPromised, Promise!PairingSpec

-----------------------------------------------------------------------------
(* What the promise implies, for every set of devices and sessions.        *)

TypesHold ==
    /\ view \in [Session -> [Promise!Side -> Promise!View]]
    /\ said \in [Session -> [Promise!Side -> Promise!Answer]]
    /\ granted \subseteq Session

(* A side that knew the other owes it to a session both users confirmed.   *)
KnownConfirmed ==
    \A s \in Session, i \in Promise!Side : view[s][i] = "known" =>
        \E r \in Session, j \in Promise!Side :
            Promise!Trust(r, j) = Promise!Trust(s, i) /\ Promise!Confirmed(r)

GrantedMet == \A s \in granted : view[s]["receiver"] # "unmet"

PairingInv ==
    TypesHold /\ Promise!TrustConfirmed /\ KnownConfirmed /\ GrantedMet /\ Promise!StreamsVouched

(* What was said decides who has confirmed; the rest is constant.          *)
LEMMA SaidDecides ==
    ASSUME UNCHANGED said
    PROVE  \A r \in Session : Promise!Confirmed(r)' <=> Promise!Confirmed(r)
  BY DEF Promise!Confirmed

(* Steps that neither say nor look anything up only touch one table.       *)
LEMMA ViewDecides ==
    ASSUME KnownConfirmed, UNCHANGED <<view, said>>
    PROVE  KnownConfirmed'
  BY SaidDecides DEF KnownConfirmed, Promise!Trust

LEMMA StartedDecides ==
    ASSUME Promise!StreamsVouched, UNCHANGED <<started, said>>
    PROVE  Promise!StreamsVouched'
  BY SaidDecides DEF Promise!StreamsVouched, Promise!SamePair

LEMMA TrustsDecide ==
    ASSUME Promise!TrustConfirmed, UNCHANGED said, trusts' \subseteq trusts
    PROVE  Promise!TrustConfirmed'
  BY SaidDecides DEF Promise!TrustConfirmed, Promise!Trust

(* An answer is given once and never taken back.                           *)
LEMMA SayKeeps ==
    ASSUME TypesHold, NEW s \in Session, NEW i \in Promise!Side, NEW a \in Promise!Answer \ {"silent"},
           Promise!Say(s, i, a)
    PROVE  /\ TypesHold'
           /\ \A r \in Session : Promise!Confirmed(r) => Promise!Confirmed(r)'
           /\ \A r \in Session, j \in Promise!Side :
                said[r][j] = "remember" => said'[r][j] = "remember"
  BY DEF TypesHold, Promise!Say, Promise!Confirmed, Promise!Yes, Promise!Answer, Promise!Side

(* Every step of the promise keeps the invariant.                          *)
LEMMA PairingStep == PairingInv /\ [Promise!PairingNext]_(Promise!pairingVars) => PairingInv'
<1> SUFFICES ASSUME PairingInv, [Promise!PairingNext]_(Promise!pairingVars) PROVE PairingInv'
  OBVIOUS
<1> USE DEF PairingInv
<1>1. ASSUME NEW s \in Session, NEW i \in Promise!Side, Promise!Meet(s, i) PROVE PairingInv'
  <2>1. TypesHold'
    BY <1>1 DEF TypesHold, Promise!Meet, Promise!View
  <2>2. GrantedMet'
    BY <1>1 DEF TypesHold, GrantedMet, Promise!Meet, Promise!Side
  <2>4. Promise!TrustConfirmed' /\ Promise!StreamsVouched'
    BY <1>1, TrustsDecide, StartedDecides DEF Promise!Meet
  <2>3. KnownConfirmed'
    <3> SUFFICES ASSUME NEW r \in Session, NEW j \in Promise!Side, view'[r][j] = "known"
                 PROVE  \E q \in Session, k \in Promise!Side :
                            Promise!Trust(q, k) = Promise!Trust(r, j) /\ Promise!Confirmed(q)'
      BY DEF KnownConfirmed, Promise!Trust
    <3>1. CASE view[r][j] = "known"
      BY <1>1, <3>1 DEF KnownConfirmed, Promise!Meet, Promise!Confirmed
    <3>2. CASE view[r][j] # "known"
      <4>1. Promise!Trust(r, j) \in trusts
        BY <1>1, <3>2 DEF Promise!Meet, TypesHold
      <4> QED
        BY <1>1, <4>1 DEF Promise!TrustConfirmed, Promise!Meet, Promise!Confirmed
    <3> QED BY <3>1, <3>2
  <2> QED BY <2>1, <2>2, <2>3, <2>4
<1>2. ASSUME NEW s \in Session, NEW i \in Promise!Side, NEW a \in Promise!Answer \ {"silent"},
             Promise!Say(s, i, a)
      PROVE  PairingInv'
  <2>1. /\ TypesHold'
        /\ \A r \in Session : Promise!Confirmed(r) => Promise!Confirmed(r)'
        /\ \A r \in Session, j \in Promise!Side :
                said[r][j] = "remember" => said'[r][j] = "remember"
    BY <1>2, SayKeeps
  <2>2. UNCHANGED <<trusts, view, granted, started>>
    BY <1>2 DEF Promise!Say
  <2>3. Promise!TrustConfirmed'
    BY <2>1, <2>2 DEF Promise!TrustConfirmed, Promise!Trust
  <2>4. KnownConfirmed'
    BY <2>1, <2>2 DEF KnownConfirmed, Promise!Trust
  <2>5. GrantedMet' /\ Promise!StreamsVouched'
    BY <2>1, <2>2 DEF GrantedMet, Promise!StreamsVouched, Promise!SamePair
  <2> QED BY <2>1, <2>3, <2>4, <2>5
<1>3. ASSUME NEW s \in Session, NEW i \in Promise!Side, Promise!Remember(s, i) PROVE PairingInv'
  <2>0. UNCHANGED <<view, said, granted, started>>
    BY <1>3 DEF Promise!Remember
  <2>1. TypesHold' /\ GrantedMet'
    BY <2>0 DEF TypesHold, GrantedMet
  <2>3. KnownConfirmed' /\ Promise!StreamsVouched'
    BY <2>0, ViewDecides, StartedDecides
  <2>2. Promise!TrustConfirmed'
    BY <1>3 DEF Promise!Remember, Promise!TrustConfirmed, Promise!Confirmed, Promise!Trust
  <2> QED BY <2>1, <2>2, <2>3
<1>4. ASSUME NEW d \in Device, NEW e \in Device, Promise!Forget(d, e) PROVE PairingInv'
  <2>1. UNCHANGED <<view, said, granted, started>> /\ trusts' \subseteq trusts
    BY <1>4 DEF Promise!Forget
  <2>2. TypesHold' /\ GrantedMet'
    BY <2>1 DEF TypesHold, GrantedMet
  <2> QED BY <2>1, <2>2, ViewDecides, StartedDecides, TrustsDecide
<1>5. ASSUME NEW s \in Session, Promise!Grant(s) PROVE PairingInv'
  <2>1. UNCHANGED <<trusts, view, said, started>>
    BY <1>5 DEF Promise!Grant
  <2>2. TypesHold' /\ GrantedMet'
    BY <1>5 DEF Promise!Grant, TypesHold, GrantedMet
  <2> QED BY <2>1, <2>2, ViewDecides, StartedDecides, TrustsDecide
<1>6. ASSUME NEW s \in Session, Promise!Start(s) PROVE PairingInv'
  <2>0. UNCHANGED <<trusts, view, said, granted>>
    BY <1>6 DEF Promise!Start
  <2>1. TypesHold' /\ GrantedMet' /\ Promise!TrustConfirmed' /\ KnownConfirmed'
    BY <2>0, ViewDecides, TrustsDecide DEF TypesHold, GrantedMet
  <2>2. \E r \in Session : Promise!SamePair(s, r) /\ Promise!Confirmed(r)
    <3>1. view[s]["sender"] \in {"known", "stranger"}
      BY <1>6 DEF Promise!Start, GrantedMet, TypesHold, Promise!View, Promise!Side
    <3>2. CASE view[s]["sender"] = "known"
      <4>1. PICK r \in Session, j \in Promise!Side :
                    Promise!Trust(r, j) = Promise!Trust(s, "sender") /\ Promise!Confirmed(r)
        BY <3>2 DEF KnownConfirmed, Promise!Side
      <4>2. Promise!SamePair(s, r)
        BY <4>1 DEF Promise!SamePair, Promise!Trust, Promise!Other, Promise!Side
      <4> QED BY <4>1, <4>2
    <3>3. CASE view[s]["sender"] = "stranger"
      <4>1. Promise!Confirmed(s)
        BY <1>6, <3>3 DEF Promise!Start
      <4>2. Promise!SamePair(s, s)
        BY DEF Promise!SamePair, Promise!Side
      <4> QED BY <4>1, <4>2
    <3> QED BY <3>1, <3>2, <3>3
  <2>3. Promise!StreamsVouched'
    BY <1>6, <2>0, <2>2, SaidDecides DEF Promise!Start, Promise!StreamsVouched, Promise!SamePair
  <2> QED BY <2>1, <2>3
<1>7. ASSUME UNCHANGED Promise!pairingVars PROVE PairingInv'
  <2>1. UNCHANGED <<trusts, view, said, granted, started>>
    BY <1>7 DEF Promise!pairingVars
  <2>2. TypesHold' /\ GrantedMet'
    BY <2>1 DEF TypesHold, GrantedMet
  <2> QED BY <2>1, <2>2, ViewDecides, StartedDecides, TrustsDecide
<1> QED
  BY <1>1, <1>2, <1>3, <1>4, <1>5, <1>6, <1>7 DEF Promise!PairingNext

(* Who keeps the promise never streams between devices whose users have    *)
(* not both confirmed the digits once, and never remembers a device that   *)
(* its user did not ask to remember in such a session (outgoing.rs:660,    *)
(* lan.rs:273).                                                            *)
THEOREM PromiseVouches == Promise!PairingSpec => [](Promise!TrustConfirmed /\ Promise!StreamsVouched)
<1>1. Promise!PairingInit => PairingInv
  BY DEF Promise!PairingInit, PairingInv, TypesHold, GrantedMet, Promise!TrustConfirmed, KnownConfirmed,
         Promise!StreamsVouched, Promise!View, Promise!Answer
<1>2. PairingInv => Promise!TrustConfirmed /\ Promise!StreamsVouched
  BY DEF PairingInv
<1> QED
  BY <1>1, <1>2, PairingStep, PTL DEF Promise!PairingSpec

(* No stream between devices whose users never both confirmed the six      *)
(* digits, in this session or an earlier one (docs/spec.md:11).            *)
THEOREM StreamsAreVouched == Spec => []StreamsVouched
<1>1. Promise!TrustConfirmed /\ Promise!StreamsVouched => StreamsVouched
  BY DEF StreamsVouched
<1> QED
  BY <1>1, PromiseVouches, KeepsPromise, PTL DEF PairingPromised

-----------------------------------------------------------------------------
(* The permits.                                                            *)

Held(h) ==
    /\ h[2] = "sender" => spc[h[1]] \in SenderHolding
    /\ h[2] = "receiver" => rpc[h[1]] = "stream"

LEMMA HoldersFinite == \A d \in Device : IsFiniteSet(Holders(d))
<1>0. IsFiniteSet(1..MaxSessions) /\ IsFiniteSet(Transfers)
  BY HandshakeAssumption, FS_Interval
<1>1. IsFiniteSet(Session)
  BY <1>0, FS_Product DEF Session
<1>2. IsFiniteSet(Side)
  <2>1. Side = {"sender"} \cup {"receiver"} /\ IsFiniteSet({"sender"})
    BY FS_Singleton DEF Side
  <2> QED BY <2>1, FS_AddElement
<1>3. IsFiniteSet(Session \X Side)
  BY <1>1, <1>2, FS_Product
<1> QED
  BY <1>3, FS_Subset DEF Holders

LEMMA HeldBy == \A d \in Device :
    /\ Holders(d) = {h \in Session \X Side : DeviceOf[h[1]][h[2]] = d /\ Held(h)}
    /\ Holders(d)' = {h \in Session \X Side : DeviceOf[h[1]][h[2]] = d /\ Held(h)'}
  BY DEF Holders, Held

(* A step at which nobody else takes or gives back a permit.               *)
LEMMA OneMoves ==
    ASSUME HandshakeInv, PermitsShared, NEW g \in Session \X Side,
           \A h \in Session \X Side : h # g => (Held(h)' <=> Held(h)),
           LET d == DeviceOf[g[1]][g[2]]
           IN  /\ d \in Device
               /\ \/ (Held(g)' <=> Held(g)) /\ UNCHANGED free
                  \/ ~Held(g) /\ Held(g)' /\ Acquire(d)
                  \/ Held(g) /\ ~Held(g)' /\ Release(d)
    PROVE  PermitsShared'
<1> DEFINE d == DeviceOf[g[1]][g[2]]
<1>0. d \in Device /\ free \in [Device -> Nat] /\ MaxActive \in Nat
  BY HandshakeAssumption DEF HandshakeInv, LooseTypes
<1>1. ASSUME NEW e \in Device, e # d PROVE (free[e] + Cardinality(Holders(e)) = MaxActive)'
  <2>1. Holders(e)' = Holders(e)
    <3>1. \A h \in Session \X Side : DeviceOf[h[1]][h[2]] = e => (Held(h)' <=> Held(h))
      BY <1>1
    <3> QED BY <3>1, HeldBy
  <2>2. free'[e] = free[e]
    BY <1>0, <1>1 DEF Acquire, Release
  <2>3. free[e] + Cardinality(Holders(e)) = MaxActive
    BY DEF PermitsShared
  <2> HIDE DEF d
  <2> QED BY <2>1, <2>2, <2>3
<1>2. (free[d] + Cardinality(Holders(d)) = MaxActive)'
  <2>0. /\ free[d] + Cardinality(Holders(d)) = MaxActive
        /\ IsFiniteSet(Holders(d)) /\ Cardinality(Holders(d)) \in Nat
    BY <1>0, HoldersFinite, FS_CardinalityType DEF PermitsShared
  <2>1. CASE (Held(g)' <=> Held(g)) /\ UNCHANGED free
    <3>1. \A h \in Session \X Side : Held(h)' <=> Held(h)
      BY <2>1
    <3>2. Holders(d)' = Holders(d)
      BY <3>1, <1>0, HeldBy
    <3> QED BY <2>0, <2>1, <3>2
  <2>2. CASE ~Held(g) /\ Held(g)' /\ Acquire(d)
    <3>1. Holders(d)' = Holders(d) \cup {g} /\ g \notin Holders(d)
      BY <2>2, <1>0, HeldBy
    <3>2. Cardinality(Holders(d)') = Cardinality(Holders(d)) + 1
      BY <2>0, <3>1, FS_AddElement
    <3>3. free'[d] = free[d] - 1
      BY <1>0, <2>2 DEF Acquire
    <3> QED BY <1>0, <2>0, <3>2, <3>3
  <2>3. CASE Held(g) /\ ~Held(g)' /\ Release(d)
    <3>1. Holders(d)' = Holders(d) \ {g} /\ g \in Holders(d)
      BY <2>3, <1>0, HeldBy
    <3>2. Cardinality(Holders(d) \ {g}) = Cardinality(Holders(d)) - 1
      BY <2>0, <3>1, FS_RemoveElement
    <3>3. free'[d] = free[d] + 1
      BY <1>0, <2>3 DEF Release
    <3> QED BY <1>0, <2>0, <3>1, <3>2, <3>3
  <2> QED BY <2>1, <2>2, <2>3
<1> QED BY <1>1, <1>2 DEF PermitsShared

LEMMA SenderMoves ==
    ASSUME HandshakeInv, PermitsShared, NEW s \in Session, NEW p, UNCHANGED rpc,
           spc' = [spc EXCEPT ![s] = p],
           \/ (spc[s] \in SenderHolding <=> p \in SenderHolding) /\ UNCHANGED free
           \/ spc[s] \notin SenderHolding /\ p \in SenderHolding /\ Acquire(From[s[1]])
           \/ spc[s] \in SenderHolding /\ p \notin SenderHolding /\ Release(From[s[1]])
    PROVE  PermitsShared'
<1> DEFINE g == <<s, "sender">>
<1>1. g \in Session \X Side /\ DeviceOf[g[1]][g[2]] = From[s[1]] /\ From[s[1]] \in Device
  BY SessionParts DEF Side
<1>2. \A h \in Session \X Side : h # g => (Held(h)' <=> Held(h))
  BY DEF HandshakeInv, LooseTypes, Held, Side
<1>3. (Held(g) <=> spc[s] \in SenderHolding) /\ (Held(g)' <=> p \in SenderHolding)
  BY DEF HandshakeInv, LooseTypes, Held
<1> HIDE DEF g
<1> QED BY <1>1, <1>2, <1>3, OneMoves

LEMMA ReceiverMoves ==
    ASSUME HandshakeInv, PermitsShared, NEW s \in Session, NEW p, UNCHANGED spc,
           rpc' = [rpc EXCEPT ![s] = p],
           \/ (rpc[s] = "stream" <=> p = "stream") /\ UNCHANGED free
           \/ rpc[s] # "stream" /\ p = "stream" /\ Acquire(To[s[1]])
           \/ rpc[s] = "stream" /\ p # "stream" /\ Release(To[s[1]])
    PROVE  PermitsShared'
<1> DEFINE g == <<s, "receiver">>
<1>1. g \in Session \X Side /\ DeviceOf[g[1]][g[2]] = To[s[1]] /\ To[s[1]] \in Device
  BY SessionParts DEF Side
<1>2. \A h \in Session \X Side : h # g => (Held(h)' <=> Held(h))
  BY DEF HandshakeInv, LooseTypes, Held, Side
<1>3. (Held(g) <=> rpc[s] = "stream") /\ (Held(g)' <=> p = "stream")
  BY DEF HandshakeInv, LooseTypes, Held
<1> HIDE DEF g
<1> QED BY <1>1, <1>2, <1>3, OneMoves

LEMMA NobodyMoves ==
    ASSUME HandshakeInv, PermitsShared, UNCHANGED <<spc, rpc, free>>
    PROVE  PermitsShared'
  BY HeldBy DEF PermitsShared, Held

(* A crash frees the permits of its device, whose holders are gone.        *)
LEMMA CrashFrees ==
    ASSUME HandshakeInv, PermitsShared, NEW d \in Device, Crash(d)
    PROVE  PermitsShared'
<1>0. free \in [Device -> Nat] /\ MaxActive \in Nat
  BY HandshakeAssumption DEF HandshakeInv, LooseTypes
<1>1. ASSUME NEW e \in Device, e # d PROVE (free[e] + Cardinality(Holders(e)) = MaxActive)'
  <2>1. ASSUME NEW h \in Session \X Side, DeviceOf[h[1]][h[2]] = e
        PROVE  Held(h)' <=> Held(h)
    BY <1>1, <2>1, SessionParts DEF Crash, Held, Side
  <2>2. Holders(e)' = Holders(e)
    BY <2>1, HeldBy
  <2> QED BY <1>0, <1>1, <2>2 DEF Crash, PermitsShared
<1>2. (free[d] + Cardinality(Holders(d)) = MaxActive)'
  <2>1. ASSUME NEW h \in Session \X Side, DeviceOf[h[1]][h[2]] = d PROVE ~Held(h)'
    <3>1. CASE h[2] = "sender"
      BY <2>1, <3>1, SessionParts DEF Crash, Held, SenderHolding
    <3>2. CASE h[2] = "receiver"
      BY <2>1, <3>2, SessionParts DEF Crash, Held, HandshakeInv, SessionInv, WireTrue
    <3> QED BY <3>1, <3>2 DEF Side
  <2>2. Holders(d)' = {}
    BY <2>1, HeldBy
  <2>3. free'[d] = MaxActive
    BY <1>0 DEF Crash
  <2> QED BY <1>0, <2>2, <2>3, FS_EmptySet
<1> QED BY <1>1, <1>2 DEF PermitsShared

LEMMA PermitsKept == HandshakeInv /\ PermitsShared /\ [Next]_vars => PermitsShared'
<1> SUFFICES ASSUME HandshakeInv, PermitsShared, [Next]_vars PROVE PermitsShared'
  OBVIOUS
<1> USE DEF SenderHolding
<1>1. ASSUME NEW s \in Session, SenderNext(s) PROVE PermitsShared'
  <2>1. CASE Send(s)
    BY <2>1, SenderMoves DEF Send
  <2>2. CASE Connect(s)
    BY <2>2, SenderMoves DEF Connect
  <2>3. CASE SenderHello(s)
    <3>1. PICK p \in {"decision", "pairing"} : spc' = [spc EXCEPT ![s] = p]
      BY <2>3 DEF SenderHello
    <3> QED BY <2>3, <3>1, SenderMoves DEF SenderHello
  <2>4. CASE \E a \in Answer : SenderAnswer(s, a)
    BY <2>4, SenderMoves DEF SenderAnswer
  <2>5. CASE SenderConfirm(s)
    BY <2>5, SenderMoves DEF SenderConfirm, SenderEnds
  <2>6. CASE SenderDecision(s)
    BY <2>6, SenderMoves DEF SenderDecision, SenderEnds
  <2>7. CASE SenderResult(s)
    BY <2>7, SenderMoves DEF SenderResult, SenderEnds
  <2>8. CASE SenderFails(s)
    BY <2>8, SenderMoves DEF SenderFails, SenderEnds
  <2> QED BY <1>1, <2>1, <2>2, <2>3, <2>4, <2>5, <2>6, <2>7, <2>8 DEF SenderNext
<1>2. ASSUME NEW s \in Session, ReceiverNext(s) PROVE PermitsShared'
  <2>1. CASE ReceiverHello(s)
    BY <2>1, ReceiverMoves DEF ReceiverHello
  <2>2. CASE ReceiverOffer(s)
    BY <2>2, ReceiverMoves DEF ReceiverOffer
  <2>3. CASE PromptLost(s)
    BY <2>3, ReceiverMoves DEF PromptLost, ReceiverEnds
  <2>4. CASE \E a \in Answer : ReceiverAnswer(s, a)
    BY <2>4, ReceiverMoves DEF ReceiverAnswer, ReceiverEnds
  <2>5. CASE ReceiverPairing(s)
    BY <2>5, ReceiverMoves DEF ReceiverPairing, ReceiverEnds
  <2>6. CASE ReceiverGrant(s)
    BY <2>6, ReceiverMoves DEF ReceiverGrant, ReceiverEnds
  <2>7. CASE PrepareFails(s)
    BY <2>7, ReceiverMoves DEF PrepareFails, ReceiverEnds
  <2>8. CASE ReceiverResult(s)
    BY <2>8, ReceiverMoves DEF ReceiverResult, ReceiverEnds
  <2>9. CASE ReceiverFails(s)
    BY <2>9, ReceiverMoves DEF ReceiverFails, ReceiverEnds
  <2> QED BY <1>2, <2>1, <2>2, <2>3, <2>4, <2>5, <2>6, <2>7, <2>8, <2>9 DEF ReceiverNext
<1>3. ASSUME NEW t \in Transfers, CancelIncoming(t) PROVE PermitsShared'
  BY <1>3, NobodyMoves DEF CancelIncoming
<1>4. ASSUME NEW d \in Device, NEW e \in Device, ForgetPeer(d, e) PROVE PermitsShared'
  BY <1>4, NobodyMoves DEF ForgetPeer
<1>5. ASSUME NEW d \in Device, Crash(d) PROVE PermitsShared'
  BY <1>5, CrashFrees
<1>6. ASSUME UNCHANGED vars PROVE PermitsShared'
  BY <1>6, NobodyMoves DEF vars
<1> QED BY <1>1, <1>2, <1>3, <1>4, <1>5, <1>6 DEF Next

LEMMA PermitsAtFirst == Init => PermitsShared
<1> SUFFICES ASSUME Init, NEW d \in Device PROVE free[d] + Cardinality(Holders(d)) = MaxActive
  BY DEF PermitsShared
<1>1. Holders(d) = {}
  BY DEF Init, Holders, SenderHolding, Side
<1> QED
  BY <1>1, FS_EmptySet, HandshakeAssumption DEF Init

(* Handlers and tasks of a device share its permits, none is lost and none *)
(* is made, whichever way they end (outgoing.rs:601, lan.rs:308).          *)
THEOREM PermitsAddUp == Spec => []PermitsShared
<1>1. HandshakeInv /\ [Next]_vars => HandshakeInv'
  BY NextStep DEF Step
<1> QED
  BY <1>1, InitHolds, PermitsAtFirst, PermitsKept, PTL DEF Spec

(* Every variable keeps its type; that a device never has more permits     *)
(* than it was given, or fewer than none, rests on their sharing.          *)
THEOREM TypesKept == Spec => []TypeOK
<1>1. HandshakeInv /\ [Next]_vars => HandshakeInv'
  BY NextStep DEF Step
<1>2. ASSUME HandshakeInv, PermitsShared PROVE TypeOK
  <2>1. ASSUME NEW d \in Device PROVE free[d] \in 0..MaxActive
    <3>1. free[d] \in Nat /\ free[d] + Cardinality(Holders(d)) = MaxActive
      BY <1>2 DEF HandshakeInv, LooseTypes, PermitsShared
    <3>2. Cardinality(Holders(d)) \in Nat
      BY HoldersFinite, FS_CardinalityType
    <3> QED BY <3>1, <3>2, HandshakeAssumption
  <2> QED BY <1>2, <2>1 DEF HandshakeInv, LooseTypes, TypeOK
<1> QED
  BY <1>1, <1>2, InitHolds, PermitsAtFirst, PermitsKept, PTL DEF Spec

-----------------------------------------------------------------------------
(* Neither side waits for the other.                                       *)

(* How many messages each side has written and read while both are before  *)
(* the stream: a side that does not know the other has one more to say,    *)
(* the confirmation, and one more to hear.                                 *)
Opening(s) ==
    /\ spc[s] \in {"hello", "pairing", "confirm", "decision"}
    /\ rpc[s] \in {"hello", "offer", "answer", "pairing", "permit"}

SenderSettled(s) == spc[s] = "decision" /\ view[s]["sender"] = "stranger"
ReceiverSettled(s) == rpc[s] = "permit" /\ view[s]["receiver"] = "stranger"

SenderWrote(s) ==
    IF spc[s] = "hello" THEN 1 ELSE IF spc[s] = "confirm" \/ SenderSettled(s) THEN 3 ELSE 2
SenderRead(s) ==
    IF spc[s] = "hello" THEN 0 ELSE IF SenderSettled(s) THEN 2 ELSE 1
ReceiverRead(s) ==
    IF rpc[s] = "hello" THEN 0 ELSE IF rpc[s] = "offer" THEN 1
    ELSE IF ReceiverSettled(s) THEN 3 ELSE 2
ReceiverWrote(s) ==
    IF rpc[s] = "hello" THEN 0 ELSE IF ReceiverSettled(s) THEN 2 ELSE 1

(* What is under way is what one has written and the other has not read.   *)
Counted(s) ==
    /\ ~Connected(s) => toSender[s] = <<>>
    /\ Opening(s) =>
          /\ Len(toReceiver[s]) = SenderWrote(s) - ReceiverRead(s)
          /\ Len(toSender[s]) = ReceiverWrote(s) - SenderRead(s)

AllCounted == \A s \in Session : Counted(s)

LEMMA Lengths ==
    ASSUME NEW w \in Seq(Message)
    PROVE  /\ w # <<>> => Len(Tail(w)) = Len(w) - 1
           /\ \A m \in Message : Len(w \o <<m>>) = Len(w) + 1
           /\ Len(w) \in Nat /\ (w = <<>> <=> Len(w) = 0)
OBVIOUS

Tally == 0..3

LEMMA Tallies ==
    ASSUME NEW s \in Session
    PROVE  /\ SenderWrote(s) \in Tally /\ SenderRead(s) \in Tally
           /\ ReceiverRead(s) \in Tally /\ ReceiverWrote(s) \in Tally
BY DEF SenderWrote, SenderRead, ReceiverRead, ReceiverWrote, Tally

(* What a step may do to one session and its wires.                        *)
Untouched(s) ==
    /\ view'[s] = view[s] /\ spc'[s] = spc[s] /\ rpc'[s] = rpc[s]
    /\ toReceiver'[s] = toReceiver[s] /\ toSender'[s] = toSender[s]

LEMMA UntouchedCounted ==
    ASSUME NEW s \in Session, Counted(s), Untouched(s)
    PROVE  Counted(s)'
BY DEF Counted, Untouched, Connected, Opening, SenderWrote, SenderRead, ReceiverRead, ReceiverWrote,
   SenderSettled, ReceiverSettled

LEMMA ClosedCounted ==
    ASSUME NEW s \in Session, Connected(s)', ~Opening(s)'
    PROVE  Counted(s)'
BY DEF Counted

LEMMA SenderCounted ==
    ASSUME HandshakeInv, NEW s \in Session, Counted(s), SenderNext(s)
    PROVE  Counted(s)'
<1> USE DEF Counted, Opening, Connected, SenderSettled, ReceiverSettled
<1>0. /\ view[s] \in [Side -> {"unmet", "known", "stranger"}] /\ view \in [Session -> [Side -> {"unmet", "known", "stranger"}]]
      /\ spc \in [Session -> SenderPlace] /\ rpc \in [Session -> ReceiverPlace]
      /\ toReceiver \in [Session -> Seq(Message)] /\ toSender \in [Session -> Seq(Message)]
      /\ toReceiver[s] \in Seq(Message) /\ toSender[s] \in Seq(Message)
      /\ SenderKnows(s) /\ WireTrue(s)
  BY DEF HandshakeInv, LooseTypes, SessionInv
<1>L. /\ toSender[s] # <<>> => Len(Tail(toSender[s])) = Len(toSender[s]) - 1
      /\ \A m \in Message : Len(toReceiver[s] \o <<m>>) = Len(toReceiver[s]) + 1
      /\ Len(toSender[s]) \in Nat /\ Len(toReceiver[s]) \in Nat /\ Len(<<>>) = 0
  BY <1>0, Lengths
<1>1. CASE Send(s)
  BY <1>0, <1>1 DEF Send, WireTrue
<1>2. CASE Connect(s)
  <2>1. /\ spc'[s] = "hello" /\ rpc'[s] = "hello" /\ toReceiver[s] = <<>> /\ toSender'[s] = <<>>
        /\ toReceiver'[s] = toReceiver[s] \o <<"hello">>
    BY <1>0, <1>2 DEF Connect, Put, WireTrue
  <2> QED BY <2>1, <1>L, MessageNames DEF SenderWrote, SenderRead, ReceiverRead, ReceiverWrote
<1>3. CASE SenderHello(s)
  <2>1. /\ spc[s] = "hello" /\ toSender[s] # <<>>
        /\ toReceiver'[s] = toReceiver[s] \o <<"offer">> /\ toSender'[s] = Tail(toSender[s])
        /\ rpc'[s] = rpc[s] /\ view'[s]["receiver"] = view[s]["receiver"]
        /\ \/ spc'[s] = "decision" /\ view'[s]["sender"] = "known"
           \/ spc'[s] = "pairing"
    BY <1>0, <1>3 DEF SenderHello, Put, Rest, Meet, Side
  <2>2. /\ SenderWrote(s) = 1 /\ SenderRead(s) = 0 /\ SenderWrote(s)' = 2 /\ SenderRead(s)' = 1
        /\ ReceiverRead(s)' = ReceiverRead(s) /\ ReceiverWrote(s)' = ReceiverWrote(s)
    BY <2>1 DEF SenderWrote, SenderRead, ReceiverRead, ReceiverWrote
  <2>3. /\ Len(toReceiver'[s]) = Len(toReceiver[s]) + 1 /\ Len(toSender'[s]) = Len(toSender[s]) - 1
        /\ Opening(s)' => Opening(s)
    BY <2>1, <1>L, MessageNames
  <2> QED BY <2>1, <2>2, <2>3, <1>L, Tallies DEF Tally
<1>4. ASSUME NEW a \in Answer, SenderAnswer(s, a) PROVE Counted(s)'
  <2>1. PICK m \in Message : toReceiver'[s] = toReceiver[s] \o <<m>>
    BY <1>0, <1>4, MessageNames DEF SenderAnswer, Put
  <2>2. /\ spc[s] = "pairing" /\ spc'[s] = "confirm"
        /\ toSender'[s] = toSender[s] /\ rpc'[s] = rpc[s] /\ view' = view
    BY <1>0, <1>4 DEF SenderAnswer
  <2>3. /\ SenderWrote(s) = 2 /\ SenderRead(s) = 1 /\ SenderWrote(s)' = 3 /\ SenderRead(s)' = 1
        /\ ReceiverRead(s)' = ReceiverRead(s) /\ ReceiverWrote(s)' = ReceiverWrote(s)
    BY <2>2 DEF SenderWrote, SenderRead, ReceiverRead, ReceiverWrote
  <2>4. Len(toReceiver'[s]) = Len(toReceiver[s]) + 1 /\ (Opening(s)' => Opening(s))
    BY <2>1, <2>2, <1>L
  <2> QED BY <2>2, <2>3, <2>4, <1>L, Tallies DEF Tally
<1>5. CASE SenderConfirm(s)
  <2>1. /\ spc[s] = "confirm" /\ toSender[s] # <<>> /\ view[s]["sender"] = "stranger"
        /\ toReceiver'[s] = toReceiver[s] /\ toSender'[s] = Tail(toSender[s])
        /\ rpc'[s] = rpc[s] /\ view' = view
        /\ spc'[s] \in {"decision", "over"}
    BY <1>0, <1>5 DEF SenderConfirm, SenderEnds, Rest, SenderKnows
  <2>2. CASE spc'[s] = "over"
    BY <2>2
  <2>3. CASE spc'[s] = "decision"
    <3>1. /\ SenderWrote(s) = 3 /\ SenderRead(s) = 1 /\ SenderWrote(s)' = 3 /\ SenderRead(s)' = 2
          /\ ReceiverRead(s)' = ReceiverRead(s) /\ ReceiverWrote(s)' = ReceiverWrote(s)
      BY <2>1, <2>3 DEF SenderWrote, SenderRead, ReceiverRead, ReceiverWrote
    <3>2. Len(toSender'[s]) = Len(toSender[s]) - 1 /\ (Opening(s)' => Opening(s))
      BY <2>1, <1>L
    <3> QED BY <2>1, <2>3, <3>1, <3>2, <1>L, Tallies DEF Tally
  <2> QED BY <2>1, <2>2, <2>3
<1>6. CASE SenderDecision(s) \/ SenderResult(s) \/ SenderFails(s)
  <2>1. spc'[s] \in {"stream", "over", "sent"}
    BY <1>0, <1>6 DEF SenderDecision, SenderResult, SenderFails, SenderEnds
  <2> QED BY <2>1
<1> QED BY <1>1, <1>2, <1>3, <1>4, <1>5, <1>6 DEF SenderNext, SenderAnswer

LEMMA ReceiverCounted ==
    ASSUME HandshakeInv, NEW s \in Session, Counted(s), ReceiverNext(s)
    PROVE  Counted(s)'
<1> USE DEF Counted, Opening, Connected, SenderSettled, ReceiverSettled
<1>0. /\ view \in [Session -> [Side -> {"unmet", "known", "stranger"}]]
      /\ spc \in [Session -> SenderPlace] /\ rpc \in [Session -> ReceiverPlace]
      /\ toReceiver \in [Session -> Seq(Message)] /\ toSender \in [Session -> Seq(Message)]
      /\ toReceiver[s] \in Seq(Message) /\ toSender[s] \in Seq(Message)
      /\ ReceiverKnows(s) /\ WireTrue(s)
  BY DEF HandshakeInv, LooseTypes, SessionInv
<1>L. /\ toReceiver[s] # <<>> => Len(Tail(toReceiver[s])) = Len(toReceiver[s]) - 1
      /\ \A m \in Message : Len(toSender[s] \o <<m>>) = Len(toSender[s]) + 1
      /\ Len(toSender[s]) \in Nat /\ Len(toReceiver[s]) \in Nat /\ Len(<<>>) = 0
  BY <1>0, Lengths
<1>c. ReceiverNext(s) => Connected(s)
  <2>1. rpc[s] # "hello" \/ toReceiver[s] # <<>> => Connected(s)
    BY <1>0 DEF WireTrue
  <2> QED
    BY <2>1 DEF ReceiverNext, ReceiverHello, ReceiverOffer, PromptLost, ReceiverAnswer,
       ReceiverPairing, ReceiverGrant, PrepareFails, ReceiverResult, ReceiverFails
<1>s. ReceiverNext(s) => spc' = spc
  BY DEF ReceiverNext, ReceiverHello, ReceiverOffer, PromptLost, ReceiverAnswer, ReceiverPairing,
     ReceiverGrant, PrepareFails, ReceiverResult, ReceiverFails, pairing
<1>e. CASE rpc'[s] \in {"stream", "over"}
  BY <1>e, <1>c, <1>s
<1>1. CASE ReceiverHello(s)
  <2>1. /\ rpc[s] = "hello" /\ toReceiver[s] # <<>>
        /\ toSender'[s] = toSender[s] \o <<"hello">> /\ toReceiver'[s] = Tail(toReceiver[s])
        /\ spc'[s] = spc[s] /\ view'[s]["sender"] = view[s]["sender"]
        /\ rpc'[s] = "offer"
    BY <1>0, <1>1 DEF ReceiverHello, Put, Rest, Meet, Side
  <2>2. /\ ReceiverRead(s) = 0 /\ ReceiverRead(s)' = 1
        /\ ReceiverWrote(s) = 0 /\ ReceiverWrote(s)' = 1
        /\ SenderWrote(s)' = SenderWrote(s) /\ SenderRead(s)' = SenderRead(s)
    BY <2>1 DEF SenderWrote, SenderRead, ReceiverRead, ReceiverWrote
  <2>3. /\ Len(toReceiver'[s]) = Len(toReceiver[s]) - 1
        /\ Len(toSender'[s]) = Len(toSender[s]) + 1
        /\ Opening(s)' => Opening(s)
    BY <2>1, <1>L, MessageNames
  <2>4. Connected(s)'
    BY <1>0, <2>1 DEF WireTrue
  <2> QED BY <1>L, <2>1, <2>2, <2>3, <2>4, Tallies DEF Tally
<1>2. CASE ReceiverOffer(s)
  <2>1. /\ rpc[s] = "offer" /\ toReceiver[s] # <<>>
        /\ toSender'[s] = toSender[s] /\ toReceiver'[s] = Tail(toReceiver[s])
        /\ spc'[s] = spc[s] /\ view' = view
        /\ rpc'[s] = "answer" \/ (rpc'[s] = "permit" /\ view[s]["receiver"] = "known")
    BY <1>0, <1>2 DEF ReceiverOffer, Rest, pairing
  <2>2. /\ ReceiverRead(s) = 1 /\ ReceiverRead(s)' = 2
        /\ ReceiverWrote(s) = 1 /\ ReceiverWrote(s)' = 1
        /\ SenderWrote(s)' = SenderWrote(s) /\ SenderRead(s)' = SenderRead(s)
    BY <2>1 DEF SenderWrote, SenderRead, ReceiverRead, ReceiverWrote
  <2>3. /\ Len(toReceiver'[s]) = Len(toReceiver[s]) - 1
        /\ Len(toSender'[s]) = Len(toSender[s])
        /\ Opening(s)' => Opening(s)
    BY <2>1, <1>L, MessageNames
  <2> QED BY <1>L, <2>1, <2>2, <2>3, Tallies DEF Tally
<1>3. ASSUME NEW a \in Answer, ReceiverAnswer(s, a), rpc'[s] # "over" PROVE Counted(s)'
  <2>1. /\ rpc[s] = "answer" /\ toSender'[s] = toSender[s] /\ toReceiver'[s] = toReceiver[s]
        /\ spc'[s] = spc[s] /\ view' = view
        /\ rpc'[s] = "pairing" \/ (rpc'[s] = "permit" /\ view[s]["receiver"] = "known")
    BY <1>0, <1>3 DEF ReceiverAnswer, ReceiverEnds
  <2>2. /\ ReceiverRead(s) = 2 /\ ReceiverRead(s)' = 2
        /\ ReceiverWrote(s) = 1 /\ ReceiverWrote(s)' = 1
        /\ SenderWrote(s)' = SenderWrote(s) /\ SenderRead(s)' = SenderRead(s)
    BY <2>1 DEF SenderWrote, SenderRead, ReceiverRead, ReceiverWrote
  <2>3. /\ Len(toReceiver'[s]) = Len(toReceiver[s])
        /\ Len(toSender'[s]) = Len(toSender[s])
        /\ Opening(s)' => Opening(s)
    BY <2>1, <1>L, MessageNames
  <2> QED BY <1>L, <2>1, <2>2, <2>3, Tallies DEF Tally
<1>4. ASSUME ReceiverPairing(s), rpc'[s] # "over" PROVE Counted(s)'
  <2>1. /\ rpc[s] = "pairing" /\ toReceiver[s] # <<>> /\ view[s]["receiver"] = "stranger"
        /\ toSender'[s] = toSender[s] \o <<"yes">> /\ toReceiver'[s] = Tail(toReceiver[s])
        /\ spc'[s] = spc[s] /\ view' = view /\ rpc'[s] = "permit"
    BY <1>0, <1>4 DEF ReceiverPairing, ReceiverEnds, Put, Rest, ReceiverKnows
  <2>2. /\ ReceiverRead(s) = 2 /\ ReceiverRead(s)' = 3
        /\ ReceiverWrote(s) = 1 /\ ReceiverWrote(s)' = 2
        /\ SenderWrote(s)' = SenderWrote(s) /\ SenderRead(s)' = SenderRead(s)
    BY <2>1 DEF SenderWrote, SenderRead, ReceiverRead, ReceiverWrote
  <2>3. /\ Len(toReceiver'[s]) = Len(toReceiver[s]) - 1
        /\ Len(toSender'[s]) = Len(toSender[s]) + 1
        /\ Opening(s)' => Opening(s)
    BY <2>1, <1>L, MessageNames
  <2>4. Connected(s)'
    BY <1>0, <2>1 DEF WireTrue
  <2> QED BY <1>L, <2>1, <2>2, <2>3, <2>4, Tallies DEF Tally
<1>5. PromptLost(s) \/ ReceiverGrant(s) \/ PrepareFails(s) \/ ReceiverResult(s) \/ ReceiverFails(s)
        => rpc'[s] \in {"stream", "over"}
  BY <1>0 DEF PromptLost, ReceiverGrant, PrepareFails, ReceiverResult, ReceiverFails, ReceiverEnds
<1> QED BY <1>e, <1>1, <1>2, <1>3, <1>4, <1>5 DEF ReceiverNext

(* No step of a session touches another one.                               *)
LEMMA OthersUntouched ==
    ASSUME HandshakeInv, NEW s \in Session, SenderNext(s) \/ ReceiverNext(s),
           NEW r \in Session, r # s
    PROVE  Untouched(r)
<1>0. /\ view \in [Session -> [Side -> {"unmet", "known", "stranger"}]]
      /\ spc \in [Session -> SenderPlace] /\ rpc \in [Session -> ReceiverPlace]
      /\ toReceiver \in [Session -> Seq(Message)] /\ toSender \in [Session -> Seq(Message)]
  BY DEF HandshakeInv, LooseTypes
<1> USE <1>0 DEF Untouched, pairing, Rest, Put, Meet, SenderEnds, ReceiverEnds
<1>1. CASE SenderNext(s)
  BY <1>1 DEF SenderNext, Send, Connect, SenderHello, SenderAnswer, SenderConfirm, SenderDecision,
     SenderResult, SenderFails
<1>2. CASE ReceiverNext(s)
  BY <1>2 DEF ReceiverNext, ReceiverHello, ReceiverOffer, PromptLost, ReceiverAnswer,
     ReceiverPairing, ReceiverGrant, PrepareFails, ReceiverResult, ReceiverFails
<1> QED BY <1>1, <1>2

LEMMA CountedAlways == Spec => [](HandshakeInv /\ AllCounted)
<1>1. Init => AllCounted
  BY DEF Init, AllCounted, Counted, Opening
<1>2. HandshakeInv /\ AllCounted /\ [Next]_vars => AllCounted'
  <2> SUFFICES ASSUME HandshakeInv, AllCounted, [Next]_vars, NEW r \in Session
               PROVE  Counted(r)'
    BY DEF AllCounted
  <2>0. Counted(r)
    BY DEF AllCounted
  <2>1. ASSUME NEW s \in Session, SenderNext(s) \/ ReceiverNext(s) PROVE Counted(r)'
    BY <2>0, <2>1, SenderCounted, ReceiverCounted, OthersUntouched, UntouchedCounted
  <2>2. CASE \/ \E t \in Transfers : CancelIncoming(t)
             \/ \E d, e \in Device : ForgetPeer(d, e)
             \/ UNCHANGED vars
    <3>1. Untouched(r)
      BY <2>2 DEF CancelIncoming, ForgetPeer, vars, pairing, Untouched
    <3> QED BY <2>0, <3>1, UntouchedCounted
  <2>3. ASSUME NEW d \in Device, Crash(d) PROVE Counted(r)'
    <3>1. /\ spc'[r] = spc[r] \/ spc'[r] = "over"
          /\ rpc'[r] = rpc[r] \/ (rpc'[r] = "over" /\ Connected(r))
          /\ Connected(r) => Connected(r)'
          /\ view' = view /\ toReceiver' = toReceiver /\ toSender' = toSender
      BY <2>3 DEF Crash, pairing, Connected
    <3>2. CASE spc'[r] = spc[r] /\ rpc'[r] = rpc[r]
      BY <2>0, <3>1, <3>2, UntouchedCounted DEF Untouched
    <3>3. CASE spc'[r] = "over" \/ (rpc'[r] = "over" /\ Connected(r))
      BY <3>1, <3>3, ClosedCounted DEF Opening, Connected
    <3> QED BY <3>1, <3>2, <3>3
  <2> QED BY <2>1, <2>2, <2>3 DEF Next
<1>3. HandshakeInv /\ [Next]_vars => HandshakeInv'
  BY NextStep DEF Step
<1> QED BY <1>1, <1>2, <1>3, InitHolds, PTL DEF Spec

(* Devices that found the same of each other are never left both reading:  *)
(* then both count the same messages, and the last one written is either   *)
(* under way or its reader's turn to write (outgoing.rs:633-677 against    *)
(* lan.rs:263-296).                                                        *)
THEOREM AlikeIsNeverStuck == Spec => []AlikeNeverStuck
<1>1. ASSUME HandshakeInv, AllCounted PROVE AlikeNeverStuck
  <2> SUFFICES ASSUME NEW s \in Session, view[s]["sender"] = view[s]["receiver"], MutualWait(s)
               PROVE  FALSE
    BY DEF AlikeNeverStuck
  <2>1. /\ Len(toReceiver[s]) = 0 /\ Len(toSender[s]) = 0 /\ Opening(s)
        /\ spc[s] \in {"hello", "confirm", "decision"} /\ rpc[s] \in {"hello", "offer", "pairing"}
    BY DEF MutualWait, Opening
  <2>2. SenderWrote(s) = ReceiverRead(s) /\ ReceiverWrote(s) = SenderRead(s)
    BY <1>1, <2>1, Tallies DEF AllCounted, Counted, Tally
  <2>3. rpc[s] = "pairing" => view[s]["receiver"] = "stranger"
    BY <1>1 DEF HandshakeInv, SessionInv, ReceiverKnows
  <2> QED BY <2>1, <2>2, <2>3 DEF SenderWrote, SenderRead, ReceiverRead, ReceiverWrote,
             SenderSettled, ReceiverSettled
<1> QED BY <1>1, CountedAlways, PTL
=============================================================================
