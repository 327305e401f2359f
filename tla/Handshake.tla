----------------------------- MODULE Handshake -----------------------------
(***************************************************************************)
(* The control connection from its first message to the stream, on both    *)
(* devices: run_outgoing (outgoing.rs) against handle_incoming_control     *)
(* (lan.rs), with the trust tables, the users who compare the six digits,  *)
(* the prompts of pending_answers and the two semaphores of active_tasks.  *)
(*                                                                         *)
(* A session is one connection for one transfer; session n + 1 is a retry. *)
(* Messages of a connection arrive in order; a side whose connection broke *)
(* stops at its next read.  No read has a timeout.  Channels, chunks and   *)
(* files are the business of IncomingTransfer: here the stream is one      *)
(* place, which ends with the receiver's result.                           *)
(***************************************************************************)
EXTENDS TransferModel, Integers, FiniteSets, Sequences

CONSTANTS
    Device,
    Transfers,
    From, To,       \* the devices that send and receive each transfer
    MaxSessions,    \* bound: connections per transfer
    MaxActive,      \* permits of active_tasks on each device (2 in core.rs)
    MaxCrashes,     \* bound: crashes of a device
    NoRecord        \* the receiver has no record of the transfer

ASSUME HandshakeAssumption ==
    /\ IsFiniteSet(Device) /\ IsFiniteSet(Transfers)
    /\ From \in [Transfers -> Device] /\ To \in [Transfers -> Device]
    /\ \A t \in Transfers : From[t] # To[t]
    /\ MaxSessions \in Nat \ {0} /\ MaxActive \in Nat \ {0} /\ MaxCrashes \in Nat
    /\ NoRecord \notin TransferState

Session == Transfers \X (1..MaxSessions)

Side == {"sender", "receiver"}

DeviceOf ==
    [s \in Session |-> [i \in Side |-> IF i = "sender" THEN From[s[1]] ELSE To[s[1]]]]

VARIABLES
    trusts,     \* table trusted_peers of every device, as pairs
    view,       \* is_trusted, as each side read it after the other's hello
    said,       \* OfferAnswer of each side's user
    granted,    \* history: sessions for which the receiver sent an accepting decision
    started,    \* history: sessions for which the sender went on to stream
    spc, rpc,   \* where run_outgoing and handle_incoming_control stand
    toReceiver, toSender,   \* messages under way on each connection
    prompt,     \* the session whose prompt for a transfer is in pending_answers, or 0
    record,     \* the receiver's record of each transfer
    free,       \* free permits of each device
    crashes     \* number of crashes so far

pairing == <<trusts, view, said, granted, started>>
vars == <<pairing, spc, rpc, toReceiver, toSender, prompt, record, free, crashes>>

(* What the two sides promise each other.                                  *)
Promise == INSTANCE Pairing

Yes == {"accept", "remember"}
Answer == {"refuse"} \cup Yes

(* PairingConfirmation is "yes" or "no", TransferDecision with its resume  *)
(* map is "grant", without "deny", TransferResult "ok" or "failed".        *)
Message == {"hello", "offer", "yes", "no", "grant", "deny", "ok", "failed"}

SenderPlace == {"idle", "permit", "hello", "pairing", "confirm", "decision",
                "stream", "over", "sent"}
ReceiverPlace == {"hello", "offer", "answer", "pairing", "permit", "stream", "over"}

SenderHolding == {"hello", "pairing", "confirm", "decision", "stream"}

Holders(d) ==
    {h \in Session \X Side :
        /\ DeviceOf[h[1]][h[2]] = d
        /\ h[2] = "sender" => spc[h[1]] \in SenderHolding
        /\ h[2] = "receiver" => rpc[h[1]] = "stream"}

TypeOK ==
    /\ trusts \subseteq Device \X Device
    /\ view \in [Session -> [Side -> {"unmet", "known", "stranger"}]]
    /\ said \in [Session -> [Side -> Answer \cup {"silent"}]]
    /\ granted \subseteq Session /\ started \subseteq Session
    /\ spc \in [Session -> SenderPlace] /\ rpc \in [Session -> ReceiverPlace]
    /\ toReceiver \in [Session -> Seq(Message)] /\ toSender \in [Session -> Seq(Message)]
    /\ prompt \in [Transfers -> 0..MaxSessions]
    /\ record \in [Transfers -> TransferState \cup {NoRecord}]
    /\ free \in [Device -> 0..MaxActive]
    /\ crashes \in 0..MaxCrashes

Init ==
    /\ trusts = {} /\ granted = {} /\ started = {}
    /\ view = [s \in Session |-> [i \in Side |-> "unmet"]]
    /\ said = [s \in Session |-> [i \in Side |-> "silent"]]
    /\ spc = [s \in Session |-> "idle"] /\ rpc = [s \in Session |-> "hello"]
    /\ toReceiver = [s \in Session |-> <<>>] /\ toSender = [s \in Session |-> <<>>]
    /\ prompt = [t \in Transfers |-> 0]
    /\ record = [t \in Transfers |-> NoRecord]
    /\ free = [d \in Device |-> MaxActive]
    /\ crashes = 0

-----------------------------------------------------------------------------
(* The connection and the permits.                                         *)

Rest(wire, s) == [wire EXCEPT ![s] = Tail(@)]

Put(wire, s, messages) == [wire EXCEPT ![s] = @ \o messages]

(* A permit lives as long as the task or handler that took it.             *)
Acquire(d) == free[d] > 0 /\ free' = [free EXCEPT ![d] = @ - 1]

(* Mutant: the permit is given back twice. *)
ReleaseTwice(d) == free' = [free EXCEPT ![d] = @ + 2]

Release(d) == free' = [free EXCEPT ![d] = @ + 1]

(* is_trusted, asked once per session.                                     *)
Meet(s, i) ==
    view' = [view EXCEPT ![s][i] = IF Promise!Trust(s, i) \in trusts THEN "known" ELSE "stranger"]

(* trust_peer.                                                             *)
TrustIf(s, i, agreed) ==
    trusts' = IF agreed /\ said[s][i] = "remember"
              THEN trusts \cup {Promise!Trust(s, i)} ELSE trusts

-----------------------------------------------------------------------------
(* run_outgoing.                                                           *)

(* send, or a retry of a session that is over.                             *)
Send(s) ==
    /\ spc[s] = "idle"
    /\ s[2] > 1 => spc[<<s[1], s[2] - 1>>] = "over"
    /\ spc' = [spc EXCEPT ![s] = "permit"]
    /\ UNCHANGED <<pairing, rpc, toReceiver, toSender, prompt, record, free, crashes>>

(* The permit is held while the task connects and from then on.            *)
Connect(s) ==
    /\ spc[s] = "permit"
    /\ Acquire(From[s[1]])
    /\ spc' = [spc EXCEPT ![s] = "hello"]
    /\ toReceiver' = Put(toReceiver, s, <<"hello">>)
    /\ UNCHANGED <<pairing, rpc, toSender, prompt, record, crashes>>

SenderHello(s) ==
    /\ spc[s] = "hello" /\ toSender[s] # <<>>
    /\ Meet(s, "sender")
    /\ spc' = [spc EXCEPT ![s] = IF view'[s]["sender"] = "known" THEN "decision" ELSE "pairing"]
    /\ toSender' = Rest(toSender, s)
    /\ toReceiver' = Put(toReceiver, s, <<"offer">>)
    /\ UNCHANGED <<trusts, said, granted, started, rpc, prompt, record, free, crashes>>

(* Mutant: a user who refuses just goes away. *)
SenderRefusesSilently(s, a) ==
    /\ spc[s] = "pairing"
    /\ said' = [said EXCEPT ![s]["sender"] = a]
    /\ toReceiver' = IF a \in Yes THEN Put(toReceiver, s, <<"yes">>) ELSE toReceiver
    /\ spc' = [spc EXCEPT ![s] = "confirm"]
    /\ UNCHANGED <<trusts, view, granted, started, rpc, toSender, prompt, record, free, crashes>>

SenderAnswer(s, a) ==
    /\ spc[s] = "pairing"
    /\ said' = [said EXCEPT ![s]["sender"] = a]
    /\ toReceiver' = Put(toReceiver, s, <<IF a \in Yes THEN "yes" ELSE "no">>)
    /\ spc' = [spc EXCEPT ![s] = "confirm"]
    /\ UNCHANGED <<trusts, view, granted, started, rpc, toSender, prompt, record, free, crashes>>

(* The task returns an error and drops its permit.                         *)
SenderEnds(s) ==
    /\ spc' = [spc EXCEPT ![s] = "over"]
    /\ Release(From[s[1]])

(* Mutant: the peer is remembered before its confirmation is read. *)
SenderTrustsEarly(s) ==
    /\ spc[s] = "confirm" /\ toSender[s] # <<>>
    /\ toSender' = Rest(toSender, s)
    /\ LET agreed == Head(toSender[s]) = "yes" /\ said[s]["sender"] \in Yes
       IN  /\ TrustIf(s, "sender", TRUE)
           /\ \/ agreed /\ spc' = [spc EXCEPT ![s] = "decision"] /\ UNCHANGED free
              \/ ~agreed /\ SenderEnds(s)
    /\ UNCHANGED <<view, said, granted, started, rpc, toReceiver, prompt, record, crashes>>

(* Anything but a confirmation is an unexpected message.                   *)
SenderConfirm(s) ==
    /\ spc[s] = "confirm" /\ toSender[s] # <<>>
    /\ toSender' = Rest(toSender, s)
    /\ LET agreed == Head(toSender[s]) = "yes" /\ said[s]["sender"] \in Yes
       IN  /\ TrustIf(s, "sender", agreed)
           /\ \/ agreed /\ spc' = [spc EXCEPT ![s] = "decision"] /\ UNCHANGED free
              \/ ~agreed /\ SenderEnds(s)
    /\ UNCHANGED <<view, said, granted, started, rpc, toReceiver, prompt, record, crashes>>

SenderDecision(s) ==
    /\ spc[s] = "decision" /\ toSender[s] # <<>>
    /\ toSender' = Rest(toSender, s)
    /\ \/ /\ Head(toSender[s]) = "grant"
          /\ spc' = [spc EXCEPT ![s] = "stream"]
          /\ started' = started \cup {s}
          /\ UNCHANGED free
       \/ Head(toSender[s]) # "grant" /\ SenderEnds(s) /\ UNCHANGED started
    /\ UNCHANGED <<trusts, view, said, granted, rpc, toReceiver, prompt, record, crashes>>

SenderResult(s) ==
    /\ spc[s] = "stream" /\ toSender[s] # <<>>
    /\ toSender' = Rest(toSender, s)
    /\ \/ Head(toSender[s]) = "ok" /\ spc' = [spc EXCEPT ![s] = "sent"] /\ Release(From[s[1]])
       \/ Head(toSender[s]) # "ok" /\ SenderEnds(s)
    /\ UNCHANGED <<pairing, rpc, toReceiver, prompt, record, crashes>>

(* The connection cannot be made or breaks, or the record was cancelled    *)
(* and refuses the next transition: wherever the task reads the wire.      *)
SenderFails(s) ==
    /\ spc[s] \in SenderHolding \ {"pairing"}
    /\ SenderEnds(s)
    /\ UNCHANGED <<pairing, rpc, toReceiver, toSender, prompt, record, crashes>>

-----------------------------------------------------------------------------
(* handle_incoming_control.                                                *)

Connected(s) == spc[s] \notin {"idle", "permit"}

ReceiverHello(s) ==
    /\ rpc[s] = "hello" /\ toReceiver[s] # <<>>
    /\ Meet(s, "receiver")
    /\ toReceiver' = Rest(toReceiver, s)
    /\ toSender' = Put(toSender, s, <<"hello">>)
    /\ rpc' = [rpc EXCEPT ![s] = "offer"]
    /\ UNCHANGED <<trusts, said, granted, started, spc, prompt, record, free, crashes>>

(* add_incoming_transfer replaces the record whatever it was.  A trusted   *)
(* sender is accepted at once when auto_accept_trusted is set; otherwise   *)
(* request_answer puts this session's prompt in the place of an older one. *)
ReceiverOffer(s) ==
    /\ rpc[s] = "offer" /\ toReceiver[s] # <<>>
    /\ toReceiver' = Rest(toReceiver, s)
    /\ record' = [record EXCEPT ![s[1]] =
                    IF view[s]["receiver"] = "known" THEN "WaitingForAcceptance" ELSE "Pairing"]
    /\ \/ /\ view[s]["receiver"] = "known"
          /\ rpc' = [rpc EXCEPT ![s] = "permit"]
          /\ UNCHANGED prompt
       \/ /\ rpc' = [rpc EXCEPT ![s] = "answer"]
          /\ prompt' = [prompt EXCEPT ![s[1]] = s[2]]
    /\ UNCHANGED <<pairing, spc, toSender, free, crashes>>

(* The handler returns; accept_loop records how.                           *)
ReceiverEnds(s, outcome) ==
    /\ rpc' = [rpc EXCEPT ![s] = "over"]
    /\ record' = [record EXCEPT ![s[1]] = IF @ = NoRecord THEN @ ELSE AfterOutcome(@, outcome)]

(* A newer session has dropped the sender half: OfferExpired.              *)
PromptLost(s) ==
    /\ rpc[s] = "answer" /\ prompt[s[1]] # s[2]
    /\ ReceiverEnds(s, "fatal")
    /\ UNCHANGED <<pairing, spc, toReceiver, toSender, prompt, free, crashes>>

ReceiverAnswer(s, a) ==
    /\ rpc[s] = "answer" /\ prompt[s[1]] = s[2]
    /\ prompt' = [prompt EXCEPT ![s[1]] = 0]
    /\ said' = [said EXCEPT ![s]["receiver"] = a]
    /\ \/ /\ view[s]["receiver"] = "stranger"
          /\ rpc' = [rpc EXCEPT ![s] = "pairing"]
          /\ UNCHANGED <<toSender, record>>
       \/ /\ view[s]["receiver"] = "known" /\ a \in Yes
          /\ rpc' = [rpc EXCEPT ![s] = "permit"]
          /\ UNCHANGED <<toSender, record>>
       \/ /\ view[s]["receiver"] = "known" /\ a \notin Yes
          /\ ReceiverEnds(s, "fatal")
          /\ toSender' = Put(toSender, s, <<"deny">>)
    /\ UNCHANGED <<trusts, view, granted, started, spc, toReceiver, free, crashes>>

(* Mutant: only the sender's confirmation counts. *)
PeerAnswerOnly(s, m) == m = "yes"

(* pairing_accepted: this user's answer and the sender's confirmation.     *)
PairingAccepted(s, m) == said[s]["receiver"] \in Yes /\ m = "yes"

(* What the two users said is sent back before it is acted upon.           *)
ReceiverPairing(s) ==
    /\ rpc[s] = "pairing" /\ toReceiver[s] # <<>>
    /\ toReceiver' = Rest(toReceiver, s)
    /\ LET agreed == PairingAccepted(s, Head(toReceiver[s]))
       IN  /\ toSender' = Put(toSender, s, IF agreed THEN <<"yes">> ELSE <<"no", "deny">>)
           /\ TrustIf(s, "receiver", agreed)
           /\ \/ /\ agreed /\ CanTransition(record[s[1]], "WaitingForAcceptance")
                 /\ rpc' = [rpc EXCEPT ![s] = "permit"]
                 /\ record' = [record EXCEPT ![s[1]] = "WaitingForAcceptance"]
              \/ /\ ~(agreed /\ CanTransition(record[s[1]], "WaitingForAcceptance"))
                 /\ ReceiverEnds(s, "fatal")
    /\ UNCHANGED <<view, said, granted, started, spc, prompt, free, crashes>>

(* prepare_incoming, the decision and the resume map.  The decision is on  *)
(* its way before the record is asked whether it may be Transferring.      *)
ReceiverGrant(s) ==
    /\ rpc[s] = "permit" /\ free[To[s[1]]] > 0
    /\ toSender' = Put(toSender, s, <<"grant">>)
    /\ granted' = granted \cup {s}
    /\ \/ /\ CanTransition(record[s[1]], "Transferring")
          /\ Acquire(To[s[1]])
          /\ rpc' = [rpc EXCEPT ![s] = "stream"]
          /\ record' = [record EXCEPT ![s[1]] = "Transferring"]
       \/ /\ ~CanTransition(record[s[1]], "Transferring")
          /\ ReceiverEnds(s, "fatal")
          /\ UNCHANGED free
    /\ UNCHANGED <<trusts, view, said, started, spc, toReceiver, prompt, crashes>>

(* The permit was taken, and prepare_incoming failed.                      *)
PrepareFails(s) ==
    /\ rpc[s] = "permit" /\ free[To[s[1]]] > 0
    /\ \E outcome \in {"retryable", "fatal"} : ReceiverEnds(s, outcome)
    /\ UNCHANGED <<pairing, spc, toReceiver, toSender, prompt, free, crashes>>

(* Everything has arrived and is renamed, or finalize_incoming failed.     *)
ReceiverResult(s) ==
    /\ rpc[s] = "stream" /\ record[s[1]] = "Transferring"
    /\ Release(To[s[1]])
    /\ \/ /\ rpc' = [rpc EXCEPT ![s] = "over"]
          /\ record' = [record EXCEPT ![s[1]] = "Completed"]
          /\ toSender' = Put(toSender, s, <<"ok">>)
       \/ /\ \E outcome \in {"retryable", "fatal"} : ReceiverEnds(s, outcome)
          /\ toSender' = Put(toSender, s, <<"failed">>)
    /\ UNCHANGED <<pairing, spc, toReceiver, prompt, crashes>>

(* Mutant: a handler that stops streaming keeps its permit. *)
ReceiverFailsLeaky(s) ==
    /\ rpc[s] \in {"hello", "offer", "pairing", "stream"} /\ Connected(s)
    /\ \E outcome \in IF rpc[s] = "stream" THEN Outcome ELSE {"retryable", "fatal"} :
            ReceiverEnds(s, outcome)
    /\ UNCHANGED <<pairing, spc, toReceiver, toSender, prompt, free, crashes>>

(* The connection breaks where the handler reads it, or, in the stream,    *)
(* the transfer is cancelled or fails.  Before ConnectionOpen is read      *)
(* nothing is known of the transfer, and no record is touched.             *)
ReceiverFails(s) ==
    /\ rpc[s] \in {"hello", "offer", "pairing", "stream"} /\ Connected(s)
    /\ \/ \E outcome \in IF rpc[s] = "stream" THEN Outcome ELSE {"retryable", "fatal"} :
            ReceiverEnds(s, outcome)
       \/ rpc[s] = "hello" /\ rpc' = [rpc EXCEPT ![s] = "over"] /\ UNCHANGED record
    /\ IF rpc[s] = "stream" THEN Release(To[s[1]]) ELSE UNCHANGED free
    /\ UNCHANGED <<pairing, spc, toReceiver, toSender, prompt, crashes>>

-----------------------------------------------------------------------------
(* The users and the processes.                                            *)

(* command_transfer with Cancel on the receiving device.                   *)
CancelIncoming(t) ==
    /\ record[t] \notin {NoRecord} \cup Terminal
    /\ record' = [record EXCEPT ![t] = CommandTarget["Cancel"]]
    /\ UNCHANGED <<pairing, spc, rpc, toReceiver, toSender, prompt, free, crashes>>

(* remove_trusted_peer: on one device only.                                *)
ForgetPeer(d, e) ==
    /\ <<d, e>> \in trusts
    /\ trusts' = trusts \ {<<d, e>>}
    /\ UNCHANGED <<view, said, granted, started, spc, rpc, toReceiver, toSender,
                   prompt, record, free, crashes>>

(* A process ends and starts again: trust and records are stored, tasks,   *)
(* handlers and prompts are not.                                           *)
Crash(d) ==
    /\ crashes < MaxCrashes
    /\ crashes' = crashes + 1
    /\ spc' = [s \in Session |->
                IF From[s[1]] = d /\ spc[s] \notin {"idle", "sent"} THEN "over" ELSE spc[s]]
    /\ rpc' = [s \in Session |->
                IF To[s[1]] = d /\ Connected(s) THEN "over" ELSE rpc[s]]
    /\ prompt' = [t \in Transfers |-> IF To[t] = d THEN 0 ELSE prompt[t]]
    /\ record' = [t \in Transfers |->
                    IF To[t] = d /\ record[t] # NoRecord THEN Restored(record[t]) ELSE record[t]]
    /\ free' = [free EXCEPT ![d] = MaxActive]
    /\ UNCHANGED <<pairing, toReceiver, toSender>>

SenderNext(s) ==
    \/ Send(s) \/ Connect(s) \/ SenderHello(s)
    \/ \E a \in Answer : SenderAnswer(s, a)
    \/ SenderConfirm(s) \/ SenderDecision(s) \/ SenderResult(s) \/ SenderFails(s)

ReceiverNext(s) ==
    \/ ReceiverHello(s) \/ ReceiverOffer(s) \/ PromptLost(s)
    \/ \E a \in Answer : ReceiverAnswer(s, a)
    \/ ReceiverPairing(s) \/ ReceiverGrant(s) \/ PrepareFails(s)
    \/ ReceiverResult(s) \/ ReceiverFails(s)

Next ==
    \/ \E s \in Session : SenderNext(s) \/ ReceiverNext(s)
    \/ \E t \in Transfers : CancelIncoming(t)
    \/ \E d, e \in Device : ForgetPeer(d, e)
    \/ \E d \in Device : Crash(d)

Spec == Init /\ [][Next]_vars

-----------------------------------------------------------------------------
(* Properties.                                                             *)

(* Every step of the two devices is a step of the handshake they promise   *)
(* or none: who is remembered, granted and sent to follows from what both  *)
(* users said and what both trust tables held (outgoing.rs:614-677,        *)
(* lan.rs:200-338).                                                        *)
PairingPromised == Promise!PairingSpec

(* No stream between devices whose users never both confirmed the digits:  *)
(* docs/spec.md:11, "on the first connection both devices must confirm".   *)
StreamsVouched == Promise!StreamsVouched

(* Each permit is free or held by one task or handler of the device, which *)
(* share them (outgoing.rs:601, lan.rs:308).                               *)
PermitsShared ==
    \A d \in Device : free[d] + Cardinality(Holders(d)) = MaxActive

(* Both sides of a live connection read, and nothing is on its way.        *)
MutualWait(s) ==
    /\ spc[s] \in {"hello", "confirm", "decision"} /\ toSender[s] = <<>>
    /\ rpc[s] \in {"hello", "offer", "pairing"} /\ toReceiver[s] = <<>>

(* Devices that found the same in their trust tables never wait for each   *)
(* other (outgoing.rs:633-677 against lan.rs:263-296), whoever refuses.    *)
AlikeNeverStuck ==
    \A s \in Session : view[s]["sender"] = view[s]["receiver"] => ~MutualWait(s)

(* No connection on which both sides wait for the other's next message:    *)
(* docs/项目现状与后续实施提示词.md:380, "no deadlock".                     *)
NoMutualWait == \A s \in Session : ~MutualWait(s)

=============================================================================
