------------------------------ MODULE Pairing ------------------------------
(***************************************************************************)
(* What the handshake promises, without its messages.  A session is one    *)
(* connection for one transfer; each side asks its own trust table once,   *)
(* each user may answer once, the receiver grants the session, and only    *)
(* then does the sender start.  Nobody is paired, remembered or sent to    *)
(* unless both users confirmed the code or the devices knew each other.    *)
(***************************************************************************)
CONSTANTS
    Device,
    Session,
    DeviceOf        \* the device at each side of each session

Side == {"sender", "receiver"}
Other(i) == IF i = "sender" THEN "receiver" ELSE "sender"

Yes == {"accept", "remember"}
Answer == {"silent", "refuse"} \cup Yes
View == {"unmet", "known", "stranger"}

VARIABLES
    trusts,     \* pairs <<d, e>>: d has stored the certificate of e
    view,       \* what each side of a session found in its trust table
    said,       \* what each side's user answered
    granted,    \* sessions the receiver has granted
    started     \* sessions the sender has started to stream

pairingVars == <<trusts, view, said, granted, started>>

PairingInit ==
    /\ trusts = {}
    /\ view = [s \in Session |-> [i \in Side |-> "unmet"]]
    /\ said = [s \in Session |-> [i \in Side |-> "silent"]]
    /\ granted = {}
    /\ started = {}

(* Both users of a session said that the codes agree.                      *)
Confirmed(s) == \A i \in Side : said[s][i] \in Yes

Trust(s, i) == <<DeviceOf[s][i], DeviceOf[s][Other(i)]>>

Meet(s, i) ==
    /\ view[s][i] = "unmet"
    /\ view' = [view EXCEPT ![s][i] = IF Trust(s, i) \in trusts THEN "known" ELSE "stranger"]
    /\ UNCHANGED <<trusts, said, granted, started>>

Say(s, i, a) ==
    /\ view[s][i] # "unmet" /\ said[s][i] = "silent"
    /\ said' = [said EXCEPT ![s][i] = a]
    /\ UNCHANGED <<trusts, view, granted, started>>

Remember(s, i) ==
    /\ Confirmed(s) /\ said[s][i] = "remember" /\ view[s][i] = "stranger"
    /\ trusts' = trusts \cup {Trust(s, i)}
    /\ UNCHANGED <<view, said, granted, started>>

Forget(d, e) ==
    /\ trusts' = trusts \ {<<d, e>>}
    /\ UNCHANGED <<view, said, granted, started>>

(* A receiver that knows the sender needs its own user's word, or none     *)
(* when it accepts trusted devices automatically; it never overrides a no. *)
Grant(s) ==
    /\ \/ view[s]["receiver"] = "known" /\ said[s]["receiver"] # "refuse"
       \/ view[s]["receiver"] = "stranger" /\ Confirmed(s)
    /\ granted' = granted \cup {s}
    /\ UNCHANGED <<trusts, view, said, started>>

Start(s) ==
    /\ s \in granted
    /\ view[s]["sender"] = view[s]["receiver"]
    /\ view[s]["sender"] = "stranger" => Confirmed(s)
    /\ started' = started \cup {s}
    /\ UNCHANGED <<trusts, view, said, granted>>

PairingNext ==
    \/ \E s \in Session, i \in Side :
        \/ Meet(s, i) \/ Remember(s, i)
        \/ \E a \in Answer \ {"silent"} : Say(s, i, a)
    \/ \E d, e \in Device : Forget(d, e)
    \/ \E s \in Session : Grant(s) \/ Start(s)

(* Nobody is remembered unless the one who remembers asked for it in a     *)
(* session whose code both users confirmed (outgoing.rs:655, lan.rs:273).  *)
TrustConfirmed ==
    \A p \in trusts : \E s \in Session, i \in Side :
        Trust(s, i) = p /\ Confirmed(s) /\ said[s][i] = "remember"

(* The same two devices, whichever of them sends.                          *)
SamePair(s, r) ==
    \E i \in Side : \A j \in Side :
        DeviceOf[s][j] = DeviceOf[r][IF i = "sender" THEN j ELSE Other(j)]

(* No byte is streamed between two devices whose users have not both       *)
(* confirmed the six digits, in this session or in an earlier one          *)
(* (docs/spec.md:11), however trust was stored or removed in between.      *)
StreamsVouched ==
    \A s \in started : \E r \in Session : SamePair(s, r) /\ Confirmed(r)

PairingSpec == PairingInit /\ [][PairingNext]_pairingVars
=============================================================================
