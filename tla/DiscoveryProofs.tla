-------------------------- MODULE DiscoveryProofs ---------------------------
(***************************************************************************)
(* What the list of devices shows is what its sources say: OnlineAsHeard,  *)
(* for any number of devices, sessions, commands and events.  It is not    *)
(* inductive alone: what the thread or a session is about to write must    *)
(* say online, for the source is noted whatever is written, and every      *)
(* writer must speak of a device.                                          *)
(***************************************************************************)
EXTENDS Discovery, TLAPS

Entries == [trusted : BOOLEAN, online : BOOLEAN, address : {"listening", "connection"}]

Event == [type : {"resolved", "removed"}, of : Devices]

(* The sources speak of devices.                                           *)
Sources ==
    /\ services \subseteq Devices
    /\ heard \in [Devices -> {"no", "fresh", "old"}]
    /\ events \in Seq(Event)

(* What is in the list, and what is about to be written: it says online.   *)
Writers ==
    /\ \A id \in DOMAIN peers : peers[id] \in Entries
    /\ looked # Nobody =>
          looked.id \in Devices /\ looked.entry \in Entries /\ looked.entry.online
    /\ session.at # "none" => session.with \in Devices
    /\ session.at = "hello" => session.entry \in Entries /\ session.entry.online

OnlineInv == Sources /\ Writers /\ OnlineAsHeard

LEMMA InitOnline == Init => OnlineInv
BY DEF Init, OnlineInv, Sources, Writers, OnlineAsHeard, NoSession, Event

-----------------------------------------------------------------------------
(* What a write leaves of the list.                                        *)

LEMMA MarkedFacts ==
    ASSUME NEW d, \A i \in DOMAIN peers : peers[i] \in Entries, MarkOffline(d)
    PROVE  /\ DOMAIN peers' = DOMAIN peers /\ met' = met \ {d}
           /\ \A i \in DOMAIN peers' : peers'[i] \in Entries
           /\ d \in DOMAIN peers => ~peers'[d].online
           /\ \A i \in DOMAIN peers \ {d} : peers'[i] = peers[i]
BY DEF MarkOffline, Entries

LEMMA HeadOfEvents ==
    ASSUME events \in Seq(Event), events # <<>>
    PROVE  Head(events) \in Event /\ Tail(events) \in Seq(Event)
OBVIOUS

-----------------------------------------------------------------------------
(* The network and the daemon write no entry.                              *)

LEMMA ExternalOnline == OnlineInv /\ External => OnlineInv'
<1> SUFFICES ASSUME OnlineInv, NEW d \in Devices, Move(d) \/ Resolve(d) \/ Expire(d)
             PROVE  OnlineInv'
    BY DEF External
<1>1. UNCHANGED <<services, heard, looked, peers, session, met>>
    BY DEF Move, Resolve, Expire, thread
<1>2. [type |-> "resolved", of |-> d] \in Event /\ [type |-> "removed", of |-> d] \in Event
    BY DEF Event
<1>3. events \in Seq(Event)
    BY DEF OnlineInv, Sources
<1>4. events' \in Seq(Event)
    BY <1>2, <1>3 DEF Move, Resolve, Expire
<1> QED BY <1>1, <1>4 DEF OnlineInv, Sources, Writers, OnlineAsHeard

-----------------------------------------------------------------------------
(* The browse thread.                                                      *)

LEMMA UpsertOnline == OnlineInv /\ Upsert => OnlineInv'
<1> SUFFICES ASSUME OnlineInv, Upsert PROVE OnlineInv'
    OBVIOUS
<1> DEFINE id == looked.id
<1>1. /\ id \in Devices /\ looked.entry \in Entries /\ looked.entry.online
      /\ looked' = Nobody /\ UNCHANGED <<events, session>>
      /\ peers' = Upserted(id, looked.entry) /\ met' = met \ {id}
    BY DEF OnlineInv, Writers, Upsert, daemon
<1>2. /\ services' \subseteq Devices /\ heard' \in [Devices -> {"no", "fresh", "old"}]
      /\ id \in services' \/ heard'[id] # "no"
      /\ \A d \in Devices \ {id} : (d \in services' <=> d \in services) /\ heard'[d] = heard[d]
    BY <1>1 DEF OnlineInv, Sources, Upsert
<1>3. /\ DOMAIN peers' = {id} \cup DOMAIN peers /\ peers'[id] = looked.entry
      /\ \A i \in DOMAIN peers \ {id} : peers'[i] = peers[i]
    BY <1>1 DEF Upserted
<1> HIDE DEF id
<1>4. Sources' /\ Writers'
    BY <1>1, <1>2, <1>3 DEF OnlineInv, Sources, Writers
<1>5. ASSUME NEW d \in Devices, d \in DOMAIN peers'
      PROVE  peers'[d].online <=> d \in services' \/ heard'[d] # "no" \/ d \in met'
  <2>1. CASE d = id
    BY <2>1, <1>1, <1>2, <1>3
  <2>2. CASE d # id
    <3>1. d \in DOMAIN peers /\ peers'[d] = peers[d] /\ (d \in met' <=> d \in met)
        BY <2>2, <1>1, <1>3, <1>5
    <3> QED BY <2>2, <3>1, <1>2 DEF OnlineInv, OnlineAsHeard
  <2> QED BY <2>1, <2>2
<1> QED BY <1>4, <1>5 DEF OnlineInv, OnlineAsHeard

(* A source that falls silent takes its device offline when no other has   *)
(* it, and is forgotten in the same step.                                  *)
LEMMA SilentOnline ==
    ASSUME OnlineInv, NEW d \in Devices,
           UNCHANGED <<looked, session>>, events' \in Seq(Event),
           services' \subseteq services, heard' \in [Devices -> {"no", "fresh", "old"}],
           \A e \in Devices \ {d} :
              (e \in services' <=> e \in services) /\ (heard'[e] # "no" <=> heard[e] # "no"),
           \/ /\ UNCHANGED <<peers, met>>
              /\ (d \in services' \/ heard'[d] # "no") <=> (d \in services \/ heard[d] # "no")
           \/ MarkOffline(d) /\ d \notin services' /\ heard'[d] = "no"
    PROVE  OnlineInv'
<1>1. CASE /\ UNCHANGED <<peers, met>>
           /\ (d \in services' \/ heard'[d] # "no") <=> (d \in services \/ heard[d] # "no")
  <2>1. Sources' /\ Writers'
    BY <1>1 DEF OnlineInv, Sources, Writers
  <2>2. ASSUME NEW e \in Devices, e \in DOMAIN peers'
        PROVE  peers'[e].online <=> e \in services' \/ heard'[e] # "no" \/ e \in met'
    <3>1. e \in DOMAIN peers /\ (peers[e].online <=> e \in services \/ heard[e] # "no" \/ e \in met)
        BY <1>1, <2>2 DEF OnlineInv, OnlineAsHeard
    <3>2. CASE e = d BY <1>1, <3>1, <3>2
    <3>3. CASE e # d BY <1>1, <3>1, <3>3
    <3> QED BY <3>2, <3>3
  <2> QED BY <2>1, <2>2 DEF OnlineInv, OnlineAsHeard
<1>2. CASE MarkOffline(d) /\ d \notin services' /\ heard'[d] = "no"
  <2>1. /\ DOMAIN peers' = DOMAIN peers /\ met' = met \ {d}
        /\ \A i \in DOMAIN peers' : peers'[i] \in Entries
        /\ d \in DOMAIN peers => ~peers'[d].online
        /\ \A i \in DOMAIN peers \ {d} : peers'[i] = peers[i]
    BY <1>2, MarkedFacts DEF OnlineInv, Writers
  <2>2. Sources' /\ Writers'
    BY <2>1 DEF OnlineInv, Sources, Writers
  <2>3. ASSUME NEW e \in Devices, e \in DOMAIN peers'
        PROVE  peers'[e].online <=> e \in services' \/ heard'[e] # "no" \/ e \in met'
    <3>1. CASE e = d BY <1>2, <2>1, <2>3, <3>1
    <3>2. CASE e # d
      <4>1. /\ e \in DOMAIN peers /\ peers'[e] = peers[e] /\ (e \in met' <=> e \in met)
            /\ (peers[e].online <=> e \in services \/ heard[e] # "no" \/ e \in met)
        BY <2>1, <2>3, <3>2 DEF OnlineInv, OnlineAsHeard
      <4> QED BY <3>2, <4>1
    <3> QED BY <3>1, <3>2
  <2> QED BY <2>2, <2>3 DEF OnlineInv, OnlineAsHeard
<1> QED BY <1>1, <1>2

LEMMA BrowseOnline == OnlineInv /\ Browse => OnlineInv'
<1> SUFFICES ASSUME OnlineInv, Browse PROVE OnlineInv'
    OBVIOUS
<1>1. CASE HearResolved \/ Refresh \/ \E d \in Devices : HearDatagram(d)
  <2>1. UNCHANGED <<services, heard, peers, session, met>>
    BY <1>1 DEF HearResolved, Refresh, HearDatagram, daemon, thread
  <2>2. events' \in Seq(Event)
    <3>1. events \in Seq(Event) /\ <<>> \in Seq(Event)
        BY DEF OnlineInv, Sources
    <3> QED BY <1>1, <3>1, HeadOfEvents DEF HearResolved, Refresh, HearDatagram, daemon
  <2>3. CASE UNCHANGED looked
    BY <2>1, <2>2, <2>3 DEF OnlineInv, Sources, Writers, OnlineAsHeard
  <2>4. ASSUME NEW d \in Devices, NEW from \in {"broadcast", "service"},
               looked' = [id |-> d, entry |-> Entry(d \in rows, "listening"), from |-> from]
        PROVE  OnlineInv'
    <3>1. Entry(d \in rows, "listening") \in Entries /\ Entry(d \in rows, "listening").online
        BY DEF Entry, Entries
    <3>2. /\ looked'.id = d /\ looked'.entry = Entry(d \in rows, "listening")
        BY <2>4
    <3> QED BY <2>1, <2>2, <3>1, <3>2 DEF OnlineInv, Sources, Writers, OnlineAsHeard
  <2>5. HearResolved => Head(events).of \in Devices
    BY HeadOfEvents DEF OnlineInv, Sources, Event, HearResolved
  <2> QED BY <1>1, <2>3, <2>4, <2>5 DEF HearResolved, Refresh, HearDatagram, thread
<1>2. CASE HearRemoved
  <2> DEFINE d == Head(events).of
  <2>1. /\ d \in Devices /\ events' \in Seq(Event) /\ services' = services \ {d}
        /\ UNCHANGED <<heard, looked, session>>
    BY <1>2, HeadOfEvents DEF OnlineInv, Sources, HearRemoved, Event
  <2>2. IF d \in services /\ heard[d] = "no" THEN MarkOffline(d) ELSE UNCHANGED <<peers, met>>
    BY <1>2 DEF HearRemoved
  <2> HIDE DEF d
  <2>3. heard \in [Devices -> {"no", "fresh", "old"}]
    BY DEF OnlineInv, Sources
  <2>4. /\ services' \subseteq services /\ heard' \in [Devices -> {"no", "fresh", "old"}]
        /\ \A e \in Devices \ {d} :
              (e \in services' <=> e \in services) /\ (heard'[e] # "no" <=> heard[e] # "no")
    BY <2>1, <2>3
  <2>5. \/ /\ UNCHANGED <<peers, met>>
           /\ (d \in services' \/ heard'[d] # "no") <=> (d \in services \/ heard[d] # "no")
        \/ MarkOffline(d) /\ d \notin services' /\ heard'[d] = "no"
    BY <2>1, <2>2
  <2> QED BY <2>1, <2>4, <2>5, SilentOnline
<1>3. ASSUME NEW d \in Devices, Age(d) \/ Sweep(d) PROVE OnlineInv'
  <2>1. /\ heard \in [Devices -> {"no", "fresh", "old"}] /\ events \in Seq(Event)
        /\ UNCHANGED <<events, services, looked, session>>
    BY <1>3 DEF OnlineInv, Sources, Age, Sweep, daemon
  <2>2. /\ heard' \in [Devices -> {"no", "fresh", "old"}]
        /\ \A e \in Devices \ {d} : heard'[e] = heard[e]
    BY <1>3, <2>1 DEF Age, Sweep
  <2>3. \/ /\ UNCHANGED <<peers, met>>
           /\ (d \in services' \/ heard'[d] # "no") <=> (d \in services \/ heard[d] # "no")
        \/ MarkOffline(d) /\ d \notin services' /\ heard'[d] = "no"
    BY <1>3, <2>1 DEF Age, Sweep
  <2> QED BY <2>1, <2>2, <2>3, SilentOnline
<1> QED BY <1>1, <1>2, <1>3, UpsertOnline DEF Browse

-----------------------------------------------------------------------------
(* Sessions.                                                               *)

LEMMA IdentifyOnline == OnlineInv /\ Identify => OnlineInv'
<1> SUFFICES ASSUME OnlineInv, Identify PROVE OnlineInv'
    OBVIOUS
<1> DEFINE id == session.with
<1> DEFINE kept == (DOMAIN peers \ {session.old}) \cup {id}
<1>1. /\ id \in Devices /\ session.entry \in Entries /\ session.entry.online
      /\ peers' = Restrict(Upserted(id, session.entry), kept)
      /\ met' = met \cup {id}
      /\ UNCHANGED <<events, services, heard, looked>>
    BY DEF OnlineInv, Writers, Identify, daemon, thread
<1>2. DOMAIN peers' = kept /\ \A i \in kept : peers'[i] = Upserted(id, session.entry)[i]
    BY <1>1 DEF Restrict
<1>3. /\ peers'[id] = session.entry
      /\ \A i \in kept \ {id} : i \in DOMAIN peers /\ peers'[i] = peers[i]
    BY <1>2 DEF Upserted
<1>4. session' = NoSession \/ session' = [session EXCEPT !.at = "pairing"]
    BY DEF Identify
<1>5. session'.at # "hello" /\ (session'.at # "none" => session'.with \in Devices)
    BY <1>1, <1>4 DEF NoSession, Identify
<1> HIDE DEF kept, id
<1>6. id \in kept
    BY DEF kept
<1>7. Sources' /\ Writers'
    BY <1>1, <1>2, <1>3, <1>5, <1>6 DEF OnlineInv, Sources, Writers
<1>8. ASSUME NEW d \in Devices, d \in DOMAIN peers'
      PROVE  peers'[d].online <=> d \in services' \/ heard'[d] # "no" \/ d \in met'
    BY <1>1, <1>2, <1>3, <1>8 DEF OnlineInv, OnlineAsHeard
<1> QED BY <1>7, <1>8 DEF OnlineInv, OnlineAsHeard

LEMMA SessionOnline == OnlineInv /\ Session => OnlineInv'
<1> SUFFICES ASSUME OnlineInv, Session PROVE OnlineInv'
    OBVIOUS
<1>1. CASE ShowRemembered
  <2>1. /\ DOMAIN peers' = DOMAIN peers
        /\ \A i \in DOMAIN peers : peers'[i] \in Entries /\ peers'[i].online = peers[i].online
    BY <1>1 DEF OnlineInv, Writers, Entries, ShowRemembered
  <2>2. session' = NoSession /\ UNCHANGED <<events, services, heard, looked, met>>
    BY <1>1 DEF ShowRemembered, daemon, thread
  <2> QED BY <2>1, <2>2 DEF OnlineInv, Sources, Writers, OnlineAsHeard, NoSession
<1>2. ASSUME NEW yes \in BOOLEAN, Remember(yes) PROVE OnlineInv'
  <2>1. UNCHANGED <<events, services, heard, looked, peers, met>>
    BY <1>2 DEF Remember, daemon, thread
  <2>2. session' = NoSession \/ session' = [session EXCEPT !.at = "remembered"]
    BY <1>2 DEF Remember
  <2>3. session.at = "pairing" /\ session.with \in Devices
    BY <1>2 DEF OnlineInv, Writers, Remember
  <2>4. CASE session' = NoSession
    BY <2>1, <2>4 DEF OnlineInv, Sources, Writers, OnlineAsHeard, NoSession
  <2>5. CASE session' = [session EXCEPT !.at = "remembered"]
    <3>1. session'.at = "remembered" /\ session'.with = session.with
        BY <2>3, <2>5
    <3> QED BY <2>1, <2>3, <3>1 DEF OnlineInv, Sources, Writers, OnlineAsHeard
  <2> QED BY <2>2, <2>4, <2>5
<1>3. ASSUME NEW d \in Devices, NEW id \in {d, Manual(d)},
             NEW address \in {"listening", "connection"}, Hello(d, id, address)
      PROVE  OnlineInv'
  <2>1. UNCHANGED <<events, services, heard, looked, peers, met>>
    BY <1>3 DEF Hello, daemon, thread
  <2>2. /\ session'.with \in Devices /\ session'.entry \in Entries /\ session'.entry.online
    BY <1>3 DEF Hello, Entry, Entries
  <2> QED BY <2>1, <2>2 DEF OnlineInv, Sources, Writers, OnlineAsHeard
<1> QED BY <1>1, <1>2, <1>3, IdentifyOnline DEF Session

-----------------------------------------------------------------------------
(* The user.                                                               *)

LEMMA UserOnline == OnlineInv /\ User => OnlineInv'
<1> SUFFICES ASSUME OnlineInv, User PROVE OnlineInv'
    OBVIOUS
<1>1. CASE ClearTrusted \/ \E d \in Devices : RemoveTrusted(d)
    BY <1>1 DEF ClearTrusted, RemoveTrusted, daemon, thread, OnlineInv, Sources, Writers, OnlineAsHeard
<1>2. CASE ForgetEntries
  <2>1. PICK gone : peers' = Without(gone) /\ met' = met \ gone
    BY <1>2 DEF ForgetEntries
  <2>2. DOMAIN peers' = DOMAIN peers \ gone /\ \A i \in DOMAIN peers' : peers'[i] = peers[i]
    BY <2>1 DEF Without, Restrict
  <2>3. UNCHANGED <<events, services, heard, looked, session>>
    BY <1>2 DEF ForgetEntries, daemon, thread
  <2> QED BY <2>1, <2>2, <2>3 DEF OnlineInv, Sources, Writers, OnlineAsHeard
<1>3. ASSUME NEW d \in Devices, ConnectAddress(d) PROVE OnlineInv'
  <2>1. Manual(d) \notin Devices
    BY DiscoveryAssumption
  <2>2. /\ peers' = Upserted(Manual(d), Entry(FALSE, "listening"))
        /\ UNCHANGED <<events, services, heard, looked, session, met>>
    BY <1>3 DEF ConnectAddress, daemon, thread
  <2>3. /\ DOMAIN peers' = {Manual(d)} \cup DOMAIN peers
        /\ peers'[Manual(d)] = Entry(FALSE, "listening")
        /\ \A i \in DOMAIN peers \ {Manual(d)} : peers'[i] = peers[i]
    BY <2>2 DEF Upserted
  <2>4. Entry(FALSE, "listening") \in Entries
    BY DEF Entry, Entries
  <2> QED BY <2>1, <2>2, <2>3, <2>4 DEF OnlineInv, Sources, Writers, OnlineAsHeard
<1> QED BY <1>1, <1>2, <1>3 DEF User

-----------------------------------------------------------------------------
(* Neither source takes away what the other still knows, and nothing that  *)
(* is written by a session or the user contradicts them: a device in the   *)
(* list is online exactly as long as a source has it or a session met it.  *)
THEOREM OnlineIsHeard == Spec => []OnlineAsHeard
<1>1. OnlineInv /\ [Next]_vars => OnlineInv'
  <2> SUFFICES ASSUME OnlineInv, [Next]_vars PROVE OnlineInv'
    OBVIOUS
  <2>1. CASE UNCHANGED vars
    BY <2>1 DEF vars, daemon, thread, OnlineInv, Sources, Writers, OnlineAsHeard
  <2> QED BY <2>1, ExternalOnline, BrowseOnline, SessionOnline, UserOnline DEF Next
<1>2. OnlineInv => OnlineAsHeard
    BY DEF OnlineInv
<1> QED BY <1>1, <1>2, InitOnline, PTL DEF Spec
=============================================================================
