----------------------------- MODULE Discovery ------------------------------
(***************************************************************************)
(* The list of devices one device shows (the peers of core.rs) and those   *)
(* who write it: the browse thread of mdns.rs with its two sources, mDNS   *)
(* services and broadcast datagrams; the sessions, which learn who the     *)
(* other device is and whether to remember it; the user, who enters an     *)
(* address, forgets one device or all.                                     *)
(*                                                                         *)
(* An entry has the id of a device, or the id connect_address makes of an  *)
(* address.  Of its fields those are kept that may be wrong: trusted,      *)
(* online, and whether the address is the one the device listens at or     *)
(* that of a connection it made.  The cache of the mDNS daemon and what it *)
(* reports are external.                                                   *)
(***************************************************************************)
EXTENDS Integers, FiniteSets, Sequences, Functions

CONSTANTS
    Devices,        \* ids of other devices
    Nobody,         \* no pending write
    MaxSessions,    \* bound: sessions
    MaxCommands,    \* bound: commands of the user that change the list
    MaxMoves,       \* bound: times devices leave or join the network
    MaxEvents       \* bound: events of the daemon that are not yet read

Manual(d) == <<"manual", d>>

(* The id made of an address has a prefix no device id has.                *)
ASSUME DiscoveryAssumption ==
    /\ {MaxSessions, MaxCommands, MaxMoves} \subseteq Nat /\ MaxEvents \in Nat \ {0}
    /\ Nobody \notin Devices
    /\ \A d \in Devices : Manual(d) \notin Devices

VARIABLES
    here,       \* devices on the network
    cached,     \* services the daemon knows
    told,       \* those this browse has been told of
    events,     \* receiver: its events, in order
    services,   \* service_peers
    heard,      \* broadcast_peers: "no", "fresh" or, 12 seconds later, "old"
    rows,       \* trusted_peers: devices the user has remembered
    peers,      \* peers of CoreState
    looked,     \* the thread: an entry it is about to write
    session,    \* a session: its place and the other device
    call,       \* a command of the user: what is still to be done
    met,        \* devices shown online for a session, not for discovery
    missed,     \* devices whose removal was in a receiver that was replaced
    sessions, commands, moves

daemon == <<here, cached, told, events>>
thread == <<services, heard, looked>>
counters == <<sessions, commands, moves>>
vars == <<daemon, thread, rows, peers, session, call, met, missed, counters>>

Entry(trusted, address) == [trusted |-> trusted, online |-> TRUE, address |-> address]

Upserted(id, entry) == [i \in DOMAIN peers \cup {id} |-> IF i = id THEN entry ELSE peers[i]]
Without(S) == Restrict(peers, DOMAIN peers \ S)

NoSession == [at |-> "none", with |-> Nobody, old |-> Nobody, entry |-> Nobody]

Init ==
    /\ here \in SUBSET Devices
    /\ cached = {} /\ told = {} /\ events = <<>>
    /\ services = {} /\ heard = [d \in Devices |-> "no"]
    /\ rows \in SUBSET Devices
    /\ peers = [i \in {} |-> Nobody]
    /\ looked = Nobody /\ call = Nobody
    /\ session = NoSession
    /\ met = {} /\ missed = {}
    /\ sessions = 0 /\ commands = 0 /\ moves = 0

-----------------------------------------------------------------------------
(* The network and the daemon.                                             *)

Move(d) ==
    /\ moves < MaxMoves /\ moves' = moves + 1
    /\ here' = IF d \in here THEN here \ {d} ELSE here \cup {d}
    /\ UNCHANGED <<cached, told, events, thread, rows, peers, session, call, met, missed,
                   sessions, commands>>

(* ServiceResolved, once for each browse.                                  *)
Resolve(d) ==
    /\ d \in (here \cup cached) \ told /\ Len(events) < MaxEvents
    /\ cached' = cached \cup {d} /\ told' = told \cup {d}
    /\ events' = Append(events, [type |-> "resolved", of |-> d])
    /\ missed' = missed \ {d}
    /\ UNCHANGED <<here, thread, rows, peers, session, call, met, counters>>

(* ServiceRemoved, when a record was not renewed.                          *)
Expire(d) ==
    /\ d \in cached \ here /\ Len(events) < MaxEvents
    /\ cached' = cached \ {d} /\ told' = told \ {d}
    /\ events' = Append(events, [type |-> "removed", of |-> d])
    /\ UNCHANGED <<here, thread, rows, peers, session, call, met, missed, counters>>

-----------------------------------------------------------------------------
(* The browse thread.  Which part of its loop it is at is left open: each  *)
(* part depends only on what is there.                                     *)

(* mark_peer_offline.                                                      *)
MarkOffline(d) ==
    /\ peers' = IF d \in DOMAIN peers THEN [peers EXCEPT ![d].online = FALSE] ELSE peers
    /\ met' = met \ {d}

(* A datagram: the thread asks the table whether its sender is trusted.    *)
HearDatagram(d) ==
    /\ looked = Nobody /\ d \in here
    /\ looked' = [id |-> d, entry |-> Entry(d \in rows, "listening"), from |-> "broadcast"]
    /\ UNCHANGED <<daemon, services, heard, rows, peers, session, call, met, missed, counters>>

(* A resolved service: the same.                                           *)
HearResolved ==
    /\ looked = Nobody /\ events # <<>> /\ Head(events).type = "resolved"
    /\ events' = Tail(events)
    /\ LET d == Head(events).of
       IN looked' = [id |-> d, entry |-> Entry(d \in rows, "listening"), from |-> "service"]
    /\ UNCHANGED <<here, cached, told, services, heard, rows, peers, session, call, met, missed,
                   counters>>

(* Mutant: a known entry keeps what it says of trust. *)
UpsertMerges ==
    /\ looked # Nobody /\ looked' = Nobody
    /\ peers' = Upserted(looked.id,
                    IF looked.id \in DOMAIN peers
                    THEN [looked.entry EXCEPT !.trusted = peers[looked.id].trusted]
                    ELSE looked.entry)
    /\ met' = met \ {looked.id}
    /\ IF looked.from = "broadcast"
       THEN heard' = [heard EXCEPT ![looked.id] = "fresh"] /\ UNCHANGED services
       ELSE services' = services \cup {looked.id} /\ UNCHANGED heard
    /\ UNCHANGED <<daemon, rows, session, call, missed, counters>>

(* upsert_peer takes the lock of the list, and the thread notes the source.*)
Upsert ==
    /\ looked # Nobody /\ looked' = Nobody
    /\ peers' = Upserted(looked.id, looked.entry)
    /\ met' = met \ {looked.id}
    /\ IF looked.from = "broadcast"
       THEN heard' = [heard EXCEPT ![looked.id] = "fresh"] /\ UNCHANGED services
       ELSE services' = services \cup {looked.id} /\ UNCHANGED heard
    /\ UNCHANGED <<daemon, rows, session, call, missed, counters>>

(* Mutant: the removed service takes the device offline in any case. *)
RemovedForAll ==
    /\ looked = Nobody /\ events # <<>> /\ Head(events).type = "removed"
    /\ events' = Tail(events)
    /\ LET d == Head(events).of
       IN  /\ services' = services \ {d}
           /\ IF d \in services THEN MarkOffline(d) ELSE UNCHANGED <<peers, met>>
    /\ UNCHANGED <<here, cached, told, heard, looked, rows, session, call, missed, counters>>

(* A removed service takes its device offline unless it is heard otherwise.*)
HearRemoved ==
    /\ looked = Nobody /\ events # <<>> /\ Head(events).type = "removed"
    /\ events' = Tail(events)
    /\ LET d == Head(events).of
       IN  /\ services' = services \ {d}
           /\ IF d \in services /\ heard[d] = "no"
              THEN MarkOffline(d)
              ELSE UNCHANGED <<peers, met>>
    /\ UNCHANGED <<here, cached, told, heard, looked, rows, session, call, missed, counters>>

(* BROADCAST_PEER_TIMEOUT has passed since the last datagram.              *)
Age(d) ==
    /\ heard[d] = "fresh" /\ heard' = [heard EXCEPT ![d] = "old"]
    /\ UNCHANGED <<daemon, services, looked, rows, peers, session, call, met, missed, counters>>

(* Mutant: only a device that was never a service is swept. *)
SweepForgets(d) ==
    /\ looked = Nobody /\ heard[d] = "old" /\ heard' = [heard EXCEPT ![d] = "no"]
    /\ UNCHANGED <<peers, met, daemon, services, looked, rows, session, call, missed, counters>>

(* The sweep over stale devices.                                           *)
Sweep(d) ==
    /\ looked = Nobody /\ heard[d] = "old" /\ heard' = [heard EXCEPT ![d] = "no"]
    /\ IF d \in services THEN UNCHANGED <<peers, met>> ELSE MarkOffline(d)
    /\ UNCHANGED <<daemon, services, looked, rows, session, call, missed, counters>>

(* Every 30 seconds, or when the user asks, the browse begins again with a *)
(* new receiver: events of the old one are not read any more.              *)
Refresh ==
    /\ looked = Nobody
    /\ told' = {} /\ events' = <<>>
    /\ missed' = missed \cup {d \in Devices :
                    \E i \in DOMAIN events : events[i] = [type |-> "removed", of |-> d]}
    /\ UNCHANGED <<here, cached, thread, rows, peers, session, call, met, counters>>

-----------------------------------------------------------------------------
(* Sessions: each reads the trust, writes the list, and may later store    *)
(* trust and write the list again.                                         *)

(* After the hellos, is_trusted.  A job may be for an address entered by   *)
(* hand; a session that came in has the address of its connection.         *)
Hello(d, old, address) ==
    /\ session = NoSession /\ sessions < MaxSessions /\ sessions' = sessions + 1
    /\ d \in here
    /\ old = Manual(d) => old \in DOMAIN peers /\ address = "listening"
    /\ session' = [at |-> "hello", with |-> d, old |-> old, entry |-> Entry(d \in rows, address)]
    /\ UNCHANGED <<daemon, thread, rows, peers, call, met, missed, commands, moves>>

(* update_peer_identity, which also drops the entry of the address.        *)
Identify ==
    /\ session.at = "hello"
    /\ peers' = Restrict(Upserted(session.with, session.entry),
                         (DOMAIN peers \ {session.old}) \cup {session.with})
    /\ met' = met \cup {session.with}
    /\ session' = IF session.entry.trusted THEN NoSession ELSE [session EXCEPT !.at = "pairing"]
    /\ UNCHANGED <<daemon, thread, rows, call, missed, counters>>

(* Pairing ends: trust_peer stores the row first.                          *)
Remember(yes) ==
    /\ session.at = "pairing"
    /\ IF yes
       THEN rows' = rows \cup {session.with} /\ session' = [session EXCEPT !.at = "remembered"]
       ELSE UNCHANGED rows /\ session' = NoSession
    /\ UNCHANGED <<daemon, thread, peers, call, met, missed, counters>>

(* And the list afterwards.                                                *)
ShowRemembered ==
    /\ session.at = "remembered"
    /\ session' = NoSession
    /\ peers' = IF session.with \in DOMAIN peers
                THEN [peers EXCEPT ![session.with].trusted = TRUE] ELSE peers
    /\ UNCHANGED <<daemon, thread, rows, call, met, missed, counters>>

-----------------------------------------------------------------------------
(* The user: one command at a time, under the mutex of the engine.         *)

Command == call = Nobody /\ commands < MaxCommands /\ commands' = commands + 1

(* connect_address.                                                        *)
ConnectAddress(d) ==
    /\ Command
    /\ peers' = Upserted(Manual(d), Entry(FALSE, "listening"))
    /\ UNCHANGED <<daemon, thread, rows, session, call, met, missed, sessions, moves>>

(* remove_trusted_peer and clear_trusted_peers: the rows first.            *)
RemoveTrusted(d) ==
    /\ Command /\ d \in rows
    /\ rows' = rows \ {d} /\ call' = d
    /\ UNCHANGED <<daemon, thread, peers, session, met, missed, sessions, moves>>

ClearTrusted ==
    /\ Command
    /\ rows' = {} /\ call' = "all"
    /\ UNCHANGED <<daemon, thread, peers, session, met, missed, sessions, moves>>

(* The entries afterwards: that device, or all that are shown as trusted.  *)
ForgetEntries ==
    /\ call # Nobody /\ call' = Nobody
    /\ LET gone == IF call = "all" THEN {id \in DOMAIN peers : peers[id].trusted} ELSE {call}
       IN  peers' = Without(gone) /\ met' = met \ gone
    /\ UNCHANGED <<daemon, thread, rows, session, missed, counters>>

-----------------------------------------------------------------------------
External ==
    \E d \in Devices : Move(d) \/ Resolve(d) \/ Expire(d)

Browse ==
    \/ HearResolved \/ HearRemoved \/ Upsert \/ Refresh
    \/ \E d \in Devices : HearDatagram(d) \/ Age(d) \/ Sweep(d)

Session ==
    \/ Identify \/ ShowRemembered
    \/ \E yes \in BOOLEAN : Remember(yes)
    \/ \E d \in Devices : \E id \in {d, Manual(d)} : \E address \in {"listening", "connection"} : Hello(d, id, address)

User ==
    \/ ClearTrusted \/ ForgetEntries
    \/ \E d \in Devices : ConnectAddress(d) \/ RemoveTrusted(d)

Next == External \/ Browse \/ Session \/ User

Spec == Init /\ [][Next]_vars

(* The daemon reports what it knows to every browse and drops what is not  *)
(* renewed.  The thread goes round its loop: it writes what it looked up,  *)
(* sweeps, begins a browse every 30 seconds, and reads an event every time *)
(* round, of which there are many between two browses: hence SF.  The 12   *)
(* seconds pass.  Sessions and commands that were begun are finished.      *)
Fairness ==
    /\ \A d \in Devices : WF_vars(Resolve(d)) /\ WF_vars(Expire(d))
    /\ WF_vars(Upsert) /\ SF_vars(Refresh)
    /\ SF_vars(HearResolved) /\ SF_vars(HearRemoved)
    /\ \A d \in Devices : WF_vars(Age(d)) /\ SF_vars(Sweep(d))
    /\ WF_vars(Identify) /\ WF_vars(ShowRemembered) /\ WF_vars(ForgetEntries)
    /\ WF_vars(\E yes \in BOOLEAN : Remember(yes))

FairSpec == Spec /\ Fairness

-----------------------------------------------------------------------------
(* Properties.                                                             *)

(* A device in the list is shown online exactly as long as one of the two  *)
(* sources has it, or a session found it and no source has said anything   *)
(* since: neither source takes away what the other still knows.            *)
OnlineAsHeard ==
    \A d \in Devices \cap DOMAIN peers :
        peers[d].online <=> d \in services \/ heard[d] # "no" \/ d \in met

(* However lookups and writes of the thread, the sessions and the user     *)
(* overlap, and whatever address a connection came from: a device that     *)
(* stays is in the end listed with the trust that is stored and with the   *)
(* address it can be reached at.                                           *)
EntryRight ==
    \A d \in Devices :
        <>[](d \in here) =>
            <>[](d \in DOMAIN peers /\ peers[d].trusted = (d \in rows)
                 /\ peers[d].address = "listening")

(* A device that has left is in the end not shown online, unless only a    *)
(* session had seen it or its removal was in a receiver that was replaced. *)
GoneShown ==
    \A d \in Devices :
        <>[](d \notin here) =>
            <>[](d \notin DOMAIN peers \/ ~peers[d].online \/ d \in met \/ d \in missed)
=============================================================================
