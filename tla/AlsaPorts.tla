----------------------------- MODULE AlsaPorts -----------------------------
(***************************************************************************)
(* The ALSA side of the daemon: the sequencer and its queue of events      *)
(* (src/aseq.cpp), a port for every remote server, which calls the server  *)
(* while somebody is subscribed to it (local_alsa_listener_t), the port    *)
(* that announces whoever subscribes to it (local_alsa_multi_listener_t),  *)
(* and the automatic export of devices (HwAutoAnnounce).                   *)
(*                                                                         *)
(* The sequencer belongs to the kernel: other programs subscribe and leave *)
(* at any moment, and the daemon learns of it from events it reads later,  *)
(* while what it asks the sequencer is answered for now.  A subscription   *)
(* made by another program is told to the daemon's port, and once more to  *)
(* its Announcements port if it has one; its own are only announced, and   *)
(* those that end with a port are told to the port that stays.             *)
(***************************************************************************)
EXTENDS Integers, FiniteSets, SequencesExt, Functions

CONSTANTS Ext,        \* ports of other programs
          Name,       \* the names that ports have
          NameOf,     \* their names, several of which may be equal
          Exported,   \* the ports that the settings export
          Hardware,   \* the ports of devices, not of programs
          OwnPort,    \* port numbers of the daemon
          MaxId,      \* bound: router ids given
          MaxQueue,   \* bound: events not read yet
          MaxSubs     \* bound: subscriptions at a time

Multi == 1            \* the port, and the router id, of the multi listener

ASSUME PortsAssumption ==
    /\ NameOf \in [Ext -> Name] /\ "nameless" \notin Name /\ Exported \subseteq Ext
    /\ OwnPort \subseteq Nat \ {0} /\ Multi \in OwnPort /\ Ext \cap Int = {}
    /\ IsFiniteSet(Ext) /\ IsFiniteSet(OwnPort)
    /\ MaxId \in Nat \ {0} /\ MaxQueue \in Nat /\ MaxSubs \in Nat

VARIABLES
    announcing, \* whether there is an Announcements port
    present,    \* the ports of Ext that exist
    subs,       \* the sequencer's subscriptions, <<sender, dest>>
    queue,      \* the events that were sent to the daemon and not handled yet
    awake,      \* whether the poller will call read_ready
    waiter,     \* the local_alsa_listener_t of each port number
    entries,    \* local_alsa_multi_listener_t::aseqpeers
    peers,      \* the router's peers
    wires,      \* the router's connections
    nextId,
    exports,    \* HwAutoAnnounce::connections
    renumbered, \* history: port numbers given up while events for them were pending
    missed,     \* history: waiters that are counted but lost their client, or never had it
    refused     \* history: waiters of which a subscription was given up, for want of an endpoint

history == <<renumbered, missed, refused>>
alsa   == <<announcing, present, subs, queue, awake>>
router == <<peers, wires, nextId>>
avars  == <<alsa, waiter, entries, router, exports, history>>

Port == Ext \cup OwnPort
Link == {l \in Port \X Port : l[1] \in OwnPort \/ l[2] \in OwnPort}

Waiter == [id : 1..MaxId, count : Nat, client : 0..MaxId, endpoints : BOOLEAN]
\* What read_ready makes of an event: a call of the signal of one of our ports
\* (of both, one after the other, when they are ours), or an announcement.
Event == [kind : {"subscribed", "unsubscribed"}, me : OwnPort, other : Port]
         \cup [kind : {"start", "exit"}, port : Ext]
Peer == [kind : {"multi", "waiter", "client"}]
        \cup [kind : {"listener"}, name : Name \cup {"ours", "nameless"}, uses : Int]

\* The subscriptions that port p has a part in, and the calls about it.
Of(p, links) == {l \in links : p \in Range(l)}
Pending(p) == {i \in DOMAIN queue : /\ queue[i].kind \in {"subscribed", "unsubscribed"}
                                    /\ p \in {queue[i].me, queue[i].other}}

\* Every variable keeps to its type, whatever the handlers of events,
\* commands and announcements do in whatever order.
ATypeOK ==
    /\ announcing \in BOOLEAN /\ awake \in BOOLEAN
    /\ present \subseteq Ext
    /\ subs \subseteq {l \in Link : Range(l) \subseteq present \cup {Multi} \cup DOMAIN waiter}
    /\ Range(queue) \subseteq Event
    /\ DOMAIN waiter \subseteq OwnPort \ {Multi}
    /\ \A w \in DOMAIN waiter : waiter[w] \in Waiter /\ waiter[w].id \in DOMAIN peers
    /\ DOMAIN entries \subseteq Port /\ Range(entries) \subseteq 1..MaxId
    /\ DOMAIN peers \subseteq 1..MaxId /\ Range(peers) \subseteq Peer
    /\ wires \subseteq (DOMAIN peers) \X (DOMAIN peers)
    /\ nextId \in 1..MaxId + 1
    /\ exports \subseteq Link
    /\ renumbered \subseteq OwnPort /\ missed \cup refused \subseteq 1..MaxId

-----------------------------------------------------------------------------
(* The sequencer. *)

Both(p) == {<<p, Multi>>, <<Multi, p>>}

\* get_my_ev_client_port, get_other_ev_client_port.
Call(kind, l, i) == [kind |-> kind, me |-> l[i], other |-> l[3 - i]]
Mine(l) == IF l[1] \notin OwnPort THEN <<2>> ELSE IF l[2] \notin OwnPort THEN <<1>> ELSE <<1, 2>>
Calls(kind, l) == [i \in DOMAIN Mine(l) |-> Call(kind, l, Mine(l)[i])]

\* Each of some subscriptions told of n times.
Events(kind, links, n) ==
    FlattenSeq([i \in 1..n * Cardinality(links) |->
                    Calls(kind, SetToSeq(links)[((i - 1) \div n) + 1])])

Send(q) == queue' = queue \o q /\ awake' = (awake \/ q # <<>>)

\* How often the daemon hears of a subscription of another program, and of its own.
Heard == IF announcing THEN 2 ELSE 1
Told  == IF announcing THEN 1 ELSE 0

\* for_devices, for_ports: the connections of the ports that already exist, of
\* which only those of devices are looked at.
Found == IF announcing THEN UNION {Both(p) : p \in present \cap Exported \cap Hardware} ELSE {}

\* An open sequencer, and a HwAutoAnnounce that has exported what it found.
AInit ==
    /\ announcing \in BOOLEAN
    /\ present \in SUBSET Ext
    /\ subs = Found /\ exports = Found
    /\ queue = Events("subscribed", Found, Told)
    /\ awake = (Found # {})
    /\ waiter = <<>>
    /\ entries = <<>>
    /\ peers = [i \in {Multi} |-> [kind |-> "multi"]]
    /\ wires = {}
    /\ nextId = 2
    /\ renumbered = {}
    /\ missed = {}
    /\ refused = {}

\* A port that goes away: those that it was subscribed with are told, once.
Ends(p) == {e \in Of(p, subs) \X {1, 2} : e[1][e[2]] \in OwnPort \ {p}}
Bereaved(p) == LET ends == SetToSeq(Ends(p))
               IN  [i \in DOMAIN ends |-> Call("unsubscribed", ends[i][1], ends[i][2])]

Elsewhere == UNCHANGED <<announcing, waiter, entries, router, exports, history>>

\* Another program subscribes two ports, or ends a subscription.
Subscribe(l) ==
    /\ l \in Link \ subs
    /\ Range(l) \subseteq present \cup {Multi} \cup DOMAIN waiter
    /\ l[1] # l[2] /\ Cardinality(subs) < MaxSubs
    /\ subs' = subs \cup {l}
    /\ Send(Events("subscribed", {l}, Heard))
    /\ UNCHANGED present /\ Elsewhere

Unsubscribe(l) ==
    /\ l \in subs
    /\ subs' = subs \ {l}
    /\ Send(Events("unsubscribed", {l}, Heard))
    /\ UNCHANGED present /\ Elsewhere

\* A port appears, or goes away with its subscriptions.
Plug(p) ==
    /\ p \in Ext \ present
    /\ present' = present \cup {p}
    /\ Send(IF announcing THEN <<[kind |-> "start", port |-> p]>> ELSE <<>>)
    /\ UNCHANGED subs /\ Elsewhere

Unplug(p) ==
    /\ p \in present
    /\ present' = present \ {p}
    /\ subs' = subs \ Of(p, subs)
    /\ Send(Bereaved(p)
            \o IF announcing THEN <<[kind |-> "exit", port |-> p]>> ELSE <<>>)
    /\ Elsewhere

-----------------------------------------------------------------------------
(* The router, as far as these peers use it (MidiRouter has the rest). *)

Without(f, S) == Restrict(f, DOMAIN f \ S)
Put(f, x, v)  == [y \in DOMAIN f \cup {x} |-> IF y = x THEN v ELSE f[y]]
Surviving(S) == {x \in wires : Range(x) \cap S = {}}

\* A registry that forgets a peer and not its connections.
RemovePeersWired(S) == peers' = Without(peers, S) /\ UNCHANGED <<wires, nextId>>

RemovePeers(S) ==
    /\ peers' = Without(peers, S)
    /\ wires' = Surviving(S)
    /\ UNCHANGED nextId

KeepAll == UNCHANGED router

-----------------------------------------------------------------------------
(* local_alsa_listener_t *)

Quietly == UNCHANGED <<announcing, present, renumbered>>
Drop(q) == queue' = Tail(queue) \o q
Handled == Drop(<<>>) /\ awake' = TRUE /\ UNCHANGED <<subs, refused>> /\ Quietly

\* disconnect_port: the index moves on while the list gets shorter, so that
\* every other subscription of each direction stays.
Halves(p) ==
    {gone \in SUBSET Of(p, subs) : \A d \in 1..2 :
        LET all == {l \in subs : l[d] = p}
        IN  Cardinality(gone \cap all) = (Cardinality(all) + 1) \div 2}

Count(w, n) == waiter' = [waiter EXCEPT ![w].count = n]

\* subscribe_event: the first of several calls the server.
WaiterCounts(w) ==
    /\ waiter[w].count > 0
    /\ Count(w, waiter[w].count + 1)
    /\ Handled /\ UNCHANGED <<router, missed>>

WaiterConnects(w) ==
    /\ waiter[w].count = 0 /\ waiter[w].endpoints
    /\ nextId <= MaxId
    /\ waiter' = [waiter EXCEPT ![w].count = 1, ![w].client = nextId]
    /\ peers' = Put(peers, nextId, [kind |-> "client"])
    /\ wires' = wires \cup {<<nextId, waiter[w].id>>, <<waiter[w].id, nextId>>}
    /\ nextId' = nextId + 1
    /\ Handled /\ UNCHANGED missed

WaiterRefuses(w) ==
    /\ waiter[w].count = 0 /\ ~waiter[w].endpoints
    /\ \E gone \in Halves(w) :
          /\ subs' = subs \ gone
          /\ Drop(Events("unsubscribed", gone, Told))
          /\ refused' = refused \cup {waiter[v].id : v \in {u \in DOMAIN waiter :
                                                            u = w \/ Of(u, gone) # {}}}
    /\ awake' = TRUE /\ Quietly /\ UNCHANGED <<waiter, router, missed>>

\* A count of the ports that read from w, and not of those it reads.
Readers(w) == Cardinality({l \in subs : l[1] = w})

\* for_connections: the readers of port w and the ports it reads.
Connections(w) == Cardinality({l \in subs : l[1] = w}) + Cardinality({l \in subs : l[2] = w})

\* A client that goes only with the subscription that was counted first.
WaiterRecountsLate(w) ==
    LET me == waiter[w]  left == Connections(w)
    IN  /\ Count(w, left)
        /\ IF me.count = 1 /\ left = 0 THEN RemovePeers({me.client}) ELSE KeepAll
        /\ UNCHANGED missed
        /\ Handled

\* unsubscribe_event: the subscriptions are counted again, and the client of
\* the last one goes.
WaiterRecounts(w) ==
    LET me == waiter[w]  left == Connections(w)
    IN  /\ Count(w, left)
        /\ IF left = 0 THEN RemovePeers({me.client}) ELSE KeepAll
        /\ \/ left = 0 /\ missed' = missed \ {me.id}
           \/ left # 0 /\ me.client \in DOMAIN peers /\ UNCHANGED missed
           \/ left # 0 /\ me.client \notin DOMAIN peers /\ missed' = missed \cup {me.id}
        /\ Handled

\* The event of a port that listens, that was removed, or that is the other one's.
WaiterHandles(ev) ==
    /\ ev.kind \in {"subscribed", "unsubscribed"} /\ ev.me # Multi
    /\ \/ ev.me \notin DOMAIN waiter /\ Handled /\ UNCHANGED <<waiter, router, missed>>
       \/ /\ ev.me \in DOMAIN waiter
          /\ \/ /\ ev.kind = "subscribed"
                /\ WaiterCounts(ev.me) \/ WaiterConnects(ev.me) \/ WaiterRefuses(ev.me)
             \/ ev.kind = "unsubscribed" /\ WaiterRecounts(ev.me)
    /\ UNCHANGED <<entries, exports>>

\* create_port: the sequencer gives the lowest number that is free.
FreePorts == OwnPort \ ({Multi} \cup DOMAIN waiter)

\* make_local_alsa_listener for a name that the router does not have yet.
CreateWaiter ==
    \E w \in FreePorts :
        /\ \A v \in FreePorts : w <= v
        /\ nextId <= MaxId
        /\ waiter' = Put(waiter, w, [id |-> nextId, count |-> 0, client |-> 0,
                                     endpoints |-> TRUE])
        /\ peers' = Put(peers, nextId, [kind |-> "waiter"])
        /\ nextId' = nextId + 1
        /\ UNCHANGED <<alsa, entries, wires, exports, history>>

\* The commands add_endpoint and remove_endpoint.
AddEndpoint(w) ==
    /\ ~waiter[w].endpoints
    /\ waiter' = [waiter EXCEPT ![w].endpoints = TRUE]
    /\ UNCHANGED <<alsa, entries, router, exports, history>>

RemoveEndpoint(w) ==
    /\ waiter[w].endpoints
    /\ waiter' = [waiter EXCEPT ![w].endpoints = FALSE]
    /\ UNCHANGED <<alsa, entries, router, exports, history>>

\* remove_port: the subscriptions end; events that were sent stay.
RemovePort(w) ==
    /\ waiter' = Without(waiter, {w})
    /\ subs' = subs \ Of(w, subs)
    /\ Send(Bereaved(w))
    /\ renumbered' = IF Pending(w) = {} THEN renumbered ELSE renumbered \cup {w}

\* ~local_alsa_listener_t that forgets its client.
RemoveWaiterAlone(w) ==
    /\ RemovePeers({waiter[w].id})
    /\ RemovePort(w)
    /\ UNCHANGED <<announcing, present, entries, exports, missed, refused>>

\* router.remove of a waiter: its port goes, and its client.
RemoveWaiter(w) ==
    /\ RemovePeers({waiter[w].id, waiter[w].client})
    /\ RemovePort(w)
    /\ UNCHANGED <<announcing, present, entries, exports, missed, refused>>

\* router.remove of a network peer: nobody else is told.
RemovePeer(i) ==
    /\ peers[i].kind \in {"client", "listener"}
    /\ RemovePeers({i})
    /\ missed' = missed \cup {waiter[w].id : w \in {v \in DOMAIN waiter : waiter[v].client = i}}
    /\ UNCHANGED <<alsa, waiter, entries, exports, renumbered, refused>>

-----------------------------------------------------------------------------
(* local_alsa_multi_listener_t *)

\* get_client_name: what the port is called now, which is nothing once it is gone.
NameNow(p) == IF p \in present THEN NameOf[p]
              ELSE IF p \in DOMAIN waiter THEN "ours" ELSE "nameless"

Named(nm) == {i \in DOMAIN peers : peers[i].kind = "listener" /\ peers[i].name = nm}

\* A listener that does not count who joins it.
MultiSubscribedUncounted(p) ==
    LET same == Named(NameNow(p))
    IN  \/ \E i \in same : entries' = Put(entries, p, i) /\ KeepAll
        \/ /\ same = {} /\ nextId <= MaxId
           /\ entries' = Put(entries, p, nextId)
           /\ peers' = Put(peers, nextId, [kind |-> "listener", name |-> NameNow(p), uses |-> 0])
           /\ wires' = wires \cup {<<nextId, Multi>>}
           /\ nextId' = nextId + 1

\* new_alsa_connection: one more user of the listeners of that name, or the
\* first of a new one, which is not counted.
MultiSubscribed(p) ==
    LET same == Named(NameNow(p))
    IN  \/ \E i \in same :
              /\ entries' = Put(entries, p, i)
              /\ peers' = [j \in DOMAIN peers |->
                             IF j \in same THEN [peers[j] EXCEPT !.uses = @ + 1] ELSE peers[j]]
              /\ UNCHANGED <<wires, nextId>>
        \/ /\ same = {} /\ nextId <= MaxId
           /\ entries' = Put(entries, p, nextId)
           /\ peers' = Put(peers, nextId, [kind |-> "listener", name |-> NameNow(p), uses |-> 0])
           /\ wires' = wires \cup {<<nextId, Multi>>}
           /\ nextId' = nextId + 1

\* The last user of a listener takes it along.
Release(i) ==
    LET left == peers[i].uses - 1
    IN  IF left > 0 THEN peers' = [peers EXCEPT ![i].uses = left] /\ UNCHANGED <<wires, nextId>>
        ELSE RemovePeers({i})

\* An entry that is erased with its listener only.
MultiUnsubscribedLate(p) ==
    \/ /\ p \in DOMAIN entries /\ entries[p] \in DOMAIN peers
       /\ entries' = IF peers[entries[p]].uses > 1 THEN entries ELSE Without(entries, {p})
       /\ Release(entries[p])
    \/ /\ p \in DOMAIN entries => entries[p] \notin DOMAIN peers
       /\ KeepAll /\ UNCHANGED entries

\* remove_alsa_connection: nothing for a port it does not know, or whose
\* listener was removed by somebody else.
MultiUnsubscribed(p) ==
    \/ /\ p \in DOMAIN entries /\ entries[p] \in DOMAIN peers
       /\ entries' = Without(entries, {p})
       /\ Release(entries[p])
    \/ /\ p \in DOMAIN entries => entries[p] \notin DOMAIN peers
       /\ KeepAll /\ UNCHANGED entries

MultiHandles(ev) ==
    /\ ev.kind \in {"subscribed", "unsubscribed"} /\ ev.me = Multi
    /\ \/ ev.kind = "subscribed" /\ MultiSubscribed(ev.other)
       \/ ev.kind = "unsubscribed" /\ MultiUnsubscribed(ev.other)
    /\ Handled /\ UNCHANGED <<waiter, exports, missed>>

-----------------------------------------------------------------------------
(* HwAutoAnnounce *)

\* added_port_announcement: a port to export is connected both ways.  One that
\* is gone already cannot be, and the exception ends read_ready, which may
\* have read the events that follow from the kernel.
Export(p) ==
    \/ /\ p \in Exported \cap present
       /\ subs' = subs \cup Both(p)
       /\ exports' = exports \cup Both(p)
       /\ Drop(Events("subscribed", Both(p) \ subs, Told))
       /\ awake' = TRUE
    \/ /\ p \in Exported \ present
       /\ Drop(<<>>)
       /\ awake' \in BOOLEAN
       /\ UNCHANGED <<subs, exports>>
    \/ /\ p \notin Exported
       /\ Drop(<<>>) /\ awake' = TRUE
       /\ UNCHANGED <<subs, exports>>

\* The connections that come from the port, and not those that lead to it.
UnexportSource(p) ==
    /\ exports' = {l \in exports : l[1] # p}
    /\ Drop(<<>>) /\ awake' = TRUE
    /\ UNCHANGED subs

\* removed_port_announcement: the connections of the port, either way.
Unexport(p) ==
    /\ exports' = exports \ Of(p, exports)
    /\ Drop(<<>>) /\ awake' = TRUE
    /\ UNCHANGED subs

HwHandles(ev) ==
    /\ \/ ev.kind = "start" /\ Export(ev.port)
       \/ ev.kind = "exit" /\ Unexport(ev.port)
    /\ Quietly /\ UNCHANGED <<waiter, entries, router, missed, refused>>

\* read_ready, one event after the other until there is none left.
ReadReady ==
    /\ awake
    /\ \/ /\ queue # <<>>
          /\ WaiterHandles(Head(queue)) \/ MultiHandles(Head(queue)) \/ HwHandles(Head(queue))
       \/ /\ queue = <<>>
          /\ awake' = FALSE
          /\ UNCHANGED <<announcing, present, subs, queue>>
          /\ UNCHANGED <<waiter, entries, router, exports, history>>

-----------------------------------------------------------------------------
Others ==
    \/ \E l \in Link : Subscribe(l) \/ Unsubscribe(l)
    \/ \E p \in Ext : Plug(p) \/ Unplug(p)

User ==
    \/ CreateWaiter
    \/ \E w \in DOMAIN waiter : AddEndpoint(w) \/ RemoveEndpoint(w) \/ RemoveWaiter(w)
    \/ \E i \in DOMAIN peers : RemovePeer(i)

ANext == ReadReady \/ Others \/ User
ASpec == AInit /\ [][ANext]_avars

-----------------------------------------------------------------------------
\* Once every event about a server's port was handled and nobody is subscribed
\* to it, its client is gone: nobody stays connected to a server that no one
\* uses.  (Events that a former listener left for the same port number are the
\* exception, and so is a subscription the daemon gave up by itself.)
UnusedIsDisconnected ==
    \A w \in DOMAIN waiter \ renumbered :
        Pending(w) = {} /\ Of(w, subs) = {} /\ waiter[w].id \notin refused =>
            waiter[w].client \notin DOMAIN peers

\* Somebody who is subscribed is connected, once the events are handled: unless
\* a subscription ended, or a user took the client away, or no endpoint was
\* known, while another one was on its way.
UsedIsConnected ==
    \A w \in DOMAIN waiter \ renumbered :
        Pending(w) = {} /\ Of(w, subs) # {} /\ waiter[w].id \notin missed \cup refused
            => waiter[w].client \in DOMAIN peers

\* A client of the router is the client of one waiter, and wired to it both
\* ways: reconnecting and removing leave no client behind.
ClientsAreOwned ==
    \A i \in DOMAIN peers : peers[i].kind = "client" =>
        /\ Cardinality({w \in DOMAIN waiter : waiter[w].client = i}) = 1
        /\ \A w \in DOMAIN waiter : waiter[w].client = i =>
                {<<i, waiter[w].id>>, <<waiter[w].id, i>>} \subseteq wires

\* A port of another program that has left is not heard by a network listener.
LeftIsForgotten ==
    \A p \in DOMAIN entries \cap Ext :
        (\A i \in Pending(p) : queue[i].me # Multi) /\ Of(p, subs) \cap Of(Multi, subs) = {}
            => entries[p] \notin DOMAIN peers

\* use_count counts every port but the first: at most one port that still uses
\* a listener loses it when the count is back at zero.
OneUserUncounted ==
    \A i \in DOMAIN peers : peers[i].kind = "listener" =>
        peers[i].uses >= Cardinality({p \in DOMAIN entries : entries[p] = i}) - 1

\* HwAutoAnnounce keeps no connection of a port whose departure was announced.
ExportsArePresent ==
    \A l \in exports : \A p \in Range(l) \cap Ext :
        (\A i \in DOMAIN queue : queue[i].kind = "exit" => queue[i].port # p) => p \in present
=============================================================================
