----------------------------- MODULE Discovery -----------------------------
(***************************************************************************)
(* Discovery: what the daemon announces over mDNS and what it learns from  *)
(* it (lib/mdns_rtpmidi.cpp), and the ALSA port it keeps for every server  *)
(* it knows (src/rtpmidiremotehandler.cpp).                                *)
(*                                                                         *)
(* The Avahi daemon is another process: it browses the network, resolves   *)
(* and registers at its own pace, its answers wait on a bus and are read   *)
(* in order, and it may be away when the program starts or leave later.    *)
(* One server is announced once for every interface and protocol it is     *)
(* reached by (Way), and each of these comes and goes by itself.           *)
(***************************************************************************)
EXTENDS Integers, FiniteSets, SequencesExt, Functions

CONSTANTS Server,      \* names of remote servers
          Way,         \* the interfaces and protocols a server is reached by
          Wanted,      \* what the settings let in, <<server, way>>
          Configured,  \* the servers that have a listener from the start
          Own,         \* the announcements this program may make
          Taken,       \* suffixes under which the network has the names already
          Refused,     \* suffixes under which this host has them
          MaxId,       \* bound: listeners at a time
          MaxBus,      \* bound: answers not read yet
          MaxChanges   \* bound: announcements made and withdrawn

ASSUME DiscoveryAssumption ==
    /\ Wanted \subseteq Server \X Way /\ Configured \subseteq Server
    /\ Taken \subseteq Nat /\ Refused \subseteq Nat
    /\ IsFiniteSet(Taken) /\ IsFiniteSet(Refused) /\ IsFiniteSet(Configured)
    /\ Cardinality(Configured) <= MaxId
    /\ MaxId \in Nat /\ MaxBus \in Nat /\ MaxChanges \in Nat

VARIABLES
    avahi,     \* whether the Avahi daemon runs
    net,       \* the servers on the network, <<server, way>>
    listed,    \* those that the browser was told of
    resolving, \* the resolvers that did not answer yet
    job,       \* a registration that Avahi has not decided yet
    bus,       \* the answers of Avahi, in order
    client,    \* mdns_rtpmidi_t::client
    retry,     \* reconnect_timer
    browser,   \* service_browser
    group,     \* the entry group and its state
    announcements, suffix,
    offered,   \* what was registered by the last commit, <<own, suffix>>
    changes,   \* bound: how often announcements changed
    remotes,   \* remote_announcements: the places, of which one may stand there twice
    known,     \* rtpmidi_remote_handler_t::peers: server -> listener
    listeners, \* the local_alsa_listener_t objects: their servers and ways
    routed,    \* the listeners that the router has
    lost       \* history: servers of which more was removed than had left

outside == <<avahi, net, listed, resolving, job>>
ours    == <<client, retry, browser, group, announcements, suffix, offered, changes>>
theirs  == <<remotes, known, listeners, routed, lost>>
dvars   == <<outside, bus, ours, theirs>>

Place == Server \X Way
ClientState == {"none", "connecting", "running", "failed"}
GroupState == {"none", "uncommitted", "registering", "established", "collision"}
Answer == [kind : {"new", "remove", "found", "failure"}, at : Place]
          \cup [kind : {"group"}, state : {"established", "collision"}]
          \cup [kind : {"client"}, state : {"failed"}]

\* Every variable keeps to its type, and the handler's listeners exist, in
\* whatever order Avahi's answers and the user's commands come.
DTypeOK ==
    /\ avahi \in BOOLEAN /\ net \subseteq Place /\ listed \subseteq Place
    /\ resolving \subseteq Place
    /\ job \in BOOLEAN /\ Range(bus) \subseteq Answer
    /\ client \in ClientState /\ retry \in BOOLEAN /\ browser \in BOOLEAN
    /\ group \in GroupState
    /\ announcements \subseteq Own /\ suffix \in Nat /\ offered \subseteq Own \X Nat
    /\ changes \in 0..MaxChanges
    /\ remotes \subseteq Place
    /\ DOMAIN known \subseteq Server /\ Range(known) \subseteq DOMAIN listeners
    /\ DOMAIN listeners \subseteq 1..MaxId
    /\ Range(listeners) \subseteq [name : Server, ways : SUBSET Way]
    /\ routed \subseteq DOMAIN listeners
    /\ lost \subseteq Server
    /\ retry <=> client = "none"

-----------------------------------------------------------------------------
(* Announcements *)

\* Avahi answers this client, which it does no more once it has been away.
Reachable ==
    client = "running" /\ avahi /\ \A i \in DOMAIN bus : bus[i].kind # "client"

\* The suffix that announce_all goes on with: the same, or after a collision another.
SameSuffix(state) == suffix
NextSuffix(state) == IF state = "collision" THEN suffix + 1 ELSE suffix

\* announce_all, of the list as it is now, to a group in this state.
\* Reset and registered again; a name that this host has already ends it there.
AnnounceAll(list, state) ==
    \/ /\ state = "none" \/ client = "failed"
       /\ group' = state
       /\ UNCHANGED <<suffix, offered, job>>
    \/ /\ state # "none" /\ client # "failed" /\ ~Reachable
       /\ group' = state
       /\ suffix' = NextSuffix(state) + IF list = {} THEN 0 ELSE 1
       /\ UNCHANGED <<offered, job>>
    \/ /\ state # "none" /\ Reachable
       /\ list # {} /\ NextSuffix(state) \in Refused
       /\ suffix' = NextSuffix(state) + 1
       /\ group' = "uncommitted" /\ offered' = {} /\ job' = FALSE
    \/ /\ state # "none" /\ Reachable
       /\ suffix' = NextSuffix(state)
       /\ offered' = list \X {suffix'}
       /\ group' = "registering" /\ job' = TRUE

Change == changes < MaxChanges /\ changes' = changes + 1

\* announce_rtpmidi: a listener or a multi listener of the network starts.
Announce(a) ==
    /\ a \notin announcements /\ Change
    /\ announcements' = announcements \cup {a}
    /\ AnnounceAll(announcements', group)
    /\ UNCHANGED <<avahi, net, listed, resolving, bus, client, retry, browser, theirs>>

\* A server that takes its announcement out of the list and leaves it at that.
UnannounceLater(a) ==
    /\ a \in announcements /\ Change
    /\ announcements' = announcements \ {a}
    /\ UNCHANGED <<outside, bus, client, retry, browser, group, suffix, offered, theirs>>

\* unannounce_rtpmidi: it stops, or mdns.remove names its port.
Unannounce(a) ==
    /\ a \in announcements /\ Change
    /\ announcements' = announcements \ {a}
    /\ AnnounceAll(announcements', group)
    /\ UNCHANGED <<avahi, net, listed, resolving, bus, client, retry, browser, theirs>>

-----------------------------------------------------------------------------
(* The client and its objects. *)

Unannounced == UNCHANGED <<announcements, suffix, offered, changes>>
Say(answers) == bus' = bus \o answers

News(places) == LET at == SetToSeq(places)
                IN  [i \in DOMAIN at |-> [kind |-> "new", at |-> at[i]]]

\* AVAHI_CLIENT_S_RUNNING: setup_service_browser and setup_entry_group.  The
\* browser is told of everything; the group announces nothing.
Running ==
    /\ client' = "running" /\ retry' = FALSE
    /\ browser' = TRUE /\ Say(News(net)) /\ listed' = net
    /\ group' = "uncommitted"

\* connect_to_avahi, at the start and from its timer: without D-Bus there is no
\* client at all; one that finds Avahi runs before avahi_client_new returns.
Connect ==
    /\ client = "none"
    /\ \/ /\ client' = "none" /\ retry' = TRUE
          /\ UNCHANGED <<browser, group, bus, listed>>
       \/ /\ client' = "connecting" /\ retry' = FALSE /\ ~avahi
          /\ UNCHANGED <<browser, group, bus, listed>>
       \/ avahi /\ Running
    /\ Unannounced /\ UNCHANGED <<avahi, net, resolving, job, theirs>>

DInit ==
    /\ avahi \in BOOLEAN /\ net = {} /\ listed = {} /\ resolving = {} /\ job = FALSE
    /\ bus = <<>>
    /\ client = "none" /\ retry = TRUE /\ browser = FALSE
    /\ group = "none" /\ announcements = {} /\ suffix = 0 /\ offered = {} /\ changes = 0
    /\ remotes = {} /\ known = <<>>
    /\ LET name == SetToSeq(Configured)
       IN  listeners = [i \in 1..Cardinality(Configured) |-> [name |-> name[i], ways |-> {}]]
    /\ routed = 1..Cardinality(Configured)
    /\ lost = {}

-----------------------------------------------------------------------------
(* The handler of remote servers. *)

\* Listeners that the router alone owns.
KeepRouted(objects, kept, owned) == Restrict(objects, kept)

\* Listeners without an owner are destroyed.
Keep(objects, kept, owned) == Restrict(objects, kept \cup Range(owned))

\* A factory that makes a listener for every server.
NoListener(n) == {}

\* The listener of a server: the handler's, or one of that name that the router
\* has, or a new one (a bound: there are MaxId).
Fresh == CHOOSE i \in 1..MaxId : i \notin DOMAIN listeners
RoutedAs(n) == {i \in routed : listeners[i].name = n}

ListenerOf(n) == CASE n \in DOMAIN known -> known[n]
                   [] n \notin DOMAIN known /\ RoutedAs(n) # {} -> CHOOSE i \in RoutedAs(n) : TRUE
                   [] OTHER -> Fresh
Available(n) == n \in DOMAIN known \/ RoutedAs(n) # {} \/ 1..MaxId \ DOMAIN listeners # {}

\* A map with one more entry, or another value for one.
Put(f, x, v) == [y \in DOMAIN f \cup {x} |-> IF y = x THEN v ELSE f[y]]

\* A handler that does not give a new listener to the router.
DiscoverPeerUnrouted(n, w) ==
    LET i == ListenerOf(n)
    IN  /\ known' = Put(known, n, i)
        /\ listeners' = Put(listeners, i, [name |-> n, ways |-> {w}])
        /\ UNCHANGED routed

\* discover_peer: one more way to the server.
DiscoverPeer(n, w) ==
    LET i == ListenerOf(n)
        ways == IF i \in DOMAIN listeners THEN listeners[i].ways ELSE {}
    IN  /\ Available(n)
        /\ known' = Put(known, n, i)
        /\ listeners' = Put(listeners, i, [name |-> n, ways |-> ways \cup {w}])
        /\ routed' = IF i \in DOMAIN listeners THEN routed ELSE routed \cup {i}

\* remove_peer: by name; the router lets go of it, and so does the handler.
RemovePeer(n) ==
    /\ known' = Restrict(known, DOMAIN known \ {n})
    /\ routed' = IF n \in DOMAIN known THEN routed \ {known[n]} ELSE routed
    /\ listeners' = Keep(listeners, routed', known')

\* The server may still be there, by some way.
StillThere(n) == \E x \in listed : x[1] = n
Forgotten(n) == lost' = IF StillThere(n) THEN lost \cup {n} ELSE lost

Undiscovered == UNCHANGED <<known, listeners, routed, lost>>

\* A discovery that is not entered into the list.
FoundUnlisted(x) ==
    /\ UNCHANGED remotes
    /\ \/ x \in Wanted /\ DiscoverPeer(x[1], x[2]) /\ lost' = lost \ ({x[1]} \ DOMAIN known)
       \/ x \notin Wanted /\ Undiscovered

\* discovered_remote: the handler hears of it, and it is entered into the list.
Found(x) ==
    /\ remotes' = remotes \cup {x}
    /\ \/ x \in Wanted /\ DiscoverPeer(x[1], x[2]) /\ lost' = lost \ ({x[1]} \ DOMAIN known)
       \/ x \notin Wanted /\ Undiscovered

\* A resolver that gave up: remove_event for a server that may never have been
\* found, or that another resolver did find.
Unresolved(x) ==
    /\ RemovePeer(x[1]) /\ Forgotten(x[1])
    /\ UNCHANGED remotes

Mentioned(n) == \E x \in remotes : x[1] = n

RemotesWithout(n) == {x \in remotes : x[1] # n}

\* removed_remote and remove_announcement: every entry of that name goes, with
\* two remove_events for each, of which the first finds the peer.
Removed(n) ==
    \/ Mentioned(n) /\ remotes' = RemotesWithout(n) /\ RemovePeer(n) /\ Forgotten(n)
    \/ ~Mentioned(n) /\ UNCHANGED remotes /\ Undiscovered

-----------------------------------------------------------------------------
(* What Avahi does meanwhile.  It answers only while the client runs. *)

Room == Len(bus) < MaxBus

Appear(x) ==
    /\ x \notin net /\ net' = net \cup {x}
    /\ \/ Reachable /\ Room /\ Say(News({x})) /\ listed' = listed \cup {x}
       \/ ~Reachable /\ UNCHANGED <<bus, listed>>
    /\ UNCHANGED <<avahi, resolving, job, ours, theirs>>

Leave(x) ==
    /\ x \in net /\ net' = net \ {x}
    /\ \/ Reachable /\ Room /\ Say(<<[kind |-> "remove", at |-> x]>>) /\ listed' = listed \ {x}
       \/ ~Reachable /\ UNCHANGED <<bus, listed>>
    /\ UNCHANGED <<avahi, resolving, job, ours, theirs>>

\* A resolver finds a server that is there, or runs out of time.
Resolve(x) ==
    /\ Reachable /\ Room
    /\ x \in resolving /\ resolving' = resolving \ {x}
    /\ \/ x \in net /\ Say(<<[kind |-> "found", at |-> x]>>)
       \/ Say(<<[kind |-> "failure", at |-> x]>>)
    /\ UNCHANGED <<avahi, net, listed, job, ours, theirs>>

\* The network accepts the names, or has them already.
Decide ==
    /\ job /\ Reachable
    /\ job' = FALSE
    /\ \/ Say(<<[kind |-> "group", state |-> "established"]>>)
       \/ /\ offered # {} /\ suffix \in Taken
          /\ Say(<<[kind |-> "group", state |-> "collision"]>>)
    /\ UNCHANGED <<avahi, net, listed, resolving, ours, theirs>>

\* Avahi comes: a client that waits for it runs.
Start ==
    /\ ~avahi /\ avahi' = TRUE
    /\ \/ client = "connecting" /\ Running
       \/ client # "connecting" /\ UNCHANGED <<client, retry, browser, bus, listed, group>>
    /\ Unannounced /\ UNCHANGED <<net, resolving, job, theirs>>

\* Avahi goes: its objects are void, and the client learns that it failed.
Crash ==
    /\ avahi /\ avahi' = FALSE
    /\ listed' = {} /\ resolving' = {} /\ job' = FALSE
    /\ \/ Reachable /\ Say(<<[kind |-> "client", state |-> "failed"]>>)
       \/ ~Reachable /\ UNCHANGED bus
    /\ UNCHANGED <<net, ours, theirs>>

Avahi ==
    \/ \E x \in Place : Appear(x) \/ Leave(x) \/ Resolve(x)
    \/ Decide \/ Start \/ Crash

-----------------------------------------------------------------------------
(* The callbacks, for the answer that comes first. *)

OnBrowse(a) ==
    /\ \/ a.kind = "new" /\ resolving' = resolving \cup {x \in {a.at} : Reachable}
          /\ UNCHANGED theirs
       \/ a.kind = "remove" /\ Removed(a.at[1]) /\ UNCHANGED resolving
    /\ bus' = Tail(bus)
    /\ UNCHANGED <<avahi, net, listed, job, ours>>

OnResolve(a) ==
    /\ \/ a.kind = "found" /\ Found(a.at)
       \/ a.kind = "failure" /\ Unresolved(a.at)
    /\ bus' = Tail(bus)
    /\ UNCHANGED <<outside, ours>>

\* entry_group_callback: another name after a collision.
OnGroup(a) ==
    /\ a.kind = "group"
    /\ \/ a.state = "collision" /\ AnnounceAll(announcements, "collision")
       \/ a.state = "established" /\ group' = "established" /\ UNCHANGED <<suffix, offered, job>>
    /\ bus' = Tail(bus)
    /\ UNCHANGED <<avahi, net, listed, resolving, client, retry, browser, announcements, changes,
                   theirs>>

\* AVAHI_CLIENT_FAILURE: it is reported, and the client kept.
OnClient(a) ==
    /\ a.kind = "client"
    /\ client' = a.state
    /\ bus' = Tail(bus)
    /\ UNCHANGED <<outside, retry, browser, group, theirs>> /\ Unannounced

Callback ==
    /\ bus # <<>>
    /\ OnBrowse(Head(bus)) \/ OnResolve(Head(bus)) \/ OnGroup(Head(bus)) \/ OnClient(Head(bus))

\* router.remove of a listener: the handler keeps the object, and the name.
RouterRemove(i) ==
    /\ i \in routed /\ routed' = routed \ {i}
    /\ listeners' = Keep(listeners, routed', known)
    /\ lost' = lost \cup {listeners[i].name}
    /\ UNCHANGED <<outside, bus, ours, remotes, known>>

\* mdns.remove of a server.
MdnsRemove(n) ==
    /\ remotes' = RemotesWithout(n)
    /\ RemovePeer(n) /\ Forgotten(n)
    /\ UNCHANGED <<outside, bus, ours>>

User ==
    \/ \E a \in Own : Announce(a) \/ Unannounce(a)
    \/ \E i \in routed : RouterRemove(i)
    \/ \E n \in Server : MdnsRemove(n)

DNext == Avahi \/ Callback \/ Connect \/ User

\* Avahi decides on what it was asked, and the poller delivers what it says.
DSpec == DInit /\ [][DNext]_dvars /\ WF_dvars(Decide) /\ WF_dvars(Callback)

-----------------------------------------------------------------------------
Quiet(n) ==
    /\ \A i \in DOMAIN bus : bus[i].kind \in {"group", "client"} \/ bus[i].at[1] # n
    /\ \A x \in resolving : x[1] # n

\* A server that left by every way, with nothing about it still to be read, has
\* no listener: while Avahi runs no port of a server that is gone stays behind.
LeftIsUnknown ==
    \A n \in Server :
        Reachable /\ Quiet(n) /\ ~StillThere(n) => n \notin DOMAIN known

\* A server that can be reached is known and has its port, unless more of it
\* was removed than had left: one way of two, by its name, or by a user.
ListedIsRouted ==
    \A n \in Server :
        Reachable /\ Quiet(n) /\ listed \cap Wanted \cap ({n} \X Way) # {} /\ n \notin lost
            => n \in DOMAIN known /\ known[n] \in routed

\* A configured server that is discovered too has one port, not two.
OneListenerPerName ==
    \A i, j \in routed : listeners[i].name = listeners[j].name => i = j

\* What was committed last is the list as it is now, all of it under the current
\* suffix, or else nothing is committed at all: no part of the list is left out
\* of a commit, stays in one after it was withdrawn, or stays under an older
\* name, and never while a registration goes on.  Nothing is committed after
\* this host has refused a name, and of a list that was made before there was a
\* group (AnnouncedWhenConnected is about that one).
OfferedIsTheList ==
    Reachable =>
        /\ offered \in {{}, announcements \X {suffix}}
        /\ group = "registering" => offered = announcements \X {suffix}

\* A registration ends, collisions included: with the names on the network, or
\* with nothing registered because this host refuses them, or with Avahi gone.
RegistrationEnds ==
    group = "registering" ~> group \in {"established", "uncommitted"} \/ ~Reachable

\* "No group to announce to.  Maybe not connected to avahi yet.  Will be
\* annoucned when connected": once there is a connection, what is in the list is
\* offered, unless this host refuses a name or Avahi goes.
AnnouncedWhenConnected ==
    announcements # {} /\ Reachable
        ~> announcements = {} \/ offered # {} \/ suffix > 0 \/ ~Reachable
=============================================================================
