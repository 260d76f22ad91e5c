# Specifications of rtpmidid

`rtpmidid` is a daemon that exchanges MIDI between programs and devices of one
machine (ALSA sequencer, raw MIDI devices) and other machines (RTP-MIDI over
UDP, found through Avahi/mDNS). These modules specify the parts of it that hold
state over time, and the codecs between them. TLC checks them on small
instances; TLAPS proves, for every value of the constants, the safety properties
of all of them: of the router and the devices behind it, of
the server's list, which implements its abstract specification, of the client's
state machine, of what discovery offers and routes, of the listeners of ALSA
ports, of the event loop, that MIDI data comes out as it went in, and that
no loss or reordering of packets makes commands that nobody sent.

The program is one thread around one poller (`lib/poller.cpp`): a handler, a
timer or a deferred call runs to its end before the next one starts. So an
action of these modules is one whole handler with every call it makes, and the
interleavings that matter are those of *inputs*: packets that are lost,
repeated, late or out of order, timers that race answers, peers that come and
go, sockets that fail, and handlers that re-enter one another through signals.
Two modules are finer: the handlers of the client nest, and the nesting is what
can go wrong, so there one action is one piece of a handler; and `EventLoop`
shows the round of the poller itself, which has read what is ready before the
first handler of the round runs. The others that do run concurrently are other
processes: the kernel's sequencer (`AlsaPorts`), Avahi (`Discovery`) and the
programs at the control socket (`EventLoop`).

## Inventory

Paths are relative to the repository. "Hard" is what a unit test hardly reaches.

| component | state | operations | hard |
|---|---|---|---|
| **MIDI router** `src/midirouter.cpp`, `midipeer_t` | `peers` (id → peer, `send_to` vector), `max_id`, each object's `peer_id` | `add_peer`, `remove_peer`, `connect`, `disconnect`, `clear`, `send_midi`, `event` | duplicate entries in `send_to`, erase while iterating, removal of a peer others send to |
| **Session half** `lib/rtppeer.cpp` | status bits, `initiator_id`, `remote_ssrc`, sequence numbers, SysEx buffer | `data_ready` (IN, OK, NO, BY, CK, feedback, MIDI), `connect_to`, `send_ck0`, `send_goodbye`, `disconnect`, `send_midi` | order of status change and signal, half-closed sessions, `reset` forgets the initiator |
| **Server** `lib/rtpserver.cpp`, `lib/rtpserverpeer.cpp` | vector of `rtpserverpeer_t` (peer, address, timer, connections) | packet lookup, `create_peer_from`, the 5 s and 60 s timers, `remove_peer`, destructor, MIDI to all peers | records that the vector moves re-run `setup_connections`; records removed from their own signal; reconnects |
| **Client** `lib/rtpclient.cpp`, `lib/rtpclient_statemachine.cpp` | state, address lists, one timer, three connected callbacks, two sockets, one peer | `add_server_address`, 14 states and 13 events, destructor | `handle_event` re-entered from signals raised by itself; late answers; callbacks that outlive their state |
| **Raw MIDI device** `src/local_rawmidi_peer.cpp` | `fd`, `connection_count` | `open`, `close`, `connected`, `disconnected`, `event`, `read_midi`, `send_midi` | the count follows events that do not come in pairs |
| **ALSA listeners** `src/local_alsa_*.cpp` | subscriptions counted, the client they own, `use_count` by name | subscribe, unsubscribe, `add_endpoint`, commands | the count is read from the sequencer, which is ahead of the queued events |
| **Network midipeers** `src/network_rtpmidi_*.cpp` | the session they wrap | status changes forwarded to the router, MIDI both ways | a session that ends inside its own callback |
| **Discovery** `lib/mdns_rtpmidi.cpp`, `src/rtpmidiremotehandler.cpp` | announcements, browsers, discovered remotes; handler by name | announce, unannounce, browse, resolve, remove | Avahi restarts; remotes with the same name |
| **Poller and signals** `lib/poller.cpp`, `include/rtpmidid/signal.hpp` | fds, timers, deferred calls; slots by id | add, remove, run; connect, disconnect, emit | collections changed while they are walked |
| **Stream codecs** `src/midi_normalizer.cpp`, `lib/rtppeer.cpp` (MIDI, SysEx), `src/aseq.cpp` | partial command, running SysEx | byte in, command out | running status, real-time bytes, lost segments |
| **ALSA sequencer** `src/aseq.cpp`, `src/hwautoannounce.cpp` | ports, slots by port, connections | create, connect, disconnect, read events | calls answer for now, events tell of the past |
| **Control socket** `src/control_socket.cpp`, `cli/` | open clients | JSON commands | clients that leave, are silent, do not read, or ask twice at once |
| **Sockets and addresses**, **packet buffers**, **configuration, logging, statistics, start and stop** | – | wrappers, byte layout, parsing | – |

How they interact: the poller calls `udppeer_t`, which raises `on_read`; the
server or client finds its `rtppeer_t` and gives it the packet;
`rtppeer_t` raises `status_change_event`, `ck_event`, `send_event` and
`midi_event`; the server or client changes its list, timers and sockets in
callbacks of these signals and raises its own; the network midipeers turn those
into `midirouter_t::event`, which the router hands to every peer in `send_to`
(a raw MIDI device opens and closes on them); commands of the control socket and
discoveries of Avahi create, connect and remove midipeers. Shared state is
always reached by call or callback; nothing is locked.

What makes each component correct:

- router: connections join peers that are there; ids are never reused; both
  ends of a connection hear when it begins and ends.
- server: a record is on the list exactly until its listeners are told that it
  is gone; what they believe covers what is; silent clients are removed; the far
  end is told when this end closes.
- client: it always waits for something, with the timer of what it waits for;
  every failure leads to a retry; every known address is tried; it says
  connected only when both ports are.
- raw MIDI: the device is open while somebody is connected and only then.
- ALSA listeners: a session exists exactly while somebody subscribes.
- discovery: what is in the list of announcements is on the network, all of it
  under one name, as soon as Avahi can be asked; a remote peer goes when its last
  endpoint goes.
- signals and poller: a slot that was disconnected is not called, one that is
  connected is called once; a timer runs once, and may add or remove others.
- codecs: the commands that come out are the commands that went in.

`PROJECT.json` lists each hazard at its line with the properties that watch it.

## Modules

| module | models | lines of TLA+ stand for |
|---|---|---|
| `MidiRouter` | the registry and the connections | `src/midirouter.cpp`, `midipeer_t` |
| `MCRouter` | instance with symmetric peers | |
| `MidiRouterProofs` | theorems about `MidiRouter` | |
| `SessionList` | abstract: what the listeners of a server hear of its sessions | what `rtpserver_t` promises |
| `RtpPeer` | command packets and calls of one session half, without variables | `lib/rtppeer.cpp` |
| `RtpServer` | the server over `RtpPeer`, implements `SessionList` | `lib/rtpserver.cpp`, `lib/rtpserverpeer.cpp` |
| `MCServer` | instances: clients and their invitations | |
| `RtpServerProofs` | theorems about `RtpServer` | |
| `RtpClient` | the client's state machine over `RtpPeer` | `lib/rtpclient.cpp`, `lib/rtpclient_statemachine.cpp` |
| `MCClient` | instances: endpoints and servers | |
| `RtpClientProofs` | theorems about `RtpClient` | |
| `RawMidi` | devices behind the router: extends `MidiRouter`, relies on `SessionList` | `src/local_rawmidi_peer.cpp`, the status handlers of `src/network_rtpmidi_listener.cpp` and `src/network_rtpmidi_client.cpp` |
| `MCRawMidi` | instance, with the view and the constraint of its run | |
| `RawMidiProofs` | theorems about `RawMidi`, on those of `MidiRouterProofs` | |
| `AlsaPorts` | sequencer, waiting listeners, multi listener, automatic export | `src/aseq.cpp`, `src/local_alsa_listener.cpp`, `src/local_alsa_multi_listener.cpp`, `src/hwautoannounce.cpp` |
| `MCAlsa` | instance: two ports of other programs, with view and constraints | |
| `AlsaPortsProofs` | theorems about `AlsaPorts`: clients and their listeners, and what the queue still has to tell | |
| `Discovery` | announcements, browsing, remote servers, Avahi as environment | `lib/mdns_rtpmidi.cpp`, `src/rtpmidiremotehandler.cpp` |
| `MCDiscovery` | instances: one server by two ways and two own announcements; no server and one announcement | |
| `DiscoveryProofs` | theorems about `Discovery` | |
| `Poller` | the round of the loop and what handlers call | `lib/poller.cpp`, `include/rtpmidid/poller.hpp` |
| `EventLoop` | extends `Poller`: control socket and its commands, sessions with watchdogs, deferred removal, start and stop | `src/control_socket.cpp`, `src/network_rtpmidi_multi_listener.cpp`, `src/network_rtpmidi_peer.cpp`, `src/main.cpp`, `lib/udppeer.cpp` |
| `MCEventLoop` | instance: two programs, one participant | |
| `EventLoopProofs` | theorems about `EventLoop` and `Poller` | |
| `MidiPath` | MIDI data from a port or device to the far end of a session | `src/midi_normalizer.cpp`, `src/aseq.cpp` (codec), `lib/rtppeer.cpp` (MIDI list, SysEx) |
| `MCMidiPath` | instance: messages around each limit | |
| `MidiPathProofs` | theorems about `MidiPath` | |

Some definitions are followed by no use: `AddPeerReusingIds`, `StopSilently`,
`ConnectControlUntimed` and the like. Each is the definition next to it with one
plausible mistake; `PROJECT.json` ("mutants") names the property that finds it.

### MidiRouter

`links[i][j]` counts how often `j` stands in `peers[i].send_to` (`connect` never
looks for a duplicate). `heard[i][j]` is not a variable of the code: it is what
peer `i` can work out from the `CONNECTED_ROUTER` and `DISCONNECTED_ROUTER`
events about `j`. `disconnect` goes on
walking the vector it has erased from; that is undefined, and `Rounds` allows
every number of events from the first copy to all of them. `remove_peer` visits
only peers that send to somebody (`Sends`), as the code does.
Forwarding of MIDI data and packet counters are not modelled.

### RtpPeer

Operators from a peer and a packet to `[peer, out, events]`: the peer after the
handler, the packets given to `send_event`, the signals in order. The status
bits are the set of connected ports. MIDI payload, journal and feedback are not
modelled. Which of two fields is assigned before the check that may return
early is kept (`OnOK` takes the SSRC of an answer it then refuses; `OnBY` takes
the initiator of a goodbye it then refuses).

### RtpServer

An action is one packet (`Receive`), one timer (`SetupTimer`, `CkTimer`), a
client that goes silent (`GoSilent`) or the destructor (`Stop`). The vector is
the set of listed ids in increasing order together with its capacity: growing
past the capacity and erasing an earlier record move records, and a moved
record arms its five second timer (`Moved`). `told` and `out` are what the
listeners heard and the sockets got; nothing reads them.

The network is every packet a client may ever send, at any time, any number of
times: this is loss, duplication, delay and reordering at once.

### SessionList

The life of a session as the listeners of `status_change_event` hear of it:
nothing, then one port (`part`), then `up` or `part` as often as it likes, then
`gone`, once. Ids begin in order. One step may end several sessions (the
destructor). `RtpServer` implements it under the mapping
`said[i] <- PhaseOf(told[i])`, which forgets which port and why it ended
(`KeepsPromise`); the mapping is checked by TLC and proved by TLAPS.
It is the specification a component behind a server may rely on without the
server's records, timers and packets, and `RawMidi` does: `Life(n)` is an
instance of it for each listener.

### RawMidi

`local_rawmidi_peer_t` counts `CONNECTED_PEER` and `DISCONNECTED_PEER` events and
opens at 1, closes at 0. The events come from the network midipeers in `Listener`
and `Caller`, through the router, to whatever `send_to` holds at that moment, once
per copy (`Copies`). A listener's sessions live as `SessionList` says; a client
says CONNECTED or a disconnection in any order, since every refused attempt is one
more disconnection. The router's operations are those of `MidiRouter`, at the
hands of the control socket; a removed peer is destroyed, which closes a
device and silences a network peer. Opening may fail. `up` and `disturbed` are
history: which sessions a device was told of, and whether each was told once and
over wires that stayed as they were. `CountsItsSessions` says that the count is
right as long as nothing of that kind happened. Without that excuse it is not: a session
that is up announces CONNECTED once more when its invitation is repeated
(`lib/rtppeer.cpp:210`), the device counts it twice, and its one end leaves the file
open (`src/local_rawmidi_peer.cpp:154`), against "open a file and close when all
disconnect signas are received" (`src/midipeer.hpp:96`).

### RtpClient

`handle_event` calls the entry function of the new state, which may call
`handle_event`, or raise a signal whose callback calls it, before it goes on
with its own rest. `work` is that call stack, flattened: the items still to do,
innermost first. An entry action or a `Piece` takes the first item and puts what
it calls in front of the rest. Packets, timers and calls of the owner happen
only when `work` is empty (`Idle`), as in the poller. `Arrows` is the
transition table of the state machine; events it does not list lead to `Error`.

`FromServer` holds every answer to every request that ever left: an answer may
be lost, late, repeated, or arrive after the client moved on to another address.
`LocalFaults` lets every socket fail to open or to send.

### AlsaPorts

The kernel's sequencer is a set of subscriptions that other programs change at
any moment (`Subscribe`, `Unsubscribe`, `Plug`, `Unplug`), and `queue` is what
the daemon has still to read of it. `read_ready` handles one event after the
other (`ReadReady`); a handler that asks the sequencer gets the answer of now:
`WaiterRecounts` counts connections that later events of the queue may have ended
already. `WaiterHandles`, `MultiHandles` and `HwHandles` are the three users of
the events, by the port they are for. How the kernel tells of a subscription (to
our port, and once more to the Announcements port if there is one) is external;
so is that a port that goes tells only the ends that stay (`Bereaved`).

What the code does here and no property says:

- a waiting listener whose count is read while newer subscriptions wait in the
  queue is counted again for each of them: an unsubscription handled while a
  client is missing can leave a positive count without a client, which no later
  subscription repairs (`missed` is what `UsedIsConnected` excuses);
- events for a port number that was given up reach the listener that gets the
  number next (`renumbered`);
- `disconnect_port` erases from the list it walks: every other subscription stays
  (`Halves`);
- the first user of a shared network listener is not counted, so that it may end
  under one port that still uses it, never under two (`OneUserUncounted`);
- a port announced and gone again makes `aseq_t::connect` throw; the exception
  ends `read_ready`, and events that were read from the kernel before wait in the
  library until something new arrives (`awake` in `Export`);
- a repeated subscription of one port replaces its entry, and one use is
  never given back.

### Discovery

Avahi's objects and the network are `outside`; what its daemon says waits on
`bus`, and a callback handles the first answer (`Callback`). The daemon may be
away at the start, come later, and go (`Start`, `Crash`); `client`, `group` and
`browser` are the objects of `mdns_rtpmidi_t`. `AnnounceAll` is `announce_all`
with the two ways it ends early: without a group, and at a name this host has
already, which leaves the group reset and uncommitted. `OfferedIsTheList` is about
commits: the whole list is committed, or nothing is. That it is committed at all once
Avahi is there is `AnnouncedWhenConnected`, which fails (see the findings). A collision on the
network is told later and leads to the next suffix. The handler's `known` holds
listeners by name, `routed` those the router has, `listeners` the objects that
anybody owns. `lost` is history: servers of which more was removed than had left,
by the loss of one way of two, by a resolver that gave up, or by a user.

What the code does here and no property says:

- after Avahi went away the client is kept, so that nothing is announced or found
  any more until the program is started again;
- a late "established" of an older registration may be heard after a newer one
  was refused by this host: then the state says established and nothing is
  registered (this is why no property says "established implies registered");
- a remote server is removed by name: one way of two takes the whole peer, and a
  configured listener that was discovered too goes with it;
- `router.remove` of a discovered listener leaves the handler its object, and a
  server that is announced again gets that one, which is in no router.

### Poller and EventLoop

`Poller` is the round: `Begin` computes the time to sleep, `Wait` takes what is
ready, the handlers of `batch` run one by one, then the timers that expired, with
deferred calls in three places. `AddTimer` keeps the list sorted and adds the
millisecond the code adds; time is counted in half milliseconds because the clock
is finer than the loop's arithmetic. Handlers, which change all of this while the
round goes on, are in `EventLoop`: the control socket with its clients, the
server's socket with sessions that end by a goodbye or by their watchdog, whose
peers are removed by a deferred call, a peer that a command makes and another
removes together with its socket and timer, and the handlers of signals.
Descriptors are numbers given again as soon as they are free, the lowest first.

The sockets of clients block, and two calls of `data_ready` wait for a client: `recv`
for one that has sent nothing, and `write` for one that does not read and whose socket
is full (`unread` answers, up to `Room`). `waits` is the call that the daemon is in;
while it is `"blocked"` nothing but the clients, the network and signals moves, and
`Resume` goes on with the handler where it stood. A request is carried out before its
answer is written (`Command`, then `Write`), so that a command takes effect although its
client never reads.

`wires` is what the peer of each session sends to: its ALSA peer at first, and
whatever users connect and disconnect after. The deferred call removes what the peer
sends to when it runs, and then the peer (`RunLater`). It walks a list that each removal
shortens, so that of more than two some may be skipped; which ones depends on their
order, and `Reached` allows every choice that has the first (the ALSA peer, unless it
was disconnected). `cut` is history: sessions whose peer was removed, or disconnected
from its ALSA peer, by someone. `router.connect` to a peer that is sent to already adds
a copy to `send_to`, which goes with the others of that peer; `wires` is a set.

What the code does here and no property says:

- a program that asks and does not read its answers fills its socket, and `write`
  waits (`src/control_socket.cpp:146`, on a socket that blocks, from the `accept` at
  line 100): the daemon has one thread, so that no other program is answered and no MIDI
  passes until it reads or leaves (`Write`; `NeverStuck` excuses it);
- after `router.disconnect` of the peer of a session from its ALSA peer, the session's
  end removes the peer only, since the deferred call asks the peer what it sends to
  (`src/network_rtpmidi_peer.cpp:47`): the ALSA port stays, with nobody behind it,
  although the log says "Remove rtpmidi peer and alsa port too."
  (`src/network_rtpmidi_peer.cpp:44`; `cut` in `Remains` excuses it);
- a descriptor that an earlier handler of the batch closed and `accept` gave out
  again is handled for its new owner, whose `recv` then waits for a program that
  has said nothing (`Blocks`; `NeverStuck` excuses it);
- a descriptor of the batch without a handler gets an empty one, which throws,
  and stays in the table (`OnNobody`);
- writing to a client that has left raises SIGPIPE, which ends the program unless
  libdbus has set it to be ignored, against "Closing Connection"
  (`src/control_socket.cpp:147`);
- a failing `recv` is taken for a message that is too long; a request without
  "method" is never answered, since it is read outside the `try`
  (`src/control_socket.cpp:409`); two requests read at once are one text, and not
  JSON;
- the deferred removal keeps a plain pointer to the peer
  (`src/network_rtpmidi_peer.cpp:47`); if the router let go of it first, anything
  may happen (`RunLater`);
- `accept` fails for good at the limit of descriptors, while the listening socket
  stays ready.

### MidiPath

Messages are sequences of numbers, since the codecs look at every one. ALSA
events and the bytes of a raw device become commands (`Segments`, `MidiByte`), the
session sends each as a packet, the network loses packets and lets others
overtake, and the receiving half parses the MIDI list command by command and puts
SysEx together (`Command`, `ParseSysex`). Delta times and running status, which
this program reads and never writes, come in `Remote`, from a participant of
another make. The reference definition is `sent`: the messages as they were before
any of it.

What the code does here and no property says:

- a real-time byte of a raw device stays in the buffer of the normalizer: a
  program change that follows is never complete, so that the device is mute from
  then on, and notes are cut in the wrong places; inside a SysEx it leaves the
  receiver's SysEx open, and every command throws until a segment begins with F7;
- a SysEx of a device that is longer than 4094 bytes throws in `send_midi` and
  resets neither buffer nor `waiting_for_size`; one longer than 1486 is cut when it
  is received, and dropped;
- a middle segment that is lost is not noticed: the rest is joined;
- `reset` does not clear a SysEx that is being put together;
- of the journal, which is read but not modelled, chapter N turns off notes for
  `minnote` only (`lib/rtppeer.cpp:852`) and takes the channel with mask 0x70
  (`lib/rtppeer.cpp:795`).

## Runs

| run | instance | shows |
|---|---|---|
| `router` | 3 peers (symmetric), 3 ids, 3 send_to entries in all, counts to 3 | `NoDangling`, `IdsNameOneObject`, `NeverHearsTooManyEnds` |
| `router_remove` | 2 peers, 1 entry | **violated**: `RemoveEndsConnections` |
| `server` | 2 clients, one invites under two initiators; 3 records | `GoneIffTold`, `ListedHasAPort`, `ToldCoversStatus`, `WatchdogOnlyLostInMoves`, `EndingSaysGoodbye`, `KeepsPromise` |
| `server_silent` | 2 clients, 2 records, fair timers | **violated**: `SilentIsRemoved` |
| `client` | an unresolvable name, then one with two addresses; every local fault; 2 quick clock exchanges | `TimerFitsState`, `CallbacksFitState`, `AllConnectedIsConnected`, `CallsReturn`, `KeepsTrying` |
| `client_turns` | one name with two addresses, no local fault | **violated**: `EveryAddressTried` |
| `raw_midi` | a device, a server with 2 sessions, a client; 2 send_to entries, counts from -2 to 2 | `NeverAborts`, `OpenIsCounted`, `CountsItsSessions` |
| `alsa` | two ports of other programs with one name, one of them a device that is exported; the multi listener's port and one more; 4 router ids, 2 subscriptions, 3 unread events | `UnusedIsDisconnected`, `UsedIsConnected`, `ClientsAreOwned`, `LeftIsForgotten`, `OneUserUncounted`, `ExportsArePresent` |
| `discovery` | a server reached two ways, configured too; two own announcements; suffix 0 taken on the network, 1 on this host; 2 unread answers, 2 changes | `LeftIsUnknown`, `ListedIsRouted`, `OneListenerPerName`, `OfferedIsTheList`, `RegistrationEnds` |
| `discovery_group` | one own announcement, no server, no name taken | **violated**: `AnnouncedWhenConnected` |
| `event_loop` | two programs at the control socket, one of which asks twice, with room for one answer; one participant; 4 descriptors | `TimersOnTime`, `RequestsAreAnswered`, `EndedAreRemoved` |
| `midi_path` | 3 messages, 2 faults; segments of 2, packets of 7 and 8 bytes | `FaultFreeIsExact`, `NothingIsInvented` |

Bounds, and why they are enough:

- `MaxId` 3, `MaxLinks` 3, `MaxHeard` 3: a connection has two ends and a third
  peer to be unaffected or to keep `send_to` from being empty; three entries
  allow a triple duplicate, a duplicate with another connection, and a cycle.
  The ids are as many as the peers because an object gets an id only once.
- `MaxPeers` 3 lets the vector grow twice over live records (capacity 1, 2, 4)
  and erase a record with two behind it; the same client can own two records.
- `ShortCks` is 6 in the code and 2 here: the count matters at 0, below the
  limit and at it.
- `MaxCount` 2 and two entries to the device: the count crosses 0 and 1 in both
  directions, one event at a time and two at once (a duplicate entry), and goes
  below zero. The run looks only at wires that reach a device
  (`WiresReachDevices`; others carry nothing to it) and its view leaves out
  `heard`, which a device ignores; `MaxHeard` is then a bound that is never met.
- `alsa`: two ports of one name share a network listener; a second port of ours
  besides the multi listener's lets a waiting listener be removed and its number be
  given again, and lets our ports be subscribed to one another. `WiringBound` keeps
  to wirings of one kind at a time: a server's port read and written by the same
  program and written by the other one; both programs at the multi listener; our
  two ports. `QueueBound` lets the sequencer be three events ahead, enough for a
  subscription to be told, ended and made again before the first is handled.
  The view forgets router ids that are dead (`Alive`).
- `discovery`: one server is enough since servers meet only in the bound `MaxId`; two
  ways are what removal by name confuses. Two announcements and two changes allow a
  change while a registration is under way; the two suffixes give a collision
  on the network followed by a refusal by this host. `OneWayWithOwn`: the two sides
  share nothing but the bus, so that a server with both ways and own announcements
  are checked apart.
- `event_loop`: the shortest timers make every order of timer, packet and command
  happen: `Watchdog` 0 ms and `Retry` 1, which both get the extra millisecond, and of
  which the longer one may be set first.
  Four descriptors are the two sockets that are always open and two that clients
  and the made peer share, so that a number is reused within a round, and none is
  left. What others do is seen by the loop in `epoll_wait` and in a `recv` or
  `write` that waits, so it happens there only (`Seen`). `Room` is as many answers
  as a socket holds; 1 is enough, since it matters only whether there is room, and
  two requests fill it. A participant comes again when nothing of
  its last session is left: with a port that stays behind, a new session has new peers,
  which meet the old ones in nothing that is modelled. Checked completely too, and left
  out for their time: three requests of one program with one participant, one request
  with two participants whose sessions it may wire to one another
  (`EndedAreRemoved`), and three requests of two programs that both ask, without a
  participant (`RequestsAreAnswered`).
- `midi_path`: the limits of the code (256, 1486, 4094) are replaced by 2, 7 and 8:
  the sizes are no data, one segment and part of one, several; what fits, what is cut
  on receipt and what does not fit the send buffer. Packets and other sources
  act between two messages of a device, since nothing else looks at its bytes.
- Larger instances of `alsa`, `discovery`, `event_loop` and `midi_path` (two waiting listeners and five
  subscriptions; two servers, three announcements and eight changes; two
  participants and three programs; six messages and four faults) were simulated
  without a violation.
- Ids of peers and records are counters in the code too; only their bound is
  added here. Deadlock is not checked where the program may stop (a router
  that uses up the ids, a server or client that was destroyed).
- The view `Unsent` of the `server` run drops the variable `out`, which no guard
  reads; the action property that mentions `out'` is evaluated on every step.

Fairness. `SFairSpec`: the timers of a peer that is silent run, since the poller
runs every timer that is due, and only packets of that peer would put its timer
off. `CFairSpec`: calls under way go on (weak fairness of `Entry \/ Piece`);
the timer fires unless packets stop it again and again, and they cannot for
ever, since a request gets finitely many answers (strong fairness of `Fire`).
No answer is assumed ever to come. `KeepsTrying` therefore holds for a network
that is dead as well as for one that answers in the worst order. `DSpec`: the
poller delivers what Avahi has said (`Callback`), and an Avahi that runs decides on
what it was asked to register (`Decide`); neither is needed of the network, the
user or a restart. `LSpec`: the loop goes on
and time passes (weak fairness of `Loop` and `Time`). `Resume` is in `Loop`: the kernel
wakes a daemon whose call can return. No program is assumed ever to ask, to read or to
leave; `NeverStuck`, that none keeps the daemon in `recv` or `write` for good, is
the premise of `RequestsAreAnswered` and `EndedAreRemoved` and not a promise of the
code.

## Findings

- `router_remove`: removing a peer that sends one way to `p`, where `p` sends to
  nobody, never tells `p`; `remove_peer` skips peers whose `send_to` is empty
  (`src/midirouter.cpp:96`). A peer that counts its connections, as the comment of
  `midipeer_t::event` invites it to (`src/midipeer.hpp:96`), counts one too many.
- `server_silent`: when the vector of records moves a connected record, the
  move assignment replaces the sixty second watchdog with the five second timer
  (`lib/rtpserverpeer.cpp:109`), which does nothing to a connected peer. If the
  client then goes silent it is never removed. `WatchdogOnlyLostInMoves` shows that
  moves are the only way this happens.
- `client_turns`: the timer of `state_connect_midi` disconnects the callback of the
  control port (`lib/rtpclient.cpp:238`). The MIDI callback is still there when
  the goodbye of `state_disconnect_control` is sent, so the next address is
  started from within, and dropped when that call returns. With two addresses
  of which the first answers on its control port only, the second one never
  gets its turn.
- `discovery_group`: an announcement made before the client of Avahi runs waits in the
  list; when the client runs, `client_callback` makes a browser and a group and
  announces nothing (`lib/mdns_rtpmidi.cpp:418`), so that the listener is not on the
  network until the list changes again, against "Will be annoucned when connected"
  (`lib/mdns_rtpmidi.cpp:566`).

## What is proved

TLAPS checks the proofs for every set of objects, sessions, addresses and every
bound; the assumptions are the named `ASSUME`s of the models (bounds are natural
numbers; 0 is an initiator and an SSRC; sessions carry initiators and SSRCs).

**Router** (`MidiRouterProofs`). `RInv` is inductive: type correctness,
`NoDangling`, `IdsNameOneObject`, `NeverHearsTooManyEnds` and `IdsBelowMax`. The
last one is the strengthening: that no two objects share an id is preserved by
`add_peer` only because every id given before is below `max_id`.
`NoDangling` is what makes `remove_peer` work on the ids it visits, and
`NeverHearsTooManyEnds` follows step by step, since a cut reports between one
and as many ends as there were copies.

**Server** (`RtpServerProofs`). `SInv` is inductive: type correctness, listed ids
were handed out, ids not handed out were never spoken of (`Unspoken`),
`GoneIffTold`, `ListedHasAPort` and `ToldCoversStatus`. The last three need one
another: a timer or the watchdog tells the end of a peer only if a port is
connected, so `GoneIffTold` needs `ListedHasAPort`, and a packet that opens or
closes a port keeps that only because it announces what it did
(`ToldCoversStatus`). `Unspoken` makes a new id fresh for `KeepsPromise`. The argument
has two layers: `Keeps` and `Ends` state what the list needs of a handler of
`rtppeer_t` and are proved of every packet a client sends (`PacketKeeps`) and of
`disconnect` (`DisconnectEnds`); the lemmas about the server use only these.
`StepKinds` sorts the steps of the server, and the two action properties
(`EndingSaysGoodbye`, `WatchdogOnlyLostInMoves`) follow from the invariant and from
it. `ServerKeepsPromise` is the refinement: a new record maps to `Begin` (its
first status is one port, `FirstIsPart`), a packet to a listed record to `Change`,
`End` or a stutter (a listed record is alive for its listeners, `ListedIsAlive`),
timers to `End` of one session and the destructor to `End` of all that are left. `WatchdogOnlyLostInMoves` uses that doubling a capacity, or
starting one, changes it.

**Client** (`RtpClientProofs`). `CInv` is inductive, and most of it is about `work`,
the calls under way. `handle_event` goes on after a nested `handle_event` returns,
so that a state is right only relative to what is still on the stack:
`TimerComes` (a state that waits has its timer, or an item on the stack will
arm it), `VerdictComes` (a state that awaits an answer without its callback is about
to be left), `ConnectedIsTrue`, `ToldIsTrue` and `AllIsUp` (what is about to be
told of the ports is so, and stays so until it is told), `ControlOnlyInSearch` and
`MidiIsLetGo` (which callback may be connected in which state, and that the MIDI
callback outlives `ConnectMidi` only under a call that will end the control port),
`NothingEnds`, `ChosenOK` and `CountOK`. Back in the poller `work` is empty, and
each part becomes one of the properties: `TimerFitsState`, `CallbacksFitState`,
`AllConnectedIsConnected`. The proof has two layers. `Turning` and `EntryFrom` say
what taking the head off the stack and putting a few items there does, and
what the entry function of a state may rely on; the lemmas about the 14 entries and
the pieces use only these. The packets are every answer a server could ever give,
also a late one to an older request: nothing is assumed of their order.
Assumed of the constants: endpoints are a sequence of sequences of addresses, any
of them empty; a server has an SSRC, not 0.

**Devices** (`RawMidiProofs`). `DInv` adds to `RInv` that a device is open or
closed and has a count (`DevicesOK`), that an open one counts a session and is in
the registry (`OpenIsCounted`), and that it is never opened twice (`NeverAborts`). The count may
be anything otherwise; what keeps it from opening twice is that every path to
`open` passes a count of zero with the file closed, which is `OpenIsCounted` read
backwards. The steps of the router are those of `MidiRouter`, so that its lemmas
are cited and not proved again; of the sessions nothing is needed. `KInv` adds the
phases of the sessions, that a device was told of finitely many of them, and
`CountsItsSessions`, which is inductive with these: the count is the sum, over the
sessions a device was told of, of the copies of the wire they came by. What a sum
does when one session comes, or goes, or a wire gets a copy, is proved of the
library's fold (`SumOfPart`, `SumGrows`).

**Discovery** (`DiscoveryProofs`). Three invariants. `OInv`: without a client
that ran there is no group and no answer, and without a group nothing is offered
(`NoGroupYet`); a client whose Avahi is away is told so by an answer that is
still to be read (`FailureTold`); and `OfferedIsTheList`: every change of
the list goes through `announce_all`, which, if there is a group, resets it before it
adds, so that no older name stays. `LInv`: the handler knows a listener by its own server's
name (`KnownByName`), the router has only listeners that exist, and no two of
one name: `discover_peer` takes the handler's, else the router's, and makes one only
if neither has it. `HInv` says what is on its way, as long as Avahi answers
(`BusTells`): a server that is known is there or an answer that it left is on the
bus; one that was just found is there or its leaving is further back; one that is
listed is known, or being resolved, or on the bus, or was removed. Order matters: a
server that comes and goes leaves "found" and "left" on the bus in that order, and
`FoundLeaves` is the part that keeps the later callback from finding a dead one last.
`LeftIsUnknown` and `ListedIsRouted` are what is left of these when nothing
about the server is still to be read. Assumed: there are enough ids for the
configured servers (`Cardinality(Configured) <= MaxId`; ids are a counter without
a limit in the code).

**ALSA clients** (`AlsaPortsProofs`). `PInv`: ids below the next one, listeners in
the router under their own ids, each client wired both ways to the one listener
that has it (`ClientsOK`, `OneEach`, `Owned`), and the part that makes it inductive:
a listener that counts nobody has no client (`NobodyNoClient`), so that the
client a first subscription makes replaces none that would be left behind. Nothing is
assumed of the event queue: stale, repeated and misdirected events cannot break it.

**ALSA queue** (`AlsaPortsProofs`). The other properties compare what the daemon did
with subscriptions it was not told of yet, so that `QInv` says what the queue
has to tell. With nobody subscribed, every subscription in the queue is followed by an
end, and a client that is there will be told of one (`UnusedWillDisconnect`); with
somebody subscribed, the client is there or the subscription is in the queue
(`UsedWillConnect`); a port number that is free has no subscription in the queue,
unless it is one of `renumbered` (`FreeIsQuiet`), which is why a listener that gets
it hears of nobody; and the same as of listeners holds for the ports of the multi
listener (`LeftWillBeForgotten`). A handled event takes the head off the queue;
`UsedWillConnect` survives because the handler asks the sequencer of now, not the
event. `TInv` adds the types, of which `SubsStand` and `NumbersOK` relate
subscriptions and listeners to the ports that exist. `ATypeOK`, `LeftIsForgotten`,
`ExportsArePresent` and `OneUserUncounted` follow from both. A port that leaves takes
any number of subscriptions with it, so the sequences of events are as long as one
likes. Assumed: there is an id for the multi listener.

**Event loop** (`EventLoopProofs`). `LInv` has three parts of substance, beside types, the
call that a blocked daemon waits in (`Calling`) and that peers send to peers the router
has (`Wired`, which every removal keeps, of one peer or of several). `Table`: what is open has
its handler and is watched, and a handler whose descriptor is closed is
nobody's; it holds whatever handlers close and open within a batch, since a socket
and its listener go together (`ShutIs`) and a number comes back with a new handler
(`SocketIs`). `Owned`: the timers are those of the records and of the made peer, one
each, so that a record that ends, by whatever packet, command or timer, takes the
right one with it. `Rested`: the time to sleep is below every timer from where it is
computed to the end of `epoll_wait`, because deferred calls, which run in between,
set no timer, though they may remove one; time that passes is taken from both. `Good`, inside `Owned`: the list of
timers is sorted, and a timer is late by what `add_timer_event` added to it, which
is why the milliseconds that round towards zero run none early. It is kept by
inserting, removing and ageing (`AddTimerIs`, `RemoveTimerIs`, `TickIs`), which rest on
lemmas about the library's `InsertAt` and `RemoveAt`. Assumed: 10,000 s are longer than
any timer.

**MIDI data** (`MidiPathProofs`). `FaultFreeIsExact` compares the two ends of the
way, so that `PathInv` says what is in between, until the first fault: the packets
under way lead from what the half that receives has now to all that was sent (`Leads`:
there is a sequence of its states, from one to the next by one packet each, in which
messages only come out), and the normalizer has read the first bytes of what
the device is sending (`Reading`), so that a command is complete when nothing of it is
left (`CompleteIs`). A step that sends puts packets at the end of the way
(`LeadsJoin`), one that receives takes the first off (`LeadsTail`). Under it is what
`ParseMidi` makes of each kind of packet: a short command (`ParseShort`), a SysEx
that is whole (`ParseWhole`), the first, a middle and the last segment of one
(`ParseFirst`, `ParseNext`, `ParseLast`), and lists of two commands, with running
status or a SysEx (`ParseNotes`, `ParseSysexShort`). `SegmentsLead` joins segments
for data and segments of every length, with what integer division says of the number
of segments (`LastPart`). Assumed: a segment with its two ends and the 7 bytes of
the longest list that others send fit into what is received whole (258 and 7 of 1486),
and that into the buffer to send (4094).

`NothingIsInvented` counts messages that come out and messages that went in, through
losses and reordering. No count is kept of what is under way: `Owned` gives each
message that was sent an owner, the packet under way that carries it or its last
segment, the place it came out at, or nobody (`to`, and `nth` for the messages of one
packet). Each message that came out owns one that was sent and is equal to it, and so
does each that a packet will let out (`Claimed`); since a message has one owner, those
that came out are no more than were sent (`TimesOwned`, by an injection). The
commands of a packet do not depend on what the half that receives had before: they
come out when no SysEx has begun, and otherwise nothing does (`Gives`). Segments do
depend on it; as long as none was lost or overtook another (`Intact`), `x` is the buffer
before and after each packet, empty at the last, and the last segment lets out its message.
After that a segment takes a buffer that is empty or begins with F0 to one like it, and
what comes out begins with F0 or F7 (`Piece`), for which nothing is promised any
more. A packet that is lost leaves its messages without an owner; one that comes
gives them to places in what came out, and the owners behind it are renumbered
(`PacketRemoved`, `PacketPassed`); one that is sent brings its own (`MoreOwned`). A
message of a device that is too long for the buffer to send leaves
the normalizer waiting for good (`Stuck`), which sends no more. Nothing is assumed of how many
packets are lost or overtaken.

What the library's recursive definitions compute for every input (`FlattenSeq`, sums over
sets) is proved by the shortest sequence or smallest set that would be an exception:
the induction theorems of the prover's library take an operator and cannot be
instantiated here, but that a set of naturals has a least element can be cited.

Only model-checked: liveness (`CallsReturn`, `KeepsTrying`, `RegistrationEnds`, `RequestsAreAnswered`,
`EndedAreRemoved`), since fairness and ENABLED are out of the prover's reach. That
commands are cut and joined at the same bytes is proved for the messages of the model
(three-byte and two-byte commands, SysEx of any length); what a device or a
participant may send beyond those is not part of it, and nothing is promised of what
follows a real time byte in the middle of a message.

## Not modelled, and why

- The recovery journal and feedback packets: work in progress in the code ("journal"
  is parsed in part, and never sent).
- The adapter between Avahi's poll interface and the poller
  (`lib/mdns_rtpmidi.cpp:122`), which only renames calls, and the patterns that
  settings give for names.
- The byte layout of packets and the buffers they are written to: packets are
  records and sequences here.
- The ALSA and Avahi libraries, D-Bus and the kernel: environment, modelled as far
  as the code uses them and marked external. ALSA may split a long SysEx into several
  events, each of which is a message here.
- Settings, arguments, logging, statistics and the status output: no behaviour
  over time that anything else depends on.
- The command line client, a program of its own that shows what the control socket
  answers.
- `signal_t` by itself: `RtpClient` uses what it promises (a callback disconnected
  while the signal is raised is not called, one connected is not yet).

## Plan

1. `RtpSession`: a client and a server over a lossy network, composed from
   `RtpClient`'s and `RtpServer`'s session halves. Questions: a client that
   reconnects after `reset` uses initiator 0, and two such clients share a
   record; a MIDI invitation that comes first makes a record that aims one port
   too high; a goodbye on one port ("One BY is enough, not even waiting for the
   midi one.", `lib/rtppeer.cpp:245`). Abstract specification: a session both
   sides agree on, ended by either.
2. `Signals`: slots changed while the signal is raised, against the specification
   "called once, and not after disconnect" that the other modules assume.
3. The refinement of the session specification.
