----------------------------- MODULE EventLoop -----------------------------
(***************************************************************************)
(* The poller with those who live by it: the control socket and its        *)
(* clients (src/control_socket.cpp), the server that offers an ALSA port   *)
(* to whoever connects (network_rtpmidi_multi_listener_t), its sessions,   *)
(* which end by a goodbye or by their watchdog and are removed later       *)
(* (network_rtpmidi_peer_t), the commands that make, wire and remove       *)
(* peers, and the signals that end the program (src/main.cpp).             *)
(*                                                                         *)
(* Everything runs in handlers of one thread, but a round has read what is *)
(* ready before its first handler runs: a descriptor that one handler      *)
(* closes may be in the batch still, and its number in use again.          *)
(***************************************************************************)
EXTENDS Poller

CONSTANTS Conn,        \* programs that use the control socket
          Session,     \* remote participants
          Watchdog,    \* the time after which a silent session ends, in ms
          Retry,       \* the time between attempts of a made peer, in ms
          Room,        \* how many answers fit in the socket of a program that does not read
          Asking,      \* bound: those of them that ask for something
          MaxRequests  \* bound: how often they ask

\* The control socket and the socket of the server are open all the time.
ListenFd == 1
ServerFd == 2

ASSUME EventLoopAssumption ==
    /\ Fd \subseteq Nat /\ {ListenFd, ServerFd} \subseteq Fd
    /\ Watchdog \in Nat /\ Retry \in Nat /\ Forever \in Nat
    /\ 2 * Watchdog + 2 < Forever /\ 2 * Retry + 2 < Forever
    /\ Room \in Nat \ {0}
    /\ Asking \subseteq Conn /\ MaxRequests \in Nat

VARIABLES
    sockets,  \* what each open descriptor is
    conn,     \* the clients of the control socket
    requests, \* bound: how many requests were sent
    waits,    \* the call of the handler of a client, recv or write, that the daemon is in
    packet,   \* the datagram of each participant that waits at the server
    answer,   \* whether a datagram waits at the socket of the made peer
    session,  \* whether the server has a record of each participant
    peers,    \* the peers in the router
    wires,    \* what the peer of each session sends to
    cut       \* the sessions whose peer someone removed, or disconnected from its
              \* ALSA peer, which is the first that it sends to

control == <<sockets, conn, requests, waits>>
network == <<packet, answer, session>>
midi    == <<peers, wires, cut>>
lvars   == <<pvars, control, network, midi>>

Made == <<"made", "peer">>
Net(s)  == <<"net", s>>
Alsa(s) == <<"alsa", s>>
PeerId  == {Made} \cup {Net(s) : s \in Session} \cup {Alsa(s) : s \in Session}

Owner == {<<"listen">>, <<"server">>, Made} \cup {<<"client", c>> : c \in Conn}
\* "method" is a request without a method, "joined" two that became one text.
Request == {"command", "method"}
Client == [state  : {"away", "waiting", "up", "left", "reset", "gone"},
           inbox  : Request \cup {"none", "joined"},
           unread : 0..Room,
           owed   : BOOLEAN]
Waits == {<<>>} \cup {"recv", "write"} \X Conn
Call == {Made} \cup {<<"watchdog", s>> : s \in Session}
Timer == [in : 0..Forever, asked : 0..Forever, call : Call]

\* Every variable keeps to its type; a descriptor that is open has its handler
\* and is watched, and a timer its owner, whatever is removed in whatever call.
LTypeOK ==
    /\ open \in BOOLEAN /\ phase \in Phase
    /\ DOMAIN sockets \subseteq Fd /\ Range(sockets) \subseteq Owner
    /\ DOMAIN handlers \subseteq Fd
    /\ \A fd \in DOMAIN handlers :
          handlers[fd] = IF fd \in DOMAIN sockets THEN sockets[fd] ELSE <<>>
    /\ DOMAIN sockets \subseteq DOMAIN handlers
    /\ watched = IF open THEN DOMAIN sockets ELSE {}
    /\ \A i \in DOMAIN timers : timers[i] \in Timer
    /\ \A s \in Session : session[s] <=> \E i \in DOMAIN timers : timers[i].call = <<"watchdog", s>>
    /\ Made \in peers <=> \E i \in DOMAIN timers : timers[i].call = Made
    /\ Range(later) \subseteq Session
    /\ batch \subseteq Fd /\ sleep \in 0..Forever
    /\ conn \in [Conn -> Client] /\ requests \in 0..MaxRequests
    /\ waits \in Waits /\ (phase = "blocked" => waits # <<>>)
    /\ packet \in [Session -> {"none", "hello", "clock", "bye"}] /\ answer \in BOOLEAN
    /\ session \in [Session -> BOOLEAN]
    /\ peers \subseteq PeerId /\ cut \subseteq Session
    /\ wires \in [Session -> SUBSET PeerId]
    /\ \A s \in Session : wires[s] \subseteq peers

\* setup: the sockets of the server and of the control socket.
LInit ==
    /\ PInit
    /\ sockets = [fd \in {ListenFd, ServerFd} |->
                      IF fd = ListenFd THEN <<"listen">> ELSE <<"server">>]
    /\ handlers = sockets /\ watched = {ListenFd, ServerFd}
    /\ conn = [c \in Conn |-> [state |-> "away", inbox |-> "none", unread |-> 0, owed |-> FALSE]]
    /\ requests = 0 /\ waits = <<>>
    /\ packet = [s \in Session |-> "none"] /\ answer = FALSE
    /\ session = [s \in Session |-> FALSE]
    /\ peers = {} /\ wires = [s \in Session |-> {}] /\ cut = {}

-----------------------------------------------------------------------------
(* What the others do: the network, and the programs that use the socket. *)

\* The loop looks at what is done here in epoll_wait, and in handlers of what
\* epoll_wait reported, so that it is enough to let it happen before that.
Seen == phase \in {"wait", "blocked"}
Gone == [state |-> "gone", inbox |-> "none", unread |-> 0, owed |-> FALSE]
Inside == UNCHANGED <<pvars, sockets, waits, session, midi>>

\* Each of these programs comes once (a bound).
Arrive(c) ==
    /\ conn[c].state = "away"
    /\ conn' = [conn EXCEPT ![c].state = "waiting"]
    /\ Inside /\ UNCHANGED <<requests, packet, answer>>

\* Two requests that were not read in between are one text, and not JSON.
Ask(c, r) ==
    /\ conn[c].state = "up" /\ c \in Asking /\ requests < MaxRequests
    /\ conn' = [conn EXCEPT ![c].inbox = IF @ = "none" THEN r ELSE "joined",
                            ![c].owed = @ \/ r # "method" \/ conn[c].inbox # "none"]
    /\ requests' = requests + 1
    /\ Inside /\ UNCHANGED <<packet, answer>>

\* A client reads its answers, if it likes to.
Read(c) ==
    /\ conn[c].unread > 0
    /\ conn' = [conn EXCEPT ![c].unread = 0]
    /\ Inside /\ UNCHANGED <<requests, packet, answer>>

\* A client closes its end, which is an error at the other one if it has not
\* read its answers.
Leave(c) ==
    /\ conn[c].state = "up"
    /\ conn' = [conn EXCEPT ![c].state = IF conn[c].unread > 0 THEN "reset" ELSE "left",
                            ![c].unread = 0, ![c].owed = FALSE]
    /\ Inside /\ UNCHANGED <<requests, packet, answer>>

\* A participant comes when nothing of its last session is left (a bound), lets
\* its clock be heard, says goodbye, or is silent.
Say(s) ==
    /\ packet[s] = "none"
    /\ \E p \in {"hello", "clock", "bye"} :
          /\ p = "hello" <=> ~session[s]
          /\ p = "hello" => {Net(s), Alsa(s)} \cap peers = {} /\ s \notin Range(later)
          /\ packet' = [packet EXCEPT ![s] = p]
    /\ Inside /\ UNCHANGED <<conn, requests, answer>>

\* The server that the made peer calls says something.
Answer ==
    /\ Made \in peers /\ ~answer /\ answer' = TRUE
    /\ Inside /\ UNCHANGED <<conn, requests, packet>>

Others ==
    /\ Seen
    /\ \/ \E c \in Conn : Arrive(c) \/ Read(c) \/ Leave(c) \/ \E r \in Request : Ask(c, r)
       \/ \E s \in Session : Say(s)
       \/ Answer

\* The descriptors that epoll_wait would report.
HasInput(c) == conn[c].inbox # "none" \/ conn[c].state \in {"left", "reset"}
Ready ==
    {fd \in watched :
        \/ sockets[fd] = <<"listen">> /\ \E c \in Conn : conn[c].state = "waiting"
        \/ sockets[fd] = <<"server">> /\ \E s \in Session : packet[s] # "none"
        \/ sockets[fd] = Made /\ answer
        \/ \E c \in Conn : sockets[fd] = <<"client", c>> /\ HasInput(c)}

\* The sockets that are open, with their handlers and what epoll watches.
Socket(f) ==
    LET fd == Min(Fd \ DOMAIN sockets)
    IN  /\ sockets' = AddFd(sockets, fd, f)
        /\ handlers' = AddFd(handlers, fd, f)
        /\ watched' = watched \cup {fd}

\* A socket closed with its listener left where it is.
CloseOnly(fd) ==
    /\ sockets' = RemoveFd(sockets, fd)
    /\ watched' = watched \ {fd}
    /\ UNCHANGED handlers

Shut(fd) ==
    /\ sockets' = RemoveFd(sockets, fd)
    /\ handlers' = RemoveFd(handlers, fd)
    /\ watched' = watched \ {fd}

FdOf(f) == CHOOSE fd \in DOMAIN sockets : sockets[fd] = f

-----------------------------------------------------------------------------
(* Sessions *)

\* The peer removed at once, and not what it sends to.
EndNow(s) ==
    /\ session' = [session EXCEPT ![s] = FALSE]
    /\ peers' = peers \ {Net(s)}
    /\ wires' = [t \in Session |-> IF t = s THEN {} ELSE wires[t] \ {Net(s)}]
    /\ timers' = RemoveTimer(timers, <<"watchdog", s>>)
    /\ UNCHANGED <<later, cut>>

\* The signal of a session that ended: its peer, if the router still has it,
\* asks to be removed later.
End(s) ==
    /\ session' = [session EXCEPT ![s] = FALSE]
    /\ timers' = RemoveTimer(timers, <<"watchdog", s>>)
    /\ later' = IF Net(s) \in peers THEN Append(later, s) ELSE later
    /\ UNCHANGED midi

Clock(s) ==
    /\ timers' = Rearm(timers, Watchdog, <<"watchdog", s>>)
    /\ UNCHANGED later

\* A new record, and for the listener an ALSA port and a peer, connected both ways.
Begun(s) ==
    /\ session' = [session EXCEPT ![s] = TRUE]
    /\ Clock(s)
    /\ peers' = peers \cup {Net(s), Alsa(s)}
    /\ wires' = [wires EXCEPT ![s] = {Alsa(s)}]
    /\ cut' = cut \ {s}

\* data_ready of the server: one datagram.
OnServer ==
    /\ \E s \in Session :
          /\ packet[s] # "none" /\ packet' = [packet EXCEPT ![s] = "none"]
          /\ \/ packet[s] = "hello" /\ Begun(s)
             \/ packet[s] = "clock" /\ session[s] /\ Clock(s) /\ UNCHANGED <<session, midi>>
             \/ packet[s] = "bye" /\ session[s] /\ End(s)
             \/ packet[s] # "hello" /\ ~session[s] /\ UNCHANGED <<session, midi, timers, later>>
    /\ UNCHANGED <<handlers, watched, phase, control, answer>>

\* remove_peer: nobody sends to them any more, and what they held is closed.
RemovePeers(ids) ==
    /\ peers' = peers \ ids
    /\ wires' = [s \in Session |-> IF Net(s) \in ids THEN {} ELSE wires[s] \ ids]
    /\ IF Made \in ids
       THEN /\ timers' = RemoveTimer(timers, Made) /\ answer' = FALSE
            /\ Shut(FdOf(Made))
       ELSE UNCHANGED <<timers, answer, sockets, handlers, watched>>

\* The peer removed before what it sends to is looked up.
ReachedNone(s, ids) == ids = {}

\* peer_connection_loop goes over a list that remove_peer shortens meanwhile:
\* the first goes, and of more than two some may be skipped.
Reached(s, ids) ==
    /\ ids \subseteq wires[s]
    /\ Cardinality(wires[s]) <= 2 => ids = wires[s]
    /\ Alsa(s) \in wires[s] /\ s \notin cut => Alsa(s) \in ids

\* The deferred removal of what the peer sends to, and of the peer.  It has a
\* plain pointer to the peer: if the router let go of it meanwhile, or lets go
\* of it here since it sends to itself, anything may happen: nothing, or the end.
RunLater ==
    /\ phase \in {"first", "second", "third"} /\ later # <<>>
    /\ later' = Tail(later)
    /\ LET s == Head(later)
           on == Past(phase, Tail(later))
       IN  \/ /\ Net(s) \in peers
             /\ \E ids \in SUBSET wires[s] :
                   /\ Reached(s, ids)
                   /\ RemovePeers(ids \cup {Net(s)})
                   /\ cut' = cut \cup {t \in Session : t # s /\ Net(t) \in ids}
             /\ \/ phase' = on
                \/ Net(s) \in wires[s] /\ phase' = "over"
          \/ /\ Net(s) \notin peers /\ phase' \in {on, "over"}
             /\ UNCHANGED <<handlers, watched, timers, sockets, answer, midi>>
    /\ UNCHANGED <<open, batch, sleep, conn, requests, waits, packet, session>>

-----------------------------------------------------------------------------
(* The control socket *)

Tables == <<sockets, handlers, watched>>
Quiet == UNCHANGED <<network, midi, timers, later, requests>>

\* connection_ready.  accept fails when there is no descriptor left, and a
\* poller that is closed refuses to watch another one, by an exception.
OnListen ==
    /\ \/ /\ open /\ Fd \ DOMAIN sockets # {}
          /\ \E c \in Conn : /\ conn[c].state = "waiting"
                             /\ conn' = [conn EXCEPT ![c].state = "up"]
                             /\ Socket(<<"client", c>>)
       \/ /\ ~open \/ Fd \ DOMAIN sockets = {}
          /\ UNCHANGED <<sockets, conn, handlers, watched>>
    /\ UNCHANGED <<phase, waits>> /\ Quiet

\* write, of an answer or of a complaint: it waits while there is no room at a
\* client that does not read.  To one that has left it fails and the client is
\* removed, or SIGPIPE ends the program: libdbus ignores that signal once there
\* is a connection to D-Bus.
Write(c) ==
    /\ \/ /\ conn[c].state = "up" /\ conn[c].unread < Room
          /\ conn' = [conn EXCEPT ![c].unread = @ + 1,
                                  ![c].owed = conn[c].inbox \notin {"none", "method"}]
          /\ phase' = "fds" /\ UNCHANGED Tables
       \/ /\ conn[c].state # "up"
          /\ conn' = [conn EXCEPT ![c] = Gone]
          /\ phase' = "fds" /\ Shut(FdOf(<<"client", c>>))
       \/ /\ conn[c].state # "up"
          /\ phase' = "over" /\ UNCHANGED <<conn, Tables>>
    /\ waits' = <<>> /\ Quiet

\* router.create of a network peer: it opens its socket and tries to connect.
Create ==
    /\ Made \notin peers /\ open /\ Fd \ DOMAIN sockets # {}
    /\ Socket(Made)
    /\ timers' = AddTimer(timers, Retry, Made)
    /\ peers' = peers \cup {Made}
    /\ UNCHANGED <<answer, wires, cut>>

\* router.remove
RemovePeer ==
    \E p \in peers :
        /\ RemovePeers({p})
        /\ cut' = cut \cup {s \in Session : p = Net(s)}

\* router.connect and router.disconnect from the peer of a session.
Connect ==
    /\ \E s \in Session, p \in peers :
          Net(s) \in peers /\ wires' = [wires EXCEPT ![s] = @ \cup {p}]
    /\ UNCHANGED <<Tables, timers, answer, peers, cut>>

Disconnect ==
    /\ \E s \in Session : \E p \in wires[s] :
          /\ wires' = [wires EXCEPT ![s] = @ \ {p}]
          /\ cut' = IF p = Alsa(s) THEN cut \cup {s} ELSE cut
    /\ UNCHANGED <<Tables, timers, answer, peers>>

\* All that changes nothing here, or cannot be done.
Other == UNCHANGED <<Tables, timers, answer, midi>>

\* A command is carried out before it is answered; what is too long, or no
\* JSON, is answered too.
Command(c) ==
    /\ conn[c].inbox # "method"
    /\ conn[c].inbox # "none" \/ conn[c].state = "reset"
    /\ conn' = [conn EXCEPT ![c].inbox = "none"]
    /\ phase' = "blocked" /\ waits' = <<"write", c>>
    /\ \/ Other
       \/ conn[c].inbox = "command" /\ (Create \/ RemovePeer \/ Connect \/ Disconnect)
    /\ UNCHANGED <<later, packet, session, requests>>

\* recv takes what there is; nothing means the end, an error looks like a
\* message that is too long, and a client that sent nothing keeps it waiting.
Closed(c) ==
    /\ conn[c].state = "left" /\ conn[c].inbox = "none"
    /\ conn' = [conn EXCEPT ![c] = Gone]
    /\ phase' = "fds" /\ waits' = <<>>
    /\ Shut(FdOf(<<"client", c>>)) /\ Quiet

Blocks(c) ==
    /\ ~HasInput(c)
    /\ phase' = "blocked" /\ waits' = <<"recv", c>>
    /\ UNCHANGED <<conn, Tables>> /\ Quiet

\* The exception of a text that is no JSON reaching the poller too.
NotCaught(c) ==
    /\ conn[c].inbox \in {"method", "joined"}
    /\ conn' = [conn EXCEPT ![c].inbox = "none"]
    /\ phase' = "fds" /\ waits' = <<>>
    /\ UNCHANGED Tables /\ Quiet

\* A request without a method: an exception that reaches the poller.
NoMethod(c) ==
    /\ conn[c].inbox = "method"
    /\ conn' = [conn EXCEPT ![c].inbox = "none"]
    /\ phase' = "fds" /\ waits' = <<>>
    /\ UNCHANGED Tables /\ Quiet

\* data_ready of the control socket.
OnClient(c) == Closed(c) \/ Blocks(c) \/ NoMethod(c) \/ Command(c)

\* The handler that waits goes on: the client has asked, or left, or there is
\* room for the answer.
Resume ==
    /\ phase = "blocked"
    /\ \E c \in Conn :
          \/ waits = <<"recv", c>> /\ HasInput(c) /\ OnClient(c)
          \/ waits = <<"write", c>> /\ Write(c)
    /\ UNCHANGED <<open, batch, sleep>>

-----------------------------------------------------------------------------
(* The loop *)

\* The socket of the made peer: one datagram, or none and an exception.
OnMade ==
    /\ answer' = FALSE
    /\ UNCHANGED <<queues, phase, control, packet, session, midi>>

\* A descriptor without a handler gets an empty one, which throws.
OnNobody(fd) ==
    /\ handlers' = AddFd(handlers, fd, <<>>)
    /\ UNCHANGED <<watched, timers, later, phase, control, network, midi>>

Handler(fd) == IF fd \in DOMAIN handlers THEN handlers[fd] ELSE <<>>

\* The next event of the batch, for whoever has the descriptor now.
HandleFd ==
    /\ phase = "fds"
    /\ \E fd \in batch :
          /\ batch' = batch \ {fd}
          /\ \/ Handler(fd) = <<"listen">> /\ OnListen
             \/ Handler(fd) = <<"server">> /\ OnServer
             \/ Handler(fd) = Made /\ OnMade
             \/ Handler(fd) = <<>> /\ OnNobody(fd)
             \/ \E c \in Conn : Handler(fd) = <<"client", c>> /\ OnClient(c)
    /\ UNCHANGED <<open, sleep>>

\* The first timer, if it has expired: the end of a session, or another attempt
\* to connect, which a closed poller answers with an exception.
RunTimer ==
    /\ phase = "timers" /\ timers # <<>> /\ Expired(Head(timers))
    /\ \/ \E s \in Session : /\ Head(timers).call = <<"watchdog", s>>
                             /\ End(s) /\ UNCHANGED phase
       \/ /\ Head(timers).call = Made
          /\ timers' = Rearm(timers, Retry, Made)
          /\ phase' = IF open THEN phase ELSE "over"
          /\ UNCHANGED <<session, midi, later>>
    /\ UNCHANGED <<open, handlers, watched, batch, sleep, control, packet, answer>>

\* sigterm_f, sigint_f, while something goes on for long.  The second one exits.
Signal ==
    \/ phase \in {"wait", "fds", "blocked"} /\ Close /\ UNCHANGED <<control, network, midi>>
    \/ /\ ~open /\ phase = "blocked" /\ phase' = "over"
       /\ UNCHANGED <<open, queues, batch, sleep, control, network, midi>>

Step ==
    /\ Begin \/ Wait(Ready) \/ Handled \/ NoneExpired
    /\ UNCHANGED <<control, network, midi>>

Loop == Step \/ RunLater \/ HandleFd \/ RunTimer \/ Resume
Time == Tick(Ready) /\ UNCHANGED <<control, network, midi>>

LNext == Loop \/ Time \/ Others \/ Signal

\* The loop goes on while it has something to do, and time passes.
LSpec == LInit /\ [][LNext]_lvars /\ WF_lvars(Loop) /\ WF_lvars(Time)

-----------------------------------------------------------------------------
\* The loop never sleeps beyond its first timer, and no timer runs before its time.
TimersOnTime ==
    /\ phase = "wait" => \A i \in DOMAIN timers : sleep <= timers[i].in
    /\ \A i \in DOMAIN timers : Expired(timers[i]) => timers[i].asked = 0

\* No client keeps the daemon waiting for good, in recv by saying nothing or in
\* write by not reading: the sockets of clients block, so that any of them can.
NeverStuck == []<>(phase # "blocked")
Over == phase = "over"

\* A request that is well formed is answered, or else its client has left or
\* the program ends, unless a client keeps the daemon waiting for good: whatever
\* descriptors were closed and given out again in the round, whoever was waited
\* for meanwhile, and whatever the others asked.
RequestsAreAnswered ==
    NeverStuck => \A c \in Asking : conn[c].owed ~> ~conn[c].owed \/ Over \/ ~open

\* What is left in the router of a session that ended and should not be: its
\* peer, or its ALSA peer.  The ALSA peer stays for good if a user disconnected
\* them, or removed the first one, before the deferred call ran.
Remains(s) == ~session[s] /\ (Net(s) \in peers \/ (Alsa(s) \in peers /\ s \notin cut))

\* The peer of a session that ended goes, whatever users connect, disconnect and
\* remove meanwhile, and its ALSA peer with it, if the one still sends to the
\* other when the deferred call runs.
EndedAreRemoved == NeverStuck => \A s \in Session : Remains(s) ~> ~Remains(s) \/ Over
=============================================================================
