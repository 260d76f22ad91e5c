------------------------------ MODULE RtpClient ------------------------------
(***************************************************************************)
(* The RTP-MIDI client (lib/rtpclient.cpp and the state machine generated  *)
(* into lib/rtpclient_statemachine.cpp): one peer, the list of servers to  *)
(* try, one timer, and the callbacks that drive handle_event.              *)
(*                                                                         *)
(* handle_event calls the entry function of the new state, which may call  *)
(* handle_event again or raise a signal whose callback does: the calls     *)
(* nest.  work is the rest of what the calls under way have still to do,   *)
(* innermost first; the program is back in the poller when it is empty.    *)
(* Only then do packets and timers arrive.                                 *)
(*                                                                         *)
(* An endpoint is the sequence of the addresses its name resolves to; a    *)
(* server with several addresses answers from one SSRC.  asked holds the   *)
(* invitations and clock requests that left: their answers may come late,  *)
(* more than once or never.                                                *)
(***************************************************************************)
EXTENDS RtpPeer, SequencesExt

CONSTANTS Endpoints,    \* the endpoints given to add_server_address, in order
          SsrcOf,       \* the SSRC of the server behind each address
          MyInitiator,  \* the random initiator id of the client
          MySsrc,       \* rtppeer_t::local_ssrc of the client
          ShortCks,     \* quick clock exchanges before the slow ones (6)
          LocalFaults   \* whether sockets may fail to open or to send

Addr == UNION {ToSet(Endpoints[e]) : e \in DOMAIN Endpoints}

ASSUME ClientAssumption ==
    /\ Endpoints \in Seq(Seq(Addr))
    /\ SsrcOf \in [Addr -> Ssrc \ {0}] /\ MySsrc \in Ssrc
    /\ MyInitiator \in Initiator /\ ShortCks \in Nat \ {0}
    /\ LocalFaults \in BOOLEAN

VARIABLES
    state,    \* rtpclient_t::state
    work,     \* what the calls under way have still to do
    known,    \* how many endpoints are in address_port_known
    pending,  \* address_port_pending, as indices of Endpoints
    chosen,   \* resolve_next_dns_endpoint
    list,     \* whose addresses resolve_next_dns_sockaddress_list holds, 0 if none
    at,       \* resolve_next_dns_sockaddress_list_I
    addr,     \* control_address (midi_address is the port above it)
    timer,    \* what the one timer will do
    calls,    \* control_ and midi_connected_event_connection that are connected
    ck,       \* the callback of ck_connection
    ckCount,  \* ck_count
    opened,   \* sockets that are open
    peer,     \* the rtppeer_t
    told,     \* the last status the other listeners of status_change_event heard
    asked     \* <<SSRC, port or "ck", initiator>> of the requests that left

search  == <<known, pending, chosen, list, at, addr>>
alarms  == <<timer, calls>>
clocks  == <<ck, ckCount>>
session == <<opened, peer, told, asked>>
cvars   == <<state, work, search, alarms, clocks, session>>

CkStates == {"SendCkShort", "WaitSendCkShort", "SendCkLong", "WaitSendCkLong"}

State == {"Error", "WaitToStart", "PrepareNextDNS", "ResolveNextIpPort",
          "ConnectControl", "ConnectMidi", "AllConnected", "DisconnectControl",
          "DisconnectBecauseCKTimeout", "TryConnectToAllKnownDNS"} \cup CkStates

\* event_e
Trigger == {"Started", "NextReady", "ResolveListExhausted", "ConnectListExhausted",
            "ResolveFailed", "Resolved", "ConnectFailed", "Connected", "SendCK",
            "WaitSendCK", "LatencyMeasured", "Timeout", "Connect"}

\* The switch of handle_event: [from, on, to].
Arrows == {
    <<"WaitToStart", "Started", "PrepareNextDNS">>,
    <<"PrepareNextDNS", "NextReady", "ResolveNextIpPort">>,
    <<"PrepareNextDNS", "ResolveListExhausted", "Error">>,
    <<"ResolveNextIpPort", "ConnectListExhausted", "PrepareNextDNS">>,
    <<"ResolveNextIpPort", "ResolveFailed", "ResolveNextIpPort">>,
    <<"ResolveNextIpPort", "Resolved", "ConnectControl">>,
    <<"ConnectControl", "ConnectFailed", "ResolveNextIpPort">>,
    <<"ConnectControl", "Connected", "ConnectMidi">>,
    <<"ConnectMidi", "Connected", "AllConnected">>,
    <<"ConnectMidi", "ConnectFailed", "DisconnectControl">>,
    <<"DisconnectControl", "ConnectFailed", "ResolveNextIpPort">>,
    <<"AllConnected", "SendCK", "SendCkShort">>,
    <<"SendCkShort", "WaitSendCK", "WaitSendCkShort">>,
    <<"SendCkShort", "LatencyMeasured", "WaitSendCkLong">>,
    <<"SendCkShort", "Timeout", "DisconnectBecauseCKTimeout">>,
    <<"WaitSendCkShort", "SendCK", "SendCkShort">>,
    <<"SendCkLong", "WaitSendCK", "WaitSendCkLong">>,
    <<"SendCkLong", "Timeout", "DisconnectBecauseCKTimeout">>,
    <<"WaitSendCkLong", "SendCK", "SendCkLong">>,
    <<"DisconnectBecauseCKTimeout", "ConnectFailed", "ConnectControl">>,
    <<"Error", "Connect", "TryConnectToAllKnownDNS">>,
    <<"TryConnectToAllKnownDNS", "Connect", "PrepareNextDNS">>}

\* An event the switch does not list leads to Error.
Target(s, e) == IF \E a \in Arrows : a[1] = s /\ a[2] = e
                THEN (CHOOSE a \in Arrows : a[1] = s /\ a[2] = e)[3]
                ELSE "Error"

Status == (Event \ {"ck"}) \cup {"NETWORK_ERROR"}

\* What a call under way can have left to do.
Item == ({"event"} \X Trigger) \cup ({"tell"} \X Status)
        \cup ({"disconnect", "goodbye", "ended", "close"} \X Port)
        \cup {<<"reset", "peer">>, <<"retry", "timer">>, <<"warn", "ck">>,
              <<"ck", "peer">>, <<"answer", "ck">>}

CTypeOK ==
    /\ state \in State \cup {"Destroyed"}
    /\ work \in Seq(Item)
    /\ known \in 0..Len(Endpoints)
    /\ pending \in Seq(DOMAIN Endpoints)
    /\ chosen \in {0} \cup DOMAIN Endpoints
    /\ list \in {0} \cup DOMAIN Endpoints
    /\ list # 0 => at \in DOMAIN Endpoints[list]
    /\ addr \in {0} \cup Addr
    /\ timer \in {"none", "control", "midi", "timeout", "wait", "retry"}
    /\ calls \in SUBSET Port
    /\ ck \in {"none", "short", "long", "warn"}
    /\ ckCount \in 0..ShortCks
    /\ opened \in SUBSET Port
    /\ peer \in Peer
    /\ told \in Status \cup {"nothing"}
    /\ asked \in SUBSET (Ssrc \X (Port \cup {"ck"}) \X Initiator)

CInit ==
    /\ state = "WaitToStart" /\ work = <<>>
    /\ known = 0 /\ pending = <<>> /\ chosen = 0 /\ list = 0 /\ at = 0 /\ addr = 0
    /\ timer = "none" /\ calls = {}
    /\ ck = "none" /\ ckCount = 0
    /\ opened = {} /\ peer = NewPeer(MyInitiator, MySsrc)
    /\ told = "nothing" /\ asked = {}

-----------------------------------------------------------------------------
Idle == work = <<>> /\ state # "Destroyed"

\* The program turns to item <<what, arg>> of its work.
Doing(what, arg) == work # <<>> /\ Head(work) = <<what, arg>>

\* It does the items of s before the rest of its work.
Next_(s) == work' = s \o Tail(work)

event(e) == <<"event", e>>

\* handle_event enters state s.
Enters(s) == /\ work # <<>> /\ Head(work)[1] = "event"
             /\ Target(state, Head(work)[2]) = s
             /\ state' = s

\* A packet leaves, or sendto throws: the client then raises NETWORK_ERROR.
Sent(what, init) == asked' = asked \cup {<<SsrcOf[addr], what, init>>}
SendFails        == LocalFaults /\ UNCHANGED asked
NetworkError     == <<"tell", "NETWORK_ERROR">>

-----------------------------------------------------------------------------
\* state_prepare_next_dns
PrepareNextDNS ==
    /\ Enters("PrepareNextDNS")
    /\ \/ /\ pending = <<>>
          /\ Next_(<<event("ConnectListExhausted")>>)
          /\ UNCHANGED <<pending, chosen>>
       \/ /\ pending # <<>>
          /\ chosen' = Last(pending)
          /\ pending' = Front(pending)
          /\ Next_(<<event("NextReady")>>)
    /\ UNCHANGED <<known, list, at, addr, alarms, clocks, session>>

\* state_resolve_next_ip_port: an old list that is still there goes on, whatever
\* endpoint was chosen since.
ResolveNextIpPort ==
    LET which == IF list = 0 THEN chosen ELSE list
        place == IF list = 0 THEN 1 ELSE at + 1
    IN
    /\ Enters("ResolveNextIpPort")
    /\ \/ /\ place \in DOMAIN Endpoints[which]
          /\ list' = which /\ at' = place
          /\ addr' = Endpoints[which][place]
          /\ Next_(<<event("Resolved")>>)
       \/ /\ place \notin DOMAIN Endpoints[which]
          /\ list' = 0 /\ at' = 0
          /\ Next_(<<event("ConnectListExhausted")>>)
          /\ UNCHANGED addr
    /\ UNCHANGED <<known, pending, chosen, alarms, clocks, session>>

\* A state_connect_control that forgets to watch the clock.
ConnectControlUntimed ==
    /\ Enters("ConnectControl")
    /\ opened' = opened \cup {"control"}
    /\ calls' = calls \cup {"control"}
    /\ Sent("control", peer.init)
    /\ Next_(<<>>)
    /\ UNCHANGED <<search, timer, clocks, peer, told>>

\* state_connect_control
ConnectControl ==
    /\ Enters("ConnectControl")
    /\ \/ /\ LocalFaults
          /\ opened' = opened \ {"control"}
          /\ Next_(<<event("ConnectFailed")>>)
          /\ UNCHANGED <<alarms, asked>>
       \/ /\ opened' = opened \cup {"control"}
          /\ calls' = calls \cup {"control"}
          /\ timer' = "control"
          /\ \/ Sent("control", peer.init) /\ Next_(<<>>)
             \/ SendFails /\ Next_(<<NetworkError>>)
    /\ UNCHANGED <<search, clocks, peer, told>>

\* state_connect_midi
ConnectMidi ==
    /\ Enters("ConnectMidi")
    /\ \/ /\ LocalFaults
          /\ timer' = "none"
          /\ opened' = opened \ {"midi"}
          /\ Next_(<<event("ConnectFailed")>>)
          /\ UNCHANGED <<calls, asked>>
       \/ /\ opened' = opened \cup {"midi"}
          /\ calls' = calls \cup {"midi"}
          /\ timer' = "midi"
          /\ \/ Sent("midi", peer.init) /\ Next_(<<>>)
             \/ SendFails /\ Next_(<<NetworkError>>)
    /\ UNCHANGED <<search, clocks, peer, told>>

\* state_disconnect_control
DisconnectControl ==
    /\ Enters("DisconnectControl")
    /\ timer' = "none"
    /\ Next_(<< <<"goodbye", "control">>, <<"close", "control">>, event("ConnectFailed")>>)
    /\ UNCHANGED <<search, calls, clocks, session>>

\* A state_all_connected that counts on from the last session.
AllConnectedCountsOn ==
    /\ Enters("AllConnected")
    /\ timer' = "none"
    /\ Next_(<<event("SendCK")>>)
    /\ UNCHANGED <<search, calls, clocks, session>>

\* state_all_connected
AllConnected ==
    /\ Enters("AllConnected")
    /\ timer' = "none" /\ ckCount' = 0
    /\ Next_(<<event("SendCK")>>)
    /\ UNCHANGED <<search, calls, ck, session>>

\* state_send_ck_short, state_send_ck_long: a clock request that cannot be sent
\* is answered by nobody.  The count of the slow exchanges is read by nobody.
SendCK(s, kind, count) ==
    /\ Enters(s)
    /\ timer' = "timeout" /\ ck' = kind /\ ckCount' = count
    /\ \/ Sent("ck", 0) /\ Next_(<<>>)
       \/ SendFails /\ Next_(<<NetworkError>>)
    /\ UNCHANGED <<search, calls, opened, peer, told>>

SendCkShort == SendCK("SendCkShort", "short", ckCount + 1)
SendCkLong  == SendCK("SendCkLong", "long", ckCount)

\* state_wait_send_ck_short
WaitSendCkShort ==
    /\ Enters("WaitSendCkShort")
    /\ timer' = "wait"
    /\ Next_(<<>>)
    /\ UNCHANGED <<search, calls, clocks, session>>

\* state_wait_send_ck_long
WaitSendCkLong ==
    /\ Enters("WaitSendCkLong")
    /\ timer' = "wait" /\ ck' = "none"
    /\ Next_(<<>>)
    /\ UNCHANGED <<search, calls, ckCount, session>>

Disconnecting == << <<"disconnect", "midi">>, <<"disconnect", "control">>, <<"reset", "peer">> >>

\* state_disconnect_because_cktimeout
DisconnectBecauseCKTimeout ==
    /\ Enters("DisconnectBecauseCKTimeout")
    /\ Next_(Disconnecting \o <<event("ConnectFailed")>>)
    /\ UNCHANGED <<search, alarms, clocks, session>>

\* A state_error that does not wait before it starts again.
ErrorAtOnce ==
    /\ Enters("Error")
    /\ Next_(Disconnecting \o <<event("Connect")>>)
    /\ UNCHANGED <<search, alarms, clocks, session>>

\* state_error
Error ==
    /\ Enters("Error")
    /\ Next_(Disconnecting \o << <<"retry", "timer">> >>)
    /\ UNCHANGED <<search, alarms, clocks, session>>

\* A second round that forgets to fill the list again.
TryWithoutReload ==
    /\ Enters("TryConnectToAllKnownDNS")
    /\ Next_(<<event("Connect")>>)
    /\ UNCHANGED <<search, alarms, clocks, session>>

\* state_try_connect_to_all_known_dns
TryConnectToAllKnownDNS ==
    /\ Enters("TryConnectToAllKnownDNS")
    /\ pending' = [e \in 1..known |-> e]
    /\ Next_(<<event("Connect")>>)
    /\ UNCHANGED <<known, chosen, list, at, addr, alarms, clocks, session>>

Entry == \/ PrepareNextDNS \/ ResolveNextIpPort \/ ConnectControl \/ ConnectMidi
         \/ DisconnectControl \/ AllConnected \/ SendCkShort \/ SendCkLong
         \/ WaitSendCkShort \/ WaitSendCkLong \/ DisconnectBecauseCKTimeout
         \/ Error \/ TryConnectToAllKnownDNS

-----------------------------------------------------------------------------
\* Callbacks that take any port for the one they wait for.
VerdictOfAnyPort(wanted, s) ==
    event(IF s \in {"CONTROL_CONNECTED", "MIDI_CONNECTED", "CONNECTED"} THEN "Connected"
                                                                      ELSE "ConnectFailed")

\* What the callbacks of state_connect_control and state_connect_midi make of a
\* status: the first one ends the wait, whatever it is.
Verdict(wanted, s) == event(IF s = wanted THEN "Connected" ELSE "ConnectFailed")

\* Callbacks that stay connected after the status they waited for.
TellAndKeep(s) ==
    /\ Doing("tell", s)
    /\ told' = s
    /\ Next_((IF "control" \in calls THEN <<Verdict("CONTROL_CONNECTED", s)>> ELSE <<>>)
             \o (IF "midi" \in calls THEN <<Verdict("CONNECTED", s)>> ELSE <<>>))
    /\ UNCHANGED <<state, search, timer, calls, clocks, opened, peer, asked>>

\* status_change_event(s): the other listeners, then the callback that waits.
Tell(s) ==
    /\ Doing("tell", s)
    /\ told' = s
    /\ calls' = {}
    /\ Next_((IF "control" \in calls THEN <<Verdict("CONTROL_CONNECTED", s)>> ELSE <<>>)
             \o (IF "midi" \in calls THEN <<Verdict("CONNECTED", s)>> ELSE <<>>))
    /\ UNCHANGED <<state, search, timer, clocks, opened, peer, asked>>

\* The ck_event callbacks; the one that warns changes nothing.
TellCk ==
    /\ Doing("ck", "peer")
    /\ \/ /\ ck \in {"short", "long"}
          /\ timer' = "none"
          /\ Next_(<<event(IF ck = "short" /\ ckCount >= ShortCks THEN "LatencyMeasured"
                                                                  ELSE "WaitSendCK"),
                     <<"warn", "ck">>>>)
       \/ /\ ck \in {"warn", "none"}
          /\ Next_(<<>>)
          /\ UNCHANGED timer
    /\ UNCHANGED <<state, search, calls, clocks, session>>

Warn ==
    /\ Doing("warn", "ck")
    /\ ck' = "warn"
    /\ Next_(<<>>)
    /\ UNCHANGED <<state, search, alarms, ckCount, session>>

\* rtppeer_t::disconnect: a goodbye on a port that is connected.
DisconnectPort(p) ==
    /\ Doing("disconnect", p)
    /\ Next_(IF p \in peer.st THEN << <<"goodbye", p>> >> ELSE <<>>)
    /\ UNCHANGED <<state, search, alarms, clocks, session>>

\* rtppeer_t::send_goodbye and its send_event; the status follows the packet.
Goodbye(p) ==
    /\ Doing("goodbye", p)
    /\ \/ Next_(<< <<"ended", p>> >>)
       \/ LocalFaults /\ Next_(<<NetworkError, <<"ended", p>> >>)
    /\ UNCHANGED <<state, search, alarms, clocks, session>>

Ended(p) ==
    LET r == SendGoodbye(peer, p) IN
    /\ Doing("ended", p)
    /\ peer' = r.peer
    /\ Next_([k \in DOMAIN r.events |-> <<"tell", r.events[k]>>])
    /\ UNCHANGED <<state, search, alarms, clocks, opened, told, asked>>

\* rtppeer_t::reset
Reset ==
    /\ Doing("reset", "peer")
    /\ peer' = NewPeer(0, peer.local)
    /\ Next_(<<>>)
    /\ UNCHANGED <<state, search, alarms, clocks, opened, told, asked>>

\* control_peer.close()
Close ==
    /\ Doing("close", "control")
    /\ opened' = opened \ {"control"}
    /\ Next_(<<>>)
    /\ UNCHANGED <<state, search, alarms, clocks, peer, told, asked>>

\* The timer state_error leaves behind.
Retry ==
    /\ Doing("retry", "timer")
    /\ timer' = "retry"
    /\ Next_(<<>>)
    /\ UNCHANGED <<state, search, calls, clocks, session>>

\* The answer to a clock answer, after ck_event, may not leave.
Answer ==
    /\ Doing("answer", "ck")
    /\ \/ Next_(<<>>)
       \/ LocalFaults /\ Next_(<<NetworkError>>)
    /\ UNCHANGED <<state, search, alarms, clocks, session>>

Piece == \/ \E s \in Status : Tell(s)
         \/ TellCk \/ Warn \/ Reset \/ Close \/ Retry \/ Answer
         \/ \E p \in Port : DisconnectPort(p) \/ Goodbye(p) \/ Ended(p)

-----------------------------------------------------------------------------
\* add_server_address, add_server_addresses: one endpoint more, or several.
AddServerAddresses ==
    /\ Idle
    /\ \E n \in 1..Len(Endpoints) - known :
          /\ known' = known + n
          /\ pending' = pending \o [i \in 1..n |-> known + i]
    /\ work' = IF state = "WaitToStart" THEN <<event("Started")>> ELSE <<>>
    /\ UNCHANGED <<state, chosen, list, at, addr, alarms, clocks, session>>

\* What a server that was asked may send, at any time after.
FromServer == {Pkt(cmd, q[2], q[3], q[1]) :
                  cmd \in {"OK", "NO", "BY"}, q \in {r \in asked : r[2] \in Port}}
              \cup {Pkt("CK1", "midi", 0, q[1]) : q \in {r \in asked : r[2] = "ck"}}

\* A packet at an open socket: its sender's address is not looked at.
Receive(m) ==
    LET r == DataReady(peer, m) IN
    /\ Idle /\ m.port \in opened
    /\ peer' = r.peer
    /\ work' = [k \in DOMAIN r.events |->
                   IF r.events[k] = "ck" THEN <<"ck", "peer">> ELSE <<"tell", r.events[k]>>]
               \o (IF m.cmd = "CK1" THEN << <<"answer", "ck">> >> ELSE <<>>)
    /\ UNCHANGED <<state, search, alarms, clocks, opened, told, asked>>

\* The timer fires: both connection timers let go of the control callback.
Fire ==
    /\ Idle /\ timer # "none"
    /\ timer' = "none"
    /\ calls' = IF timer \in {"control", "midi"} THEN calls \ {"control"} ELSE calls
    /\ work' = <<event(CASE timer \in {"control", "midi"} -> "ConnectFailed"
                         [] timer = "timeout"             -> "Timeout"
                         [] timer = "wait"                -> "SendCK"
                         [] timer = "retry"               -> "Connect")>>
    /\ UNCHANGED <<state, search, clocks, session>>

\* ~rtpclient_t: goodbyes, control first, when both ports are connected.
Destroy ==
    /\ Idle
    /\ state' = "Destroyed"
    /\ told' = IF IsConnected(peer) THEN "DISCONNECT" ELSE told
    /\ peer' = IF IsConnected(peer) THEN [peer EXCEPT !.st = {}] ELSE peer
    /\ timer' = "none" /\ calls' = {} /\ opened' = {} /\ ck' = "none"
    /\ UNCHANGED <<work, search, ckCount, asked>>

CNext == \/ Entry \/ Piece
         \/ AddServerAddresses \/ Fire \/ Destroy
         \/ \E m \in FromServer : Receive(m)

CSpec == CInit /\ [][CNext]_cvars

\* Calls under way go on.  A request has finitely many answers, so packets do
\* not put the timer off for ever.
CFairSpec == CSpec /\ WF_cvars(Entry \/ Piece) /\ SF_cvars(Fire)

-----------------------------------------------------------------------------
\* What the timer is for, in every state the client rests in.
Awaits == [s \in {"WaitToStart", "ConnectControl", "ConnectMidi", "Error"} \cup CkStates |->
              CASE s = "WaitToStart"                          -> "none"
                [] s = "ConnectControl"                       -> "control"
                [] s = "ConnectMidi"                          -> "midi"
                [] s \in {"SendCkShort", "SendCkLong"}         -> "timeout"
                [] s \in {"WaitSendCkShort", "WaitSendCkLong"} -> "wait"
                [] s = "Error"                                -> "retry"]

\* Back in the poller, the client rests in a state that waits, and the timer is
\* the one that state armed: no nesting of handle_event, late answer or fault
\* leaves the client without a timer or with the timer of another state.
TimerFitsState == Idle => state \in DOMAIN Awaits /\ timer = Awaits[state]

\* Back in the poller, the callback of a connection attempt is connected exactly
\* while its answer is awaited; the one for the control port may outlive its
\* attempt in Error only, where any status it gets restarts the retry timer.
CallbacksFitState ==
    Idle => /\ "midi" \in calls <=> state = "ConnectMidi"
            /\ state = "ConnectControl" => "control" \in calls
            /\ "control" \in calls => state \in {"ConnectControl", "Error"}

\* The state machine enters AllConnected only with both ports connected and
\* after its listeners heard so, however the answers were mixed.
AllConnectedIsConnected ==
    state = "AllConnected" => IsConnected(peer) /\ told = "CONNECTED"

\* The nested calls of handle_event always come to an end: the poller runs again.
CallsReturn == []<>(work = <<>>)

\* A client with an address to go to never gives up: again and again it invites
\* a server or is exchanging clocks with one ("At most it will take some time").
KeepsTrying ==
    []<>( \/ \A e \in 1..known : Endpoints[e] = <<>>
          \/ state \in {"ConnectControl", "Destroyed"} \cup CkStates )

\* "If any of these fail, try next ip:port": every address of the list gets its
\* turn, again and again, as long as no session is made.  The code breaks it: the
\* MIDI timer does not let go of the MIDI callback, the goodbye to the server
\* that failed calls it, the next address is invited from within, and its socket
\* is closed when that call returns.
EveryAddressTried ==
    \A a \in Addr :
        []<>( \/ known < Len(Endpoints)
              \/ Idle /\ state = "ConnectControl" /\ addr = a
              \/ state \in {"Destroyed"} \cup CkStates )
=============================================================================
