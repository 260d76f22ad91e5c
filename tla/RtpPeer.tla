------------------------------- MODULE RtpPeer -------------------------------
(***************************************************************************)
(* The RTP-MIDI session half that clients and servers share                *)
(* (lib/rtppeer.cpp, class rtppeer_t): how one command packet, or one call *)
(* of the owner, changes a peer, which packets it sends and which          *)
(* status_change_event and ck_event signals it emits, in order.            *)
(*                                                                         *)
(* The module has no state of its own: every operator takes a peer and     *)
(* returns the record [peer, out, events].  status_e's two bits are kept   *)
(* as the set of connected ports; the DISCONNECTED_* codes are only ever   *)
(* emitted, never stored.  Packets of another protocol version, which the  *)
(* parser refuses with an exception, are left out.                         *)
(***************************************************************************)
EXTENDS Integers, Sequences

CONSTANTS Initiator,  \* initiator ids that can stand in a packet, 0 among them
          Ssrc        \* SSRCs, 0 among them

ASSUME ZeroAssumption == 0 \in Initiator /\ 0 \in Ssrc

Port == {"control", "midi"}

\* rtppeer_t: status bits, initiator_id, local_ssrc, remote_ssrc.
Peer == [st : SUBSET Port, init : Initiator, local : Ssrc, remote : Ssrc]

NewPeer(init, local) == [st |-> {}, init |-> init, local |-> local, remote |-> 0]

Command == {"IN", "OK", "NO", "BY", "CK0", "CK1", "CK2"}

\* A command packet.  A CK packet carries no initiator; 0 stands there.
Packet == [cmd : Command, port : Port, init : Initiator, ssrc : Ssrc]

Pkt(cmd, port, init, ssrc) == [cmd |-> cmd, port |-> port, init |-> init, ssrc |-> ssrc]

Event == {"NOT_CONNECTED", "CONTROL_CONNECTED", "MIDI_CONNECTED", "CONNECTED",
          "PEER_DISCONNECTED", "REJECTED", "DISCONNECT", "ck"}

\* rtppeer_t::is_disconnected, of the codes a peer itself emits.
Disconnected == {"PEER_DISCONNECTED", "REJECTED", "DISCONNECT"}

IsConnected(p) == p.st = Port

\* The status_e value of a set of connected ports.
StatusEvent(st) ==
    CASE st = {}        -> "NOT_CONNECTED"
      [] st = Port      -> "CONNECTED"
      [] st = {"control"} -> "CONTROL_CONNECTED"
      [] st = {"midi"}  -> "MIDI_CONNECTED"

Result(p, out, events) == [peer |-> p, out |-> out, events |-> events]

-----------------------------------------------------------------------------
\* A parse_command_in that tells the status before it takes the port.
OnINTellsFirst(p, m) ==
    LET q == [p EXCEPT !.init = m.init, !.remote = m.ssrc, !.st = @ \cup {m.port}] IN
    Result(q, <<Pkt("OK", m.port, m.init, p.local)>>, <<StatusEvent(p.st)>>)

\* parse_command_in: whoever invites is accepted, connected or not.
OnIN(p, m) ==
    LET q == [p EXCEPT !.init = m.init, !.remote = m.ssrc, !.st = @ \cup {m.port}] IN
    Result(q, <<Pkt("OK", m.port, m.init, p.local)>>, <<StatusEvent(q.st)>>)

\* parse_command_ok: the SSRC is taken before the initiator is compared.
OnOK(p, m) ==
    LET q == [p EXCEPT !.remote = m.ssrc] IN
    IF IsConnected(p) THEN Result(p, <<>>, <<>>)
    ELSE IF m.init # p.init THEN Result(q, <<>>, <<>>)
    ELSE LET r == [q EXCEPT !.st = @ \cup {m.port}] IN
         Result(r, <<>>, <<StatusEvent(r.st)>>)

\* parse_command_by: the initiator is taken before the SSRC is compared; the
\* end is told when neither port is left.
OnBY(p, m) ==
    LET q == [p EXCEPT !.init = m.init] IN
    IF m.ssrc # p.remote THEN Result(q, <<>>, <<>>)
    ELSE LET r == [q EXCEPT !.st = @ \ {m.port}] IN
         Result(r, <<>>, IF r.st = {} THEN <<"PEER_DISCONNECTED">> ELSE <<>>)

\* parse_command_no: no comparison at all.
OnNO(p, m) ==
    Result([p EXCEPT !.init = m.init, !.st = @ \ {m.port}], <<>>, <<"REJECTED">>)

\* A parse_command_ck that answers every count with the next one.
OnCKCountsOn(p, m) ==
    CASE m.cmd = "CK0" -> Result(p, <<Pkt("CK1", m.port, 0, p.local)>>, <<>>)
      [] m.cmd = "CK1" -> Result(p, <<Pkt("CK2", m.port, 0, p.local)>>, <<"ck">>)
      [] m.cmd = "CK2" -> Result(p, <<Pkt("CK3", m.port, 0, p.local)>>, <<"ck">>)

\* parse_command_ck: answers 0 with 1 and 1 with 2; only 1 and 2 raise ck_event.
OnCK(p, m) ==
    CASE m.cmd = "CK0" -> Result(p, <<Pkt("CK1", m.port, 0, p.local)>>, <<>>)
      [] m.cmd = "CK1" -> Result(p, <<Pkt("CK2", m.port, 0, p.local)>>, <<"ck">>)
      [] m.cmd = "CK2" -> Result(p, <<>>, <<"ck">>)

\* data_ready and parse_command, for the command packets.
DataReady(p, m) ==
    CASE m.cmd = "IN" -> OnIN(p, m)
      [] m.cmd = "OK" -> OnOK(p, m)
      [] m.cmd = "BY" -> OnBY(p, m)
      [] m.cmd = "NO" -> OnNO(p, m)
      [] m.cmd \in {"CK0", "CK1", "CK2"} -> OnCK(p, m)

-----------------------------------------------------------------------------
\* connect_to
ConnectTo(p, port) == Result(p, <<Pkt("IN", port, p.init, p.local)>>, <<>>)

\* send_ck0
SendCK0(p) == Result(p, <<Pkt("CK0", "midi", 0, p.local)>>, <<>>)

\* send_goodbye: the packet goes out whatever the status; a peer that was not
\* connected at all tells DISCONNECTED_DISCONNECT again.
SendGoodbye(p, port) ==
    LET q == [p EXCEPT !.st = @ \ {port}] IN
    Result(q, <<Pkt("BY", port, p.init, p.local)>>,
           IF q.st = {} THEN <<"DISCONNECT">> ELSE <<>>)

\* A disconnect that says goodbye once per session.
DisconnectOnce(p) ==
    Result(NewPeer(0, p.local), <<Pkt("BY", "control", p.init, p.local)>>, <<"DISCONNECT">>)

\* disconnect: MIDI first, then control, and reset forgets who the peer was,
\* its own initiator id included.
Disconnect(p) ==
    LET a == IF "midi" \in p.st THEN SendGoodbye(p, "midi") ELSE Result(p, <<>>, <<>>)
        b == IF "control" \in a.peer.st THEN SendGoodbye(a.peer, "control")
                                        ELSE Result(a.peer, <<>>, <<>>)
    IN  Result(NewPeer(0, p.local), a.out \o b.out, a.events \o b.events)
=============================================================================
