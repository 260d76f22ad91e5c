------------------------------ MODULE MidiPath ------------------------------
(***************************************************************************)
(* The way of MIDI data from a port or a device of this computer to what a *)
(* participant of a session receives: commands are cut out of the bytes of *)
(* a raw device (src/midi_normalizer.cpp) and long SysEx messages of the   *)
(* ALSA sequencer into segments (src/aseq.cpp), the router passes them on  *)
(* (src/midirouter.cpp), each becomes a packet, the network loses and      *)
(* reorders packets, and the other half of the session makes messages of   *)
(* them again (lib/rtppeer.cpp), without a look at sequence numbers.       *)
(***************************************************************************)
EXTENDS Integers, FiniteSets, SequencesExt

CONSTANTS Segment,      \* data bytes in a segment: 256
          Mtu,          \* the longest payload that is received whole: 1486
          MaxPayload,   \* the longest payload that fits the buffer to send: 4094
          AlsaSizes,    \* bound: how much data SysEx messages of ALSA have
          DeviceSizes,  \* bound: how much data those of a device have
          MaxMessages,  \* bound: how many messages there are
          MaxFaults     \* bound: how many packets are lost or overtaken

ASSUME MidiPathAssumption ==
    /\ Segment \in Nat \ {0} /\ Segment + 2 <= Mtu /\ 7 <= Mtu /\ Mtu <= MaxPayload
    /\ Mtu \in Nat /\ MaxPayload \in Nat
    /\ AlsaSizes \subseteq Nat /\ DeviceSizes \subseteq Nat
    /\ MaxMessages \in Nat /\ MaxFaults \in Nat

VARIABLES
    connected,  \* rtppeer_t::status of the half that sends
    device,     \* what the raw device is sending, and what is left of it
    buffer,     \* midi_normalizer_t::m_buffer
    waiting,    \* midi_normalizer_t::waiting_for_size
    net,        \* the packets under way, in the order they were sent
    sysex,      \* rtppeer_t::sysex of the half that receives, from its F0 on
    out,        \* the messages that came out
    sent,       \* history: the messages that went in, and fit
    made,       \* bound: how many messages were made
    faults,     \* bound: how many faults of the network there were
    seen        \* history: the kinds of faults

source == <<device, buffer, waiting>>
sink   == <<sysex, out>>
vars   == <<connected, source, net, sink, sent, made, faults, seen>>

Start == 240  \* 0xF0
Stop  == 247  \* 0xF7
Cancel == 244  \* 0xF4
IsData(b) == b < 128

MInit ==
    /\ connected = FALSE
    /\ device = [message |-> <<>>, left |-> <<>>]
    /\ buffer = <<>> /\ waiting = -1
    /\ net = <<>> /\ sysex = <<>> /\ out = <<>>
    /\ sent = <<>> /\ made = 0 /\ faults = 0 /\ seen = {}

-----------------------------------------------------------------------------
(* What goes in.  Data bytes tell the messages apart. *)

DataByte(b) == b % 128
Data(k) == [i \in 1..k |-> DataByte(10 * made + i)]
More     == <<DataByte(10 * made + 8), DataByte(10 * made + 9)>>
Note     == <<144>> \o Data(2)
Program  == <<192>> \o Data(1)
Sysex(k) == <<Start>> \o Data(k) \o <<Stop>>

Messages(sizes) == {Note, Program} \cup {Sysex(k) : k \in sizes}

Make == made < MaxMessages /\ made' = made + 1

-----------------------------------------------------------------------------
(* The half that sends *)

\* The last segment without its last byte.
SegmentsCut(data) ==
    LET last == IF data = <<>> THEN 1 ELSE (Len(data) + Segment - 1) \div Segment
    IN  [i \in 1..last |->
            <<IF i = 1 THEN Start ELSE Stop>>
            \o SubSeq(data, (i - 1) * Segment + 1,
                      IF i = last THEN Len(data) - 1 ELSE i * Segment)
            \o <<IF i = last THEN Stop ELSE Start>>]

\* ev_to_mididata_f of a SysEx event: its data in pieces, each as a packet of
\* its own, begun and ended so that the other side can put them together.
Segments(data) ==
    LET last == IF data = <<>> THEN 1 ELSE (Len(data) + Segment - 1) \div Segment
    IN  [i \in 1..last |->
            <<IF i = 1 THEN Start ELSE Stop>>
            \o SubSeq(data, (i - 1) * Segment + 1,
                      IF i = last THEN Len(data) ELSE i * Segment)
            \o <<IF i = last THEN Stop ELSE Start>>]

\* What ev_to_mididata_f makes of an event, as the messages the router gets.
Decoded(m) == IF m[1] = Start THEN Segments(SubSeq(m, 2, Len(m) - 1)) ELSE <<m>>

\* send_midi of the router, of the network peer and of rtppeer_t: nothing goes
\* out when there is no session.
SendMidi(packets) == net' = IF connected THEN net \o packets ELSE net

\* The handler of an event of an ALSA port.
AlsaEvent ==
    /\ Make
    /\ \E m \in Messages(AlsaSizes) :
          /\ SendMidi(Decoded(m))
          /\ sent' = IF connected THEN Append(sent, m) ELSE sent
    /\ UNCHANGED <<connected, source, sink, faults, seen>>

\* get_size_for_midi_command
CommandSize(b) ==
    CASE b = Start          -> 0
      [] b > Start          -> -1
      [] b \in 192..223     -> 2
      [] b < 128            -> -1
      [] OTHER              -> 3

\* Whether the bytes read so far are a command.
Complete(bytes) == \/ waiting = 0 /\ Last(bytes) = Stop
                   \/ waiting > 0 /\ Len(bytes) = waiting

\* parse_midi_byte.  What is too long for the buffer to send is an exception,
\* and neither the bytes nor what is waited for are reset.
MidiByte(b) ==
    LET bytes == Append(buffer, b)
    IN  \/ /\ waiting = -1
           /\ buffer' = bytes /\ waiting' = CommandSize(b)
           /\ UNCHANGED net
        \/ /\ waiting # -1 /\ ~Complete(bytes)
           /\ buffer' = bytes
           /\ UNCHANGED <<waiting, net>>
        \/ /\ waiting # -1 /\ Complete(bytes)
           /\ ~connected \/ Len(bytes) <= MaxPayload
           /\ buffer' = <<>> /\ waiting' = -1
           /\ SendMidi(<<bytes>>)
        \/ /\ waiting # -1 /\ Complete(bytes)
           /\ connected /\ Len(bytes) > MaxPayload
           /\ buffer' = bytes
           /\ UNCHANGED <<waiting, net>>

\* The device begins to send a message.
DeviceBegins ==
    /\ device.left = <<>> /\ Make
    /\ \E m \in Messages(DeviceSizes) : device' = [message |-> m, left |-> m]
    /\ UNCHANGED <<connected, buffer, waiting, net, sink, sent, faults, seen>>

\* read_midi: one byte of what was read; the router gets what is complete.
ReadMidi ==
    /\ device.left # <<>> /\ MidiByte(Head(device.left))
    /\ device' = [device EXCEPT !.left = Tail(@)]
    /\ LET ends == connected /\ Len(device.left) = 1
           fits == Len(device.message) <= Mtu
       IN  /\ sent' = IF ends /\ fits THEN Append(sent, device.message) ELSE sent
           /\ seen' = IF ends /\ ~fits THEN seen \cup {"size"} ELSE seen
    /\ UNCHANGED <<connected, sink, made, faults>>

\* The clock, or active sensing, between two bytes of what a device sends.
RealTime ==
    /\ "real time" \notin seen /\ seen' = seen \cup {"real time"}
    /\ MidiByte(248)
    /\ UNCHANGED <<connected, device, sink, sent, made, faults>>

\* A participant of another make puts several commands in a packet, with the
\* time between them, and leaves out a status byte that is the one before.
Remote ==
    /\ Make /\ connected
    /\ \/ /\ net' = Append(net, Note \o <<0>> \o More)
          /\ sent' = sent \o <<Note, <<144>> \o More>>
       \/ /\ net' = Append(net, Sysex(1) \o <<129, 0>> \o Program)
          /\ sent' = sent \o <<Sysex(1), Program>>
    /\ UNCHANGED <<connected, source, sink, faults, seen>>

Connect ==
    /\ ~connected /\ connected' = TRUE
    /\ UNCHANGED <<source, net, sink, sent, made, faults, seen>>

-----------------------------------------------------------------------------
(* The half that receives.  What a packet does is computed on a record of    *)
(* the state of the session, with the bytes that are left.                   *)

\* midi_event: the router hands the message to the one peer it is wired to.
Emit(st, m) == [st EXCEPT !.out = Append(@, m)]

\* What is kept of a message that is not over.
Keep(st, bytes) == [st EXCEPT !.sysex = bytes]

\* The exceptions end the packet and leave what was there before.
Thrown(st) == [st EXCEPT !.left = <<>>]

\* Any command is taken for the next segment.
ContinuedByAny(st, chunk) ==
    LET all == st.sysex \o SubSeq(chunk, 2, Len(chunk) - 1)
    IN  IF Last(chunk) = Start
        THEN Keep(st, all)
        ELSE Emit(Keep(st, <<>>), Append(all, Stop))

\* parse_sysex, for what continues a message and for what begins one.  A
\* message that was put together is not passed on if there is no data in it.
Continued(st, chunk) ==
    LET all == st.sysex \o SubSeq(chunk, 2, Len(chunk) - 1)
    IN  CASE chunk[1] # Stop -> Thrown(st)
          [] chunk[1] = Stop /\ Last(chunk) = Stop ->
               LET closed == Keep(st, <<>>)
               IN  IF all = <<Start>> THEN closed ELSE Emit(closed, Append(all, Stop))
          [] chunk[1] = Stop /\ Last(chunk) = Cancel -> Keep(st, <<>>)
          [] chunk[1] = Stop /\ Last(chunk) = Start  -> Keep(st, all)
          [] OTHER -> Thrown(Keep(st, all))

Begun(st, chunk) ==
    IF Last(chunk) = Stop THEN Emit(st, chunk) ELSE Keep(st, Front(chunk))

ParseSysex(st, chunk) ==
    IF st.sysex # <<>> THEN Continued(st, chunk) ELSE Begun(st, chunk)

\* next_midi_packet_length: a SysEx chunk goes to the next status byte, which
\* is its last one, and 0 stands for the exception if there is none.
SysexLength(bytes) ==
    LET ends == {i \in 2..Len(bytes) : ~IsData(bytes[i])}
    IN  IF ends = {} THEN 0 ELSE Min(ends)

StatusSize(b) ==
    CASE b \in 192..223                           -> 2
      [] b \in 128..239 \ 192..223                -> 3
      [] b \in {246, 248, 249, 250, 251, 252, 254, 255} -> 1
      [] b \in {241, 243}                         -> 2
      [] b = 242                                  -> 3
      [] OTHER                                    -> 0

PacketLength(bytes, running) ==
    CASE bytes[1] \in {Start, Stop, Cancel} -> SysexLength(bytes)
      [] IsData(bytes[1])                   -> StatusSize(running) - 1
      [] OTHER                              -> StatusSize(bytes[1])

Running(b, running) == CASE b \in 128..239 -> b
                         [] b \in Start..Stop -> 0
                         [] OTHER -> running

Skip(st, n) == [st EXCEPT !.left = SubSeq(@, n + 1, Len(@))]

\* read_delta_time: all but its last byte have the high bit.
SkipDelta(st) ==
    LET ends == {i \in DOMAIN st.left : IsData(st.left[i])}
    IN  IF ends = {} THEN Thrown(st)
                     ELSE Skip(st, Min(ends))

\* What is left after a command.
Rest(st, length) == [Skip(st, length) EXCEPT !.running = Running(st.left[1], @)]

\* What a command does.
Done(rest, chunk) ==
    CASE rest.sysex # <<>> \/ chunk[1] = Start -> ParseSysex(rest, chunk)
      [] rest.sysex = <<>> /\ IsData(chunk[1]) -> Emit(rest, <<rest.running>> \o chunk)
      [] OTHER -> Emit(rest, chunk)

\* One command of the MIDI list, and the time to the next one.
Command(st, length) ==
    LET done == Done(Rest(st, length), SubSeq(st.left, 1, length))
    IN  IF done.left = <<>> THEN done ELSE SkipDelta(done)

\* The next command of the list.  Data without any status before is a length of
\* -1, after which nothing is sure.
NextCommand(st) ==
    LET length == PacketLength(st.left, st.running)
    IN  CASE length < 0 -> [st EXCEPT !.left = <<>>, !.doubt = {"unsure"}]
          [] length = 0 \/ length > Len(st.left) -> Thrown(st)
          [] OTHER -> Command(st, length)

\* parse_midi: command after command, as many at most as there are bytes.
ParseList(st) ==
    LET parsed[n \in 0..Len(st.left)] ==
            IF n = 0 THEN st
            ELSE LET before == parsed[n - 1]
                 IN  IF before.left = <<>> THEN before ELSE NextCommand(before)
    IN  parsed[Len(st.left)]

ParseMidi(payload) ==
    ParseList([sysex |-> sysex, out |-> out, running |-> 0, left |-> payload, doubt |-> {}])

-----------------------------------------------------------------------------
(* The network *)

IsSegment(payload) == payload[1] = Stop \/ Last(payload) = Start
Kind(payload) == IF IsSegment(payload) THEN "segment" ELSE "whole"

\* A packet comes, maybe before others that were sent earlier.  One that is too
\* long is cut, and the length in its header is found to be wrong.
Receive ==
    \E i \in DOMAIN net :
        LET st == ParseMidi(net[i])
        IN  /\ i > 1 => faults < MaxFaults
            /\ faults' = IF i > 1 THEN faults + 1 ELSE faults
            /\ net' = RemoveAt(net, i)
            /\ seen' = seen
                  \cup (IF i = 1 THEN {}
                        ELSE IF IsSegment(net[i]) /\ \E j \in 1..i - 1 : IsSegment(net[j])
                             THEN {"segment"} ELSE {"whole"})
                  \cup (IF Len(net[i]) <= Mtu THEN st.doubt ELSE {})
            /\ IF Len(net[i]) <= Mtu THEN sysex' = st.sysex /\ out' = st.out
                                     ELSE UNCHANGED sink
            /\ UNCHANGED <<connected, source, sent, made>>

Lose ==
    \E i \in DOMAIN net :
        /\ faults < MaxFaults /\ faults' = faults + 1
        /\ net' = RemoveAt(net, i)
        /\ seen' = seen \cup {Kind(net[i])}
        /\ UNCHANGED <<connected, source, sink, sent, made>>

\* Nothing but the session matters to the bytes of a device between the first
\* and the last one of a message, so that the rest can happen before or after.
Others ==
    /\ device.left = <<>>
    /\ AlsaEvent \/ Remote \/ Receive \/ Lose

MNext ==
    /\ "unsure" \notin seen
    /\ DeviceBegins \/ ReadMidi \/ RealTime \/ Connect \/ Others

MSpec == MInit /\ [][MNext]_vars

-----------------------------------------------------------------------------
\* What goes in comes out, in the same order and no more than that, whatever
\* way it was cut in pieces and whatever else was sent in between: while
\* nothing is lost, and no device sends real time bytes or too long messages.
FaultFreeIsExact ==
    seen = {} => /\ IsPrefix(out, sent)
                 /\ net = <<>> => out = sent /\ sysex = <<>>

Times(seq, m) == Cardinality({i \in DOMAIN seq : seq[i] = m})

\* The network may lose and reorder what it likes, and devices send what is too
\* long, as long as they send no real time bytes: no command comes out that
\* did not go in, or more often than that; and SysEx messages come out as they
\* went in unless segments of them were lost or overtook each other.
NothingIsInvented ==
    seen \cap {"real time", "unsure"} = {} =>
        \A m \in Range(out) :
            m[1] \notin {Start, Stop} \/ "segment" \notin seen => Times(out, m) <= Times(sent, m)
=============================================================================
