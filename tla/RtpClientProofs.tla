-------------------------- MODULE RtpClientProofs --------------------------
(***************************************************************************)
(* The invariant CInv of the client, proved for every list of endpoints,   *)
(* every number of clock exchanges and every set of packets that servers   *)
(* may send, with and without local faults.                                *)
(*                                                                         *)
(* Most of CInv is about work, the calls under way: which items may be on  *)
(* the stack in which state, so that what a caller does after a nested     *)
(* call returns is still right.  A step takes the head off the stack and   *)
(* puts a few items in its place; Turning says once what that does, and    *)
(* EntryFrom what handle_event may rely on in the state it enters.         *)
(***************************************************************************)
EXTENDS RtpClient, SequenceTheorems, TLAPS

Items == Range(work)
Rest == Range(Tail(work))

\* The statuses a peer announces of ports that opened.
OfPorts == {"NOT_CONNECTED", "CONTROL_CONNECTED", "MIDI_CONNECTED", "CONNECTED"}

\* Items that are alone on the stack of calls: they come with a packet or a
\* timer, or from one that was alone.
Alone == {event("Connected"), event("Connect"), event("SendCK")} \cup ({"tell"} \X OfPorts)

StackOK ==
    /\ work \in Seq(Item)
    /\ state \in State \cup {"Destroyed"}
    /\ state = "Destroyed" => work = <<>>
    /\ \A x \in Items \cap Alone : work = <<x>>

Waits == state \in DOMAIN Awaits /\ timer = Awaits[state]

\* The timer of the state runs, or a call under way will see to it.
TimerComes ==
    \/ state = "Destroyed" \/ Waits
    \/ \E x \in Items : x[1] \in {"event", "retry"}

RetryOnlyInError ==
    \A x \in Items : x[1] = "retry" => state = "Error" /\ event("Connect") \notin Items

\* A state that waits for an answer without a callback is about to be left.
VerdictComes ==
    \/ state = "ConnectControl" /\ "control" \notin calls
    \/ state = "ConnectMidi" /\ "midi" \notin calls
    => \E x \in Items : x[1] = "event"

Search == {"PrepareNextDNS", "ResolveNextIpPort", "ConnectControl", "Error",
           "TryConnectToAllKnownDNS"}

ControlOnlyInSearch == "control" \in calls => state \in Search

OneIsUp == peer.st = {"control"}

\* A status will be told before anything else happens to the peer.
TellsAtOnce ==
    \/ work[1][1] = "tell"
    \/ OneIsUp /\ work[1] \in {<<"disconnect", "control">>, <<"goodbye", "control">>,
                                <<"ended", "control">>}

MidiIsLetGo ==
    "midi" \in calls =>
        /\ calls = {"midi"}
        /\ \/ state = "ConnectMidi" /\ (OneIsUp \/ (work # <<>> /\ work[1][1] = "tell"))
           \/ /\ state \in {"DisconnectControl", "Error"}
              /\ work # <<>>
              /\ \/ TellsAtOnce
                 \/ /\ OneIsUp /\ Len(work) > 1 /\ work[1] = <<"disconnect", "midi">>
                    /\ work[2] = <<"disconnect", "control">>

\* While the MIDI port is invited no call under way is ending the session.
NothingEnds ==
    state = "ConnectMidi" =>
        \A x \in Items : x[1] \notin {"disconnect", "goodbye", "ended", "reset", "close"}

ConnectedIsTrue ==
    event("Connected") \in Items =>
        /\ calls = {}
        /\ state = "ConnectControl" => OneIsUp
        /\ state = "ConnectMidi" => IsConnected(peer) /\ told = "CONNECTED"

ToldIsTrue == \A s \in OfPorts : <<"tell", s>> \in Items => s = StatusEvent(peer.st)

AllIsUp ==
    state = "AllConnected" =>
        work = <<event("SendCK")>> /\ IsConnected(peer) /\ told = "CONNECTED"

\* The states before an endpoint is chosen.
NotYet == {"Destroyed", "WaitToStart", "PrepareNextDNS", "Error", "TryConnectToAllKnownDNS"}

ChosenOK ==
    /\ chosen = 0 => state \in NotYet /\ event("NextReady") \notin Items
    /\ addr \notin Addr =>
          state \in NotYet \cup {"ResolveNextIpPort"} /\ event("Resolved") \notin Items

CountOK ==
    /\ state \in {"AllConnected", "WaitSendCkShort"} => ckCount < ShortCks
    /\ state = "SendCkShort" =>
          /\ ck = "short"
          /\ event("WaitSendCK") \in Items => ckCount < ShortCks
          /\ <<"warn", "ck">> \in Items => work[1][1] = "event"

CInv ==
    /\ CTypeOK /\ StackOK /\ TimerComes /\ RetryOnlyInError /\ VerdictComes
    /\ ControlOnlyInSearch /\ MidiIsLetGo /\ NothingEnds /\ ConnectedIsTrue
    /\ ToldIsTrue /\ AllIsUp /\ ChosenOK /\ CountOK

-----------------------------------------------------------------------------
\* The short sequences that handle_event puts on the stack.
LEMMA NoItem == <<>> \in Seq(Item) /\ Range(<<>>) = {}
  BY DEF Range

LEMMA OneItem ==
  ASSUME NEW a \in Item
  PROVE  /\ <<a>> \in Seq(Item) /\ Range(<<a>>) = {a}
         /\ <<a>> # <<>> /\ <<a>>[1] = a
  BY DEF Range

LEMMA TwoItems ==
  ASSUME NEW a \in Item, NEW b \in Item
  PROVE  /\ <<a, b>> \in Seq(Item) /\ Range(<<a, b>>) = {a, b}
         /\ <<a, b>> # <<>> /\ <<a, b>>[1] = a
  BY DEF Range

LEMMA ThreeItems ==
  ASSUME NEW a \in Item, NEW b \in Item, NEW c \in Item
  PROVE  /\ <<a, b, c>> \in Seq(Item) /\ Range(<<a, b, c>>) = {a, b, c}
         /\ Len(<<a, b, c>>) = 3 /\ <<a, b, c>> # <<>>
         /\ <<a, b, c>>[1] = a /\ <<a, b, c>>[2] = b
  BY DEF Range

LEMMA IsItem ==
  /\ NetworkError \in Item
  /\ \A e \in Trigger : event(e) \in Item
  /\ \A s \in Status : <<"tell", s>> \in Item
  /\ \A p \in Port : <<"goodbye", p>> \in Item /\ <<"ended", p>> \in Item
                       /\ <<"disconnect", p>> \in Item /\ <<"close", p>> \in Item
  /\ <<"reset", "peer">> \in Item /\ <<"retry", "timer">> \in Item /\ <<"warn", "ck">> \in Item
  /\ <<"ck", "peer">> \in Item /\ <<"answer", "ck">> \in Item
  BY DEF Item, NetworkError, event, Status

\* The stack of calls as its innermost item and the rest.
LEMMA HeadAndRest ==
  ASSUME StackOK, work # <<>>
  PROVE  /\ StackOK /\ Tail(work) \in Seq(Item)
         /\ Head(work) = work[1] /\ Head(work) \in Item
         /\ Items = {Head(work)} \cup Rest
         /\ Rest \cap Alone = {}
         /\ Head(work) \in Alone => Tail(work) = <<>> /\ Rest = {} /\ work = <<Head(work)>>
         /\ Len(work) > 1 => Tail(work) # <<>> /\ Tail(work)[1] = work[2]
         /\ state # "Destroyed"
  <1> USE DEF Items, Rest
  <1>1. work \in Seq(Item) /\ Tail(work) \in Seq(Item) /\ Head(work) \in Item
    BY HeadTailProperties DEF StackOK
  <1>2. /\ Len(Tail(work)) = Len(work) - 1 /\ Len(work) \in Nat
        /\ \A k \in 1..Len(Tail(work)) : Tail(work)[k] = work[k + 1]
        /\ DOMAIN Tail(work) = 1..Len(Tail(work)) /\ DOMAIN work = 1..Len(work)
    BY <1>1, HeadTailProperties, LenProperties
  <1>3. Items = {Head(work)} \cup Rest
    <2>1. ASSUME NEW i \in 1..Len(work) PROVE work[i] \in {Head(work)} \cup Rest
      <3>1. CASE i = 1
        BY <3>1, <1>1
      <3>2. CASE i # 1
        <4>1. i - 1 \in 1..Len(Tail(work)) /\ Tail(work)[i - 1] = work[i]
          BY <3>2, <1>2
        <4> QED  BY <4>1, <1>2 DEF Range
      <3> QED  BY <3>1, <3>2
    <2>2. ASSUME NEW i \in 1..Len(Tail(work)) PROVE Tail(work)[i] \in Items
      <3>1. i + 1 \in 1..Len(work) /\ Tail(work)[i] = work[i + 1]
        BY <1>2
      <3> QED  BY <3>1, <1>2 DEF Range
    <2>3. Head(work) \in Items
      BY <1>1, <1>2, EmptySeq DEF Range
    <2> QED  BY <2>1, <2>2, <2>3, <1>2 DEF Range
  <1>4. ASSUME NEW x \in Items \cap Alone
        PROVE  Tail(work) = <<>> /\ Rest = {} /\ work = <<x>> /\ x = Head(work)
    <2>1. work = <<x>>
      BY DEF StackOK
    <2>2. Tail(work) = <<>> /\ x = Head(work)
      BY <2>1
    <2> QED  BY <2>1, <2>2 DEF Range
  <1>5. ASSUME Len(work) > 1 PROVE Tail(work) # <<>> /\ Tail(work)[1] = work[2]
    <2>1. Len(<<>>) = 0
      BY EmptySeq
    <2>2. Len(Tail(work)) # 0
      BY <1>2, <1>5
    <2> QED  BY <1>2, <1>5, <2>1, <2>2
  <1>6. state # "Destroyed"
    BY DEF StackOK
  <1>7. Rest \cap Alone = {}
    BY <1>3, <1>4
  <1> HIDE DEF Items, Rest
  <1> QED  BY <1>1, <1>3, <1>4, <1>5, <1>6, <1>7

\* What a step that turns to the head of its work and puts s in its place does
\* to the stack.
LEMMA Turning ==
  ASSUME StackOK, work # <<>>, NEW s \in Seq(Item), Next_(s)
  PROVE  /\ work' \in Seq(Item)
         /\ Head(work) = work[1] /\ Items = {Head(work)} \cup Rest
         /\ Items' = Range(s) \cup Rest
         /\ Rest \cap Alone = {}
         /\ Head(work) \in Alone => Rest = {} /\ work' = s
         /\ s = <<>> => work' = Tail(work)
         /\ s # <<>> => work' # <<>> /\ work'[1] = s[1]
         /\ Len(s) > 1 => Len(work') > 1 /\ work'[2] = s[2]
         /\ Len(work) > 1 /\ s = <<>> => work' # <<>> /\ work'[1] = work[2]
  <1>1. Tail(work) \in Seq(Item) /\ work' = s \o Tail(work)
    BY HeadAndRest DEF Next_
  <1>2. work' \in Seq(Item) /\ Items' = Range(s) \cup Rest
    <2>1. s \o Tail(work) \in Seq(Item)
      BY <1>1, ConcatProperties
    <2>2. Range(s \o Tail(work)) = Range(s) \cup Range(Tail(work))
      BY <1>1, RangeConcatenation
    <2> QED  BY <1>1, <2>1, <2>2 DEF Items, Rest
  <1>3. s = <<>> => work' = Tail(work)
    BY <1>1, ConcatEmptySeq
  <1>4. s # <<>> => work' # <<>> /\ work'[1] = s[1]
    BY <1>1, ConcatProperties, EmptySeq
  <1>5. Len(s) > 1 => Len(work') > 1 /\ work'[2] = s[2]
    BY <1>1, ConcatProperties, LenProperties
  <1>6. Head(work) \in Alone => work' = s
    BY <1>1, HeadAndRest, ConcatEmptySeq
  <1> QED  BY <1>2, <1>3, <1>4, <1>5, <1>6, HeadAndRest

LEMMA LastAndFront ==
  ASSUME NEW S, NEW s \in Seq(S), s # <<>>
  PROVE  Last(s) \in S /\ Front(s) \in Seq(S)
  <1>1. Len(s) \in Nat \ {0}
    BY EmptySeq
  <1>2. \A i \in 1..(Len(s) - 1) : s[i] \in S
    BY <1>1, ElementOfSeq
  <1> QED  BY <1>1, <1>2, ElementOfSeq, SubSeqProperties DEF Last, Front

\* An event of the switch has an arrow; any other leads to Error.
LEMMA Arrow ==
  ASSUME NEW s, NEW e, Target(s, e) # "Error"
  PROVE  <<s, e, Target(s, e)>> \in Arrows
  <1> DEFINE a == CHOOSE a \in Arrows : a[1] = s /\ a[2] = e
  <1>1. \E b \in Arrows : b[1] = s /\ b[2] = e
    BY Zenon DEF Target
  <1>2. a \in Arrows /\ a[1] = s /\ a[2] = e
    BY <1>1, Zenon
  <1>3. Target(s, e) = a[3]
    BY <1>1 DEF Target
  <1> HIDE DEF a
  <1>4. a = <<a[1], a[2], a[3]>>
    BY <1>2 DEF Arrows
  <1> QED  BY <1>2, <1>3, <1>4

\* How the client came to the state it enters.
LEMMA Entering ==
  ASSUME StackOK, NEW X, Enters(X)
  PROVE  \E e \in Trigger :
            /\ work # <<>> /\ Head(work) = event(e) /\ state' = X
            /\ X # "Error" => <<state, e, X>> \in Arrows
  <1> DEFINE e == Head(work)[2]
  <1>1. Head(work) \in Item
    BY HeadTailProperties DEF StackOK, Enters
  <1>2. e \in Trigger /\ Head(work) = event(e)
    BY <1>1 DEF Enters, event, Item
  <1>3. X # "Error" => <<state, e, X>> \in Arrows
    BY Arrow DEF Enters
  <1> QED  BY <1>2, <1>3 DEF Enters

\* Pieces that put nothing on the stack.
LEMMA ResetKeeps == CInv /\ Reset => CInv'
  <1> SUFFICES ASSUME CInv, Reset PROVE CInv'
    OBVIOUS
  <1> DEFINE s == <<>>
  <1>1. /\ StackOK /\ work # <<>> /\ Head(work) = <<"reset", "peer">> /\ Next_(s)
        /\ s \in Seq(Item) /\ Range(s) = {}
    BY NoItem DEF CInv, Reset, Doing
  <1> HIDE DEF s
  <1>2. /\ work' \in Seq(Item) /\ Head(work) = work[1]
        /\ Items = {Head(work)} \cup Rest /\ Items' = Rest /\ Rest \cap Alone = {}
    BY <1>1, Turning
  <1>3. CTypeOK'
    BY <1>2, ZeroAssumption DEF CInv, CTypeOK, Reset, NewPeer, Peer, search, alarms, clocks, session, Item
  <1>4. StackOK' /\ AllIsUp' /\ ChosenOK'
    BY <1>1, <1>2 DEF CInv, StackOK, AllIsUp, ChosenOK, Reset, search, event, Alone
  <1>5. TimerComes' /\ RetryOnlyInError' /\ VerdictComes' /\ ControlOnlyInSearch' /\ CountOK'
    BY <1>1, <1>2 DEF CInv, TimerComes, RetryOnlyInError, VerdictComes, ControlOnlyInSearch, CountOK,
       Reset, search, alarms, clocks, Waits
  <1>6. MidiIsLetGo' /\ NothingEnds' /\ ConnectedIsTrue' /\ ToldIsTrue'
    BY <1>1, <1>2 DEF CInv, MidiIsLetGo, NothingEnds, ConnectedIsTrue, ToldIsTrue, OneIsUp, Reset,
       search, alarms, session, Alone, OfPorts, TellsAtOnce
  <1> QED  BY <1>3, <1>4, <1>5, <1>6 DEF CInv

LEMMA CloseKeeps == CInv /\ Close => CInv'
  <1> SUFFICES ASSUME CInv, Close PROVE CInv'
    OBVIOUS
  <1> DEFINE s == <<>>
  <1>1. /\ StackOK /\ work # <<>> /\ Head(work) = <<"close", "control">> /\ Next_(s)
        /\ s \in Seq(Item) /\ Range(s) = {}
    BY NoItem DEF CInv, Close, Doing
  <1> HIDE DEF s
  <1>2. /\ work' \in Seq(Item) /\ Head(work) = work[1]
        /\ Items = {Head(work)} \cup Rest /\ Items' = Rest /\ Rest \cap Alone = {}
    BY <1>1, Turning
  <1>3. CTypeOK'
    BY <1>2 DEF CInv, CTypeOK, Close, search, alarms, clocks, session, Item
  <1>4. StackOK' /\ AllIsUp' /\ ChosenOK'
    BY <1>1, <1>2 DEF CInv, StackOK, AllIsUp, ChosenOK, Close, search, event, Alone
  <1>5. TimerComes' /\ RetryOnlyInError' /\ VerdictComes' /\ ControlOnlyInSearch' /\ CountOK'
    BY <1>1, <1>2 DEF CInv, TimerComes, RetryOnlyInError, VerdictComes, ControlOnlyInSearch, CountOK,
       Close, search, alarms, clocks, Waits
  <1>6. MidiIsLetGo' /\ NothingEnds' /\ ConnectedIsTrue' /\ ToldIsTrue'
    BY <1>1, <1>2 DEF CInv, MidiIsLetGo, NothingEnds, ConnectedIsTrue, ToldIsTrue, OneIsUp, Close,
       search, alarms, session, Alone, OfPorts, TellsAtOnce
  <1> QED  BY <1>3, <1>4, <1>5, <1>6 DEF CInv

LEMMA WarnKeeps == CInv /\ Warn => CInv'
  <1> SUFFICES ASSUME CInv, Warn PROVE CInv'
    OBVIOUS
  <1> DEFINE s == <<>>
  <1>1. /\ StackOK /\ work # <<>> /\ Head(work) = <<"warn", "ck">> /\ Next_(s)
        /\ s \in Seq(Item) /\ Range(s) = {}
    BY NoItem DEF CInv, Warn, Doing
  <1> HIDE DEF s
  <1>2. /\ work' \in Seq(Item) /\ Head(work) = work[1]
        /\ Items = {Head(work)} \cup Rest /\ Items' = Rest /\ Rest \cap Alone = {}
    BY <1>1, Turning
  <1>3. CTypeOK'
    BY <1>2 DEF CInv, CTypeOK, Warn, search, alarms, clocks, session, Item
  <1>4. StackOK' /\ AllIsUp' /\ ChosenOK'
    BY <1>1, <1>2 DEF CInv, StackOK, AllIsUp, ChosenOK, Warn, search, event, Alone
  <1>5. TimerComes' /\ RetryOnlyInError' /\ VerdictComes' /\ ControlOnlyInSearch' /\ CountOK'
    BY <1>1, <1>2 DEF CInv, TimerComes, RetryOnlyInError, VerdictComes, ControlOnlyInSearch, CountOK,
       Warn, search, alarms, clocks, Waits
  <1>6. MidiIsLetGo' /\ NothingEnds' /\ ConnectedIsTrue' /\ ToldIsTrue'
    BY <1>1, <1>2 DEF CInv, MidiIsLetGo, NothingEnds, ConnectedIsTrue, ToldIsTrue, OneIsUp, Warn,
       search, alarms, session, Alone, OfPorts, TellsAtOnce
  <1> QED  BY <1>3, <1>4, <1>5, <1>6 DEF CInv

LEMMA RetryKeeps == CInv /\ Retry => CInv'
  <1> SUFFICES ASSUME CInv, Retry PROVE CInv'
    OBVIOUS
  <1> DEFINE s == <<>>
  <1>1. /\ StackOK /\ work # <<>> /\ Head(work) = <<"retry", "timer">> /\ Next_(s)
        /\ s \in Seq(Item) /\ Range(s) = {}
    BY NoItem DEF CInv, Retry, Doing
  <1> HIDE DEF s
  <1>2. /\ work' \in Seq(Item) /\ Head(work) = work[1]
        /\ Items = {Head(work)} \cup Rest /\ Items' = Rest /\ Rest \cap Alone = {}
    BY <1>1, Turning
  <1>3. CTypeOK'
    BY <1>2 DEF CInv, CTypeOK, Retry, search, alarms, clocks, session, Item
  <1>4. StackOK' /\ AllIsUp' /\ ChosenOK'
    BY <1>1, <1>2 DEF CInv, StackOK, AllIsUp, ChosenOK, Retry, search, event, Alone
  <1>5. TimerComes' /\ RetryOnlyInError' /\ VerdictComes' /\ ControlOnlyInSearch' /\ CountOK'
    BY <1>1, <1>2 DEF CInv, TimerComes, RetryOnlyInError, VerdictComes, ControlOnlyInSearch, CountOK,
       Retry, search, alarms, clocks, Waits, Awaits
  <1>6. MidiIsLetGo' /\ NothingEnds' /\ ConnectedIsTrue' /\ ToldIsTrue'
    BY <1>1, <1>2 DEF CInv, MidiIsLetGo, NothingEnds, ConnectedIsTrue, ToldIsTrue, OneIsUp, Retry,
       search, alarms, session, Alone, OfPorts, TellsAtOnce
  <1> QED  BY <1>3, <1>4, <1>5, <1>6 DEF CInv

\* The calls under way touch nothing but the stack.
LEMMA AnswerKeeps == CInv /\ Answer => CInv'
  <1> SUFFICES ASSUME CInv, Answer PROVE CInv'
    OBVIOUS
  <1>1. /\ StackOK /\ work # <<>> /\ Head(work) = <<"answer", "ck">>
        /\ UNCHANGED <<state, search, alarms, clocks, session>>
    BY DEF CInv, Answer, Doing
  <1>2. PICK s \in {<<>>, <<NetworkError>>} : Next_(s)
    BY DEF Answer
  <1>3. s \in Seq(Item) /\ Range(s) \subseteq {NetworkError} /\ (s # <<>> => s[1] = NetworkError)
    <2>1. CASE s = <<>>
      BY <2>1, NoItem
    <2>2. CASE s = <<NetworkError>>
      BY <2>2, OneItem, IsItem
    <2> QED  BY <1>2, <2>1, <2>2
  <1>4. /\ work' \in Seq(Item) /\ Head(work) = work[1] /\ Items = {Head(work)} \cup Rest
        /\ Items' = Range(s) \cup Rest /\ Rest \cap Alone = {}
        /\ s # <<>> => work' # <<>> /\ work'[1] = s[1]
    BY <1>1, <1>2, <1>3, Turning
  <1>5. Head(work) \notin Alone /\ NetworkError \notin Alone
    BY <1>1 DEF Alone, event, NetworkError, OfPorts
  <1>6. StackOK' /\ CTypeOK'
    BY <1>1, <1>3, <1>4, <1>5 DEF CInv, StackOK, CTypeOK, search, alarms, clocks, session, Item
  <1>7. TimerComes' /\ RetryOnlyInError' /\ VerdictComes' /\ ControlOnlyInSearch' /\ CountOK'
        /\ ChosenOK'
    BY <1>1, <1>3, <1>4 DEF CInv, TimerComes, RetryOnlyInError, VerdictComes, ControlOnlyInSearch,
       CountOK, ChosenOK, search, alarms, clocks, Waits, NetworkError, event
  <1>8. MidiIsLetGo' /\ NothingEnds' /\ ConnectedIsTrue' /\ ToldIsTrue' /\ AllIsUp'
    BY <1>1, <1>3, <1>4 DEF CInv, MidiIsLetGo, NothingEnds, ConnectedIsTrue, ToldIsTrue, OneIsUp,
       AllIsUp, alarms, session, event, OfPorts, TellsAtOnce, NetworkError
  <1> QED  BY <1>6, <1>7, <1>8 DEF CInv

LEMMA DisconnectPortKeeps == ASSUME NEW p \in Port PROVE CInv /\ DisconnectPort(p) => CInv'
  <1> SUFFICES ASSUME CInv, DisconnectPort(p) PROVE CInv'
    OBVIOUS
  <1> DEFINE s == IF p \in peer.st THEN << <<"goodbye", p>> >> ELSE <<>>
  <1>1. /\ StackOK /\ work # <<>> /\ Head(work) = <<"disconnect", p>>
        /\ Next_(s) /\ UNCHANGED <<state, search, alarms, clocks, session>>
    BY DEF CInv, DisconnectPort, Doing
  <1>2. /\ s \in Seq(Item) /\ Range(s) \subseteq {<<"goodbye", p>>}
        /\ p \in peer.st => s # <<>> /\ s[1] = <<"goodbye", p>>
        /\ p \notin peer.st => s = <<>>
    <2>1. CASE p \in peer.st
      BY <2>1, OneItem, IsItem
    <2>2. CASE p \notin peer.st
      BY <2>2, NoItem
    <2> QED  BY <2>1, <2>2
  <1> HIDE DEF s
  <1>3. /\ work' \in Seq(Item) /\ Head(work) = work[1] /\ Items = {Head(work)} \cup Rest
        /\ Items' = Range(s) \cup Rest /\ Rest \cap Alone = {}
        /\ s # <<>> => work' # <<>> /\ work'[1] = s[1]
        /\ Len(work) > 1 /\ s = <<>> => work' # <<>> /\ work'[1] = work[2]
    BY <1>1, <1>2, Turning
  <1>4. Head(work) \notin Alone /\ <<"goodbye", p>> \notin Alone
    BY <1>1 DEF Alone, event, OfPorts
  <1>5. StackOK' /\ CTypeOK'
    BY <1>1, <1>2, <1>3, <1>4 DEF CInv, StackOK, CTypeOK, search, alarms, clocks, session, Item
  <1>6. TimerComes' /\ RetryOnlyInError' /\ VerdictComes' /\ ControlOnlyInSearch' /\ CountOK'
        /\ ChosenOK'
    BY <1>1, <1>2, <1>3 DEF CInv, TimerComes, RetryOnlyInError, VerdictComes, ControlOnlyInSearch,
       CountOK, ChosenOK, search, alarms, clocks, Waits, event
  <1>7. NothingEnds' /\ ConnectedIsTrue' /\ ToldIsTrue' /\ AllIsUp'
    BY <1>1, <1>2, <1>3 DEF CInv, NothingEnds, ConnectedIsTrue, ToldIsTrue, OneIsUp,
       AllIsUp, alarms, session, event, OfPorts
  <1>8. MidiIsLetGo'
    <2>1. CASE p = "control"
      BY <1>1, <1>2, <1>3, <2>1 DEF CInv, MidiIsLetGo, NothingEnds, OneIsUp, alarms, session, TellsAtOnce
    <2>2. CASE p = "midi"
      <3> SUFFICES ASSUME "midi" \in calls PROVE MidiIsLetGo'
        BY <1>1 DEF MidiIsLetGo, alarms
      <3>1. state # "ConnectMidi" /\ ~TellsAtOnce
        BY <1>1, <1>3, <2>2 DEF CInv, NothingEnds, TellsAtOnce
      <3>2. OneIsUp /\ Len(work) > 1 /\ work[2] = <<"disconnect", "control">> /\ calls = {"midi"}
        BY <3>1 DEF CInv, MidiIsLetGo
      <3>3. work' # <<>> /\ work'[1] = <<"disconnect", "control">>
        BY <3>2, <2>2, <1>2, <1>3 DEF OneIsUp
      <3>4. TellsAtOnce' /\ state \in {"DisconnectControl", "Error"}
        BY <3>1, <3>2, <3>3, <1>1 DEF CInv, MidiIsLetGo, TellsAtOnce, OneIsUp, session
      <3> QED  BY <1>1, <3>2, <3>3, <3>4 DEF MidiIsLetGo, alarms
    <2> QED  BY <2>1, <2>2 DEF Port
  <1> QED  BY <1>5, <1>6, <1>7, <1>8 DEF CInv

LEMMA GoodbyeKeeps == ASSUME NEW p \in Port PROVE CInv /\ Goodbye(p) => CInv'
  <1> SUFFICES ASSUME CInv, Goodbye(p) PROVE CInv'
    OBVIOUS
  <1>1. /\ StackOK /\ work # <<>> /\ Head(work) = <<"goodbye", p>>
        /\ UNCHANGED <<state, search, alarms, clocks, session>>
    BY DEF CInv, Goodbye, Doing
  <1>2. PICK s \in {<< <<"ended", p>> >>, <<NetworkError, <<"ended", p>> >>} : Next_(s)
    BY DEF Goodbye
  <1>3. /\ s \in Seq(Item) /\ Range(s) \subseteq {NetworkError, <<"ended", p>>}
        /\ s # <<>> /\ s[1] \in {NetworkError, <<"ended", p>>}
    <2>1. CASE s = << <<"ended", p>> >>
      BY <2>1, OneItem, IsItem
    <2>2. CASE s = <<NetworkError, <<"ended", p>> >>
      BY <2>2, TwoItems, IsItem
    <2> QED  BY <1>2, <2>1, <2>2
  <1>4. /\ work' \in Seq(Item) /\ Head(work) = work[1] /\ Items = {Head(work)} \cup Rest
        /\ Items' = Range(s) \cup Rest /\ Rest \cap Alone = {}
        /\ work' # <<>> /\ work'[1] = s[1]
    BY <1>1, <1>2, <1>3, Turning
  <1>5. Head(work) \notin Alone /\ NetworkError \notin Alone /\ <<"ended", p>> \notin Alone
    BY <1>1 DEF Alone, event, NetworkError, OfPorts
  <1>6. StackOK' /\ CTypeOK'
    BY <1>1, <1>3, <1>4, <1>5 DEF CInv, StackOK, CTypeOK, search, alarms, clocks, session, Item
  <1>7. TimerComes' /\ RetryOnlyInError' /\ VerdictComes' /\ ControlOnlyInSearch' /\ CountOK'
        /\ ChosenOK'
    BY <1>1, <1>3, <1>4 DEF CInv, TimerComes, RetryOnlyInError, VerdictComes, ControlOnlyInSearch,
       CountOK, ChosenOK, search, alarms, clocks, Waits, NetworkError, event
  <1>8. NothingEnds' /\ ConnectedIsTrue' /\ ToldIsTrue' /\ AllIsUp'
    BY <1>1, <1>3, <1>4 DEF CInv, NothingEnds, ConnectedIsTrue, ToldIsTrue, OneIsUp,
       AllIsUp, alarms, session, event, OfPorts, NetworkError
  <1>9. MidiIsLetGo'
    BY <1>1, <1>3, <1>4 DEF CInv, MidiIsLetGo, NothingEnds, OneIsUp, alarms, session, TellsAtOnce,
       NetworkError
  <1> QED  BY <1>6, <1>7, <1>8, <1>9 DEF CInv

\* The ck_event callbacks.
LEMMA TellCkKeeps == CInv /\ TellCk => CInv'
  <1> SUFFICES ASSUME CInv, TellCk PROVE CInv'
    OBVIOUS
  <1>1. /\ StackOK /\ work # <<>> /\ Head(work) = <<"ck", "peer">>
        /\ UNCHANGED <<state, search, calls, clocks, session>>
    BY DEF CInv, TellCk, Doing
  <1>2. PICK s : /\ Next_(s) /\ s \in Seq(Item)
                 /\ \/ s = <<>> /\ timer' = timer /\ Range(s) = {}
                    \/ \E e \in {"LatencyMeasured", "WaitSendCK"} :
                          /\ Range(s) = {event(e), <<"warn", "ck">>}
                          /\ s # <<>> /\ s[1] = event(e) /\ timer' = "none"
                          /\ e = "WaitSendCK" /\ ck = "short" => ~(ckCount >= ShortCks)
    <2>1. CASE ck \in {"short", "long"}
      <3> DEFINE e == IF ck = "short" /\ ckCount >= ShortCks THEN "LatencyMeasured" ELSE "WaitSendCK"
      <3>1. e \in {"LatencyMeasured", "WaitSendCK"} /\ e \in Trigger
            /\ (e = "WaitSendCK" /\ ck = "short" => ~(ckCount >= ShortCks))
        BY DEF Trigger
      <3>2. Next_(<<event(e), <<"warn", "ck">>>>) /\ timer' = "none"
        BY <2>1 DEF TellCk
      <3> HIDE DEF e
      <3> QED  BY <3>1, <3>2, TwoItems, IsItem
    <2>2. CASE ck \notin {"short", "long"}
      BY <2>2, NoItem DEF TellCk
    <2> QED  BY <2>1, <2>2
  <1>3. /\ work' \in Seq(Item) /\ Head(work) = work[1] /\ Items = {Head(work)} \cup Rest
        /\ Items' = Range(s) \cup Rest /\ Rest \cap Alone = {}
        /\ s # <<>> => work' # <<>> /\ work'[1] = s[1]
    BY <1>1, <1>2, Turning
  <1>4. /\ Head(work) \notin Alone /\ Range(s) \cap Alone = {}
        /\ \A x \in Range(s) : x \in {event("LatencyMeasured"), event("WaitSendCK"), <<"warn", "ck">>}
        /\ \A x \in Range(s) : x[1] \in {"event", "warn"}
        /\ event("NextReady") \notin Range(s) /\ event("Resolved") \notin Range(s)
    BY <1>1, <1>2 DEF Alone, event, OfPorts
  <1>5. StackOK' /\ CTypeOK'
    BY <1>1, <1>2, <1>3, <1>4 DEF CInv, StackOK, CTypeOK, search, clocks, session
  <1>6. TimerComes' /\ RetryOnlyInError' /\ VerdictComes' /\ ControlOnlyInSearch' /\ ChosenOK'
    <2>1. TimerComes'
      <3>1. CASE timer' = timer /\ Range(s) = {}
        BY <3>1, <1>1, <1>3 DEF CInv, TimerComes, Waits
      <3>2. CASE \E e \in {"LatencyMeasured", "WaitSendCK"} : Range(s) = {event(e), <<"warn", "ck">>}
        <4>1. PICK e \in {"LatencyMeasured", "WaitSendCK"} : event(e) \in Items'
          BY <3>2, <1>3
        <4>2. event(e)[1] = "event"
          BY DEF event
        <4> QED  BY <4>1, <4>2 DEF TimerComes
      <3> QED  BY <3>1, <3>2, <1>2
    <2>2. RetryOnlyInError'
      BY <1>1, <1>3, <1>4 DEF CInv, RetryOnlyInError, Alone
    <2>3. VerdictComes' /\ ControlOnlyInSearch'
      BY <1>1, <1>3 DEF CInv, VerdictComes, ControlOnlyInSearch
    <2>4. ChosenOK'
      BY <1>1, <1>3, <1>4 DEF CInv, ChosenOK, search
    <2> QED  BY <2>1, <2>2, <2>3, <2>4
  <1>7. CountOK'
    BY <1>1, <1>2, <1>3, <1>4, ClientAssumption DEF CInv, CTypeOK, CountOK, clocks, event
  <1>8. NothingEnds' /\ ConnectedIsTrue' /\ ToldIsTrue' /\ AllIsUp'
    <2>1. event("Connected") \notin Items' /\ \A s1 \in OfPorts : <<"tell", s1>> \notin Items'
      BY <1>3, <1>4 DEF Alone
    <2>2. state # "AllConnected"
      BY <1>1 DEF CInv, AllIsUp, event
    <2>3. NothingEnds'
      BY <1>1, <1>3, <1>4 DEF CInv, NothingEnds
    <2> QED  BY <1>1, <2>1, <2>2, <2>3 DEF ConnectedIsTrue, ToldIsTrue, AllIsUp
  <1>9. MidiIsLetGo'
    BY <1>1, <1>3, <1>4 DEF CInv, MidiIsLetGo, OneIsUp, session, TellsAtOnce
  <1> QED  BY <1>5, <1>6, <1>7, <1>8, <1>9 DEF CInv

\* send_event after a goodbye.
LEMMA EndedKeeps == ASSUME NEW p \in Port PROVE CInv /\ Ended(p) => CInv'
  <1> SUFFICES ASSUME CInv, Ended(p) PROVE CInv'
    OBVIOUS
  <1>1. /\ StackOK /\ work # <<>> /\ Head(work) = <<"ended", p>>
        /\ peer' = [peer EXCEPT !.st = @ \ {p}]
        /\ UNCHANGED <<state, search, alarms, clocks, opened, told, asked>>
    BY DEF CInv, Ended, Doing, SendGoodbye, Result
  <1>2. PICK s : /\ Next_(s) /\ s \in Seq(Item)
                 /\ Range(s) \subseteq {<<"tell", "DISCONNECT">>}
                 /\ peer.st \ {p} = {} => s # <<>> /\ s[1] = <<"tell", "DISCONNECT">>
    <2> DEFINE r == SendGoodbye(peer, p)
               s == [k \in DOMAIN r.events |-> <<"tell", r.events[k]>>]
    <2>1. Next_(s)
      BY DEF Ended
    <2>2. CASE peer.st \ {p} = {}
      <3>1. r.events = <<"DISCONNECT">>
        BY <2>2, <1>1 DEF SendGoodbye, Result, CInv, CTypeOK, Peer
      <3>2. s = << <<"tell", "DISCONNECT">> >>
        BY <3>1
      <3> HIDE DEF s
      <3>3. <<"tell", "DISCONNECT">> \in Item
        BY IsItem DEF Status, Event
      <3> QED  BY <2>1, <3>2, <3>3, OneItem
    <2>3. CASE peer.st \ {p} # {}
      <3>1. r.events = <<>>
        BY <2>3, <1>1 DEF SendGoodbye, Result, CInv, CTypeOK, Peer
      <3>2. s = <<>>
        BY <3>1
      <3> HIDE DEF s
      <3> QED  BY <2>1, <2>3, <3>2, NoItem
    <2> QED  BY <2>2, <2>3
  <1>3. /\ work' \in Seq(Item) /\ Head(work) = work[1] /\ Items = {Head(work)} \cup Rest
        /\ Items' = Range(s) \cup Rest /\ Rest \cap Alone = {}
        /\ s # <<>> => work' # <<>> /\ work'[1] = s[1]
    BY <1>1, <1>2, Turning
  <1>4. Head(work) \notin Alone /\ <<"tell", "DISCONNECT">> \notin Alone
    BY <1>1 DEF Alone, event, OfPorts
  <1>5. peer' \in Peer
    BY <1>1 DEF CInv, CTypeOK, Peer
  <1>6. StackOK' /\ CTypeOK'
    BY <1>1, <1>2, <1>3, <1>4, <1>5 DEF CInv, StackOK, CTypeOK, search, alarms, clocks
  <1>7. TimerComes' /\ RetryOnlyInError' /\ VerdictComes' /\ ControlOnlyInSearch' /\ CountOK'
        /\ ChosenOK'
    BY <1>1, <1>2, <1>3 DEF CInv, TimerComes, RetryOnlyInError, VerdictComes, ControlOnlyInSearch,
       CountOK, ChosenOK, search, alarms, clocks, Waits, event
  <1>8. NothingEnds' /\ ConnectedIsTrue' /\ ToldIsTrue' /\ AllIsUp'
    <2>1. event("Connected") \notin Items' /\ \A s1 \in OfPorts : <<"tell", s1>> \notin Items'
      BY <1>2, <1>3, <1>4 DEF Alone
    <2>2. state # "AllConnected"
      BY <1>1 DEF CInv, AllIsUp, event
    <2> QED  BY <1>1, <1>2, <1>3, <2>1, <2>2 DEF CInv, NothingEnds, ConnectedIsTrue, ToldIsTrue, AllIsUp
  <1>9. MidiIsLetGo'
    <2> SUFFICES ASSUME "midi" \in calls PROVE MidiIsLetGo'
      BY <1>1 DEF MidiIsLetGo, alarms
    <2>1. state # "ConnectMidi" /\ work[1] = <<"ended", p>>
      BY <1>1, <1>3 DEF CInv, NothingEnds
    <2>2. p = "control" /\ OneIsUp /\ calls = {"midi"} /\ state \in {"DisconnectControl", "Error"}
      BY <2>1 DEF CInv, MidiIsLetGo, TellsAtOnce
    <2>3. work' # <<>> /\ work'[1] = <<"tell", "DISCONNECT">>
      BY <2>2, <1>2, <1>3 DEF OneIsUp
    <2> QED  BY <1>1, <2>2, <2>3 DEF MidiIsLetGo, TellsAtOnce, alarms
  <1> QED  BY <1>6, <1>7, <1>8, <1>9 DEF CInv

\* A status is told: the callback that waits, if any, makes its verdict.
LEMMA TellKeeps == ASSUME NEW t \in Status PROVE CInv /\ Tell(t) => CInv'
  <1> SUFFICES ASSUME CInv, Tell(t) PROVE CInv'
    OBVIOUS
  <1>1. /\ StackOK /\ work # <<>> /\ Head(work) = <<"tell", t>> /\ <<"tell", t>> \in Items
        /\ calls' = {} /\ told' = t
        /\ UNCHANGED <<state, search, timer, clocks, opened, peer, asked>>
    <2>1. StackOK /\ work # <<>> /\ Head(work) = <<"tell", t>>
      BY DEF CInv, Tell, Doing
    <2>2. work[1] = <<"tell", t>> /\ 1 \in DOMAIN work
      BY <2>1, HeadTailProperties, LenProperties, EmptySeq DEF StackOK
    <2> QED  BY <2>1, <2>2 DEF Tell, Items, Range
  <1>2. "midi" \in calls => calls = {"midi"} /\ state \in {"ConnectMidi", "DisconnectControl", "Error"}
    BY DEF CInv, MidiIsLetGo
  <1>3. PICK s : /\ Next_(s) /\ s \in Seq(Item)
                 /\ \/ calls = {} /\ s = <<>> /\ Range(s) = {}
                    \/ \E e \in {"Connected", "ConnectFailed"} :
                          /\ s = <<event(e)>> /\ Range(s) = {event(e)}
                          /\ e = "Connected" =>
                                \/ "control" \in calls /\ t = "CONTROL_CONNECTED"
                                \/ "midi" \in calls /\ t = "CONNECTED"
    <2> DEFINE vc == Verdict("CONTROL_CONNECTED", t)
               vm == Verdict("CONNECTED", t)
    <2>1. /\ vc = event(IF t = "CONTROL_CONNECTED" THEN "Connected" ELSE "ConnectFailed")
          /\ vm = event(IF t = "CONNECTED" THEN "Connected" ELSE "ConnectFailed")
          /\ vc \in Item /\ vm \in Item
      BY IsItem DEF Verdict, Trigger
    <2>2. Next_((IF "control" \in calls THEN <<vc>> ELSE <<>>)
                \o (IF "midi" \in calls THEN <<vm>> ELSE <<>>))
      BY DEF Tell
    <2> HIDE DEF vc, vm
    <2>3. CASE "midi" \in calls
      <3>1. Next_(<<vm>>)
        BY <2>2, <2>3, <1>2, ConcatEmptySeq, OneItem, <2>1
      <3> QED  BY <3>1, <2>3, <2>1, OneItem
    <2>4. CASE "control" \in calls
      <3>1. Next_(<<vc>>)
        <4>1. "midi" \notin calls
          BY <2>4, <1>2
        <4> QED  BY <2>2, <2>4, <4>1, ConcatEmptySeq, OneItem, <2>1
      <3> QED  BY <3>1, <2>4, <2>1, OneItem
    <2>5. CASE calls = {}
      <3>1. Next_(<<>>)
        BY <2>2, <2>5, ConcatEmptySeq, NoItem
      <3> QED  BY <3>1, <2>5, NoItem
    <2> QED  BY <2>3, <2>4, <2>5 DEF CInv, CTypeOK, Port
  <1>4. /\ work' \in Seq(Item) /\ Head(work) = work[1] /\ Items = {Head(work)} \cup Rest
        /\ Items' = Range(s) \cup Rest /\ Rest \cap Alone = {}
        /\ Head(work) \in Alone => Rest = {} /\ work' = s
    BY <1>1, <1>3, Turning
  <1>5. /\ event("Connected") \in Range(s) =>
              /\ Head(work) \in Alone /\ t \in OfPorts
              /\ \/ "control" \in calls /\ t = "CONTROL_CONNECTED"
                 \/ "midi" \in calls /\ t = "CONNECTED"
        /\ \A x \in Range(s) : x \in {event("Connected"), event("ConnectFailed")}
        /\ \A x \in Range(s) : x[1] = "event"
        /\ event("ConnectFailed") \notin Alone
    BY <1>1, <1>3 DEF Alone, event, OfPorts
  <1>6. StackOK' /\ CTypeOK'
    <2>1. ASSUME NEW x \in Items' \cap Alone PROVE work' = <<x>>
      BY <1>3, <1>4, <1>5
    <2> QED  BY <1>1, <1>4, <2>1 DEF CInv, StackOK, CTypeOK, search, clocks
  <1>7. event("Connect") \notin Range(s) /\ event("NextReady") \notin Range(s)
        /\ event("Resolved") \notin Range(s) /\ event("WaitSendCK") \notin Range(s)
        /\ <<"warn", "ck">> \notin Range(s)
    BY <1>5 DEF event
  <1>8. TimerComes' /\ RetryOnlyInError' /\ VerdictComes' /\ ControlOnlyInSearch'
    <2>1. TimerComes'
      BY <1>1, <1>4 DEF CInv, TimerComes, Waits
    <2>2. RetryOnlyInError'
      BY <1>1, <1>4, <1>5, <1>7 DEF CInv, RetryOnlyInError
    <2>3. VerdictComes'
      BY <1>1, <1>3, <1>4, <1>5 DEF CInv, VerdictComes, event
    <2>4. ControlOnlyInSearch'
      BY <1>1 DEF ControlOnlyInSearch
    <2> QED  BY <2>1, <2>2, <2>3, <2>4
  <1>9. ChosenOK' /\ CountOK'
    BY <1>1, <1>4, <1>5, <1>7 DEF CInv, ChosenOK, CountOK, search, clocks
  <1>10. NothingEnds' /\ MidiIsLetGo' /\ AllIsUp'
    BY <1>1, <1>4, <1>5 DEF CInv, NothingEnds, MidiIsLetGo, AllIsUp, event
  <1>11. ToldIsTrue'
    BY <1>1, <1>4, <1>5 DEF CInv, ToldIsTrue
  <1>12. ConnectedIsTrue'
    <2> SUFFICES ASSUME event("Connected") \in Items' PROVE ConnectedIsTrue'
      BY DEF ConnectedIsTrue
    <2>1. /\ t \in OfPorts
          /\ \/ "control" \in calls /\ t = "CONTROL_CONNECTED"
             \/ "midi" \in calls /\ t = "CONNECTED"
      BY <1>4, <1>5 DEF Alone
    <2>2. t = StatusEvent(peer.st) /\ peer.st \in SUBSET Port
      BY <1>1, <2>1 DEF CInv, ToldIsTrue, CTypeOK, Peer
    <2>3. t = "CONTROL_CONNECTED" => OneIsUp
      BY <2>2 DEF StatusEvent, Port, OneIsUp
    <2>4. t = "CONNECTED" => IsConnected(peer)
      BY <2>2 DEF StatusEvent, Port, IsConnected
    <2>5. "control" \in calls => state \in Search
      BY DEF CInv, ControlOnlyInSearch
    <2> QED
      BY <1>1, <1>2, <2>1, <2>3, <2>4, <2>5 DEF ConnectedIsTrue, Search, OneIsUp, IsConnected
  <1> QED  BY <1>6, <1>8, <1>9, <1>10, <1>11, <1>12 DEF CInv

\* What holds of the state an event leads to before its entry function has run.
LEMMA EntryFrom ==
  ASSUME CInv, NEW X, Enters(X)
  PROVE  /\ X \in State \ {"WaitToStart"} /\ state' = X
         /\ StackOK /\ work # <<>> /\ Head(work)[1] = "event"
         /\ "midi" \in calls => /\ calls = {"midi"} /\ OneIsUp
                                /\ X \in {"DisconnectControl", "Error"}
         /\ "control" \in calls => X \in Search
         /\ chosen = 0 => X \in NotYet
         /\ addr \notin Addr => X \in NotYet \cup {"ResolveNextIpPort"}
         /\ X = "ConnectMidi" => OneIsUp /\ calls = {} /\ Head(work) \in Alone
         /\ X = "AllConnected" => /\ IsConnected(peer) /\ told = "CONNECTED" /\ calls = {}
                                  /\ Head(work) \in Alone
         /\ X = "SendCkShort" => ckCount < ShortCks /\ Head(work) \in Alone
         /\ X = "WaitSendCkShort" => ckCount < ShortCks
         /\ X = "TryConnectToAllKnownDNS" => Head(work) \in Alone
         /\ \A x \in Rest : x[1] = "retry" => X = "Error"
  <1>1. PICK e \in Trigger :
            /\ work # <<>> /\ Head(work) = event(e) /\ state' = X
            /\ X # "Error" => <<state, e, X>> \in Arrows
    BY Entering DEF CInv
  <1>2. StackOK /\ Head(work) = work[1] /\ Head(work) \in Items /\ Rest \subseteq Items
        /\ Rest \cap Alone = {}
    BY <1>1, HeadAndRest DEF CInv
  <1>3. event(e) \in Items /\ event(e)[1] = "event"
    BY <1>1, <1>2 DEF event
  <1>4. X \in State \ {"WaitToStart"}
    BY <1>1 DEF Arrows, State, CkStates
  <1>5. "midi" \in calls => /\ calls = {"midi"} /\ OneIsUp /\ X \in {"DisconnectControl", "Error"}
    <2> SUFFICES ASSUME "midi" \in calls
                 PROVE  calls = {"midi"} /\ OneIsUp /\ X \in {"DisconnectControl", "Error"}
      OBVIOUS
    <2>1. work[1][1] = "event" /\ work[1] \notin {<<"disconnect", "midi">>, <<"disconnect", "control">>,
                                    <<"goodbye", "control">>, <<"ended", "control">>}
      BY <1>1, <1>2, <1>3
    <2>2. state = "ConnectMidi" /\ OneIsUp /\ calls = {"midi"}
      BY <2>1 DEF CInv, MidiIsLetGo, TellsAtOnce
    <2>3. e # "Connected"
      BY <1>3, <2>2 DEF CInv, ConnectedIsTrue
    <2> QED  BY <1>1, <2>2, <2>3 DEF Arrows
  <1>6. "control" \in calls => X \in Search
    <2> SUFFICES ASSUME "control" \in calls PROVE X \in Search
      OBVIOUS
    <2>1. state \in Search /\ e # "Connected"
      BY <1>3 DEF CInv, ConnectedIsTrue, ControlOnlyInSearch
    <2> QED  BY <1>1, <2>1 DEF Arrows, Search
  <1>7. chosen = 0 => X \in NotYet
    <2> SUFFICES ASSUME chosen = 0 PROVE X \in NotYet
      OBVIOUS
    <2>1. state \in NotYet /\ e # "NextReady"
      BY <1>3 DEF CInv, ChosenOK
    <2> QED  BY <1>1, <2>1 DEF Arrows, NotYet
  <1>8. addr \notin Addr => X \in NotYet \cup {"ResolveNextIpPort"}
    <2> SUFFICES ASSUME addr \notin Addr PROVE X \in NotYet \cup {"ResolveNextIpPort"}
      OBVIOUS
    <2>1. state \in NotYet \cup {"ResolveNextIpPort"} /\ e # "Resolved"
      BY <1>3 DEF CInv, ChosenOK
    <2> QED  BY <1>1, <2>1 DEF Arrows, NotYet
  <1>9. X = "ConnectMidi" => OneIsUp /\ calls = {} /\ Head(work) \in Alone
    <2> SUFFICES ASSUME X = "ConnectMidi" PROVE OneIsUp /\ calls = {} /\ Head(work) \in Alone
      OBVIOUS
    <2>1. state = "ConnectControl" /\ e = "Connected"
      BY <1>1 DEF Arrows
    <2> QED  BY <1>1, <1>3, <2>1 DEF CInv, ConnectedIsTrue, Alone
  <1>10. X = "AllConnected" => /\ IsConnected(peer) /\ told = "CONNECTED" /\ calls = {}
                               /\ Head(work) \in Alone
    <2> SUFFICES ASSUME X = "AllConnected"
                 PROVE  /\ IsConnected(peer) /\ told = "CONNECTED" /\ calls = {}
                        /\ Head(work) \in Alone
      OBVIOUS
    <2>1. state = "ConnectMidi" /\ e = "Connected"
      BY <1>1 DEF Arrows
    <2> QED  BY <1>1, <1>3, <2>1 DEF CInv, ConnectedIsTrue, Alone
  <1>11. X = "SendCkShort" => ckCount < ShortCks /\ Head(work) \in Alone
    <2> SUFFICES ASSUME X = "SendCkShort" PROVE ckCount < ShortCks /\ Head(work) \in Alone
      OBVIOUS
    <2>1. state \in {"AllConnected", "WaitSendCkShort"} /\ e = "SendCK"
      BY <1>1 DEF Arrows
    <2> QED  BY <1>1, <2>1 DEF CInv, CountOK, Alone
  <1>12. X = "WaitSendCkShort" => ckCount < ShortCks
    <2> SUFFICES ASSUME X = "WaitSendCkShort" PROVE ckCount < ShortCks
      OBVIOUS
    <2>1. state = "SendCkShort" /\ e = "WaitSendCK"
      BY <1>1 DEF Arrows
    <2> QED  BY <1>3, <2>1 DEF CInv, CountOK
  <1>13. X = "TryConnectToAllKnownDNS" => Head(work) \in Alone
    <2> SUFFICES ASSUME X = "TryConnectToAllKnownDNS" PROVE Head(work) \in Alone
      OBVIOUS
    <2>1. e = "Connect"
      BY <1>1 DEF Arrows
    <2> QED  BY <1>1, <2>1 DEF Alone
  <1>14. ASSUME NEW x \in Rest, x[1] = "retry" PROVE X = "Error"
    <2>1. state = "Error" /\ e # "Connect"
      BY <1>2, <1>3, <1>14 DEF CInv, RetryOnlyInError
    <2> QED  BY <1>1, <2>1 DEF Arrows
  <1> QED  BY <1>1, <1>2, <1>3, <1>4, <1>5, <1>6, <1>7, <1>8, <1>9, <1>10, <1>11, <1>12, <1>13, <1>14

\* The parts that say what items there may be, when an entry function has put s
\* on the stack.
LEMMA EntryStack ==
  ASSUME CInv, NEW X, Enters(X), NEW s \in Seq(Item), Next_(s),
         \A x \in Range(s) \cap Alone : /\ s = <<x>> /\ Head(work) \in Alone
                                        /\ x \in {event("Connect"), event("SendCK")},
         \A x \in Range(s) : x[1] = "retry" => X = "Error" /\ event("Connect") \notin Range(s),
         \A x \in Range(s) : X = "ConnectMidi" => x[1] \in {"event", "tell"}
  PROVE  /\ work' \in Seq(Item) /\ Items' = Range(s) \cup Rest /\ Rest \subseteq Items
         /\ Head(work) \in Alone => Rest = {} /\ work' = s
         /\ s # <<>> => work' # <<>> /\ work'[1] = s[1]
         /\ Len(s) > 1 => Len(work') > 1 /\ work'[2] = s[2]
         /\ StackOK' /\ RetryOnlyInError' /\ NothingEnds' /\ ConnectedIsTrue' /\ ToldIsTrue'
  <1>1. /\ X \in State /\ state' = X /\ StackOK /\ work # <<>>
        /\ \A x \in Rest : x[1] = "retry" => X = "Error"
        /\ X = "ConnectMidi" => Head(work) \in Alone
    BY EntryFrom
  <1>2. /\ work' \in Seq(Item) /\ Items = {Head(work)} \cup Rest
        /\ Items' = Range(s) \cup Rest /\ Rest \cap Alone = {}
        /\ Head(work) \in Alone => Rest = {} /\ work' = s
        /\ s # <<>> => work' # <<>> /\ work'[1] = s[1]
        /\ Len(s) > 1 => Len(work') > 1 /\ work'[2] = s[2]
    BY <1>1, Turning
  <1>3. StackOK'
    <2>1. ASSUME NEW x \in Items' \cap Alone PROVE work' = <<x>>
      BY <1>2
    <2> QED  BY <1>1, <1>2, <2>1 DEF StackOK, State, CkStates
  <1>4. RetryOnlyInError'
    <2> SUFFICES ASSUME NEW x \in Items', x[1] = "retry"
                 PROVE  X = "Error" /\ event("Connect") \notin Items'
      BY <1>1 DEF RetryOnlyInError
    <2>1. event("Connect") \in Alone /\ event("Connect")[1] # "retry"
      BY DEF Alone, event
    <2>2. CASE event("Connect") \in Range(s)
      <3>1. s = <<event("Connect")>> /\ Rest = {}
        BY <2>1, <2>2, <1>2
      <3>2. x \in Range(s)
        BY <3>1, <1>2
      <3> QED  BY <3>2, <2>2
    <2>3. CASE event("Connect") \notin Range(s)
      BY <2>1, <2>3, <1>1, <1>2
    <2> QED  BY <2>2, <2>3
  <1>5. NothingEnds'
    <2> SUFFICES ASSUME X = "ConnectMidi", NEW x \in Items'
                 PROVE  x[1] \notin {"disconnect", "goodbye", "ended", "reset", "close"}
      BY <1>1 DEF NothingEnds
    <2>1. x \in Range(s)
      BY <1>1, <1>2
    <2> QED  BY <2>1
  <1>6. event("Connected") \notin Items' /\ \A t \in OfPorts : <<"tell", t>> \notin Items'
    <2>1. ASSUME NEW x \in Alone, x \in Items' PROVE x \in {event("Connect"), event("SendCK")}
      BY <2>1, <1>2
    <2>2. event("Connected") \in Alone /\ \A t \in OfPorts : <<"tell", t>> \in Alone
      BY DEF Alone
    <2>3. event("Connected") \notin {event("Connect"), event("SendCK")}
      BY DEF event
    <2>4. \A t \in OfPorts : <<"tell", t>> \notin {event("Connect"), event("SendCK")}
      BY DEF event
    <2> QED  BY <2>1, <2>2, <2>3, <2>4
  <1>7. ConnectedIsTrue' /\ ToldIsTrue'
    BY <1>6 DEF ConnectedIsTrue, ToldIsTrue
  <1> QED  BY <1>2, <1>3, <1>4, <1>5, <1>7

\* Items of one kind only: an event of its own, or a failure told.
LEMMA OneEvent ==
  ASSUME NEW e \in Trigger \ {"Connected", "Connect", "SendCK"}
  PROVE  /\ <<event(e)>> \in Seq(Item) /\ Range(<<event(e)>>) = {event(e)}
         /\ event(e) \notin Alone /\ event(e)[1] = "event"
  <1>1. <<event(e)>> \in Seq(Item) /\ Range(<<event(e)>>) = {event(e)}
    BY OneItem, IsItem
  <1>2. event(e) \notin Alone /\ event(e)[1] = "event"
    BY DEF event, Alone
  <1> QED  BY <1>1, <1>2

LEMMA PrepareNextDNSKeeps == CInv /\ PrepareNextDNS => CInv'
  <1> SUFFICES ASSUME CInv, PrepareNextDNS PROVE CInv'
    OBVIOUS
  <1> DEFINE X == "PrepareNextDNS"
             e == IF pending = <<>> THEN "ConnectListExhausted" ELSE "NextReady"
             s == <<event(e)>>
  <1>1. /\ Enters(X) /\ Next_(s) /\ UNCHANGED <<known, list, at, addr, alarms, clocks, session>>
        /\ pending = <<>> => UNCHANGED <<pending, chosen>>
        /\ pending # <<>> => chosen' = Last(pending) /\ pending' = Front(pending)
    BY DEF PrepareNextDNS
  <1>2. /\ s \in Seq(Item) /\ Range(s) = {event(e)} /\ event(e) \notin Alone
        /\ event(e)[1] = "event" /\ event(e) # event("Resolved")
    BY OneEvent DEF Trigger, event
  <1>3. event(e) = event("NextReady") => pending # <<>>
    BY DEF event
  <1> HIDE DEF s, e
  <1>4. /\ work' \in Seq(Item) /\ Items' = Range(s) \cup Rest /\ Rest \subseteq Items
        /\ StackOK' /\ RetryOnlyInError' /\ NothingEnds' /\ ConnectedIsTrue' /\ ToldIsTrue'
    BY <1>1, <1>2, EntryStack
  <1>5. state' = X /\ "midi" \notin calls /\ (addr \notin Addr => X \in NotYet)
    BY <1>1, EntryFrom DEF NotYet
  <1>6. /\ pending' \in Seq(DOMAIN Endpoints) /\ chosen' \in {0} \cup DOMAIN Endpoints
        /\ pending # <<>> => chosen' # 0
    <2>1. CASE pending = <<>>
      BY <2>1, <1>1 DEF CInv, CTypeOK
    <2>2. CASE pending # <<>>
      <3>1. chosen' \in DOMAIN Endpoints /\ pending' \in Seq(DOMAIN Endpoints)
        BY <2>2, <1>1, LastAndFront DEF CInv, CTypeOK
      <3> QED  BY <3>1, ClientAssumption
    <2> QED  BY <2>1, <2>2
  <1>7. CTypeOK'
    BY <1>1, <1>4, <1>5, <1>6 DEF CInv, CTypeOK, alarms, clocks, session, State
  <1>8. TimerComes' /\ VerdictComes'
    BY <1>2, <1>4, <1>5 DEF TimerComes, VerdictComes
  <1>9. ControlOnlyInSearch' /\ MidiIsLetGo' /\ AllIsUp' /\ CountOK'
    BY <1>1, <1>5 DEF ControlOnlyInSearch, MidiIsLetGo, AllIsUp, CountOK, Search, alarms
  <1>10. ChosenOK'
    BY <1>1, <1>2, <1>3, <1>4, <1>5, <1>6 DEF CInv, ChosenOK, NotYet
  <1> QED  BY <1>4, <1>7, <1>8, <1>9, <1>10 DEF CInv

LEMMA ResolveNextIpPortKeeps == CInv /\ ResolveNextIpPort => CInv'
  <1> SUFFICES ASSUME CInv, ResolveNextIpPort PROVE CInv'
    OBVIOUS
  <1> DEFINE X == "ResolveNextIpPort"
             which == IF list = 0 THEN chosen ELSE list
             place == IF list = 0 THEN 1 ELSE at + 1
             e == IF place \in DOMAIN Endpoints[which] THEN "Resolved" ELSE "ConnectListExhausted"
             s == <<event(e)>>
  <1>1. /\ Enters(X) /\ Next_(s) /\ UNCHANGED <<known, pending, chosen, alarms, clocks, session>>
        /\ e = "Resolved" => /\ place \in DOMAIN Endpoints[which]
                             /\ list' = which /\ at' = place /\ addr' = Endpoints[which][place]
        /\ e # "Resolved" => list' = 0 /\ at' = 0 /\ addr' = addr
    BY DEF ResolveNextIpPort
  <1>2. /\ s \in Seq(Item) /\ Range(s) = {event(e)} /\ event(e) \notin Alone
        /\ event(e)[1] = "event" /\ event(e) # event("NextReady")
        /\ event(e) = event("Resolved") => e = "Resolved"
    BY OneEvent DEF Trigger, event
  <1>3. state' = X /\ "midi" \notin calls /\ chosen # 0
    BY <1>1, EntryFrom DEF NotYet
  <1>4. which \in DOMAIN Endpoints
    BY <1>3 DEF CInv, CTypeOK
  <1>5. e = "Resolved" => addr' \in Addr
    <2>1. Endpoints[which] \in Seq(Addr)
      BY <1>4, ClientAssumption
    <2> QED  BY <1>1, <2>1
  <1> HIDE DEF s, e, which, place
  <1>6. /\ work' \in Seq(Item) /\ Items' = Range(s) \cup Rest /\ Rest \subseteq Items
        /\ StackOK' /\ RetryOnlyInError' /\ NothingEnds' /\ ConnectedIsTrue' /\ ToldIsTrue'
    BY <1>1, <1>2, EntryStack
  <1>7. CTypeOK'
    <2>1. list' \in {0} \cup DOMAIN Endpoints /\ (list' # 0 => at' \in DOMAIN Endpoints[list'])
      BY <1>1, <1>4
    <2>2. addr' \in {0} \cup Addr
      BY <1>1, <1>5 DEF CInv, CTypeOK
    <2> QED  BY <1>1, <1>3, <1>6, <2>1, <2>2 DEF CInv, CTypeOK, alarms, clocks, session, State
  <1>8. TimerComes' /\ VerdictComes'
    BY <1>2, <1>3, <1>6 DEF TimerComes, VerdictComes
  <1>9. ControlOnlyInSearch' /\ MidiIsLetGo' /\ AllIsUp' /\ CountOK'
    BY <1>1, <1>3 DEF ControlOnlyInSearch, MidiIsLetGo, AllIsUp, CountOK, Search, alarms
  <1>10. ChosenOK'
    BY <1>1, <1>2, <1>3, <1>5, <1>6 DEF CInv, ChosenOK, NotYet
  <1> QED  BY <1>6, <1>7, <1>8, <1>9, <1>10 DEF CInv

\* What the poller finds a resting state waiting for.
LEMMA AwaitsIs ==
  /\ DOMAIN Awaits = {"WaitToStart", "ConnectControl", "ConnectMidi", "Error", "SendCkShort",
                      "WaitSendCkShort", "SendCkLong", "WaitSendCkLong"}
  /\ Awaits["WaitToStart"] = "none"
  /\ Awaits["ConnectControl"] = "control" /\ Awaits["ConnectMidi"] = "midi"
  /\ Awaits["SendCkShort"] = "timeout" /\ Awaits["SendCkLong"] = "timeout"
  /\ Awaits["WaitSendCkShort"] = "wait" /\ Awaits["WaitSendCkLong"] = "wait"
  /\ Awaits["Error"] = "retry"
  BY DEF Awaits, CkStates

\* A request leaves in the name of a server with an address.
LEMMA Asking ==
  ASSUME CInv, addr \in Addr, NEW what \in Port \cup {"ck"}, NEW init \in Initiator,
         Sent(what, init) \/ SendFails \/ asked' = asked
  PROVE  asked' \in SUBSET (Ssrc \X (Port \cup {"ck"}) \X Initiator)
  BY ClientAssumption DEF CInv, CTypeOK, Sent, SendFails

\* What a state that sends a request leaves on the stack when nothing fails, or
\* when the packet does not leave.
LEMMA AfterSending ==
  ASSUME NEW s \in {<<>>, <<NetworkError>>}
  PROVE  /\ s \in Seq(Item) /\ Range(s) \subseteq {NetworkError}
         /\ NetworkError \notin Alone /\ NetworkError[1] = "tell"
  <1>1. CASE s = <<>>
    BY <1>1, NoItem DEF NetworkError, Alone, event, OfPorts
  <1>2. CASE s = <<NetworkError>>
    <2>1. s \in Seq(Item) /\ Range(s) \subseteq {NetworkError}
      BY <1>2, OneItem, IsItem
    <2> QED  BY <2>1 DEF NetworkError, Alone, event, OfPorts
  <1> QED  BY <1>1, <1>2

LEMMA ConnectControlKeeps == CInv /\ ConnectControl => CInv'
  <1> SUFFICES ASSUME CInv, ConnectControl PROVE CInv'
    OBVIOUS
  <1> DEFINE X == "ConnectControl"
  <1>1. /\ Enters(X) /\ UNCHANGED <<search, clocks, peer, told>>
        /\ opened' \in {opened \ {"control"}, opened \cup {"control"}}
    BY DEF ConnectControl
  <1>2. state' = X /\ "midi" \notin calls /\ chosen # 0 /\ addr \in Addr
    BY <1>1, EntryFrom DEF NotYet
  <1>3. /\ Sent("control", peer.init) \/ SendFails \/ asked' = asked
        /\ peer.init \in Initiator
    BY DEF ConnectControl, CInv, CTypeOK, Peer
  <1>4. PICK s \in Seq(Item) :
            /\ Next_(s)
            /\ \/ Range(s) = {event("ConnectFailed")} /\ calls' = calls /\ timer' = timer
               \/ Range(s) \subseteq {NetworkError} /\ calls' = calls \cup {"control"} /\ timer' = "control"
    <2>1. CASE Next_(<<event("ConnectFailed")>>) /\ UNCHANGED alarms
      <3>1. "ConnectFailed" \in Trigger \ {"Connected", "Connect", "SendCK"}
        BY DEF Trigger
      <3> QED  BY <2>1, <3>1, OneEvent DEF alarms
    <2>2. CASE /\ calls' = calls \cup {"control"} /\ timer' = "control"
               /\ \E s \in {<<>>, <<NetworkError>>} : Next_(s)
      BY <2>2, AfterSending
    <2> QED  BY <2>1, <2>2 DEF ConnectControl
  <1>5. /\ Range(s) \subseteq {NetworkError, event("ConnectFailed")}
        /\ \A x \in Range(s) : x \notin Alone /\ x[1] \in {"event", "tell"}
        /\ event("Resolved") \notin Range(s) /\ event("NextReady") \notin Range(s)
    BY <1>4 DEF event, NetworkError, Alone, OfPorts
  <1>6. /\ work' \in Seq(Item) /\ Items' = Range(s) \cup Rest /\ Rest \subseteq Items
        /\ StackOK' /\ RetryOnlyInError' /\ NothingEnds' /\ ConnectedIsTrue' /\ ToldIsTrue'
    BY <1>1, <1>4, <1>5, EntryStack
  <1>7. CTypeOK'
    <2>1. asked' \in SUBSET (Ssrc \X (Port \cup {"ck"}) \X Initiator)
      BY <1>2, <1>3, Asking DEF Port
    <2>2. /\ opened' \in SUBSET Port /\ calls' \in SUBSET Port
          /\ timer' \in {"none", "control", "midi", "timeout", "wait", "retry"}
      BY <1>1, <1>4 DEF CInv, CTypeOK, Port
    <2> QED  BY <1>1, <1>2, <1>6, <2>1, <2>2 DEF CInv, CTypeOK, search, clocks, State
  <1>8. TimerComes' /\ VerdictComes'
    <2>1. CASE Range(s) = {event("ConnectFailed")}
      <3>1. event("ConnectFailed") \in Items' /\ event("ConnectFailed")[1] = "event"
        BY <2>1, <1>6 DEF event
      <3> QED  BY <3>1 DEF TimerComes, VerdictComes
    <2>2. CASE calls' = calls \cup {"control"} /\ timer' = "control"
      BY <2>2, <1>2, AwaitsIs DEF TimerComes, VerdictComes, Waits
    <2> QED  BY <1>4, <2>1, <2>2
  <1>9. ControlOnlyInSearch' /\ MidiIsLetGo' /\ AllIsUp' /\ CountOK'
    BY <1>2, <1>4 DEF ControlOnlyInSearch, MidiIsLetGo, AllIsUp, CountOK, Search
  <1>10. ChosenOK'
    BY <1>1, <1>2 DEF ChosenOK, search
  <1> QED  BY <1>6, <1>7, <1>8, <1>9, <1>10 DEF CInv

LEMMA ConnectMidiKeeps == CInv /\ ConnectMidi => CInv'
  <1> SUFFICES ASSUME CInv, ConnectMidi PROVE CInv'
    OBVIOUS
  <1> DEFINE X == "ConnectMidi"
  <1>1. /\ Enters(X) /\ UNCHANGED <<search, clocks, peer, told>>
        /\ opened' \in {opened \ {"midi"}, opened \cup {"midi"}}
    BY DEF ConnectMidi
  <1>2. state' = X /\ calls = {} /\ OneIsUp /\ chosen # 0 /\ addr \in Addr
    BY <1>1, EntryFrom DEF NotYet
  <1>3. /\ Sent("midi", peer.init) \/ SendFails \/ asked' = asked
        /\ peer.init \in Initiator
    BY DEF ConnectMidi, CInv, CTypeOK, Peer
  <1>4. PICK s \in Seq(Item) :
            /\ Next_(s)
            /\ \/ Range(s) = {event("ConnectFailed")} /\ calls' = {} /\ timer' = "none"
               \/ Range(s) \subseteq {NetworkError} /\ calls' = {"midi"} /\ timer' = "midi"
    <2>1. CASE Next_(<<event("ConnectFailed")>>) /\ calls' = calls /\ timer' = "none"
      <3>1. "ConnectFailed" \in Trigger \ {"Connected", "Connect", "SendCK"}
        BY DEF Trigger
      <3> QED  BY <2>1, <3>1, <1>2, OneEvent
    <2>2. CASE /\ calls' = calls \cup {"midi"} /\ timer' = "midi"
               /\ \E s \in {<<>>, <<NetworkError>>} : Next_(s)
      BY <2>2, <1>2, AfterSending
    <2> QED  BY <2>1, <2>2 DEF ConnectMidi
  <1>5. /\ Range(s) \subseteq {NetworkError, event("ConnectFailed")}
        /\ \A x \in Range(s) : x \notin Alone /\ x[1] \in {"event", "tell"}
    BY <1>4 DEF event, NetworkError, Alone, OfPorts
  <1>6. /\ work' \in Seq(Item) /\ Items' = Range(s) \cup Rest
        /\ StackOK' /\ RetryOnlyInError' /\ NothingEnds' /\ ConnectedIsTrue' /\ ToldIsTrue'
    BY <1>1, <1>4, <1>5, EntryStack
  <1>7. CTypeOK'
    <2>1. asked' \in SUBSET (Ssrc \X (Port \cup {"ck"}) \X Initiator)
      BY <1>2, <1>3, Asking DEF Port
    <2>2. /\ opened' \in SUBSET Port /\ calls' \in SUBSET Port
          /\ timer' \in {"none", "control", "midi", "timeout", "wait", "retry"}
      BY <1>1, <1>4 DEF CInv, CTypeOK, Port
    <2> QED  BY <1>1, <1>2, <1>6, <2>1, <2>2 DEF CInv, CTypeOK, search, clocks, State
  <1>8. TimerComes' /\ VerdictComes'
    <2>1. CASE Range(s) = {event("ConnectFailed")}
      <3>1. event("ConnectFailed") \in Items' /\ event("ConnectFailed")[1] = "event"
        BY <2>1, <1>6 DEF event
      <3> QED  BY <3>1 DEF TimerComes, VerdictComes
    <2>2. CASE calls' = {"midi"} /\ timer' = "midi"
      BY <2>2, <1>2, AwaitsIs DEF TimerComes, VerdictComes, Waits
    <2> QED  BY <1>4, <2>1, <2>2
  <1>9. ControlOnlyInSearch' /\ MidiIsLetGo' /\ AllIsUp' /\ CountOK'
    BY <1>1, <1>2, <1>4 DEF ControlOnlyInSearch, MidiIsLetGo, AllIsUp, CountOK, OneIsUp
  <1>10. ChosenOK'
    BY <1>1, <1>2 DEF ChosenOK, search
  <1> QED  BY <1>6, <1>7, <1>8, <1>9, <1>10 DEF CInv

LEMMA SendCkShortKeeps == CInv /\ SendCkShort => CInv'
  <1> SUFFICES ASSUME CInv, SendCkShort PROVE CInv'
    OBVIOUS
  <1> DEFINE X == "SendCkShort"
  <1>1. /\ Enters(X) /\ UNCHANGED <<search, calls, opened, peer, told>>
        /\ timer' = "timeout" /\ ck' = "short" /\ ckCount' = ckCount + 1
    BY DEF SendCkShort, SendCK
  <1>2. /\ state' = X /\ "midi" \notin calls /\ "control" \notin calls /\ chosen # 0 /\ addr \in Addr
        /\ X = "SendCkShort" => ckCount < ShortCks /\ Head(work) \in Alone
    BY <1>1, EntryFrom DEF NotYet, Search
  <1>3. Sent("ck", 0) \/ SendFails \/ asked' = asked
    BY DEF SendCkShort, SendCK
  <1>4. PICK s \in {<<>>, <<NetworkError>>} : Next_(s)
    BY DEF SendCkShort, SendCK
  <1>5. /\ s \in Seq(Item) /\ Range(s) \subseteq {NetworkError}
        /\ NetworkError \notin Alone /\ NetworkError[1] = "tell"
    BY AfterSending
  <1>6. /\ work' \in Seq(Item) /\ Items' = Range(s) \cup Rest /\ Rest \subseteq Items
        /\ Head(work) \in Alone => Rest = {}
        /\ StackOK' /\ RetryOnlyInError' /\ NothingEnds' /\ ConnectedIsTrue' /\ ToldIsTrue'
    BY <1>1, <1>4, <1>5, EntryStack
  <1>7. CTypeOK'
    <2>1. asked' \in SUBSET (Ssrc \X (Port \cup {"ck"}) \X Initiator)
      BY <1>2, <1>3, ZeroAssumption, Asking
    <2>2. ckCount' \in 0..ShortCks
      BY <1>1, <1>2, ClientAssumption DEF CInv, CTypeOK
    <2> QED  BY <1>1, <1>2, <1>6, <2>1, <2>2 DEF CInv, CTypeOK, search, State, CkStates
  <1>8. TimerComes' /\ VerdictComes'
    BY <1>1, <1>2, AwaitsIs DEF TimerComes, VerdictComes, Waits
  <1>9. ControlOnlyInSearch' /\ MidiIsLetGo' /\ AllIsUp'
    BY <1>1, <1>2 DEF ControlOnlyInSearch, MidiIsLetGo, AllIsUp
  <1>10. ChosenOK'
    BY <1>1, <1>2 DEF ChosenOK, search
  <1>11. CountOK'
    <2>1. NetworkError \notin {event("WaitSendCK"), <<"warn", "ck">>}
      BY DEF NetworkError, event
    <2> QED  BY <1>1, <1>2, <1>5, <1>6, <2>1 DEF CountOK
  <1> QED  BY <1>6, <1>7, <1>8, <1>9, <1>10, <1>11 DEF CInv

LEMMA SendCkLongKeeps == CInv /\ SendCkLong => CInv'
  <1> SUFFICES ASSUME CInv, SendCkLong PROVE CInv'
    OBVIOUS
  <1> DEFINE X == "SendCkLong"
  <1>1. /\ Enters(X) /\ UNCHANGED <<search, calls, opened, peer, told>>
        /\ timer' = "timeout" /\ ck' = "long" /\ ckCount' = ckCount
    BY DEF SendCkLong, SendCK
  <1>2. /\ state' = X /\ "midi" \notin calls /\ "control" \notin calls /\ chosen # 0 /\ addr \in Addr
        /\ X = "SendCkShort" => ckCount < ShortCks /\ Head(work) \in Alone
    BY <1>1, EntryFrom DEF NotYet, Search
  <1>3. Sent("ck", 0) \/ SendFails \/ asked' = asked
    BY DEF SendCkLong, SendCK
  <1>4. PICK s \in {<<>>, <<NetworkError>>} : Next_(s)
    BY DEF SendCkLong, SendCK
  <1>5. /\ s \in Seq(Item) /\ Range(s) \subseteq {NetworkError}
        /\ NetworkError \notin Alone /\ NetworkError[1] = "tell"
    BY AfterSending
  <1>6. /\ work' \in Seq(Item) /\ Items' = Range(s) \cup Rest /\ Rest \subseteq Items
        /\ Head(work) \in Alone => Rest = {}
        /\ StackOK' /\ RetryOnlyInError' /\ NothingEnds' /\ ConnectedIsTrue' /\ ToldIsTrue'
    BY <1>1, <1>4, <1>5, EntryStack
  <1>7. CTypeOK'
    <2>1. asked' \in SUBSET (Ssrc \X (Port \cup {"ck"}) \X Initiator)
      BY <1>2, <1>3, ZeroAssumption, Asking
    <2>2. ckCount' \in 0..ShortCks
      BY <1>1, <1>2, ClientAssumption DEF CInv, CTypeOK
    <2> QED  BY <1>1, <1>2, <1>6, <2>1, <2>2 DEF CInv, CTypeOK, search, State, CkStates
  <1>8. TimerComes' /\ VerdictComes'
    BY <1>1, <1>2, AwaitsIs DEF TimerComes, VerdictComes, Waits
  <1>9. ControlOnlyInSearch' /\ MidiIsLetGo' /\ AllIsUp'
    BY <1>1, <1>2 DEF ControlOnlyInSearch, MidiIsLetGo, AllIsUp
  <1>10. ChosenOK'
    BY <1>1, <1>2 DEF ChosenOK, search
  <1>11. CountOK'
    <2>1. NetworkError \notin {event("WaitSendCK"), <<"warn", "ck">>}
      BY DEF NetworkError, event
    <2> QED  BY <1>1, <1>2, <1>5, <1>6, <2>1 DEF CountOK
  <1> QED  BY <1>6, <1>7, <1>8, <1>9, <1>10, <1>11 DEF CInv

LEMMA WaitSendCkShortKeeps == CInv /\ WaitSendCkShort => CInv'
  <1> SUFFICES ASSUME CInv, WaitSendCkShort PROVE CInv'
    OBVIOUS
  <1> DEFINE X == "WaitSendCkShort"
             s == <<>>
  <1>1. /\ Enters(X) /\ Next_(s) /\ timer' = "wait" /\ ck' \in {ck, "none"}
        /\ UNCHANGED <<search, calls, ckCount, session>>
    BY DEF WaitSendCkShort, clocks
  <1>2. /\ state' = X /\ "midi" \notin calls /\ "control" \notin calls /\ chosen # 0 /\ addr \in Addr
        /\ X = "WaitSendCkShort" => ckCount < ShortCks
    BY <1>1, EntryFrom DEF NotYet, Search
  <1>3. s \in Seq(Item) /\ Range(s) = {}
    BY NoItem
  <1> HIDE DEF s
  <1>4. /\ work' \in Seq(Item)
        /\ StackOK' /\ RetryOnlyInError' /\ NothingEnds' /\ ConnectedIsTrue' /\ ToldIsTrue'
    BY <1>1, <1>3, EntryStack
  <1>5. CTypeOK'
    BY <1>1, <1>2, <1>4 DEF CInv, CTypeOK, search, session, State, CkStates
  <1>6. TimerComes' /\ VerdictComes'
    BY <1>1, <1>2, AwaitsIs DEF TimerComes, VerdictComes, Waits
  <1>7. ControlOnlyInSearch' /\ MidiIsLetGo' /\ AllIsUp' /\ ChosenOK' /\ CountOK'
    BY <1>1, <1>2 DEF ControlOnlyInSearch, MidiIsLetGo, AllIsUp, ChosenOK, CountOK, search
  <1> QED  BY <1>4, <1>5, <1>6, <1>7 DEF CInv

LEMMA WaitSendCkLongKeeps == CInv /\ WaitSendCkLong => CInv'
  <1> SUFFICES ASSUME CInv, WaitSendCkLong PROVE CInv'
    OBVIOUS
  <1> DEFINE X == "WaitSendCkLong"
             s == <<>>
  <1>1. /\ Enters(X) /\ Next_(s) /\ timer' = "wait" /\ ck' \in {ck, "none"}
        /\ UNCHANGED <<search, calls, ckCount, session>>
    BY DEF WaitSendCkLong, clocks
  <1>2. /\ state' = X /\ "midi" \notin calls /\ "control" \notin calls /\ chosen # 0 /\ addr \in Addr
        /\ X = "WaitSendCkShort" => ckCount < ShortCks
    BY <1>1, EntryFrom DEF NotYet, Search
  <1>3. s \in Seq(Item) /\ Range(s) = {}
    BY NoItem
  <1> HIDE DEF s
  <1>4. /\ work' \in Seq(Item)
        /\ StackOK' /\ RetryOnlyInError' /\ NothingEnds' /\ ConnectedIsTrue' /\ ToldIsTrue'
    BY <1>1, <1>3, EntryStack
  <1>5. CTypeOK'
    BY <1>1, <1>2, <1>4 DEF CInv, CTypeOK, search, session, State, CkStates
  <1>6. TimerComes' /\ VerdictComes'
    BY <1>1, <1>2, AwaitsIs DEF TimerComes, VerdictComes, Waits
  <1>7. ControlOnlyInSearch' /\ MidiIsLetGo' /\ AllIsUp' /\ ChosenOK' /\ CountOK'
    BY <1>1, <1>2 DEF ControlOnlyInSearch, MidiIsLetGo, AllIsUp, ChosenOK, CountOK, search
  <1> QED  BY <1>4, <1>5, <1>6, <1>7 DEF CInv

LEMMA AllConnectedKeeps == CInv /\ AllConnected => CInv'
  <1> SUFFICES ASSUME CInv, AllConnected PROVE CInv'
    OBVIOUS
  <1> DEFINE X == "AllConnected"
             s == <<event("SendCK")>>
  <1>1. /\ Enters(X) /\ Next_(s) /\ timer' = "none" /\ ckCount' = 0
        /\ UNCHANGED <<search, calls, ck, session>>
    BY DEF AllConnected
  <1>2. /\ state' = X /\ calls = {} /\ chosen # 0 /\ addr \in Addr
        /\ IsConnected(peer) /\ told = "CONNECTED" /\ Head(work) \in Alone
    BY <1>1, EntryFrom DEF NotYet
  <1>3. s \in Seq(Item) /\ Range(s) = {event("SendCK")}
    BY OneItem, IsItem DEF Trigger
  <1>4. event("SendCK")[1] = "event" /\ s = <<event("SendCK")>>
    BY DEF event
  <1> HIDE DEF s
  <1>5. /\ work' \in Seq(Item) /\ work' = s /\ Items' = Range(s)
        /\ StackOK' /\ RetryOnlyInError' /\ NothingEnds' /\ ConnectedIsTrue' /\ ToldIsTrue'
    BY <1>1, <1>2, <1>3, <1>4, EntryStack
  <1>6. CTypeOK'
    BY <1>1, <1>2, <1>5, ClientAssumption DEF CInv, CTypeOK, search, session, State
  <1>7. TimerComes' /\ VerdictComes'
    BY <1>2, <1>3, <1>4, <1>5 DEF TimerComes, VerdictComes
  <1>8. ControlOnlyInSearch' /\ MidiIsLetGo' /\ ChosenOK' /\ CountOK'
    BY <1>1, <1>2, ClientAssumption DEF ControlOnlyInSearch, MidiIsLetGo, ChosenOK, CountOK, search
  <1>9. AllIsUp'
    BY <1>1, <1>2, <1>4, <1>5 DEF AllIsUp, session, IsConnected
  <1> QED  BY <1>5, <1>6, <1>7, <1>8, <1>9 DEF CInv

LEMMA TryConnectToAllKnownDNSKeeps == CInv /\ TryConnectToAllKnownDNS => CInv'
  <1> SUFFICES ASSUME CInv, TryConnectToAllKnownDNS PROVE CInv'
    OBVIOUS
  <1> DEFINE X == "TryConnectToAllKnownDNS"
             s == <<event("Connect")>>
  <1>1. /\ Enters(X) /\ Next_(s) /\ pending' = [e \in 1..known |-> e]
        /\ UNCHANGED <<known, chosen, list, at, addr, alarms, clocks, session>>
    BY DEF TryConnectToAllKnownDNS
  <1>2. state' = X /\ "midi" \notin calls /\ Head(work) \in Alone
    BY <1>1, EntryFrom
  <1>3. s \in Seq(Item) /\ Range(s) = {event("Connect")}
    BY OneItem, IsItem DEF Trigger
  <1>4. /\ event("Connect")[1] = "event" /\ s = <<event("Connect")>>
        /\ event("Connect") \notin {event("NextReady"), event("Resolved")}
    BY DEF event
  <1> HIDE DEF s
  <1>5. /\ work' \in Seq(Item) /\ Items' = Range(s)
        /\ StackOK' /\ RetryOnlyInError' /\ NothingEnds' /\ ConnectedIsTrue' /\ ToldIsTrue'
    BY <1>1, <1>2, <1>3, <1>4, EntryStack
  <1>6. pending' \in Seq(DOMAIN Endpoints)
    <2>1. known \in Nat /\ \A e \in 1..known : e \in DOMAIN Endpoints
      BY ClientAssumption DEF CInv, CTypeOK
    <2> QED  BY <1>1, <2>1
  <1>7. CTypeOK'
    BY <1>1, <1>2, <1>5, <1>6 DEF CInv, CTypeOK, alarms, clocks, session, State
  <1>8. TimerComes' /\ VerdictComes'
    BY <1>2, <1>3, <1>4, <1>5 DEF TimerComes, VerdictComes
  <1>9. ControlOnlyInSearch' /\ MidiIsLetGo' /\ AllIsUp' /\ CountOK'
    BY <1>1, <1>2 DEF ControlOnlyInSearch, MidiIsLetGo, AllIsUp, CountOK, Search, alarms
  <1>10. ChosenOK'
    BY <1>1, <1>2, <1>3, <1>4, <1>5 DEF ChosenOK, NotYet
  <1> QED  BY <1>5, <1>7, <1>8, <1>9, <1>10 DEF CInv

LEMMA DisconnectControlKeeps == CInv /\ DisconnectControl => CInv'
  <1> SUFFICES ASSUME CInv, DisconnectControl PROVE CInv'
    OBVIOUS
  <1> DEFINE X == "DisconnectControl"
             s == << <<"goodbye", "control">>, <<"close", "control">>, event("ConnectFailed")>>
  <1>1. /\ Enters(X) /\ Next_(s) /\ timer' = "none"
        /\ UNCHANGED <<search, calls, clocks, session>>
    BY DEF DisconnectControl
  <1>2. /\ state' = X /\ "control" \notin calls /\ chosen # 0 /\ addr \in Addr
        /\ "midi" \in calls => calls = {"midi"} /\ OneIsUp
    BY <1>1, EntryFrom DEF NotYet, Search
  <1>3. /\ s \in Seq(Item) /\ s # <<>> /\ s[1] = <<"goodbye", "control">>
        /\ Range(s) = {<<"goodbye", "control">>, <<"close", "control">>, event("ConnectFailed")}
    <2> DEFINE a == <<"goodbye", "control">>
               b == <<"close", "control">>
               c == event("ConnectFailed")
    <2>1. a \in Item /\ b \in Item /\ c \in Item
      BY IsItem DEF Port, Trigger
    <2>2. s = <<a, b, c>>
      OBVIOUS
    <2> HIDE DEF a, b, c, s
    <2>3. s \in Seq(Item) /\ s # <<>> /\ s[1] = a /\ Range(s) = {a, b, c}
      BY <2>1, <2>2, ThreeItems
    <2> QED  BY <2>3 DEF a, b, c
  <1> HIDE DEF s
  <1>4. /\ s \in Seq(Item) /\ s # <<>> /\ \A x \in Range(s) : x \notin Alone /\ x[1] # "retry"
        /\ event("ConnectFailed") \in Range(s) /\ event("ConnectFailed")[1] = "event"
    BY <1>3 DEF event, Alone, OfPorts
  <1>5. /\ work' \in Seq(Item) /\ Items' = Range(s) \cup Rest
        /\ work' # <<>> /\ work'[1] = s[1]
        /\ StackOK' /\ RetryOnlyInError' /\ NothingEnds' /\ ConnectedIsTrue' /\ ToldIsTrue'
    BY <1>1, <1>4, EntryStack
  <1>6. CTypeOK'
    BY <1>1, <1>2, <1>5 DEF CInv, CTypeOK, search, clocks, session, State
  <1>7. TimerComes' /\ VerdictComes'
    BY <1>2, <1>4, <1>5 DEF TimerComes, VerdictComes
  <1>8. ControlOnlyInSearch' /\ AllIsUp' /\ ChosenOK' /\ CountOK'
    BY <1>1, <1>2 DEF ControlOnlyInSearch, AllIsUp, ChosenOK, CountOK, search
  <1>9. MidiIsLetGo'
    BY <1>1, <1>2, <1>3, <1>5 DEF MidiIsLetGo, TellsAtOnce, OneIsUp, session
  <1> QED  BY <1>5, <1>6, <1>7, <1>8, <1>9 DEF CInv

\* disconnect and reset, and what comes after.
LEMMA Ending ==
  ASSUME NEW last \in {event("ConnectFailed"), <<"retry", "timer">>}
  PROVE  LET s == Disconnecting \o <<last>> IN
         /\ s \in Seq(Item) /\ Range(s) \cap Alone = {}
         /\ Range(s) = {<<"disconnect", "midi">>, <<"disconnect", "control">>, <<"reset", "peer">>, last}
         /\ s # <<>> /\ Len(s) > 1
         /\ s[1] = <<"disconnect", "midi">> /\ s[2] = <<"disconnect", "control">>
  <1> DEFINE d == Disconnecting
             l == <<last>>
  <1>1. /\ d \in Seq(Item) /\ Len(d) = 3
        /\ Range(d) = {<<"disconnect", "midi">>, <<"disconnect", "control">>, <<"reset", "peer">>}
        /\ d[1] = <<"disconnect", "midi">> /\ d[2] = <<"disconnect", "control">>
    <2> DEFINE a == <<"disconnect", "midi">>
               b == <<"disconnect", "control">>
               c == <<"reset", "peer">>
    <2>1. a \in Item /\ b \in Item /\ c \in Item
      BY IsItem DEF Port
    <2>2. d = <<a, b, c>>
      BY DEF Disconnecting
    <2> HIDE DEF a, b, c, d
    <2>3. /\ d \in Seq(Item) /\ Len(d) = 3 /\ d[1] = a /\ d[2] = b
          /\ Range(d) = {a, b, c}
      BY <2>1, <2>2, ThreeItems
    <2> QED  BY <2>3 DEF a, b, c
  <1>2. l \in Seq(Item) /\ Len(l) = 1 /\ Range(l) = {last}
    <2>1. last \in Item
      BY IsItem DEF Trigger
    <2> QED  BY <2>1, OneItem
  <1> HIDE DEF d, l
  <1> DEFINE s == d \o l
  <1>3. /\ s \in Seq(Item) /\ Len(s) = 4 /\ Range(s) = Range(d) \cup Range(l)
        /\ s[1] = d[1] /\ s[2] = d[2]
    <2>1. /\ s \in Seq(Item) /\ Len(s) = Len(d) + Len(l)
          /\ \A i \in 1..(Len(d) + Len(l)) : s[i] = IF i <= Len(d) THEN d[i] ELSE l[i - Len(d)]
      BY <1>1, <1>2, ConcatProperties
    <2>2. Range(s) = Range(d) \cup Range(l)
      BY <1>1, <1>2, RangeConcatenation
    <2> HIDE DEF s
    <2> QED  BY <1>1, <1>2, <2>1, <2>2
  <1> HIDE DEF s
  <1>4. s # <<>>
    <2>1. Len(<<>>) = 0
      BY EmptySeq
    <2> QED  BY <2>1, <1>3
  <1>5. \A x \in Range(s) : x \notin Alone
    BY <1>1, <1>2, <1>3 DEF event, Alone, OfPorts
  <1> QED  BY <1>1, <1>2, <1>3, <1>4, <1>5 DEF d, l, s

LEMMA DisconnectBecauseCKTimeoutKeeps == CInv /\ DisconnectBecauseCKTimeout => CInv'
  <1> SUFFICES ASSUME CInv, DisconnectBecauseCKTimeout PROVE CInv'
    OBVIOUS
  <1> DEFINE X == "DisconnectBecauseCKTimeout"
             s == Disconnecting \o <<event("ConnectFailed")>>
  <1>1. Enters(X) /\ Next_(s) /\ UNCHANGED <<search, alarms, clocks, session>>
    BY DEF DisconnectBecauseCKTimeout
  <1>2. /\ state' = X /\ "control" \notin calls /\ "midi" \notin calls
        /\ chosen # 0 /\ addr \in Addr
    BY <1>1, EntryFrom DEF NotYet, Search
  <1>3. /\ s \in Seq(Item) /\ Range(s) \cap Alone = {}
        /\ Range(s) = {<<"disconnect", "midi">>, <<"disconnect", "control">>, <<"reset", "peer">>,
                       event("ConnectFailed")}
    BY Ending
  <1> HIDE DEF s
  <1>4. /\ \A x \in Range(s) : x[1] # "retry"
        /\ event("ConnectFailed") \in Range(s) /\ event("ConnectFailed")[1] = "event"
    BY <1>3 DEF event
  <1>5. /\ work' \in Seq(Item) /\ Items' = Range(s) \cup Rest
        /\ StackOK' /\ RetryOnlyInError' /\ NothingEnds' /\ ConnectedIsTrue' /\ ToldIsTrue'
    BY <1>1, <1>3, <1>4, EntryStack
  <1>6. CTypeOK'
    BY <1>1, <1>2, <1>5 DEF CInv, CTypeOK, search, alarms, clocks, session, State
  <1>7. TimerComes' /\ VerdictComes'
    BY <1>2, <1>4, <1>5 DEF TimerComes, VerdictComes
  <1>8. ControlOnlyInSearch' /\ MidiIsLetGo' /\ AllIsUp' /\ ChosenOK' /\ CountOK'
    BY <1>1, <1>2 DEF ControlOnlyInSearch, MidiIsLetGo, AllIsUp, ChosenOK, CountOK, search, alarms
  <1> QED  BY <1>5, <1>6, <1>7, <1>8 DEF CInv

LEMMA ErrorKeeps == CInv /\ Error => CInv'
  <1> SUFFICES ASSUME CInv, Error PROVE CInv'
    OBVIOUS
  <1> DEFINE X == "Error"
             s == Disconnecting \o << <<"retry", "timer">> >>
  <1>1. Enters(X) /\ Next_(s) /\ UNCHANGED <<search, alarms, clocks, session>>
    BY DEF Error
  <1>2. state' = X /\ ("midi" \in calls => calls = {"midi"} /\ OneIsUp)
    BY <1>1, EntryFrom
  <1>3. /\ s \in Seq(Item) /\ Range(s) \cap Alone = {}
        /\ Range(s) = {<<"disconnect", "midi">>, <<"disconnect", "control">>, <<"reset", "peer">>,
                       <<"retry", "timer">>}
        /\ s # <<>> /\ Len(s) > 1
        /\ s[1] = <<"disconnect", "midi">> /\ s[2] = <<"disconnect", "control">>
    BY Ending
  <1> HIDE DEF s
  <1>4. /\ event("Connect") \notin Range(s) /\ event("NextReady") \notin Range(s)
        /\ event("Resolved") \notin Range(s)
        /\ <<"retry", "timer">> \in Range(s) /\ <<"retry", "timer">>[1] = "retry"
    BY <1>3 DEF event
  <1>5. /\ work' \in Seq(Item) /\ Items' = Range(s) \cup Rest /\ Rest \subseteq Items
        /\ work' # <<>> /\ work'[1] = s[1] /\ Len(work') > 1 /\ work'[2] = s[2]
        /\ StackOK' /\ RetryOnlyInError' /\ NothingEnds' /\ ConnectedIsTrue' /\ ToldIsTrue'
    BY <1>1, <1>3, <1>4, EntryStack
  <1>6. CTypeOK'
    BY <1>1, <1>2, <1>5 DEF CInv, CTypeOK, search, alarms, clocks, session, State
  <1>7. TimerComes' /\ VerdictComes'
    BY <1>2, <1>4, <1>5 DEF TimerComes, VerdictComes
  <1>8. ControlOnlyInSearch' /\ AllIsUp' /\ CountOK'
    BY <1>1, <1>2 DEF ControlOnlyInSearch, AllIsUp, CountOK, Search
  <1>9. MidiIsLetGo'
    BY <1>1, <1>2, <1>3, <1>5 DEF MidiIsLetGo, OneIsUp, alarms, session
  <1>10. ChosenOK'
    BY <1>1, <1>2, <1>4, <1>5 DEF CInv, ChosenOK, NotYet, search
  <1> QED  BY <1>5, <1>6, <1>7, <1>8, <1>9, <1>10 DEF CInv

-----------------------------------------------------------------------------
\* What the invariant says in the poller.
LEMMA AtRest ==
  ASSUME CInv, Idle
  PROVE  /\ work = <<>> /\ Items = {} /\ state # "Destroyed" /\ Waits
         /\ state # "AllConnected"
         /\ "midi" \in calls => state = "ConnectMidi" /\ OneIsUp /\ calls = {"midi"}
         /\ state = "ConnectControl" => "control" \in calls
         /\ state = "ConnectMidi" => "midi" \in calls
  <1>1. work = <<>> /\ Items = {} /\ state # "Destroyed"
    BY NoItem DEF Idle, Items
  <1>2. Waits
    BY <1>1 DEF CInv, TimerComes
  <1>3. state # "AllConnected"
    BY <1>2, AwaitsIs DEF Waits
  <1>4. "midi" \in calls => state = "ConnectMidi" /\ OneIsUp /\ calls = {"midi"}
    BY <1>1 DEF CInv, MidiIsLetGo
  <1>5. /\ state = "ConnectControl" => "control" \in calls
        /\ state = "ConnectMidi" => "midi" \in calls
    BY <1>1 DEF CInv, VerdictComes
  <1> QED  BY <1>1, <1>2, <1>3, <1>4, <1>5

LEMMA AddServerAddressesKeeps == CInv /\ AddServerAddresses => CInv'
  <1> SUFFICES ASSUME CInv, AddServerAddresses PROVE CInv'
    OBVIOUS
  <1> PICK n \in 1..Len(Endpoints) - known :
          known' = known + n /\ pending' = pending \o [i \in 1..n |-> known + i]
    BY DEF AddServerAddresses
  <1>1. /\ work' = IF state = "WaitToStart" THEN <<event("Started")>> ELSE <<>>
        /\ UNCHANGED <<state, chosen, list, at, addr, alarms, clocks, session>>
    BY DEF AddServerAddresses
  <1>2. /\ work = <<>> /\ Items = {} /\ state # "Destroyed" /\ Waits /\ state # "AllConnected"
        /\ "midi" \in calls => state = "ConnectMidi" /\ OneIsUp /\ calls = {"midi"}
    BY AtRest DEF AddServerAddresses
  <1>3. /\ work' \in Seq(Item)
        /\ Items' = IF state = "WaitToStart" THEN {event("Started")} ELSE {}
    <2>1. CASE state = "WaitToStart"
      <3>1. "Started" \in Trigger \ {"Connected", "Connect", "SendCK"}
        BY DEF Trigger
      <3> QED  BY <2>1, <3>1, <1>1, OneEvent DEF Items
    <2>2. CASE state # "WaitToStart"
      BY <2>2, <1>1, NoItem DEF Items
    <2> QED  BY <2>1, <2>2
  <1>4. /\ event("Started")[1] = "event" /\ event("Started") \notin Alone
        /\ event("Started") \notin {event("NextReady"), event("Resolved"), event("WaitSendCK")}
        /\ event("Started") # <<"warn", "ck">>
    BY DEF event, Alone, OfPorts
  <1>5. CTypeOK'
    <2>1. /\ known' \in 0..Len(Endpoints) /\ n \in Nat
          /\ \A i \in 1..n : known + i \in DOMAIN Endpoints
      BY ClientAssumption DEF CInv, CTypeOK
    <2>2. [i \in 1..n |-> known + i] \in Seq(DOMAIN Endpoints)
      BY <2>1
    <2>3. pending' \in Seq(DOMAIN Endpoints)
      BY <2>2, ConcatProperties DEF CInv, CTypeOK
    <2> QED  BY <1>1, <1>3, <2>1, <2>3 DEF CInv, CTypeOK, alarms, clocks, session
  <1>6. StackOK' /\ ConnectedIsTrue' /\ ToldIsTrue'
    <2>1. Items' \cap Alone = {}
      BY <1>3, <1>4
    <2> QED
      BY <1>1, <1>2, <1>3, <2>1 DEF CInv, StackOK, ConnectedIsTrue, ToldIsTrue, Alone
  <1>7. TimerComes'
    <2>1. CASE state = "WaitToStart"
      BY <2>1, <1>3, <1>4 DEF TimerComes
    <2>2. CASE state # "WaitToStart"
      BY <2>2, <1>1, <1>2 DEF TimerComes, Waits, alarms
    <2> QED  BY <2>1, <2>2
  <1>8. RetryOnlyInError' /\ NothingEnds' /\ AllIsUp'
    BY <1>1, <1>2, <1>3, <1>4 DEF RetryOnlyInError, NothingEnds, AllIsUp
  <1>9. VerdictComes' /\ ControlOnlyInSearch' /\ MidiIsLetGo'
    BY <1>1, <1>2 DEF CInv, VerdictComes, ControlOnlyInSearch, MidiIsLetGo, OneIsUp, alarms, session
  <1>10. ChosenOK' /\ CountOK'
    BY <1>1, <1>3, <1>4 DEF CInv, ChosenOK, CountOK, clocks
  <1> QED  BY <1>5, <1>6, <1>7, <1>8, <1>9, <1>10 DEF CInv

LEMMA FireKeeps == CInv /\ Fire => CInv'
  <1> SUFFICES ASSUME CInv, Fire PROVE CInv'
    OBVIOUS
  <1>1. /\ timer # "none" /\ timer' = "none" /\ calls' \in {calls, calls \ {"control"}}
        /\ UNCHANGED <<state, search, clocks, session>>
    BY DEF Fire
  <1>2. /\ work = <<>> /\ Items = {} /\ state # "Destroyed" /\ state # "AllConnected"
        /\ "midi" \in calls => state = "ConnectMidi" /\ OneIsUp /\ calls = {"midi"}
    BY AtRest DEF Fire
  <1>3. PICK e \in {"ConnectFailed", "Timeout", "SendCK", "Connect"} : work' = <<event(e)>>
    BY DEF Fire, CInv, CTypeOK
  <1>4. work' \in Seq(Item) /\ Items' = {event(e)}
    BY <1>3, OneItem, IsItem DEF Items, Trigger
  <1>5. /\ event(e)[1] = "event" /\ event(e) # event("Connected")
        /\ \A t \in OfPorts : event(e) # <<"tell", t>>
        /\ event(e) \notin {event("NextReady"), event("Resolved"), event("WaitSendCK"), <<"warn", "ck">>}
    BY <1>3 DEF event
  <1>6. CTypeOK'
    BY <1>1, <1>4 DEF CInv, CTypeOK, search, clocks, session
  <1>7. StackOK' /\ ConnectedIsTrue' /\ ToldIsTrue'
    BY <1>1, <1>2, <1>3, <1>4, <1>5 DEF CInv, StackOK, ConnectedIsTrue, ToldIsTrue
  <1>8. TimerComes' /\ VerdictComes' /\ RetryOnlyInError' /\ NothingEnds' /\ AllIsUp'
    BY <1>1, <1>2, <1>4, <1>5 DEF TimerComes, VerdictComes, RetryOnlyInError, NothingEnds, AllIsUp
  <1>9. ControlOnlyInSearch' /\ MidiIsLetGo'
    BY <1>1, <1>2 DEF CInv, ControlOnlyInSearch, MidiIsLetGo, OneIsUp, session
  <1>10. ChosenOK' /\ CountOK'
    BY <1>1, <1>4, <1>5 DEF CInv, ChosenOK, CountOK, search, clocks
  <1> QED  BY <1>6, <1>7, <1>8, <1>9, <1>10 DEF CInv

LEMMA DestroyKeeps == CInv /\ Destroy => CInv'
  <1> SUFFICES ASSUME CInv, Destroy PROVE CInv'
    OBVIOUS
  <1>1. /\ state' = "Destroyed" /\ work' = <<>> /\ calls' = {} /\ opened' = {}
        /\ timer' = "none" /\ ck' = "none" /\ UNCHANGED <<search, ckCount, asked>>
        /\ told' \in {told, "DISCONNECT"} /\ peer' \in {peer, [peer EXCEPT !.st = {}]}
    BY DEF Destroy, Idle
  <1>2. work' \in Seq(Item) /\ Items' = {}
    BY <1>1, NoItem DEF Items
  <1>3. CTypeOK'
    <2>1. peer' \in Peer
      BY <1>1 DEF CInv, CTypeOK, Peer
    <2>2. told' \in Status \cup {"nothing"}
      BY <1>1 DEF CInv, CTypeOK, Status, Event
    <2> QED  BY <1>1, <1>2, <2>1, <2>2 DEF CInv, CTypeOK, search
  <1>4. StackOK' /\ TimerComes' /\ RetryOnlyInError' /\ VerdictComes' /\ ControlOnlyInSearch'
    BY <1>1, <1>2 DEF StackOK, TimerComes, RetryOnlyInError, VerdictComes, ControlOnlyInSearch
  <1>5. MidiIsLetGo' /\ NothingEnds' /\ ConnectedIsTrue' /\ ToldIsTrue' /\ AllIsUp'
    BY <1>1, <1>2 DEF MidiIsLetGo, NothingEnds, ConnectedIsTrue, ToldIsTrue, AllIsUp
  <1>6. ChosenOK' /\ CountOK'
    BY <1>1, <1>2 DEF ChosenOK, CountOK, NotYet
  <1> QED  BY <1>3, <1>4, <1>5, <1>6 DEF CInv

\* One packet: the peer it leaves behind, and what its signals put on the stack.
LEMMA OnePacket ==
  ASSUME CInv, NEW m \in FromServer, Receive(m)
  PROVE  /\ peer' \in Peer
         /\ \/ work' = <<>> /\ (OneIsUp => OneIsUp')
            \/ \E t \in Status : /\ work' = << <<"tell", t>> >>
                                 /\ t \in OfPorts => t = StatusEvent(peer'.st)
            \/ work' = << <<"ck", "peer">>, <<"answer", "ck">> >> /\ peer' = peer
  <1> DEFINE r == DataReady(peer, m)
  <1>1. /\ m.cmd \in {"OK", "NO", "BY", "CK1"} /\ m.port \in Port
        /\ m.init \in Initiator /\ m.ssrc \in Ssrc /\ peer \in Peer
    BY ZeroAssumption DEF FromServer, Pkt, CInv, CTypeOK, Port
  <1>2. /\ peer' = r.peer
        /\ work' = [k \in DOMAIN r.events |->
                      IF r.events[k] = "ck" THEN <<"ck", "peer">> ELSE <<"tell", r.events[k]>>]
                   \o (IF m.cmd = "CK1" THEN << <<"answer", "ck">> >> ELSE <<>>)
    BY DEF Receive
  <1>3. CASE m.cmd = "OK"
    <2>1. /\ r.peer \in Peer
          /\ \/ r.events = <<>> /\ r.peer.st = peer.st
             \/ r.events = <<StatusEvent(r.peer.st)>>
      BY <1>1, <1>3 DEF DataReady, OnOK, Result, Peer
    <2>2. CASE r.events = <<>> /\ r.peer.st = peer.st
      <3>1. work' = <<>>
        BY <1>2, <1>3, <2>2
      <3> QED  BY <3>1, <1>2, <2>1, <2>2 DEF OneIsUp
    <2>3. CASE r.events = <<StatusEvent(r.peer.st)>>
      <3>1. StatusEvent(r.peer.st) \in Status /\ StatusEvent(r.peer.st) # "ck"
        BY <2>1 DEF StatusEvent, Status, Event, Peer, Port
      <3>2. work' = << <<"tell", StatusEvent(r.peer.st)>> >>
        BY <1>2, <1>3, <2>3, <3>1
      <3> QED  BY <3>1, <3>2, <1>2, <2>1
    <2> QED  BY <2>1, <2>2, <2>3
  <1>4. CASE m.cmd = "BY"
    <2>1. /\ r.peer \in Peer
          /\ \/ r.events = <<>> /\ (peer.st = {"control"} => r.peer.st = {"control"})
             \/ r.events = <<"PEER_DISCONNECTED">>
      BY <1>1, <1>4 DEF DataReady, OnBY, Result, Peer
    <2>2. CASE r.events = <<>>
      <3>1. work' = <<>>
        BY <1>2, <1>4, <2>2
      <3>2. OneIsUp => OneIsUp'
        BY <1>2, <2>1, <2>2 DEF OneIsUp
      <3> QED  BY <3>1, <3>2, <1>2, <2>1
    <2>3. CASE r.events = <<"PEER_DISCONNECTED">>
      <3>1. work' = << <<"tell", "PEER_DISCONNECTED">> >>
        BY <1>2, <1>4, <2>3
      <3>2. "PEER_DISCONNECTED" \in Status \ OfPorts
        BY DEF Status, Event, OfPorts
      <3> QED  BY <3>1, <3>2, <1>2, <2>1
    <2> QED  BY <2>1, <2>2, <2>3
  <1>5. CASE m.cmd = "NO"
    <2>1. r.peer \in Peer /\ r.events = <<"REJECTED">>
      BY <1>1, <1>5 DEF DataReady, OnNO, Result, Peer
    <2>2. work' = << <<"tell", "REJECTED">> >>
      BY <1>2, <1>5, <2>1
    <2>3. "REJECTED" \in Status \ OfPorts
      BY DEF Status, Event, OfPorts
    <2> QED  BY <2>1, <2>2, <2>3, <1>2
  <1>6. CASE m.cmd = "CK1"
    <2>1. r.peer = peer /\ r.events = <<"ck">>
      BY <1>1, <1>6 DEF DataReady, OnCK, Result
    <2>2. work' = << <<"ck", "peer">>, <<"answer", "ck">> >>
      <3> DEFINE a == <<"ck", "peer">>
                 c == <<"answer", "ck">>
                 f == [k \in DOMAIN r.events |->
                         IF r.events[k] = "ck" THEN a ELSE <<"tell", r.events[k]>>]
      <3>1. work' = f \o <<c>>
        BY <1>2, <1>6
      <3>2. f = <<a>>
        <4> HIDE DEF a
        <4> QED  BY <2>1
      <3> HIDE DEF a, c, f
      <3>3. <<a>> \o <<c>> = <<a, c>>
        <4> a \in Item /\ c \in Item
          BY IsItem DEF a, c
        <4>1. /\ <<a>> \in Seq(Item) /\ <<c>> \in Seq(Item) /\ <<a, c>> \in Seq(Item)
              /\ Len(<<a>>) = 1 /\ Len(<<c>>) = 1 /\ Len(<<a, c>>) = 2
          OBVIOUS
        <4>2. /\ Len(<<a>> \o <<c>>) = 2 /\ <<a>> \o <<c>> \in Seq(Item)
              /\ \A i \in 1..2 : (<<a>> \o <<c>>)[i] = IF i <= 1 THEN <<a>>[i] ELSE <<c>>[i - 1]
          BY <4>1, ConcatProperties
        <4>3. \A i \in 1..2 : (<<a>> \o <<c>>)[i] = <<a, c>>[i]
          BY <4>2
        <4> QED  BY <4>1, <4>2, <4>3, SeqEqual
      <3>4. work' = <<a, c>>
        BY <3>1, <3>2, <3>3
      <3> QED  BY <3>4 DEF a, c
    <2> QED  BY <2>1, <2>2, <1>1, <1>2
  <1> QED  BY <1>1, <1>3, <1>4, <1>5, <1>6

LEMMA ReceiveKeeps == ASSUME NEW m \in FromServer PROVE CInv /\ Receive(m) => CInv'
  <1> SUFFICES ASSUME CInv, Receive(m) PROVE CInv'
    OBVIOUS
  <1>1. UNCHANGED <<state, search, alarms, clocks, opened, told, asked>>
    BY DEF Receive
  <1>2. /\ work = <<>> /\ Items = {} /\ state # "Destroyed" /\ Waits /\ state # "AllConnected"
        /\ "midi" \in calls => state = "ConnectMidi" /\ OneIsUp /\ calls = {"midi"}
    BY AtRest DEF Receive
  <1>3. /\ peer' \in Peer /\ work' \in Seq(Item)
        /\ OneIsUp => OneIsUp' \/ (work' # <<>> /\ work'[1][1] = "tell")
        /\ \A x \in Items' : x[1] \in {"tell", "ck", "answer"}
        /\ \A x \in Items' : x[1] = "tell" =>
              work' = <<x>> /\ (x[2] \in OfPorts => x[2] = StatusEvent(peer'.st))
    <2>1. CASE work' = <<>> /\ (OneIsUp => OneIsUp')
      BY <2>1, OnePacket, NoItem DEF Items
    <2>2. CASE \E t \in Status : /\ work' = << <<"tell", t>> >>
                                 /\ t \in OfPorts => t = StatusEvent(peer'.st)
      <3>1. PICK t \in Status : /\ work' = << <<"tell", t>> >>
                                /\ t \in OfPorts => t = StatusEvent(peer'.st)
        BY <2>2
      <3> DEFINE a == <<"tell", t>>
      <3>2. a \in Item /\ a[1] = "tell" /\ a[2] = t
        BY IsItem
      <3>3. work' = <<a>>
        BY <3>1
      <3> HIDE DEF a
      <3>4. work' \in Seq(Item) /\ Items' = {a} /\ work' # <<>> /\ work'[1] = a
        BY <3>2, <3>3, OneItem DEF Items
      <3> QED  BY <3>1, <3>2, <3>3, <3>4, OnePacket
    <2>3. CASE work' = << <<"ck", "peer">>, <<"answer", "ck">> >> /\ peer' = peer
      <3> DEFINE a == <<"ck", "peer">>
                 c == <<"answer", "ck">>
      <3>1. a \in Item /\ c \in Item /\ a[1] = "ck" /\ c[1] = "answer" /\ work' = <<a, c>>
        BY <2>3, IsItem
      <3> HIDE DEF a, c
      <3>2. work' \in Seq(Item) /\ Items' = {a, c}
        BY <3>1, TwoItems DEF Items
      <3> QED  BY <2>3, <3>1, <3>2, OnePacket DEF OneIsUp
    <2> QED  BY <2>1, <2>2, <2>3, OnePacket
  <1>4. ASSUME NEW e PROVE event(e) \notin Items'
    <2>1. event(e)[1] = "event"
      BY DEF event
    <2> QED  BY <2>1, <1>3
  <1>5. CTypeOK'
    BY <1>1, <1>3 DEF CInv, CTypeOK, search, alarms, clocks
  <1>6. StackOK'
    <2>1. ASSUME NEW x \in Items' \cap Alone PROVE work' = <<x>>
      <3>1. x[1] \in {"event", "tell"}
        BY DEF Alone, event
      <3> QED  BY <3>1, <1>3
    <2> QED  BY <1>1, <1>2, <1>3, <2>1 DEF CInv, StackOK
  <1>7. ToldIsTrue'
    <2> SUFFICES ASSUME NEW s \in OfPorts, <<"tell", s>> \in Items' PROVE s = StatusEvent(peer'.st)
      BY DEF ToldIsTrue
    <2>1. <<"tell", s>>[1] = "tell" /\ <<"tell", s>>[2] = s
      OBVIOUS
    <2> QED  BY <2>1, <1>3
  <1>8. TimerComes'
    BY <1>1, <1>2 DEF TimerComes, Waits, alarms
  <1>9. RetryOnlyInError' /\ NothingEnds'
    BY <1>3 DEF RetryOnlyInError, NothingEnds
  <1>10. VerdictComes' /\ ControlOnlyInSearch'
    BY <1>1, <1>2 DEF CInv, VerdictComes, ControlOnlyInSearch, alarms
  <1>11. MidiIsLetGo'
    BY <1>1, <1>2, <1>3 DEF MidiIsLetGo, alarms
  <1>12. ConnectedIsTrue' /\ AllIsUp'
    BY <1>1, <1>2, <1>4 DEF ConnectedIsTrue, AllIsUp
  <1>13. ChosenOK' /\ CountOK'
    <2>1. <<"warn", "ck">> \notin Items'
      <3>1. <<"warn", "ck">>[1] = "warn"
        OBVIOUS
      <3> QED  BY <3>1, <1>3
    <2> QED  BY <1>1, <1>4, <2>1 DEF CInv, ChosenOK, CountOK, search, clocks
  <1> QED  BY <1>5, <1>6, <1>7, <1>8, <1>9, <1>10, <1>11, <1>12, <1>13 DEF CInv

-----------------------------------------------------------------------------
LEMMA CInitOK == CInit => CInv
  <1> SUFFICES ASSUME CInit PROVE CInv
    OBVIOUS
  <1>1. work \in Seq(Item) /\ Items = {} /\ pending \in Seq(DOMAIN Endpoints)
    BY NoItem DEF CInit, Items
  <1>2. peer \in Peer
    BY ClientAssumption, ZeroAssumption DEF CInit, NewPeer, Peer
  <1>3. CTypeOK
    <2>1. Len(Endpoints) \in Nat
      BY ClientAssumption
    <2> QED  BY <1>1, <1>2, <2>1, ClientAssumption DEF CInit, CTypeOK, State
  <1>4. StackOK /\ TimerComes /\ RetryOnlyInError /\ VerdictComes /\ ControlOnlyInSearch
    BY <1>1, AwaitsIs DEF CInit, StackOK, State, TimerComes, Waits, RetryOnlyInError, VerdictComes,
       ControlOnlyInSearch
  <1>5. MidiIsLetGo /\ NothingEnds /\ ConnectedIsTrue /\ ToldIsTrue /\ AllIsUp
    BY <1>1 DEF CInit, MidiIsLetGo, NothingEnds, ConnectedIsTrue, ToldIsTrue, AllIsUp
  <1>6. ChosenOK /\ CountOK
    BY <1>1 DEF CInit, ChosenOK, CountOK, NotYet
  <1> QED  BY <1>3, <1>4, <1>5, <1>6 DEF CInv

LEMMA CNextOK == CInv /\ [CNext]_cvars => CInv'
  <1> SUFFICES ASSUME CInv, [CNext]_cvars PROVE CInv'
    OBVIOUS
  <1>1. CASE Entry
    BY <1>1, PrepareNextDNSKeeps, ResolveNextIpPortKeeps, ConnectControlKeeps, ConnectMidiKeeps,
       DisconnectControlKeeps, AllConnectedKeeps, SendCkShortKeeps, SendCkLongKeeps,
       WaitSendCkShortKeeps, WaitSendCkLongKeeps, DisconnectBecauseCKTimeoutKeeps, ErrorKeeps,
       TryConnectToAllKnownDNSKeeps DEF Entry
  <1>2. CASE Piece
    BY <1>2, TellKeeps, TellCkKeeps, WarnKeeps, ResetKeeps, CloseKeeps, RetryKeeps, AnswerKeeps,
       DisconnectPortKeeps, GoodbyeKeeps, EndedKeeps DEF Piece
  <1>3. CASE AddServerAddresses
    BY <1>3, AddServerAddressesKeeps
  <1>4. CASE Fire
    BY <1>4, FireKeeps
  <1>5. CASE Destroy
    BY <1>5, DestroyKeeps
  <1>6. CASE \E m \in FromServer : Receive(m)
    BY <1>6, ReceiveKeeps
  <1>7. CASE UNCHANGED cvars
    <2> USE <1>7 DEF cvars, search, alarms, clocks, session
    <2>1. Items' = Items
      BY DEF Items
    <2>2. CTypeOK' /\ StackOK' /\ TimerComes' /\ RetryOnlyInError' /\ VerdictComes'
      BY <2>1 DEF CInv, CTypeOK, StackOK, TimerComes, Waits, RetryOnlyInError, VerdictComes
    <2>3. ControlOnlyInSearch' /\ MidiIsLetGo' /\ NothingEnds' /\ ConnectedIsTrue'
      BY <2>1 DEF CInv, ControlOnlyInSearch, MidiIsLetGo, TellsAtOnce, OneIsUp, NothingEnds,
         ConnectedIsTrue, IsConnected
    <2>4. ToldIsTrue' /\ AllIsUp' /\ ChosenOK' /\ CountOK'
      BY <2>1 DEF CInv, ToldIsTrue, AllIsUp, IsConnected, ChosenOK, CountOK
    <2> QED  BY <2>2, <2>3, <2>4 DEF CInv
  <1> QED  BY <1>1, <1>2, <1>3, <1>4, <1>5, <1>6, <1>7 DEF CNext

\* The invariant of the client (rtpclient_t::handle_event and all that calls it,
\* its callbacks and its timer), however the calls nest and the answers mix.
THEOREM ClientInvariant == CSpec => []CInv
  BY CInitOK, CNextOK, PTL DEF CSpec

\* The client's state is well formed, clock exchanges never outnumber their limit
\* (rtpclient.cpp:263) and a request only leaves for an address that was resolved.
THEOREM ClientTypeCorrect == CSpec => []CTypeOK
  <1>1. CInv => CTypeOK
    BY DEF CInv
  <1> QED  BY <1>1, ClientInvariant, PTL

\* Back in the poller, rtpclient_t rests in a state that waits for something, with
\* the timer of that state armed.
THEOREM ClientTimerFitsState == CSpec => []TimerFitsState
  <1>1. CInv => TimerFitsState
    BY AtRest DEF TimerFitsState, Waits
  <1> QED  BY <1>1, ClientInvariant, PTL

\* Back in the poller, the callback of a connection attempt is connected exactly
\* while its answer is awaited (state_connect_control, state_connect_midi).
THEOREM ClientCallbacksFitState == CSpec => []CallbacksFitState
  <1>1. CInv => CallbacksFitState
    <2> SUFFICES ASSUME CInv, Idle PROVE CallbacksFitState
      BY DEF CallbacksFitState
    <2>1. state \in DOMAIN Awaits /\ ("control" \in calls => state \in Search)
      BY AtRest DEF Waits, CInv, ControlOnlyInSearch
    <2>2. "control" \in calls => state \in {"ConnectControl", "Error"}
      BY <2>1, AwaitsIs DEF Search
    <2> QED  BY <2>2, AtRest DEF CallbacksFitState
  <1> QED  BY <1>1, ClientInvariant, PTL

\* state_all_connected is only entered with both ports connected, and after the
\* listeners of status_change_event heard so.
THEOREM ClientAllConnectedIsConnected == CSpec => []AllConnectedIsConnected
  <1>1. CInv => AllConnectedIsConnected
    BY DEF CInv, AllIsUp, AllConnectedIsConnected
  <1> QED  BY <1>1, ClientInvariant, PTL
=============================================================================
