-------------------------- MODULE DiscoveryProofs --------------------------
(***************************************************************************)
(* The invariants of Discovery, proved for every set of servers and ways,  *)
(* every list of announcements and every bound: what is committed is the   *)
(* list as it is now, or nothing, no server has two ports, and the handler *)
(* knows what can be reached and forgets what left, in whatever order      *)
(* Avahi, its answers and the users come.                                  *)
(***************************************************************************)
EXTENDS Discovery, FiniteSetTheorems, SequenceTheorems, TLAPS

-----------------------------------------------------------------------------
(* Announcements.  Avahi no longer answers once its failure is on the bus:   *)
(* that is what Reachable looks for, and it is there whenever Avahi went     *)
(* away from a client that runs.                                             *)

FailureComes == \E i \in DOMAIN bus : bus[i].kind = "client"

TypesOK     == /\ bus \in Seq(Answer) /\ client \in ClientState
               /\ IsFiniteSet(net) /\ net \subseteq Place
NoGroupYet  == /\ client \in {"none", "connecting"} => group = "none" /\ bus = <<>>
               /\ group = "none" => offered = {}
FailureTold == client = "running" /\ ~avahi => FailureComes

OInv == TypesOK /\ NoGroupYet /\ FailureTold /\ OfferedIsTheList

\* Avahi answers as long as it runs and its failure is not on the bus.
LEMMA ReachableIs == Reachable <=> client = "running" /\ avahi /\ ~FailureComes
BY DEF Reachable, FailureComes

\* A finite set as a sequence: each of its elements once.
LEMMA SetToSeqIs ==
  ASSUME NEW S, IsFiniteSet(S)
  PROVE  /\ Cardinality(S) \in Nat
         /\ SetToSeq(S) \in [1..Cardinality(S) -> S]
         /\ \A i, j \in 1..Cardinality(S) : SetToSeq(S)[i] = SetToSeq(S)[j] => i = j
<1>1. Cardinality(S) \in Nat /\ ExistsBijection(1..Cardinality(S), S)
  BY FS_CardinalityType
<1>2. \E f \in [1..Cardinality(S) -> S] : IsInjective(f)
  BY <1>1 DEF ExistsBijection, Bijection, Injection
<1>3. SetToSeq(S) \in [1..Cardinality(S) -> S] /\ IsInjective(SetToSeq(S))
  BY <1>2 DEF SetToSeq
<1> QED  BY <1>1, <1>3 DEF IsInjective

\* What a browser is told at first is answers.
LEMMA NewsAreAnswers ==
  ASSUME NEW P \in SUBSET Place, IsFiniteSet(P)
  PROVE  News(P) \in Seq(Answer)
<1> DEFINE at == SetToSeq(P)
<1>1. Cardinality(P) \in Nat /\ at \in [1..Cardinality(P) -> P]
  BY SetToSeqIs
<1>2. DOMAIN at = 1..Cardinality(P) /\ \A i \in 1..Cardinality(P) : at[i] \in Place
  BY <1>1
<1>3. \A i \in 1..Cardinality(P) : [kind |-> "new", at |-> at[i]] \in Answer
  BY <1>2 DEF Answer
<1> HIDE DEF at
<1>4. [i \in DOMAIN at |-> [kind |-> "new", at |-> at[i]]] \in Seq(Answer)
  BY <1>1, <1>2, <1>3
<1> QED  BY <1>4 DEF News, at

\* Answers that are added do not hide the failure.
LEMMA SayKeepsFailure ==
  ASSUME NEW more \in Seq(Answer), bus \in Seq(Answer), Say(more)
  PROVE  bus' \in Seq(Answer) /\ (FailureComes => FailureComes')
<1>1. /\ bus' \in Seq(Answer)
      /\ Len(bus') = Len(bus) + Len(more)
      /\ \A i \in 1..Len(bus) : bus'[i] = bus[i]
  <2>1. bus' = bus \o more
    BY DEF Say
  <2>2. /\ bus \o more \in Seq(Answer) /\ Len(bus \o more) = Len(bus) + Len(more)
        /\ \A i \in 1..Len(bus) + Len(more) :
              (bus \o more)[i] = IF i <= Len(bus) THEN bus[i] ELSE more[i - Len(bus)]
    BY ConcatProperties
  <2>3. \A i \in 1..Len(bus) : i \in 1..Len(bus) + Len(more) /\ i <= Len(bus)
    OBVIOUS
  <2> QED  BY <2>1, <2>2, <2>3
<1>2. ASSUME NEW i \in DOMAIN bus, bus[i].kind = "client" PROVE FailureComes'
  <2>1. i \in 1..Len(bus) /\ i \in 1..Len(bus') /\ DOMAIN bus' = 1..Len(bus')
    BY <1>1
  <2>2. i \in DOMAIN bus' /\ bus'[i] = bus[i]
    BY <1>1, <2>1
  <2> QED  BY <1>2, <2>2 DEF FailureComes
<1> QED  BY <1>1, <1>2 DEF FailureComes

\* Neither does the callback for another answer that came first.
LEMMA TailKeepsFailure ==
  ASSUME bus \in Seq(Answer), bus # <<>>, bus' = Tail(bus)
  PROVE  /\ Head(bus) \in Answer
         /\ bus' \in Seq(Answer)
         /\ Head(bus).kind # "client" => (FailureComes => FailureComes')
<1>1. /\ Head(bus) \in Answer /\ bus' \in Seq(Answer)
      /\ Len(bus') = Len(bus) - 1
      /\ \A i \in 1..Len(bus') : bus'[i] = bus[i + 1]
  BY HeadTailProperties
<1>2. ASSUME Head(bus).kind # "client", FailureComes PROVE FailureComes'
  <2>1. PICK i \in DOMAIN bus : bus[i].kind = "client"
    BY <1>2 DEF FailureComes
  <2>2. i # 1 /\ i \in 1..Len(bus) /\ Len(bus) \in Nat
    BY <1>2, <2>1
  <2>3. i - 1 \in 1..Len(bus') /\ bus'[i - 1] = bus[i]
    BY <1>1, <2>2
  <2> QED  BY <1>1, <2>1, <2>3 DEF FailureComes
<1> QED  BY <1>1, <1>2

\* The list registered, or not registered: whichever way announce_all ends, what
\* is offered is the list as it is now, or nothing, or Avahi does not answer.
LEMMA AnnounceAllOffers ==
  ASSUME NEW list, NEW state, AnnounceAll(list, state),
         state = "none" => offered = {}
  PROVE  /\ group' = "none" => offered' = {} /\ state = "none"
         /\ \/ offered' = {} /\ group' # "registering"
            \/ offered' = list \X {suffix'}
            \/ ~Reachable
            \/ client = "failed"
  BY DEF AnnounceAll

LEMMA OInvInit == DInit => OInv
<1> SUFFICES ASSUME DInit PROVE OInv
  OBVIOUS
<1>1. TypesOK
  BY FS_EmptySet DEF DInit, TypesOK, ClientState
<1>2. NoGroupYet /\ FailureTold /\ OfferedIsTheList
  BY DEF DInit, NoGroupYet, FailureTold, OfferedIsTheList
<1> QED  BY <1>1, <1>2 DEF OInv

\* What happens outside of the announcements leaves all of it alone, as long as
\* the bus only gets longer.
LEMMA OInvElsewhere ==
  ASSUME OInv, UNCHANGED <<client, avahi, group, announcements, suffix, offered>>,
         bus' \in Seq(Answer), IsFiniteSet(net'), net' \subseteq Place,
         FailureComes => FailureComes',
         bus' = <<>> \/ client = "running" \/ client = "failed"
  PROVE  OInv'
<1>1. TypesOK' /\ FailureTold' /\ NoGroupYet'
  BY DEF OInv, TypesOK, FailureTold, NoGroupYet
<1>2. Reachable' => Reachable
  BY ReachableIs DEF Reachable, FailureComes
<1>3. OfferedIsTheList'
  BY <1>2 DEF OInv, OfferedIsTheList
<1> QED  BY <1>1, <1>3 DEF OInv

\* What Avahi does by itself: it says something while it is reachable, or
\* nothing; coming and going change more than the bus.
LEMMA OInvAvahi == OInv /\ Avahi => OInv'
<1> SUFFICES ASSUME OInv, Avahi PROVE OInv'
  OBVIOUS
<1> USE DEF OInv, TypesOK
<1>1. ASSUME NEW x \in Place, Appear(x) PROVE OInv'
  <2>1. IsFiniteSet(net') /\ net' \subseteq Place /\ IsFiniteSet({x}) /\ {x} \subseteq Place
    BY <1>1, FS_AddElement, FS_Singleton DEF Appear
  <2>2. News({x}) \in Seq(Answer)
    BY <2>1, NewsAreAnswers
  <2>3. bus' \in Seq(Answer) /\ (FailureComes => FailureComes')
    BY <1>1, <2>2, SayKeepsFailure DEF Appear, FailureComes
  <2>4. UNCHANGED <<client, avahi, group, announcements, suffix, offered>>
    BY <1>1 DEF Appear, ours
  <2>5. bus' = bus \/ client = "running"
    BY <1>1 DEF Appear, Reachable
  <2>6. client \in {"none", "connecting"} => bus = <<>>
    BY DEF NoGroupYet
  <2>7. bus' = <<>> \/ client = "running" \/ client = "failed"
    BY <2>5, <2>6 DEF ClientState
  <2> QED  BY <2>1, <2>3, <2>4, <2>7, OInvElsewhere
<1>2. ASSUME NEW x \in Place, Leave(x) PROVE OInv'
  <2>1. IsFiniteSet(net') /\ net' \subseteq Place
    BY <1>2, FS_RemoveElement DEF Leave
  <2>2. <<[kind |-> "remove", at |-> x]>> \in Seq(Answer)
    BY DEF Answer
  <2>3. bus' \in Seq(Answer) /\ (FailureComes => FailureComes')
    BY <1>2, <2>2, SayKeepsFailure DEF Leave, FailureComes
  <2>4. UNCHANGED <<client, avahi, group, announcements, suffix, offered>>
    BY <1>2 DEF Leave, ours
  <2>5. bus' = bus \/ client = "running"
    BY <1>2 DEF Leave, Reachable
  <2>6. client \in {"none", "connecting"} => bus = <<>>
    BY DEF NoGroupYet
  <2>7. bus' = <<>> \/ client = "running" \/ client = "failed"
    BY <2>5, <2>6 DEF ClientState
  <2> QED  BY <2>1, <2>3, <2>4, <2>7, OInvElsewhere
<1>3. ASSUME NEW x \in Place, Resolve(x) PROVE OInv'
  <2>1. \A k \in {"found", "failure"} : <<[kind |-> k, at |-> x]>> \in Seq(Answer)
    BY DEF Answer
  <2>2. bus' \in Seq(Answer) /\ (FailureComes => FailureComes')
    BY <1>3, <2>1, SayKeepsFailure DEF Resolve
  <2>3. UNCHANGED <<client, avahi, net, group, announcements, suffix, offered>>
    BY <1>3 DEF Resolve, ours
  <2> QED  BY <1>3, <2>2, <2>3, OInvElsewhere DEF Resolve, Reachable
<1>4. ASSUME Decide PROVE OInv'
  <2>1. \A st \in {"established", "collision"} : <<[kind |-> "group", state |-> st]>> \in Seq(Answer)
    BY DEF Answer
  <2>2. bus' \in Seq(Answer) /\ (FailureComes => FailureComes')
    BY <1>4, <2>1, SayKeepsFailure DEF Decide
  <2>3. UNCHANGED <<client, avahi, net, group, announcements, suffix, offered>>
    BY <1>4 DEF Decide, ours
  <2> QED  BY <1>4, <2>2, <2>3, OInvElsewhere DEF Decide, Reachable
<1>5. ASSUME Start PROVE OInv'
  <2>1. CASE client = "connecting" /\ Running
    <3>1. bus = <<>> /\ offered' = {} /\ client' = "running" /\ avahi' = TRUE
          /\ group' = "uncommitted" /\ net' = net
      BY <1>5, <2>1 DEF Start, Running, Unannounced, OfferedIsTheList, NoGroupYet
    <3>2. bus' \in Seq(Answer)
      BY <2>1, NewsAreAnswers, SayKeepsFailure DEF Running
    <3> QED  BY <3>1, <3>2 DEF NoGroupYet, FailureTold, OfferedIsTheList, ClientState
  <2>2. CASE UNCHANGED <<client, retry, browser, bus, listed, group>> /\ client # "connecting"
    <3>1. UNCHANGED <<client, bus, group, announcements, suffix, offered, net>> /\ ~avahi
      BY <1>5, <2>2 DEF Start, Unannounced
    <3>2. Reachable' => client = "running" /\ ~FailureComes
      BY <3>1, ReachableIs DEF Reachable, FailureComes
    <3>3. ~Reachable'
      BY <3>1, <3>2 DEF FailureTold
    <3>4. FailureTold' /\ NoGroupYet' /\ TypesOK'
      BY <1>5, <3>1 DEF Start, FailureTold, NoGroupYet, FailureComes
    <3> QED  BY <3>3, <3>4 DEF OfferedIsTheList
  <2> QED  BY <1>5, <2>1, <2>2 DEF Start
<1>6. ASSUME Crash PROVE OInv'
  <2>1. <<[kind |-> "client", state |-> "failed"]>> \in Seq(Answer)
    BY DEF Answer
  <2>2. /\ bus' \in Seq(Answer)
        /\ FailureComes => FailureComes'
        /\ Reachable => FailureComes'
    <3>1. CASE Reachable
      <4>1. /\ bus' = bus \o <<[kind |-> "client", state |-> "failed"]>>
            /\ bus' \in Seq(Answer)
        BY <1>6, <2>1, <3>1, SayKeepsFailure DEF Crash, Say
      <4>2. Len(bus) + 1 \in DOMAIN bus' /\ bus'[Len(bus) + 1].kind = "client"
        BY <2>1, <4>1
      <4> QED  BY <4>1, <4>2 DEF FailureComes
    <3>2. CASE ~Reachable
      BY <1>6, <3>2 DEF Crash, FailureComes
    <3> QED  BY <3>1, <3>2
  <2>3. UNCHANGED <<client, group, announcements, suffix, offered, net>> /\ avahi /\ ~avahi'
    BY <1>6 DEF Crash, ours
  <2>4. FailureTold'
    BY <2>2, <2>3, ReachableIs DEF FailureTold
  <2>5. NoGroupYet'
    BY <1>6, <2>3 DEF Crash, NoGroupYet, Reachable
  <2>6. ~Reachable'
    BY <2>3 DEF Reachable
  <2> QED  BY <2>2, <2>3, <2>4, <2>5, <2>6 DEF OfferedIsTheList
<1> QED  BY <1>1, <1>2, <1>3, <1>4, <1>5, <1>6 DEF Avahi

\* The calls of this program that change its announcements or its client.
LEMMA OInvAnnounce ==
  ASSUME OInv, NEW list, NEW state, AnnounceAll(list, state),
         announcements' = list, avahi' = avahi, client' = client, net' = net,
         bus' \in Seq(Answer), FailureComes => FailureComes',
         client \in {"none", "connecting"} => bus' = <<>> /\ state = "none",
         state = "none" => group = "none"
  PROVE  OInv'
<1>1. group' = "none" => offered' = {} /\ state = "none"
  BY AnnounceAllOffers DEF OInv, NoGroupYet
<1>2. NoGroupYet'
  BY <1>1 DEF OInv, NoGroupYet, AnnounceAll
<1>3. FailureTold' /\ TypesOK'
  BY DEF OInv, FailureTold, TypesOK
<1>4. Reachable' => Reachable /\ client # "failed"
  BY ReachableIs DEF Reachable, FailureComes
<1>5. OfferedIsTheList'
  BY <1>4, AnnounceAllOffers DEF OInv, NoGroupYet, OfferedIsTheList
<1> QED  BY <1>2, <1>3, <1>5 DEF OInv

LEMMA OInvConnect == OInv /\ Connect => OInv'
<1> SUFFICES ASSUME OInv, Connect PROVE OInv'
  OBVIOUS
<1>1. /\ client = "none" /\ group = "none" /\ bus = <<>> /\ offered = {}
      /\ UNCHANGED <<avahi, net, announcements, suffix, offered>>
  BY DEF OInv, NoGroupYet, Connect, Unannounced
<1>2. CASE client' \in {"none", "connecting"} /\ UNCHANGED <<browser, group, bus, listed>>
  BY <1>1, <1>2 DEF OInv, TypesOK, NoGroupYet, FailureTold, OfferedIsTheList, ClientState, Reachable
<1>3. CASE avahi /\ Running
  <2>1. bus' \in Seq(Answer)
    BY <1>3, NewsAreAnswers, SayKeepsFailure DEF Running, OInv, TypesOK
  <2> QED  BY <1>1, <1>3, <2>1
           DEF OInv, TypesOK, NoGroupYet, FailureTold, OfferedIsTheList, ClientState, Running
<1> QED  BY <1>2, <1>3 DEF Connect

\* An announcement made or withdrawn: all of the list again.
LEMMA OInvChange ==
  ASSUME OInv, NEW a \in Own, Announce(a) \/ Unannounce(a)
  PROVE  OInv'
<1>1. AnnounceAll(announcements', group)
  BY DEF Announce, Unannounce
<1>2. avahi' = avahi /\ net' = net /\ bus' = bus /\ client' = client
  BY DEF Announce, Unannounce
<1>3. client \in {"none", "connecting"} => bus' = <<>> /\ group = "none"
  BY <1>2 DEF OInv, NoGroupYet
<1>4. bus' \in Seq(Answer) /\ (FailureComes => FailureComes')
  BY <1>2 DEF OInv, TypesOK, FailureComes
<1> QED  BY <1>1, <1>2, <1>3, <1>4, OInvAnnounce

LEMMA OInvCallback == OInv /\ Callback => OInv'
<1> SUFFICES ASSUME OInv, Callback PROVE OInv'
  OBVIOUS
<1>1. bus # <<>> /\ client \notin {"none", "connecting"}
  BY DEF Callback, OInv, NoGroupYet
<1>2. bus' = Tail(bus)
  BY DEF Callback, OnBrowse, OnResolve, OnGroup, OnClient
<1>3. /\ Head(bus) \in Answer
      /\ bus' \in Seq(Answer)
      /\ Head(bus).kind # "client" => (FailureComes => FailureComes')
  BY <1>1, <1>2, TailKeepsFailure DEF OInv, TypesOK
<1>4. client = "running" \/ client = "failed"
  BY <1>1 DEF OInv, TypesOK, ClientState
<1>5. ASSUME OnBrowse(Head(bus)) \/ OnResolve(Head(bus)) PROVE OInv'
  <2>1. Head(bus).kind # "client"
    BY <1>5 DEF OnBrowse, OnResolve
  <2>2. UNCHANGED <<client, avahi, net, group, announcements, suffix, offered>>
    BY <1>5 DEF OnBrowse, OnResolve, ours, outside
  <2> QED  BY <1>3, <1>4, <2>1, <2>2, OInvElsewhere DEF OInv, TypesOK
<1>6. ASSUME OnGroup(Head(bus)) PROVE OInv'
  <2>1. /\ Head(bus).kind # "client"
        /\ UNCHANGED <<client, avahi, net, announcements>>
    BY <1>6 DEF OnGroup
  <2>2. CASE AnnounceAll(announcements, "collision")
    <3>1. announcements' = announcements /\ avahi' = avahi /\ client' = client /\ net' = net
      BY <2>1
    <3>2. client \in {"none", "connecting"} => bus' = <<>> /\ "collision" = "none"
      BY <1>1
    <3> QED  BY <1>3, <2>1, <2>2, <3>1, <3>2, OInvAnnounce
  <2>3. CASE group' = "established" /\ UNCHANGED <<suffix, offered, job>>
    <3>1. NoGroupYet' /\ FailureTold' /\ TypesOK'
      BY <1>1, <1>3, <2>1, <2>3 DEF OInv, TypesOK, NoGroupYet, FailureTold
    <3>2. Reachable' => Reachable
      BY <1>3, <2>1, ReachableIs DEF Reachable, FailureComes
    <3> QED  BY <2>1, <2>3, <3>1, <3>2 DEF OInv, OfferedIsTheList
  <2> QED  BY <1>6, <2>2, <2>3 DEF OnGroup
<1>7. ASSUME OnClient(Head(bus)) PROVE OInv'
  <2>1. client' = "failed" /\ UNCHANGED <<net, group, offered>>
    BY <1>3, <1>7 DEF OnClient, Answer, outside, Unannounced
  <2> QED  BY <1>3, <2>1
           DEF OInv, TypesOK, NoGroupYet, FailureTold, OfferedIsTheList, ClientState, Reachable
<1> QED  BY <1>5, <1>6, <1>7 DEF Callback

LEMMA OInvUser == OInv /\ User => OInv'
<1> SUFFICES ASSUME OInv, User PROVE OInv'
  OBVIOUS
<1>1. ASSUME NEW a \in Own, Announce(a) \/ Unannounce(a) PROVE OInv'
  BY <1>1, OInvChange
<1>2. ASSUME UNCHANGED <<outside, bus, ours>> PROVE OInv'
  <2>1. UNCHANGED <<client, avahi, net, bus, group, announcements, suffix, offered>>
    BY <1>2 DEF outside, ours
  <2> QED  BY <2>1 DEF OInv, TypesOK, NoGroupYet, FailureTold, FailureComes, OfferedIsTheList, Reachable
<1> QED  BY <1>1, <1>2 DEF User, RouterRemove, MdnsRemove

LEMMA OInvStep == OInv /\ [DNext]_dvars => OInv'
<1> SUFFICES ASSUME OInv, [DNext]_dvars PROVE OInv'
  OBVIOUS
<1>1. CASE UNCHANGED dvars
  BY <1>1 DEF dvars, outside, ours, OInv, TypesOK, NoGroupYet, FailureTold, FailureComes,
              OfferedIsTheList, Reachable
<1> QED  BY <1>1, OInvAvahi, OInvCallback, OInvConnect, OInvUser DEF DNext

\* announce_all, whenever it runs, leaves Avahi with the whole list under one
\* name, or with nothing: no announcement is left out of a commit or stays in
\* one after it was withdrawn, and none keeps an older name
\* (lib/mdns_rtpmidi.cpp, announce_all).
THEOREM DiscoveryOffersTheList == DSpec => []OfferedIsTheList
<1>1. OInv => OfferedIsTheList
  BY DEF OInv
<1> QED  BY <1>1, OInvInit, OInvStep, PTL DEF DSpec

-----------------------------------------------------------------------------
(* Listeners.  A server is looked for in the handler's list first, and then  *)
(* among what the router has: so the handler's entry of a name has to be     *)
(* that name's listener, and what the router has has to exist.               *)

KnownByName == \A n \in DOMAIN known :
                  known[n] \in DOMAIN listeners /\ listeners[known[n]].name = n

LInv == KnownByName /\ routed \subseteq DOMAIN listeners /\ OneListenerPerName

LEMMA LInvInit == DInit => LInv
<1> SUFFICES ASSUME DInit PROVE LInv
  OBVIOUS
<1> DEFINE name == SetToSeq(Configured)
           last == Cardinality(Configured)
<1>1. \A i, j \in 1..last : name[i] = name[j] => i = j
  BY DiscoveryAssumption, SetToSeqIs
<1> HIDE DEF name, last
<1>2. listeners = [i \in 1..last |-> [name |-> name[i], ways |-> {}]] /\ routed = 1..last
  BY DEF DInit, name, last
<1>3. known = <<>>
  BY DEF DInit
<1> QED  BY <1>1, <1>2, <1>3 DEF LInv, KnownByName, OneListenerPerName

\* A server that is found gets the listener of its name, or one that is new.
LEMMA DiscoverKeepsLInv ==
  ASSUME LInv, NEW n, NEW w, DiscoverPeer(n, w)
  PROVE  LInv'
<1> DEFINE i == ListenerOf(n)
<1>1. \/ i \in DOMAIN listeners /\ listeners[i].name = n /\ n \in DOMAIN known
      \/ i \in routed /\ i \in DOMAIN listeners /\ listeners[i].name = n
      \/ /\ i \notin DOMAIN listeners
         /\ \A j \in routed : listeners[j].name # n
  <2>1. CASE n \in DOMAIN known
    BY <2>1 DEF ListenerOf, LInv, KnownByName
  <2>2. CASE n \notin DOMAIN known /\ RoutedAs(n) # {}
    <3>1. i = CHOOSE k \in RoutedAs(n) : TRUE
      BY <2>2 DEF ListenerOf
    <3>2. i \in RoutedAs(n)
      BY <2>2, <3>1
    <3> QED  BY <3>2 DEF RoutedAs, LInv
  <2>3. CASE n \notin DOMAIN known /\ RoutedAs(n) = {}
    <3>1. i = Fresh
      BY <2>3 DEF ListenerOf
    <3>2. \E k \in 1..MaxId : k \notin DOMAIN listeners
      BY <2>3 DEF DiscoverPeer, Available
    <3>3. i \notin DOMAIN listeners
      BY <3>1, <3>2 DEF Fresh
    <3> QED  BY <2>3, <3>3 DEF RoutedAs
  <2> QED  BY <2>1, <2>2, <2>3
<1> HIDE DEF i
<1>2. /\ DOMAIN known' = DOMAIN known \cup {n}
      /\ known'[n] = i
      /\ \A m \in DOMAIN known : m # n => known'[m] = known[m]
  BY DEF DiscoverPeer, i, Put
<1>3. /\ DOMAIN listeners' = DOMAIN listeners \cup {i}
      /\ listeners'[i].name = n
      /\ \A j \in DOMAIN listeners : j # i => listeners'[j] = listeners[j]
  BY DEF DiscoverPeer, i, Put
<1>4. routed' = IF i \in DOMAIN listeners THEN routed ELSE routed \cup {i}
  BY DEF DiscoverPeer, i
<1>5. KnownByName'
  BY <1>1, <1>2, <1>3 DEF LInv, KnownByName
<1>6. routed' \subseteq DOMAIN listeners'
  BY <1>3, <1>4 DEF LInv
<1>7. \A j \in DOMAIN listeners : listeners'[j].name = listeners[j].name
  BY <1>1, <1>3
<1>8. OneListenerPerName'
  BY <1>1, <1>3, <1>4, <1>7 DEF LInv, OneListenerPerName
<1> QED  BY <1>5, <1>6, <1>8 DEF LInv

\* What is removed by the handler, or by the router, leaves the others as they are.
LEMMA RemoveKeepsLInv ==
  ASSUME LInv, NEW N \in SUBSET DOMAIN known, known' = Restrict(known, N),
         routed' \subseteq routed, listeners' = Keep(listeners, routed', known')
  PROVE  LInv'
<1>1. DOMAIN known' = N /\ \A n \in N : known'[n] = known[n]
  BY DEF Restrict
<1>2. /\ DOMAIN listeners' = routed' \cup Range(known')
      /\ \A i \in routed' \cup Range(known') : listeners'[i] = listeners[i]
  BY DEF Keep, Restrict
<1>3. \A n \in N : known'[n] \in DOMAIN listeners'
  BY <1>1, <1>2 DEF Range
<1> QED  BY <1>1, <1>2, <1>3 DEF LInv, KnownByName, OneListenerPerName

LEMMA LInvRemovePeer == ASSUME LInv, NEW n, RemovePeer(n) PROVE LInv'
<1>1. known' = Restrict(known, DOMAIN known \ {n}) /\ listeners' = Keep(listeners, routed', known')
  BY DEF RemovePeer
<1>2. routed' \subseteq routed
  BY DEF RemovePeer
<1> QED  BY <1>1, <1>2, RemoveKeepsLInv

LEMMA LInvStep == LInv /\ [DNext]_dvars => LInv'
<1> SUFFICES ASSUME LInv, [DNext]_dvars PROVE LInv'
  OBVIOUS
<1>1. ASSUME UNCHANGED <<known, listeners, routed>> PROVE LInv'
  BY <1>1 DEF LInv, KnownByName, OneListenerPerName
<1>2. CASE UNCHANGED dvars \/ Avahi \/ Connect
  <2>1. UNCHANGED <<known, listeners, routed>>
    BY <1>2 DEF dvars, theirs, Avahi, Appear, Leave, Resolve, Decide, Start, Crash, Connect
  <2> QED  BY <1>1, <2>1
<1>3. ASSUME NEW x, Found(x) PROVE LInv'
  BY <1>1, <1>3, DiscoverKeepsLInv DEF Found, Undiscovered
<1>4. ASSUME NEW n, Removed(n) PROVE LInv'
  BY <1>1, <1>4, LInvRemovePeer DEF Removed, Undiscovered
<1>5. CASE Callback
  <2>1. CASE OnBrowse(Head(bus))
    BY <1>1, <1>4, <2>1 DEF OnBrowse, theirs
  <2>2. CASE OnResolve(Head(bus))
    BY <1>3, <2>2, LInvRemovePeer DEF OnResolve, Unresolved
  <2>3. CASE OnGroup(Head(bus)) \/ OnClient(Head(bus))
    BY <1>1, <2>3 DEF OnGroup, OnClient, theirs
  <2> QED  BY <1>5, <2>1, <2>2, <2>3 DEF Callback
<1>6. CASE User
  <2>1. ASSUME NEW a \in Own, Announce(a) \/ Unannounce(a) PROVE LInv'
    BY <1>1, <2>1 DEF Announce, Unannounce, theirs
  <2>2. ASSUME NEW i \in routed, RouterRemove(i) PROVE LInv'
    <3>1. routed' \subseteq routed /\ known' = known /\ listeners' = Keep(listeners, routed', known)
      BY <2>2 DEF RouterRemove
    <3>2. /\ DOMAIN listeners' = routed' \cup Range(known)
          /\ \A j \in routed' \cup Range(known) : listeners'[j] = listeners[j]
      BY <3>1 DEF Keep, Restrict
    <3>3. \A n \in DOMAIN known : known[n] \in DOMAIN listeners'
      BY <3>2 DEF Range
    <3> QED  BY <3>1, <3>2, <3>3 DEF LInv, KnownByName, OneListenerPerName
  <2>3. ASSUME NEW n \in Server, MdnsRemove(n) PROVE LInv'
    BY <2>3, LInvRemovePeer DEF MdnsRemove
  <2> QED  BY <1>6, <2>1, <2>2, <2>3 DEF User
<1> QED  BY <1>2, <1>5, <1>6 DEF DNext

\* The router never has two ports for one server, whether it is configured, found
\* by several ways, or removed by a user and found again
\* (src/rtpmidiremotehandler.cpp, make_local_alsa_listener).
THEOREM DiscoveryOneListener == DSpec => []OneListenerPerName
<1>1. LInv => OneListenerPerName
  BY DEF LInv
<1> QED  BY <1>1, LInvInit, LInvStep, PTL DEF DSpec

-----------------------------------------------------------------------------
(* Types.  What this program keeps of Avahi's objects, and what the handler  *)
(* keeps of servers.                                                         *)

OursTyped ==
    /\ avahi \in BOOLEAN /\ listed \subseteq Place /\ resolving \subseteq Place
    /\ job \in BOOLEAN /\ retry \in BOOLEAN /\ browser \in BOOLEAN
    /\ group \in GroupState
    /\ announcements \subseteq Own /\ suffix \in Nat /\ offered \subseteq Own \X Nat
    /\ changes \in 0..MaxChanges
    /\ retry <=> client = "none"

TheirsTyped ==
    /\ remotes \subseteq Place
    /\ DOMAIN known \subseteq Server
    /\ DOMAIN listeners \subseteq 1..MaxId
    /\ \A i \in DOMAIN listeners : listeners[i] \in [name : Server, ways : SUBSET Way]
    /\ lost \subseteq Server

TInv == OInv /\ LInv /\ OursTyped /\ TheirsTyped

LEMMA TInvInit == DInit => TInv
<1> SUFFICES ASSUME DInit PROVE TInv
  OBVIOUS
<1>1. OursTyped
  <2>1. retry = TRUE /\ client = "none"
    BY DEF DInit
  <2>2. retry <=> client = "none"
    BY <2>1
  <2>3. changes \in 0..MaxChanges
    BY DiscoveryAssumption DEF DInit
  <2> QED  BY <2>1, <2>2, <2>3 DEF DInit, OursTyped, GroupState
<1>2. TheirsTyped
  <2> DEFINE name == SetToSeq(Configured)
             last == Cardinality(Configured)
  <2>1. last \in Nat /\ last <= MaxId /\ \A i \in 1..last : name[i] \in Server
    BY DiscoveryAssumption, SetToSeqIs
  <2>2. listeners = [i \in 1..last |-> [name |-> name[i], ways |-> {}]]
    BY DEF DInit
  <2> HIDE DEF name, last
  <2>3. DOMAIN listeners \subseteq 1..MaxId
    BY <2>1, <2>2, DiscoveryAssumption
  <2>4. \A i \in DOMAIN listeners : listeners[i] \in [name : Server, ways : SUBSET Way]
    BY <2>1, <2>2
  <2>5. remotes = {} /\ DOMAIN known = {} /\ lost = {}
    BY DEF DInit
  <2> QED  BY <2>3, <2>4, <2>5 DEF TheirsTyped
<1> QED  BY <1>1, <1>2, OInvInit, LInvInit DEF TInv

\* What announce_all does to the group.
LEMMA AnnounceAllTyped ==
  ASSUME OursTyped, NEW list \in SUBSET Own, NEW state \in GroupState, AnnounceAll(list, state)
  PROVE  group' \in GroupState /\ suffix' \in Nat /\ offered' \subseteq Own \X Nat /\ job' \in BOOLEAN
<1>1. NextSuffix(state) \in Nat
  BY DEF NextSuffix, OursTyped
<1>2. suffix' \in Nat
  <2>1. \A k \in {0, 1} : NextSuffix(state) + k \in Nat
    BY <1>1
  <2> QED  BY <1>1, <2>1 DEF AnnounceAll, OursTyped
<1>3. group' \in GroupState
  BY DEF AnnounceAll, GroupState
<1>4. offered' = offered \/ offered' = {} \/ offered' = list \X {suffix'}
  BY DEF AnnounceAll
<1>5. offered' \subseteq Own \X Nat
  BY <1>2, <1>4 DEF OursTyped
<1>6. job' \in BOOLEAN
  BY DEF AnnounceAll, OursTyped
<1> QED  BY <1>2, <1>3, <1>5, <1>6

LEMMA OursTypedStep == TInv /\ [DNext]_dvars => OursTyped'
<1> SUFFICES ASSUME TInv, [DNext]_dvars PROVE OursTyped'
  OBVIOUS
<1>0. OursTyped /\ TypesOK
  BY DEF TInv, OInv
<1>1. CASE UNCHANGED dvars
  BY <1>0, <1>1 DEF dvars, outside, ours, OursTyped
<1>2. CASE Avahi
  <2>1. ASSUME NEW x \in Place, Appear(x) \/ Leave(x) \/ Resolve(x) PROVE OursTyped'
    <3>1. listed' \subseteq Place /\ resolving' \subseteq Place
      BY <1>0, <2>1 DEF Appear, Leave, Resolve, OursTyped
    <3>2. UNCHANGED <<avahi, job, retry, browser, group, announcements, suffix, offered, changes, client>>
      BY <2>1 DEF Appear, Leave, Resolve, ours
    <3> QED  BY <1>0, <3>1, <3>2 DEF OursTyped
  <2>2. CASE Decide
    <3>1. job' \in BOOLEAN
      BY <2>2 DEF Decide
    <3>2. UNCHANGED <<avahi, listed, resolving, retry, browser, group, announcements, suffix, offered, changes, client>>
      BY <2>2 DEF Decide, ours
    <3> QED  BY <1>0, <3>1, <3>2 DEF OursTyped
  <2>3. CASE Start
    <3>1. avahi' \in BOOLEAN
      BY <2>3 DEF Start
    <3>2. UNCHANGED <<resolving, job, announcements, suffix, offered, changes>>
      BY <2>3 DEF Start, Unannounced
    <3>3. CASE client = "connecting" /\ Running
      BY <1>0, <3>1, <3>2, <3>3 DEF Running, OursTyped, TypesOK, GroupState
    <3>4. CASE UNCHANGED <<client, retry, browser, bus, listed, group>>
      BY <1>0, <3>1, <3>2, <3>4 DEF OursTyped
    <3> QED  BY <2>3, <3>3, <3>4 DEF Start
  <2>4. CASE Crash
    <3>1. avahi' = FALSE /\ job' = FALSE /\ listed' = {} /\ resolving' = {}
      BY <2>4 DEF Crash
    <3>2. UNCHANGED <<retry, browser, group, announcements, suffix, offered, changes, client>>
      BY <2>4 DEF Crash, ours
    <3> QED  BY <1>0, <3>1, <3>2 DEF OursTyped
  <2> QED  BY <1>2, <2>1, <2>2, <2>3, <2>4 DEF Avahi
<1>3. CASE Connect
  BY <1>0, <1>3 DEF Connect, Running, Unannounced, OursTyped, TypesOK, GroupState
<1>4. CASE Callback
  <2>1. bus # <<>> /\ Head(bus) \in Answer
    BY <1>0, <1>4, TailKeepsFailure, HeadTailProperties DEF Callback, TypesOK
  <2>2. CASE OnBrowse(Head(bus))
    <3>1. resolving' \subseteq Place
      BY <1>0, <2>1, <2>2 DEF OnBrowse, Answer, OursTyped
    <3>2. UNCHANGED <<avahi, listed, job, client, retry, browser, group, announcements, suffix, offered, changes>>
      BY <2>2 DEF OnBrowse, ours
    <3> QED  BY <1>0, <3>1, <3>2 DEF OursTyped
  <2>3. CASE OnResolve(Head(bus))
    BY <1>0, <2>3 DEF OnResolve, outside, ours, OursTyped
  <2>4. CASE OnGroup(Head(bus))
    <3>1. UNCHANGED <<avahi, listed, resolving, client, retry, browser, announcements, changes>>
      BY <2>4 DEF OnGroup
    <3>2. group' \in GroupState /\ suffix' \in Nat /\ offered' \subseteq Own \X Nat /\ job' \in BOOLEAN
      <4>1. CASE AnnounceAll(announcements, "collision")
        <5>1. "collision" \in GroupState /\ announcements \in SUBSET Own
          BY <1>0 DEF OursTyped, GroupState
        <5> QED  BY <1>0, <4>1, <5>1, AnnounceAllTyped
      <4>2. CASE group' = "established" /\ UNCHANGED <<suffix, offered, job>>
        BY <1>0, <4>2 DEF OursTyped, GroupState
      <4> QED  BY <2>4, <4>1, <4>2 DEF OnGroup
    <3> QED  BY <1>0, <3>1, <3>2 DEF OursTyped
  <2>5. CASE OnClient(Head(bus))
    <3>1. client' = "failed" /\ client # "none"
      BY <1>0, <1>4, <2>1, <2>5 DEF OnClient, Answer, TInv, OInv, NoGroupYet
    <3> QED  BY <1>0, <2>5, <3>1 DEF OnClient, outside, Unannounced, OursTyped
  <2> QED  BY <1>4, <2>2, <2>3, <2>4, <2>5 DEF Callback
<1>5. CASE User
  <2>1. ASSUME NEW a \in Own, Announce(a) \/ Unannounce(a) PROVE OursTyped'
    <3>1. /\ announcements' \subseteq Own /\ AnnounceAll(announcements', group)
          /\ changes' \in 0..MaxChanges
          /\ UNCHANGED <<avahi, listed, resolving, client, retry, browser>>
      BY <1>0, <2>1, DiscoveryAssumption DEF Announce, Unannounce, Change, OursTyped
    <3>2. group' \in GroupState /\ suffix' \in Nat /\ offered' \subseteq Own \X Nat /\ job' \in BOOLEAN
      <4>1. group \in GroupState /\ announcements' \in SUBSET Own
        BY <1>0, <3>1 DEF OursTyped
      <4> QED  BY <1>0, <3>1, <4>1, AnnounceAllTyped
    <3> QED  BY <1>0, <3>1, <3>2 DEF OursTyped
  <2>2. ASSUME UNCHANGED <<outside, bus, ours>> PROVE OursTyped'
    BY <1>0, <2>2 DEF outside, ours, OursTyped
  <2> QED  BY <1>5, <2>1, <2>2 DEF User, RouterRemove, MdnsRemove
<1> QED  BY <1>1, <1>2, <1>3, <1>4, <1>5 DEF DNext

\* What is found keeps to its type.
LEMMA DiscoverTyped ==
  ASSUME TInv, NEW n \in Server, NEW w \in Way, DiscoverPeer(n, w)
  PROVE  /\ DOMAIN known' = DOMAIN known \cup {n}
         /\ DOMAIN listeners' \subseteq 1..MaxId
         /\ \A i \in DOMAIN listeners' : listeners'[i] \in [name : Server, ways : SUBSET Way]
<1> DEFINE i == ListenerOf(n)
           ways == IF i \in DOMAIN listeners THEN listeners[i].ways ELSE {}
<1>1. i \in 1..MaxId
  <2>1. CASE n \in DOMAIN known
    BY <2>1 DEF ListenerOf, TInv, LInv, KnownByName, TheirsTyped
  <2>2. CASE n \notin DOMAIN known /\ RoutedAs(n) # {}
    <3>1. i = CHOOSE k \in RoutedAs(n) : TRUE
      BY <2>2 DEF ListenerOf
    <3>2. i \in RoutedAs(n)
      BY <2>2, <3>1
    <3> QED  BY <3>2 DEF RoutedAs, TInv, LInv, TheirsTyped
  <2>3. CASE n \notin DOMAIN known /\ RoutedAs(n) = {}
    <3>1. i = Fresh
      BY <2>3 DEF ListenerOf
    <3>2. \E k \in 1..MaxId : k \notin DOMAIN listeners
      BY <2>3 DEF DiscoverPeer, Available
    <3> QED  BY <3>1, <3>2 DEF Fresh
  <2> QED  BY <2>1, <2>2, <2>3
<1>2. ways \subseteq Way
  BY DEF TInv, TheirsTyped
<1>3. known' = Put(known, n, i) /\ listeners' = Put(listeners, i, [name |-> n, ways |-> ways \cup {w}])
  BY DEF DiscoverPeer
<1> HIDE DEF i, ways
<1> QED  BY <1>1, <1>2, <1>3 DEF Put, TInv, TheirsTyped

LEMMA RemoveTyped ==
  ASSUME TInv, NEW n, RemovePeer(n), Forgotten(n), n \in Server
  PROVE  /\ DOMAIN known' = DOMAIN known \ {n}
         /\ DOMAIN listeners' \subseteq 1..MaxId
         /\ \A i \in DOMAIN listeners' : listeners'[i] \in [name : Server, ways : SUBSET Way]
         /\ lost \subseteq lost' /\ lost' \subseteq Server
         /\ StillThere(n) => n \in lost'
<1>1. /\ known' = Restrict(known, DOMAIN known \ {n})
      /\ routed' \subseteq routed
      /\ listeners' = Keep(listeners, routed', known')
  BY DEF RemovePeer
<1>2. DOMAIN known' = DOMAIN known \ {n} /\ \A m \in DOMAIN known' : known'[m] = known[m]
  BY <1>1 DEF Restrict
<1>3. routed' \cup Range(known') \subseteq DOMAIN listeners
  BY <1>1, <1>2 DEF Range, TInv, LInv, KnownByName
<1>4. /\ DOMAIN listeners' \subseteq DOMAIN listeners
      /\ \A i \in DOMAIN listeners' : listeners'[i] = listeners[i]
  BY <1>1, <1>3 DEF Keep, Restrict
<1> QED  BY <1>2, <1>4 DEF Forgotten, TInv, TheirsTyped

LEMMA TheirsTypedStep == TInv /\ [DNext]_dvars => TheirsTyped'
<1> SUFFICES ASSUME TInv, [DNext]_dvars PROVE TheirsTyped'
  OBVIOUS
<1>0. TheirsTyped /\ TypesOK
  BY DEF TInv, OInv
<1>1. ASSUME UNCHANGED theirs PROVE TheirsTyped'
  BY <1>0, <1>1 DEF theirs, TheirsTyped
<1>2. CASE UNCHANGED dvars \/ Avahi \/ Connect
  <2>1. UNCHANGED theirs
    BY <1>2 DEF dvars, Avahi, Appear, Leave, Resolve, Decide, Start, Crash, Connect
  <2> QED  BY <1>1, <2>1
<1>3. ASSUME NEW n \in Server, RemovePeer(n), Forgotten(n), remotes' \subseteq remotes PROVE TheirsTyped'
  BY <1>0, <1>3, RemoveTyped DEF TheirsTyped
<1>4. CASE Callback
  <2>1. bus # <<>> /\ Head(bus) \in Answer
    BY <1>0, <1>4, HeadTailProperties DEF Callback, TypesOK
  <2>2. CASE OnBrowse(Head(bus))
    <3>1. CASE UNCHANGED theirs
      BY <1>1, <3>1
    <3>2. CASE Head(bus).kind = "remove" /\ Removed(Head(bus).at[1])
      <4>1. Head(bus).at[1] \in Server
        BY <2>1, <3>2 DEF Answer, Place
      <4>2. CASE UNCHANGED remotes /\ Undiscovered
        BY <1>1, <4>2 DEF Undiscovered, theirs
      <4> QED  BY <1>3, <3>2, <4>1, <4>2 DEF Removed, RemotesWithout
    <3> QED  BY <2>2, <3>1, <3>2 DEF OnBrowse
  <2>3. CASE OnResolve(Head(bus))
    <3> DEFINE x == Head(bus).at
    <3>1. x \in Place /\ x[1] \in Server /\ x[2] \in Way
      BY <2>1, <2>3 DEF OnResolve, Answer, Place
    <3> HIDE DEF x
    <3>2. CASE Found(x)
      <4>1. remotes' \subseteq Place
        BY <1>0, <3>1, <3>2 DEF Found, TheirsTyped
      <4>2. CASE DiscoverPeer(x[1], x[2]) /\ lost' = lost \ ({x[1]} \ DOMAIN known)
        BY <1>0, <3>1, <4>1, <4>2, DiscoverTyped DEF TheirsTyped
      <4>3. CASE Undiscovered
        BY <1>0, <4>1, <4>3 DEF Undiscovered, TheirsTyped
      <4> QED  BY <3>2, <4>2, <4>3 DEF Found
    <3>3. CASE Unresolved(x)
      BY <1>3, <3>1, <3>3 DEF Unresolved
    <3> QED  BY <2>3, <3>2, <3>3 DEF OnResolve, x
  <2>4. CASE OnGroup(Head(bus)) \/ OnClient(Head(bus))
    BY <1>1, <2>4 DEF OnGroup, OnClient
  <2> QED  BY <1>4, <2>2, <2>3, <2>4 DEF Callback
<1>5. CASE User
  <2>1. ASSUME NEW a \in Own, Announce(a) \/ Unannounce(a) PROVE TheirsTyped'
    BY <1>1, <2>1 DEF Announce, Unannounce
  <2>2. ASSUME NEW i \in routed, RouterRemove(i) PROVE TheirsTyped'
    <3>1. /\ routed' \subseteq routed /\ UNCHANGED <<known, remotes>>
          /\ listeners' = Keep(listeners, routed', known)
          /\ lost' = lost \cup {listeners[i].name}
      BY <2>2 DEF RouterRemove
    <3>2. routed' \cup Range(known) \subseteq DOMAIN listeners
      BY <3>1 DEF Range, TInv, LInv, KnownByName
    <3>3. /\ DOMAIN listeners' \subseteq DOMAIN listeners
          /\ \A j \in DOMAIN listeners' : listeners'[j] = listeners[j]
      BY <3>1, <3>2 DEF Keep, Restrict
    <3>4. listeners[i].name \in Server
      BY <1>0 DEF TheirsTyped, TInv, LInv
    <3> QED  BY <1>0, <3>1, <3>3, <3>4 DEF TheirsTyped
  <2>3. ASSUME NEW n \in Server, MdnsRemove(n) PROVE TheirsTyped'
    BY <1>3, <2>3 DEF MdnsRemove, RemotesWithout
  <2> QED  BY <1>5, <2>1, <2>2, <2>3 DEF User
<1> QED  BY <1>2, <1>4, <1>5 DEF DNext

LEMMA TInvStep == TInv /\ [DNext]_dvars => TInv'
BY OInvStep, LInvStep, OursTypedStep, TheirsTypedStep DEF TInv

\* Every variable keeps to its type, in whatever order Avahi's answers, what this
\* program announces and what users remove come (lib/mdns_rtpmidi.cpp,
\* src/rtpmidiremotehandler.cpp).
THEOREM DiscoveryTypeCorrect == DSpec => []DTypeOK
<1>1. TInv => DTypeOK
  <2> SUFFICES ASSUME TInv PROVE DTypeOK
    OBVIOUS
  <2>1. Range(bus) \subseteq Answer
    BY DEF TInv, OInv, TypesOK, Range
  <2>2. Range(known) \subseteq DOMAIN listeners
    BY DEF TInv, LInv, KnownByName, Range
  <2>3. Range(listeners) \subseteq [name : Server, ways : SUBSET Way]
    BY DEF TInv, TheirsTyped, Range
  <2> QED  BY <2>1, <2>2, <2>3 DEF TInv, OInv, LInv, TypesOK, OursTyped, TheirsTyped, DTypeOK
<1> QED  BY <1>1, TInvInit, TInvStep, PTL DEF DSpec

-----------------------------------------------------------------------------
(* What the handler knows.  The bus is what it lags behind: a server that is *)
(* known and gone has its remove_event there, after everything that could    *)
(* make it known again; and one that can be reached and is not known has a   *)
(* resolver, or an answer on the bus that is about it.                       *)

Leaving(j, n) == bus[j].kind = "remove" /\ bus[j].at[1] = n

Awaited(x) == \/ x \in resolving
              \/ \E i \in DOMAIN bus : bus[i].kind \in {"new", "found", "failure"} /\ bus[i].at = x

KnownIsMentioned == \A n \in DOMAIN known : Mentioned(n)
NothingKnownYet  == client \in {"none", "connecting"} => DOMAIN known = {}
KnownIsRouted    == \A n \in DOMAIN known : n \notin lost => known[n] \in routed

ListedIsNet == listed = net
KnownLeaves == \A n \in DOMAIN known : StillThere(n) \/ \E j \in DOMAIN bus : Leaving(j, n)
FoundLeaves == \A n \in Server, i \in DOMAIN bus : bus[i].kind = "found" /\ bus[i].at[1] = n =>
                  StillThere(n) \/ \E j \in DOMAIN bus : j > i /\ Leaving(j, n)
ListedComes == \A x \in listed \cap Wanted :
                  x[1] \in lost \/ x[1] \in DOMAIN known \/ Awaited(x)

\* As long as Avahi answers, the bus has what the handler lacks.
BusTells == ListedIsNet /\ KnownLeaves /\ FoundLeaves /\ ListedComes

HInv == TInv /\ KnownIsMentioned /\ NothingKnownYet /\ KnownIsRouted /\ (Reachable => BusTells)

LEMMA HInvInit == DInit => HInv
<1> SUFFICES ASSUME DInit PROVE HInv
  OBVIOUS
<1>1. DOMAIN known = {} /\ ~Reachable
  BY DEF DInit, Reachable
<1> QED  BY <1>1, TInvInit DEF HInv, KnownIsMentioned, NothingKnownYet, KnownIsRouted

-----------------------------------------------------------------------------
\* One answer more on the bus.
LEMMA OneMore ==
  ASSUME bus \in Seq(Answer), NEW a \in Answer, Say(<<a>>)
  PROVE  /\ Len(bus) \in Nat
         /\ DOMAIN bus' = DOMAIN bus \cup {Len(bus) + 1}
         /\ \A i \in DOMAIN bus : bus'[i] = bus[i] /\ i < Len(bus) + 1
         /\ bus'[Len(bus) + 1] = a
<1>1. <<a>> \in Seq(Answer) /\ Len(<<a>>) = 1 /\ <<a>>[1] = a
  OBVIOUS
<1>2. /\ bus' \in Seq(Answer)
      /\ Len(bus') = Len(bus) + 1
      /\ \A i \in 1..Len(bus) : bus'[i] = bus[i]
      /\ bus'[Len(bus) + 1] = a
  BY <1>1, ConcatProperties DEF Say
<1> QED  BY <1>2

\* The news of one server.
LEMMA NewsOfOne ==
  ASSUME NEW x \in Place
  PROVE  News({x}) = <<[kind |-> "new", at |-> x]>>
<1> DEFINE at == SetToSeq({x})
<1>1. Cardinality({x}) = 1 /\ IsFiniteSet({x})
  BY FS_Singleton
<1>2. at \in [1..1 -> {x}]
  BY <1>1, SetToSeqIs
<1> HIDE DEF at
<1>3. [i \in DOMAIN at |-> [kind |-> "new", at |-> at[i]]] = <<[kind |-> "new", at |-> x]>>
  BY <1>2
<1> QED  BY <1>3 DEF News, at

\* The news of several servers: one of each.
LEMMA NewsOfAll ==
  ASSUME NEW P \in SUBSET Place, IsFiniteSet(P)
  PROVE  /\ \A i \in DOMAIN News(P) : News(P)[i].kind = "new"
         /\ \A x \in P : \E i \in DOMAIN News(P) : News(P)[i].at = x
<1> DEFINE at == SetToSeq(P)
           last == Cardinality(P)
<1>1. last \in Nat /\ at \in Injection(1..last, P)
  BY SetToSeqIs DEF Injection, IsInjective
<1>2. IsFiniteSet(1..last) /\ Cardinality(1..last) = last
  BY <1>1, FS_Interval
<1>3. at \in Surjection(1..last, P)
  BY <1>1, <1>2, FS_Injection
<1> HIDE DEF at, last
<1>4. DOMAIN at = 1..last /\ \A x \in P : \E i \in 1..last : at[i] = x
  BY <1>3 DEF Surjection
<1>5. News(P) = [i \in DOMAIN at |-> [kind |-> "new", at |-> at[i]]]
  BY DEF News, at
<1> QED  BY <1>4, <1>5

\* The answer that came first is read.
LEMMA FirstRead ==
  ASSUME bus \in Seq(Answer), bus # <<>>, bus' = Tail(bus)
  PROVE  /\ Head(bus) \in Answer /\ Head(bus) = bus[1] /\ 1 \in DOMAIN bus
         /\ \A i \in DOMAIN bus' : i \in Nat /\ i + 1 \in DOMAIN bus /\ bus'[i] = bus[i + 1]
         /\ \A i \in DOMAIN bus : i \in Nat /\ (i # 1 => i - 1 \in DOMAIN bus' /\ bus'[i - 1] = bus[i])
<1>1. /\ Head(bus) \in Answer /\ bus' \in Seq(Answer)
      /\ Len(bus') = Len(bus) - 1 /\ Len(bus) \in Nat /\ Len(bus) > 0
      /\ \A i \in 1..Len(bus') : bus'[i] = bus[i + 1]
  BY HeadTailProperties
<1>2. DOMAIN bus = 1..Len(bus) /\ DOMAIN bus' = 1..Len(bus')
  BY <1>1
<1>3. ASSUME NEW i \in DOMAIN bus, i # 1 PROVE i - 1 \in DOMAIN bus' /\ bus'[i - 1] = bus[i]
  <2>1. i - 1 \in 1..Len(bus') /\ (i - 1) + 1 = i
    BY <1>1, <1>2, <1>3
  <2> QED  BY <1>1, <1>2, <2>1
<1>4. Head(bus) = bus[1] /\ 1 \in DOMAIN bus
  BY <1>1, <1>2
<1>5. \A i \in DOMAIN bus' : i \in Nat /\ i + 1 \in DOMAIN bus /\ bus'[i] = bus[i + 1]
  BY <1>1, <1>2
<1> QED  BY <1>1, <1>2, <1>3, <1>4, <1>5

-----------------------------------------------------------------------------
\* What Avahi adds leaves the handler as it was.
LEMMA BusTellsMore ==
  ASSUME HInv, Reachable, NEW a \in Answer, Say(<<a>>), UNCHANGED theirs,
         listed' = net',
         \A x \in listed' : x \in listed \/ (a.kind = "new" /\ a.at = x),
         \A x \in listed : x \in listed' \/ (a.kind = "remove" /\ a.at = x),
         a.kind = "found" => StillThere(a.at[1])',
         \A x \in resolving : x \in resolving' \/ (a.kind \in {"found", "failure"} /\ a.at = x)
  PROVE  BusTells'
<1>1. bus \in Seq(Answer) /\ BusTells
  BY DEF HInv, TInv, OInv, TypesOK
<1>2. /\ Len(bus) \in Nat
      /\ DOMAIN bus' = DOMAIN bus \cup {Len(bus) + 1}
      /\ \A i \in DOMAIN bus : bus'[i] = bus[i] /\ i < Len(bus) + 1
      /\ bus'[Len(bus) + 1] = a
  BY <1>1, OneMore
<1> DEFINE more == Len(bus) + 1
<1>3. ASSUME NEW n, StillThere(n) PROVE StillThere(n)' \/ \E j \in DOMAIN bus' : j = more /\ Leaving(j, n)'
  <2>1. PICK x \in listed : x[1] = n
    BY <1>3 DEF StillThere
  <2>2. CASE x \in listed'
    BY <2>1, <2>2 DEF StillThere
  <2>3. CASE a.kind = "remove" /\ a.at = x
    <3>1. more \in DOMAIN bus' /\ bus'[more].kind = "remove" /\ bus'[more].at[1] = n
      BY <1>2, <2>1, <2>3
    <3> HIDE DEF more
    <3> QED  BY <3>1 DEF Leaving
  <2> QED  BY <2>2, <2>3
<1>4. ASSUME NEW j \in DOMAIN bus, NEW n, Leaving(j, n) PROVE j \in DOMAIN bus' /\ Leaving(j, n)'
  BY <1>2, <1>4 DEF Leaving
<1>8. \A i \in DOMAIN bus : more > i
  BY <1>1, <1>2
<1> HIDE DEF more
<1>5. KnownLeaves'
  <2>1. known' = known
    BY DEF theirs
  <2>2. ASSUME NEW n \in DOMAIN known PROVE StillThere(n)' \/ \E j \in DOMAIN bus' : Leaving(j, n)'
    <3>1. StillThere(n) \/ \E j \in DOMAIN bus : Leaving(j, n)
      BY <1>1 DEF BusTells, KnownLeaves
    <3> QED  BY <1>3, <1>4, <3>1
  <2> QED  BY <2>1, <2>2 DEF KnownLeaves
<1>6. FoundLeaves'
  <2>1. ASSUME NEW n \in Server, NEW i \in DOMAIN bus', bus'[i].kind = "found", bus'[i].at[1] = n
        PROVE  StillThere(n)' \/ \E j \in DOMAIN bus' : j > i /\ Leaving(j, n)'
    <3>1. CASE i \in DOMAIN bus
      <4>1. bus'[i] = bus[i]
        BY <1>2, <3>1
      <4>2. StillThere(n) \/ \E j \in DOMAIN bus : j > i /\ Leaving(j, n)
        BY <1>1, <2>1, <3>1, <4>1 DEF BusTells, FoundLeaves
      <4> QED  BY <1>3, <1>4, <1>8, <3>1, <4>2
    <3>2. CASE i \notin DOMAIN bus
      <4>1. bus'[i] = a
        BY <1>2, <3>2
      <4> QED  BY <2>1, <4>1
    <3> QED  BY <3>1, <3>2
  <2> QED  BY <2>1 DEF FoundLeaves
<1>7. ListedComes'
  <2> SUFFICES ASSUME NEW x \in listed' \cap Wanted
               PROVE  x[1] \in lost \/ x[1] \in DOMAIN known \/ Awaited(x)'
    BY DEF ListedComes, theirs, Awaited
  <2>1. CASE a.kind = "new" /\ a.at = x
    BY <1>2, <2>1 DEF Awaited
  <2>2. CASE x \in listed
    <3>1. Awaited(x) => Awaited(x)'
      BY <1>2 DEF Awaited
    <3> QED  BY <1>1, <2>2, <3>1 DEF BusTells, ListedComes
  <2> QED  BY <2>1, <2>2
<1> QED  BY <1>5, <1>6, <1>7 DEF BusTells, ListedIsNet

\* The handler as it was.
LEMMA TheirsStay ==
  ASSUME HInv, UNCHANGED theirs, client' \in {"none", "connecting"} => client \in {"none", "connecting"}
  PROVE  KnownIsMentioned' /\ NothingKnownYet' /\ KnownIsRouted'
BY DEF HInv, theirs, KnownIsMentioned, NothingKnownYet, KnownIsRouted, Mentioned

\* A client that starts to run.
LEMMA RunningTells ==
  ASSUME HInv, client \in {"none", "connecting"}, Running, UNCHANGED <<net, theirs>>
  PROVE  BusTells'
<1>1. bus = <<>> /\ DOMAIN known = {} /\ IsFiniteSet(net) /\ net \in SUBSET Place
  BY DEF HInv, NothingKnownYet, TInv, OInv, NoGroupYet, TypesOK
<1>2. News(net) \in Seq(Answer)
  BY <1>1, NewsAreAnswers
<1>3. bus' = News(net) /\ listed' = net
  BY <1>1, <1>2 DEF Running, Say
<1>4. /\ \A i \in DOMAIN bus' : bus'[i].kind = "new"
      /\ \A x \in net : \E i \in DOMAIN bus' : bus'[i].at = x
  BY <1>1, <1>3, NewsOfAll
<1>5. known' = known
  BY DEF theirs
<1> QED  BY <1>1, <1>3, <1>4, <1>5
         DEF BusTells, ListedIsNet, KnownLeaves, FoundLeaves, ListedComes, Awaited

LEMMA HInvAvahi == ASSUME HInv, TInv', Avahi \/ Connect PROVE HInv'
<1>0. TypesOK /\ bus \in Seq(Answer) /\ (Reachable => BusTells)
  BY DEF HInv, TInv, OInv, TypesOK
<1>1. UNCHANGED theirs
  BY DEF Avahi, Appear, Leave, Resolve, Decide, Start, Crash, Connect
<1>2. client' \in {"none", "connecting"} => client \in {"none", "connecting"}
  BY DEF Avahi, Appear, Leave, Resolve, Decide, Start, Crash, Connect, Running, ours
<1> SUFFICES ASSUME Reachable' PROVE BusTells'
  BY <1>1, <1>2, TheirsStay DEF HInv
<1>3. ASSUME NEW x \in Place, Appear(x) PROVE BusTells'
  <2>1. CASE Reachable
    <3> DEFINE a == [kind |-> "new", at |-> x]
    <3>1. a \in Answer
      BY DEF Answer
    <3>2. Say(<<a>>) /\ net' = net \cup {x} /\ listed' = listed \cup {x} /\ resolving' = resolving
      BY <1>3, <2>1, NewsOfOne DEF Appear
    <3>3. listed = net
      BY <1>0, <2>1 DEF BusTells, ListedIsNet
    <3>4. a.kind = "new" /\ a.at = x
      OBVIOUS
    <3> HIDE DEF a
    <3> QED  BY <1>1, <2>1, <3>1, <3>2, <3>3, <3>4, BusTellsMore
  <2>2. CASE ~Reachable
    BY <1>3, <2>2 DEF Appear, Reachable, ours
  <2> QED  BY <2>1, <2>2
<1>4. ASSUME NEW x \in Place, Leave(x) PROVE BusTells'
  <2>1. CASE Reachable
    <3> DEFINE a == [kind |-> "remove", at |-> x]
    <3>1. a \in Answer
      BY DEF Answer
    <3>2. Say(<<a>>) /\ net' = net \ {x} /\ listed' = listed \ {x} /\ resolving' = resolving
      BY <1>4, <2>1 DEF Leave
    <3>3. listed = net
      BY <1>0, <2>1 DEF BusTells, ListedIsNet
    <3>4. a.kind = "remove" /\ a.at = x
      OBVIOUS
    <3> HIDE DEF a
    <3> QED  BY <1>1, <2>1, <3>1, <3>2, <3>3, <3>4, BusTellsMore
  <2>2. CASE ~Reachable
    BY <1>4, <2>2 DEF Leave, Reachable, ours
  <2> QED  BY <2>1, <2>2
<1>5. ASSUME NEW x \in Place, Resolve(x) PROVE BusTells'
  <2>1. Reachable /\ listed = net /\ net' = net /\ listed' = listed /\ resolving' = resolving \ {x}
    BY <1>0, <1>5 DEF Resolve, BusTells, ListedIsNet
  <2>2. ASSUME NEW k \in {"found", "failure"}, k = "found" => x \in net, Say(<<[kind |-> k, at |-> x]>>)
        PROVE  BusTells'
    <3> DEFINE a == [kind |-> k, at |-> x]
    <3>1. a \in Answer /\ a.kind = k /\ a.at = x
      BY DEF Answer
    <3>2. a.kind = "found" => StillThere(a.at[1])'
      BY <2>1, <2>2, <3>1 DEF StillThere
    <3>3. Say(<<a>>)
      BY <2>2
    <3> HIDE DEF a
    <3> QED  BY <1>1, <2>1, <2>2, <3>1, <3>2, <3>3, BusTellsMore
  <2>3. (x \in net /\ Say(<<[kind |-> "found", at |-> x]>>)) \/ Say(<<[kind |-> "failure", at |-> x]>>)
    BY <1>5 DEF Resolve
  <2> QED  BY <2>2, <2>3
<1>6. CASE Decide
  <2>1. Reachable /\ listed = net /\ UNCHANGED <<listed, net, resolving>>
    BY <1>0, <1>6 DEF Decide, BusTells, ListedIsNet
  <2>2. ASSUME NEW k \in {"established", "collision"}, Say(<<[kind |-> "group", state |-> k]>>)
        PROVE  BusTells'
    <3> DEFINE a == [kind |-> "group", state |-> k]
    <3>1. a \in Answer /\ a.kind = "group" /\ Say(<<a>>)
      BY <2>2 DEF Answer
    <3> HIDE DEF a
    <3> QED  BY <1>1, <2>1, <3>1, BusTellsMore
  <2> QED  BY <1>6, <2>2 DEF Decide
<1>7. CASE Start \/ Connect
  <2>1. CASE client \in {"none", "connecting"} /\ Running
    BY <1>1, <1>7, <2>1, RunningTells DEF Start, Connect
  <2>2. CASE ~Running
    <3>1. CASE Connect
      BY <2>2, <3>1 DEF Connect, Reachable
    <3>2. CASE Start
      <4>1. client' = client /\ bus' = bus /\ ~avahi
        BY <2>2, <3>2 DEF Start
      <4>2. client = "running" => FailureComes
        BY <4>1 DEF HInv, TInv, OInv, FailureTold
      <4> QED  BY <4>1, <4>2 DEF Reachable, FailureComes
    <3> QED  BY <1>7, <3>1, <3>2
  <2>3. CASE client \notin {"none", "connecting"}
    <3>1. ~Connect /\ Start
      BY <1>7, <2>3 DEF Connect
    <3>2. client' = client /\ bus' = bus /\ ~avahi
      BY <2>3, <3>1 DEF Start
    <3>3. client = "running" => FailureComes
      BY <3>2 DEF HInv, TInv, OInv, FailureTold
    <3> QED  BY <3>2, <3>3 DEF Reachable, FailureComes
  <2> QED  BY <2>1, <2>2, <2>3
<1>8. CASE Crash
  BY <1>8 DEF Crash, Reachable
<1> QED  BY <1>3, <1>4, <1>5, <1>6, <1>7, <1>8 DEF Avahi

-----------------------------------------------------------------------------
\* What the handler does with a server that is found, and one that is removed.
LEMMA DiscoverKeeps ==
  ASSUME HInv, NEW n \in Server, NEW w \in Way, DiscoverPeer(n, w), lost' = lost \ ({n} \ DOMAIN known)
  PROVE  DOMAIN known' = DOMAIN known \cup {n} /\ KnownIsRouted'
<1> DEFINE i == ListenerOf(n)
<1>1. known' = Put(known, n, i) /\ routed' = IF i \in DOMAIN listeners THEN routed ELSE routed \cup {i}
  BY DEF DiscoverPeer
<1>2. CASE n \in DOMAIN known
  <2>1. i = known[n] /\ i \in DOMAIN listeners
    BY <1>2 DEF ListenerOf, HInv, TInv, LInv, KnownByName
  <2> HIDE DEF i
  <2>2. routed' = routed /\ lost' = lost /\ known' = Put(known, n, known[n])
    BY <1>1, <1>2, <2>1
  <2> QED  BY <1>2, <2>2 DEF Put, HInv, KnownIsRouted
<1>3. CASE n \notin DOMAIN known
  <2>1. i \in routed'
    <3>1. CASE RoutedAs(n) # {}
      <4>1. i = CHOOSE k \in RoutedAs(n) : TRUE
        BY <1>3, <3>1 DEF ListenerOf
      <4>2. i \in RoutedAs(n)
        BY <3>1, <4>1
      <4> HIDE DEF i
      <4> QED  BY <1>1, <4>2 DEF RoutedAs
    <3>2. CASE RoutedAs(n) = {}
      <4>1. i = Fresh
        BY <1>3, <3>2 DEF ListenerOf
      <4>2. \E k \in 1..MaxId : k \notin DOMAIN listeners
        BY <1>3, <3>2 DEF DiscoverPeer, Available
      <4>3. i \notin DOMAIN listeners
        BY <4>1, <4>2 DEF Fresh
      <4> HIDE DEF i
      <4> QED  BY <1>1, <4>3
    <3> QED  BY <3>1, <3>2
  <2> HIDE DEF i
  <2>2. routed \subseteq routed'
    BY <1>1
  <2>3. \A m \in DOMAIN known : m # n /\ (m \notin lost' => m \notin lost)
    BY <1>3
  <2> QED  BY <1>1, <2>1, <2>2, <2>3 DEF Put, HInv, KnownIsRouted
<1> QED  BY <1>1, <1>2, <1>3 DEF Put

LEMMA RemoveKeeps ==
  ASSUME HInv, NEW n \in Server, RemovePeer(n), Forgotten(n)
  PROVE  /\ DOMAIN known' = DOMAIN known \ {n}
         /\ lost \subseteq lost' /\ (StillThere(n) => n \in lost')
         /\ KnownIsRouted'
<1>1. DOMAIN known' = DOMAIN known \ {n} /\ lost \subseteq lost' /\ (StillThere(n) => n \in lost')
  BY RemoveTyped DEF HInv
<1>2. known' = Restrict(known, DOMAIN known \ {n})
      /\ routed' = IF n \in DOMAIN known THEN routed \ {known[n]} ELSE routed
  BY DEF RemovePeer
<1>3. \A m \in DOMAIN known' : m \in DOMAIN known /\ known'[m] = known[m] /\ m # n
  BY <1>2 DEF Restrict
<1>4. \A m \in DOMAIN known' : n \in DOMAIN known => known[m] # known[n]
  BY <1>3 DEF HInv, TInv, LInv, KnownByName
<1> QED  BY <1>1, <1>2, <1>3, <1>4 DEF HInv, KnownIsRouted

-----------------------------------------------------------------------------
\* An answer that is read: what it was about is known now, or has a resolver, or
\* was taken away while some of it was still there.
LEMMA ReadTells ==
  ASSUME HInv, Reachable, bus # <<>>, bus' = Tail(bus), UNCHANGED <<listed, net>>,
         resolving \subseteq resolving',
         \A n \in DOMAIN known' : \/ n \in DOMAIN known /\ ~Leaving(1, n)
                                  \/ Head(bus).kind = "found" /\ Head(bus).at[1] = n,
         \A x \in listed : x[1] \in lost \cup DOMAIN known => x[1] \in lost' \cup DOMAIN known',
         \A x \in listed \cap Wanted :
            Head(bus).kind \in {"new", "found", "failure"} /\ Head(bus).at = x
                => x \in resolving' \/ x[1] \in lost' \cup DOMAIN known'
  PROVE  BusTells'
<1>1. bus \in Seq(Answer) /\ BusTells /\ DOMAIN known \subseteq Server
  BY DEF HInv, TInv, OInv, TypesOK, TheirsTyped
<1>2. /\ Head(bus) \in Answer /\ Head(bus) = bus[1] /\ 1 \in DOMAIN bus
      /\ \A i \in DOMAIN bus' : i \in Nat /\ i + 1 \in DOMAIN bus /\ bus'[i] = bus[i + 1]
      /\ \A i \in DOMAIN bus : i \in Nat /\ (i # 1 => i - 1 \in DOMAIN bus' /\ bus'[i - 1] = bus[i])
  BY <1>1, FirstRead
<1>3. ASSUME NEW j \in DOMAIN bus, NEW n, Leaving(j, n), j # 1
      PROVE  \E k \in DOMAIN bus' : k = j - 1 /\ Leaving(k, n)'
  BY <1>2, <1>3 DEF Leaving
<1>4. \A n : StillThere(n)' = StillThere(n)
  BY DEF StillThere
<1>5. KnownLeaves'
  <2>1. ASSUME NEW n \in DOMAIN known' PROVE StillThere(n)' \/ \E j \in DOMAIN bus' : Leaving(j, n)'
    <3>1. CASE n \in DOMAIN known /\ ~Leaving(1, n)
      <4>1. StillThere(n) \/ \E j \in DOMAIN bus : Leaving(j, n) /\ j # 1
        BY <1>1, <3>1 DEF BusTells, KnownLeaves
      <4> QED  BY <1>3, <1>4, <4>1
    <3>2. CASE Head(bus).kind = "found" /\ Head(bus).at[1] = n
      <4>1. n \in Server
        BY <1>2, <3>2 DEF Answer, Place
      <4>2. StillThere(n) \/ \E j \in DOMAIN bus : j > 1 /\ Leaving(j, n)
        BY <1>1, <1>2, <3>2, <4>1 DEF BusTells, FoundLeaves
      <4>3. StillThere(n) \/ \E j \in DOMAIN bus : j # 1 /\ Leaving(j, n)
        BY <4>2
      <4> QED  BY <1>3, <1>4, <4>3
    <3> QED  BY <3>1, <3>2
  <2> QED  BY <2>1 DEF KnownLeaves
<1>6. FoundLeaves'
  <2>1. ASSUME NEW n \in Server, NEW i \in DOMAIN bus', bus'[i].kind = "found", bus'[i].at[1] = n
        PROVE  StillThere(n)' \/ \E j \in DOMAIN bus' : j > i /\ Leaving(j, n)'
    <3>1. i \in Nat /\ i + 1 \in DOMAIN bus /\ bus[i + 1].kind = "found" /\ bus[i + 1].at[1] = n
      BY <1>2, <2>1
    <3>2. StillThere(n) \/ \E j \in DOMAIN bus : j > i + 1 /\ Leaving(j, n)
      BY <1>1, <3>1 DEF BusTells, FoundLeaves
    <3>3. ASSUME NEW j \in DOMAIN bus, j > i + 1, Leaving(j, n)
          PROVE  \E k \in DOMAIN bus' : k > i /\ Leaving(k, n)'
      <4>1. j \in Nat /\ j # 1 /\ j - 1 > i
        BY <1>2, <3>1, <3>3
      <4> QED  BY <1>3, <3>3, <4>1
    <3> QED  BY <1>4, <3>2, <3>3
  <2> QED  BY <2>1 DEF FoundLeaves
<1>7. ListedComes'
  <2>1. ASSUME NEW x \in listed \cap Wanted
        PROVE  x[1] \in lost' \/ x[1] \in DOMAIN known' \/ Awaited(x)'
    <3>1. CASE x[1] \in lost \cup DOMAIN known
      BY <3>1
    <3>2. CASE x \in resolving
      BY <3>2 DEF Awaited
    <3>3. ASSUME NEW i \in DOMAIN bus, bus[i].kind \in {"new", "found", "failure"}, bus[i].at = x
          PROVE  x[1] \in lost' \/ x[1] \in DOMAIN known' \/ Awaited(x)'
      <4>1. CASE i = 1
        BY <1>2, <3>3, <4>1 DEF Awaited
      <4>2. CASE i # 1
        <5>1. i - 1 \in DOMAIN bus' /\ bus'[i - 1] = bus[i]
          BY <1>2, <4>2
        <5> QED  BY <3>3, <5>1 DEF Awaited
      <4> QED  BY <4>1, <4>2
    <3> QED  BY <1>1, <3>1, <3>2, <3>3 DEF BusTells, ListedComes, Awaited
  <2> QED  BY <2>1 DEF ListedComes
<1>8. ListedIsNet'
  BY <1>1 DEF BusTells, ListedIsNet
<1> QED  BY <1>5, <1>6, <1>7, <1>8 DEF BusTells

\* A client that reads an answer runs, or has failed.
LEMMA HInvCallback == ASSUME HInv, TInv', Callback PROVE HInv'
<1>0. /\ bus \in Seq(Answer) /\ bus # <<>> /\ bus' = Tail(bus) /\ Head(bus) \in Answer
      /\ client \notin {"none", "connecting"} /\ TheirsTyped /\ OursTyped
  <2>1. bus \in Seq(Answer) /\ bus # <<>> /\ bus' = Tail(bus)
    BY DEF Callback, OnBrowse, OnResolve, OnGroup, OnClient, HInv, TInv, OInv, TypesOK
  <2>2. client \notin {"none", "connecting"} /\ TheirsTyped /\ OursTyped
    BY <2>1 DEF HInv, TInv, OInv, NoGroupYet
  <2> QED  BY <2>1, <2>2, FirstRead
<1>1. NothingKnownYet'
  <2>1. client' = client \/ client' = "failed"
    BY <1>0 DEF Callback, OnBrowse, OnResolve, OnGroup, OnClient, ours, Answer
  <2> QED  BY <1>0, <2>1 DEF NothingKnownYet
<1>2. ASSUME UNCHANGED <<client, avahi>>, Head(bus).kind # "client" PROVE Reachable' => Reachable
  <2>1. FailureComes => FailureComes'
    BY <1>0, <1>2, TailKeepsFailure
  <2> QED  BY <1>2, <2>1, ReachableIs DEF Reachable, FailureComes
<1>3. \A n : Leaving(1, n) <=> Head(bus).kind = "remove" /\ Head(bus).at[1] = n
  BY <1>0, FirstRead DEF Leaving
\* Answers about other things, and those that are only passed on.
<1>4. ASSUME UNCHANGED <<theirs, listed, net, client, avahi>>, resolving \subseteq resolving',
             Head(bus).kind \in {"new", "group"},
             Head(bus).kind = "new" /\ Reachable => Head(bus).at \in resolving'
      PROVE  HInv'
  <2>1. UNCHANGED <<known, lost>>
    BY <1>4 DEF theirs
  <2>2. Reachable' => Reachable
    BY <1>2, <1>4
  <2>3. Reachable' => BusTells'
    BY <1>0, <1>3, <1>4, <2>1, <2>2, ReadTells
  <2>4. KnownIsMentioned' /\ KnownIsRouted'
    BY <1>4, TheirsStay
  <2> QED  BY <1>1, <2>3, <2>4 DEF HInv
\* A server that goes.
<1>5. ASSUME NEW n \in Server, RemovePeer(n), Forgotten(n), remotes' \in {remotes, RemotesWithout(n)},
             Head(bus).kind \in {"remove", "failure"}, Head(bus).at[1] = n,
             UNCHANGED <<listed, net, client, avahi, resolving>>
      PROVE  HInv'
  <2>1. /\ DOMAIN known' = DOMAIN known \ {n}
        /\ lost \subseteq lost' /\ (StillThere(n) => n \in lost')
        /\ KnownIsRouted'
    BY <1>5, RemoveKeeps
  <2>2. KnownIsMentioned'
    <3>1. ASSUME NEW m \in DOMAIN known' PROVE \E x \in remotes' : x[1] = m
      <4>1. m \in DOMAIN known /\ m # n
        BY <2>1
      <4>2. PICK x \in remotes : x[1] = m
        BY <4>1 DEF HInv, KnownIsMentioned, Mentioned
      <4> QED  BY <1>5, <4>1, <4>2 DEF RemotesWithout
    <3> QED  BY <3>1 DEF KnownIsMentioned, Mentioned
  <2>3. Reachable' => Reachable
    BY <1>2, <1>5
  <2>4. \A x \in listed : x[1] = n => n \in lost'
    BY <2>1 DEF StillThere
  <2>5. Reachable' => BusTells'
    <3> SUFFICES ASSUME Reachable PROVE BusTells'
      BY <2>3
    <3>1. \A m \in DOMAIN known' : m \in DOMAIN known /\ ~Leaving(1, m)
      BY <1>5, <1>3, <2>1
    <3>2. \A x \in listed : x[1] \in lost \cup DOMAIN known => x[1] \in lost' \cup DOMAIN known'
      BY <2>1, <2>4
    <3>3. \A x \in listed \cap Wanted : Head(bus).at = x => x[1] \in lost'
      BY <1>5, <2>4
    <3>4. UNCHANGED <<listed, net>> /\ resolving \subseteq resolving'
      BY <1>5
    <3> QED  BY <1>0, <3>1, <3>2, <3>3, <3>4, ReadTells
  <2> QED  BY <1>1, <2>1, <2>2, <2>5 DEF HInv
<1>6. CASE OnBrowse(Head(bus))
  <2>1. UNCHANGED <<listed, net, client, avahi>>
    BY <1>6 DEF OnBrowse, ours
  <2>2. CASE Head(bus).kind = "new" /\ UNCHANGED theirs
             /\ resolving' = resolving \cup {x \in {Head(bus).at} : Reachable}
    BY <1>4, <2>1, <2>2
  <2>3. CASE Head(bus).kind = "remove" /\ Removed(Head(bus).at[1]) /\ UNCHANGED resolving
    <3> DEFINE n == Head(bus).at[1]
    <3>1. n \in Server
      BY <1>0, <2>3 DEF Answer, Place
    <3>2. CASE remotes' = RemotesWithout(n) /\ RemovePeer(n) /\ Forgotten(n)
      BY <1>5, <2>1, <2>3, <3>1, <3>2
    <3>3. CASE ~Mentioned(n) /\ UNCHANGED remotes /\ Undiscovered
      <4>1. UNCHANGED theirs /\ n \notin DOMAIN known
        BY <3>3 DEF Undiscovered, theirs, HInv, KnownIsMentioned
      <4>2. UNCHANGED <<known, lost>>
        BY <4>1 DEF theirs
      <4>3. \A m \in DOMAIN known' : m \in DOMAIN known /\ ~Leaving(1, m)
        BY <1>3, <4>1, <4>2
      <4>4. Reachable' => Reachable
        BY <1>2, <2>1, <2>3
      <4>5. resolving \subseteq resolving' /\ Head(bus).kind = "remove"
        BY <2>3
      <4>6. Reachable' => BusTells'
        BY <1>0, <2>1, <4>2, <4>3, <4>4, <4>5, ReadTells
      <4>7. KnownIsMentioned' /\ KnownIsRouted'
        BY <2>1, <4>1, TheirsStay
      <4> QED  BY <1>1, <4>6, <4>7 DEF HInv
    <3> QED  BY <2>3, <3>2, <3>3 DEF Removed
  <2> QED  BY <1>6, <2>2, <2>3 DEF OnBrowse
<1>7. CASE OnResolve(Head(bus))
  <2> DEFINE x == Head(bus).at
  <2>1. UNCHANGED <<listed, net, client, avahi, resolving>>
    BY <1>7 DEF OnResolve, outside, ours
  <2>2. x \in Place /\ x[1] \in Server /\ x[2] \in Way
    BY <1>0, <1>7 DEF OnResolve, Answer, Place
  <2>3. CASE Head(bus).kind = "found" /\ Found(x)
    <3> HIDE DEF x
    <3>1. Reachable' => Reachable
      BY <1>2, <2>1, <2>3
    <3>2. resolving \subseteq resolving' /\ UNCHANGED <<listed, net>>
      BY <2>1
    <3>3. remotes' = remotes \cup {x}
      BY <2>3 DEF Found
    <3>4. CASE x \in Wanted /\ DiscoverPeer(x[1], x[2]) /\ lost' = lost \ ({x[1]} \ DOMAIN known)
      <4>1. DOMAIN known' = DOMAIN known \cup {x[1]} /\ KnownIsRouted'
        BY <2>2, <3>4, DiscoverKeeps
      <4>2. KnownIsMentioned'
        <5>1. \A m \in DOMAIN known' : \E y \in remotes' : y[1] = m
          BY <3>3, <4>1 DEF HInv, KnownIsMentioned, Mentioned
        <5> QED  BY <5>1 DEF KnownIsMentioned, Mentioned
      <4>3. \A m \in DOMAIN known' : (m \in DOMAIN known /\ ~Leaving(1, m)) \/ x[1] = m
        BY <1>3, <2>3, <4>1
      <4>4. \A y \in listed : y[1] \in lost \cup DOMAIN known => y[1] \in lost' \cup DOMAIN known'
        BY <3>4, <4>1
      <4>5. \A y \in listed \cap Wanted : x = y => y[1] \in DOMAIN known'
        BY <4>1
      <4>6. Reachable => BusTells'
        BY <1>0, <2>3, <3>2, <4>3, <4>4, <4>5, ReadTells DEF x
      <4> QED  BY <1>1, <3>1, <4>1, <4>2, <4>6 DEF HInv
    <3>5. CASE x \notin Wanted /\ Undiscovered
      <4>1. UNCHANGED <<known, listeners, routed, lost>>
        BY <3>5 DEF Undiscovered
      <4>2. KnownIsMentioned' /\ KnownIsRouted'
        BY <3>3, <4>1 DEF HInv, KnownIsMentioned, KnownIsRouted, Mentioned
      <4>3. \A m \in DOMAIN known' : m \in DOMAIN known /\ ~Leaving(1, m)
        BY <1>3, <2>3, <4>1
      <4>4. \A y \in listed \cap Wanted : x # y
        BY <3>5
      <4>6. Reachable => BusTells'
        BY <1>0, <3>2, <4>1, <4>3, <4>4, ReadTells DEF x
      <4> QED  BY <1>1, <3>1, <4>2, <4>6 DEF HInv
    <3> QED  BY <2>3, <3>4, <3>5 DEF Found
  <2>4. CASE Head(bus).kind = "failure" /\ Unresolved(x)
    BY <1>5, <2>1, <2>2, <2>4 DEF Unresolved
  <2> QED  BY <1>7, <2>3, <2>4 DEF OnResolve
<1>8. CASE OnGroup(Head(bus))
  BY <1>4, <1>8 DEF OnGroup
<1>9. CASE OnClient(Head(bus))
  <2>1. client' = "failed" /\ UNCHANGED theirs
    BY <1>0, <1>9 DEF OnClient, Answer
  <2> QED  BY <2>1, TheirsStay DEF HInv, Reachable
<1> QED  BY <1>6, <1>7, <1>8, <1>9 DEF Callback

\* What users remove was there, or not.
LEMMA HInvUser == ASSUME HInv, TInv', User PROVE HInv'
<1>1. ASSUME NEW a \in Own, Announce(a) \/ Unannounce(a) PROVE HInv'
  <2>1. UNCHANGED <<theirs, client, avahi, bus, listed, net, resolving>>
    BY <1>1 DEF Announce, Unannounce
  <2>2. UNCHANGED <<known, lost>>
    BY <2>1 DEF theirs
  <2>3. Reachable' = Reachable
    BY <2>1 DEF Reachable
  <2>4. BusTells => BusTells'
    BY <2>1, <2>2 DEF BusTells, ListedIsNet, KnownLeaves, FoundLeaves, ListedComes, StillThere,
                      Leaving, Awaited
  <2> QED  BY <2>1, <2>3, <2>4, TheirsStay DEF HInv
<1>2. ASSUME UNCHANGED <<outside, bus, ours>>, DOMAIN known' \subseteq DOMAIN known,
             \A x \in listed : x[1] \in lost \cup DOMAIN known => x[1] \in lost' \cup DOMAIN known'
      PROVE  /\ Reachable => BusTells'
             /\ NothingKnownYet' /\ Reachable' = Reachable
  <2>1. UNCHANGED <<client, avahi, bus, listed, net, resolving>>
    BY <1>2 DEF outside, ours
  <2>2. Reachable' = Reachable
    BY <2>1 DEF Reachable
  <2>3. Reachable => KnownLeaves' /\ FoundLeaves' /\ ListedIsNet'
    BY <1>2, <2>1 DEF HInv, BusTells, ListedIsNet, KnownLeaves, FoundLeaves, StillThere, Leaving
  <2>4. Reachable => ListedComes'
    BY <1>2, <2>1 DEF HInv, BusTells, ListedComes, Awaited
  <2> QED  BY <1>2, <2>1, <2>2, <2>3, <2>4 DEF HInv, NothingKnownYet, BusTells
<1>3. ASSUME NEW i \in routed, RouterRemove(i) PROVE HInv'
  <2>1. /\ routed' = routed \ {i} /\ UNCHANGED <<known, remotes, outside, bus, ours>>
        /\ lost' = lost \cup {listeners[i].name}
    BY <1>3 DEF RouterRemove
  <2>2. \A n \in DOMAIN known : known[n] = i => n = listeners[i].name
    BY DEF HInv, TInv, LInv, KnownByName
  <2>3. KnownIsMentioned' /\ KnownIsRouted'
    BY <2>1, <2>2 DEF HInv, KnownIsMentioned, KnownIsRouted, Mentioned
  <2>4. NothingKnownYet' /\ (Reachable' => BusTells')
    BY <1>2, <2>1
  <2> QED  BY <2>3, <2>4 DEF HInv
<1>4. ASSUME NEW n \in Server, MdnsRemove(n) PROVE HInv'
  <2>1. RemovePeer(n) /\ Forgotten(n) /\ remotes' = RemotesWithout(n) /\ UNCHANGED <<outside, bus, ours>>
    BY <1>4 DEF MdnsRemove
  <2>2. /\ DOMAIN known' = DOMAIN known \ {n}
        /\ lost \subseteq lost' /\ (StillThere(n) => n \in lost')
        /\ KnownIsRouted'
    BY <2>1, RemoveKeeps
  <2>3. KnownIsMentioned'
    <3>1. ASSUME NEW m \in DOMAIN known' PROVE \E x \in remotes' : x[1] = m
      <4>1. m \in DOMAIN known /\ m # n
        BY <2>2
      <4>2. PICK x \in remotes : x[1] = m
        BY <4>1 DEF HInv, KnownIsMentioned, Mentioned
      <4> QED  BY <2>1, <4>1, <4>2 DEF RemotesWithout
    <3> QED  BY <3>1 DEF KnownIsMentioned, Mentioned
  <2>4. \A x \in listed : x[1] \in lost \cup DOMAIN known => x[1] \in lost' \cup DOMAIN known'
    BY <2>2 DEF StillThere
  <2>5. NothingKnownYet' /\ (Reachable' => BusTells')
    BY <1>2, <2>1, <2>2, <2>4
  <2> QED  BY <2>2, <2>3, <2>5 DEF HInv
<1> QED  BY <1>1, <1>3, <1>4 DEF User

LEMMA HInvStep == HInv /\ [DNext]_dvars => HInv'
<1> SUFFICES ASSUME HInv, [DNext]_dvars PROVE HInv'
  OBVIOUS
<1>1. TInv'
  BY TInvStep DEF HInv
<1>2. CASE UNCHANGED dvars
  <2>1. UNCHANGED <<theirs, client, avahi, bus, listed, net, resolving, known, lost>>
    BY <1>2 DEF dvars, outside, ours, theirs
  <2>2. Reachable' = Reachable
    BY <2>1 DEF Reachable
  <2>3. BusTells => BusTells'
    BY <2>1 DEF BusTells, ListedIsNet, KnownLeaves, FoundLeaves, ListedComes, StillThere,
                Leaving, Awaited
  <2> QED  BY <1>1, <2>1, <2>2, <2>3, TheirsStay DEF HInv
<1> QED  BY <1>1, <1>2, HInvAvahi, HInvCallback, HInvUser DEF DNext

THEOREM DiscoveryInvariant == DSpec => []HInv
  BY HInvInit, HInvStep, PTL DEF DSpec

\* A server that left by every way, with nothing about it still to be read, is
\* unknown: whatever was found, failed or removed before in whatever order
\* (src/rtpmidiremotehandler.cpp, remove_peer; lib/mdns_rtpmidi.cpp, removed_remote).
THEOREM DiscoveryLeftIsUnknown == DSpec => []LeftIsUnknown
<1>1. HInv => LeftIsUnknown
  <2> SUFFICES ASSUME HInv, NEW n \in Server, Reachable, Quiet(n), ~StillThere(n), n \in DOMAIN known
               PROVE  FALSE
    BY DEF LeftIsUnknown
  <2>1. PICK j \in DOMAIN bus : Leaving(j, n)
    BY DEF HInv, BusTells, KnownLeaves
  <2> QED  BY <2>1 DEF Quiet, Leaving
<1> QED  BY <1>1, DiscoveryInvariant, PTL

\* A server that can be reached has its port, unless a user, or an answer about
\* one of its ways, removed it (src/rtpmidiremotehandler.cpp, discover_peer).
THEOREM DiscoveryListedIsRouted == DSpec => []ListedIsRouted
<1>1. HInv => ListedIsRouted
  <2> SUFFICES ASSUME HInv, NEW n \in Server, Reachable, Quiet(n),
                      NEW x \in listed \cap Wanted \cap ({n} \X Way), n \notin lost
               PROVE  n \in DOMAIN known /\ known[n] \in routed
    BY DEF ListedIsRouted
  <2>1. x[1] = n /\ x \in listed \cap Wanted
    OBVIOUS
  <2>2. ~Awaited(x)
    BY <2>1 DEF Quiet, Awaited
  <2> QED  BY <2>1, <2>2 DEF HInv, BusTells, ListedComes, KnownIsRouted
<1> QED  BY <1>1, DiscoveryInvariant, PTL
=============================================================================
