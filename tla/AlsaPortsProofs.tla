-------------------------- MODULE AlsaPortsProofs --------------------------
(***************************************************************************)
(* The clients that listeners make, proved for every set of ports and      *)
(* every bound: each has one listener, wired to it both ways, and none is  *)
(* left behind.  Whatever the sequencer sends, and in whatever order, does *)
(* not matter to it: nothing is assumed of the queue.                      *)
(***************************************************************************)
EXTENDS AlsaPorts, FiniteSetTheorems, SequenceTheorems, WellFoundedInduction, TLAPS

ListenerRecord == [id : Nat, count : Nat, client : Nat, endpoints : BOOLEAN]

\* The router has ids that were given, and listeners theirs.
IdsGiven == /\ nextId \in Nat /\ nextId > Multi
            /\ \A i \in DOMAIN peers : i \in 1..nextId - 1

WaitersOK == /\ waiter \in [DOMAIN waiter -> ListenerRecord]
             /\ \A w \in DOMAIN waiter :
                   /\ waiter[w].id \in DOMAIN peers
                   /\ peers[waiter[w].id].kind = "waiter"
                   /\ waiter[w].client < nextId

\* The client of a listener, if the router still has it.
ClientsOK == \A w \in DOMAIN waiter :
                waiter[w].client \in DOMAIN peers =>
                   /\ peers[waiter[w].client].kind = "client"
                   /\ <<waiter[w].client, waiter[w].id>> \in wires
                   /\ <<waiter[w].id, waiter[w].client>> \in wires

OneEach == \A v, w \in DOMAIN waiter :
              v # w => /\ waiter[v].id # waiter[w].id
                       /\ waiter[v].client = waiter[w].client =>
                             waiter[v].client \notin DOMAIN peers

Owned == \A i \in DOMAIN peers :
            peers[i].kind = "client" => \E w \in DOMAIN waiter : waiter[w].client = i

WiredInv == IdsGiven /\ WaitersOK /\ ClientsOK /\ OneEach /\ Owned

\* A listener that counts nobody has no client that a new one would replace.
NobodyNoClient == \A w \in DOMAIN waiter :
                     waiter[w].count = 0 => waiter[w].client \notin DOMAIN peers

\* What the multi listener has in its list, and what peers are.
PeersOK == /\ \A i \in DOMAIN peers : peers[i] \in Peer
           /\ \A p \in DOMAIN entries :
                 /\ entries[p] \in Nat /\ entries[p] < nextId
                 /\ entries[p] \in DOMAIN peers => peers[entries[p]].kind = "listener"

SequencerOK == present \subseteq Ext /\ subs \subseteq Link

PInv == WiredInv /\ NobodyNoClient /\ PeersOK /\ SequencerOK

LEMMA PairRange == \A a, b : Range(<<a, b>>) = {a, b}
BY DEF Range

\* What follows from the invariant: one listener for every client.
LEMMA OwnedOnce == WiredInv => ClientsAreOwned
<1> SUFFICES ASSUME WiredInv, NEW i \in DOMAIN peers, peers[i].kind = "client"
             PROVE  /\ Cardinality({w \in DOMAIN waiter : waiter[w].client = i}) = 1
                    /\ \A w \in DOMAIN waiter : waiter[w].client = i =>
                          {<<i, waiter[w].id>>, <<waiter[w].id, i>>} \subseteq wires
  BY DEF ClientsAreOwned
<1>1. PICK w \in DOMAIN waiter : waiter[w].client = i
  BY DEF WiredInv, Owned
<1>2. {v \in DOMAIN waiter : waiter[v].client = i} = {w}
  BY <1>1 DEF WiredInv, OneEach
<1>3. Cardinality({w}) = 1
  BY FS_Singleton
<1> QED  BY <1>2, <1>3 DEF WiredInv, ClientsOK

\* Peers that are removed, listeners among them or not, take their wires along;
\* the rest stays wired as it is.
LEMMA RemovalKeepsWired ==
  ASSUME WiredInv, NEW S,
         nextId' = nextId,
         DOMAIN peers' = DOMAIN peers \ S,
         \A i \in DOMAIN peers' : peers'[i].kind = peers[i].kind,
         \A x \in wires : Range(x) \cap S = {} => x \in wires',
         waiter' \in [DOMAIN waiter' -> ListenerRecord],
         DOMAIN waiter' \subseteq DOMAIN waiter,
         \A w \in DOMAIN waiter' : /\ waiter'[w].id = waiter[w].id /\ waiter[w].id \notin S
                                   /\ waiter'[w].client = waiter[w].client,
         \A w \in DOMAIN waiter \ DOMAIN waiter' : waiter[w].client \in S
  PROVE  WiredInv'
<1> USE DEF WiredInv
<1>1. IdsGiven' /\ WaitersOK'
  BY DEF IdsGiven, WaitersOK
<1>2. OneEach' /\ Owned'
  BY DEF OneEach, Owned
<1>3. ASSUME NEW w \in DOMAIN waiter', waiter[w].client \in DOMAIN peers'
      PROVE  /\ peers'[waiter[w].client].kind = "client"
             /\ <<waiter[w].client, waiter[w].id>> \in wires'
             /\ <<waiter[w].id, waiter[w].client>> \in wires'
  <2>1. /\ peers[waiter[w].client].kind = "client"
        /\ <<waiter[w].client, waiter[w].id>> \in wires
        /\ <<waiter[w].id, waiter[w].client>> \in wires
    BY <1>3 DEF ClientsOK
  <2>2. waiter[w].client \notin S /\ waiter[w].id \notin S
    BY <1>3
  <2>3. /\ Range(<<waiter[w].client, waiter[w].id>>) \cap S = {}
        /\ Range(<<waiter[w].id, waiter[w].client>>) \cap S = {}
    BY <2>2, PairRange
  <2> QED  BY <1>3, <2>1, <2>3
<1>4. ClientsOK'
  BY <1>3 DEF ClientsOK
<1> QED  BY <1>1, <1>2, <1>4

\* A peer that is no client is new.
LEMMA NewPeerKeepsWired ==
  ASSUME WiredInv, NEW kind, kind # "client",
         nextId' = nextId + 1,
         DOMAIN peers' = DOMAIN peers \cup {nextId},
         peers'[nextId].kind = kind,
         \A i \in DOMAIN peers : peers'[i] = peers[i],
         wires \subseteq wires',
         UNCHANGED waiter
  PROVE  WiredInv'
<1> USE DEF WiredInv
<1>1. nextId \notin DOMAIN peers /\ nextId \in Nat
  BY DEF IdsGiven
<1>2. IdsGiven'
  BY DEF IdsGiven, Multi
<1>3. \A w \in DOMAIN waiter : waiter[w] \in ListenerRecord
  BY DEF WaitersOK
<1>4. WaitersOK'
  BY <1>1, <1>3 DEF WaitersOK, ListenerRecord
<1>5. \A w \in DOMAIN waiter : waiter[w].client # nextId
  BY <1>1, <1>3 DEF WaitersOK, ListenerRecord
<1>6. ClientsOK' /\ OneEach' /\ Owned'
  BY <1>1, <1>5 DEF ClientsOK, OneEach, Owned
<1> QED  BY <1>2, <1>4, <1>6

-----------------------------------------------------------------------------
LEMMA BothAreLinks == \A p \in Ext : Both(p) \subseteq Link
<1> SUFFICES ASSUME NEW p \in Ext PROVE <<p, Multi>> \in Link /\ <<Multi, p>> \in Link
  BY DEF Both
<1>1. p \in Port /\ Multi \in Port /\ Multi \in OwnPort
  BY PortsAssumption DEF Port
<1> QED  BY <1>1 DEF Link

LEMMA PInvInit == AInit => PInv
<1> SUFFICES ASSUME AInit PROVE PInv
  OBVIOUS
<1>1. /\ nextId = 2 /\ waiter = <<>> /\ entries = <<>> /\ wires = {}
      /\ peers = [i \in {Multi} |-> [kind |-> "multi"]]
      /\ present \subseteq Ext /\ subs = Found
  BY DEF AInit
<1>2. WiredInv /\ NobodyNoClient /\ PeersOK
  BY <1>1 DEF WiredInv, IdsGiven, WaitersOK, ClientsOK, OneEach, Owned, NobodyNoClient, PeersOK,
              Peer, Multi
<1>3. SequencerOK
  BY <1>1, BothAreLinks DEF SequencerOK, Found
<1> QED  BY <1>2, <1>3 DEF PInv

\* There are finitely many subscriptions, so that they can be counted.
LEMMA ConnectionsCount == ASSUME SequencerOK, NEW w PROVE Connections(w) \in Nat
<1>1. IsFiniteSet(Port)
  BY PortsAssumption, FS_Union DEF Port
<1>2. IsFiniteSet(Port \X Port)
  BY <1>1, FS_Product
<1>3. /\ {l \in subs : l[1] = w} \in SUBSET (Port \X Port)
      /\ {l \in subs : l[2] = w} \in SUBSET (Port \X Port)
  BY DEF SequencerOK, Link
<1>4. IsFiniteSet({l \in subs : l[1] = w}) /\ IsFiniteSet({l \in subs : l[2] = w})
  BY <1>2, <1>3, FS_Subset
<1> QED  BY <1>4, FS_CardinalityType DEF Connections

\* The outside of the router, when nothing in it changes.
LEMMA RouterLeftAlone ==
  ASSUME PInv, UNCHANGED <<router, waiter, entries>>, SequencerOK'
  PROVE  PInv'
BY DEF PInv, router, WiredInv, IdsGiven, WaitersOK, ClientsOK, OneEach, Owned, NobodyNoClient,
       PeersOK

\* Peers that go, none of them the listener of an entry that stays.
LEMMA RemovalKeepsPeers ==
  ASSUME PeersOK, NEW S, RemovePeers(S), UNCHANGED entries
  PROVE  PeersOK'
<1>1. /\ DOMAIN peers' = DOMAIN peers \ S /\ nextId' = nextId
      /\ \A i \in DOMAIN peers' : peers'[i] = peers[i]
  BY DEF RemovePeers, Without, Restrict
<1> QED  BY <1>1 DEF PeersOK

LEMMA RemovePeersDoes ==
  ASSUME NEW S, RemovePeers(S)
  PROVE  /\ nextId' = nextId /\ DOMAIN peers' = DOMAIN peers \ S
         /\ \A i \in DOMAIN peers' : peers'[i] = peers[i]
         /\ \A x \in wires : Range(x) \cap S = {} => x \in wires'
BY DEF RemovePeers, Without, Restrict, Surviving

\* Subscriptions stay between ports, whoever makes or ends them.
LEMMA SequencerStep == SequencerOK /\ [ANext]_avars => SequencerOK'
<1> SUFFICES ASSUME SequencerOK, [ANext]_avars PROVE SequencerOK'
  OBVIOUS
<1> USE DEF SequencerOK
<1>1. CASE ReadReady
  <2>1. ASSUME NEW ev, WaiterHandles(ev) PROVE SequencerOK'
    BY <2>1 DEF WaiterHandles, WaiterCounts, WaiterConnects, WaiterRefuses, WaiterRecounts,
                Handled, Quietly
  <2>2. ASSUME NEW ev, MultiHandles(ev) PROVE SequencerOK'
    BY <2>2 DEF MultiHandles, Handled, Quietly
  <2>3. ASSUME NEW ev, HwHandles(ev) PROVE SequencerOK'
    BY <2>3, BothAreLinks, PortsAssumption DEF HwHandles, Export, Unexport, Quietly
  <2> QED  BY <1>1, <2>1, <2>2, <2>3 DEF ReadReady
<1>2. CASE Others
  BY <1>2 DEF Others, Subscribe, Unsubscribe, Plug, Unplug, Elsewhere
<1>3. CASE User
  BY <1>3 DEF User, CreateWaiter, AddEndpoint, RemoveEndpoint, RemoveWaiter, RemovePort,
              RemovePeer, alsa
<1>4. CASE UNCHANGED avars
  BY <1>4 DEF avars, alsa
<1> QED  BY <1>1, <1>2, <1>3, <1>4 DEF ANext

-----------------------------------------------------------------------------
(* The listener of a server's port. *)

\* What a count leaves of the listeners.
LEMMA CountDoes ==
  ASSUME WaitersOK, NEW w \in DOMAIN waiter, NEW n \in Nat, Count(w, n)
  PROVE  /\ waiter' \in [DOMAIN waiter' -> ListenerRecord] /\ DOMAIN waiter' = DOMAIN waiter
         /\ waiter'[w].count = n
         /\ \A v \in DOMAIN waiter \ {w} : waiter'[v].count = waiter[v].count
         /\ \A v \in DOMAIN waiter : /\ waiter'[v].id = waiter[v].id
                                      /\ waiter'[v].client = waiter[v].client
BY DEF WaitersOK, Count, ListenerRecord

LEMMA CountKeepsWired ==
  ASSUME WiredInv, NEW w \in DOMAIN waiter, NEW n \in Nat, Count(w, n), UNCHANGED router
  PROVE  WiredInv'
<1> USE DEF WiredInv
<1>1. /\ waiter' \in [DOMAIN waiter' -> ListenerRecord] /\ DOMAIN waiter' = DOMAIN waiter
      /\ \A v \in DOMAIN waiter : /\ waiter'[v].id = waiter[v].id
                                   /\ waiter'[v].client = waiter[v].client
  BY CountDoes
<1> QED  BY <1>1 DEF router, IdsGiven, WaitersOK, ClientsOK, OneEach, Owned

LEMMA CountAndRemovalKeepWired ==
  ASSUME WiredInv, NEW w \in DOMAIN waiter, NEW n \in Nat, Count(w, n),
         NEW i, RemovePeers({i}), \A v \in DOMAIN waiter : waiter[v].id # i
  PROVE  WiredInv'
<1> DEFINE S == {i}
<1>1. /\ waiter' \in [DOMAIN waiter' -> ListenerRecord] /\ DOMAIN waiter' = DOMAIN waiter
      /\ \A v \in DOMAIN waiter' : /\ waiter'[v].id = waiter[v].id /\ waiter[v].id \notin S
                                    /\ waiter'[v].client = waiter[v].client
  BY CountDoes DEF WiredInv
<1>2. /\ nextId' = nextId /\ DOMAIN peers' = DOMAIN peers \ S
      /\ \A j \in DOMAIN peers' : peers'[j] = peers[j]
      /\ \A x \in wires : Range(x) \cap S = {} => x \in wires'
  BY RemovePeersDoes
<1> HIDE DEF S
<1> QED  BY <1>1, <1>2, RemovalKeepsWired

LEMMA WaiterCountsKeeps ==
  ASSUME PInv, NEW w \in DOMAIN waiter, WaiterCounts(w), UNCHANGED entries
  PROVE  WiredInv' /\ NobodyNoClient' /\ PeersOK'
<1>1. waiter[w].count \in Nat /\ WaitersOK /\ WiredInv
  BY DEF PInv, WiredInv, WaitersOK, ListenerRecord
<1>2. /\ Count(w, waiter[w].count + 1) /\ waiter[w].count + 1 \in Nat
      /\ waiter[w].count + 1 # 0 /\ UNCHANGED router
  BY <1>1 DEF WaiterCounts
<1>3. WiredInv'
  BY <1>1, <1>2, CountKeepsWired
<1>4. /\ DOMAIN waiter' = DOMAIN waiter /\ waiter'[w].count # 0
      /\ \A v \in DOMAIN waiter : waiter'[v].client = waiter[v].client
      /\ \A v \in DOMAIN waiter \ {w} : waiter'[v].count = waiter[v].count
  BY <1>1, <1>2, CountDoes
<1>5. NobodyNoClient'
  BY <1>2, <1>4 DEF NobodyNoClient, PInv, router
<1> QED  BY <1>2, <1>3, <1>5 DEF PeersOK, PInv, router

\* The subscriptions are counted again; with none left the client goes.
LEMMA WaiterRecountsKeeps ==
  ASSUME PInv, NEW w \in DOMAIN waiter, WaiterRecounts(w), UNCHANGED entries
  PROVE  WiredInv' /\ NobodyNoClient' /\ PeersOK'
<1> DEFINE left == Connections(w)
<1>1. left \in Nat /\ WaitersOK /\ WiredInv
  BY ConnectionsCount DEF PInv, WiredInv
<1>2. Count(w, left)
  BY DEF WaiterRecounts
<1>3. /\ left = 0 => RemovePeers({waiter[w].client})
      /\ left # 0 => UNCHANGED router
  BY DEF WaiterRecounts, KeepAll
<1> HIDE DEF left
<1>4. /\ DOMAIN waiter' = DOMAIN waiter /\ waiter'[w].count = left
      /\ \A v \in DOMAIN waiter : waiter'[v].client = waiter[v].client
      /\ \A v \in DOMAIN waiter \ {w} : waiter'[v].count = waiter[v].count
  BY <1>1, <1>2, CountDoes
<1>5. CASE left = 0
  <2>1. RemovePeers({waiter[w].client})
    BY <1>3, <1>5
  <2>2. \A v \in DOMAIN waiter : waiter[v].id # waiter[w].client
    BY DEF PInv, WiredInv, WaitersOK, ClientsOK
  <2>3. WiredInv'
    BY <1>1, <1>2, <2>1, <2>2, CountAndRemovalKeepWired
  <2>4. DOMAIN peers' = DOMAIN peers \ {waiter[w].client}
    BY <2>1 DEF RemovePeers, Without, Restrict
  <2>5. NobodyNoClient'
    BY <1>4, <2>4 DEF NobodyNoClient, PInv
  <2> QED  BY <2>1, <2>3, <2>5, RemovalKeepsPeers DEF PInv
<1>6. CASE left # 0
  <2>1. UNCHANGED router
    BY <1>3, <1>6
  <2>2. WiredInv'
    BY <1>1, <1>2, <2>1, CountKeepsWired
  <2>3. NobodyNoClient'
    BY <1>4, <1>6, <2>1 DEF NobodyNoClient, PInv, router
  <2> QED  BY <2>1, <2>2, <2>3 DEF PeersOK, PInv, router
<1> QED  BY <1>5, <1>6

\* A new peer, while the list of the multi listener stays.
LEMMA NewPeerKeepsPeers ==
  ASSUME PeersOK, nextId \in Nat, NEW r \in Peer,
         nextId' = nextId + 1, UNCHANGED entries,
         DOMAIN peers' = DOMAIN peers \cup {nextId}, peers'[nextId] = r,
         \A i \in DOMAIN peers : peers'[i] = peers[i]
  PROVE  PeersOK'
<1>1. \A i \in DOMAIN peers' : peers'[i] \in Peer
  BY DEF PeersOK
<1>2. ASSUME NEW p \in DOMAIN entries
      PROVE  /\ entries[p] \in Nat /\ entries[p] < nextId + 1 /\ entries[p] # nextId
             /\ entries[p] \in DOMAIN peers => peers[entries[p]].kind = "listener"
  BY DEF PeersOK
<1> QED  BY <1>1, <1>2 DEF PeersOK

LEMMA KindsArePeers == [kind |-> "client"] \in Peer /\ [kind |-> "waiter"] \in Peer
BY DEF Peer

\* A new client, of the listener that called for it and of no other one.
LEMMA WaiterConnectsKeeps ==
  ASSUME PInv, NEW w \in DOMAIN waiter, WaiterConnects(w), UNCHANGED entries
  PROVE  WiredInv' /\ NobodyNoClient' /\ PeersOK'
<1>1. /\ waiter \in [DOMAIN waiter -> ListenerRecord]
      /\ nextId \in Nat /\ nextId \notin DOMAIN peers /\ nextId > Multi
      /\ \A v \in DOMAIN waiter : waiter[v] \in ListenerRecord /\ waiter[v].client < nextId
  BY DEF PInv, WiredInv, WaitersOK, IdsGiven
<1>2. \A v \in DOMAIN waiter : waiter[v].client # nextId /\ waiter[v].id # nextId
  BY <1>1 DEF ListenerRecord, PInv, WiredInv, WaitersOK
<1>3. /\ nextId' = nextId + 1
      /\ DOMAIN peers' = DOMAIN peers \cup {nextId} /\ peers'[nextId] = [kind |-> "client"]
      /\ \A i \in DOMAIN peers : peers'[i] = peers[i]
      /\ wires' = wires \cup {<<nextId, waiter[w].id>>, <<waiter[w].id, nextId>>}
  BY <1>1 DEF WaiterConnects, Put
<1>4. waiter' = [waiter EXCEPT ![w].count = 1, ![w].client = nextId]
  BY DEF WaiterConnects
<1>5. /\ waiter' \in [DOMAIN waiter' -> ListenerRecord] /\ DOMAIN waiter' = DOMAIN waiter
      /\ waiter'[w].count = 1 /\ waiter'[w].client = nextId /\ waiter'[w].id = waiter[w].id
      /\ \A v \in DOMAIN waiter \ {w} : waiter'[v] = waiter[v]
  BY <1>1, <1>4 DEF ListenerRecord
<1>6. waiter[w].client \notin DOMAIN peers
  BY DEF PInv, NobodyNoClient, WaiterConnects
<1>7. IdsGiven' /\ WaitersOK'
  <2>1. IdsGiven'
    BY <1>1, <1>3 DEF PInv, WiredInv, IdsGiven, Multi
  <2>2. ASSUME NEW v \in DOMAIN waiter'
        PROVE  /\ waiter'[v].id \in DOMAIN peers' /\ peers'[waiter'[v].id].kind = "waiter"
               /\ waiter'[v].client < nextId'
    <3>1. waiter'[v].id = waiter[v].id
      BY <1>5
    <3>2. waiter[v].id \in DOMAIN peers /\ peers[waiter[v].id].kind = "waiter"
      BY <1>5 DEF PInv, WiredInv, WaitersOK
    <3>3. waiter[v].client \in Nat
      BY <1>1, <1>5 DEF ListenerRecord
    <3> QED  BY <1>1, <1>3, <1>5, <3>1, <3>2, <3>3
  <2> QED  BY <1>5, <2>1, <2>2 DEF WaitersOK
<1>8. ClientsOK'
  <2> SUFFICES ASSUME NEW v \in DOMAIN waiter', waiter'[v].client \in DOMAIN peers'
               PROVE  /\ peers'[waiter'[v].client].kind = "client"
                      /\ <<waiter'[v].client, waiter'[v].id>> \in wires'
                      /\ <<waiter'[v].id, waiter'[v].client>> \in wires'
    BY DEF ClientsOK
  <2>1. CASE v = w
    BY <1>3, <1>5, <2>1
  <2>2. CASE v # w
    BY <1>2, <1>3, <1>5, <2>2 DEF PInv, WiredInv, ClientsOK
  <2> QED  BY <2>1, <2>2
<1>9. OneEach'
  BY <1>2, <1>3, <1>5 DEF PInv, WiredInv, OneEach
<1>10. Owned'
  BY <1>3, <1>5, <1>6 DEF PInv, WiredInv, Owned
<1>11. NobodyNoClient'
  BY <1>2, <1>3, <1>5 DEF PInv, NobodyNoClient
<1>12. PeersOK'
  BY <1>1, <1>3, KindsArePeers, NewPeerKeepsPeers DEF PInv
<1> QED  BY <1>7, <1>8, <1>9, <1>10, <1>11, <1>12 DEF WiredInv

\* An event of a listener's port, whichever it is.
LEMMA WaiterHandlesKeeps ==
  ASSUME PInv, NEW ev, WaiterHandles(ev)
  PROVE  WiredInv' /\ NobodyNoClient' /\ PeersOK'
<1> USE DEF WaiterHandles
<1>1. CASE ev.me \notin DOMAIN waiter \/ (ev.me \in DOMAIN waiter /\ WaiterRefuses(ev.me))
  <2>1. UNCHANGED <<router, waiter, entries>>
    BY <1>1 DEF WaiterRefuses, WaiterCounts, WaiterConnects, WaiterRecounts
  <2> QED  BY <2>1 DEF PInv, router, WiredInv, IdsGiven, WaitersOK, ClientsOK, OneEach, Owned,
                       NobodyNoClient, PeersOK
<1>2. CASE ev.me \in DOMAIN waiter /\ ~WaiterRefuses(ev.me)
  BY <1>2, WaiterCountsKeeps, WaiterConnectsKeeps, WaiterRecountsKeeps
<1> QED  BY <1>1, <1>2

-----------------------------------------------------------------------------
(* Commands of the control socket. *)

LEMMA CreateWaiterKeeps ==
  ASSUME PInv, CreateWaiter PROVE WiredInv' /\ NobodyNoClient' /\ PeersOK'
<1>1. PICK w \in FreePorts :
        /\ waiter' = Put(waiter, w, [id |-> nextId, count |-> 0, client |-> 0,
                                     endpoints |-> TRUE])
        /\ peers' = Put(peers, nextId, [kind |-> "waiter"])
        /\ nextId' = nextId + 1
        /\ UNCHANGED <<entries, wires>>
  BY DEF CreateWaiter
<1>2. w \notin DOMAIN waiter
  BY DEF FreePorts
<1>3. /\ nextId \in Nat /\ nextId \notin DOMAIN peers /\ nextId > 0 /\ 0 \notin DOMAIN peers
      /\ \A v \in DOMAIN waiter : waiter[v] \in ListenerRecord
  BY DEF PInv, WiredInv, WaitersOK, IdsGiven, Multi
<1>4. /\ DOMAIN waiter' = DOMAIN waiter \cup {w}
      /\ waiter'[w] = [id |-> nextId, count |-> 0, client |-> 0, endpoints |-> TRUE]
      /\ \A v \in DOMAIN waiter : waiter'[v] = waiter[v]
      /\ waiter' = [v \in DOMAIN waiter' |-> waiter'[v]]
  BY <1>1, <1>2 DEF Put
<1>5. /\ DOMAIN peers' = DOMAIN peers \cup {nextId} /\ peers'[nextId] = [kind |-> "waiter"]
      /\ \A i \in DOMAIN peers : peers'[i] = peers[i]
  BY <1>1, <1>3 DEF Put
<1>6. \A v \in DOMAIN waiter' : waiter'[v] \in ListenerRecord
  <2>1. waiter'[w] \in ListenerRecord
    BY <1>3, <1>4 DEF ListenerRecord
  <2> QED  BY <1>3, <1>4, <2>1
<1>7. \A v \in DOMAIN waiter : /\ waiter[v].client \in Nat /\ waiter[v].client < nextId
                               /\ waiter[v].id \in DOMAIN peers
                               /\ peers[waiter[v].id].kind = "waiter"
  BY <1>3 DEF PInv, WiredInv, WaitersOK, ListenerRecord
<1>8. IdsGiven'
  BY <1>1, <1>3, <1>5 DEF PInv, WiredInv, IdsGiven, Multi
<1>9. WaitersOK'
  <2>1. waiter' \in [DOMAIN waiter' -> ListenerRecord]
    BY <1>4, <1>6
  <2>2. /\ waiter'[w].id \in DOMAIN peers' /\ peers'[waiter'[w].id].kind = "waiter"
        /\ waiter'[w].client < nextId'
    <3>1. waiter'[w].id = nextId /\ waiter'[w].client = 0
      BY <1>4
    <3> QED  BY <1>1, <1>3, <1>5, <3>1
  <2>3. ASSUME NEW v \in DOMAIN waiter
        PROVE  /\ waiter'[v].id \in DOMAIN peers' /\ peers'[waiter'[v].id].kind = "waiter"
               /\ waiter'[v].client < nextId'
    <3>1. waiter'[v] = waiter[v]
      BY <1>4
    <3>2. waiter[v].id \in DOMAIN peers' /\ peers'[waiter[v].id].kind = "waiter"
      BY <1>5, <1>7
    <3>3. waiter[v].client < nextId + 1
      BY <1>3, <1>7
    <3> QED  BY <1>1, <3>1, <3>2, <3>3
  <2> QED  BY <1>4, <2>1, <2>2, <2>3 DEF WaitersOK
<1>10. ClientsOK'
  <2>1. waiter'[w].client = 0
    BY <1>4
  <2>2. waiter'[w].client \notin DOMAIN peers'
    BY <1>3, <1>5, <2>1
  <2>3. ASSUME NEW v \in DOMAIN waiter, waiter'[v].client \in DOMAIN peers'
        PROVE  /\ peers'[waiter'[v].client].kind = "client"
               /\ <<waiter'[v].client, waiter'[v].id>> \in wires'
               /\ <<waiter'[v].id, waiter'[v].client>> \in wires'
    <3>1. waiter'[v] = waiter[v] /\ waiter[v].client \in DOMAIN peers
      BY <1>4, <1>5, <1>7, <1>3, <2>3
    <3> QED  BY <1>1, <1>5, <3>1 DEF PInv, WiredInv, ClientsOK
  <2> QED  BY <1>4, <2>2, <2>3 DEF ClientsOK
<1>11. OneEach' /\ Owned'
  BY <1>3, <1>4, <1>5, <1>7 DEF PInv, WiredInv, OneEach, Owned
<1>12. NobodyNoClient'
  BY <1>3, <1>4, <1>5, <1>7 DEF PInv, NobodyNoClient
<1>13. PeersOK'
  BY <1>1, <1>3, <1>5, KindsArePeers, NewPeerKeepsPeers DEF PInv
<1> QED  BY <1>8, <1>9, <1>10, <1>11, <1>12, <1>13 DEF WiredInv

LEMMA EndpointsKeep ==
  ASSUME PInv, NEW w \in DOMAIN waiter, NEW b \in BOOLEAN,
         waiter' = [waiter EXCEPT ![w].endpoints = b], UNCHANGED <<router, entries>>
  PROVE  WiredInv' /\ NobodyNoClient' /\ PeersOK'
<1>1. waiter \in [DOMAIN waiter -> ListenerRecord]
  BY DEF PInv, WiredInv, WaitersOK
<1>2. /\ waiter' \in [DOMAIN waiter' -> ListenerRecord] /\ DOMAIN waiter' = DOMAIN waiter
      /\ \A v \in DOMAIN waiter : /\ waiter'[v].id = waiter[v].id
                                   /\ waiter'[v].client = waiter[v].client
                                   /\ waiter'[v].count = waiter[v].count
  BY <1>1 DEF ListenerRecord
<1> QED  BY <1>2 DEF PInv, router, WiredInv, IdsGiven, WaitersOK, ClientsOK, OneEach, Owned,
                     NobodyNoClient, PeersOK

\* A listener that goes takes its client along.
LEMMA RemoveWaiterKeeps ==
  ASSUME PInv, NEW w \in DOMAIN waiter, RemoveWaiter(w)
  PROVE  WiredInv' /\ NobodyNoClient' /\ PeersOK'
<1> DEFINE S == {waiter[w].id, waiter[w].client}
<1>1. RemovePeers(S) /\ UNCHANGED entries
  BY DEF RemoveWaiter
<1>2. /\ waiter \in [DOMAIN waiter -> ListenerRecord]
      /\ waiter' = [v \in DOMAIN waiter \ {w} |-> waiter[v]]
  BY DEF RemoveWaiter, RemovePort, Without, Restrict, PInv, WiredInv, WaitersOK
<1>3. /\ DOMAIN waiter' = DOMAIN waiter \ {w}
      /\ waiter' \in [DOMAIN waiter' -> ListenerRecord]
      /\ \A v \in DOMAIN waiter' : waiter'[v] = waiter[v]
  BY <1>2
<1>4. \A v \in DOMAIN waiter' : waiter[v].id \notin S
  BY <1>3 DEF PInv, WiredInv, WaitersOK, ClientsOK, OneEach
<1>5. \A v \in DOMAIN waiter \ DOMAIN waiter' : waiter[v].client \in S
  BY <1>3
<1> HIDE DEF S
<1>6. /\ nextId' = nextId /\ DOMAIN peers' = DOMAIN peers \ S
      /\ \A i \in DOMAIN peers' : peers'[i] = peers[i]
      /\ \A x \in wires : Range(x) \cap S = {} => x \in wires'
  BY <1>1, RemovePeersDoes
<1>7. WiredInv'
  BY <1>3, <1>4, <1>5, <1>6, RemovalKeepsWired DEF PInv
<1>8. NobodyNoClient'
  BY <1>3, <1>6 DEF PInv, NobodyNoClient
<1> QED  BY <1>1, <1>7, <1>8, RemovalKeepsPeers DEF PInv

\* Peers that are no listeners of ports, whoever removes them.
LEMMA RemovalKeeps ==
  ASSUME PInv, NEW S, RemovePeers(S), UNCHANGED waiter,
         \A w \in DOMAIN waiter : waiter[w].id \notin S
  PROVE  WiredInv' /\ NobodyNoClient'
<1>1. /\ nextId' = nextId /\ DOMAIN peers' = DOMAIN peers \ S
      /\ \A i \in DOMAIN peers' : peers'[i] = peers[i]
      /\ \A x \in wires : Range(x) \cap S = {} => x \in wires'
  BY RemovePeersDoes
<1>2. WiredInv'
  BY <1>1, RemovalKeepsWired DEF PInv, WiredInv, WaitersOK
<1> QED  BY <1>1, <1>2 DEF PInv, NobodyNoClient

LEMMA RemovePeerKeeps ==
  ASSUME PInv, NEW i \in DOMAIN peers, RemovePeer(i)
  PROVE  WiredInv' /\ NobodyNoClient' /\ PeersOK'
<1>1. RemovePeers({i}) /\ UNCHANGED <<waiter, entries>>
  BY DEF RemovePeer
<1>2. \A w \in DOMAIN waiter : waiter[w].id \notin {i}
  BY DEF RemovePeer, PInv, WiredInv, WaitersOK
<1> QED  BY <1>1, <1>2, RemovalKeeps, RemovalKeepsPeers DEF PInv

-----------------------------------------------------------------------------
(* The multi listener. *)

\* A port that joins a listener of its name.
LEMMA JoinKeeps ==
  ASSUME PInv, NEW p, NEW i \in DOMAIN peers, peers[i].kind = "listener",
         entries' = Put(entries, p, i), UNCHANGED <<waiter, wires, nextId>>,
         NEW same \in SUBSET DOMAIN peers, \A j \in same : peers[j].kind = "listener",
         peers' = [j \in DOMAIN peers |->
                     IF j \in same THEN [peers[j] EXCEPT !.uses = @ + 1] ELSE peers[j]]
  PROVE  WiredInv' /\ NobodyNoClient' /\ PeersOK'
<1>1. \A j \in same :
         peers[j] \in [kind : {"listener"}, name : Name \cup {"ours", "nameless"}, uses : Int]
  BY DEF PInv, PeersOK, Peer
<1>2. \A j \in DOMAIN peers : peers'[j].kind = peers[j].kind /\ peers'[j] \in Peer
  BY <1>1 DEF PInv, PeersOK, Peer
<1>3. DOMAIN peers' = DOMAIN peers
  OBVIOUS
<1>4. WiredInv' /\ NobodyNoClient'
  BY <1>2, <1>3 DEF PInv, WiredInv, IdsGiven, WaitersOK, ClientsOK, OneEach, Owned, NobodyNoClient
<1>5. /\ DOMAIN entries' = DOMAIN entries \cup {p} /\ entries'[p] = i
      /\ \A q \in DOMAIN entries : q # p => entries'[q] = entries[q]
  BY DEF Put
<1>6. i \in Nat /\ i < nextId
  BY DEF PInv, WiredInv, IdsGiven, Multi
<1>7. PeersOK'
  BY <1>2, <1>3, <1>5, <1>6 DEF PInv, PeersOK
<1> QED  BY <1>4, <1>7

\* A new listener, for the first port of a name.
LEMMA ListenKeeps ==
  ASSUME PInv, NEW p, NEW nm \in Name \cup {"ours", "nameless"},
         entries' = Put(entries, p, nextId),
         peers' = Put(peers, nextId, [kind |-> "listener", name |-> nm, uses |-> 0]),
         wires' = wires \cup {<<nextId, Multi>>}, nextId' = nextId + 1, UNCHANGED waiter
  PROVE  WiredInv' /\ NobodyNoClient' /\ PeersOK'
<1> DEFINE r == [kind |-> "listener", name |-> nm, uses |-> 0]
<1>1. nextId \in Nat /\ nextId \notin DOMAIN peers
  BY DEF PInv, WiredInv, IdsGiven
<1>2. /\ DOMAIN peers' = DOMAIN peers \cup {nextId} /\ peers'[nextId] = r
      /\ \A i \in DOMAIN peers : peers'[i] = peers[i]
  BY <1>1 DEF Put
<1>3. r \in Peer /\ r.kind = "listener"
  BY DEF Peer
<1> HIDE DEF r
<1>4. WiredInv'
  BY <1>2, <1>3, NewPeerKeepsWired DEF PInv
<1>5. \A w \in DOMAIN waiter : waiter[w].client # nextId
  BY <1>1 DEF PInv, WiredInv, WaitersOK, ListenerRecord
<1>6. NobodyNoClient'
  BY <1>2, <1>5 DEF PInv, NobodyNoClient
<1>7. /\ DOMAIN entries' = DOMAIN entries \cup {p} /\ entries'[p] = nextId
      /\ \A q \in DOMAIN entries : q # p => entries'[q] = entries[q]
  BY DEF Put
<1>8. \A i \in DOMAIN peers' : peers'[i] \in Peer
  BY <1>2, <1>3 DEF PInv, PeersOK
<1>9. ASSUME NEW q \in DOMAIN entries'
      PROVE  /\ entries'[q] \in Nat /\ entries'[q] < nextId'
             /\ entries'[q] \in DOMAIN peers' => peers'[entries'[q]].kind = "listener"
  <2>1. CASE q = p
    BY <1>1, <1>2, <1>3, <1>7, <2>1
  <2>2. CASE q # p
    <3>1. /\ entries'[q] = entries[q] /\ entries[q] \in Nat /\ entries[q] < nextId
          /\ entries[q] \in DOMAIN peers => peers[entries[q]].kind = "listener"
      BY <1>7, <2>2 DEF PInv, PeersOK
    <3> QED  BY <1>1, <1>2, <3>1
  <2> QED  BY <2>1, <2>2
<1> QED  BY <1>4, <1>6, <1>8, <1>9 DEF PeersOK

LEMMA MultiSubscribedKeeps ==
  ASSUME PInv, NEW p, MultiSubscribed(p), UNCHANGED waiter
  PROVE  WiredInv' /\ NobodyNoClient' /\ PeersOK'
<1> DEFINE same == Named(NameNow(p))
<1>1. NameNow(p) \in Name \cup {"ours", "nameless"}
  BY PortsAssumption DEF NameNow, PInv, SequencerOK
<1>2. same \in SUBSET DOMAIN peers /\ \A j \in same : peers[j].kind = "listener"
  BY DEF Named
<1>3. CASE \E i \in same :
              /\ entries' = Put(entries, p, i)
              /\ peers' = [j \in DOMAIN peers |->
                             IF j \in same THEN [peers[j] EXCEPT !.uses = @ + 1] ELSE peers[j]]
              /\ UNCHANGED <<wires, nextId>>
  <2> HIDE DEF same
  <2> QED  BY <1>2, <1>3, JoinKeeps
<1>4. CASE /\ entries' = Put(entries, p, nextId)
           /\ peers' = Put(peers, nextId, [kind |-> "listener", name |-> NameNow(p), uses |-> 0])
           /\ wires' = wires \cup {<<nextId, Multi>>}
           /\ nextId' = nextId + 1
  BY <1>1, <1>4, ListenKeeps
<1> QED  BY <1>3, <1>4 DEF MultiSubscribed

\* An entry that is erased, with the listener or without.
LEMMA MultiUnsubscribedKeeps ==
  ASSUME PInv, NEW p, MultiUnsubscribed(p), UNCHANGED waiter
  PROVE  WiredInv' /\ NobodyNoClient' /\ PeersOK'
<1> DEFINE i == entries[p]  left == peers[i].uses - 1
<1>1. CASE UNCHANGED <<router, entries>>
  BY <1>1 DEF PInv, router, WiredInv, IdsGiven, WaitersOK, ClientsOK, OneEach, Owned,
              NobodyNoClient, PeersOK
<1>2. CASE /\ p \in DOMAIN entries /\ i \in DOMAIN peers
           /\ entries' = Without(entries, {p}) /\ Release(i)
  <2>1. peers[i] \in [kind : {"listener"}, name : Name \cup {"ours", "nameless"}, uses : Int]
    BY <1>2 DEF PInv, PeersOK, Peer
  <2>2. entries' = [q \in DOMAIN entries \ {p} |-> entries[q]]
    BY <1>2 DEF Without, Restrict
  <2>3. CASE peers' = [peers EXCEPT ![i].uses = left] /\ UNCHANGED <<wires, nextId>>
    <3>1. DOMAIN peers' = DOMAIN peers
      BY <2>3
    <3>2. peers'[i] \in Peer /\ peers'[i].kind = "listener"
      BY <1>2, <2>1, <2>3 DEF Peer
    <3>3. \A j \in DOMAIN peers : j # i => peers'[j] = peers[j]
      BY <2>3
    <3>4. \A j \in DOMAIN peers : peers'[j].kind = peers[j].kind
      BY <2>1, <3>2, <3>3
    <3> HIDE DEF i, left
    <3>5. WiredInv' /\ NobodyNoClient'
      BY <2>3, <3>1, <3>4 DEF PInv, WiredInv, IdsGiven, WaitersOK, ClientsOK, OneEach, Owned,
                              NobodyNoClient
    <3>6. PeersOK'
      BY <2>2, <2>3, <3>1, <3>2, <3>3, <3>4 DEF PInv, PeersOK
    <3> QED  BY <3>5, <3>6
  <2>4. CASE RemovePeers({i})
    <3>1. \A w \in DOMAIN waiter : waiter[w].id \notin {i}
      BY <2>1 DEF PInv, WiredInv, WaitersOK
    <3>2. /\ DOMAIN peers' = DOMAIN peers \ {i} /\ nextId' = nextId
          /\ \A j \in DOMAIN peers' : peers'[j] = peers[j]
      BY <2>4, RemovePeersDoes
    <3> HIDE DEF i, left
    <3>3. WiredInv' /\ NobodyNoClient'
      BY <2>4, <3>1, RemovalKeeps
    <3>4. PeersOK'
      BY <2>2, <3>2 DEF PInv, PeersOK
    <3> QED  BY <3>3, <3>4
  <2> QED  BY <1>2, <2>3, <2>4 DEF Release
<1> QED  BY <1>1, <1>2 DEF MultiUnsubscribed, KeepAll

-----------------------------------------------------------------------------
LEMMA PInvStep == PInv /\ [ANext]_avars => PInv'
<1> SUFFICES ASSUME PInv, [ANext]_avars PROVE WiredInv' /\ NobodyNoClient' /\ PeersOK'
  BY SequencerStep DEF PInv
<1>1. CASE UNCHANGED <<router, waiter, entries>>
  BY <1>1, RouterLeftAlone, SequencerStep DEF PInv
<1>2. CASE ReadReady /\ ~UNCHANGED <<router, waiter, entries>>
  <2>1. ASSUME NEW ev, MultiHandles(ev) PROVE WiredInv' /\ NobodyNoClient' /\ PeersOK'
    BY <2>1, MultiSubscribedKeeps, MultiUnsubscribedKeeps DEF MultiHandles
  <2>2. ASSUME NEW ev, HwHandles(ev) PROVE UNCHANGED <<router, waiter, entries>>
    BY <2>2 DEF HwHandles
  <2> QED  BY <1>2, <2>1, <2>2, WaiterHandlesKeeps DEF ReadReady
<1>3. CASE CreateWaiter
  BY <1>3, CreateWaiterKeeps
<1>4. CASE \E w \in DOMAIN waiter : AddEndpoint(w) \/ RemoveEndpoint(w)
  <2>1. ASSUME NEW w \in DOMAIN waiter, AddEndpoint(w) \/ RemoveEndpoint(w)
        PROVE  /\ \E b \in BOOLEAN : waiter' = [waiter EXCEPT ![w].endpoints = b]
               /\ UNCHANGED <<router, entries>>
    BY <2>1 DEF AddEndpoint, RemoveEndpoint
  <2> QED  BY <1>4, <2>1, EndpointsKeep
<1>5. CASE \E w \in DOMAIN waiter : RemoveWaiter(w)
  BY <1>5, RemoveWaiterKeeps
<1>6. CASE \E i \in DOMAIN peers : RemovePeer(i)
  BY <1>6, RemovePeerKeeps
<1>7. CASE Others
  <2>1. UNCHANGED <<router, waiter, entries>>
    BY <1>7 DEF Others, Subscribe, Unsubscribe, Plug, Unplug, Elsewhere
  <2> QED  BY <1>1, <2>1
<1>8. CASE UNCHANGED avars
  BY <1>1, <1>8 DEF avars
<1> QED  BY <1>1, <1>2, <1>3, <1>4, <1>5, <1>6, <1>7, <1>8 DEF ANext, User

\* A client that a listener made belongs to that listener alone and is wired
\* to it both ways (local_alsa_listener.cpp): reconnecting, a listener that
\* is removed and a removal by hand leave none behind, whatever the
\* sequencer tells and whenever.
THEOREM AlsaClientsAreOwned == ASpec => []ClientsAreOwned
<1>1. AInit => PInv
  BY PInvInit
<1>2. PInv /\ [ANext]_avars => PInv'
  BY PInvStep
<1>3. PInv => ClientsAreOwned
  BY OwnedOnce DEF PInv
<1> QED  BY <1>1, <1>2, <1>3, PTL DEF ASpec

-----------------------------------------------------------------------------
(* What the daemon knows of the sequencer's subscriptions.  It is told of     *)
(* them by events that it handles later, while other programs go on: the      *)
(* invariant says what is still on its way.                                   *)

\* Whether a sequence of events has a call of that kind of port me about one of
\* the ports in from; and whether every such subscription is followed by an end.
Says(q, i, kind, me, from) == q[i].kind = kind /\ q[i].me = me /\ q[i].other \in from
Has(q, kind, me, from) == \E i \in DOMAIN q : Says(q, i, kind, me, from)
Ended(q, me, from) ==
    \A i \in DOMAIN q : Says(q, i, "subscribed", me, from) =>
        \E j \in DOMAIN q : j > i /\ Says(q, j, "unsubscribed", me, from)

\* The subscriptions between the port me and those in from.
Between(me, from, links) == {l \in links : \E i \in {1, 2} : l[i] = me /\ l[3 - i] \in from}
Joined(p) == Of(p, subs) \cap Of(Multi, subs)

\* A listener that counts somebody has its client, unless it lost it.
CountedHasClient ==
    \A w \in DOMAIN waiter :
        waiter[w].count > 0 /\ waiter[w].id \notin missed => waiter[w].client \in DOMAIN peers

\* Somebody who is subscribed is connected, or the listener will be told.
UsedWillConnect ==
    \A w \in DOMAIN waiter \ renumbered :
        Of(w, subs) # {} /\ waiter[w].id \notin missed \cup refused =>
            waiter[w].client \in DOMAIN peers \/ Has(queue, "subscribed", w, Port)

\* With nobody subscribed, a client that is there will go: a subscription that
\* is still to be handled is followed by its end.
UnusedWillDisconnect ==
    \A w \in DOMAIN waiter \ renumbered :
        Of(w, subs) = {} /\ waiter[w].id \notin refused =>
            /\ Ended(queue, w, Port)
            /\ waiter[w].client \in DOMAIN peers => Has(queue, "unsubscribed", w, Port)

\* A number that is free was given up with no event about it pending.
FreeIsQuiet ==
    \A w \in OwnPort \ ({Multi} \cup DOMAIN waiter \cup renumbered) :
        ~Has(queue, "subscribed", w, Port)

\* The same for the ports that announce themselves to the multi listener.
LeftWillBeForgotten ==
    \A p \in Ext : Joined(p) = {} =>
        /\ Ended(queue, Multi, {p})
        /\ p \in DOMAIN entries /\ entries[p] \in DOMAIN peers => Has(queue, "unsubscribed", Multi, {p})

ExportsAnnounced ==
    announcing \/ (exports = {} /\ \A i \in DOMAIN queue : queue[i].kind # "start")

QInv == CountedHasClient /\ UsedWillConnect /\ UnusedWillDisconnect /\ FreeIsQuiet
        /\ LeftWillBeForgotten /\ ExportsAnnounced
-----------------------------------------------------------------------------
(* Sequences of events.  How many subscriptions end at once is not bounded:  *)
(* the library's definitions are recursive, and what they compute follows    *)
(* for the shortest sequence that would be an exception.                     *)

\* A set of naturals has a least element.
LEMMA LeastOf ==
  ASSUME NEW T \in SUBSET Nat, T # {}
  PROVE  \E m \in T : \A k \in T : m <= k
<1>1. PICK m \in T : \A k \in T : ~(<<k, m>> \in OpToRel(<, Nat))
  BY NatLessThanWellFounded, WFMin
<1>2. \A k \in T : ~(k < m)
  BY <1>1 DEF OpToRel
<1> QED  BY <1>2

\* A finite set in an order of its own.
LEMMA SetToSeqIs ==
  ASSUME NEW S, IsFiniteSet(S)
  PROVE  SetToSeq(S) \in Seq(S) /\ Range(SetToSeq(S)) = S
<1> DEFINE n == Cardinality(S)  f == SetToSeq(S)
<1>1. n \in Nat /\ \E g : g \in Bijection(1..n, S)
  BY FS_CardinalityType DEF ExistsBijection
<1>2. \E g \in [1..n -> S] : IsInjective(g)
  BY <1>1 DEF Bijection, Injection
<1>3. f \in [1..n -> S] /\ IsInjective(f)
  BY <1>2 DEF SetToSeq
<1> HIDE DEF f
<1>4. f \in Injection(1..n, S)
  BY <1>3 DEF Injection
<1>5. IsFiniteSet(1..n) /\ Cardinality(1..n) = n
  BY <1>1, FS_Interval
<1>6. f \in Surjection(1..n, S)
  BY <1>4, <1>5, FS_Injection
<1>7. \A t \in S : \E i \in 1..n : f[i] = t
  BY <1>6 DEF Surjection
<1>8. Range(f) = S
  BY <1>3, <1>7 DEF Range
<1>9. f \in Seq(S)
  BY <1>1, <1>3
<1> QED  BY <1>8, <1>9 DEF f

\* What FlattenSeq computes of the first m sequences.
Flat(s, f, m) == f = [i \in 1..m |-> IF i = 1 THEN s[i] ELSE f[i - 1] \o s[i]]

LEMMA FlatExists ==
  ASSUME NEW s, NEW n \in Nat
  PROVE  \E f : Flat(s, f, n)
<1> DEFINE Bad == {m \in Nat : \A f : ~Flat(s, f, m)}
<1> SUFFICES ASSUME Bad # {} PROVE FALSE
  OBVIOUS
<1>1. PICK m \in Bad : \A k \in Bad : m <= k
  <2>1. Bad \in SUBSET Nat
    OBVIOUS
  <2> HIDE DEF Bad
  <2> QED  BY <2>1, LeastOf
<1>2. m \in Nat /\ \A f : ~Flat(s, f, m)
  BY <1>1
<1>3. CASE m = 0
  <2> DEFINE f == [i \in 1..0 |-> 0]
  <2>1. f = [i \in 1..0 |-> IF i = 1 THEN s[i] ELSE f[i - 1] \o s[i]]
    OBVIOUS
  <2>2. Flat(s, f, 0)
    BY <2>1 DEF Flat
  <2> QED  BY <1>2, <1>3, <2>2
<1>4. CASE m # 0
  <2>1. m - 1 \in Nat /\ m - 1 \notin Bad
    BY <1>1, <1>2, <1>4
  <2>2. PICK f : Flat(s, f, m - 1)
    BY <2>1
  <2> DEFINE g == [i \in 1..m |-> IF i = 1 THEN s[i] ELSE f[i - 1] \o s[i]]
  <2>3. ASSUME NEW i \in 1..m, i # 1 PROVE g[i - 1] = f[i - 1]
    <3>1. i - 1 \in 1..m - 1 /\ i - 1 \in 1..m
      BY <1>2, <2>3
    <3> DEFINE j == i - 1
    <3>2. f[j] = IF j = 1 THEN s[j] ELSE f[j - 1] \o s[j]
      BY <2>2, <3>1 DEF Flat
    <3>3. g[j] = IF j = 1 THEN s[j] ELSE f[j - 1] \o s[j]
      BY <3>1
    <3> QED  BY <3>2, <3>3
  <2>4. g = [i \in 1..m |-> IF i = 1 THEN s[i] ELSE g[i - 1] \o s[i]]
    BY <2>3
  <2>5. Flat(s, g, m)
    BY <2>4 DEF Flat
  <2> QED  BY <1>2, <2>5
<1> QED  BY <1>3, <1>4

\* The elements of the sequences, and nothing else.
LEMMA FlattenIs ==
  ASSUME NEW E, NEW s \in Seq(Seq(E))
  PROVE  /\ FlattenSeq(s) \in Seq(E)
         /\ \A x : x \in Range(FlattenSeq(s)) <=> \E k \in 1..Len(s) : x \in Range(s[k])
<1> DEFINE n == Len(s)
<1>1. n \in Nat /\ \A k \in 1..n : s[k] \in Seq(E)
  OBVIOUS
<1>2. CASE n = 0
  <2>1. s = <<>> /\ FlattenSeq(s) = <<>>
    BY <1>2 DEF FlattenSeq
  <2>2. Range(FlattenSeq(s)) = {}
    BY <2>1 DEF Range
  <2>3. FlattenSeq(s) \in Seq(E)
    <3>1. <<>> \in Seq(E)
      OBVIOUS
    <3> QED  BY <2>1, <3>1
  <2>4. \A k \in 1..Len(s) : FALSE
    BY <1>2
  <2> QED  BY <2>2, <2>3, <2>4
<1>3. CASE n # 0
  <2> DEFINE f == CHOOSE g : g = [i \in 1..n |-> IF i = 1 THEN s[i] ELSE g[i - 1] \o s[i]]
             Good(k) == /\ f[k] \in Seq(E)
                        /\ \A x : x \in Range(f[k]) <=> \E j \in 1..k : x \in Range(s[j])
             Bad == {k \in 1..n : ~Good(k)}
  <2>1. FlattenSeq(s) = f[n]
    BY <1>3 DEF FlattenSeq
  <2>2. f = [i \in 1..n |-> IF i = 1 THEN s[i] ELSE f[i - 1] \o s[i]]
    <3>1. \E g : g = [i \in 1..n |-> IF i = 1 THEN s[i] ELSE g[i - 1] \o s[i]]
      BY <1>1, FlatExists DEF Flat
    <3> QED  BY <3>1
  <2> HIDE DEF f, n
  <2>3. Bad = {}
    <3> SUFFICES ASSUME Bad # {} PROVE FALSE
      OBVIOUS
    <3>1. PICK m \in Bad : \A k \in Bad : m <= k
      <4>1. Bad \in SUBSET Nat
        BY <1>1
      <4> HIDE DEF Bad
      <4> QED  BY <4>1, LeastOf
    <3>2. m \in 1..n /\ m \in Nat /\ ~Good(m)
      BY <1>1, <3>1
    <3>3. CASE m = 1
      <4>1. f[1] = s[1]
        BY <2>2, <3>2, <3>3
      <4>2. \A j \in 1..1 : j = 1
        OBVIOUS
      <4> QED  BY <1>1, <3>2, <3>3, <4>1, <4>2
    <3>4. CASE m # 1
      <4>1. m - 1 \in 1..n /\ m - 1 \in Nat
        BY <1>1, <3>2, <3>4
      <4>2. Good(m - 1)
        <5>1. m - 1 \notin Bad
          <6> HIDE DEF Bad
          <6> QED  BY <3>1, <3>2, <4>1
        <5> QED  BY <4>1, <5>1
      <4>3. f[m] = f[m - 1] \o s[m]
        BY <2>2, <3>2, <3>4
      <4>4. f[m - 1] \in Seq(E) /\ s[m] \in Seq(E)
        BY <1>1, <3>2, <4>2
      <4>5. f[m] \in Seq(E) /\ Range(f[m]) = Range(f[m - 1]) \cup Range(s[m])
        BY <4>3, <4>4, RangeConcatenation, ConcatProperties
      <4>6. \A j : j \in 1..m <=> j \in 1..m - 1 \/ j = m
        BY <3>2, <4>1
      <4>7. \A x : x \in Range(f[m]) <=> \E j \in 1..m : x \in Range(s[j])
        BY <4>2, <4>5, <4>6
      <4> QED  BY <3>2, <4>5, <4>7
    <3> QED  BY <3>3, <3>4
  <2>4. n \in 1..n
    BY <1>1, <1>3
  <2>5. Good(n)
    BY <2>3, <2>4
  <2> QED  BY <2>1, <2>5 DEF n
<1> QED  BY <1>2, <1>3

Kinds == {"subscribed", "unsubscribed"}

LEMMA FiniteLinks ==
  ASSUME NEW links \in SUBSET Link
  PROVE  IsFiniteSet(links)
<1>1. IsFiniteSet(Port)
  BY PortsAssumption, FS_Union DEF Port
<1>2. IsFiniteSet(Port \X Port)
  BY <1>1, FS_Product
<1>3. links \in SUBSET (Port \X Port)
  BY DEF Link
<1> QED  BY <1>2, <1>3, FS_Subset

LEMMA CallIsEvent ==
  ASSUME NEW kind \in Kinds, NEW l \in Link, NEW i \in {1, 2}, l[i] \in OwnPort
  PROVE  /\ Call(kind, l, i) \in Event /\ Call(kind, l, i).kind = kind
         /\ Call(kind, l, i).me = l[i] /\ Call(kind, l, i).other = l[3 - i]
<1>1. l[1] \in Port /\ l[2] \in Port
  BY DEF Link
<1>2. CASE i = 1
  BY <1>1, <1>2 DEF Call, Event, Kinds
<1>3. CASE i = 2
  BY <1>1, <1>3 DEF Call, Event, Kinds
<1> QED  BY <1>2, <1>3

\* The calls about one subscription: one for each of its ports that is ours.
LEMMA CallsAre ==
  ASSUME NEW kind \in Kinds, NEW l \in Link
  PROVE  /\ Calls(kind, l) \in Seq(Event)
         /\ \A x : x \in Range(Calls(kind, l)) <=>
                      \E i \in {1, 2} : l[i] \in OwnPort /\ x = Call(kind, l, i)
<1> DEFINE m == Mine(l)
<1>1. /\ m \in {<<1>>, <<2>>, <<1, 2>>}
      /\ \A i \in {1, 2} : l[i] \in OwnPort <=> \E j \in DOMAIN m : m[j] = i
      /\ \A j \in DOMAIN m : m[j] \in {1, 2}
  <2>1. l[1] \in OwnPort \/ l[2] \in OwnPort
    BY DEF Link
  <2>2. CASE l[1] \notin OwnPort
    BY <2>1, <2>2 DEF Mine
  <2>3. CASE l[2] \notin OwnPort
    BY <2>1, <2>3 DEF Mine
  <2>4. CASE l[1] \in OwnPort /\ l[2] \in OwnPort
    BY <2>4 DEF Mine
  <2> QED  BY <2>2, <2>3, <2>4
<1>2. \E n \in Nat : DOMAIN m = 1..n
  <2>1. DOMAIN m = 1..1 \/ DOMAIN m = 1..2
    BY <1>1
  <2> QED  BY <2>1
<1>3. Calls(kind, l) = [j \in DOMAIN m |-> Call(kind, l, m[j])]
  BY DEF Calls
<1> HIDE DEF m
<1>4. \A j \in DOMAIN m : m[j] \in {1, 2} /\ l[m[j]] \in OwnPort
  BY <1>1
<1>5. \A j \in DOMAIN m : Call(kind, l, m[j]) \in Event
  BY <1>4, CallIsEvent
<1>6. Calls(kind, l) \in Seq(Event)
  BY <1>2, <1>3, <1>5
<1>7. \A x : x \in Range(Calls(kind, l)) <=> \E j \in DOMAIN m : x = Call(kind, l, m[j])
  BY <1>3 DEF Range
<1> QED  BY <1>1, <1>4, <1>6, <1>7

\* Each of some subscriptions told of, once or twice.
LEMMA EventsAre ==
  ASSUME NEW kind \in Kinds, NEW links \in SUBSET Link, NEW n \in 0..2
  PROVE  /\ Events(kind, links, n) \in Seq(Event)
         /\ \A x \in Range(Events(kind, links, n)) :
               \E l \in links, i \in {1, 2} : l[i] \in OwnPort /\ x = Call(kind, l, i)
         /\ n # 0 => \A l \in links, i \in {1, 2} :
               l[i] \in OwnPort => Call(kind, l, i) \in Range(Events(kind, links, n))
<1> DEFINE o == SetToSeq(links)  c == Cardinality(links)
           s == [k \in 1..n * c |-> Calls(kind, o[((k - 1) \div n) + 1])]
<1>1. IsFiniteSet(links) /\ c \in Nat
  BY FiniteLinks, FS_CardinalityType
<1>2. o \in [1..c -> links] /\ Range(o) = links
  <2>1. o \in Seq(links) /\ Range(o) = links
    BY <1>1, SetToSeqIs
  <2>2. DOMAIN o = 1..c
    <3>1. \E g : g \in Bijection(1..c, links)
      BY <1>1, FS_CardinalityType DEF ExistsBijection
    <3>2. \E g \in [1..c -> links] : IsInjective(g)
      BY <3>1 DEF Bijection, Injection
    <3> QED  BY <3>2 DEF SetToSeq
  <2> HIDE DEF o, c
  <2>3. o \in [DOMAIN o -> links]
    BY <2>1
  <2> QED  BY <2>1, <2>2, <2>3
<1>3. Events(kind, links, n) = FlattenSeq(s)
  BY DEF Events
<1> HIDE DEF o, c
<1>4. n * c \in Nat /\ \A k \in 1..n * c : ((k - 1) \div n) + 1 \in 1..c
  <2>1. CASE n = 0
    BY <1>1, <2>1
  <2>2. CASE n = 1
    BY <1>1, <2>2
  <2>3. CASE n = 2
    BY <1>1, <2>3
  <2> QED  BY <2>1, <2>2, <2>3
<1>5. \A k \in 1..n * c : o[((k - 1) \div n) + 1] \in links
  BY <1>2, <1>4
<1>6. \A k \in 1..n * c : Calls(kind, o[((k - 1) \div n) + 1]) \in Seq(Event)
  BY <1>5, CallsAre
<1>7. s \in Seq(Seq(Event)) /\ Len(s) = n * c
  BY <1>4, <1>6
<1>8. \A k \in 1..n * c : s[k] = Calls(kind, o[((k - 1) \div n) + 1])
  OBVIOUS
<1> HIDE DEF s
<1>9. /\ FlattenSeq(s) \in Seq(Event)
      /\ \A x : x \in Range(FlattenSeq(s)) <=> \E k \in 1..n * c : x \in Range(s[k])
  BY <1>7, FlattenIs
<1>10. ASSUME NEW x \in Range(FlattenSeq(s))
       PROVE  \E l \in links, i \in {1, 2} : l[i] \in OwnPort /\ x = Call(kind, l, i)
  <2>1. PICK k \in 1..n * c : x \in Range(Calls(kind, o[((k - 1) \div n) + 1]))
    BY <1>8, <1>9, <1>10
  <2>2. o[((k - 1) \div n) + 1] \in links
    BY <1>5
  <2>3. \A l \in links : x \in Range(Calls(kind, l)) =>
                            \E i \in {1, 2} : l[i] \in OwnPort /\ x = Call(kind, l, i)
    BY CallsAre
  <2> QED  BY <2>1, <2>2, <2>3
<1>11. ASSUME n # 0, NEW l \in links, NEW i \in {1, 2}, l[i] \in OwnPort
       PROVE  Call(kind, l, i) \in Range(FlattenSeq(s))
  <2>1. PICK j \in 1..c : o[j] = l
    BY <1>2 DEF Range
  <2>2. \E k \in 1..n * c : ((k - 1) \div n) + 1 = j
    <3>1. CASE n = 1
      <4>1. j \in 1..n * c /\ ((j - 1) \div n) + 1 = j
        BY <1>1, <3>1
      <4> QED  BY <4>1
    <3>2. CASE n = 2
      <4>1. 2 * j - 1 \in 1..n * c /\ (((2 * j - 1) - 1) \div n) + 1 = j
        BY <1>1, <3>2
      <4> QED  BY <4>1
    <3> QED  BY <1>11, <3>1, <3>2
  <2>3. Call(kind, l, i) \in Range(Calls(kind, l))
    BY <1>11, CallsAre
  <2> QED  BY <1>8, <1>9, <2>1, <2>2, <2>3
<1> QED  BY <1>3, <1>9, <1>10, <1>11

\* A port that goes: each of those it was subscribed with is told, if it is ours.
LEMMA BereavedAre ==
  ASSUME SequencerOK, NEW p
  PROVE  /\ Bereaved(p) \in Seq(Event)
         /\ \A x : x \in Range(Bereaved(p)) <=>
                      \E l \in Of(p, subs), i \in {1, 2} :
                         l[i] \in OwnPort \ {p} /\ x = Call("unsubscribed", l, i)
<1> DEFINE E == Ends(p)  o == SetToSeq(E)
<1>1. Of(p, subs) \in SUBSET Link
  BY DEF SequencerOK, Of
<1>2. IsFiniteSet(Of(p, subs)) /\ IsFiniteSet({1, 2})
  <2>1. IsFiniteSet({1}) /\ IsFiniteSet({2})
    BY FS_Singleton
  <2>2. IsFiniteSet({1} \cup {2}) /\ {1} \cup {2} = {1, 2}
    BY <2>1, FS_Union
  <2> QED  BY <1>1, <2>2, FiniteLinks
<1>3. IsFiniteSet(Of(p, subs) \X {1, 2})
  BY <1>2, FS_Product
<1>4. E \in SUBSET (Of(p, subs) \X {1, 2})
  BY DEF Ends
<1>5. o \in Seq(E) /\ Range(o) = E
  <2>1. IsFiniteSet(E)
    BY <1>3, <1>4, FS_Subset
  <2> HIDE DEF E
  <2> QED  BY <2>1, SetToSeqIs
<1>6. Bereaved(p) = [i \in DOMAIN o |-> Call("unsubscribed", o[i][1], o[i][2])]
  BY DEF Bereaved
<1> HIDE DEF o
<1>7. \A e \in E : /\ e[1] \in Of(p, subs) /\ e[2] \in {1, 2} /\ e[1] \in Link
                    /\ e[1][e[2]] \in OwnPort /\ e[1][e[2]] # p
  BY <1>1 DEF Ends
<1>8. \A e \in E : Call("unsubscribed", e[1], e[2]) \in Event
  BY <1>7, CallIsEvent DEF Kinds
<1>9. \A x : x \in Range(Bereaved(p)) <=> \E e \in E : x = Call("unsubscribed", e[1], e[2])
  BY <1>5, <1>6 DEF Range
<1>10. \A x : (\E e \in E : x = Call("unsubscribed", e[1], e[2])) <=>
                 \E l \in Of(p, subs), i \in {1, 2} :
                    l[i] \in OwnPort \ {p} /\ x = Call("unsubscribed", l, i)
  <2>1. ASSUME NEW l \in Of(p, subs), NEW i \in {1, 2}, l[i] \in OwnPort \ {p}
        PROVE  \E e \in E : e[1] = l /\ e[2] = i
    <3>1. <<l, i>> \in E
      BY <2>1 DEF Ends
    <3> QED  BY <3>1
  <2> HIDE DEF E
  <2> QED  BY <1>7, <2>1
<1> HIDE DEF E
<1>11. \E n \in Nat : DOMAIN o = 1..n
  BY <1>5
<1>12. \A i \in DOMAIN o : Call("unsubscribed", o[i][1], o[i][2]) \in Event
  BY <1>5, <1>8
<1>13. Bereaved(p) \in Seq(Event)
  BY <1>6, <1>11, <1>12
<1> QED  BY <1>9, <1>10, <1>13

-----------------------------------------------------------------------------
(* What the queue says, when events are sent and when one is handled. *)

LEMMA AppendDoes ==
  ASSUME NEW q \in Seq(Event), NEW e \in Seq(Event), NEW me, NEW from
  PROVE  /\ \A k \in Kinds : Has(q \o e, k, me, from) <=> Has(q, k, me, from) \/ Has(e, k, me, from)
         /\ ~Has(e, "subscribed", me, from) /\ (Ended(q, me, from) \/ Has(e, "unsubscribed", me, from))
               => Ended(q \o e, me, from)
<1> DEFINE c == q \o e
<1>1. /\ DOMAIN q = 1..Len(q) /\ DOMAIN e = 1..Len(e) /\ DOMAIN c = 1..Len(q) + Len(e)
      /\ Len(q) \in Nat /\ Len(e) \in Nat
      /\ \A i \in 1..Len(q) : c[i] = q[i]
      /\ \A i \in 1..Len(q) + Len(e) : i > Len(q) => c[i] = e[i - Len(q)]
  <2>1. c \in Seq(Event) /\ Len(c) = Len(q) + Len(e)
    BY ConcatProperties
  <2>2. \A i \in 1..Len(q) + Len(e) : c[i] = IF i <= Len(q) THEN q[i] ELSE e[i - Len(q)]
    BY ConcatProperties
  <2> HIDE DEF c
  <2> QED  BY <2>1, <2>2
<1> HIDE DEF c
<1>2. \A i \in DOMAIN q : i \in DOMAIN c /\ \A k : Says(c, i, k, me, from) <=> Says(q, i, k, me, from)
  BY <1>1 DEF Says
<1>3. ASSUME NEW i \in DOMAIN e
      PROVE  /\ Len(q) + i \in DOMAIN c /\ Len(q) + i > Len(q)
             /\ \A k : Says(c, Len(q) + i, k, me, from) <=> Says(e, i, k, me, from)
  <2>1. Len(q) + i \in 1..Len(q) + Len(e) /\ Len(q) + i > Len(q) /\ (Len(q) + i) - Len(q) = i
    BY <1>1
  <2>2. c[Len(q) + i] = e[i]
    BY <1>1, <2>1
  <2> QED  BY <1>1, <2>1, <2>2 DEF Says
<1>4. ASSUME NEW i \in DOMAIN c, i \notin DOMAIN q
      PROVE  \E j \in DOMAIN e : i = Len(q) + j /\ \A k : Says(c, i, k, me, from) <=> Says(e, j, k, me, from)
  <2> DEFINE j == i - Len(q)
  <2>1. i \in 1..Len(q) + Len(e) /\ i > Len(q)
    BY <1>1, <1>4
  <2>2. j \in DOMAIN e /\ i = Len(q) + j
    BY <1>1, <2>1
  <2>3. c[i] = e[j]
    BY <1>1, <2>1
  <2> QED  BY <2>2, <2>3 DEF Says
<1>5. ASSUME NEW k \in Kinds
      PROVE  Has(c, k, me, from) <=> Has(q, k, me, from) \/ Has(e, k, me, from)
  <2>1. Has(c, k, me, from) => Has(q, k, me, from) \/ Has(e, k, me, from)
    BY <1>2, <1>4 DEF Has
  <2>2. Has(q, k, me, from) => Has(c, k, me, from)
    BY <1>2 DEF Has
  <2>3. Has(e, k, me, from) => Has(c, k, me, from)
    BY <1>3 DEF Has
  <2> QED  BY <2>1, <2>2, <2>3
<1>6. ASSUME ~Has(e, "subscribed", me, from), Ended(q, me, from) \/ Has(e, "unsubscribed", me, from),
             NEW i \in DOMAIN c, Says(c, i, "subscribed", me, from)
      PROVE  \E j \in DOMAIN c : j > i /\ Says(c, j, "unsubscribed", me, from)
  <2>1. i \in DOMAIN q /\ Says(q, i, "subscribed", me, from)
    BY <1>2, <1>4, <1>6 DEF Has
  <2>2. CASE Ended(q, me, from)
    BY <1>2, <2>1, <2>2 DEF Ended
  <2>3. CASE Has(e, "unsubscribed", me, from)
    <3>1. PICK j \in DOMAIN e : Says(e, j, "unsubscribed", me, from)
      BY <2>3 DEF Has
    <3>2. Len(q) + j \in DOMAIN c /\ Says(c, Len(q) + j, "unsubscribed", me, from)
      BY <1>3, <3>1
    <3>3. Len(q) + j > i
      BY <1>1, <2>1
    <3> QED  BY <3>2, <3>3
  <2> QED  BY <1>6, <2>2, <2>3
<1>7. ~Has(e, "subscribed", me, from) /\ (Ended(q, me, from) \/ Has(e, "unsubscribed", me, from))
         => Ended(c, me, from)
  BY <1>6 DEF Ended
<1> QED  BY <1>5, <1>7 DEF c

LEMMA TailDoes ==
  ASSUME NEW q \in Seq(Event), q # <<>>, NEW me, NEW from
  PROVE  /\ Tail(q) \in Seq(Event) /\ 1 \in DOMAIN q /\ Head(q) = q[1] /\ q[1] \in Event
         /\ \A k \in Kinds : /\ Has(Tail(q), k, me, from) => Has(q, k, me, from)
                             /\ Has(q, k, me, from) => \/ Says(q, 1, k, me, from)
                                                       \/ Has(Tail(q), k, me, from)
         /\ Ended(q, me, from) => /\ Ended(Tail(q), me, from)
                                  /\ Says(q, 1, "subscribed", me, from) =>
                                        Has(Tail(q), "unsubscribed", me, from)
<1> DEFINE t == Tail(q)
<1>1. /\ t \in Seq(Event) /\ Len(q) \in Nat /\ Len(q) > 0 /\ Len(t) = Len(q) - 1
      /\ DOMAIN q = 1..Len(q) /\ DOMAIN t = 1..Len(q) - 1
      /\ \A i \in 1..Len(q) - 1 : t[i] = q[i + 1]
      /\ Head(q) = q[1] /\ q[1] \in Event
  <2>1. t \in Seq(Event) /\ Len(t) = Len(q) - 1 /\ \A i \in 1..Len(t) : t[i] = q[i + 1]
    BY HeadTailProperties
  <2>2. Len(q) \in Nat /\ Len(q) > 0 /\ DOMAIN q = 1..Len(q) /\ Head(q) = q[1] /\ q[1] \in Event
    OBVIOUS
  <2> HIDE DEF t
  <2> QED  BY <2>1, <2>2
<1> HIDE DEF t
<1>2. \A i \in DOMAIN t : i + 1 \in DOMAIN q /\ \A k : Says(t, i, k, me, from) <=> Says(q, i + 1, k, me, from)
  BY <1>1 DEF Says
<1>3. ASSUME NEW i \in DOMAIN q, i # 1
      PROVE  i - 1 \in DOMAIN t /\ \A k : Says(q, i, k, me, from) <=> Says(t, i - 1, k, me, from)
  <2>1. i - 1 \in 1..Len(q) - 1 /\ (i - 1) + 1 = i
    BY <1>1, <1>3
  <2> QED  BY <1>1, <2>1 DEF Says
<1>4. ASSUME NEW k \in Kinds
      PROVE  /\ Has(t, k, me, from) => Has(q, k, me, from)
             /\ Has(q, k, me, from) => Says(q, 1, k, me, from) \/ Has(t, k, me, from)
  BY <1>2, <1>3 DEF Has
<1>5. ASSUME Ended(q, me, from) PROVE Ended(t, me, from)
  <2> SUFFICES ASSUME NEW i \in DOMAIN t, Says(t, i, "subscribed", me, from)
               PROVE  \E j \in DOMAIN t : j > i /\ Says(t, j, "unsubscribed", me, from)
    BY DEF Ended
  <2>1. PICK j \in DOMAIN q : j > i + 1 /\ Says(q, j, "unsubscribed", me, from)
    BY <1>2, <1>5 DEF Ended
  <2>2. j # 1 /\ j - 1 > i
    BY <1>1, <2>1
  <2> QED  BY <1>3, <2>1, <2>2
<1>6. ASSUME Ended(q, me, from), Says(q, 1, "subscribed", me, from)
      PROVE  Has(t, "unsubscribed", me, from)
  <2>1. PICK j \in DOMAIN q : j > 1 /\ Says(q, j, "unsubscribed", me, from)
    BY <1>1, <1>6 DEF Ended
  <2> QED  BY <1>3, <2>1 DEF Has
<1> QED  BY <1>1, <1>4, <1>5, <1>6 DEF t

\* The event at the head is handled, and others are sent.
LEMMA DropDoes ==
  ASSUME NEW q \in Seq(Event), q # <<>>, NEW e \in Seq(Event), NEW me, NEW from
  PROVE  /\ Tail(q) \o e \in Seq(Event)
         /\ \A k \in Kinds :
               /\ Has(Tail(q) \o e, k, me, from) => Has(q, k, me, from) \/ Has(e, k, me, from)
               /\ Has(q, k, me, from) /\ ~Says(q, 1, k, me, from) => Has(Tail(q) \o e, k, me, from)
         /\ Ended(q, me, from) /\ ~Has(e, "subscribed", me, from) =>
               /\ Ended(Tail(q) \o e, me, from)
               /\ Says(q, 1, "subscribed", me, from) => Has(Tail(q) \o e, "unsubscribed", me, from)
<1> DEFINE t == Tail(q)
<1>1. /\ t \in Seq(Event)
      /\ \A k \in Kinds : /\ Has(t, k, me, from) => Has(q, k, me, from)
                          /\ Has(q, k, me, from) => Says(q, 1, k, me, from) \/ Has(t, k, me, from)
      /\ Ended(q, me, from) => /\ Ended(t, me, from)
                               /\ Says(q, 1, "subscribed", me, from) => Has(t, "unsubscribed", me, from)
  BY TailDoes
<1> HIDE DEF t
<1>2. /\ t \o e \in Seq(Event)
      /\ \A k \in Kinds : Has(t \o e, k, me, from) <=> Has(t, k, me, from) \/ Has(e, k, me, from)
      /\ ~Has(e, "subscribed", me, from) /\ Ended(t, me, from) => Ended(t \o e, me, from)
  BY <1>1, AppendDoes, ConcatProperties
<1>3. "unsubscribed" \in Kinds
  BY DEF Kinds
<1> QED  BY <1>1, <1>2, <1>3 DEF t

LEMMA LinkRange == ASSUME NEW l \in Link PROVE Range(l) = {l[1], l[2]} /\ Range(l) \subseteq Port
BY DEF Link, Range

\* What is said of some subscriptions, told of n times.
LEMMA EventsSay ==
  ASSUME NEW kind \in Kinds, NEW links \in SUBSET Link, NEW n \in 0..2,
         NEW e, e = Events(kind, links, n)
  PROVE  /\ e \in Seq(Event) /\ \A i \in DOMAIN e : e[i].kind = kind
         /\ \A k, me, from : Has(e, k, me, from) =>
               /\ k = kind
               /\ \E l \in links, i \in {1, 2} : l[i] \in OwnPort /\ me = l[i] /\ l[3 - i] \in from
         /\ n # 0 => \A from : \A l \in links, i \in {1, 2} :
               l[i] \in OwnPort /\ l[3 - i] \in from => Has(e, kind, l[i], from)
<1>1. /\ e \in Seq(Event)
      /\ \A x \in Range(e) : \E l \in links, i \in {1, 2} : l[i] \in OwnPort /\ x = Call(kind, l, i)
      /\ n # 0 => \A l \in links, i \in {1, 2} : l[i] \in OwnPort => Call(kind, l, i) \in Range(e)
  BY EventsAre
<1>2. \A l \in links, i \in {1, 2} :
         l[i] \in OwnPort => /\ Call(kind, l, i).kind = kind /\ Call(kind, l, i).me = l[i]
                             /\ Call(kind, l, i).other = l[3 - i]
  BY CallIsEvent
<1>3. \A j \in DOMAIN e : \E l \in links, i \in {1, 2} : l[i] \in OwnPort /\ e[j] = Call(kind, l, i)
  BY <1>1 DEF Range
<1>4. ASSUME NEW k, NEW me, NEW from, Has(e, k, me, from)
      PROVE  /\ k = kind
             /\ \E l \in links, i \in {1, 2} : l[i] \in OwnPort /\ me = l[i] /\ l[3 - i] \in from
  <2>1. PICK j \in DOMAIN e : e[j].kind = k /\ e[j].me = me /\ e[j].other \in from
    BY <1>4 DEF Has, Says
  <2>2. PICK l \in links, i \in {1, 2} : l[i] \in OwnPort /\ e[j] = Call(kind, l, i)
    BY <1>3
  <2> QED  BY <1>2, <2>1, <2>2
<1>5. ASSUME n # 0, NEW l \in links, NEW i \in {1, 2}, NEW from, l[i] \in OwnPort, l[3 - i] \in from
      PROVE  Has(e, kind, l[i], from)
  <2>1. PICK j \in DOMAIN e : e[j] = Call(kind, l, i)
    BY <1>1, <1>5 DEF Range
  <2> QED  BY <1>2, <1>5, <2>1 DEF Has, Says
<1> QED  BY <1>1, <1>2, <1>3, <1>4, <1>5

\* The ends that a port which goes away brings about.
LEMMA BereavedSays ==
  ASSUME SequencerOK, NEW p
  PROVE  /\ Bereaved(p) \in Seq(Event) /\ \A i \in DOMAIN Bereaved(p) : Bereaved(p)[i].kind = "unsubscribed"
         /\ \A k, me, from : Has(Bereaved(p), k, me, from) => k = "unsubscribed" /\ me # p
         /\ \A from : \A l \in Of(p, subs), i \in {1, 2} :
               l[i] \in OwnPort \ {p} /\ l[3 - i] \in from => Has(Bereaved(p), "unsubscribed", l[i], from)
<1> DEFINE e == Bereaved(p)
<1>0. "unsubscribed" \in Kinds /\ Of(p, subs) \in SUBSET Link
  BY DEF Kinds, SequencerOK, Of
<1>1. /\ e \in Seq(Event)
      /\ \A x : x \in Range(e) <=> \E l \in Of(p, subs), i \in {1, 2} :
                                      l[i] \in OwnPort \ {p} /\ x = Call("unsubscribed", l, i)
  BY BereavedAre
<1>2. \A l \in Of(p, subs), i \in {1, 2} :
         l[i] \in OwnPort => /\ Call("unsubscribed", l, i).kind = "unsubscribed"
                             /\ Call("unsubscribed", l, i).me = l[i]
                             /\ Call("unsubscribed", l, i).other = l[3 - i]
  BY <1>0, CallIsEvent
<1> HIDE DEF e
<1>3. \A j \in DOMAIN e : \E l \in Of(p, subs), i \in {1, 2} :
                             l[i] \in OwnPort \ {p} /\ e[j] = Call("unsubscribed", l, i)
  BY <1>1 DEF Range
<1>4. ASSUME NEW k, NEW me, NEW from, Has(e, k, me, from)
      PROVE  k = "unsubscribed" /\ me # p
  <2>1. PICK j \in DOMAIN e : e[j].kind = k /\ e[j].me = me
    BY <1>4 DEF Has, Says
  <2>2. PICK l \in Of(p, subs), i \in {1, 2} : l[i] \in OwnPort \ {p} /\ e[j] = Call("unsubscribed", l, i)
    BY <1>3
  <2> QED  BY <1>2, <2>1, <2>2
<1>5. ASSUME NEW l \in Of(p, subs), NEW i \in {1, 2}, NEW from, l[i] \in OwnPort \ {p}, l[3 - i] \in from
      PROVE  Has(e, "unsubscribed", l[i], from)
  <2>1. PICK j \in DOMAIN e : e[j] = Call("unsubscribed", l, i)
    BY <1>1, <1>5 DEF Range
  <2> QED  BY <1>2, <1>5, <2>1 DEF Has, Says
<1> QED  BY <1>1, <1>2, <1>3, <1>4, <1>5 DEF e

-----------------------------------------------------------------------------
(* Types. *)

QueueOK == queue \in Seq(Event) /\ announcing \in BOOLEAN /\ awake \in BOOLEAN

\* Ports that stand, and that may be subscribed.
Standing == present \cup {Multi} \cup DOMAIN waiter

SubsStand == subs \subseteq {l \in Link : Range(l) \subseteq Standing}

\* Numbers of listeners, and what the multi listener and HwAutoAnnounce remember.
NumbersOK == /\ DOMAIN waiter \subseteq OwnPort \ {Multi}
             /\ DOMAIN entries \subseteq Port /\ \A p \in DOMAIN entries : entries[p] # 0
             /\ exports \subseteq Link /\ renumbered \subseteq OwnPort

RouterOK == /\ Multi \in DOMAIN peers /\ peers[Multi].kind = "multi"
            /\ wires \subseteq (DOMAIN peers) \X (DOMAIN peers)
            /\ nextId <= MaxId + 1
            /\ missed \subseteq 1..MaxId /\ refused \subseteq 1..MaxId

TInv == PInv /\ QueueOK /\ SubsStand /\ NumbersOK /\ RouterOK

LEMMA Times == Heard \in 1..2 /\ Told \in 0..1
BY DEF Heard, Told

\* The queue after an event was handled, or some were sent.
LEMMA SendTypes ==
  ASSUME QueueOK, NEW e \in Seq(Event), Send(e), UNCHANGED announcing
  PROVE  QueueOK'
<1>1. queue \o e \in Seq(Event)
  BY ConcatProperties DEF QueueOK
<1>2. queue' \in Seq(Event)
  BY <1>1 DEF Send
<1>3. awake' \in BOOLEAN
  BY DEF Send, QueueOK
<1>4. announcing' \in BOOLEAN
  BY DEF QueueOK
<1> QED  BY <1>2, <1>3, <1>4 DEF QueueOK

LEMMA DropTypes ==
  ASSUME QueueOK, queue # <<>>, NEW e \in Seq(Event), Drop(e), awake' \in BOOLEAN,
         UNCHANGED announcing
  PROVE  QueueOK'
<1>1. Tail(queue) \o e \in Seq(Event)
  BY ConcatProperties, HeadTailProperties DEF QueueOK
<1>2. queue' \in Seq(Event)
  BY <1>1 DEF Drop
<1>3. announcing' \in BOOLEAN
  BY DEF QueueOK
<1> QED  BY <1>2, <1>3 DEF QueueOK

LEMMA NoEvents == <<>> \in Seq(Event)
OBVIOUS

LEMMA HandledTypes ==
  ASSUME QueueOK, queue # <<>>, Handled
  PROVE  QueueOK'
<1>1. Drop(<<>>) /\ awake' = TRUE /\ UNCHANGED announcing
  BY DEF Handled, Quietly
<1>2. awake' \in BOOLEAN
  BY <1>1
<1> QED  BY <1>1, <1>2, NoEvents, DropTypes

\* What is sent and dropped, action by action.
LEMMA SubscribeSends ==
  ASSUME NEW kind \in Kinds, NEW l \in Link
  PROVE  Events(kind, {l}, Heard) \in Seq(Event)
<1>1. {l} \in SUBSET Link /\ Heard \in 0..2
  BY Times
<1> QED  BY <1>1, EventsAre

LEMMA ToldSends ==
  ASSUME NEW kind \in Kinds, NEW links \in SUBSET Link
  PROVE  Events(kind, links, Told) \in Seq(Event)
<1>1. Told \in 0..2
  BY Times
<1> QED  BY <1>1, EventsAre

LEMMA AnnouncementIsEvent ==
  ASSUME NEW p \in Ext
  PROVE  /\ <<[kind |-> "start", port |-> p]>> \in Seq(Event)
         /\ <<[kind |-> "exit", port |-> p]>> \in Seq(Event)
BY DEF Event

LEMMA HalvesAreSubs == ASSUME SequencerOK, NEW p, NEW gone \in Halves(p)
                       PROVE  gone \in SUBSET Link /\ gone \subseteq Of(p, subs)
BY DEF Halves, SequencerOK, Of

LEMMA QueueStep ==
  ASSUME PInv, QueueOK, [ANext]_avars
  PROVE  QueueOK'
<1>0. SequencerOK /\ "subscribed" \in Kinds /\ "unsubscribed" \in Kinds
  BY DEF PInv, Kinds
<1>1. CASE UNCHANGED <<announcing, queue, awake>>
  BY <1>1 DEF QueueOK
<1>2. CASE ReadReady /\ queue # <<>>
  <2>1. ASSUME NEW ev, WaiterHandles(ev) PROVE QueueOK'
    <3>1. CASE Handled
      BY <1>2, <3>1, HandledTypes
    <3>2. CASE \E w \in DOMAIN waiter : WaiterRefuses(w)
      <4>0. PICK w \in DOMAIN waiter : WaiterRefuses(w)
        BY <3>2
      <4>1. PICK gone \in Halves(w) : Drop(Events("unsubscribed", gone, Told))
        BY <4>0 DEF WaiterRefuses
      <4>2. Events("unsubscribed", gone, Told) \in Seq(Event)
        BY <1>0, HalvesAreSubs, ToldSends
      <4>3. awake' = TRUE /\ UNCHANGED announcing
        BY <4>0 DEF WaiterRefuses, Quietly
      <4>4. awake' \in BOOLEAN
        BY <4>3
      <4> HIDE DEF Drop
      <4> QED  BY <1>2, <4>1, <4>2, <4>3, <4>4, DropTypes
    <3> QED  BY <2>1, <3>1, <3>2 DEF WaiterHandles, WaiterCounts, WaiterConnects, WaiterRecounts
  <2>2. ASSUME NEW ev, MultiHandles(ev) PROVE QueueOK'
    BY <1>2, <2>2, HandledTypes DEF MultiHandles
  <2>3. ASSUME NEW ev \in Event, HwHandles(ev) PROVE QueueOK'
    <3>0. UNCHANGED announcing
      BY <2>3 DEF HwHandles, Quietly
    <3>1. ev.kind \in {"start", "exit"}
      BY <2>3 DEF HwHandles
    <3>2. CASE Drop(<<>>) /\ awake' \in BOOLEAN
      BY <1>2, <3>0, <3>2, NoEvents, DropTypes
    <3>3. CASE /\ ev.port \in Exported /\ awake' = TRUE
               /\ Drop(Events("subscribed", Both(ev.port) \ subs, Told))
      <4>1. Both(ev.port) \ subs \in SUBSET Link
        BY <3>3, BothAreLinks, PortsAssumption
      <4>2. Events("subscribed", Both(ev.port) \ subs, Told) \in Seq(Event)
        BY <1>0, <4>1, ToldSends
      <4>3. awake' \in BOOLEAN
        BY <3>3
      <4> QED  BY <1>2, <3>0, <3>3, <4>2, <4>3, DropTypes
    <3>4. \/ Drop(<<>>) /\ (awake' = TRUE \/ awake' \in BOOLEAN)
          \/ /\ ev.port \in Exported /\ awake' = TRUE
             /\ Drop(Events("subscribed", Both(ev.port) \ subs, Told))
      BY <2>3 DEF HwHandles, Export, Unexport
    <3>5. awake' = TRUE => awake' \in BOOLEAN
      OBVIOUS
    <3> QED  BY <3>2, <3>3, <3>4, <3>5
  <2>4. Head(queue) \in Event
    BY <1>2 DEF QueueOK
  <2> QED  BY <1>2, <2>1, <2>2, <2>3, <2>4 DEF ReadReady
<1>3. CASE ReadReady /\ queue = <<>>
  <2>1. awake' = FALSE /\ UNCHANGED <<announcing, queue>>
    BY <1>3 DEF ReadReady
  <2> QED  BY <2>1 DEF QueueOK
<1>4. CASE Others
  <2>0. UNCHANGED announcing
    BY <1>4 DEF Others, Subscribe, Unsubscribe, Plug, Unplug, Elsewhere
  <2>1. ASSUME NEW l \in Link, Subscribe(l) \/ Unsubscribe(l) PROVE QueueOK'
    <3>1. Send(Events("subscribed", {l}, Heard)) \/ Send(Events("unsubscribed", {l}, Heard))
      BY <2>1 DEF Subscribe, Unsubscribe
    <3> QED  BY <1>0, <2>0, <3>1, SubscribeSends, SendTypes
  <2>2. ASSUME NEW p \in Ext, Plug(p) PROVE QueueOK'
    <3> DEFINE e == IF announcing THEN <<[kind |-> "start", port |-> p]>> ELSE <<>>
    <3>1. Send(e)
      BY <2>2 DEF Plug
    <3>2. e \in Seq(Event)
      BY AnnouncementIsEvent, NoEvents
    <3> HIDE DEF e
    <3> QED  BY <2>0, <3>1, <3>2, SendTypes
  <2>3. ASSUME NEW p \in Ext, Unplug(p) PROVE QueueOK'
    <3> DEFINE x == IF announcing THEN <<[kind |-> "exit", port |-> p]>> ELSE <<>>
               e == Bereaved(p) \o x
    <3>1. Send(e)
      BY <2>3 DEF Unplug
    <3>2. x \in Seq(Event)
      BY AnnouncementIsEvent, NoEvents
    <3> HIDE DEF x
    <3>3. e \in Seq(Event)
      BY <1>0, <3>2, BereavedSays, ConcatProperties
    <3> HIDE DEF e
    <3> QED  BY <2>0, <3>1, <3>3, SendTypes
  <2> QED  BY <1>4, <2>1, <2>2, <2>3 DEF Others
<1>5. CASE \E w \in DOMAIN waiter : RemoveWaiter(w)
  <2>1. PICK w \in DOMAIN waiter : RemoveWaiter(w)
    BY <1>5
  <2>2. Send(Bereaved(w)) /\ UNCHANGED announcing
    BY <2>1 DEF RemoveWaiter, RemovePort
  <2> QED  BY <1>0, <2>2, BereavedSays, SendTypes
<1>6. CASE User /\ ~\E w \in DOMAIN waiter : RemoveWaiter(w)
  <2>1. UNCHANGED alsa
    BY <1>6 DEF User, CreateWaiter, AddEndpoint, RemoveEndpoint, RemovePeer
  <2> QED  BY <1>1, <2>1 DEF alsa
<1> QED  BY <1>1, <1>2, <1>3, <1>4, <1>5, <1>6 DEF ANext, avars, alsa

\* Handlers of events leave the ports as they are, and the listeners' numbers.
LEMMA HandlersKeepPorts ==
  ASSUME NEW ev, WaiterHandles(ev) \/ MultiHandles(ev) \/ HwHandles(ev)
  PROVE  /\ DOMAIN waiter' = DOMAIN waiter /\ UNCHANGED <<announcing, present, renumbered>>
         /\ \E e : Drop(e)
<1>1. ASSUME WaiterHandles(ev) PROVE DOMAIN waiter' = DOMAIN waiter
  BY <1>1 DEF WaiterHandles, WaiterCounts, WaiterConnects, WaiterRefuses, WaiterRecounts, Count
<1>2. ASSUME WaiterHandles(ev)
      PROVE  UNCHANGED <<announcing, present, renumbered>> /\ \E e : Drop(e)
  BY <1>2 DEF WaiterHandles, WaiterCounts, WaiterConnects, WaiterRefuses, WaiterRecounts, Handled,
              Quietly
<1>3. ASSUME MultiHandles(ev)
      PROVE  UNCHANGED <<announcing, present, renumbered, waiter>> /\ \E e : Drop(e)
  BY <1>3 DEF MultiHandles, Handled, Quietly
<1>4. ASSUME HwHandles(ev)
      PROVE  UNCHANGED <<announcing, present, renumbered, waiter>> /\ \E e : Drop(e)
  BY <1>4 DEF HwHandles, Export, Unexport, Quietly
<1> QED  BY <1>1, <1>2, <1>3, <1>4

LEMMA SubsStep ==
  ASSUME SubsStand, [ANext]_avars
  PROVE  SubsStand'
<1>1. CASE subs' \subseteq subs /\ Standing \subseteq Standing'
  BY <1>1 DEF SubsStand
<1>2. ASSUME NEW ev, WaiterHandles(ev) \/ MultiHandles(ev) \/ HwHandles(ev) PROVE SubsStand'
  <2>1. DOMAIN waiter' = DOMAIN waiter /\ UNCHANGED present
    BY <1>2, HandlersKeepPorts
  <2>2. Standing' = Standing
    BY <2>1 DEF Standing
  <2>3. CASE WaiterHandles(ev) \/ MultiHandles(ev)
    <3>1. subs' \subseteq subs
      BY <2>3 DEF WaiterHandles, WaiterCounts, WaiterConnects, WaiterRefuses, WaiterRecounts,
                  MultiHandles, Handled
    <3> QED  BY <1>1, <2>2, <3>1
  <2>4. CASE HwHandles(ev)
    <3>1. UNCHANGED subs \/ (ev.port \in Exported \cap present /\ subs' = subs \cup Both(ev.port))
      BY <2>4 DEF HwHandles, Export, Unexport
    <3>2. ASSUME ev.port \in Exported \cap present
          PROVE  Both(ev.port) \subseteq {l \in Link : Range(l) \subseteq Standing}
      <4>1. Both(ev.port) \subseteq Link
        BY <3>2, PortsAssumption, BothAreLinks
      <4>2. Range(<<ev.port, Multi>>) = {ev.port, Multi} /\ Range(<<Multi, ev.port>>) = {Multi, ev.port}
        BY PairRange
      <4> QED  BY <3>2, <4>1, <4>2 DEF Both, Standing
    <3> QED  BY <2>2, <3>1, <3>2 DEF SubsStand
  <2> QED  BY <1>2, <2>3, <2>4
<1>3. CASE ReadReady
  <2>1. CASE queue = <<>>
    <3>1. UNCHANGED <<subs, present, waiter>>
      BY <1>3, <2>1 DEF ReadReady
    <3> QED  BY <1>1, <3>1 DEF Standing
  <2> QED  BY <1>2, <1>3, <2>1 DEF ReadReady
<1>4. CASE Others
  <2>1. UNCHANGED waiter
    BY <1>4 DEF Others, Subscribe, Unsubscribe, Plug, Unplug, Elsewhere
  <2>2. ASSUME NEW l \in Link, Subscribe(l) PROVE SubsStand'
    BY <2>1, <2>2 DEF Subscribe, SubsStand, Standing
  <2>3. ASSUME NEW l \in Link, Unsubscribe(l) PROVE SubsStand'
    BY <2>1, <2>3 DEF Unsubscribe, SubsStand, Standing
  <2>4. ASSUME NEW p \in Ext, Plug(p) PROVE SubsStand'
    BY <1>1, <2>1, <2>4 DEF Plug, Standing
  <2>5. ASSUME NEW p \in Ext, Unplug(p) PROVE SubsStand'
    <3>1. subs' = subs \ Of(p, subs) /\ present' = present \ {p}
      BY <2>5 DEF Unplug
    <3>2. \A l \in subs' : p \notin Range(l)
      BY <3>1 DEF Of
    <3> QED  BY <2>1, <3>1, <3>2 DEF SubsStand, Standing
  <2> QED  BY <1>4, <2>2, <2>3, <2>4, <2>5 DEF Others
<1>5. ASSUME NEW w \in DOMAIN waiter, RemoveWaiter(w) PROVE SubsStand'
  <2>1. subs' = subs \ Of(w, subs) /\ DOMAIN waiter' = DOMAIN waiter \ {w} /\ UNCHANGED present
    BY <1>5 DEF RemoveWaiter, RemovePort, Without, Restrict
  <2>2. \A l \in subs' : w \notin Range(l)
    BY <2>1 DEF Of
  <2> QED  BY <2>1, <2>2 DEF SubsStand, Standing
<1>6. CASE CreateWaiter
  <2>1. UNCHANGED <<subs, present>> /\ DOMAIN waiter \subseteq DOMAIN waiter'
    BY <1>6 DEF CreateWaiter, alsa, Put
  <2> QED  BY <1>1, <2>1 DEF Standing
<1>7. CASE (\E w \in DOMAIN waiter : AddEndpoint(w) \/ RemoveEndpoint(w)) \/ \E i \in DOMAIN peers : RemovePeer(i)
  <2>1. UNCHANGED <<subs, present>> /\ DOMAIN waiter' = DOMAIN waiter
    BY <1>7 DEF AddEndpoint, RemoveEndpoint, RemovePeer, alsa
  <2> QED  BY <1>1, <2>1 DEF Standing
<1>8. CASE UNCHANGED avars
  BY <1>1, <1>8 DEF avars, alsa, Standing
<1> QED  BY <1>3, <1>4, <1>5, <1>6, <1>7, <1>8 DEF ANext, User

LEMMA NumbersStep ==
  ASSUME PInv, QueueOK, NumbersOK, [ANext]_avars
  PROVE  NumbersOK'
<1>0. nextId \in Nat /\ nextId # 0 /\ \A i \in DOMAIN peers : i # 0
  BY DEF PInv, WiredInv, IdsGiven, Multi
<1>1. CASE DOMAIN waiter' \subseteq DOMAIN waiter /\ UNCHANGED <<entries, exports, renumbered>>
  BY <1>1 DEF NumbersOK
<1>2. ASSUME NEW ev \in Event, WaiterHandles(ev) PROVE NumbersOK'
  <2>1. DOMAIN waiter' = DOMAIN waiter /\ UNCHANGED renumbered
    BY <1>2, HandlersKeepPorts
  <2>2. UNCHANGED <<entries, exports>>
    BY <1>2 DEF WaiterHandles
  <2> QED  BY <1>1, <2>1, <2>2
<1>3. ASSUME NEW ev \in Event, MultiHandles(ev) PROVE NumbersOK'
  <2>1. DOMAIN waiter' = DOMAIN waiter /\ UNCHANGED <<renumbered, exports>>
    BY <1>3, HandlersKeepPorts DEF MultiHandles
  <2>2. ev.other \in Port
    BY <1>3 DEF MultiHandles, Event
  <2>3. \/ \E i \in DOMAIN peers \cup {nextId} : entries' = Put(entries, ev.other, i)
        \/ entries' = Without(entries, {ev.other})
        \/ UNCHANGED entries
    BY <1>3 DEF MultiHandles, MultiSubscribed, MultiUnsubscribed, Named
  <2>4. DOMAIN entries' \subseteq Port /\ \A p \in DOMAIN entries' : entries'[p] # 0
    BY <1>0, <2>2, <2>3 DEF NumbersOK, Put, Without, Restrict
  <2> QED  BY <2>1, <2>4 DEF NumbersOK
<1>4. ASSUME NEW ev \in Event, HwHandles(ev) PROVE NumbersOK'
  <2>1. UNCHANGED <<waiter, entries, renumbered>>
    BY <1>4 DEF HwHandles, Quietly
  <2>2. exports' \subseteq exports \/ (ev.port \in Exported /\ exports' = exports \cup Both(ev.port))
    BY <1>4 DEF HwHandles, Export, Unexport
  <2>3. exports' \subseteq Link
    BY <2>2, BothAreLinks, PortsAssumption DEF NumbersOK
  <2> QED  BY <2>1, <2>3 DEF NumbersOK
<1>5. CASE ReadReady
  <2>1. CASE queue = <<>>
    BY <1>1, <1>5, <2>1 DEF ReadReady, history
  <2>2. CASE queue # <<>>
    <3>1. Head(queue) \in Event
      BY <2>2 DEF QueueOK
    <3> QED  BY <1>2, <1>3, <1>4, <1>5, <2>2, <3>1 DEF ReadReady
  <2> QED  BY <2>1, <2>2
<1>6. CASE Others
  BY <1>1, <1>6 DEF Others, Subscribe, Unsubscribe, Plug, Unplug, Elsewhere, history
<1>7. ASSUME NEW w \in DOMAIN waiter, RemoveWaiter(w) PROVE NumbersOK'
  <2>1. /\ DOMAIN waiter' = DOMAIN waiter \ {w} /\ UNCHANGED <<entries, exports>>
        /\ renumbered' \subseteq renumbered \cup {w}
    BY <1>7 DEF RemoveWaiter, RemovePort, Without, Restrict
  <2> QED  BY <2>1 DEF NumbersOK
<1>8. CASE CreateWaiter
  <2>1. PICK w \in FreePorts : waiter' = Put(waiter, w, [id |-> nextId, count |-> 0, client |-> 0,
                                                       endpoints |-> TRUE])
    BY <1>8 DEF CreateWaiter
  <2>2. DOMAIN waiter' = DOMAIN waiter \cup {w} /\ w \in OwnPort \ {Multi}
    BY <2>1 DEF Put, FreePorts
  <2>3. UNCHANGED <<entries, exports, renumbered>>
    BY <1>8 DEF CreateWaiter, history
  <2> QED  BY <2>2, <2>3 DEF NumbersOK
<1>9. CASE (\E w \in DOMAIN waiter : AddEndpoint(w) \/ RemoveEndpoint(w)) \/ \E i \in DOMAIN peers : RemovePeer(i)
  <2>1. DOMAIN waiter' = DOMAIN waiter /\ UNCHANGED <<entries, exports, renumbered>>
    BY <1>9 DEF AddEndpoint, RemoveEndpoint, RemovePeer, history
  <2> QED  BY <1>1, <2>1
<1>10. CASE UNCHANGED avars
  BY <1>1, <1>10 DEF avars, history
<1> QED  BY <1>5, <1>6, <1>7, <1>8, <1>9, <1>10 DEF ANext, User

LEMMA IdsAreGiven ==
  ASSUME PInv, RouterOK
  PROVE  /\ nextId \in Nat /\ nextId > 0 /\ nextId \notin DOMAIN peers /\ MaxId \in Nat
         /\ DOMAIN peers \subseteq 1..MaxId
         /\ \A w \in DOMAIN waiter : /\ waiter[w].id \in DOMAIN peers /\ waiter[w].id \in 1..MaxId
                                     /\ waiter[w].id # Multi /\ waiter[w].client # Multi
<1>1. /\ nextId \in Nat /\ nextId > 0 /\ MaxId \in Nat /\ nextId <= MaxId + 1
      /\ \A i \in DOMAIN peers : i \in 1..nextId - 1
  BY PortsAssumption DEF PInv, WiredInv, IdsGiven, Multi, RouterOK
<1>2. DOMAIN peers \subseteq 1..MaxId /\ nextId \notin DOMAIN peers
  BY <1>1
<1>3. \A w \in DOMAIN waiter : /\ waiter[w].id \in DOMAIN peers /\ waiter[w].id # Multi
                               /\ waiter[w].client # Multi
  BY DEF PInv, WiredInv, WaitersOK, ClientsOK, RouterOK
<1> QED  BY <1>1, <1>2, <1>3

LEMMA RemovalRouter ==
  ASSUME RouterOK, NEW S, RemovePeers(S), Multi \notin S,
         missed' \subseteq 1..MaxId, refused' \subseteq 1..MaxId
  PROVE  RouterOK'
<1>1. /\ DOMAIN peers' = DOMAIN peers \ S /\ \A i \in DOMAIN peers' : peers'[i] = peers[i]
      /\ nextId' = nextId
  BY RemovePeersDoes
<1>2. wires' = {x \in wires : Range(x) \cap S = {}}
  BY DEF RemovePeers, Surviving
<1>3. ASSUME NEW x \in wires' PROVE x \in (DOMAIN peers') \X (DOMAIN peers')
  <2>1. x \in (DOMAIN peers) \X (DOMAIN peers) /\ Range(x) \cap S = {}
    BY <1>2 DEF RouterOK
  <2>2. x = <<x[1], x[2]>> /\ x[1] \in DOMAIN peers /\ x[2] \in DOMAIN peers
    BY <2>1
  <2>3. Range(x) = {x[1], x[2]}
    BY <2>2 DEF Range
  <2> QED  BY <1>1, <2>1, <2>2, <2>3
<1> QED  BY <1>1, <1>3 DEF RouterOK

LEMMA NewPeerRouter ==
  ASSUME PInv, RouterOK, nextId <= MaxId, nextId' = nextId + 1,
         DOMAIN peers' = DOMAIN peers \cup {nextId}, \A i \in DOMAIN peers : peers'[i] = peers[i],
         wires' \subseteq wires \cup (DOMAIN peers') \X (DOMAIN peers'),
         UNCHANGED <<missed, refused>>
  PROVE  RouterOK'
<1>1. nextId \in Nat /\ MaxId \in Nat
  BY IdsAreGiven
<1>2. nextId' <= MaxId + 1
  BY <1>1
<1>3. wires' \subseteq (DOMAIN peers') \X (DOMAIN peers')
  BY DEF RouterOK
<1> QED  BY <1>2, <1>3 DEF RouterOK

LEMMA RouterUnchanged ==
  ASSUME RouterOK, UNCHANGED <<peers, wires, nextId, missed, refused>>
  PROVE  RouterOK'
BY DEF RouterOK

LEMMA WaiterRouter ==
  ASSUME PInv, RouterOK, NEW ev, WaiterHandles(ev)
  PROVE  RouterOK'
<1>0. missed \subseteq 1..MaxId /\ refused \subseteq 1..MaxId
  BY DEF RouterOK
<1>1. CASE UNCHANGED <<peers, wires, nextId, missed, refused>>
  BY <1>1, RouterUnchanged
<1>2. ASSUME NEW w \in DOMAIN waiter, WaiterConnects(w) PROVE RouterOK'
  <2>1. /\ nextId <= MaxId /\ nextId' = nextId + 1 /\ UNCHANGED <<missed, refused>>
        /\ peers' = Put(peers, nextId, [kind |-> "client"])
        /\ wires' = wires \cup {<<nextId, waiter[w].id>>, <<waiter[w].id, nextId>>}
    BY <1>2 DEF WaiterConnects, Handled
  <2>2. nextId \notin DOMAIN peers /\ waiter[w].id \in DOMAIN peers
    BY IdsAreGiven
  <2>3. DOMAIN peers' = DOMAIN peers \cup {nextId} /\ \A i \in DOMAIN peers : peers'[i] = peers[i]
    BY <2>1, <2>2 DEF Put
  <2>4. wires' \subseteq wires \cup (DOMAIN peers') \X (DOMAIN peers')
    BY <2>1, <2>2, <2>3
  <2> QED  BY <2>1, <2>3, <2>4, NewPeerRouter
<1>3. ASSUME NEW w \in DOMAIN waiter, WaiterRefuses(w) PROVE RouterOK'
  <2>1. UNCHANGED <<peers, wires, nextId, missed>>
    BY <1>3 DEF WaiterRefuses, router
  <2>2. refused' \subseteq refused \cup {waiter[v].id : v \in DOMAIN waiter}
    BY <1>3 DEF WaiterRefuses
  <2>3. refused' \subseteq 1..MaxId
    BY <1>0, <2>2, IdsAreGiven
  <2> QED  BY <2>1, <2>3 DEF RouterOK
<1>4. ASSUME NEW w \in DOMAIN waiter, WaiterRecounts(w) PROVE RouterOK'
  <2>1. UNCHANGED refused /\ missed' \subseteq missed \cup {waiter[w].id}
    BY <1>4 DEF WaiterRecounts, Handled
  <2>2. missed' \subseteq 1..MaxId /\ refused' \subseteq 1..MaxId
    BY <1>0, <2>1, IdsAreGiven
  <2>3. RemovePeers({waiter[w].client}) \/ UNCHANGED router
    BY <1>4 DEF WaiterRecounts, KeepAll
  <2>4. Multi \notin {waiter[w].client}
    BY IdsAreGiven
  <2>5. CASE UNCHANGED router
    BY <2>2, <2>5 DEF router, RouterOK
  <2> QED  BY <2>2, <2>3, <2>4, <2>5, RemovalRouter
<1>5. \/ UNCHANGED <<peers, wires, nextId, missed, refused>>
      \/ \E w \in DOMAIN waiter : WaiterConnects(w) \/ WaiterRefuses(w) \/ WaiterRecounts(w)
  BY DEF WaiterHandles, WaiterCounts, Handled, router
<1> QED  BY <1>1, <1>2, <1>3, <1>4, <1>5

LEMMA MultiRouter ==
  ASSUME PInv, RouterOK, NEW ev, MultiHandles(ev)
  PROVE  RouterOK'
<1>0. UNCHANGED <<missed, refused>> /\ missed' \subseteq 1..MaxId /\ refused' \subseteq 1..MaxId
  BY DEF MultiHandles, Handled, RouterOK
<1>1. CASE UNCHANGED router
  BY <1>0, <1>1, RouterUnchanged DEF router
<1>2. ASSUME NEW p, MultiSubscribed(p) PROVE RouterOK'
  <2>1. CASE \E i \in Named(NameNow(p)) :
                /\ peers' = [j \in DOMAIN peers |->
                               IF j \in Named(NameNow(p)) THEN [peers[j] EXCEPT !.uses = @ + 1] ELSE peers[j]]
                /\ UNCHANGED <<wires, nextId>>
    <3>1. DOMAIN peers' = DOMAIN peers
      BY <2>1
    <3>2. Multi \notin Named(NameNow(p))
      BY DEF Named, RouterOK
    <3>3. peers'[Multi] = peers[Multi]
      BY <2>1, <3>2 DEF RouterOK
    <3> QED  BY <1>0, <2>1, <3>1, <3>3 DEF RouterOK
  <2>2. CASE /\ nextId <= MaxId /\ nextId' = nextId + 1 /\ wires' = wires \cup {<<nextId, Multi>>}
             /\ peers' = Put(peers, nextId, [kind |-> "listener", name |-> NameNow(p), uses |-> 0])
    <3>1. nextId \notin DOMAIN peers
      BY IdsAreGiven
    <3>2. DOMAIN peers' = DOMAIN peers \cup {nextId} /\ \A i \in DOMAIN peers : peers'[i] = peers[i]
      BY <2>2, <3>1 DEF Put
    <3>3. wires' \subseteq wires \cup (DOMAIN peers') \X (DOMAIN peers')
      BY <2>2, <3>2 DEF RouterOK
    <3> QED  BY <1>0, <2>2, <3>2, <3>3, NewPeerRouter
  <2> QED  BY <1>2, <2>1, <2>2 DEF MultiSubscribed
<1>3. ASSUME NEW i \in DOMAIN peers, peers[i].kind = "listener", Release(i) PROVE RouterOK'
  <2>1. i # Multi
    BY <1>3 DEF RouterOK
  <2>2. CASE RemovePeers({i})
    BY <1>0, <2>1, <2>2, RemovalRouter
  <2>3. CASE \E n : peers' = [peers EXCEPT ![i].uses = n] /\ UNCHANGED <<wires, nextId>>
    <3>1. DOMAIN peers' = DOMAIN peers /\ peers'[Multi] = peers[Multi] /\ UNCHANGED <<wires, nextId>>
      BY <2>1, <2>3 DEF RouterOK
    <3> QED  BY <1>0, <3>1 DEF RouterOK
  <2> QED  BY <1>3, <2>2, <2>3 DEF Release
<1>4. ASSUME NEW p, MultiUnsubscribed(p) PROVE RouterOK'
  <2>1. \/ UNCHANGED router
        \/ p \in DOMAIN entries /\ entries[p] \in DOMAIN peers /\ Release(entries[p])
    BY <1>4 DEF MultiUnsubscribed, KeepAll
  <2>2. p \in DOMAIN entries /\ entries[p] \in DOMAIN peers => peers[entries[p]].kind = "listener"
    BY DEF PInv, PeersOK
  <2> QED  BY <1>1, <1>3, <2>1, <2>2
<1> QED  BY <1>2, <1>4 DEF MultiHandles

LEMMA RouterStep ==
  ASSUME PInv, RouterOK, [ANext]_avars
  PROVE  RouterOK'
<1>0. missed \subseteq 1..MaxId /\ refused \subseteq 1..MaxId
  BY DEF RouterOK
<1>1. CASE UNCHANGED <<peers, wires, nextId, missed, refused>>
  BY <1>1, RouterUnchanged
<1>2. CASE ReadReady
  <2>1. ASSUME NEW ev, HwHandles(ev) PROVE RouterOK'
    BY <1>1, <2>1 DEF HwHandles, router
  <2>2. CASE queue = <<>>
    BY <1>1, <1>2, <2>2 DEF ReadReady, router, history
  <2> QED  BY <1>2, <2>1, <2>2, WaiterRouter, MultiRouter DEF ReadReady
<1>3. CASE Others
  BY <1>1, <1>3 DEF Others, Subscribe, Unsubscribe, Plug, Unplug, Elsewhere, router, history
<1>4. ASSUME NEW w \in DOMAIN waiter, RemoveWaiter(w) PROVE RouterOK'
  <2>1. RemovePeers({waiter[w].id, waiter[w].client}) /\ UNCHANGED <<missed, refused>>
    BY <1>4 DEF RemoveWaiter
  <2>2. Multi \notin {waiter[w].id, waiter[w].client}
    BY IdsAreGiven
  <2> QED  BY <1>0, <2>1, <2>2, RemovalRouter
<1>5. ASSUME NEW i \in DOMAIN peers, RemovePeer(i) PROVE RouterOK'
  <2>1. RemovePeers({i}) /\ i # Multi /\ UNCHANGED refused
    BY <1>5 DEF RemovePeer, RouterOK
  <2>2. missed' \subseteq missed \cup {waiter[w].id : w \in DOMAIN waiter}
    BY <1>5 DEF RemovePeer
  <2>3. missed' \subseteq 1..MaxId
    BY <1>0, <2>2, IdsAreGiven
  <2> QED  BY <1>0, <2>1, <2>3, RemovalRouter
<1>6. CASE CreateWaiter
  <2>1. /\ nextId <= MaxId /\ nextId' = nextId + 1 /\ UNCHANGED <<wires, missed, refused>>
        /\ peers' = Put(peers, nextId, [kind |-> "waiter"])
    BY <1>6 DEF CreateWaiter, history
  <2>2. nextId \notin DOMAIN peers
    BY IdsAreGiven
  <2>3. DOMAIN peers' = DOMAIN peers \cup {nextId} /\ \A i \in DOMAIN peers : peers'[i] = peers[i]
    BY <2>1, <2>2 DEF Put
  <2> QED  BY <2>1, <2>3, NewPeerRouter
<1>7. ASSUME NEW w \in DOMAIN waiter, AddEndpoint(w) \/ RemoveEndpoint(w) PROVE RouterOK'
  BY <1>1, <1>7 DEF AddEndpoint, RemoveEndpoint, router, history
<1>8. CASE UNCHANGED avars
  BY <1>1, <1>8 DEF avars, router, history
<1> QED  BY <1>2, <1>3, <1>4, <1>5, <1>6, <1>7, <1>8 DEF ANext, User

LEMMA TInvStep == TInv /\ [ANext]_avars => TInv'
BY PInvStep, QueueStep, SubsStep, NumbersStep, RouterStep DEF TInv

\* What follows of the type invariant.
LEMMA TypesFollow == TInv => ATypeOK
<1> SUFFICES ASSUME TInv PROVE ATypeOK
  OBVIOUS
<1>0. PInv /\ QueueOK /\ SubsStand /\ NumbersOK /\ RouterOK
  BY DEF TInv
<1>1. /\ nextId \in Nat /\ nextId > 0 /\ MaxId \in Nat /\ DOMAIN peers \subseteq 1..MaxId
      /\ \A w \in DOMAIN waiter : waiter[w].id \in DOMAIN peers /\ waiter[w].id \in 1..MaxId
  BY <1>0, IdsAreGiven
<1>2. nextId \in 1..MaxId + 1
  BY <1>0, <1>1 DEF RouterOK
<1>3. ASSUME NEW w \in DOMAIN waiter PROVE waiter[w] \in Waiter
  <2>1. waiter[w] \in ListenerRecord /\ waiter[w].client < nextId
    BY <1>0 DEF PInv, WiredInv, WaitersOK
  <2>2. waiter[w].client \in 0..MaxId
    BY <1>1, <1>2, <2>1 DEF ListenerRecord
  <2> QED  BY <1>1, <2>1, <2>2 DEF ListenerRecord, Waiter
<1>4. Range(queue) \subseteq Event
  BY <1>0, RangeOfSeq DEF QueueOK
<1>5. ASSUME NEW p \in DOMAIN entries PROVE entries[p] \in 1..MaxId
  <2>1. entries[p] \in Nat /\ entries[p] < nextId /\ entries[p] # 0
    BY <1>0 DEF PInv, PeersOK, NumbersOK
  <2> QED  BY <1>1, <1>2, <2>1
<1>6. Range(entries) \subseteq 1..MaxId
  BY <1>5 DEF Range
<1>7. Range(peers) \subseteq Peer
  BY <1>0 DEF PInv, PeersOK, Range
<1>8. announcing \in BOOLEAN /\ awake \in BOOLEAN /\ present \subseteq Ext
  BY <1>0 DEF QueueOK, PInv, SequencerOK
<1>9. subs \subseteq {l \in Link : Range(l) \subseteq present \cup {Multi} \cup DOMAIN waiter}
  BY <1>0 DEF SubsStand, Standing
<1>10. missed \cup refused \subseteq 1..MaxId
  BY <1>0 DEF RouterOK
<1> QED  BY <1>0, <1>1, <1>2, <1>3, <1>4, <1>6, <1>7, <1>8, <1>9, <1>10 DEF ATypeOK, NumbersOK, RouterOK

LEMMA FoundAreLinks ==
  ASSUME present \subseteq Ext
  PROVE  /\ Found \subseteq Link
         /\ \A l \in Found : Range(l) \subseteq present \cup {Multi} /\ Multi \in Range(l)
<1>1. ASSUME NEW p \in present PROVE \A l \in Both(p) : l \in Link /\ Range(l) = {p, Multi}
  <2>1. Range(<<p, Multi>>) = {p, Multi} /\ Range(<<Multi, p>>) = {Multi, p}
    BY PairRange
  <2> QED  BY <2>1, BothAreLinks DEF Both
<1> QED  BY <1>1 DEF Found

LEMMA TInvInit == AInit => TInv
<1> SUFFICES ASSUME AInit PROVE TInv
  OBVIOUS
<1>1. /\ nextId = 2 /\ waiter = <<>> /\ entries = <<>> /\ wires = {} /\ present \subseteq Ext
      /\ peers = [i \in {Multi} |-> [kind |-> "multi"]] /\ subs = Found /\ exports = Found
      /\ queue = Events("subscribed", Found, Told) /\ announcing \in BOOLEAN
      /\ renumbered = {} /\ missed = {} /\ refused = {}
  BY DEF AInit
<1>2. awake \in BOOLEAN
  BY DEF AInit
<1>3. Found \in SUBSET Link
  BY <1>1, FoundAreLinks
<1>4. "subscribed" \in Kinds
  BY DEF Kinds
<1>5. Events("subscribed", Found, Told) \in Seq(Event)
  BY <1>3, <1>4, ToldSends
<1>6. QueueOK
  BY <1>1, <1>2, <1>5 DEF QueueOK
<1>7. SubsStand
  BY <1>1, FoundAreLinks DEF SubsStand, Standing
<1>8. NumbersOK
  BY <1>1, <1>3 DEF NumbersOK
<1>9. RouterOK
  BY <1>1, PortsAssumption DEF RouterOK, Multi
<1> QED  BY <1>6, <1>7, <1>8, <1>9, PInvInit DEF TInv

\* The queue has events about ports of the daemon, subscriptions are between
\* ports that stand, and every variable keeps to its type (aseq.cpp, read_ready).
THEOREM AlsaTypeCorrect == ASpec => []ATypeOK
<1>1. AInit => TInv
  BY TInvInit
<1>2. TInv /\ [ANext]_avars => TInv'
  BY TInvStep
<1>3. TInv => ATypeOK
  BY TypesFollow
<1> QED  BY <1>1, <1>2, <1>3, PTL DEF ASpec

-----------------------------------------------------------------------------
(* What is on its way about the port me and those in from, while something   *)
(* else is handled, or nothing.                                              *)

Subscribed(me, from) == Between(me, from, subs) # {}

Steady(me, from) ==
    /\ \A k \in Kinds : Has(queue, k, me, from) => Has(queue', k, me, from)
    /\ me # Multi /\ Subscribed(me, from)' /\ ~Subscribed(me, from) => Has(queue', "subscribed", me, from)
    /\ Subscribed(me, from) /\ ~Subscribed(me, from)' =>
          Ended(queue', me, from) /\ Has(queue', "unsubscribed", me, from)
    /\ ~Subscribed(me, from) /\ ~Subscribed(me, from)' /\ Ended(queue, me, from) => Ended(queue', me, from)

LEMMA SteadySent ==
  ASSUME QueueOK, NEW me, NEW from, NEW e \in Seq(Event), queue' = queue \o e,
         Has(e, "subscribed", me, from) => Subscribed(me, from)',
         Subscribed(me, from) /\ ~Subscribed(me, from)' => Has(e, "unsubscribed", me, from),
         me # Multi /\ Subscribed(me, from)' /\ ~Subscribed(me, from) => Has(e, "subscribed", me, from)
  PROVE  Steady(me, from)
<1>0. "subscribed" \in Kinds /\ "unsubscribed" \in Kinds
  BY DEF Kinds
<1>1. /\ \A k \in Kinds : Has(queue', k, me, from) <=> Has(queue, k, me, from) \/ Has(e, k, me, from)
      /\ ~Has(e, "subscribed", me, from) /\ (Ended(queue, me, from) \/ Has(e, "unsubscribed", me, from))
            => Ended(queue', me, from)
  BY AppendDoes DEF QueueOK
<1> QED  BY <1>0, <1>1 DEF Steady

LEMMA SteadyDropped ==
  ASSUME QueueOK, queue # <<>>, NEW me, NEW from, NEW e \in Seq(Event), queue' = Tail(queue) \o e,
         \A k \in Kinds : ~Says(queue, 1, k, me, from),
         Has(e, "subscribed", me, from) => Subscribed(me, from)',
         Subscribed(me, from) => Subscribed(me, from)',
         me # Multi /\ Subscribed(me, from)' => Subscribed(me, from)
  PROVE  Steady(me, from)
<1>1. /\ \A k \in Kinds : Has(queue, k, me, from) /\ ~Says(queue, 1, k, me, from) => Has(queue', k, me, from)
      /\ Ended(queue, me, from) /\ ~Has(e, "subscribed", me, from) => Ended(queue', me, from)
  BY DropDoes DEF QueueOK
<1> QED  BY <1>1 DEF Steady

\* Nothing is dropped, nothing sent, and nobody subscribes or leaves.
LEMMA SteadyUnchanged ==
  ASSUME NEW me, NEW from, UNCHANGED <<queue, subs>>
  PROVE  Steady(me, from)
BY DEF Steady, Subscribed

LEMMA NothingSaid == \A k \in Kinds : \A me, from : ~Has(<<>>, k, me, from)
BY DEF Has

LEMMA OwnIsNotExt == \A p \in Ext : p \notin OwnPort
<1>1. \A p \in OwnPort : p \in Int
  BY PortsAssumption
<1>2. Ext \cap Int = {}
  BY PortsAssumption
<1> QED  BY <1>1, <1>2

LEMMA SubscribeSteady ==
  ASSUME TInv, NEW l \in Link, Subscribe(l), NEW me \in OwnPort, NEW from
  PROVE  Steady(me, from)
<1> DEFINE e == Events("subscribed", {l}, Heard)
<1>0. "subscribed" \in Kinds /\ {l} \in SUBSET Link /\ Heard \in 0..2 /\ Heard # 0 /\ "unsubscribed" # "subscribed"
  BY Times DEF Kinds, Heard
<1>1. queue' = queue \o e /\ subs' = subs \cup {l} /\ QueueOK
  BY DEF Subscribe, Send, TInv
<1>2. /\ e \in Seq(Event)
      /\ \A k : Has(e, k, me, from) => \E i \in {1, 2} : me = l[i] /\ l[3 - i] \in from
      /\ \A i \in {1, 2} : me = l[i] /\ l[3 - i] \in from => Has(e, "subscribed", me, from)
  BY <1>0, EventsSay
<1> HIDE DEF e
<1>3. Has(e, "subscribed", me, from) => Subscribed(me, from)'
  BY <1>1, <1>2 DEF Subscribed, Between
<1>4. Subscribed(me, from) => Subscribed(me, from)'
  BY <1>1 DEF Subscribed, Between
<1>5. Subscribed(me, from)' /\ ~Subscribed(me, from) => Has(e, "subscribed", me, from)
  BY <1>1, <1>2 DEF Subscribed, Between
<1> QED  BY <1>1, <1>2, <1>3, <1>4, <1>5, SteadySent

LEMMA UnsubscribeSteady ==
  ASSUME TInv, NEW l \in Link, Unsubscribe(l), NEW me \in OwnPort, NEW from
  PROVE  Steady(me, from)
<1> DEFINE e == Events("unsubscribed", {l}, Heard)
<1>0. "unsubscribed" \in Kinds /\ {l} \in SUBSET Link /\ Heard \in 0..2 /\ Heard # 0 /\ "unsubscribed" # "subscribed"
  BY Times DEF Kinds, Heard
<1>1. queue' = queue \o e /\ subs' = subs \ {l} /\ QueueOK
  BY DEF Unsubscribe, Send, TInv
<1>2. /\ e \in Seq(Event)
      /\ \A k : Has(e, k, me, from) => k = "unsubscribed"
      /\ \A i \in {1, 2} : me = l[i] /\ l[3 - i] \in from => Has(e, "unsubscribed", me, from)
  BY <1>0, EventsSay
<1> HIDE DEF e
<1>3. ~Has(e, "subscribed", me, from)
  BY <1>0, <1>2
<1>4. Subscribed(me, from)' => Subscribed(me, from)
  BY <1>1 DEF Subscribed, Between
<1>5. Subscribed(me, from) /\ ~Subscribed(me, from)' => Has(e, "unsubscribed", me, from)
  BY <1>1, <1>2 DEF Subscribed, Between
<1> QED  BY <1>1, <1>2, <1>3, <1>4, <1>5, SteadySent

\* A port that goes away: me is told, unless it is the port itself.
LEMMA GoneSteady ==
  ASSUME TInv, NEW p, NEW x \in Seq(Event), \A k \in Kinds : \A me, from : ~Has(x, k, me, from),
         queue' = queue \o (Bereaved(p) \o x), subs' = subs \ Of(p, subs),
         NEW me \in OwnPort, me # p, NEW from
  PROVE  Steady(me, from)
<1> DEFINE b == Bereaved(p)  e == b \o x
<1>0. "unsubscribed" # "subscribed" /\ "subscribed" \in Kinds /\ "unsubscribed" \in Kinds /\ QueueOK /\ SequencerOK
  BY DEF Kinds, TInv, PInv
<1>1. /\ b \in Seq(Event) /\ \A k : Has(b, k, me, from) => k = "unsubscribed"
      /\ \A l \in Of(p, subs), i \in {1, 2} :
            l[i] = me /\ l[3 - i] \in from => Has(b, "unsubscribed", me, from)
  BY <1>0, BereavedSays
<1> HIDE DEF b
<1>2. e \in Seq(Event) /\ \A k \in Kinds : Has(e, k, me, from) <=> Has(b, k, me, from) \/ Has(x, k, me, from)
  BY <1>1, AppendDoes, ConcatProperties
<1>3. queue' = queue \o e
  BY DEF b
<1> HIDE DEF e
<1>4. ~Has(e, "subscribed", me, from)
  BY <1>0, <1>1, <1>2
<1>5. Subscribed(me, from)' => Subscribed(me, from)
  BY DEF Subscribed, Between
<1>6. Subscribed(me, from) /\ ~Subscribed(me, from)' => Has(e, "unsubscribed", me, from)
  BY <1>0, <1>1, <1>2 DEF Subscribed, Between
<1> QED  BY <1>0, <1>2, <1>3, <1>4, <1>5, <1>6, SteadySent

LEMMA RefusedSteady ==
  ASSUME TInv, queue # <<>>, NEW links \in SUBSET Link, NEW me \in OwnPort, NEW from,
         Drop(Events("unsubscribed", links, Told)), subs' = subs \ links,
         Between(me, from, links) = {},
         \A k \in Kinds : ~Says(queue, 1, k, me, from)
  PROVE  Steady(me, from)
<1> DEFINE e == Events("unsubscribed", links, Told)
<1>0. "unsubscribed" \in Kinds /\ "unsubscribed" # "subscribed" /\ Told \in 0..2 /\ QueueOK
  BY Times DEF Kinds, TInv
<1>1. e \in Seq(Event) /\ \A k : Has(e, k, me, from) => k = "unsubscribed"
  BY <1>0, EventsSay
<1>2. queue' = Tail(queue) \o e
  BY DEF Drop
<1> HIDE DEF e
<1>3. ~Has(e, "subscribed", me, from)
  BY <1>0, <1>1
<1>4. Subscribed(me, from)' <=> Subscribed(me, from)
  BY DEF Subscribed, Between
<1> QED  BY <1>0, <1>1, <1>2, <1>3, <1>4, SteadyDropped

LEMMA ExportedSteady ==
  ASSUME TInv, queue # <<>>, NEW p \in Ext, NEW me \in OwnPort, NEW from,
         Drop(Events("subscribed", Both(p) \ subs, Told)), subs' = subs \cup Both(p),
         \A k \in Kinds : ~Says(queue, 1, k, me, from)
  PROVE  Steady(me, from)
<1> DEFINE links == Both(p) \ subs  e == Events("subscribed", links, Told)
<1>0. "subscribed" \in Kinds /\ Told \in 0..2 /\ QueueOK /\ links \in SUBSET Link
  BY Times, BothAreLinks DEF Kinds, TInv
<1>1. /\ e \in Seq(Event)
      /\ \A k : Has(e, k, me, from) => \E l \in links, i \in {1, 2} : me = l[i] /\ l[3 - i] \in from
  <2> HIDE DEF links
  <2> QED  BY <1>0, EventsSay
<1>2. queue' = Tail(queue) \o e
  BY DEF Drop
<1> HIDE DEF e
<1>3. Has(e, "subscribed", me, from) => Subscribed(me, from)'
  BY <1>1 DEF Subscribed, Between
<1>4. Subscribed(me, from) => Subscribed(me, from)'
  BY DEF Subscribed, Between
<1>5. me # Multi /\ Subscribed(me, from)' => Subscribed(me, from)
  BY OwnIsNotExt DEF Subscribed, Between, Both
<1> QED  BY <1>0, <1>1, <1>2, <1>3, <1>4, <1>5, SteadyDropped

LEMMA HandledSteady ==
  ASSUME TInv, queue # <<>>, NEW me \in OwnPort, NEW from, Drop(<<>>), UNCHANGED subs,
         \A k \in Kinds : ~Says(queue, 1, k, me, from)
  PROVE  Steady(me, from)
<1>1. QueueOK /\ queue' = Tail(queue) \o <<>> /\ <<>> \in Seq(Event)
  BY DEF TInv, Drop
<1>2. Subscribed(me, from)' <=> Subscribed(me, from)
  BY DEF Subscribed
<1>3. "subscribed" \in Kinds
  BY DEF Kinds
<1> QED  BY <1>1, <1>2, <1>3, NothingSaid, SteadyDropped

\* An event that is handled is about something else.
LEMMA HandlersSteady ==
  ASSUME TInv, queue # <<>>, NEW ev, ev = Head(queue), WaiterHandles(ev) \/ MultiHandles(ev) \/ HwHandles(ev),
         NEW me \in OwnPort, NEW from,
         \A k \in Kinds : ~Says(queue, 1, k, me, from),
         Between(me, from, subs \ subs') = {}
  PROVE  Steady(me, from)
<1>0. ev \in Event /\ SequencerOK /\ subs \subseteq Link
  BY DEF TInv, QueueOK, PInv, SequencerOK
<1>1. CASE Drop(<<>>) /\ UNCHANGED subs
  BY <1>1, HandledSteady
<1>2. ASSUME NEW w \in DOMAIN waiter, WaiterRefuses(w) PROVE Steady(me, from)
  <2>1. PICK gone \in Halves(w) : subs' = subs \ gone /\ Drop(Events("unsubscribed", gone, Told))
    BY <1>2 DEF WaiterRefuses
  <2>2. gone \in SUBSET Link /\ gone \subseteq subs
    BY <1>0, HalvesAreSubs DEF Of
  <2>3. subs \ subs' = gone
    BY <2>1, <2>2
  <2>4. Between(me, from, gone) = {}
    BY <2>3
  <2> QED  BY <2>1, <2>2, <2>4, RefusedSteady
<1>3. ASSUME HwHandles(ev) PROVE Steady(me, from)
  <2>1. \/ Drop(<<>>) /\ UNCHANGED subs
        \/ /\ ev.port \in Exported /\ subs' = subs \cup Both(ev.port)
           /\ Drop(Events("subscribed", Both(ev.port) \ subs, Told))
    BY <1>3 DEF HwHandles, Export, Unexport
  <2>2. ASSUME ev.port \in Exported, subs' = subs \cup Both(ev.port),
               Drop(Events("subscribed", Both(ev.port) \ subs, Told))
        PROVE  Steady(me, from)
    <3>1. ev.port \in Ext
      BY <2>2, PortsAssumption
    <3> QED  BY <2>2, <3>1, ExportedSteady
  <2> QED  BY <1>1, <2>1, <2>2
<1>4. ASSUME MultiHandles(ev) PROVE Drop(<<>>) /\ UNCHANGED subs
  BY <1>4 DEF MultiHandles, Handled
<1>5. ASSUME WaiterHandles(ev)
      PROVE  (Drop(<<>>) /\ UNCHANGED subs) \/ \E w \in DOMAIN waiter : WaiterRefuses(w)
  BY <1>5 DEF WaiterHandles, WaiterCounts, WaiterConnects, WaiterRecounts, Handled
<1> QED  BY <1>1, <1>2, <1>3, <1>4, <1>5

\* Nothing is handled.
LEMMA OthersSteady ==
  ASSUME TInv, Others \/ User \/ UNCHANGED avars,
         NEW me \in OwnPort, NEW from, me # Multi => me \in DOMAIN waiter'
  PROVE  Steady(me, from)
<1>1. CASE UNCHANGED <<queue, subs>>
  BY <1>1, SteadyUnchanged
<1>3. CASE Others
  <2>1. ASSUME NEW p \in Ext, Plug(p) PROVE Steady(me, from)
    <3> DEFINE e == IF announcing THEN <<[kind |-> "start", port |-> p]>> ELSE <<>>
    <3>1. queue' = queue \o e /\ UNCHANGED subs /\ QueueOK
      BY <2>1 DEF Plug, Send, TInv
    <3>2. e \in Seq(Event)
      BY AnnouncementIsEvent, NoEvents
    <3>3. \A k \in Kinds : ~Has(e, k, me, from)
      BY DEF Has, Says, Kinds
    <3>4. Subscribed(me, from)' <=> Subscribed(me, from)
      BY <3>1 DEF Subscribed
    <3>5. "subscribed" \in Kinds
      BY DEF Kinds
    <3> HIDE DEF e
    <3> QED  BY <3>1, <3>2, <3>3, <3>4, <3>5, SteadySent
  <2>2. ASSUME NEW p \in Ext, Unplug(p) PROVE Steady(me, from)
    <3> DEFINE x == IF announcing THEN <<[kind |-> "exit", port |-> p]>> ELSE <<>>
    <3>1. queue' = queue \o (Bereaved(p) \o x) /\ subs' = subs \ Of(p, subs)
      BY <2>2 DEF Unplug, Send
    <3>2. x \in Seq(Event)
      BY AnnouncementIsEvent, NoEvents
    <3>3. \A k \in Kinds : \A m, f : ~Has(x, k, m, f)
      BY DEF Has, Says, Kinds
    <3>4. me # p
      BY OwnIsNotExt
    <3> HIDE DEF x
    <3> QED  BY <3>1, <3>2, <3>3, <3>4, GoneSteady
  <2> QED  BY <1>3, <2>1, <2>2, SubscribeSteady, UnsubscribeSteady DEF Others
<1>4. ASSUME NEW w \in DOMAIN waiter, RemoveWaiter(w) PROVE Steady(me, from)
  <2>1. /\ Send(Bereaved(w)) /\ subs' = subs \ Of(w, subs) /\ DOMAIN waiter' = DOMAIN waiter \ {w}
    BY <1>4 DEF RemoveWaiter, RemovePort, Without, Restrict
  <2>2. me # w
    BY <2>1 DEF TInv, NumbersOK
  <2>3. Bereaved(w) \in Seq(Event)
    BY BereavedSays DEF TInv, PInv
  <2>4. queue' = queue \o (Bereaved(w) \o <<>>)
    BY <2>1, <2>3, ConcatEmptySeq DEF Send
  <2> QED  BY <2>1, <2>2, <2>4, NoEvents, NothingSaid, GoneSteady
<1>5. CASE User /\ ~\E w \in DOMAIN waiter : RemoveWaiter(w)
  <2>1. UNCHANGED alsa
    BY <1>5 DEF User, CreateWaiter, AddEndpoint, RemoveEndpoint, RemovePeer
  <2> QED  BY <1>1, <2>1 DEF alsa
<1> QED  BY <1>1, <1>3, <1>4, <1>5 DEF avars, alsa

-----------------------------------------------------------------------------
(* What a step is to the listener of a port that stays. *)

Same(v) == /\ waiter'[v].id = waiter[v].id /\ waiter'[v].client = waiter[v].client
           /\ waiter'[v].count = waiter[v].count

\* It is somebody else's.
Kept(v) == /\ Same(v)
           /\ waiter[v].client \in DOMAIN peers' <=> waiter[v].client \in DOMAIN peers
           /\ waiter[v].id \in missed' <=> waiter[v].id \in missed

\* Its client was taken away.
Lost(v) == /\ Same(v) /\ waiter[v].id \in missed'
           /\ waiter[v].client \in DOMAIN peers' => waiter[v].client \in DOMAIN peers

\* It is told.
Answers(v) == /\ Says(queue, 1, "subscribed", v, Port)
              /\ WaiterCounts(v) \/ WaiterConnects(v) \/ WaiterRefuses(v)
Recounts(v) == Says(queue, 1, "unsubscribed", v, Port) /\ WaiterRecounts(v)

ListenerStep(v) ==
    \/ Kept(v) /\ (Steady(v, Port) \/ waiter[v].id \in refused')
    \/ Lost(v) /\ Steady(v, Port)
    \/ queue # <<>> /\ (Answers(v) \/ Recounts(v))

\* One client for each listener, and no client that is something else.
ListenerFacts(v) ==
    /\ \A w \in DOMAIN waiter : /\ w # v => waiter[w].id # waiter[v].id
                                /\ w # v /\ waiter[w].client = waiter[v].client =>
                                     waiter[v].client \notin DOMAIN peers
                                /\ waiter[w].id \in DOMAIN peers /\ peers[waiter[w].id].kind = "waiter"
    /\ waiter[v].client # nextId /\ waiter[v].client \in Nat
    /\ waiter[v].client \in DOMAIN peers => peers[waiter[v].client].kind = "client"

LEMMA ListenersAre == ASSUME TInv, NEW v \in DOMAIN waiter PROVE ListenerFacts(v)
<1>1. WaitersOK /\ OneEach /\ ClientsOK /\ nextId \in Nat
  BY DEF TInv, PInv, WiredInv, IdsGiven
<1>2. waiter[v] \in ListenerRecord /\ waiter[v].client < nextId
  BY <1>1 DEF WaitersOK
<1>3. waiter[v].client # nextId /\ waiter[v].client \in Nat
  BY <1>1, <1>2 DEF ListenerRecord
<1> QED  BY <1>1, <1>3 DEF WaitersOK, OneEach, ClientsOK, ListenerFacts

\* The events of other listeners leave v its client.
LEMMA OtherWaiterKeeps ==
  ASSUME TInv, NEW ev, WaiterHandles(ev), NEW v \in DOMAIN waiter, ev.me # v
  PROVE  Kept(v)
<1>0. ListenerFacts(v)
  BY ListenersAre
<1> USE DEF ListenerFacts
<1>1. Same(v)
  BY DEF WaiterHandles, WaiterCounts, WaiterConnects, WaiterRefuses, WaiterRecounts, Count, Same
<1>2. ASSUME UNCHANGED <<peers, missed>> PROVE Kept(v)
  BY <1>1, <1>2 DEF Kept
<1>3. ASSUME NEW w \in DOMAIN waiter, w # v, WaiterConnects(w) PROVE Kept(v)
  <2>1. DOMAIN peers' = DOMAIN peers \cup {nextId} /\ UNCHANGED missed
    BY <1>3 DEF WaiterConnects, Put
  <2> QED  BY <1>0, <1>1, <2>1 DEF Kept
<1>4. ASSUME NEW w \in DOMAIN waiter, w # v, WaiterRecounts(w) PROVE Kept(v)
  <2>1. waiter[w].id # waiter[v].id
    BY <1>0, <1>4
  <2>2. missed' \in {missed, missed \cup {waiter[w].id}, missed \ {waiter[w].id}}
    BY <1>4 DEF WaiterRecounts
  <2>3. waiter[v].id \in missed' <=> waiter[v].id \in missed
    BY <2>1, <2>2
  <2>4. RemovePeers({waiter[w].client}) \/ UNCHANGED peers
    BY <1>4 DEF WaiterRecounts, KeepAll, router
  <2>5. DOMAIN peers' \in {DOMAIN peers, DOMAIN peers \ {waiter[w].client}}
    BY <2>4, RemovePeersDoes
  <2>6. waiter[v].client \in DOMAIN peers' <=> waiter[v].client \in DOMAIN peers
    BY <1>0, <1>4, <2>5
  <2> QED  BY <1>1, <2>3, <2>6 DEF Kept
<1>5. \/ UNCHANGED <<peers, missed>>
      \/ \E w \in DOMAIN waiter : w # v /\ (WaiterConnects(w) \/ WaiterRecounts(w))
  BY DEF WaiterHandles, WaiterCounts, WaiterRefuses, router
<1> QED  BY <1>2, <1>3, <1>4, <1>5

LEMMA MultiKeeps ==
  ASSUME TInv, NEW ev, MultiHandles(ev), NEW v \in DOMAIN waiter
  PROVE  Kept(v)
<1>0. /\ ListenerFacts(v)
      /\ \A p \in DOMAIN entries : entries[p] \in DOMAIN peers => peers[entries[p]].kind = "listener"
  BY ListenersAre DEF TInv, PInv, PeersOK
<1> USE DEF ListenerFacts
<1>1. Same(v) /\ UNCHANGED missed
  BY DEF MultiHandles, Same
<1>2. \/ DOMAIN peers' = DOMAIN peers
      \/ DOMAIN peers' = DOMAIN peers \cup {nextId}
      \/ \E p \in DOMAIN entries : entries[p] \in DOMAIN peers /\ DOMAIN peers' = DOMAIN peers \ {entries[p]}
  <2>1. ASSUME NEW p, MultiSubscribed(p)
        PROVE  DOMAIN peers' = DOMAIN peers \/ DOMAIN peers' = DOMAIN peers \cup {nextId}
    BY <2>1 DEF MultiSubscribed, Put
  <2>2. ASSUME NEW p, MultiUnsubscribed(p)
        PROVE  \/ DOMAIN peers' = DOMAIN peers
               \/ p \in DOMAIN entries /\ entries[p] \in DOMAIN peers /\ DOMAIN peers' = DOMAIN peers \ {entries[p]}
    <3>1. CASE UNCHANGED router
      BY <3>1 DEF router
    <3>2. ASSUME p \in DOMAIN entries, entries[p] \in DOMAIN peers, Release(entries[p])
          PROVE  \/ DOMAIN peers' = DOMAIN peers
                 \/ DOMAIN peers' = DOMAIN peers \ {entries[p]}
      <4>1. DOMAIN peers' = DOMAIN peers \/ RemovePeers({entries[p]})
        BY <3>2 DEF Release
      <4> QED  BY <4>1, RemovePeersDoes
    <3> QED  BY <2>2, <3>1, <3>2 DEF MultiUnsubscribed, KeepAll
  <2> QED  BY <2>1, <2>2 DEF MultiHandles
<1>3. waiter[v].client \in DOMAIN peers' <=> waiter[v].client \in DOMAIN peers
  BY <1>0, <1>2
<1> QED  BY <1>1, <1>3 DEF Kept

\* Users and other programs.
LEMMA OthersKeep ==
  ASSUME TInv, Others \/ User \/ UNCHANGED avars, NEW v \in DOMAIN waiter, v \in DOMAIN waiter'
  PROVE  Kept(v) \/ Lost(v)
<1>0. ListenerFacts(v)
  BY ListenersAre
<1> USE DEF ListenerFacts
<1>1. CASE UNCHANGED <<waiter, peers, missed>>
  BY <1>1 DEF Kept, Same
<1>2. CASE Others
  BY <1>1, <1>2 DEF Others, Subscribe, Unsubscribe, Plug, Unplug, Elsewhere, router, history
<1>3. CASE CreateWaiter
  <2>1. PICK w \in FreePorts : waiter' = Put(waiter, w, [id |-> nextId, count |-> 0, client |-> 0,
                                                       endpoints |-> TRUE])
    BY <1>3 DEF CreateWaiter
  <2>2. waiter'[v] = waiter[v]
    BY <2>1 DEF Put, FreePorts
  <2>3. DOMAIN peers' = DOMAIN peers \cup {nextId} /\ UNCHANGED missed
    BY <1>3 DEF CreateWaiter, Put, history
  <2> QED  BY <1>0, <2>2, <2>3 DEF Kept, Same
<1>4. ASSUME NEW w \in DOMAIN waiter, AddEndpoint(w) \/ RemoveEndpoint(w) PROVE Kept(v)
  <2>1. waiter[w] \in ListenerRecord
    BY DEF TInv, PInv, WiredInv, WaitersOK
  <2>2. \E b : waiter' = [waiter EXCEPT ![w].endpoints = b]
    BY <1>4 DEF AddEndpoint, RemoveEndpoint
  <2>3. Same(v)
    BY <2>1, <2>2 DEF Same, ListenerRecord
  <2>4. UNCHANGED <<peers, missed>>
    BY <1>4 DEF AddEndpoint, RemoveEndpoint, router, history
  <2> QED  BY <2>3, <2>4 DEF Kept
<1>5. ASSUME NEW w \in DOMAIN waiter, RemoveWaiter(w) PROVE Kept(v)
  <2>1. /\ waiter' = [x \in DOMAIN waiter \ {w} |-> waiter[x]] /\ UNCHANGED missed
        /\ RemovePeers({waiter[w].id, waiter[w].client})
    BY <1>5 DEF RemoveWaiter, RemovePort, Without, Restrict
  <2>2. v # w /\ waiter'[v] = waiter[v]
    BY <2>1
  <2>3. DOMAIN peers' = DOMAIN peers \ {waiter[w].id, waiter[w].client}
    BY <2>1, RemovePeersDoes
  <2>4. waiter[v].client \in DOMAIN peers' <=> waiter[v].client \in DOMAIN peers
    BY <1>0, <2>2, <2>3
  <2> QED  BY <2>1, <2>2, <2>4 DEF Kept, Same
<1>6. ASSUME NEW i \in DOMAIN peers, RemovePeer(i) PROVE Kept(v) \/ Lost(v)
  <2>1. /\ UNCHANGED waiter /\ RemovePeers({i})
        /\ missed' = missed \cup {waiter[w].id : w \in {u \in DOMAIN waiter : waiter[u].client = i}}
    BY <1>6 DEF RemovePeer
  <2>2. DOMAIN peers' = DOMAIN peers \ {i} /\ Same(v)
    BY <2>1, RemovePeersDoes DEF Same
  <2>3. CASE waiter[v].client = i
    BY <2>1, <2>2, <2>3 DEF Lost
  <2>4. CASE waiter[v].client # i
    <3>1. waiter[v].id \in missed' <=> waiter[v].id \in missed
      BY <1>0, <2>1, <2>4
    <3> QED  BY <2>2, <2>4, <3>1 DEF Kept
  <2> QED  BY <2>3, <2>4
<1>7. CASE UNCHANGED avars
  BY <1>1, <1>7 DEF avars, router, history
<1> QED  BY <1>2, <1>3, <1>4, <1>5, <1>6, <1>7 DEF User

\* A link has two ends.
LEMMA BetweenPorts ==
  ASSUME NEW v \in OwnPort, NEW links \in SUBSET Link
  PROVE  Between(v, Port, links) = Of(v, links)
<1>1. ASSUME NEW l \in links
      PROVE  v \in Range(l) <=> \E i \in {1, 2} : l[i] = v /\ l[3 - i] \in Port
  <2>1. Range(l) = {l[1], l[2]} /\ l[1] \in Port /\ l[2] \in Port
    BY LinkRange DEF Link
  <2> QED  BY <2>1
<1> QED  BY <1>1 DEF Between, Of

LEMMA ListenerSteps ==
  ASSUME TInv, [ANext]_avars, NEW v \in DOMAIN waiter, v \in DOMAIN waiter'
  PROVE  ListenerStep(v)
<1>0. v \in OwnPort /\ v # Multi /\ subs \subseteq Link /\ QueueOK
  BY DEF TInv, NumbersOK, PInv, SequencerOK
<1>1. CASE Others \/ User \/ UNCHANGED avars
  <2>1. Steady(v, Port)
    BY <1>0, <1>1, OthersSteady
  <2> QED  BY <1>1, <2>1, OthersKeep DEF ListenerStep
<1>2. CASE ReadReady /\ queue = <<>>
  <2>1. UNCHANGED <<queue, subs, waiter, peers, missed>>
    BY <1>2 DEF ReadReady, router, history
  <2>2. Steady(v, Port)
    BY <2>1, SteadyUnchanged
  <2> QED  BY <2>1, <2>2 DEF ListenerStep, Kept, Same
<1>3. ASSUME queue # <<>>, NEW ev, ev = Head(queue), WaiterHandles(ev) \/ MultiHandles(ev) \/ HwHandles(ev)
      PROVE  ListenerStep(v)
  <2>0. ev \in Event /\ ev = queue[1]
    BY <1>0, <1>3 DEF QueueOK
  <2>1. CASE WaiterHandles(ev) /\ ev.me = v
    <3>1. ev.kind \in {"subscribed", "unsubscribed"} /\ ev.other \in Port
      BY <2>0, <2>1 DEF WaiterHandles, Event
    <3>2. Says(queue, 1, ev.kind, v, Port)
      BY <2>0, <2>1, <3>1 DEF Says
    <3>3. \/ ev.kind = "subscribed" /\ (WaiterCounts(v) \/ WaiterConnects(v) \/ WaiterRefuses(v))
          \/ ev.kind = "unsubscribed" /\ WaiterRecounts(v)
      BY <2>1 DEF WaiterHandles
    <3> QED  BY <1>3, <3>2, <3>3 DEF ListenerStep, Answers, Recounts
  <2>2. CASE ~(WaiterHandles(ev) /\ ev.me = v)
    <3>1. Kept(v)
      <4>1. ASSUME HwHandles(ev) PROVE Kept(v)
        BY <4>1 DEF HwHandles, Kept, Same, router
      <4> QED  BY <1>3, <2>2, <4>1, OtherWaiterKeeps, MultiKeeps
    <3>2. \A k \in Kinds : ~Says(queue, 1, k, v, Port)
      <4>1. ASSUME MultiHandles(ev) PROVE ev.me # v
        BY <1>0, <4>1 DEF MultiHandles
      <4>2. ASSUME HwHandles(ev) PROVE ev.kind \notin Kinds
        BY <4>2 DEF HwHandles, Kinds
      <4> QED  BY <1>3, <2>0, <2>2, <4>1, <4>2 DEF Says
    <3>3. Between(v, Port, subs \ subs') = {} \/ waiter[v].id \in refused'
      <4>1. CASE UNCHANGED subs \/ subs \subseteq subs'
        BY <4>1 DEF Between
      <4>2. ASSUME NEW w \in DOMAIN waiter, WaiterRefuses(w)
            PROVE  Between(v, Port, subs \ subs') = {} \/ waiter[v].id \in refused'
        <5>1. PICK gone \in Halves(w) :
                 /\ subs' = subs \ gone
                 /\ refused' = refused \cup {waiter[u].id : u \in {x \in DOMAIN waiter :
                                                                     x = w \/ Of(x, gone) # {}}}
          BY <4>2 DEF WaiterRefuses
        <5>2. gone \in SUBSET Link /\ gone \subseteq subs
          BY <1>0, HalvesAreSubs DEF SequencerOK, TInv, PInv, Of
        <5>3. subs \ subs' = gone
          BY <5>1, <5>2
        <5>4. Between(v, Port, gone) = Of(v, gone)
          BY <1>0, <5>2, BetweenPorts
        <5> QED  BY <5>1, <5>3, <5>4
      <4>3. ASSUME HwHandles(ev) PROVE subs \subseteq subs'
        BY <4>3 DEF HwHandles, Export, Unexport
      <4>4. ASSUME MultiHandles(ev) PROVE UNCHANGED subs
        BY <4>4 DEF MultiHandles, Handled
      <4>5. ASSUME WaiterHandles(ev) PROVE UNCHANGED subs \/ \E w \in DOMAIN waiter : WaiterRefuses(w)
        BY <4>5 DEF WaiterHandles, WaiterCounts, WaiterConnects, WaiterRecounts, Handled
      <4> QED  BY <1>3, <4>1, <4>2, <4>3, <4>4, <4>5
    <3>4. Between(v, Port, subs \ subs') = {} => Steady(v, Port)
      BY <1>0, <1>3, <3>2, HandlersSteady
    <3> QED  BY <3>1, <3>3, <3>4 DEF ListenerStep
  <2> QED  BY <2>1, <2>2
<1> QED  BY <1>1, <1>2, <1>3 DEF ANext, ReadReady

\* History only grows, but for a listener that is told that nobody is left.
LEMMA HistoryGrows ==
  ASSUME [ANext]_avars
  PROVE  renumbered \subseteq renumbered' /\ refused \subseteq refused'
<1>1. ASSUME NEW ev, WaiterHandles(ev) \/ MultiHandles(ev) \/ HwHandles(ev)
      PROVE  renumbered' = renumbered /\ refused \subseteq refused'
  <2>1. UNCHANGED renumbered
    BY <1>1, HandlersKeepPorts
  <2>2. refused \subseteq refused'
    BY <1>1 DEF WaiterHandles, WaiterCounts, WaiterConnects, WaiterRefuses, WaiterRecounts,
                MultiHandles, HwHandles, Handled
  <2> QED  BY <2>1, <2>2
<1>2. CASE ReadReady
  BY <1>1, <1>2 DEF ReadReady, history
<1>3. CASE Others
  BY <1>3 DEF Others, Subscribe, Unsubscribe, Plug, Unplug, Elsewhere, history
<1>4. CASE User
  BY <1>4 DEF User, CreateWaiter, AddEndpoint, RemoveEndpoint, RemoveWaiter, RemovePort, RemovePeer, history
<1>5. CASE UNCHANGED avars
  BY <1>5 DEF avars, history
<1> QED  BY <1>2, <1>3, <1>4, <1>5 DEF ANext

\* A listener that is new counts nobody; its number was free.
LEMMA NewListener ==
  ASSUME TInv, [ANext]_avars, NEW v, v \notin DOMAIN waiter, v \in DOMAIN waiter'
  PROVE  /\ v \in OwnPort \ ({Multi} \cup DOMAIN waiter)
         /\ waiter'[v].count = 0 /\ waiter'[v].client \notin DOMAIN peers'
         /\ UNCHANGED <<queue, subs>> /\ Of(v, subs) = {}
<1>1. ASSUME NEW ev, WaiterHandles(ev) \/ MultiHandles(ev) \/ HwHandles(ev) PROVE FALSE
  BY <1>1, HandlersKeepPorts
<1>2. CASE ReadReady
  BY <1>1, <1>2 DEF ReadReady
<1>3. CASE Others
  BY <1>3 DEF Others, Subscribe, Unsubscribe, Plug, Unplug, Elsewhere
<1>4. CASE CreateWaiter
  <2>1. PICK w \in FreePorts : waiter' = Put(waiter, w, [id |-> nextId, count |-> 0, client |-> 0,
                                                       endpoints |-> TRUE])
    BY <1>4 DEF CreateWaiter
  <2>2. /\ v \in OwnPort \ ({Multi} \cup DOMAIN waiter)
        /\ waiter'[v] = [id |-> nextId, count |-> 0, client |-> 0, endpoints |-> TRUE]
    BY <2>1 DEF Put, FreePorts
  <2>3. UNCHANGED <<queue, subs>> /\ DOMAIN peers' = DOMAIN peers \cup {nextId}
    BY <1>4 DEF CreateWaiter, alsa, Put
  <2>4. 0 \notin DOMAIN peers /\ nextId # 0
    BY DEF TInv, PInv, WiredInv, IdsGiven, Multi
  <2>5. v \notin Standing
    <3>1. v \notin Ext
      BY <2>2, OwnIsNotExt
    <3> QED  BY <2>2, <3>1 DEF Standing, TInv, PInv, SequencerOK
  <2>6. Of(v, subs) = {}
    BY <2>5 DEF Of, TInv, SubsStand
  <2> QED  BY <2>2, <2>3, <2>4, <2>6
<1>5. CASE User /\ ~CreateWaiter
  <2>1. DOMAIN waiter' \subseteq DOMAIN waiter
    BY <1>5 DEF User, AddEndpoint, RemoveEndpoint, RemoveWaiter, RemovePort, RemovePeer, Without, Restrict
  <2> QED  BY <2>1
<1>6. CASE UNCHANGED avars
  BY <1>6 DEF avars
<1> QED  BY <1>2, <1>3, <1>4, <1>5, <1>6 DEF ANext

-----------------------------------------------------------------------------
(* The listener that is told. *)

LEMMA ConnectionsOf ==
  ASSUME SequencerOK, NEW v
  PROVE  Connections(v) \in Nat /\ (Connections(v) = 0 <=> Of(v, subs) = {})
<1> DEFINE A == {l \in subs : l[1] = v}  B == {l \in subs : l[2] = v}
<1>1. A \in SUBSET Link /\ B \in SUBSET Link
  BY DEF SequencerOK
<1>2. IsFiniteSet(A) /\ IsFiniteSet(B)
  BY <1>1, FiniteLinks
<1>3. /\ Cardinality(A) \in Nat /\ Cardinality(B) \in Nat
      /\ Cardinality(A) = 0 <=> A = {}
      /\ Cardinality(B) = 0 <=> B = {}
  BY <1>2, FS_CardinalityType, FS_EmptySet
<1>4. Of(v, subs) = A \cup B
  <2>1. \A l \in subs : v \in Range(l) <=> l[1] = v \/ l[2] = v
    BY LinkRange DEF SequencerOK
  <2> QED  BY <2>1 DEF Of
<1>5. Connections(v) = Cardinality(A) + Cardinality(B)
  BY DEF Connections
<1> HIDE DEF A, B
<1>6. Of(v, subs) = {} <=> (A = {} /\ B = {})
  BY <1>4
<1>7. \A a, b \in Nat : a + b \in Nat /\ (a + b = 0 <=> (a = 0 /\ b = 0))
  OBVIOUS
<1>8. Connections(v) \in Nat /\ (Connections(v) = 0 <=> (A = {} /\ B = {}))
  BY <1>3, <1>5, <1>7
<1> QED  BY <1>6, <1>8

\* Somebody new: counted, or the first one, for whom the server is called, or
\* nobody to call.
LEMMA AnswersDo ==
  ASSUME TInv, NEW v \in DOMAIN waiter, queue # <<>>, Answers(v)
  PROVE  /\ waiter'[v].id = waiter[v].id /\ missed' = missed
         /\ \/ waiter[v].id \in refused' /\ UNCHANGED <<waiter, peers>>
            \/ /\ UNCHANGED subs /\ queue' = Tail(queue) \o <<>>
               /\ \/ waiter'[v].client \in DOMAIN peers'
                  \/ waiter[v].count > 0 /\ waiter'[v].client = waiter[v].client /\ UNCHANGED peers
<1>0. WaitersOK /\ waiter[v] \in ListenerRecord
  BY DEF TInv, PInv, WiredInv, WaitersOK
<1>1. ASSUME WaiterCounts(v)
      PROVE  /\ waiter'[v].id = waiter[v].id /\ missed' = missed
             /\ UNCHANGED <<subs, peers>> /\ queue' = Tail(queue) \o <<>>
             /\ waiter[v].count > 0 /\ waiter'[v].client = waiter[v].client
  <2>1. waiter[v].count + 1 \in Nat
    BY <1>0 DEF ListenerRecord
  <2>2. waiter'[v].id = waiter[v].id /\ waiter'[v].client = waiter[v].client
    BY <1>0, <1>1, <2>1, CountDoes DEF WaiterCounts
  <2> QED  BY <1>1, <2>2 DEF WaiterCounts, Handled, Drop, router
<1>2. ASSUME WaiterConnects(v)
      PROVE  /\ waiter'[v].id = waiter[v].id /\ missed' = missed
             /\ UNCHANGED subs /\ queue' = Tail(queue) \o <<>>
             /\ waiter'[v].client \in DOMAIN peers'
  <2>1. waiter' = [waiter EXCEPT ![v].count = 1, ![v].client = nextId]
    BY <1>2 DEF WaiterConnects
  <2>2. waiter'[v].id = waiter[v].id /\ waiter'[v].client = nextId
    BY <1>0, <2>1 DEF ListenerRecord
  <2>3. nextId \in DOMAIN peers'
    BY <1>2 DEF WaiterConnects, Put
  <2> QED  BY <1>2, <2>2, <2>3 DEF WaiterConnects, Handled, Drop
<1>3. ASSUME WaiterRefuses(v)
      PROVE  waiter[v].id \in refused' /\ UNCHANGED <<waiter, peers, missed>>
  BY <1>3 DEF WaiterRefuses, router
<1> QED  BY <1>1, <1>2, <1>3 DEF Answers

\* Somebody less: counted again.
LEMMA RecountsDo ==
  ASSUME TInv, NEW v \in DOMAIN waiter, queue # <<>>, Recounts(v)
  PROVE  /\ waiter'[v].id = waiter[v].id /\ waiter'[v].client = waiter[v].client
         /\ UNCHANGED subs /\ queue' = Tail(queue) \o <<>>
         /\ Of(v, subs) = {} => waiter'[v].count = 0 /\ waiter[v].client \notin DOMAIN peers'
         /\ Of(v, subs) # {} => waiter[v].client \in DOMAIN peers' \/ waiter[v].id \in missed'
<1>0. WaitersOK /\ SequencerOK
  BY DEF TInv, PInv, WiredInv
<1> DEFINE left == Connections(v)
<1>1. left \in Nat /\ (left = 0 <=> Of(v, subs) = {})
  BY <1>0, ConnectionsOf
<1>2. /\ Count(v, left) /\ Handled
      /\ left = 0 => RemovePeers({waiter[v].client})
      /\ left # 0 => UNCHANGED router
      /\ left # 0 => waiter[v].client \in DOMAIN peers \/ waiter[v].id \in missed'
  BY DEF Recounts, WaiterRecounts, KeepAll
<1> HIDE DEF left
<1>3. waiter'[v].id = waiter[v].id /\ waiter'[v].client = waiter[v].client /\ waiter'[v].count = left
  BY <1>0, <1>1, <1>2, CountDoes
<1>4. left = 0 => waiter[v].client \notin DOMAIN peers'
  <2> SUFFICES ASSUME left = 0 PROVE waiter[v].client \notin DOMAIN peers'
    OBVIOUS
  <2>1. RemovePeers({waiter[v].client})
    BY <1>2
  <2> QED  BY <2>1, RemovePeersDoes
<1>5. UNCHANGED subs /\ queue' = Tail(queue) \o <<>>
  BY <1>2 DEF Handled, Drop
<1>6. Of(v, subs) # {} => waiter[v].client \in DOMAIN peers' \/ waiter[v].id \in missed'
  BY <1>1, <1>2 DEF router
<1> QED  BY <1>1, <1>3, <1>4, <1>5, <1>6

LEMMA CountedStep ==
  ASSUME TInv, CountedHasClient, [ANext]_avars
  PROVE  CountedHasClient'
<1> SUFFICES ASSUME NEW v \in DOMAIN waiter', waiter'[v].count > 0, waiter'[v].id \notin missed'
             PROVE  waiter'[v].client \in DOMAIN peers'
  BY DEF CountedHasClient
<1>1. v \in DOMAIN waiter
  BY NewListener
<1>2. CASE Kept(v)
  BY <1>1, <1>2 DEF Kept, Same, CountedHasClient
<1>3. CASE Lost(v)
  BY <1>3 DEF Lost, Same
<1>4. CASE queue # <<>> /\ Answers(v)
  BY <1>1, <1>4, AnswersDo DEF CountedHasClient
<1>5. CASE queue # <<>> /\ Recounts(v)
  BY <1>1, <1>5, RecountsDo
<1> QED  BY <1>1, <1>2, <1>3, <1>4, <1>5, ListenerSteps DEF ListenerStep

LEMMA SubscribedIs ==
  ASSUME TInv, TInv', NEW v \in OwnPort
  PROVE  /\ Subscribed(v, Port) <=> Of(v, subs) # {}
         /\ Subscribed(v, Port)' <=> Of(v, subs') # {}
<1>1. subs \in SUBSET Link /\ subs' \in SUBSET Link
  BY DEF TInv, PInv, SequencerOK
<1>2. Between(v, Port, subs) = Of(v, subs) /\ Between(v, Port, subs') = Of(v, subs')
  BY <1>1, BetweenPorts
<1> QED  BY <1>2 DEF Subscribed

LEMMA UsedStep ==
  ASSUME TInv, TInv', CountedHasClient, UsedWillConnect, [ANext]_avars
  PROVE  UsedWillConnect'
<1> SUFFICES ASSUME NEW v \in DOMAIN waiter' \ renumbered', Of(v, subs') # {},
                    waiter'[v].id \notin missed' \cup refused'
             PROVE  waiter'[v].client \in DOMAIN peers' \/ Has(queue', "subscribed", v, Port)
  BY DEF UsedWillConnect
<1>1. v \in DOMAIN waiter
  BY NewListener
<1>2. v \notin renumbered /\ v \in OwnPort /\ v # Multi /\ refused \subseteq refused'
  BY <1>1, HistoryGrows DEF TInv, NumbersOK
<1>3. CASE Kept(v) /\ Steady(v, Port)
  <2>1. /\ waiter'[v].id = waiter[v].id /\ waiter'[v].client = waiter[v].client
        /\ waiter[v].client \in DOMAIN peers' <=> waiter[v].client \in DOMAIN peers
        /\ waiter[v].id \notin missed \cup refused
    BY <1>2, <1>3 DEF Kept, Same
  <2>2. CASE Of(v, subs) # {}
    <3>1. waiter[v].client \in DOMAIN peers \/ Has(queue, "subscribed", v, Port)
      BY <1>1, <1>2, <2>1, <2>2 DEF UsedWillConnect
    <3> QED  BY <1>3, <2>1, <3>1 DEF Steady, Kinds
  <2>3. CASE Of(v, subs) = {}
    BY <1>2, <1>3, <2>3, SubscribedIs DEF Steady
  <2> QED  BY <2>2, <2>3
<1>4. CASE Kept(v) /\ waiter[v].id \in refused'
  BY <1>4 DEF Kept, Same
<1>5. CASE Lost(v)
  BY <1>5 DEF Lost, Same
<1>6. CASE queue # <<>> /\ Answers(v)
  BY <1>1, <1>6, AnswersDo DEF CountedHasClient
<1>7. CASE queue # <<>> /\ Recounts(v)
  BY <1>1, <1>7, RecountsDo
<1> QED  BY <1>1, <1>3, <1>4, <1>5, <1>6, <1>7, ListenerSteps DEF ListenerStep

\* The queue after the event of v at its head.
LEMMA ToldDoes ==
  ASSUME QueueOK, queue # <<>>, queue' = Tail(queue) \o <<>>, NEW v, Ended(queue, v, Port)
  PROVE  /\ Ended(queue', v, Port)
         /\ Says(queue, 1, "subscribed", v, Port) => Has(queue', "unsubscribed", v, Port)
<1>1. queue \in Seq(Event) /\ <<>> \in Seq(Event) /\ ~Has(<<>>, "subscribed", v, Port)
  BY NothingSaid DEF QueueOK, Kinds
<1> QED  BY <1>1, DropDoes

LEMMA UnusedStep ==
  ASSUME TInv, TInv', FreeIsQuiet, UnusedWillDisconnect, [ANext]_avars
  PROVE  UnusedWillDisconnect'
<1> SUFFICES ASSUME NEW v \in DOMAIN waiter' \ renumbered', Of(v, subs') = {},
                    waiter'[v].id \notin refused'
             PROVE  /\ Ended(queue', v, Port)
                    /\ waiter'[v].client \in DOMAIN peers' => Has(queue', "unsubscribed", v, Port)
  BY DEF UnusedWillDisconnect
<1>1. v \notin renumbered /\ v \in OwnPort /\ v # Multi /\ refused \subseteq refused'
  BY HistoryGrows DEF TInv, NumbersOK
<1>2. CASE v \notin DOMAIN waiter
  <2>1. /\ v \in OwnPort \ ({Multi} \cup DOMAIN waiter \cup renumbered) /\ UNCHANGED queue
        /\ waiter'[v].client \notin DOMAIN peers'
    BY <1>1, <1>2, NewListener
  <2>2. ~Has(queue, "subscribed", v, Port)
    BY <2>1 DEF FreeIsQuiet
  <2> QED  BY <2>1, <2>2 DEF Ended, Has
<1>3. ASSUME v \in DOMAIN waiter, Same(v), waiter[v].client \in DOMAIN peers' => waiter[v].client \in DOMAIN peers,
             Steady(v, Port)
      PROVE  /\ Ended(queue', v, Port)
             /\ waiter'[v].client \in DOMAIN peers' => Has(queue', "unsubscribed", v, Port)
  <2>1. waiter'[v].id = waiter[v].id /\ waiter'[v].client = waiter[v].client /\ waiter[v].id \notin refused
    BY <1>1, <1>3 DEF Same
  <2>2. CASE Of(v, subs) = {}
    <3>1. /\ Ended(queue, v, Port)
          /\ waiter[v].client \in DOMAIN peers => Has(queue, "unsubscribed", v, Port)
      BY <1>1, <1>3, <2>1, <2>2 DEF UnusedWillDisconnect
    <3>2. ~Subscribed(v, Port) /\ ~Subscribed(v, Port)'
      BY <1>1, <2>2, SubscribedIs
    <3> QED  BY <1>3, <2>1, <3>1, <3>2 DEF Steady, Kinds
  <2>3. CASE Of(v, subs) # {}
    BY <1>1, <1>3, <2>3, SubscribedIs DEF Steady
  <2> QED  BY <2>2, <2>3
<1>4. ASSUME v \in DOMAIN waiter, queue # <<>>, UNCHANGED subs, queue' = Tail(queue) \o <<>>, waiter[v].id \notin refused
      PROVE  /\ Ended(queue', v, Port)
             /\ Says(queue, 1, "subscribed", v, Port) => Has(queue', "unsubscribed", v, Port)
  <2>1. Ended(queue, v, Port)
    BY <1>1, <1>4 DEF UnusedWillDisconnect
  <2> QED  BY <1>4, <2>1, ToldDoes DEF TInv
<1>5. CASE v \in DOMAIN waiter /\ queue # <<>> /\ Answers(v)
  <2>1. UNCHANGED subs /\ queue' = Tail(queue) \o <<>> /\ waiter[v].id \notin refused
    BY <1>1, <1>5, AnswersDo
  <2> QED  BY <1>4, <1>5, <2>1 DEF Answers
<1>6. CASE v \in DOMAIN waiter /\ queue # <<>> /\ Recounts(v)
  <2>1. /\ UNCHANGED subs /\ queue' = Tail(queue) \o <<>> /\ waiter[v].id \notin refused
        /\ waiter'[v].client \notin DOMAIN peers'
    BY <1>1, <1>6, RecountsDo
  <2> QED  BY <1>4, <1>6, <2>1
<1>7. CASE v \in DOMAIN waiter /\ Kept(v) /\ waiter[v].id \in refused'
  BY <1>7 DEF Kept, Same
<1>8. v \in DOMAIN waiter => ListenerStep(v)
  BY ListenerSteps
<1> QED  BY <1>2, <1>3, <1>5, <1>6, <1>7, <1>8 DEF ListenerStep, Kept, Lost

\* A number that is free: given up by a listener, or free before.
LEMMA FreeStep ==
  ASSUME TInv, TInv', FreeIsQuiet, [ANext]_avars
  PROVE  FreeIsQuiet'
<1> SUFFICES ASSUME NEW v \in OwnPort \ ({Multi} \cup DOMAIN waiter' \cup renumbered')
             PROVE  ~Has(queue', "subscribed", v, Port)
  BY DEF FreeIsQuiet
<1>0. /\ v \notin renumbered /\ v \in OwnPort /\ v # Multi /\ QueueOK /\ SequencerOK
      /\ "subscribed" \in Kinds /\ "unsubscribed" \in Kinds /\ "unsubscribed" # "subscribed"
  BY HistoryGrows DEF TInv, PInv, Kinds
<1>1. ASSUME v \notin DOMAIN waiter PROVE ~Has(queue, "subscribed", v, Port)
  BY <1>0, <1>1 DEF FreeIsQuiet
<1>2. CASE UNCHANGED <<queue, waiter>>
  BY <1>1, <1>2
<1>3. ASSUME NEW e \in Seq(Event), ~Has(e, "subscribed", v, Port), v \notin DOMAIN waiter,
             queue' = queue \o e \/ (queue # <<>> /\ queue' = Tail(queue) \o e)
      PROVE  ~Has(queue', "subscribed", v, Port)
  <2>1. queue \in Seq(Event) /\ ~Has(queue, "subscribed", v, Port)
    BY <1>0, <1>1, <1>3 DEF QueueOK
  <2>2. ~Has(queue \o e, "subscribed", v, Port)
    BY <1>0, <1>3, <2>1, AppendDoes
  <2>3. queue # <<>> => ~Has(Tail(queue) \o e, "subscribed", v, Port)
    BY <1>0, <1>3, <2>1, DropDoes
  <2> QED  BY <1>3, <2>2, <2>3
<1>4. ASSUME NEW kind \in Kinds, NEW links \in SUBSET Link, NEW n \in 0..2,
             \A l \in links : v \notin Range(l) \/ kind = "unsubscribed"
      PROVE  Events(kind, links, n) \in Seq(Event) /\ ~Has(Events(kind, links, n), "subscribed", v, Port)
  <2> DEFINE e == Events(kind, links, n)
  <2>1. /\ e \in Seq(Event)
        /\ Has(e, "subscribed", v, Port) =>
              kind = "subscribed" /\ \E l \in links, i \in {1, 2} : v = l[i]
    BY EventsSay
  <2>2. \A l \in links : Range(l) = {l[1], l[2]}
    BY LinkRange
  <2> HIDE DEF e
  <2>3. ~Has(e, "subscribed", v, Port)
    BY <1>0, <1>4, <2>1, <2>2
  <2> QED  BY <2>1, <2>3 DEF e
<1>5. CASE ReadReady /\ queue # <<>>
  <2>1. PICK ev \in Event : WaiterHandles(ev) \/ MultiHandles(ev) \/ HwHandles(ev)
    BY <1>0, <1>5 DEF ReadReady, QueueOK
  <2>2. v \notin DOMAIN waiter
    BY <2>1, HandlersKeepPorts
  <2>3. CASE Drop(<<>>)
    BY <1>3, <1>5, <2>2, <2>3, NoEvents, NothingSaid, <1>0 DEF Drop
  <2>4. ASSUME NEW w \in DOMAIN waiter, WaiterRefuses(w) PROVE ~Has(queue', "subscribed", v, Port)
    <3>1. PICK gone \in Halves(w) : Drop(Events("unsubscribed", gone, Told))
      BY <2>4 DEF WaiterRefuses
    <3>2. gone \in SUBSET Link /\ Told \in 0..2
      BY <1>0, HalvesAreSubs, Times
    <3> QED  BY <1>0, <1>3, <1>4, <1>5, <2>2, <3>1, <3>2 DEF Drop
  <2>5. ASSUME ev.port \in Exported, Drop(Events("subscribed", Both(ev.port) \ subs, Told))
        PROVE  ~Has(queue', "subscribed", v, Port)
    <3>1. ev.port \in Ext
      BY <2>5, PortsAssumption
    <3>2. Both(ev.port) \ subs \in SUBSET Link /\ Told \in 0..2
      BY <3>1, BothAreLinks, Times
    <3>3. \A l \in Both(ev.port) : Range(l) = {ev.port, Multi}
      <4>1. Range(<<ev.port, Multi>>) = {ev.port, Multi} /\ Range(<<Multi, ev.port>>) = {Multi, ev.port}
        BY PairRange
      <4> QED  BY <4>1 DEF Both
    <3>4. v # ev.port
      BY <1>0, <3>1, OwnIsNotExt
    <3> DEFINE links == Both(ev.port) \ subs
    <3>5. \A l \in links : v \notin Range(l)
      BY <1>0, <3>3, <3>4
    <3>6. links \in SUBSET Link
      BY <3>2
    <3>7. queue' = Tail(queue) \o Events("subscribed", links, Told)
      BY <2>5 DEF Drop
    <3> HIDE DEF links
    <3>8. /\ Events("subscribed", links, Told) \in Seq(Event)
          /\ ~Has(Events("subscribed", links, Told), "subscribed", v, Port)
      BY <1>0, <1>4, <3>2, <3>5, <3>6
    <3> QED  BY <1>3, <1>5, <2>2, <3>7, <3>8
  <2>6. \/ Drop(<<>>) \/ (\E w \in DOMAIN waiter : WaiterRefuses(w))
        \/ (ev.port \in Exported /\ Drop(Events("subscribed", Both(ev.port) \ subs, Told)))
    BY <2>1 DEF WaiterHandles, WaiterCounts, WaiterConnects, WaiterRecounts, MultiHandles, Handled,
                HwHandles, Export, Unexport
  <2> QED  BY <2>3, <2>4, <2>5, <2>6
<1>6. CASE Others
  <2>1. v \notin DOMAIN waiter
    BY <1>6 DEF Others, Subscribe, Unsubscribe, Plug, Unplug, Elsewhere
  <2>2. v \notin Standing
    BY <1>0, <2>1, OwnIsNotExt DEF Standing, SequencerOK
  <2>3. ASSUME NEW l \in Link, Subscribe(l) PROVE ~Has(queue', "subscribed", v, Port)
    <3>1. v \notin Range(l) /\ queue' = queue \o Events("subscribed", {l}, Heard)
      BY <2>2, <2>3 DEF Subscribe, Send, Standing
    <3>2. {l} \in SUBSET Link /\ Heard \in 0..2
      BY Times
    <3> QED  BY <1>0, <1>3, <1>4, <2>1, <3>1, <3>2
  <2>4. ASSUME NEW l \in Link, Unsubscribe(l) PROVE ~Has(queue', "subscribed", v, Port)
    <3>1. queue' = queue \o Events("unsubscribed", {l}, Heard)
      BY <2>4 DEF Unsubscribe, Send
    <3>2. {l} \in SUBSET Link /\ Heard \in 0..2
      BY Times
    <3> QED  BY <1>0, <1>3, <1>4, <2>1, <3>1, <3>2
  <2>5. ASSUME NEW p \in Ext, Plug(p) PROVE ~Has(queue', "subscribed", v, Port)
    <3> DEFINE x == IF announcing THEN <<[kind |-> "start", port |-> p]>> ELSE <<>>
    <3>1. queue' = queue \o x
      BY <2>5 DEF Plug, Send
    <3>2. x \in Seq(Event) /\ ~Has(x, "subscribed", v, Port)
      <4>1. x \in Seq(Event)
        BY AnnouncementIsEvent, NoEvents
      <4>2. ~Has(x, "subscribed", v, Port)
        BY DEF Has, Says
      <4> QED  BY <4>1, <4>2
    <3> HIDE DEF x
    <3> QED  BY <1>3, <2>1, <3>1, <3>2
  <2>6. ASSUME NEW p \in Ext, Unplug(p) PROVE ~Has(queue', "subscribed", v, Port)
    <3> DEFINE x == IF announcing THEN <<[kind |-> "exit", port |-> p]>> ELSE <<>>
               b == Bereaved(p)
    <3>1. queue' = queue \o (b \o x)
      BY <2>6 DEF Unplug, Send
    <3>2. x \in Seq(Event) /\ ~Has(x, "subscribed", v, Port)
      <4>1. x \in Seq(Event)
        BY AnnouncementIsEvent, NoEvents
      <4>2. ~Has(x, "subscribed", v, Port)
        BY DEF Has, Says
      <4> QED  BY <4>1, <4>2
    <3>3. b \in Seq(Event) /\ ~Has(b, "subscribed", v, Port)
      BY <1>0, BereavedSays
    <3> HIDE DEF x, b
    <3>4. b \o x \in Seq(Event) /\ ~Has(b \o x, "subscribed", v, Port)
      BY <1>0, <3>2, <3>3, AppendDoes, ConcatProperties
    <3> QED  BY <1>3, <2>1, <3>1, <3>4
  <2> QED  BY <1>6, <2>3, <2>4, <2>5, <2>6 DEF Others
<1>7. ASSUME NEW w \in DOMAIN waiter, RemoveWaiter(w) PROVE ~Has(queue', "subscribed", v, Port)
  <2>1. /\ queue' = queue \o Bereaved(w) /\ DOMAIN waiter' = DOMAIN waiter \ {w}
        /\ renumbered' = IF Pending(w) = {} THEN renumbered ELSE renumbered \cup {w}
    BY <1>7 DEF RemoveWaiter, RemovePort, Send, Without, Restrict
  <2>2. ~Has(queue, "subscribed", v, Port)
    <3>1. CASE v = w
      <4>1. Pending(v) = {}
        BY <1>0, <2>1, <3>1
      <4> QED  BY <4>1 DEF Has, Says, Pending
    <3>2. CASE v # w
      BY <1>1, <2>1, <3>2
    <3> QED  BY <3>1, <3>2
  <2>3. Bereaved(w) \in Seq(Event) /\ ~Has(Bereaved(w), "subscribed", v, Port)
    BY <1>0, BereavedSays
  <2> QED  BY <1>0, <2>1, <2>2, <2>3, AppendDoes DEF QueueOK
<1>8. CASE User /\ ~\E w \in DOMAIN waiter : RemoveWaiter(w)
  <2>1. UNCHANGED queue /\ DOMAIN waiter \subseteq DOMAIN waiter'
    BY <1>8 DEF User, CreateWaiter, AddEndpoint, RemoveEndpoint, RemovePeer, alsa, Put
  <2> QED  BY <1>1, <2>1
<1>9. CASE ReadReady /\ queue = <<>>
  BY <1>2, <1>9 DEF ReadReady
<1>10. CASE UNCHANGED avars
  BY <1>2, <1>10 DEF avars, alsa
<1> QED  BY <1>5, <1>6, <1>7, <1>8, <1>9, <1>10 DEF ANext

-----------------------------------------------------------------------------
(* The multi listener, and the ports of other programs. *)

LEMMA PeersGrow ==
  ASSUME TInv, [ANext]_avars
  PROVE  DOMAIN peers' \subseteq DOMAIN peers \cup {nextId}
<1>1. ASSUME NEW S, RemovePeers(S) PROVE DOMAIN peers' \subseteq DOMAIN peers
  BY <1>1, RemovePeersDoes
<1>2. ASSUME NEW ev, WaiterHandles(ev) PROVE DOMAIN peers' \subseteq DOMAIN peers \cup {nextId}
  <2>1. \/ UNCHANGED peers \/ peers' = Put(peers, nextId, [kind |-> "client"])
        \/ \E S : RemovePeers(S)
    BY <1>2 DEF WaiterHandles, WaiterCounts, WaiterConnects, WaiterRefuses, WaiterRecounts, KeepAll, router
  <2> QED  BY <1>1, <2>1 DEF Put
<1>3. ASSUME NEW ev, MultiHandles(ev) PROVE DOMAIN peers' \subseteq DOMAIN peers \cup {nextId}
  <2>1. ASSUME NEW p, MultiSubscribed(p) PROVE DOMAIN peers' \subseteq DOMAIN peers \cup {nextId}
    BY <2>1 DEF MultiSubscribed, Put
  <2>2. ASSUME NEW p, MultiUnsubscribed(p) PROVE DOMAIN peers' \subseteq DOMAIN peers
    <3>1. DOMAIN peers' = DOMAIN peers \/ \E S : RemovePeers(S)
      BY <2>2 DEF MultiUnsubscribed, Release, KeepAll, router
    <3> QED  BY <1>1, <3>1
  <2> QED  BY <1>3, <2>1, <2>2 DEF MultiHandles
<1>4. CASE ReadReady
  BY <1>2, <1>3, <1>4 DEF ReadReady, HwHandles, router
<1>5. CASE Others
  BY <1>5 DEF Others, Subscribe, Unsubscribe, Plug, Unplug, Elsewhere, router
<1>6. CASE User
  BY <1>1, <1>6 DEF User, CreateWaiter, AddEndpoint, RemoveEndpoint, RemoveWaiter, RemovePeer, router, Put
<1>7. CASE UNCHANGED avars
  BY <1>7 DEF avars, router
<1> QED  BY <1>4, <1>5, <1>6, <1>7 DEF ANext

\* The event at the head is the multi listener's, about port p.
MultiTold(p) == queue # <<>> /\ MultiHandles(Head(queue)) /\ Head(queue).other = p

\* An entry is of the multi listener's making: nothing else revives one.
LEMMA EntryKept ==
  ASSUME TInv, [ANext]_avars, NEW p, ~(ReadReady /\ MultiTold(p)), p \in DOMAIN entries'
  PROVE  /\ p \in DOMAIN entries /\ entries'[p] = entries[p]
         /\ entries[p] \in DOMAIN peers' => entries[p] \in DOMAIN peers
<1>1. p \in DOMAIN entries /\ entries'[p] = entries[p]
  <2>1. CASE UNCHANGED entries
    BY <2>1
  <2>2. ASSUME NEW ev, MultiHandles(ev), ev.other # p
        PROVE  p \in DOMAIN entries /\ entries'[p] = entries[p]
    <3>1. \/ \E i : entries' = Put(entries, ev.other, i)
          \/ entries' = Without(entries, {ev.other})
          \/ UNCHANGED entries
      BY <2>2 DEF MultiHandles, MultiSubscribed, MultiUnsubscribed
    <3> QED  BY <2>2, <3>1 DEF Put, Without, Restrict
  <2>3. UNCHANGED entries \/ (ReadReady /\ queue # <<>> /\ MultiHandles(Head(queue)))
    <3>1. CASE ReadReady
      BY <3>1 DEF ReadReady, WaiterHandles, HwHandles
    <3>2. CASE Others \/ User
      BY <3>2 DEF Others, Subscribe, Unsubscribe, Plug, Unplug, Elsewhere, User, CreateWaiter,
                  AddEndpoint, RemoveEndpoint, RemoveWaiter, RemovePeer
    <3>3. CASE UNCHANGED avars
      BY <3>3 DEF avars
    <3> QED  BY <3>1, <3>2, <3>3 DEF ANext
  <2> QED  BY <2>1, <2>2, <2>3 DEF MultiTold
<1>2. entries[p] \in Nat /\ entries[p] < nextId /\ nextId \in Nat
  BY <1>1 DEF TInv, PInv, PeersOK, WiredInv, IdsGiven
<1>3. entries[p] # nextId
  BY <1>2
<1> QED  BY <1>1, <1>3, PeersGrow

LEMMA JoinedIs ==
  ASSUME TInv, TInv', NEW p \in Ext
  PROVE  /\ Subscribed(Multi, {p}) <=> Joined(p) # {}
         /\ Subscribed(Multi, {p})' <=> Joined(p)' # {}
<1>1. subs \in SUBSET Link /\ subs' \in SUBSET Link
  BY DEF TInv, PInv, SequencerOK
<1>2. p # Multi
  BY OwnIsNotExt, PortsAssumption
<1>3. ASSUME NEW l \in Link
      PROVE  (\E i \in {1, 2} : l[i] = Multi /\ l[3 - i] \in {p}) <=> (p \in Range(l) /\ Multi \in Range(l))
  BY <1>2, LinkRange
<1>4. \A links \in SUBSET Link : Between(Multi, {p}, links) = Of(p, links) \cap Of(Multi, links)
  BY <1>3 DEF Between, Of
<1> QED  BY <1>1, <1>4 DEF Subscribed, Joined

\* What the multi listener does not hear of the port p.
LEMMA MultiSteady ==
  ASSUME TInv, [ANext]_avars, NEW p \in Ext, ~(ReadReady /\ MultiTold(p))
  PROVE  Steady(Multi, {p})
<1>0. Multi \in OwnPort /\ QueueOK /\ SequencerOK /\ p # Multi
  BY OwnIsNotExt, PortsAssumption DEF TInv, PInv
<1>1. CASE Others \/ User \/ UNCHANGED avars
  BY <1>0, <1>1, OthersSteady
<1>2. CASE ReadReady /\ queue = <<>>
  BY <1>2, SteadyUnchanged DEF ReadReady
<1>3. ASSUME queue # <<>>, NEW ev, ev = Head(queue), ReadReady, WaiterHandles(ev) \/ MultiHandles(ev) \/ HwHandles(ev)
      PROVE  Steady(Multi, {p})
  <2>0. ev \in Event /\ ev = queue[1]
    BY <1>0, <1>3 DEF QueueOK
  <2>1. \A k \in Kinds : ~Says(queue, 1, k, Multi, {p})
    <3>1. ASSUME WaiterHandles(ev) PROVE ev.me # Multi
      BY <3>1 DEF WaiterHandles
    <3>2. ASSUME HwHandles(ev) PROVE ev.kind \notin Kinds
      BY <3>2 DEF HwHandles, Kinds
    <3>3. ASSUME MultiHandles(ev) PROVE ev.other # p
      BY <1>3, <3>3 DEF MultiTold
    <3> QED  BY <1>3, <2>0, <3>1, <3>2, <3>3 DEF Says
  <2>2. Between(Multi, {p}, subs \ subs') = {}
    <3>1. CASE subs \subseteq subs'
      BY <3>1 DEF Between
    <3>2. ASSUME NEW w \in DOMAIN waiter, WaiterRefuses(w) PROVE Between(Multi, {p}, subs \ subs') = {}
      <4>1. PICK gone \in Halves(w) : subs' = subs \ gone
        BY <3>2 DEF WaiterRefuses
      <4>2. gone \in SUBSET Link /\ gone \subseteq Of(w, subs)
        BY <1>0, HalvesAreSubs
      <4>3. w # Multi /\ w # p
        BY OwnIsNotExt DEF TInv, NumbersOK
      <4>4. \A l \in gone : Range(l) = {l[1], l[2]} /\ w \in Range(l)
        BY <4>2, LinkRange DEF Of
      <4>5. \A l \in gone : ~\E i \in {1, 2} : l[i] = Multi /\ l[3 - i] \in {p}
        BY <4>3, <4>4
      <4> QED  BY <4>1, <4>5 DEF Between
    <3>3. ASSUME HwHandles(ev) \/ MultiHandles(ev) PROVE subs \subseteq subs'
      BY <3>3 DEF HwHandles, Export, Unexport, MultiHandles, Handled
    <3>4. ASSUME WaiterHandles(ev) PROVE UNCHANGED subs \/ \E w \in DOMAIN waiter : WaiterRefuses(w)
      BY <3>4 DEF WaiterHandles, WaiterCounts, WaiterConnects, WaiterRecounts, Handled
    <3> QED  BY <1>3, <3>1, <3>2, <3>3, <3>4
  <2> QED  BY <1>0, <1>3, <2>1, <2>2, HandlersSteady
<1> QED  BY <1>1, <1>2, <1>3 DEF ANext, ReadReady

LEMMA LeftStep ==
  ASSUME TInv, TInv', LeftWillBeForgotten, [ANext]_avars
  PROVE  LeftWillBeForgotten'
<1> SUFFICES ASSUME NEW p \in Ext, Joined(p)' = {}
             PROVE  /\ Ended(queue', Multi, {p})
                    /\ p \in DOMAIN entries' /\ entries'[p] \in DOMAIN peers'
                          => Has(queue', "unsubscribed", Multi, {p})
  BY DEF LeftWillBeForgotten
<1>0. "unsubscribed" \in Kinds /\ "subscribed" \in Kinds
  BY DEF Kinds
<1>1. CASE ReadReady /\ MultiTold(p)
  <2>1. /\ queue # <<>> /\ queue \in Seq(Event) /\ queue' = Tail(queue) \o <<>> /\ UNCHANGED subs
        /\ Head(queue) = queue[1] /\ queue[1].me = Multi /\ queue[1].other = p
        /\ \/ queue[1].kind = "subscribed" /\ MultiSubscribed(p)
           \/ queue[1].kind = "unsubscribed" /\ MultiUnsubscribed(p)
    BY <1>1 DEF MultiTold, MultiHandles, Handled, Drop, TInv, QueueOK
  <2>2. Joined(p) = {}
    BY <2>1 DEF Joined
  <2>3. Ended(queue, Multi, {p})
    BY <2>2 DEF LeftWillBeForgotten
  <2>4. /\ Ended(queue', Multi, {p})
        /\ Says(queue, 1, "subscribed", Multi, {p}) => Has(queue', "unsubscribed", Multi, {p})
    <3>1. <<>> \in Seq(Event) /\ ~Has(<<>>, "subscribed", Multi, {p}) /\ queue # <<>>
      BY <1>0, <2>1, NoEvents, NothingSaid
    <3>2. /\ Ended(Tail(queue) \o <<>>, Multi, {p})
          /\ Says(queue, 1, "subscribed", Multi, {p}) => Has(Tail(queue) \o <<>>, "unsubscribed", Multi, {p})
      BY <2>1, <2>3, <3>1, DropDoes
    <3>3. queue' = Tail(queue) \o <<>>
      BY <2>1
    <3> QED  BY <3>2, <3>3
  <2>5. CASE queue[1].kind = "subscribed"
    BY <2>1, <2>4, <2>5 DEF Says
  <2>6. ASSUME MultiUnsubscribed(p) PROVE ~(p \in DOMAIN entries' /\ entries'[p] \in DOMAIN peers')
    BY <2>6 DEF MultiUnsubscribed, Without, Restrict, KeepAll, router
  <2> QED  BY <2>1, <2>4, <2>5, <2>6
<1>2. CASE ~(ReadReady /\ MultiTold(p))
  <2>1. Steady(Multi, {p})
    BY <1>2, MultiSteady
  <2>2. ~Subscribed(Multi, {p})'
    BY JoinedIs
  <2>3. CASE Joined(p) = {}
    <3>1. /\ Ended(queue, Multi, {p}) /\ ~Subscribed(Multi, {p})
          /\ p \in DOMAIN entries /\ entries[p] \in DOMAIN peers => Has(queue, "unsubscribed", Multi, {p})
      BY <2>3, JoinedIs DEF LeftWillBeForgotten
    <3>2. Ended(queue', Multi, {p})
      BY <2>1, <2>2, <3>1 DEF Steady
    <3>3. Has(queue, "unsubscribed", Multi, {p}) => Has(queue', "unsubscribed", Multi, {p})
      BY <1>0, <2>1 DEF Steady
    <3>4. p \in DOMAIN entries' /\ entries'[p] \in DOMAIN peers' => p \in DOMAIN entries /\ entries[p] \in DOMAIN peers
      BY <1>2, EntryKept
    <3> QED  BY <3>1, <3>2, <3>3, <3>4
  <2>4. CASE Joined(p) # {}
    <3>1. Subscribed(Multi, {p})
      BY <2>4, JoinedIs
    <3> QED  BY <2>1, <2>2, <3>1 DEF Steady
  <2> QED  BY <2>3, <2>4
<1> QED  BY <1>1, <1>2

-----------------------------------------------------------------------------
(* HwAutoAnnounce. *)

LEMMA RangeTail ==
  ASSUME NEW q \in Seq(Event), q # <<>>
  PROVE  /\ Tail(q) \in Seq(Event)
         /\ \A x : x \in Range(q) <=> (x = q[1] \/ x \in Range(Tail(q)))
<1> DEFINE t == Tail(q)
<1>1. /\ t \in Seq(Event) /\ Len(t) = Len(q) - 1 /\ \A i \in 1..Len(t) : t[i] = q[i + 1]
      /\ Len(q) \in Nat /\ Len(q) > 0 /\ DOMAIN q = 1..Len(q) /\ DOMAIN t = 1..Len(q) - 1
  BY HeadTailProperties
<1> HIDE DEF t
<1>2. \A i \in DOMAIN q : i = 1 \/ (i - 1 \in DOMAIN t /\ t[i - 1] = q[i])
  <2> SUFFICES ASSUME NEW i \in DOMAIN q, i # 1 PROVE i - 1 \in DOMAIN t /\ t[i - 1] = q[i]
    OBVIOUS
  <2>1. i - 1 \in 1..Len(t) /\ (i - 1) + 1 = i
    BY <1>1
  <2> QED  BY <1>1, <2>1
<1>3. 1 \in DOMAIN q /\ \A i \in DOMAIN t : i + 1 \in DOMAIN q /\ t[i] = q[i + 1]
  BY <1>1
<1>4. \A x : x \in Range(q) <=> (x = q[1] \/ x \in Range(t))
  BY <1>2, <1>3 DEF Range
<1> QED  BY <1>1, <1>4 DEF t

\* What a step leaves in the queue, and what it sends.
Queued(e) == \/ queue' = queue \o e /\ Range(queue') = Range(queue) \cup Range(e)
             \/ /\ queue # <<>> /\ ReadReady /\ Range(queue') = Range(Tail(queue)) \cup Range(e)
                /\ \A x : x \in Range(queue) <=> (x = queue[1] \/ x \in Range(Tail(queue)))

LEMMA QueuedIs ==
  ASSUME QueueOK, NEW e \in Seq(Event), Send(e) \/ (ReadReady /\ queue # <<>> /\ Drop(e))
  PROVE  Queued(e)
<1>1. Send(e) => Queued(e)
  BY RangeConcatenation DEF Send, Queued, QueueOK
<1>2. ASSUME ReadReady, queue # <<>>, Drop(e) PROVE Queued(e)
  <2>1. Tail(queue) \in Seq(Event) /\ \A x : x \in Range(queue) <=> (x = queue[1] \/ x \in Range(Tail(queue)))
    BY <1>2, RangeTail DEF QueueOK
  <2>2. Range(queue') = Range(Tail(queue)) \cup Range(e)
    <3>1. queue' = Tail(queue) \o e
      BY <1>2 DEF Drop
    <3>2. Range(Tail(queue) \o e) = Range(Tail(queue)) \cup Range(e)
      BY <2>1, RangeConcatenation
    <3> QED  BY <3>1, <3>2
  <2> QED  BY <1>2, <2>1, <2>2 DEF Queued
<1> QED  BY <1>1, <1>2

\* Announcements are sent by ports that come and go, to a port that announces.
Starts(q) == \E x \in Range(q) : x.kind = "start"
Exits(q, p) == \E x \in Range(q) : x.kind = "exit" /\ x.port = p

LEMMA QueueSteps ==
  ASSUME TInv, [ANext]_avars
  PROVE  \E e \in Seq(Event) :
            /\ Queued(e) /\ UNCHANGED announcing
            /\ ~announcing => ~Starts(e)
            /\ announcing => \A p \in present \ present' : Exits(e, p)
<1>0. /\ QueueOK /\ SequencerOK /\ "subscribed" \in Kinds /\ "unsubscribed" \in Kinds
      /\ \A k \in Kinds : k # "start"
  BY DEF TInv, PInv, Kinds
<1> DEFINE OK(e) == /\ Queued(e) /\ UNCHANGED announcing /\ (~announcing => ~Starts(e))
                    /\ announcing => \A p \in present \ present' : Exits(e, p)
<1> SUFFICES \E x \in Seq(Event) : OK(x)
  OBVIOUS
<1>1. ASSUME NEW e \in Seq(Event), \A i \in DOMAIN e : e[i].kind \in Kinds
      PROVE  ~Starts(e)
  BY <1>0, <1>1 DEF Starts, Range
<1>2. ~Starts(<<>>) /\ <<>> \in Seq(Event)
  BY NoEvents DEF Starts, Range
<1>3. CASE UNCHANGED <<announcing, present, queue>>
  <2>1. queue \o <<>> = queue /\ Range(<<>>) = {}
    BY <1>0, ConcatEmptySeq DEF QueueOK, Range
  <2>2. queue' = queue \o <<>> /\ Range(queue') = Range(queue) \cup Range(<<>>)
    BY <1>3, <2>1
  <2>3. OK(<<>>)
    BY <1>2, <1>3, <2>2 DEF Queued
  <2> QED  BY <1>2, <2>3
<1>4. ASSUME NEW e \in Seq(Event), ~Starts(e), ReadReady, queue # <<>>, Drop(e), UNCHANGED <<announcing, present>>
      PROVE  \E x \in Seq(Event) : OK(x)
  BY <1>0, <1>4, QueuedIs
<1>5. ASSUME NEW kind \in Kinds, NEW links \in SUBSET Link, NEW n \in 0..2
      PROVE  Events(kind, links, n) \in Seq(Event) /\ ~Starts(Events(kind, links, n))
  <2> DEFINE e == Events(kind, links, n)
  <2>1. e \in Seq(Event) /\ \A i \in DOMAIN e : e[i].kind = kind
    BY EventsSay
  <2> HIDE DEF e
  <2>2. ~Starts(e)
    BY <1>1, <2>1
  <2> QED  BY <2>1, <2>2 DEF e
<1>6. CASE ReadReady /\ queue # <<>>
  <2>1. PICK ev \in Event : WaiterHandles(ev) \/ MultiHandles(ev) \/ HwHandles(ev)
    BY <1>0, <1>6 DEF ReadReady, QueueOK
  <2>2. UNCHANGED <<announcing, present>>
    BY <2>1, HandlersKeepPorts
  <2>3. CASE Drop(<<>>)
    BY <1>2, <1>4, <1>6, <2>2, <2>3
  <2>4. ASSUME NEW w \in DOMAIN waiter, WaiterRefuses(w) PROVE \E x \in Seq(Event) : OK(x)
    <3>1. PICK gone \in Halves(w) : Drop(Events("unsubscribed", gone, Told))
      BY <2>4 DEF WaiterRefuses
    <3>2. gone \in SUBSET Link /\ Told \in 0..2
      BY <1>0, HalvesAreSubs, Times
    <3>3. Events("unsubscribed", gone, Told) \in Seq(Event) /\ ~Starts(Events("unsubscribed", gone, Told))
      BY <1>0, <1>5, <3>2
    <3> HIDE DEF OK
    <3> QED  BY <1>4, <1>6, <2>2, <3>1, <3>3
  <2>5. ASSUME ev.port \in Exported, Drop(Events("subscribed", Both(ev.port) \ subs, Told))
        PROVE  \E x \in Seq(Event) : OK(x)
    <3> DEFINE links == Both(ev.port) \ subs
    <3>1. links \in SUBSET Link /\ Told \in 0..2
      BY <2>5, BothAreLinks, Times, PortsAssumption
    <3>2. Drop(Events("subscribed", links, Told))
      BY <2>5
    <3> HIDE DEF links, OK
    <3>3. Events("subscribed", links, Told) \in Seq(Event) /\ ~Starts(Events("subscribed", links, Told))
      BY <1>0, <1>5, <3>1
    <3> QED  BY <1>4, <1>6, <2>2, <3>2, <3>3
  <2>6. \/ Drop(<<>>) \/ (\E w \in DOMAIN waiter : WaiterRefuses(w))
        \/ (ev.port \in Exported /\ Drop(Events("subscribed", Both(ev.port) \ subs, Told)))
    BY <2>1 DEF WaiterHandles, WaiterCounts, WaiterConnects, WaiterRecounts, MultiHandles, Handled,
                HwHandles, Export, Unexport
  <2> HIDE DEF OK
  <2> QED  BY <2>3, <2>4, <2>5, <2>6
<1>7. ASSUME NEW e \in Seq(Event), ~Starts(e), Send(e), UNCHANGED announcing, present \subseteq present'
      PROVE  \E x \in Seq(Event) : OK(x)
  BY <1>0, <1>7, QueuedIs
<1>8. CASE Others
  <2>1. ASSUME NEW l \in Link, NEW kind \in Kinds, Send(Events(kind, {l}, Heard)), UNCHANGED <<announcing, present>>
        PROVE  \E x \in Seq(Event) : OK(x)
    <3>1. {l} \in SUBSET Link /\ Heard \in 0..2
      BY Times
    <3>2. Events(kind, {l}, Heard) \in Seq(Event) /\ ~Starts(Events(kind, {l}, Heard))
      BY <1>5, <3>1
    <3> HIDE DEF OK
    <3> QED  BY <1>7, <2>1, <3>2
  <2>2. ASSUME NEW l \in Link, Subscribe(l) \/ Unsubscribe(l) PROVE \E x \in Seq(Event) : OK(x)
    <3>1. /\ Send(Events("subscribed", {l}, Heard)) \/ Send(Events("unsubscribed", {l}, Heard))
          /\ UNCHANGED <<announcing, present>>
      BY <2>2 DEF Subscribe, Unsubscribe, Elsewhere
    <3> HIDE DEF OK
    <3> QED  BY <1>0, <2>1, <3>1
  <2>3. ASSUME NEW p \in Ext, Plug(p) PROVE \E x \in Seq(Event) : OK(x)
    <3> DEFINE e == IF announcing THEN <<[kind |-> "start", port |-> p]>> ELSE <<>>
    <3>1. Send(e) /\ UNCHANGED announcing /\ present \subseteq present'
      BY <2>3 DEF Plug, Elsewhere
    <3>2. e \in Seq(Event)
      BY AnnouncementIsEvent, NoEvents
    <3>3. ~announcing => ~Starts(e)
      BY <1>2
    <3> HIDE DEF e
    <3>4. Queued(e)
      BY <1>0, <3>1, <3>2, QueuedIs
    <3>5. OK(e)
      BY <3>1, <3>3, <3>4
    <3> QED  BY <3>2, <3>5
  <2>4. ASSUME NEW p \in Ext, Unplug(p) PROVE \E x \in Seq(Event) : OK(x)
    <3> DEFINE x == IF announcing THEN <<[kind |-> "exit", port |-> p]>> ELSE <<>>
               b == Bereaved(p)
    <3>1. Send(b \o x) /\ UNCHANGED announcing /\ present' = present \ {p}
      BY <2>4 DEF Unplug, Elsewhere
    <3>2. b \in Seq(Event) /\ \A i \in DOMAIN b : b[i].kind \in Kinds
      BY <1>0, BereavedSays
    <3>3. x \in Seq(Event)
      BY AnnouncementIsEvent, NoEvents
    <3>4. ~Starts(x) /\ (announcing => Exits(x, p))
      <4>1. CASE announcing
        <5>1. x = <<[kind |-> "exit", port |-> p]>>
          BY <4>1
        <5>2. Range(x) = {[kind |-> "exit", port |-> p]}
          BY <5>1 DEF Range
        <5> QED  BY <5>2 DEF Starts, Exits
      <4>2. CASE ~announcing
        BY <1>2, <4>2
      <4> QED  BY <4>1, <4>2
    <3> HIDE DEF b, x
    <3>5. b \o x \in Seq(Event) /\ Range(b \o x) = Range(b) \cup Range(x)
      BY <3>2, <3>3, ConcatProperties, RangeConcatenation
    <3>6. ~Starts(b \o x) /\ (announcing => Exits(b \o x, p))
      BY <1>1, <3>2, <3>4, <3>5 DEF Starts, Exits
    <3>7. Queued(b \o x)
      BY <1>0, <3>1, <3>5, QueuedIs
    <3>8. OK(b \o x)
      BY <3>1, <3>6, <3>7
    <3> HIDE DEF OK
    <3> QED  BY <3>5, <3>8
  <2> HIDE DEF OK
  <2> QED  BY <1>8, <2>2, <2>3, <2>4 DEF Others
<1>9. ASSUME NEW w \in DOMAIN waiter, RemoveWaiter(w) PROVE \E x \in Seq(Event) : OK(x)
  <2>1. Send(Bereaved(w)) /\ UNCHANGED <<announcing, present>>
    BY <1>9 DEF RemoveWaiter, RemovePort
  <2>2. Bereaved(w) \in Seq(Event) /\ \A i \in DOMAIN Bereaved(w) : Bereaved(w)[i].kind \in Kinds
    BY <1>0, BereavedSays
  <2> HIDE DEF OK
  <2> QED  BY <1>1, <1>7, <2>1, <2>2
<1>10. CASE User /\ ~\E w \in DOMAIN waiter : RemoveWaiter(w)
  BY <1>3, <1>10 DEF User, CreateWaiter, AddEndpoint, RemoveEndpoint, RemovePeer, alsa
<1>11. CASE ReadReady /\ queue = <<>>
  BY <1>3, <1>11 DEF ReadReady
<1>12. CASE UNCHANGED avars
  BY <1>3, <1>12 DEF avars, alsa
<1> HIDE DEF OK
<1> QED  BY <1>6, <1>8, <1>9, <1>10, <1>11, <1>12 DEF ANext

\* What HwAutoAnnounce is told, and what it does.
LEMMA ExportsStep ==
  ASSUME TInv, [ANext]_avars
  PROVE  \/ UNCHANGED exports /\ (queue # <<>> /\ ReadReady => queue[1].kind # "exit")
         \/ /\ queue # <<>> /\ queue[1].kind = "start" /\ UNCHANGED present
            /\ \E p \in present : exports' = exports \cup Both(p)
         \/ /\ queue # <<>> /\ queue[1].kind = "exit" /\ UNCHANGED present
            /\ exports' = exports \ Of(queue[1].port, exports)
<1>1. CASE ReadReady /\ queue # <<>>
  <2> DEFINE ev == queue[1]
  <2>1. WaiterHandles(ev) \/ MultiHandles(ev) \/ HwHandles(ev)
    BY <1>1 DEF ReadReady, TInv, QueueOK
  <2> HIDE DEF ev
  <2>2. UNCHANGED present
    BY <2>1, HandlersKeepPorts
  <2>3. ASSUME WaiterHandles(ev) \/ MultiHandles(ev) PROVE UNCHANGED exports /\ ev.kind # "exit"
    BY <2>3 DEF WaiterHandles, MultiHandles
  <2>4. ASSUME HwHandles(ev)
        PROVE  \/ UNCHANGED exports /\ ev.kind = "start"
               \/ ev.kind = "start" /\ \E p \in present : exports' = exports \cup Both(p)
               \/ ev.kind = "exit" /\ exports' = exports \ Of(ev.port, exports)
    BY <2>4 DEF HwHandles, Export, Unexport
  <2>5. \/ UNCHANGED exports /\ ev.kind # "exit"
        \/ ev.kind = "start" /\ \E p \in present : exports' = exports \cup Both(p)
        \/ ev.kind = "exit" /\ exports' = exports \ Of(ev.port, exports)
    BY <2>1, <2>3, <2>4
  <2> QED  BY <1>1, <2>2, <2>5 DEF ev
<1>2. CASE ReadReady /\ queue = <<>>
  BY <1>2 DEF ReadReady
<1>3. CASE ~ReadReady
  BY <1>3 DEF ANext, Others, Subscribe, Unsubscribe, Plug, Unplug, Elsewhere, User, CreateWaiter,
              AddEndpoint, RemoveEndpoint, RemoveWaiter, RemovePeer, avars
<1> QED  BY <1>1, <1>2, <1>3

LEMMA HeadInRange ==
  ASSUME NEW q \in Seq(Event), q # <<>> PROVE q[1] \in Range(q)
BY RangeTail

LEMMA StartsIs == ASSUME NEW q PROVE (\A i \in DOMAIN q : q[i].kind # "start") <=> ~Starts(q)
BY DEF Starts, Range

LEMMA ExitsIs ==
  ASSUME NEW q, NEW p
  PROVE  (\A i \in DOMAIN q : q[i].kind = "exit" => q[i].port # p) <=> ~Exits(q, p)
BY DEF Exits, Range

LEMMA AnnouncedStep ==
  ASSUME TInv, ExportsAnnounced, [ANext]_avars
  PROVE  ExportsAnnounced'
<1>1. PICK e \in Seq(Event) : /\ Queued(e) /\ UNCHANGED announcing
                              /\ ~announcing => ~Starts(e)
  BY QueueSteps
<1>2. CASE announcing
  BY <1>1, <1>2 DEF ExportsAnnounced
<1>3. CASE ~announcing
  <2>1. exports = {} /\ ~Starts(queue)
    BY <1>3, StartsIs DEF ExportsAnnounced
  <2>2. ~Starts(queue')
    BY <1>1, <1>3, <2>1 DEF Queued, Starts
  <2>3. queue # <<>> => queue[1].kind # "start"
    BY <2>1, HeadInRange DEF Starts, TInv, QueueOK
  <2>4. exports' = {}
    BY <2>1, <2>3, ExportsStep
  <2>5. \A i \in DOMAIN queue' : queue'[i].kind # "start"
    BY <2>2, StartsIs
  <2> QED  BY <2>4, <2>5 DEF ExportsAnnounced
<1> QED  BY <1>2, <1>3

LEMMA PresentStep ==
  ASSUME TInv, ExportsAnnounced, ExportsArePresent, [ANext]_avars
  PROVE  ExportsArePresent'
<1> SUFFICES ASSUME NEW l \in exports', NEW p \in Range(l) \cap Ext, p \notin present', ~Exits(queue', p)
             PROVE  FALSE
  BY ExitsIs DEF ExportsArePresent
<1>1. PICK e \in Seq(Event) : /\ Queued(e)
                              /\ announcing => \A q \in present \ present' : Exits(e, q)
  BY QueueSteps
<1>2. ~Exits(e, p)
  BY <1>1 DEF Queued, Exits
<1>3. l \in exports => p \in present \/ Exits(queue, p)
  BY ExitsIs DEF ExportsArePresent
<1>4. exports # {} => announcing
  BY DEF ExportsAnnounced
<1>5. ASSUME l \in exports, Exits(queue, p)
      PROVE  queue # <<>> /\ ReadReady /\ queue[1].kind = "exit" /\ queue[1].port = p
  BY <1>1, <1>5 DEF Queued, Exits
<1>6. ASSUME l \in exports, p \in present PROVE FALSE
  BY <1>1, <1>2, <1>4, <1>6
<1>7. ASSUME NEW q \in present, exports' = exports \cup Both(q), UNCHANGED present, l \notin exports PROVE FALSE
  <2>1. Range(<<q, Multi>>) = {q, Multi} /\ Range(<<Multi, q>>) = {Multi, q}
    BY PairRange
  <2>2. l \in Both(q) /\ Range(l) = {q, Multi}
    BY <1>7, <2>1 DEF Both
  <2>3. p # Multi
    BY OwnIsNotExt, PortsAssumption
  <2> QED  BY <1>7, <2>2, <2>3
<1>8. ASSUME queue # <<>>, queue[1].kind = "exit", exports' = exports \ Of(queue[1].port, exports) PROVE FALSE
  <2>1. l \in exports /\ queue[1].port # p
    BY <1>8 DEF Of
  <2> QED  BY <1>3, <1>5, <1>6, <2>1
<1>9. ASSUME l \in exports, queue # <<>> /\ ReadReady => queue[1].kind # "exit" PROVE FALSE
  BY <1>3, <1>5, <1>6, <1>9
<1>10. ASSUME l \in exports, queue[1].kind = "start" PROVE FALSE
  BY <1>3, <1>5, <1>6, <1>10
<1> QED  BY <1>7, <1>8, <1>9, <1>10, ExportsStep

-----------------------------------------------------------------------------
(* What is on its way, in every state that is reached. *)

LEMMA QInvInit == AInit => QInv
<1> SUFFICES ASSUME AInit PROVE QInv
  OBVIOUS
<1>1. /\ waiter = <<>> /\ entries = <<>> /\ present \subseteq Ext /\ announcing \in BOOLEAN
      /\ subs = Found /\ exports = Found /\ queue = Events("subscribed", Found, Told)
  BY DEF AInit
<1>2. /\ Found \in SUBSET Link /\ \A l \in Found : Range(l) \subseteq present \cup {Multi} /\ Multi \in Range(l)
      /\ \A l \in Found : Range(l) = {l[1], l[2]}
  BY <1>1, FoundAreLinks, LinkRange
<1>3. "subscribed" \in Kinds /\ Told \in 0..2 /\ "subscribed" # "start"
  BY Times DEF Kinds
<1>4. /\ \A i \in DOMAIN queue : queue[i].kind = "subscribed"
      /\ \A k, me, from : Has(queue, k, me, from) =>
            \E l \in Found, i \in {1, 2} : l[i] \in OwnPort /\ me = l[i] /\ l[3 - i] \in from
  BY <1>1, <1>2, <1>3, EventsSay
<1>5. CountedHasClient /\ UsedWillConnect /\ UnusedWillDisconnect
  BY <1>1 DEF CountedHasClient, UsedWillConnect, UnusedWillDisconnect
<1>6. FreeIsQuiet
  <2> SUFFICES ASSUME NEW v \in OwnPort \ {Multi}, Has(queue, "subscribed", v, Port) PROVE FALSE
    BY DEF FreeIsQuiet
  <2>1. PICK l \in Found : v \in Range(l)
    BY <1>2, <1>4
  <2>2. v \in present
    BY <1>2, <2>1
  <2> QED  BY <1>1, <2>2, OwnIsNotExt
<1>7. LeftWillBeForgotten
  <2> SUFFICES ASSUME NEW p \in Ext, Joined(p) = {}
               PROVE  ~Has(queue, "subscribed", Multi, {p})
    BY <1>1 DEF LeftWillBeForgotten, Ended, Has
  <2> SUFFICES ASSUME Has(queue, "subscribed", Multi, {p}) PROVE FALSE
    OBVIOUS
  <2>1. PICK l \in Found : p \in Range(l) /\ Multi \in Range(l)
    BY <1>2, <1>4
  <2> QED  BY <1>1, <2>1 DEF Joined, Of
<1>8. ExportsAnnounced
  BY <1>1, <1>3, <1>4 DEF ExportsAnnounced, Found
<1> QED  BY <1>5, <1>6, <1>7, <1>8 DEF QInv

LEMMA QInvStep == TInv /\ QInv /\ [ANext]_avars => QInv'
<1> SUFFICES ASSUME TInv, QInv, [ANext]_avars PROVE QInv'
  OBVIOUS
<1>1. TInv'
  BY TInvStep
<1> QED  BY <1>1, CountedStep, UsedStep, UnusedStep, FreeStep, LeftStep, AnnouncedStep DEF QInv

LEMMA Quiet ==
  ASSUME NEW v
  PROVE  /\ Pending(v) = {} => \A k \in Kinds : ~Has(queue, k, v, Port)
         /\ (\A i \in Pending(v) : queue[i].me # Multi) => \A k \in Kinds : ~Has(queue, k, Multi, {v})
BY DEF Pending, Has, Says, Kinds

LEMMA InvariantHolds == ASpec => [](TInv /\ QInv)
<1>1. AInit => TInv /\ QInv
  BY TInvInit, QInvInit
<1>2. (TInv /\ QInv) /\ [ANext]_avars => (TInv /\ QInv)'
  BY TInvStep, QInvStep
<1> QED  BY <1>1, <1>2, PTL DEF ASpec

\* Somebody who is subscribed to the port of a server is connected to it once
\* the events are handled (local_alsa_listener_t::connect, on the first
\* subscribe event), unless a subscription, the client or the endpoint was lost
\* while another one was on its way.
THEOREM AlsaUsedIsConnected == ASpec => []UsedIsConnected
<1>1. QInv => UsedIsConnected
  <2>1. "subscribed" \in Kinds
    BY DEF Kinds
  <2> QED  BY <2>1, Quiet DEF QInv, UsedWillConnect, UsedIsConnected
<1> QED  BY <1>1, InvariantHolds, PTL

\* Nobody stays connected to a server that no one uses, once the events about
\* its port are handled (disconnect, when the connections were counted again).
THEOREM AlsaUnusedIsDisconnected == ASpec => []UnusedIsDisconnected
<1>1. QInv => UnusedIsDisconnected
  <2>1. "unsubscribed" \in Kinds
    BY DEF Kinds
  <2> QED  BY <2>1, Quiet DEF QInv, UnusedWillDisconnect, UnusedIsDisconnected
<1> QED  BY <1>1, InvariantHolds, PTL

\* A port that left the multi listener is not heard any more once the events
\* about it are handled (remove_alsa_connection, and its use_count).
THEOREM AlsaLeftIsForgotten == ASpec => []LeftIsForgotten
<1>1. QInv => LeftIsForgotten
  <2> SUFFICES ASSUME LeftWillBeForgotten, NEW p \in DOMAIN entries \cap Ext,
                      \A i \in Pending(p) : queue[i].me # Multi, Joined(p) = {}
               PROVE  entries[p] \notin DOMAIN peers
    BY DEF QInv, LeftIsForgotten, Joined
  <2>1. "unsubscribed" \in Kinds
    BY DEF Kinds
  <2>2. ~Has(queue, "unsubscribed", Multi, {p})
    BY <2>1, Quiet
  <2> QED  BY <2>2 DEF LeftWillBeForgotten
<1> QED  BY <1>1, InvariantHolds, PTL

\* HwAutoAnnounce keeps no connection of a port whose departure was announced
\* (removed_port_announcement).
THEOREM AlsaExportsArePresent == ASpec => []ExportsArePresent
<1>1. AInit => ExportsArePresent
  <2> SUFFICES ASSUME AInit PROVE ExportsArePresent
    OBVIOUS
  <2>1. present \subseteq Ext /\ exports = Found
    BY DEF AInit
  <2>2. \A l \in exports : Range(l) \subseteq present \cup {Multi}
    BY <2>1, FoundAreLinks
  <2>3. Multi \notin Ext
    BY OwnIsNotExt, PortsAssumption
  <2> QED  BY <2>2, <2>3 DEF ExportsArePresent
<1>2. TInv /\ QInv /\ ExportsArePresent /\ [ANext]_avars => ExportsArePresent'
  BY PresentStep DEF QInv
<1> QED  BY <1>1, <1>2, InvariantHolds, PTL DEF ASpec

-----------------------------------------------------------------------------
(* Who uses a network listener. *)

Users(i) == {p \in DOMAIN entries : entries[p] = i}

LEMMA UsersAreFinite ==
  ASSUME NumbersOK, NEW i PROVE IsFiniteSet(Users(i)) /\ Cardinality(Users(i)) \in Nat
<1>1. IsFiniteSet(Port)
  BY PortsAssumption, FS_Union DEF Port
<1>2. Users(i) \in SUBSET Port
  BY DEF Users, NumbersOK
<1> QED  BY <1>1, <1>2, FS_Subset, FS_CardinalityType

\* A listener that keeps its count and gets no user, or is gone.
LEMMA UsesKept ==
  ASSUME TInv, OneUserUncounted, NEW i \in DOMAIN peers, i \in DOMAIN peers', peers[i].kind = "listener",
         peers'[i].uses = peers[i].uses, Users(i)' \subseteq Users(i)
  PROVE  peers'[i].uses >= Cardinality(Users(i)') - 1
<1>1. IsFiniteSet(Users(i)) /\ Cardinality(Users(i)) \in Nat
  BY UsersAreFinite DEF TInv
<1>2. Cardinality(Users(i)') \in Nat /\ Cardinality(Users(i)') <= Cardinality(Users(i))
  BY <1>1, FS_Subset, FS_CardinalityType
<1>3. peers[i].uses >= Cardinality(Users(i)) - 1
  BY DEF OneUserUncounted, Users
<1>4. peers[i].uses \in Int
  BY DEF TInv, PInv, PeersOK, Peer
<1> QED  BY <1>1, <1>2, <1>3, <1>4

LEMMA JoinCounts ==
  ASSUME TInv, OneUserUncounted, NEW p, MultiSubscribed(p), NEW i \in DOMAIN peers',
         peers'[i].kind = "listener"
  PROVE  peers'[i].uses >= Cardinality(Users(i)') - 1
<1> DEFINE same == Named(NameNow(p))
<1>0. \A j \in DOMAIN peers : peers[j].kind = "listener" =>
         peers[j] \in [kind : {"listener"}, name : Name \cup {"ours", "nameless"}, uses : Int]
  BY DEF TInv, PInv, PeersOK, Peer
<1>1. ASSUME NEW k \in same, entries' = Put(entries, p, k),
             peers' = [j \in DOMAIN peers |->
                         IF j \in same THEN [peers[j] EXCEPT !.uses = @ + 1] ELSE peers[j]]
      PROVE  peers'[i].uses >= Cardinality(Users(i)') - 1
  <2>1. CASE i \notin same
    <3>1. peers'[i] = peers[i] /\ i \in DOMAIN peers
      BY <1>1, <2>1
    <3>2. Users(i)' \subseteq Users(i)
      BY <1>1, <2>1 DEF Users, Put
    <3> QED  BY <3>1, <3>2, UsesKept
  <2>2. CASE i \in same
    <3>1. i \in DOMAIN peers /\ peers[i].kind = "listener"
      BY <2>2 DEF Named
    <3>2. peers'[i].uses = peers[i].uses + 1 /\ peers[i].uses \in Int
      BY <1>0, <1>1, <2>2, <3>1
    <3>3. Users(i)' \subseteq Users(i) \cup {p}
      BY <1>1 DEF Users, Put
    <3>4. IsFiniteSet(Users(i)) /\ Cardinality(Users(i)) \in Nat
      BY UsersAreFinite DEF TInv
    <3>5. /\ IsFiniteSet(Users(i) \cup {p}) /\ Cardinality(Users(i) \cup {p}) \in Nat
          /\ Cardinality(Users(i) \cup {p}) <= Cardinality(Users(i)) + 1
      <4> DEFINE U == Users(i)
      <4>1. IsFiniteSet(U) /\ Cardinality(U) \in Nat
        BY <3>4
      <4> HIDE DEF U
      <4>2. /\ IsFiniteSet(U \cup {p})
            /\ Cardinality(U \cup {p}) = IF p \in U THEN Cardinality(U) ELSE Cardinality(U) + 1
        BY <4>1, FS_AddElement
      <4>3. Cardinality(U \cup {p}) \in Nat /\ Cardinality(U \cup {p}) <= Cardinality(U) + 1
        BY <4>1, <4>2
      <4> QED  BY <4>2, <4>3 DEF U
    <3>6. Cardinality(Users(i)') \in Nat /\ Cardinality(Users(i)') <= Cardinality(Users(i) \cup {p})
      BY <3>3, <3>5, FS_Subset, FS_CardinalityType
    <3>7. peers[i].uses >= Cardinality(Users(i)) - 1
      BY <3>1 DEF OneUserUncounted, Users
    <3> QED  BY <3>2, <3>4, <3>5, <3>6, <3>7
  <2> QED  BY <2>1, <2>2
<1>2. ASSUME entries' = Put(entries, p, nextId),
             peers' = Put(peers, nextId, [kind |-> "listener", name |-> NameNow(p), uses |-> 0])
      PROVE  peers'[i].uses >= Cardinality(Users(i)') - 1
  <2>0. \A q \in DOMAIN entries : entries[q] # nextId
    BY DEF TInv, PInv, PeersOK, WiredInv, IdsGiven
  <2>1. CASE i = nextId
    <3>1. Users(i)' = {p}
      BY <1>2, <2>0, <2>1 DEF Users, Put
    <3>2. Cardinality(Users(i)') = 1
      BY <3>1, FS_Singleton
    <3>3. peers'[i].uses = 0
      BY <1>2, <2>1 DEF Put
    <3> QED  BY <3>2, <3>3
  <2>2. CASE i # nextId
    <3>1. i \in DOMAIN peers /\ peers'[i] = peers[i]
      BY <1>2, <2>2 DEF Put
    <3>2. Users(i)' \subseteq Users(i)
      BY <1>2, <2>2 DEF Users, Put
    <3> QED  BY <3>1, <3>2, UsesKept
  <2> QED  BY <2>1, <2>2
<1> QED  BY <1>1, <1>2 DEF MultiSubscribed

LEMMA LeaveCounts ==
  ASSUME TInv, OneUserUncounted, NEW p, MultiUnsubscribed(p), NEW i \in DOMAIN peers',
         peers'[i].kind = "listener"
  PROVE  peers'[i].uses >= Cardinality(Users(i)') - 1
<1>1. CASE UNCHANGED <<peers, entries>>
  BY <1>1, UsesKept DEF Users
<1>2. ASSUME p \in DOMAIN entries, entries[p] \in DOMAIN peers, entries' = Without(entries, {p}), Release(entries[p])
      PROVE  peers'[i].uses >= Cardinality(Users(i)') - 1
  <2> DEFINE k == entries[p]  left == peers[k].uses - 1
  <2>0. /\ peers[k].kind = "listener"
        /\ peers[k] \in [kind : {"listener"}, name : Name \cup {"ours", "nameless"}, uses : Int]
    BY <1>2 DEF TInv, PInv, PeersOK, Peer
  <2>1. Users(i)' = Users(i) \ {p}
    BY <1>2 DEF Users, Without, Restrict
  <2>2. CASE i # k
    <3>1. i \in DOMAIN peers /\ peers'[i] = peers[i]
      <4>1. RemovePeers({k}) \/ peers' = [peers EXCEPT ![k].uses = left]
        BY <1>2 DEF Release
      <4>2. RemovePeers({k}) => i \in DOMAIN peers /\ peers'[i] = peers[i]
        BY RemovePeersDoes
      <4> HIDE DEF k, left
      <4> QED  BY <2>2, <4>1, <4>2
    <3> QED  BY <2>1, <3>1, UsesKept
  <2>3. CASE i = k
    <3>1. peers' = [peers EXCEPT ![k].uses = left]
      <4>1. RemovePeers({k}) \/ peers' = [peers EXCEPT ![k].uses = left]
        BY <1>2 DEF Release
      <4> HIDE DEF k, left
      <4>2. RemovePeers({k}) => k \notin DOMAIN peers'
        BY RemovePeersDoes
      <4> QED  BY <2>3, <4>1, <4>2
    <3>2. peers'[i].uses = peers[i].uses - 1 /\ i \in DOMAIN peers /\ peers[i].uses \in Int
      BY <1>2, <2>0, <2>3, <3>1
    <3>3. p \in Users(i) /\ IsFiniteSet(Users(i)) /\ Cardinality(Users(i)) \in Nat
      BY <1>2, <2>3, UsersAreFinite DEF Users, TInv
    <3>4. Cardinality(Users(i)') = Cardinality(Users(i)) - 1
      BY <2>1, <3>3, FS_RemoveElement
    <3>5. peers[i].uses >= Cardinality(Users(i)) - 1
      BY <2>0, <2>3, <3>2 DEF OneUserUncounted, Users
    <3> QED  BY <3>2, <3>3, <3>4, <3>5
  <2> QED  BY <2>2, <2>3
<1> QED  BY <1>1, <1>2 DEF MultiUnsubscribed, KeepAll, router

LEMMA UsesStep ==
  ASSUME TInv, OneUserUncounted, [ANext]_avars
  PROVE  OneUserUncounted'
<1> SUFFICES ASSUME NEW i \in DOMAIN peers', peers'[i].kind = "listener"
             PROVE  peers'[i].uses >= Cardinality(Users(i)') - 1
  BY DEF OneUserUncounted, Users
<1>1. CASE UNCHANGED entries /\ i \in DOMAIN peers /\ peers'[i] = peers[i]
  BY <1>1, UsesKept DEF Users
<1>2. ASSUME NEW S, RemovePeers(S) PROVE i \in DOMAIN peers /\ peers'[i] = peers[i]
  BY <1>2, RemovePeersDoes
<1>3. ASSUME NEW kind, kind # "listener", peers' = Put(peers, nextId, [kind |-> kind])
      PROVE  i \in DOMAIN peers /\ peers'[i] = peers[i]
  BY <1>3 DEF Put
<1>4. ASSUME NEW ev, WaiterHandles(ev)
      PROVE  UNCHANGED entries /\ i \in DOMAIN peers /\ peers'[i] = peers[i]
  <2>1. \/ UNCHANGED peers \/ peers' = Put(peers, nextId, [kind |-> "client"])
        \/ \E S : RemovePeers(S)
    BY <1>4 DEF WaiterHandles, WaiterCounts, WaiterConnects, WaiterRefuses, WaiterRecounts, KeepAll, router
  <2> QED  BY <1>2, <1>3, <1>4, <2>1 DEF WaiterHandles
<1>5. CASE ReadReady
  <2>1. ASSUME NEW ev, MultiHandles(ev) PROVE peers'[i].uses >= Cardinality(Users(i)') - 1
    BY <2>1, JoinCounts, LeaveCounts DEF MultiHandles
  <2>2. ASSUME NEW ev, HwHandles(ev) PROVE UNCHANGED entries /\ i \in DOMAIN peers /\ peers'[i] = peers[i]
    BY <2>2 DEF HwHandles, router
  <2>3. CASE queue = <<>>
    BY <1>1, <1>5, <2>3 DEF ReadReady, router
  <2> QED  BY <1>1, <1>4, <1>5, <2>1, <2>2, <2>3 DEF ReadReady
<1>6. CASE Others
  BY <1>1, <1>6 DEF Others, Subscribe, Unsubscribe, Plug, Unplug, Elsewhere, router
<1>7. CASE User
  <2>1. UNCHANGED entries
    BY <1>7 DEF User, CreateWaiter, AddEndpoint, RemoveEndpoint, RemoveWaiter, RemovePort, RemovePeer
  <2>2. \/ UNCHANGED peers \/ peers' = Put(peers, nextId, [kind |-> "waiter"])
        \/ \E S : RemovePeers(S)
    BY <1>7 DEF User, CreateWaiter, AddEndpoint, RemoveEndpoint, RemoveWaiter, RemovePort, RemovePeer, router
  <2> QED  BY <1>1, <1>2, <1>3, <2>1, <2>2
<1>8. CASE UNCHANGED avars
  BY <1>1, <1>8 DEF avars, router
<1> QED  BY <1>5, <1>6, <1>7, <1>8 DEF ANext

\* A network listener counts all that use it but one: with its count back at
\* zero, at most one port that still uses it loses it (new_alsa_connection,
\* which does not count the first).
THEOREM AlsaOneUserUncounted == ASpec => []OneUserUncounted
<1>1. AInit => OneUserUncounted
  BY DEF AInit, OneUserUncounted
<1>2. TInv /\ OneUserUncounted /\ [ANext]_avars => OneUserUncounted'
  BY UsesStep
<1> QED  BY <1>1, <1>2, InvariantHolds, PTL DEF ASpec
=============================================================================
