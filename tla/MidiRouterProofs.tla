-------------------------- MODULE MidiRouterProofs --------------------------
(***************************************************************************)
(* The invariant RInv of the router, proved for every set of objects and   *)
(* every bound: one lemma per operation of midirouter_t.                   *)
(***************************************************************************)
EXTENDS MidiRouter, TLAPS

LEMMA InitInv == RInit => RInv
<1> USE BoundsAssumption DEF Id
<1> SUFFICES ASSUME RInit PROVE RInv
    OBVIOUS
<1>1. RTypeOK
    BY DEF RInit, RTypeOK, Nothing
<1>2. NoDangling /\ NeverHearsTooManyEnds
    BY DEF RInit, NoDangling, NeverHearsTooManyEnds, Nothing
<1>3. IdsNameOneObject /\ IdsBelowMax
    BY DEF RInit, IdsNameOneObject, IdsBelowMax
<1> QED BY <1>1, <1>2, <1>3 DEF RInv

\* add_peer: the new id is max_id, above every id given before.
LEMMA AddPeerInv == ASSUME RInv, NEW o \in Obj, AddPeer(o) PROVE RInv'
<1>1. RTypeOK /\ NoDangling /\ IdsNameOneObject /\ IdsBelowMax
      /\ NeverHearsTooManyEnds
    BY DEF RInv
<1>t. /\ \A i, j \in Id : links[i][j] \in Nat /\ heard[i][j] \in Int
      /\ \A p \in Obj : idOf[p] \in Nat
      /\ maxId \in Nat
    BY <1>1 DEF RTypeOK
<1>2. links' = links /\ heard' = heard
    BY DEF AddPeer, wiring
<1>3. /\ maxId \in Id /\ maxId' = maxId + 1 /\ idOf[o] = 0
      /\ idOf' = [idOf EXCEPT ![o] = maxId] /\ live' = live \cup {maxId}
    BY DEF AddPeer
<1>4. RTypeOK'
  <2>1. maxId' \in 1..(MaxId + 1) /\ live' \in SUBSET Id
    <3>1. maxId \in 1..MaxId /\ MaxId \in Nat
        BY <1>3, BoundsAssumption DEF Id
    <3> QED BY <1>1, <1>3, <3>1 DEF RTypeOK
  <2>2. idOf' \in [Obj -> 0..MaxId]
      BY <1>1, <1>3 DEF RTypeOK, Id
  <2> QED BY <1>1, <1>2, <2>1, <2>2 DEF RTypeOK
<1>5. NoDangling'
    BY <1>1, <1>2, <1>3 DEF NoDangling
<1>9. \A p \in Obj : idOf'[p] = IF p = o THEN maxId ELSE idOf[p]
    BY <1>1, <1>3 DEF RTypeOK
<1>6. IdsBelowMax'
    BY <1>1, <1>3, <1>t, <1>9 DEF IdsBelowMax
<1>7. IdsNameOneObject'
  <2>1. \A p \in Obj : idOf'[p] = IF p = o THEN maxId ELSE idOf[p]
      BY <1>9
  <2>2. \A p \in Obj : idOf[p] < maxId
      BY <1>1 DEF IdsBelowMax
  <2>3. ASSUME NEW p \in Obj, NEW q \in Obj, idOf'[p] = idOf'[q], idOf'[p] # 0
        PROVE  p = q
    <3>1. idOf[p] # maxId /\ idOf[q] # maxId
        BY <2>2, <1>t
    <3>2. (p = o) <=> (q = o)
        BY <2>1, <2>3, <3>1
    <3> QED BY <1>1, <2>1, <2>3, <3>2 DEF IdsNameOneObject
  <2>4. ASSUME NEW i \in live' PROVE \E p \in Obj : idOf'[p] = i
    <3>1. CASE i = maxId
        BY <2>1, <3>1
    <3>2. CASE i \in live
      <4>1. PICK p \in Obj : idOf[p] = i
          BY <1>1, <3>2 DEF IdsNameOneObject
      <4>2. idOf[p] # 0
          BY <1>1, <4>1, <3>2 DEF RTypeOK, Id
      <4> QED BY <1>3, <2>1, <4>1, <4>2
    <3> QED BY <1>3, <3>1, <3>2
  <2> QED BY <2>3, <2>4 DEF IdsNameOneObject
<1>8. NeverHearsTooManyEnds'
    BY <1>1, <1>2 DEF NeverHearsTooManyEnds
<1> QED BY <1>4, <1>5, <1>6, <1>7, <1>8 DEF RInv

\* connect adds one entry and one event at either end.
LEMMA ConnectInv ==
    ASSUME RInv, NEW i \in Id, NEW j \in Id, Connect(i, j) PROVE RInv'
<1>1. RTypeOK /\ NoDangling /\ IdsNameOneObject /\ IdsBelowMax
      /\ NeverHearsTooManyEnds
    BY DEF RInv
<1>t. \A a, b \in Id : links[a][b] \in Nat /\ heard[a][b] \in Int
    BY <1>1 DEF RTypeOK
<1>2. i \in live /\ j \in live /\ maxId' = maxId /\ idOf' = idOf /\ live' = live
    BY DEF Connect, registry
<1>3. \A a, b \in Id : links'[a][b] = IF a = i /\ b = j THEN links[a][b] + 1
                                                        ELSE links[a][b]
    BY <1>1 DEF Connect, RTypeOK
<1>4. \A a, b \in Id : heard'[a][b] =
          heard[a][b] + (IF <<a, b>> = <<i, j>> THEN 1 ELSE 0)
                      + (IF <<a, b>> = <<j, i>> THEN 1 ELSE 0)
    BY DEF Connect
<1>5. RTypeOK'
  <2>1. links' \in [Id -> [Id -> Nat]]
    <3>1. links \in [Id -> [Id -> Nat]]
        BY <1>1 DEF RTypeOK
    <3>2. links' = [links EXCEPT ![i] = [links[i] EXCEPT ![j] = links[i][j] + 1]]
        BY DEF Connect
    <3>3. [links[i] EXCEPT ![j] = links[i][j] + 1] \in [Id -> Nat]
      <4>1. links[i] \in [Id -> Nat] /\ links[i][j] + 1 \in Nat
          BY <3>1
      <4> QED BY <4>1
    <3> QED BY <3>1, <3>2, <3>3
  <2>2. heard' \in [Id -> [Id -> Int]]
      BY <1>t DEF Connect
  <2> QED BY <1>1, <1>2, <2>1, <2>2 DEF RTypeOK
<1>6. NoDangling'
    BY <1>1, <1>2, <1>3 DEF NoDangling
<1>7. IdsNameOneObject' /\ IdsBelowMax'
    BY <1>1, <1>2 DEF IdsNameOneObject, IdsBelowMax
<1>8. NeverHearsTooManyEnds'
  <2> SUFFICES ASSUME NEW a \in Id, NEW b \in Id
               PROVE  heard'[a][b] >= links'[a][b] + links'[b][a]
      BY DEF NeverHearsTooManyEnds
  <2>1. heard[a][b] >= links[a][b] + links[b][a]
      BY <1>1 DEF NeverHearsTooManyEnds
  <2> QED BY <2>1, <1>3, <1>4, <1>t
<1> QED BY <1>5, <1>6, <1>7, <1>8 DEF RInv

\* What an event round tells: at least the first copy, at most every copy.
LEMMA RoundsBounds ==
    ASSUME NEW n \in Nat, NEW k \in Rounds(n)
    PROVE  k \in Nat /\ k <= n
BY DEF Rounds

\* disconnect drops every copy, and tells no more ends than there were copies.
LEMMA DisconnectInv ==
    ASSUME RInv, NEW i \in Id, NEW j \in Id, Disconnect(i, j) PROVE RInv'
<1>1. RTypeOK /\ NoDangling /\ IdsNameOneObject /\ IdsBelowMax
      /\ NeverHearsTooManyEnds
    BY DEF RInv
<1>t. \A a, b \in Id : links[a][b] \in Nat /\ heard[a][b] \in Int
    BY <1>1 DEF RTypeOK
<1>2. i \in live /\ j \in live /\ maxId' = maxId /\ idOf' = idOf /\ live' = live
    BY DEF Disconnect, registry
<1>3. \A a, b \in Id : links'[a][b] = IF a = i /\ b = j THEN 0 ELSE links[a][b]
    BY <1>1 DEF Disconnect, RTypeOK
<1>4. PICK k \in Rounds(links[i][j]) :
          heard' = Untold([p \in {<<i, j>>} |-> k], {<<i, j>>})
    BY DEF Disconnect
<1>5. k \in Nat /\ k <= links[i][j]
    BY <1>4, <1>t, RoundsBounds
<1>6. \A a, b \in Id : heard'[a][b] =
          heard[a][b] - (IF <<a, b>> = <<i, j>> THEN k ELSE 0)
                      - (IF <<b, a>> = <<i, j>> THEN k ELSE 0)
    BY <1>4 DEF Untold
<1>7. RTypeOK'
  <2>1. links' \in [Id -> [Id -> Nat]]
      BY <1>1 DEF Disconnect, RTypeOK
  <2>2. heard' = [a \in Id |-> [b \in Id |->
            heard[a][b] - (IF <<a, b>> = <<i, j>> THEN k ELSE 0)
                        - (IF <<b, a>> = <<i, j>> THEN k ELSE 0)]]
      BY <1>4 DEF Untold
  <2>3. heard' \in [Id -> [Id -> Int]]
      BY <2>2, <1>t, <1>5
  <2> QED BY <1>1, <1>2, <2>1, <2>3 DEF RTypeOK
<1>8. NoDangling'
    BY <1>1, <1>2, <1>3 DEF NoDangling
<1>9. IdsNameOneObject' /\ IdsBelowMax'
    BY <1>1, <1>2 DEF IdsNameOneObject, IdsBelowMax
<1>10. NeverHearsTooManyEnds'
  <2> SUFFICES ASSUME NEW a \in Id, NEW b \in Id
               PROVE  heard'[a][b] >= links'[a][b] + links'[b][a]
      BY DEF NeverHearsTooManyEnds
  <2>1. heard[a][b] >= links[a][b] + links[b][a]
      BY <1>1 DEF NeverHearsTooManyEnds
  <2> QED BY <2>1, <1>3, <1>5, <1>6, <1>t
<1> QED BY <1>7, <1>8, <1>9, <1>10 DEF RInv

\* remove_peer: a peer that sends to id is always visited, so id keeps no
\* incoming connection; what the others count only shrinks by what was cut.
LEMMA RemovePeerInv == ASSUME RInv, NEW id \in Id, RemovePeer(id) PROVE RInv'
<1>1. RTypeOK /\ NoDangling /\ IdsNameOneObject /\ IdsBelowMax
      /\ NeverHearsTooManyEnds
    BY DEF RInv
<1>t. \A a, b \in Id : links[a][b] \in Nat /\ heard[a][b] \in Int
    BY <1>1 DEF RTypeOK
<1>2. maxId' = maxId /\ idOf' = idOf /\ live' = live \ {id}
    BY DEF RemovePeer
<1>3. PICK told \in [Cut(id) -> 1..MaxLinks] :
          /\ \A p \in Cut(id) : told[p] \in Rounds(links[p[1]][p[2]])
          /\ heard' = [Untold(told, Cut(id)) EXCEPT ![id] = Nothing]
    BY DEF RemovePeer
<1>4. \A a, b \in Id : links'[a][b] =
          IF a = id \/ <<a, b>> \in Cut(id) THEN 0 ELSE links[a][b]
    BY DEF RemovePeer
<1>5. \A a, b \in Id : <<a, b>> \in Cut(id) =>
          /\ told[<<a, b>>] \in Nat /\ told[<<a, b>>] <= links[a][b]
          /\ a = id \/ b = id
  <2> SUFFICES ASSUME NEW a \in Id, NEW b \in Id, <<a, b>> \in Cut(id)
               PROVE  /\ told[<<a, b>>] \in Nat /\ told[<<a, b>>] <= links[a][b]
                      /\ a = id \/ b = id
      OBVIOUS
  <2>1. told[<<a, b>>] \in Rounds(links[a][b])
      BY <1>3
  <2>2. a = id \/ b = id
      BY DEF Cut, CutIncoming, CutOutgoing
  <2> QED BY <2>1, <2>2, <1>t, RoundsBounds
<1>6. \A a, b \in Id : heard'[a][b] =
          IF a = id THEN 0
          ELSE heard[a][b] - (IF <<a, b>> \in Cut(id) THEN told[<<a, b>>] ELSE 0)
                           - (IF <<b, a>> \in Cut(id) THEN told[<<b, a>>] ELSE 0)
    BY <1>3 DEF Untold, Nothing
<1>7. \A a \in Id : links'[a][id] = 0 /\ links'[id][a] = 0
  <2> SUFFICES ASSUME NEW a \in Id, links[a][id] # 0, a # id
               PROVE  <<a, id>> \in Cut(id)
      BY <1>4
  <2>1. links[a][id] > 0 /\ a \in live
      BY <1>1, <1>t DEF NoDangling
  <2> QED BY <2>1 DEF Cut, CutIncoming, RemovePeer
<1>8. RTypeOK'
  <2>1. links' = [a \in Id |-> [b \in Id |->
            IF a = id \/ <<a, b>> \in Cut(id) THEN 0 ELSE links[a][b]]]
      BY DEF RemovePeer
  <2>2. links' \in [Id -> [Id -> Nat]]
      BY <2>1, <1>t
  <2>3. Untold(told, Cut(id)) \in [Id -> [Id -> Int]]
      BY <1>t, <1>5 DEF Untold
  <2>4. heard' \in [Id -> [Id -> Int]]
      BY <1>3, <2>3 DEF Nothing
  <2> QED BY <1>1, <1>2, <2>2, <2>4 DEF RTypeOK
<1>9. NoDangling'
  <2> SUFFICES ASSUME NEW a \in Id, NEW b \in Id, links'[a][b] > 0
               PROVE  a \in live' /\ b \in live'
      BY DEF NoDangling
  <2>1. links'[a][b] = IF a = id \/ <<a, b>> \in Cut(id) THEN 0 ELSE links[a][b]
      BY <1>4
  <2>2. links'[a][id] = 0 /\ links'[id][b] = 0
      BY <1>7
  <2>3. a # id /\ b # id /\ links[a][b] > 0
      BY <2>1, <2>2
  <2> QED BY <1>1, <1>2, <2>3 DEF NoDangling
<1>10. IdsNameOneObject' /\ IdsBelowMax'
    BY <1>1, <1>2 DEF IdsNameOneObject, IdsBelowMax
<1>11. NeverHearsTooManyEnds'
  <2> SUFFICES ASSUME NEW a \in Id, NEW b \in Id
               PROVE  heard'[a][b] >= links'[a][b] + links'[b][a]
      BY DEF NeverHearsTooManyEnds
  <2>1. CASE a = id
    <3>1. heard'[a][b] = 0
        BY <2>1, <1>6
    <3>2. links'[a][b] = 0 /\ links'[b][a] = 0
        BY <2>1, <1>7
    <3> QED BY <3>1, <3>2
  <2>2. CASE a # id
    <3>1. heard[a][b] >= links[a][b] + links[b][a]
        BY <1>1 DEF NeverHearsTooManyEnds
    <3>2. links'[a][b] = IF <<a, b>> \in Cut(id) THEN 0 ELSE links[a][b]
        BY <2>2, <1>4
    <3>3. links'[b][a] = 0 \/ links'[b][a] = links[b][a]
        BY <1>4
    <3>4. <<b, a>> \in Cut(id) => links'[b][a] = 0
        BY <1>4
    <3> QED BY <3>1, <3>2, <3>3, <3>4, <2>2, <1>5, <1>6, <1>t
  <2> QED BY <2>1, <2>2
<1> QED BY <1>8, <1>9, <1>10, <1>11 DEF RInv

\* clear leaves an empty registry and no connection.
LEMMA ClearInv == ASSUME RInv, Clear PROVE RInv'
<1>1. RTypeOK /\ IdsNameOneObject /\ IdsBelowMax
    BY DEF RInv
<1>2. /\ maxId' = maxId /\ idOf' = idOf /\ live' = {}
      /\ links' = [i \in Id |-> Nothing] /\ heard' = [i \in Id |-> Nothing]
    BY DEF Clear
<1>3. RTypeOK' /\ NoDangling' /\ NeverHearsTooManyEnds'
    BY <1>1, <1>2 DEF RTypeOK, NoDangling, NeverHearsTooManyEnds, Nothing
<1>4. IdsNameOneObject' /\ IdsBelowMax'
    BY <1>1, <1>2 DEF IdsNameOneObject, IdsBelowMax
<1> QED BY <1>3, <1>4 DEF RInv

\* Every operation of the router keeps its invariant.
THEOREM RouterInvariant == RSpec => []RInv
<1>1. RInv /\ [RNext]_rvars => RInv'
  <2> SUFFICES ASSUME RInv, [RNext]_rvars PROVE RInv'
      OBVIOUS
  <2>1. CASE RNext
      BY <2>1, AddPeerInv, ConnectInv, DisconnectInv, RemovePeerInv, ClearInv DEF RNext
  <2>2. CASE UNCHANGED rvars
      BY <2>2 DEF rvars, RInv, RTypeOK, NoDangling, IdsNameOneObject, IdsBelowMax,
                  NeverHearsTooManyEnds
  <2> QED BY <2>1, <2>2
<1> QED BY InitInv, <1>1, PTL DEF RSpec

\* Type correctness of the router's state.
THEOREM RouterTypeCorrect == RSpec => []RTypeOK
BY RouterInvariant, PTL DEF RInv

\* send_midi and event never meet an id that left the registry.
THEOREM RouterNoDangling == RSpec => []NoDangling
BY RouterInvariant, PTL DEF RInv

\* An id names one midipeer_t object for ever.
THEOREM RouterIdsNameOneObject == RSpec => []IdsNameOneObject
BY RouterInvariant, PTL DEF RInv

\* No peer hears more connections end than it heard begin, whatever part of
\* its event rounds a disconnect delivers.
THEOREM RouterNeverHearsTooManyEnds == RSpec => []NeverHearsTooManyEnds
BY RouterInvariant, PTL DEF RInv
=============================================================================
