------------------------------ MODULE MCAlsa ------------------------------
(***************************************************************************)
(* Instances of AlsaPorts: two ports of other programs with one name.      *)
(***************************************************************************)
EXTENDS AlsaPorts

CONSTANTS p, q

Alike == [x \in Ext |-> "piano"]

\* Bounds: how far the sequencer may be ahead, how often a port is counted, and
\* what is wired at a time: a server's port both ways, or the ports that announce.  p stays.
QueueBound == Len(queue) <= MaxQueue
CountBound ==
    /\ \A w \in DOMAIN waiter : waiter[w].count <= 3
    /\ \A i \in DOMAIN peers : peers[i].kind = "listener" => peers[i].uses <= 3
WiringBound ==
    /\ p \in present
    /\ \/ subs \subseteq {<<p, 2>>, <<2, p>>, <<q, 2>>}
       \/ subs \subseteq {<<p, 1>>, <<q, 1>>, <<1, q>>}
       \/ subs \subseteq {<<2, 1>>, <<p, 2>>}

\* Removed ids are never given again: an entry or a waiter that still has one
\* behaves as if it had none.
Alive(i) == IF i \in DOMAIN peers THEN i ELSE 0
SeenByHandlers ==
    <<announcing, present, subs, queue, awake, peers, wires, nextId, exports,
      [w \in DOMAIN waiter |-> [waiter[w] EXCEPT !.client = Alive(@)]],
      [x \in {y \in DOMAIN entries : entries[y] \in DOMAIN peers} |-> entries[x]],
      renumbered, missed \cap DOMAIN peers, refused \cap DOMAIN peers>>
=============================================================================
