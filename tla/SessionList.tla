---------------------------- MODULE SessionList ----------------------------
(***************************************************************************)
(* What a server promises to the listeners of its status_change_event: the *)
(* life of a session as they hear of it, whatever the network does.  Ids   *)
(* begin in order, with one port connected; a session may come up, lose a  *)
(* port and come up again; its end is told once and is the last word.      *)
(* RtpServer implements this specification; RawMidi relies on it.          *)
(***************************************************************************)
EXTENDS Naturals

CONSTANT Sessions  \* the ids a server hands out, in order: 1, 2, ...

\* Nothing heard yet; some port connected; both; the end.
Phase == {"nothing", "part", "up", "gone"}
Alive == {"part", "up"}

\* What the listeners may hear next of a session.
Follows(a, b) == \/ a = "nothing" /\ b = "part"
                 \/ a \in Alive /\ b \in Alive \cup {"gone"}

VARIABLE said  \* the last phase of each session

Init == said = [s \in Sessions |-> "nothing"]

Begin(s) ==
    /\ said[s] = "nothing"
    /\ \A e \in Sessions : e < s => said[e] # "nothing"
    /\ said' = [said EXCEPT ![s] = "part"]

Change(s) ==
    /\ said[s] \in Alive
    /\ \E p \in Alive : said' = [said EXCEPT ![s] = p]

\* One session ends, or the server does and all of them with it.
End(S) ==
    /\ \A s \in S : said[s] \in Alive
    /\ said' = [s \in Sessions |-> IF s \in S THEN "gone" ELSE said[s]]

Next == \/ \E s \in Sessions : Begin(s) \/ Change(s)
        \/ \E S \in SUBSET Sessions : End(S)

Spec == Init /\ [][Next]_said
=============================================================================
