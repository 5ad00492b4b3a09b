------------------------------- MODULE Outbox -------------------------------
(***************************************************************************)
(* What a websocket client (ClientPumps) promises to those who send to it, *)
(* without its channels, pumps and clean-ups.  A message that was accepted *)
(* is pending until it is written, with others in one frame, or lost.      *)
(* Nothing is lost before the client leaves.  While one set of pumps is    *)
(* alone, a frame takes the oldest messages, so none overtakes another.    *)
(* Messages are numbered as they are accepted.                             *)
(***************************************************************************)
EXTENDS Integers

VARIABLES accepted, pending, written, lost, leaving, alone

messages == <<accepted, pending, written, lost>>
boxVars  == <<messages, leaving, alone>>

Init ==
    /\ accepted = 0 /\ pending = {} /\ written = {} /\ lost = {}
    /\ leaving = FALSE /\ alone = TRUE

Accept ==
    /\ accepted' = accepted + 1
    /\ pending' = pending \cup {accepted + 1}
    /\ UNCHANGED <<written, lost>>

Write(frame) ==
    /\ alone => \A m \in frame, k \in pending \ frame : m < k
    /\ pending' = pending \ frame
    /\ written' = written \cup frame
    /\ UNCHANGED <<accepted, lost>>

Lose(some) ==
    /\ leaving'
    /\ pending' = pending \ some
    /\ lost' = lost \cup some
    /\ UNCHANGED <<accepted, written>>

\* Whoever leaves does not come back, and sets of pumps only add up.
Next ==
    /\ leaving => leaving'
    /\ alone' => alone
    /\ \/ Accept
       \/ \E some \in SUBSET pending : Write(some) \/ Lose(some)
       \/ UNCHANGED messages

Spec == Init /\ [][Next]_boxVars

(* A message that was written or lost stays that, whatever happens later,   *)
(* and none is lost before the client leaves.                               *)
Settled ==
    /\ written \subseteq written' /\ lost \subseteq lost'
    /\ ~leaving' => lost' = lost
SettledForGood == [][Settled]_boxVars
=============================================================================
