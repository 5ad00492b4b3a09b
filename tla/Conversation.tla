---------------------------- MODULE Conversation ----------------------------
(***************************************************************************)
(* What the private chat (ChatStore) promises its users about rooms and    *)
(* messages, without the calls, caches and servers between them.  A room   *)
(* is opened for two users; a message is posted in it, answers at most one *)
(* message of the same room, is read, and may get another text.  Each of   *)
(* these happens at once, and nothing else ever changes of a message.      *)
(***************************************************************************)
EXTENDS Integers, Sequences

CONSTANTS Users, Texts

VARIABLES
    members,    \* of each room, in the order of creation
    letters     \* the messages, in the order of insertion

chatVars == <<members, letters>>

Letter(r, u, p, text, m) ==
    [room |-> r, from |-> u, to |-> p, text |-> text, answers |-> m, read |-> FALSE]

\* Empty, or with the first message of a room.
Init ==
    \/ members = <<>> /\ letters = <<>>
    \/ \E u, p \in Users, text \in Texts :
          u # p /\ members = <<{u, p}>> /\ letters = <<Letter(1, u, p, text, 0)>>

Open(u, p) ==
    /\ u # p
    /\ members' = Append(members, {u, p})
    /\ UNCHANGED letters

\* A first message of the sender, to the other member of the room.
Post(r, u, p, text) ==
    /\ {u, p} \subseteq members[r]
    /\ letters' = Append(letters, Letter(r, u, p, text, 0))
    /\ UNCHANGED members

\* In the room of the message it answers; who may answer whom is left open.
Answer(m, u, p, text) ==
    /\ letters' = Append(letters, Letter(letters[m].room, u, p, text, m))
    /\ UNCHANGED members

Read(m) ==
    /\ letters' = [letters EXCEPT ![m].read = TRUE]
    /\ UNCHANGED members

Edit(m, text) ==
    /\ letters' = [letters EXCEPT ![m].text = text]
    /\ UNCHANGED members

Next ==
    \/ \E u, p \in Users : Open(u, p)
    \/ \E r \in DOMAIN members, u, p \in Users, text \in Texts : Post(r, u, p, text)
    \/ \E m \in DOMAIN letters, u, p \in Users, text \in Texts : Answer(m, u, p, text)
    \/ \E m \in DOMAIN letters : Read(m) \/ \E text \in Texts : Edit(m, text)

Spec == Init /\ [][Next]_chatVars

(* An answer is in the room of the message it answers, later than that one, *)
(* and a message that answers none is between two members of its room.      *)
Threaded ==
    \A m \in DOMAIN letters :
        LET letter == letters[m] IN
        IF letter.answers = 0
          THEN {letter.from, letter.to} \subseteq members[letter.room]
          ELSE letter.answers < m /\ letters[letter.answers].room = letter.room
=============================================================================
