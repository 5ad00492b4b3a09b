---------------------------- MODULE MCChatStore ----------------------------
(* Small instances of ChatStore for TLC.                                    *)
EXTENDS ChatStore, TLC

CONSTANTS u1, u2, s1, s2, x, y

MCUsers   == {u1, u2}
MCServers == {s1, s2}
MCTexts   == {x, y}
MCNewTexts == {x}
MCSymmetry == Permutations(MCUsers) \cup Permutations(MCServers)
=============================================================================
