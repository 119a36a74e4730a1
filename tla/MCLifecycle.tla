---------------------------- MODULE MCLifecycle ----------------------------
(***************************************************************************)
(* Small instances of the life of a room for TLC.                          *)
(***************************************************************************)
EXTENDS LifecycleProperties

CONSTANTS a1, a2, b1, b2, c1, s1, s2, s3, s4, t1, t2, t3, t4, w1, w2, w3

(* Two nicknames, each for two players: one who is timed out and joins     *)
(* again is a new player.                                                  *)
Anna == "anna"
Boris == "boris"
TwoNames == {Anna, Boris}
TwoEach == {a1, a2, b1, b2}
NamesOfTwo == (a1 :> Anna) @@ (a2 :> Anna) @@ (b1 :> Boris) @@ (b2 :> Boris)

(* One player to a nickname, which is the id.                              *)
Two == {a1, b1}
Three == {a1, b1, c1}
Itself == [p \in PlayerIds |-> p]

ThreeSockets == {s1, s2, s3}
FourSockets == {s1, s2, s3, s4}
ThreeSessions == {t1, t2, t3}
FourSessions == {t1, t2, t3, t4}

ThreeWords == {w1, w2, w3}
OneLetter == [w \in Words |-> 1]

(* The two players of a nickname are interchangeable, and so are players   *)
(* who are their own nicknames.                                            *)
Anonymous == Permutations(Sockets) \cup Permutations(SessionIds)
TwoEachSymmetry == Anonymous \cup Permutations({a1, a2}) \cup Permutations({b1, b2})
PlayerSymmetry == Anonymous \cup Permutations(PlayerIds)
=============================================================================
