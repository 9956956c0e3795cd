---------------------------- MODULE MCFriendship ----------------------------
(* Instances of Friendship for TLC. *)
EXTENDS Friendship

CONSTANTS a, b

Pair == {a, b}
JustA == {a}
JustB == {b}
Nobody == {}

=============================================================================
