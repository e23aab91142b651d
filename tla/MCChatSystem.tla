---------------------------- MODULE MCChatSystem ----------------------------
(***************************************************************************)
(* Instances of ChatSystem for TLC: "bob" and its prefix "bo", one         *)
(* password, and two ports of which one is a prefix of the other.          *)
(***************************************************************************)
EXTENDS ChatSystem, TLC

CONSTANTS bo, bob, pw, c1, c2

ShortNames == [n \in TypedNames |-> {bo} \ {n}]
ShortPasswords == [p \in TypedPasswords |-> {}]
ClientSymmetry == Permutations(Clients)
=============================================================================
