---------------------------- MODULE MCMembership ----------------------------
(* Four servers if orderly, three of them started and killed at any moment *)
(* if not.                                                                 *)
EXTENDS Membership

MCStartable == [o \in BOOLEAN |-> IF o THEN Servers ELSE Servers \ {CHOOSE s \in Servers : TRUE}]

=============================================================================
