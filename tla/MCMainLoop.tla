----------------------------- MODULE MCMainLoop -----------------------------
(* Two clients are enough for one to get the number of the other's closed  *)
(* descriptor; three fill a table of two slots.                            *)
EXTENDS MainLoop

MCMaxClients == [w \in Worlds |-> IF w = "any" THEN 2 ELSE 3]

=============================================================================
