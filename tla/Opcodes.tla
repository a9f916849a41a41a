------------------------------ MODULE Opcodes ------------------------------
(***************************************************************************)
(* The opcodes of sdmessage.proto.  A reply carries the opcode of its      *)
(* request plus one.                                                       *)
(***************************************************************************)
EXTENDS Naturals

OP_BAD     == 0
OP_SIZE    == 10
OP_DEL     == 20
OP_GET     == 30
OP_PUT     == 40
OP_GETKEYS == 50
OP_HEIGHT  == 60
OP_VERIFY  == 70
OP_ERROR   == 99

WriteOps == {OP_DEL, OP_PUT}
ReadOps  == {OP_SIZE, OP_GET, OP_GETKEYS, OP_HEIGHT}

=============================================================================
