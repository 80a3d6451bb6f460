--------------------------- MODULE MCReactorProgress ---------------------------
(*****************************************************************************)
(* The shared reactor under a server with one connection, for TLC.           *)
(*****************************************************************************)
EXTENDS Reactor

\* A kernel that has every opcode.
AllFound == {all_opcodes}
================================================================================
