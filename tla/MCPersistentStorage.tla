-------------------------- MODULE MCPersistentStorage --------------------------
(***************************************************************************)
(* Two registers in a stdio buffer of two; in the run "storage" two threads *)
(* may exist, and the second register has no storage until a file that has *)
(* a value for it is restored.                                             *)
(***************************************************************************)
EXTENDS PersistentStorage

InitialZero == [r \in Regs |-> 0]
=============================================================================
