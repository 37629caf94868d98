-------------------------- MODULE MCMCCIServerMain --------------------------
(* An instance of MCCIServerMain for TLC. *)
EXTENDS MCCIServerMain

row(name, type) == [name |-> name, type |-> type]
const_Row == {row("a", 1), row("b", 1), row("a", 2), row("long", 1)}
const_TooLong == {row("long", 1)}
=============================================================================
