----------------------------- MODULE MCConsole ------------------------------
(***************************************************************************)
(* A small instance of ConsolePlugin: one plugin of another operator.       *)
(***************************************************************************)
EXTENDS ConsolePlugin

CONSTANTS ours, other
=============================================================================
