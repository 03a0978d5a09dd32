----------------------------- MODULE MCCommands -----------------------------
(***************************************************************************)
(* The driver with the parser inside it and the grammar of statements, for *)
(* TLC.                                                                    *)
(***************************************************************************)
EXTENDS Driver, Statements
=============================================================================
