------------------------------ MODULE MCSession ------------------------------
(* An instance of Session with every command.                                 *)
EXTENDS Session

MCAllCmds == AllCmds
=============================================================================
