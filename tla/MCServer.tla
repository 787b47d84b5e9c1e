------------------------------- MODULE MCServer -------------------------------
(* An instance of Server.                                                       *)
EXTENDS Server
===============================================================================
