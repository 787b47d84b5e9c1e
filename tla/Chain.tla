-------------------------------- MODULE Chain ---------------------------------
(***************************************************************************)
(* The life of a session: what Server takes for granted of the handlers    *)
(* that Session spells out. Once a handler has begun to read a body on its *)
(* thread, the session is not closed any more: the handler comes to the    *)
(* end of the body, or the process goes down.                              *)
(***************************************************************************)
CONSTANT First  \* where it begins

\* "ahead" of its accept; "waiting" for a handler that goes on with it; "reading" a
\* body in one; "over", without a handler for good; "astray", out of step with its
\* peer; "down" with the process.
VARIABLE stage

Init == stage = First

Move(from, to) == stage = from /\ stage' = to

\* The connection is accepted, with an error or without.
Begin == Move("ahead", "waiting")

\* A handler begins to read a body.
Read == Move("waiting", "reading")

ReadEnd == Move("reading", "waiting")

\* The last handler of the session ends.
Close == Move("waiting", "over")

\* Undefined behaviour, or a task that is ended twice.
Stray == Move("waiting", "astray")

\* The process ends.
GoDown == stage # "down" /\ stage' = "down"

Next == Begin \/ Read \/ ReadEnd \/ Close \/ Stray \/ GoDown

Spec == Init /\ [][Next]_stage
===============================================================================
