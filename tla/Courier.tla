------------------------------- MODULE Courier -------------------------------
(***************************************************************************)
(* What the notification path promises, without flags, polls or threads: a *)
(* row that was stored is announced to a receiver by a ring, each ring is  *)
(* due until a notice tells of it, and a notice tells of everything that   *)
(* is due of its kind for its receiver.                                    *)
(***************************************************************************)
EXTENDS Naturals, Sequences

CONSTANTS
  Receivers,  \* who can be rung
  Kinds       \* what a notice can be about

VARIABLES
  stored,  \* the kinds of the rows stored, in order
  due,     \* the rings no notice has told of yet
  told     \* the others

vars == <<stored, due, told>>

Init ==
  /\ stored = <<>>
  /\ due = {}
  /\ told = {}

\* A row is stored.
Keep(kind) ==
  /\ stored' = Append(stored, kind)
  /\ UNCHANGED <<due, told>>

\* A receiver is rung for a row, once.
Ring(row, receiver) ==
  LET r == [row |-> row, arr |-> receiver] IN
  /\ r \notin due \cup told
  /\ due' = due \cup {r}
  /\ UNCHANGED <<stored, told>>

\* A notice of one kind to one receiver.
Tell(kind, receiver) ==
  LET all == {r \in due : r.arr = receiver /\ stored[r.row] = kind} IN
  /\ due' = due \ all
  /\ told' = told \cup all
  /\ UNCHANGED stored

Next ==
  \/ \E kind \in Kinds : Keep(kind)
  \/ \E receiver \in Receivers :
       \/ \E row \in DOMAIN stored : Ring(row, receiver)
       \/ \E kind \in Kinds : Tell(kind, receiver)

Spec == Init /\ [][Next]_vars
==============================================================================
