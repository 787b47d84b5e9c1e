---------------------------- MODULE LooseCourier -----------------------------
(***************************************************************************)
(* What the notification path still promises when polls and handlers run   *)
(* at the same time: a ring may come late, and be told of at once; it may  *)
(* be forgotten, until the next of its kind; and a notice that is given    *)
(* beside another of the same queue may take away what that one added.     *)
(***************************************************************************)
EXTENDS Naturals, Sequences

CONSTANTS
  Queues,     \* where notices go
  Receivers,  \* who can be rung: records, s being the queue of the receiver
  Kinds       \* what a notice can be about

VARIABLES
  stored,    \* the kinds of the rows stored, in order
  rung,      \* the rings
  queue,     \* the notices in each queue
  found,     \* the queues, as the notices that are being given have found them
  closing,   \* the queues and kinds of the notices given that are to be settled
  forgotten  \* the rings no notice will tell of

vars == <<stored, rung, queue, found, closing, forgotten>>

Init ==
  /\ stored = <<>>
  /\ rung = {}
  /\ queue = [s \in Queues |-> {}]
  /\ found = {} /\ closing = {} /\ forgotten = {}

Concerns(kind, receiver) == {r \in rung : r.arr = receiver /\ stored[r.row] = kind}

\* A notice tells of the rings of its kind for its receiver, of rows stored by then.
Told(queues) ==
  {r \in rung : \E n \in queues[r.arr.s] :
                  n.arr = r.arr /\ n.box = stored[r.row] /\ n.upto >= r.row}

Closing(kind, receiver) == [s |-> receiver.s, box |-> kind]

\* A row is stored.
Keep(kind) ==
  /\ stored' = Append(stored, kind)
  /\ UNCHANGED <<rung, queue, found, closing, forgotten>>

\* A receiver is rung for a row, once. What was forgotten of the kind is due again.
Ring(row, receiver) ==
  LET r == [row |-> row, arr |-> receiver] IN
  /\ r \notin rung
  /\ rung' = rung \cup {r}
  /\ forgotten' = forgotten \ Concerns(stored[row], receiver)
  /\ UNCHANGED <<stored, queue, found, closing>>

\* A notice is about to be given.
Find(s) ==
  /\ found' = found \cup {[s |-> s, queue |-> queue[s]]}
  /\ UNCHANGED <<stored, rung, queue, closing, forgotten>>

\* A notice of one kind, for a receiver who was rung for that kind, is added to the
\* queue as it is or as it was found. What only the former told of is forgotten, or
\* due again.
Tell(kind, receiver) ==
  LET n == [box |-> kind, arr |-> receiver, upto |-> Len(stored)] IN
  /\ Concerns(kind, receiver) # {}
  /\ \E old \in {f \in found : f.s = receiver.s} :
       /\ \E q \in {queue[receiver.s], old.queue} :
            queue' = [queue EXCEPT ![receiver.s] = q \cup {n}]
       /\ found' \in {found, found \ {old}}
  /\ \E lost \in SUBSET (Told(queue) \ Told(queue')) :
       forgotten' = (forgotten \ Told(queue')) \cup lost
  /\ closing' = closing \cup {Closing(kind, receiver)}
  /\ UNCHANGED <<stored, rung>>

\* A notice given is settled; another of its kind and queue may still have to be. All
\* that is due of that kind for one receiver of the queue may be forgotten.
Settle(kind, receiver) ==
  /\ Closing(kind, receiver) \in closing
  /\ closing' \in {closing, closing \ {Closing(kind, receiver)}}
  /\ forgotten' \in {forgotten, forgotten \cup (Concerns(kind, receiver) \ Told(queue))}
  /\ UNCHANGED <<stored, rung, queue, found>>

Next ==
  \/ \E kind \in Kinds : Keep(kind)
  \/ \E s \in Queues : Find(s)
  \/ \E receiver \in Receivers :
       \/ \E row \in DOMAIN stored : Ring(row, receiver)
       \/ \E kind \in Kinds : Tell(kind, receiver) \/ Settle(kind, receiver)

Spec == Init /\ [][Next]_vars
==============================================================================
