------------------------------- MODULE Source --------------------------------
(***************************************************************************)
(* What becomes of the bytes a session reads and sends: the bodies of      *)
(* requests and the answers to GetMsg, which share the buffer source_, and *)
(* the answers that async_write sends from memory that is gone when the    *)
(* handler has returned. async_write sends at once what the socket takes   *)
(* and the rest when the client has read, from where it was told to.       *)
(*                                                                         *)
(* The chain of handlers is followed until the completed write of an       *)
(* answer to GetMsg has begun a second one: what two chains that read at   *)
(* once do is Session's matter.                                            *)
(***************************************************************************)
EXTENDS PBuffer, Integers, Sequences, FiniteSets

CONSTANTS
  LocalSize,   \* bytes of an answer to a login, GetIvt or GetConnection
  SocketSize,  \* bytes the socket takes before the client reads
  MaxRequests  \* bound: requests sent

\* source_ receives bodies and begins empty; small answers fit into the socket.
ASSUME SourceAssumption ==
  /\ HeaderSize = 0 /\ BodySizes # {}
  /\ LocalSize \in Nat /\ SocketSize \in Nat /\ LocalSize <= SocketSize
  /\ MaxRequests \in Nat

Request == [kind : {"msg"}, size : BodySizes] \cup [kind : {"get", "local"}, size : {0}]

VARIABLES
  wire,    \* the requests sent and not read yet
  asked,   \* how many were sent
  due,     \* how many answers the client has not got whole yet
  pc,      \* what the chain waits for or does next: see the actions
  body,    \* the size of the message in hand
  out,     \* the writes begun, in order
  unread,  \* bytes the socket has taken and the client has not read
  split,   \* a second chain has begun
  late,    \* history: by then the request in hand had something in source_
  eager,   \* history: a request was sent before the answer to another had come
  got,     \* history: of each answer that came whole, if it was what was put together
  stored   \* history: the sizes of the texts, as sent and as stored

vars == <<buffer, wire, asked, due, pc, body, out, unread, split, late, eager, got, stored>>

\* A write: from where, the bytes not taken yet, if what was taken is what was put
\* together, if its handler has run, if the client has got it.
Write == [of : {"source", "local"}, left : Nat, intact : BOOLEAN, late : BOOLEAN,
          done : BOOLEAN, read : BOOLEAN]

TypeOK ==
  /\ BufferTypeOK
  /\ wire \in Seq(Request)
  /\ asked \in 0 .. MaxRequests /\ due \in Int
  /\ pc \in {"head", "body", "text", "rows", "wait", "end"} /\ body \in Nat
  /\ out \in Seq(Write)
  /\ unread \in 0 .. SocketSize
  /\ split \in BOOLEAN /\ late \in BOOLEAN /\ eager \in BOOLEAN
  /\ got \subseteq [intact : BOOLEAN, late : BOOLEAN]
  /\ stored \subseteq [sent : Nat, text : Nat, late : BOOLEAN]

Init ==
  /\ Built
  /\ wire = <<>> /\ asked = 0 /\ due = 0 /\ eager = FALSE
  /\ pc = "head" /\ body = 0 /\ late = FALSE /\ split = FALSE
  /\ out = <<>> /\ unread = 0
  /\ got = {} /\ stored = {}

client == <<wire, asked, due, eager>>
chain  == <<pc, body, late, split>>
socket == <<out, unread>>

-----------------------------------------------------------------------------
(***************************************************************************)
(* The client sends requests when it likes, and reads. An answer of which  *)
(* nothing is left to send is whole when what has come is read.            *)
(***************************************************************************)
Send(r) ==
  /\ asked < MaxRequests
  /\ wire' = Append(wire, r)
  /\ asked' = asked + 1
  /\ due' = IF r.kind = "msg" THEN due ELSE due + 1
  /\ eager' = (eager \/ due > 0)
  /\ UNCHANGED <<buffer, chain, socket, got, stored>>

Sent == {i \in 1 .. Len(out) : out[i].left = 0 /\ ~out[i].read}

Receive ==
  /\ unread > 0 \/ Sent # {}
  /\ unread' = 0
  /\ due' = due - Cardinality(Sent)
  /\ got' = got \cup {[intact |-> out[i].intact, late |-> out[i].late] : i \in Sent}
  /\ out' = [i \in 1 .. Len(out) |-> IF i \in Sent THEN [out[i] EXCEPT !.read = TRUE] ELSE out[i]]
  /\ UNCHANGED <<buffer, chain, wire, asked, eager, stored>>

-----------------------------------------------------------------------------
(***************************************************************************)
(* Writes.                                                                 *)
(***************************************************************************)
UnderWay == {i \in 1 .. Len(out) : out[i].left > 0}

Spoilt(writes) ==
  [i \in 1 .. Len(out) |-> IF i \in writes THEN [out[i] EXCEPT !.intact = FALSE] ELSE out[i]]

\* Whatever goes into source_ while writes from it are under way is sent by them.
Overwrite == out' = Spoilt({i \in UnderWay : out[i].of = "source"})

\* Faulty variant: nothing is sent before the handler returns.
BeginWriteLater(of, n) ==
  /\ out' = Append(Spoilt(UnderWay),
                   [of |-> of, left |-> n, intact |-> UnderWay = {} /\ ~late /\ of = "source",
                    late |-> late, done |-> FALSE, read |-> FALSE])
  /\ UNCHANGED unread

\* async_write of n bytes. The bytes of two writes that are under way at once come
\* mixed. What a local variable leaves to be sent later is no longer there.
BeginWrite(of, n) ==
  LET taken == IF UnderWay = {} THEN Least(n, SocketSize - unread) ELSE 0
  IN
  /\ out' = Append(Spoilt(UnderWay),
                   [of     |-> of,
                    left   |-> n - taken,
                    intact |-> UnderWay = {} /\ ~late /\ (of = "local" => taken = n),
                    late   |-> late, done |-> FALSE, read |-> FALSE])
  /\ unread' = unread + taken

\* Faulty variant: the socket takes all there is.
WriteOnAll(i) ==
  /\ i \in UnderWay
  /\ out' = [out EXCEPT ![i].left = 0]
  /\ unread' = unread + out[i].left
  /\ UNCHANGED <<buffer, client, chain, got, stored>>

\* The socket takes more of a write.
WriteOn(i) ==
  LET taken == Least(out[i].left, SocketSize - unread)
  IN
  /\ i \in UnderWay
  /\ taken > 0
  /\ out' = [out EXCEPT ![i].left = @ - taken]
  /\ unread' = unread + taken
  /\ UNCHANGED <<buffer, client, chain, got, stored>>

\* The handler of a write: task_end, of the chain for a local answer, and for an
\* answer to GetMsg of a request that has been ended before.
WriteEnd(i) ==
  /\ out[i].left = 0 /\ ~out[i].done
  /\ out' = [out EXCEPT ![i].done = TRUE]
  /\ InitRecord
  /\ IF out[i].of = "local"
     THEN pc' = "head" /\ UNCHANGED <<late, split>>
     ELSE split' = TRUE /\ late' = (late \/ (pc \in {"body", "text", "rows"} /\ next > 0)) /\ UNCHANGED pc
  /\ UNCHANGED <<client, body, unread, got, stored>>

-----------------------------------------------------------------------------
(***************************************************************************)
(* The chain. A message: nsrc, its body read, its text stored. GetMsg: the *)
(* rows put into source_, the write begun, and task_end at once. A login,  *)
(* GetIvt or GetConnection: a write begun, and task_end when it is done.   *)
(***************************************************************************)
Begin ==
  /\ pc = "head" /\ ~split
  /\ wire # <<>>
  /\ wire' = Tail(wire)
  /\ \/ /\ Head(wire).kind = "msg"
        /\ TakeBody(Head(wire).size)
        /\ body' = Head(wire).size /\ pc' = "body"
        /\ UNCHANGED socket
     \/ /\ Head(wire).kind = "get"
        /\ pc' = "rows"
        /\ UNCHANGED <<buffer, body, socket>>
     \/ /\ Head(wire).kind = "local"
        /\ BeginWrite("local", LocalSize)
        /\ pc' = "wait"
        /\ UNCHANGED <<buffer, body>>
  /\ UNCHANGED <<asked, due, eager, late, split, got, stored>>

ReadBody ==
  /\ pc = "body"
  /\ IF body > 0 THEN Overwrite ELSE UNCHANGED out
  /\ pc' = "text"
  /\ UNCHANGED <<buffer, client, body, late, split, unread, got, stored>>

\* to_string and insert_message.
StoreText ==
  /\ pc = "text"
  /\ stored' = stored \cup {[sent |-> body, text |-> next, late |-> late]}
  /\ pc' = "end"
  /\ UNCHANGED <<buffer, client, body, late, split, socket, got>>

PutRow(n) ==
  /\ pc = "rows"
  /\ Allocate(n)
  /\ Overwrite
  /\ UNCHANGED <<client, chain, unread, got, stored>>

WriteRows ==
  /\ pc = "rows"
  /\ BeginWrite("source", next)
  /\ pc' = "end"
  /\ UNCHANGED <<buffer, client, body, late, split, got, stored>>

TaskEnd ==
  /\ pc = "end"
  /\ InitRecord
  /\ pc' = "head"
  /\ UNCHANGED <<client, body, late, split, socket, got, stored>>

Next ==
  \/ \E r \in Request : Send(r)
  \/ Receive
  \/ \E i \in 1 .. Len(out) : WriteOn(i) \/ WriteEnd(i)
  \/ Begin \/ ReadBody \/ StoreText
  \/ \E n \in RecordSizes : PutRow(n)
  \/ WriteRows \/ TaskEnd

Spec == Init /\ [][Next]_vars

-----------------------------------------------------------------------------
(***************************************************************************)
(* Properties.                                                             *)
(***************************************************************************)

\* A client that waits for each answer before it sends the next request gets what
\* was put together, from source_ or from a local variable, although the handler
\* has gone on or returned: unless task_end of the GetMsg before comes late, with
\* the rows of the next being put together.
AnswersIntact == ~eager => \A a \in got : a.intact \/ a.late

\* A message is stored with all of its text, unless task_end of the GetMsg before
\* it comes late, between nsrc and to_string: then it is stored empty, also when
\* the client has waited.
TextsWhole == \A t \in stored : t.text = t.sent \/ t.late
==============================================================================
