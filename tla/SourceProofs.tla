---------------------------- MODULE SourceProofs -----------------------------
(***************************************************************************)
(* Theorems about Source, for every size of buffers, records, bodies and   *)
(* the socket, and any number of requests.                                 *)
(***************************************************************************)
EXTENDS Source, PBufferProofs, FiniteSetTheorems

-----------------------------------------------------------------------------
(***************************************************************************)
(* Types.                                                                  *)
(***************************************************************************)

LEMMA HeadIsRequest ==
  ASSUME wire \in Seq(Request), wire # <<>>
  PROVE  /\ Head(wire) \in Request /\ Tail(wire) \in Seq(Request)
         /\ Head(wire).kind = "msg" => Head(wire).size \in BodySizes
<1>1. Head(wire) \in Request /\ Tail(wire) \in Seq(Request)
  OBVIOUS
<1> QED
  BY <1>1 DEF Request

\* Every step uses the buffer as PBuffer says, or leaves it alone.
LEMMA StepUses == TypeOK /\ [Next]_vars => [Use]_buffer
<1> SUFFICES ASSUME TypeOK, [Next]_vars PROVE [Use]_buffer
  OBVIOUS
<1>0. BodySizes # {}
  BY SourceAssumption
<1>1. ASSUME NEW r \in Request, Send(r) PROVE [Use]_buffer
  BY <1>1 DEF Send
<1>2. CASE Receive
  BY <1>2 DEF Receive
<1>3. ASSUME NEW i \in 1 .. Len(out), WriteOn(i) PROVE [Use]_buffer
  BY <1>3 DEF WriteOn
<1>4. ASSUME NEW i \in 1 .. Len(out), WriteEnd(i) PROVE [Use]_buffer
  BY <1>0, <1>4 DEF WriteEnd, Use
<1>5. CASE Begin
  <2>1. wire \in Seq(Request) /\ wire # <<>>
    BY <1>5 DEF Begin, TypeOK
  <2>2. CASE Head(wire).kind = "msg" /\ TakeBody(Head(wire).size)
    BY <2>1, <2>2, HeadIsRequest DEF Use
  <2>3. CASE UNCHANGED buffer
    BY <2>3
  <2> QED
    BY <1>5, <2>2, <2>3 DEF Begin
<1>6. CASE ReadBody
  BY <1>6 DEF ReadBody
<1>7. CASE StoreText
  BY <1>7 DEF StoreText
<1>8. ASSUME NEW n \in RecordSizes, PutRow(n) PROVE [Use]_buffer
  BY <1>8 DEF PutRow, Use
<1>9. CASE WriteRows
  BY <1>9 DEF WriteRows
<1>10. CASE TaskEnd
  BY <1>0, <1>10 DEF TaskEnd, Use
<1>11. CASE UNCHANGED vars
  BY <1>11 DEF vars
<1> QED
  BY <1>1, <1>2, <1>3, <1>4, <1>5, <1>6, <1>7, <1>8, <1>9, <1>10, <1>11 DEF Next

\* A write stays one when what is recorded of it changes.
LEMMA ChangedIsWrite ==
  ASSUME NEW w \in Write
  PROVE  /\ [w EXCEPT !.intact = FALSE] \in Write
         /\ [w EXCEPT !.read = TRUE] \in Write
         /\ [w EXCEPT !.done = TRUE] \in Write
         /\ w.left \in Nat
         /\ [intact |-> w.intact, late |-> w.late] \in [intact : BOOLEAN, late : BOOLEAN]
BY DEF Write

\* What is recorded of a write changes nothing else of it.
LEMMA ChangedKeeps ==
  ASSUME NEW w \in Write
  PROVE  /\ [w EXCEPT !.intact = FALSE].read = w.read /\ [w EXCEPT !.intact = FALSE].left = w.left
         /\ [w EXCEPT !.intact = FALSE].of = w.of /\ [w EXCEPT !.intact = FALSE].done = w.done
         /\ [w EXCEPT !.done = TRUE].read = w.read /\ [w EXCEPT !.done = TRUE].left = w.left
         /\ [w EXCEPT !.done = TRUE].of = w.of /\ [w EXCEPT !.done = TRUE].done
BY DEF Write

\* Spoiling writes changes nothing of them but that they are no longer intact.
LEMMA SpoiltOnly ==
  ASSUME out \in Seq(Write), NEW W
  PROVE  /\ Spoilt(W) \in Seq(Write) /\ Len(Spoilt(W)) = Len(out)
         /\ \A i \in 1 .. Len(out) : Spoilt(W)[i] = IF i \in W THEN [out[i] EXCEPT !.intact = FALSE]
                                                               ELSE out[i]
<1>1. \A i \in 1 .. Len(out) : out[i] \in Write
  OBVIOUS
<1>2. \A i \in 1 .. Len(out) : Spoilt(W)[i] \in Write
  BY <1>1, ChangedIsWrite DEF Spoilt
<1>3. Spoilt(W) \in [1 .. Len(out) -> Write]
  BY <1>2 DEF Spoilt
<1>4. Len(out) \in Nat
  OBVIOUS
<1>5. Spoilt(W) \in Seq(Write) /\ Len(Spoilt(W)) = Len(out)
  BY <1>3, <1>4
<1> QED
  BY <1>5 DEF Spoilt

\* The socket takes no more than it has room for.
LEMMA TakenFits ==
  ASSUME NEW n \in Nat, unread \in 0 .. SocketSize
  PROVE  LET taken == Least(n, SocketSize - unread)
         IN  taken \in Nat /\ taken <= n /\ unread + taken \in 0 .. SocketSize
BY SourceAssumption DEF Least

\* A write that is begun is one more, at the end.
LEMMA BegunIsWrite ==
  ASSUME TypeOK, NEW of \in {"source", "local"}, NEW n \in Nat, BeginWrite(of, n)
  PROVE  /\ out' \in Seq(Write) /\ unread' \in 0 .. SocketSize
<1> DEFINE taken == IF UnderWay = {} THEN Least(n, SocketSize - unread) ELSE 0
           w == [of     |-> of,
                 left   |-> n - taken,
                 intact |-> UnderWay = {} /\ ~late /\ (of = "local" => taken = n),
                 late   |-> late, done |-> FALSE, read |-> FALSE]
<1>1. out \in Seq(Write) /\ unread \in 0 .. SocketSize /\ late \in BOOLEAN
  BY DEF TypeOK
<1>2. taken \in Nat /\ taken <= n /\ unread + taken \in 0 .. SocketSize
  BY <1>1, TakenFits, SourceAssumption
<1>3. n - taken \in Nat
  BY <1>2
<1>4. out' = Append(Spoilt(UnderWay), w) /\ unread' = unread + taken
  BY Zenon DEF BeginWrite
<1> HIDE DEF taken
<1>5. (UnderWay = {} /\ ~late /\ (of = "local" => taken = n)) \in BOOLEAN
  OBVIOUS
<1>6. w \in Write
  BY <1>1, <1>3, <1>5 DEF Write
<1>7. Spoilt(UnderWay) \in Seq(Write)
  BY <1>1, SpoiltOnly
<1> HIDE DEF w
<1> QED
  BY <1>2, <1>4, <1>6, <1>7

LEMMA TypeInit == Init => TypeOK
<1> SUFFICES ASSUME Init PROVE TypeOK
  OBVIOUS
<1>1. BufferTypeOK
  BY StartsInBounds DEF Init
<1>2. wire \in Seq(Request) /\ out \in Seq(Write) /\ got \subseteq {} /\ stored \subseteq {}
  BY DEF Init
<1>3. asked \in 0 .. MaxRequests /\ due \in Int /\ body \in Nat /\ unread \in 0 .. SocketSize
  BY SourceAssumption DEF Init
<1>4. split \in BOOLEAN /\ late \in BOOLEAN /\ eager \in BOOLEAN /\ pc = "head"
  BY Zenon DEF Init
<1> QED
  BY <1>1, <1>2, <1>3, <1>4 DEF TypeOK

LEMMA TypeNext == TypeOK /\ [Next]_vars => TypeOK'
<1> SUFFICES ASSUME TypeOK, [Next]_vars PROVE TypeOK'
  OBVIOUS
<1>0. BufferTypeOK'
  BY StepUses, TypeStep DEF TypeOK
<1>1. ASSUME NEW r \in Request, Send(r) PROVE TypeOK'
  <2>1. wire' \in Seq(Request) /\ asked' \in 0 .. MaxRequests /\ due' \in Int /\ eager' \in BOOLEAN
    BY <1>1, SourceAssumption DEF Send, TypeOK
  <2> QED
    BY <1>0, <1>1, <2>1 DEF Send, TypeOK, chain, socket
<1>2. CASE Receive
  <2>1. out \in Seq(Write)
    BY DEF TypeOK
  <2>2. Sent \in SUBSET (1 .. Len(out))
    BY DEF Sent
  <2>3. Cardinality(Sent) \in Nat
    <3>1. Len(out) \in Int /\ 1 \in Int
      BY <2>1
    <3>2. IsFiniteSet(1 .. Len(out))
      BY <3>1, FS_Interval
    <3>3. IsFiniteSet(Sent)
      BY <2>2, <3>2, FS_Subset
    <3> QED
      BY <3>3, FS_CardinalityType
  <2>4. due' \in Int
    BY <1>2, <2>3 DEF Receive, TypeOK
  <2>5. \A i \in 1 .. Len(out) : /\ out[i] \in Write /\ [out[i] EXCEPT !.read = TRUE] \in Write
                                 /\ [intact |-> out[i].intact, late |-> out[i].late]
                                      \in [intact : BOOLEAN, late : BOOLEAN]
    <3>1. \A i \in 1 .. Len(out) : out[i] \in Write
      BY <2>1
    <3> QED
      BY <3>1, ChangedIsWrite
  <2>6. out' \in [1 .. Len(out) -> Write]
    BY <1>2, <2>5 DEF Receive
  <2>7. out' \in Seq(Write)
    BY <2>1, <2>6
  <2>8. got' \subseteq [intact : BOOLEAN, late : BOOLEAN]
    <3>1. got' = got \cup {[intact |-> out[i].intact, late |-> out[i].late] : i \in Sent}
      BY <1>2 DEF Receive
    <3>2. got \subseteq [intact : BOOLEAN, late : BOOLEAN]
      BY DEF TypeOK
    <3> QED
      BY <2>2, <2>5, <3>1, <3>2
  <2>9. unread' \in 0 .. SocketSize
    BY <1>2, SourceAssumption DEF Receive
  <2> QED
    BY <1>0, <1>2, <2>4, <2>7, <2>8, <2>9 DEF Receive, TypeOK, chain
<1>3. ASSUME NEW i \in 1 .. Len(out), WriteOn(i) PROVE TypeOK'
  <2> DEFINE taken == Least(out[i].left, SocketSize - unread)
  <2>1. out \in Seq(Write) /\ out[i] \in Write /\ unread \in 0 .. SocketSize
    BY <1>3 DEF TypeOK
  <2>2. out[i].left \in Nat
    BY <2>1 DEF Write
  <2>3. taken \in Nat /\ taken <= out[i].left /\ unread + taken \in 0 .. SocketSize
    BY <2>1, <2>2, TakenFits
  <2>4. out' = [out EXCEPT ![i].left = @ - taken] /\ unread' = unread + taken
    BY <1>3 DEF WriteOn
  <2> HIDE DEF taken
  <2>5. out[i].left - taken \in Nat
    BY <2>2, <2>3
  <2>6. [out[i] EXCEPT !.left = @ - taken] \in Write
    BY <2>1, <2>5 DEF Write
  <2>7. out' \in Seq(Write)
    BY <2>1, <2>4, <2>6
  <2> QED
    BY <1>0, <1>3, <2>3, <2>4, <2>7 DEF WriteOn, TypeOK, chain, client
<1>4. ASSUME NEW i \in 1 .. Len(out), WriteEnd(i) PROVE TypeOK'
  <2>1. out \in Seq(Write) /\ out[i] \in Write
    BY <1>4 DEF TypeOK
  <2>2. [out[i] EXCEPT !.done = TRUE] \in Write
    BY <2>1, ChangedIsWrite
  <2>3. out' \in Seq(Write)
    BY <1>4, <2>1, <2>2 DEF WriteEnd
  <2>4. pc' \in {"head", "body", "text", "rows", "wait", "end"} /\ split' \in BOOLEAN /\ late' \in BOOLEAN
    BY <1>4, Zenon DEF WriteEnd, TypeOK
  <2> QED
    BY <1>0, <1>4, <2>3, <2>4 DEF WriteEnd, TypeOK, client
<1>5. CASE Begin
  <2>1. wire \in Seq(Request) /\ wire # <<>> /\ wire' = Tail(wire)
    BY <1>5 DEF Begin, TypeOK
  <2>2. wire' \in Seq(Request)
    BY <2>1, HeadIsRequest
  <2>3. pc' \in {"body", "rows", "wait"} /\ body' \in Nat
    BY <1>5, <2>1, HeadIsRequest, PBufferAssumption DEF Begin, TypeOK
  <2>4. out' \in Seq(Write) /\ unread' \in 0 .. SocketSize
    <3>1. CASE UNCHANGED socket
      BY <3>1 DEF socket, TypeOK
    <3>2. CASE BeginWrite("local", LocalSize)
      BY <3>2, BegunIsWrite, SourceAssumption
    <3> QED
      BY <1>5, <3>1, <3>2 DEF Begin
  <2> QED
    BY <1>0, <1>5, <2>2, <2>3, <2>4 DEF Begin, TypeOK
<1>6. CASE ReadBody
  <2>1. out' \in Seq(Write)
    BY <1>6, SpoiltOnly DEF ReadBody, Overwrite, TypeOK
  <2> QED
    BY <1>0, <1>6, <2>1 DEF ReadBody, TypeOK, client
<1>7. CASE StoreText
  <2>1. next \in Nat /\ body \in Nat /\ late \in BOOLEAN
    BY DEF TypeOK, BufferTypeOK
  <2>2. stored' \subseteq [sent : Nat, text : Nat, late : BOOLEAN]
    BY <1>7, <2>1 DEF StoreText, TypeOK
  <2> QED
    BY <1>0, <1>7, <2>2 DEF StoreText, TypeOK, client, socket
<1>8. ASSUME NEW n \in RecordSizes, PutRow(n) PROVE TypeOK'
  <2>1. out' \in Seq(Write)
    BY <1>8, SpoiltOnly DEF PutRow, Overwrite, TypeOK
  <2> QED
    BY <1>0, <1>8, <2>1 DEF PutRow, TypeOK, client, chain
<1>9. CASE WriteRows
  <2>1. next \in Nat
    BY DEF TypeOK, BufferTypeOK
  <2>2. out' \in Seq(Write) /\ unread' \in 0 .. SocketSize
    BY <1>9, <2>1, BegunIsWrite DEF WriteRows
  <2> QED
    BY <1>0, <1>9, <2>2 DEF WriteRows, TypeOK, client
<1>10. CASE TaskEnd
  BY <1>0, <1>10 DEF TaskEnd, TypeOK, client, socket
<1>11. CASE UNCHANGED vars
  BY <1>0, <1>11 DEF vars, TypeOK
<1> QED
  BY <1>1, <1>2, <1>3, <1>4, <1>5, <1>6, <1>7, <1>8, <1>9, <1>10, <1>11 DEF Next

\* The buffer, the writes and what is recorded of them are what TypeOK says.
THEOREM SourceIsTyped == Spec => []TypeOK
<1> QED
  BY TypeInit, TypeNext, PTL DEF Spec

\* Nothing is written past source_ unless a record is bigger than it takes itself
\* to be or a body bigger than it is, whatever is sent from it meanwhile.
THEOREM SourceInBounds == Spec => []InBounds
<1>1. Init => InBounds
  BY StartsInBounds DEF Init
<1>2. TypeOK /\ InBounds /\ [Next]_vars => InBounds'
  BY StepUses, BoundsStep DEF TypeOK
<1> QED
  BY <1>1, <1>2, SourceIsTyped, PTL DEF Spec

-----------------------------------------------------------------------------
(***************************************************************************)
(* Texts.                                                                  *)
(***************************************************************************)

\* Between nsrc and to_string source_ holds the body, unless task_end came late.
BodyHeld == pc \in {"body", "text"} => next = body \/ late

\* Every text is stored whole, unless task_end of the GetMsg before came late.
THEOREM TextsAreWhole == Spec => []TextsWhole
<1> DEFINE Inv == BodyHeld /\ TextsWhole
<1>1. Init => Inv
  BY DEF Init, BodyHeld, TextsWhole
<1>2. TypeOK /\ Inv /\ [Next]_vars => Inv'
  <2> SUFFICES ASSUME TypeOK, Inv, [Next]_vars PROVE Inv'
    OBVIOUS
  <2>1. ASSUME NEW r \in Request, Send(r) PROVE Inv'
    BY <2>1 DEF Send, buffer, chain, BodyHeld, TextsWhole
  <2>2. CASE Receive
    BY <2>2 DEF Receive, buffer, chain, BodyHeld, TextsWhole
  <2>3. ASSUME NEW i \in 1 .. Len(out), WriteOn(i) PROVE Inv'
    BY <2>3 DEF WriteOn, buffer, chain, BodyHeld, TextsWhole
  <2>4. ASSUME NEW i \in 1 .. Len(out), WriteEnd(i) PROVE Inv'
    <3>1. CASE out[i].of = "local"
      BY <2>4, <3>1 DEF WriteEnd, BodyHeld, TextsWhole
    <3>2. CASE out[i].of # "local"
      <4>1. next' = 0 /\ body' = body /\ pc' = pc /\ stored' = stored
        BY <2>4, <3>2 DEF WriteEnd, InitRecord
      <4>2. late' = (late \/ (pc \in {"body", "text", "rows"} /\ next > 0))
        BY <2>4, <3>2 DEF WriteEnd
      <4>3. next = 0 \/ next > 0
        BY DEF TypeOK, BufferTypeOK
      <4>4. pc \in {"body", "text"} => next = 0 \/ late'
        BY <4>2, <4>3, Zenon
      <4>5. late => late'
        BY <4>2
      <4> QED
        BY <4>1, <4>4, <4>5 DEF BodyHeld, TextsWhole
    <3> QED
      BY <3>1, <3>2
  <2>5. CASE Begin
    <3>1. CASE Head(wire).kind = "msg" /\ TakeBody(Head(wire).size) /\ body' = Head(wire).size
      BY <2>5, <3>1 DEF Begin, TakeBody, BodyHeld, TextsWhole
    <3>2. CASE pc' \in {"rows", "wait"}
      BY <2>5, <3>2 DEF Begin, BodyHeld, TextsWhole
    <3> QED
      BY <2>5, <3>1, <3>2 DEF Begin
  <2>6. CASE ReadBody
    BY <2>6 DEF ReadBody, buffer, BodyHeld, TextsWhole
  <2>7. CASE StoreText
    BY <2>7 DEF StoreText, BodyHeld, TextsWhole
  <2>8. ASSUME NEW n \in RecordSizes, PutRow(n) PROVE Inv'
    BY <2>8 DEF PutRow, chain, BodyHeld, TextsWhole
  <2>9. CASE WriteRows
    BY <2>9 DEF WriteRows, BodyHeld, TextsWhole
  <2>10. CASE TaskEnd
    BY <2>10 DEF TaskEnd, BodyHeld, TextsWhole
  <2>11. CASE UNCHANGED vars
    BY <2>11 DEF vars, buffer, BodyHeld, TextsWhole
  <2> QED
    BY <2>1, <2>2, <2>3, <2>4, <2>5, <2>6, <2>7, <2>8, <2>9, <2>10, <2>11 DEF Next
<1> QED
  BY <1>1, <1>2, SourceIsTyped, PTL DEF Spec
-----------------------------------------------------------------------------
(***************************************************************************)
(* Answers. A client that waits for each answer is, of the one it waits    *)
(* for, at one of four points; the answers before it have all been read.   *)
(***************************************************************************)

AllRead(k) == \A i \in 1 .. k : out[i].read
NoneDue(k) == \A i \in 1 .. k : wire[i].kind = "msg"

\* Nothing is asked for; it is asked for and on the wire; its rows are put
\* together; its write has begun.
Idle   == due = 0 /\ AllRead(Len(out)) /\ unread = 0 /\ pc # "rows" /\ NoneDue(Len(wire))
Asked  == /\ due = 1 /\ AllRead(Len(out)) /\ unread = 0 /\ pc # "rows"
          /\ wire # <<>> /\ NoneDue(Len(wire) - 1) /\ wire[Len(wire)].kind # "msg"
Made   == due = 1 /\ AllRead(Len(out)) /\ unread = 0 /\ pc = "rows" /\ wire = <<>>
Coming == /\ due = 1 /\ out # <<>> /\ AllRead(Len(out) - 1) /\ ~out[Len(out)].read
          /\ out[Len(out)].intact \/ out[Len(out)].late
          /\ pc \notin {"rows", "body"} /\ wire = <<>>

Patient == ~eager => /\ Idle \/ Asked \/ Made \/ Coming
                     /\ \A a \in got : a.intact \/ a.late

\* What has been read was sent whole; of the local answers at most one has a handler
\* to come, and the chain waits for it.
Undone(i) == i \in 1 .. Len(out) /\ out[i].of = "local" /\ ~out[i].done
WritesInOrder ==
  /\ \A i \in 1 .. Len(out) : out[i].read => out[i].left = 0
  /\ \A i, j \in 1 .. Len(out) : Undone(i) /\ Undone(j) => i = j /\ pc = "wait"

LEMMA AllReadAllSent ==
  ASSUME TypeOK, WritesInOrder, AllRead(Len(out)) PROVE UnderWay = {} /\ Sent = {}
<1>1. \A i \in 1 .. Len(out) : out[i].left = 0 /\ out[i].read
  BY DEF WritesInOrder, AllRead
<1> QED
  BY <1>1 DEF UnderWay, Sent

\* The last write of a sequence in which one has begun, and the others.
LEMMA BegunIsLast ==
  ASSUME TypeOK, NEW of \in {"source", "local"}, NEW n \in Nat, BeginWrite(of, n)
  PROVE  /\ Len(out') = Len(out) + 1
         /\ \A i \in 1 .. Len(out) :
              /\ out'[i].read = out[i].read /\ out'[i].left = out[i].left
              /\ out'[i].of = out[i].of /\ out'[i].done = out[i].done
         /\ out'[Len(out) + 1].read = FALSE
         /\ out'[Len(out) + 1].of = of /\ out'[Len(out) + 1].done = FALSE
         /\ out'[Len(out) + 1].late = late
         /\ UnderWay = {} /\ ~late /\ (of = "local" => n <= SocketSize /\ unread = 0)
              => out'[Len(out) + 1].intact
<1> DEFINE taken == IF UnderWay = {} THEN Least(n, SocketSize - unread) ELSE 0
           w == [of     |-> of,
                 left   |-> n - taken,
                 intact |-> UnderWay = {} /\ ~late /\ (of = "local" => taken = n),
                 late   |-> late, done |-> FALSE, read |-> FALSE]
<1>1. out' = Append(Spoilt(UnderWay), w)
  BY Zenon DEF BeginWrite
<1>2. out \in Seq(Write) /\ unread \in 0 .. SocketSize
  BY DEF TypeOK
<1>3. /\ Spoilt(UnderWay) \in Seq(Write) /\ Len(Spoilt(UnderWay)) = Len(out)
      /\ \A i \in 1 .. Len(out) : Spoilt(UnderWay)[i] = IF i \in UnderWay
                                   THEN [out[i] EXCEPT !.intact = FALSE] ELSE out[i]
  BY <1>2, SpoiltOnly
<1>4. UnderWay = {} /\ n <= SocketSize /\ unread = 0 => taken = n
  BY <1>2, SourceAssumption DEF Least
<1> HIDE DEF taken
<1>5. w.read = FALSE /\ w.of = of /\ w.done = FALSE /\ w.late = late
  OBVIOUS
<1>6. UnderWay = {} /\ ~late /\ (of = "local" => n <= SocketSize /\ unread = 0) => w.intact
  BY <1>4, Zenon
<1> HIDE DEF w
<1>7. Len(out') = Len(out) + 1 /\ out'[Len(out) + 1] = w
  BY <1>1, <1>3
<1>8. \A i \in 1 .. Len(out) : out'[i] = Spoilt(UnderWay)[i] /\ out[i] \in Write
  BY <1>1, <1>2, <1>3
<1>9. ASSUME NEW i \in 1 .. Len(out)
      PROVE  /\ out'[i].read = out[i].read /\ out'[i].left = out[i].left
             /\ out'[i].of = out[i].of /\ out'[i].done = out[i].done
  <2>1. out'[i] = out[i] \/ out'[i] = [out[i] EXCEPT !.intact = FALSE]
    BY <1>3, <1>8
  <2> QED
    BY <1>8, <2>1, ChangedKeeps
<1> QED
  BY <1>5, <1>6, <1>7, <1>9

\* Overwriting leaves the writes what they are but for what they send.
LEMMA OverwriteOnly ==
  ASSUME TypeOK, Overwrite
  PROVE  /\ Len(out') = Len(out)
         /\ \A i \in 1 .. Len(out) :
              /\ out'[i].read = out[i].read /\ out'[i].left = out[i].left
              /\ out'[i].of = out[i].of /\ out'[i].done = out[i].done
<1> DEFINE W == {i \in UnderWay : out[i].of = "source"}
<1>1. out \in Seq(Write) /\ out' = Spoilt(W)
  BY DEF TypeOK, Overwrite
<1>2. \A i \in 1 .. Len(out) : out[i] \in Write
  BY <1>1
<1> HIDE DEF W
<1>3. Len(out') = Len(out)
  BY <1>1, SpoiltOnly
<1>4. ASSUME NEW i \in 1 .. Len(out)
      PROVE  /\ out'[i].read = out[i].read /\ out'[i].left = out[i].left
             /\ out'[i].of = out[i].of /\ out'[i].done = out[i].done
  <2>1. out'[i] = out[i] \/ out'[i] = [out[i] EXCEPT !.intact = FALSE]
    BY <1>1, SpoiltOnly
  <2> QED
    BY <1>2, <2>1, ChangedKeeps
<1> QED
  BY <1>3, <1>4

LEMMA OrderNext == TypeOK /\ WritesInOrder /\ [Next]_vars => WritesInOrder'
<1> SUFFICES ASSUME TypeOK, WritesInOrder, [Next]_vars PROVE WritesInOrder'
  OBVIOUS
<1>0. out \in Seq(Write) /\ Len(out) \in Nat /\ \A i \in 1 .. Len(out) : out[i] \in Write
  BY DEF TypeOK
<1>1. ASSUME NEW r \in Request, Send(r) PROVE WritesInOrder'
  BY <1>1 DEF Send, chain, socket, WritesInOrder, Undone
<1>2. CASE Receive
  <2>1. out' = [i \in 1 .. Len(out) |-> IF i \in Sent THEN [out[i] EXCEPT !.read = TRUE] ELSE out[i]]
    BY <1>2 DEF Receive
  <2>2. Len(out') = Len(out) /\ pc' = pc
    BY <1>0, <1>2, <2>1 DEF Receive, chain
  <2>3. \A i \in 1 .. Len(out) : /\ out'[i].left = out[i].left /\ out'[i].of = out[i].of
                                 /\ out'[i].done = out[i].done
                                 /\ out'[i].read => out[i].read \/ out[i].left = 0
    BY <1>0, <2>1 DEF Sent, Write
  <2> QED
    BY <2>2, <2>3 DEF WritesInOrder, Undone
<1>3. ASSUME NEW i \in 1 .. Len(out), WriteOn(i) PROVE WritesInOrder'
  <2>1. out' = [out EXCEPT ![i].left = @ - Least(out[i].left, SocketSize - unread)] /\ pc' = pc
    BY <1>3 DEF WriteOn, chain
  <2>2. out[i].left > 0
    BY <1>3 DEF WriteOn, UnderWay
  <2>3. ~out[i].read
    BY <1>0, <2>2 DEF WritesInOrder
  <2>4. /\ Len(out') = Len(out)
        /\ \A j \in 1 .. Len(out) : /\ out'[j].read = out[j].read /\ out'[j].of = out[j].of
                                     /\ out'[j].done = out[j].done
                                     /\ j # i => out'[j].left = out[j].left
    BY <1>0, <2>1 DEF Write
  <2> QED
    BY <2>1, <2>3, <2>4 DEF WritesInOrder, Undone
<1>4. ASSUME NEW i \in 1 .. Len(out), WriteEnd(i) PROVE WritesInOrder'
  <2>1. /\ Len(out') = Len(out)
        /\ \A j \in 1 .. Len(out) : /\ out'[j].read = out[j].read /\ out'[j].of = out[j].of
                                     /\ out'[j].left = out[j].left
                                     /\ out'[j].done = (IF j = i THEN TRUE ELSE out[j].done)
    <3>1. out' = [out EXCEPT ![i] = [out[i] EXCEPT !.done = TRUE]]
      BY <1>4 DEF WriteEnd
    <3>2. Len(out') = Len(out) /\ \A j \in 1 .. Len(out) : j # i => out'[j] = out[j]
      BY <1>0, <3>1
    <3>3. out'[i] = [out[i] EXCEPT !.done = TRUE]
      <4>1. PICK w : w = [out[i] EXCEPT !.done = TRUE]
        OBVIOUS
      <4>2. out' = [out EXCEPT ![i] = w]
        BY <3>1, <4>1
      <4>3. out'[i] = w
        BY <1>0, <4>2
      <4> QED
        BY <4>1, <4>3
    <3>4. /\ out'[i].read = out[i].read /\ out'[i].of = out[i].of
          /\ out'[i].left = out[i].left /\ out'[i].done = TRUE
      <4>1. out[i] \in Write /\ [out[i] EXCEPT !.done = TRUE] \in Write
        BY <1>0, ChangedIsWrite
      <4> QED
        BY <3>3, <4>1, ChangedKeeps DEF Write
    <3> QED
      BY <3>2, <3>4
  <2>2. CASE out[i].of = "local"
    <3>1. Undone(i)
      BY <1>4, <2>2 DEF WriteEnd, Undone
    <3>2. \A j \in 1 .. Len(out) : ~Undone(j)'
      BY <2>1, <3>1 DEF WritesInOrder, Undone
    <3> QED
      BY <2>1, <3>2 DEF WritesInOrder
  <2>3. CASE out[i].of # "local"
    BY <1>4, <2>1, <2>3 DEF WriteEnd, WritesInOrder, Undone
  <2> QED
    BY <2>2, <2>3
<1>5. CASE Begin
  <2>0. \A i \in 1 .. Len(out) : ~Undone(i)
    BY <1>5 DEF Begin, WritesInOrder
  <2>1. CASE BeginWrite("local", LocalSize) /\ pc' = "wait"
    <3>1. /\ Len(out') = Len(out) + 1
          /\ \A i \in 1 .. Len(out) :
               /\ out'[i].read = out[i].read /\ out'[i].left = out[i].left
               /\ out'[i].of = out[i].of /\ out'[i].done = out[i].done
          /\ out'[Len(out) + 1].read = FALSE
      BY <2>1, BegunIsLast, SourceAssumption
    <3>2. \A i \in 1 .. Len(out') : i \in 1 .. Len(out) \/ i = Len(out) + 1
      BY <1>0, <3>1
    <3>3. \A i \in 1 .. Len(out) : ~Undone(i)'
      BY <2>0, <3>1 DEF Undone
    <3> QED
      BY <2>1, <3>1, <3>2, <3>3 DEF WritesInOrder
  <2>2. CASE UNCHANGED socket
    BY <2>0, <2>2 DEF socket, WritesInOrder, Undone
  <2> QED
    BY <1>5, <2>1, <2>2 DEF Begin
<1>6. CASE ReadBody
  <2>0. \A i \in 1 .. Len(out) : ~Undone(i)
    BY <1>6 DEF ReadBody, WritesInOrder
  <2>1. /\ Len(out') = Len(out)
        /\ \A i \in 1 .. Len(out) :
             /\ out'[i].read = out[i].read /\ out'[i].left = out[i].left
             /\ out'[i].of = out[i].of /\ out'[i].done = out[i].done
    BY <1>6, OverwriteOnly DEF ReadBody
  <2> QED
    BY <2>0, <2>1 DEF WritesInOrder, Undone
<1>7. CASE StoreText
  BY <1>7 DEF StoreText, socket, WritesInOrder, Undone
<1>8. ASSUME NEW n \in RecordSizes, PutRow(n) PROVE WritesInOrder'
  <2>1. pc' = pc /\ Overwrite
    BY <1>8 DEF PutRow, chain
  <2> QED
    BY <2>1, OverwriteOnly DEF WritesInOrder, Undone
<1>9. CASE WriteRows
  <2>0. \A i \in 1 .. Len(out) : ~Undone(i)
    BY <1>9 DEF WriteRows, WritesInOrder
  <2>1. /\ Len(out') = Len(out) + 1
        /\ \A i \in 1 .. Len(out) :
             /\ out'[i].read = out[i].read /\ out'[i].left = out[i].left
             /\ out'[i].of = out[i].of /\ out'[i].done = out[i].done
        /\ out'[Len(out) + 1].read = FALSE /\ out'[Len(out) + 1].of = "source"
    BY <1>9, BegunIsLast DEF WriteRows, TypeOK, BufferTypeOK
  <2>2. \A i \in 1 .. Len(out') : i \in 1 .. Len(out) \/ i = Len(out) + 1
    BY <1>0, <2>1
  <2>3. \A i \in 1 .. Len(out') : ~Undone(i)'
    BY <2>0, <2>1, <2>2 DEF Undone
  <2> QED
    BY <2>1, <2>2, <2>3 DEF WritesInOrder
<1>10. CASE TaskEnd
  BY <1>10 DEF TaskEnd, socket, WritesInOrder, Undone
<1>11. CASE UNCHANGED vars
  BY <1>11 DEF vars, WritesInOrder, Undone
<1> QED
  BY <1>1, <1>2, <1>3, <1>4, <1>5, <1>6, <1>7, <1>8, <1>9, <1>10, <1>11 DEF Next

LEMMA PatientNext == TypeOK /\ WritesInOrder /\ Patient /\ [Next]_vars => Patient'
<1> SUFFICES ASSUME TypeOK, WritesInOrder, Patient, [Next]_vars, ~eager'
             PROVE  /\ (Idle \/ Asked \/ Made \/ Coming)'
                    /\ \A a \in got' : a.intact \/ a.late
  BY DEF Patient
<1>0. ~eager
  BY Zenon DEF Next, vars, Send, Receive, WriteOn, WriteEnd, Begin, ReadBody, StoreText, PutRow,
               WriteRows, TaskEnd, client
<1>a. /\ Idle \/ Asked \/ Made \/ Coming
      /\ \A a \in got : a.intact \/ a.late
  BY <1>0 DEF Patient
<1>b. /\ out \in Seq(Write) /\ Len(out) \in Nat /\ \A i \in 1 .. Len(out) : out[i] \in Write
      /\ wire \in Seq(Request) /\ Len(wire) \in Nat
  BY DEF TypeOK
<1>1. ASSUME NEW r \in Request, Send(r) PROVE (Idle \/ Asked)' /\ got' = got
  <2>1. ~(due > 0)
    BY <1>1, Zenon DEF Send
  <2>2. Idle
    BY <1>a, <2>1 DEF Idle, Asked, Made, Coming
  <2>3. wire' = Append(wire, r) /\ due' = (IF r.kind = "msg" THEN due ELSE due + 1)
    BY <1>1 DEF Send
  <2>4. /\ Len(wire') = Len(wire) + 1 /\ wire' # <<>> /\ wire'[Len(wire')] = r
        /\ \A k \in 1 .. Len(wire) : wire'[k] = wire[k]
    BY <1>b, <2>3
  <2>5. out' = out /\ unread' = unread /\ pc' = pc /\ got' = got
    BY <1>1 DEF Send, chain, socket
  <2>6. \A k \in 1 .. Len(wire') : k \in 1 .. Len(wire) \/ k = Len(wire')
    BY <1>b, <2>4
  <2>7. CASE r.kind = "msg"
    BY <2>2, <2>3, <2>4, <2>5, <2>6, <2>7 DEF Idle, AllRead, NoneDue
  <2>8. CASE r.kind # "msg"
    <3>1. due' = 1 /\ AllRead(Len(out))' /\ unread' = 0 /\ pc' # "rows"
      BY <2>2, <2>3, <2>5, <2>8 DEF Idle, AllRead
    <3>2. \A k \in 1 .. Len(wire') - 1 : wire'[k].kind = "msg"
      BY <1>b, <2>2, <2>4 DEF Idle, NoneDue
    <3> QED
      BY <2>4, <2>5, <2>8, <3>1, <3>2 DEF Asked, NoneDue
  <2> QED
    BY <2>7, <2>8
<1>2. CASE Receive
  <2>1. Coming
    <3>1. ASSUME AllRead(Len(out)), unread = 0 PROVE FALSE
      BY <1>2, <3>1, AllReadAllSent DEF Receive
    <3> QED
      BY <1>a, <3>1 DEF Idle, Asked, Made
  <2> DEFINE l == Len(out)
  <2>2. /\ l >= 1 /\ out # <<>> /\ due = 1 /\ wire = <<>> /\ pc \notin {"rows", "body"}
        /\ \A i \in 1 .. l - 1 : out[i].read
        /\ ~out[l].read /\ (out[l].intact \/ out[l].late)
    BY <1>b, <2>1 DEF Coming, AllRead
  <2>3. Sent \subseteq {l}
    BY <1>b, <2>2 DEF Sent
  <2>4. /\ out' = [i \in 1 .. l |-> IF i \in Sent THEN [out[i] EXCEPT !.read = TRUE] ELSE out[i]]
        /\ got' = got \cup {[intact |-> out[i].intact, late |-> out[i].late] : i \in Sent}
        /\ due' = due - Cardinality(Sent) /\ unread' = 0 /\ wire' = wire /\ pc' = pc
    BY <1>2 DEF Receive, chain
  <2> HIDE DEF l
  <2>5. \A a \in got' : a.intact \/ a.late
    BY <1>a, <2>2, <2>3, <2>4
  <2>6. l \in Nat /\ Len(out') = l /\ out' # <<>>
    BY <1>b, <2>2, <2>4 DEF l
  <2>7. CASE Sent = {l}
    <3>1. Cardinality(Sent) = 1
      BY <2>7, FS_Singleton
    <3>2. \A i \in 1 .. l : out'[i].read
      BY <1>b, <2>2, <2>4, <2>6, <2>7 DEF Write, l
    <3>3. Idle'
      BY <2>2, <2>4, <2>6, <3>1, <3>2 DEF Idle, AllRead, NoneDue
    <3> QED
      BY <2>5, <3>3
  <2>8. CASE Sent = {}
    <3>1. Cardinality(Sent) = 0
      BY <2>8, FS_EmptySet
    <3>2. \A i \in 1 .. l : out'[i] = out[i]
      BY <2>4, <2>8
    <3>3. Coming'
      <4>1. due' = 1 /\ l \in 1 .. l
        BY <2>2, <2>4, <2>6, <3>1
      <4>2. ~out'[l].read /\ (out'[l].intact \/ out'[l].late) /\ \A i \in 1 .. l - 1 : out'[i].read
        BY <2>2, <2>6, <3>2
      <4> QED
        BY <2>2, <2>4, <2>6, <4>1, <4>2 DEF Coming, AllRead
    <3> QED
      BY <2>5, <3>3
  <2> QED
    BY <2>3, <2>7, <2>8
<1>3. ASSUME NEW i \in 1 .. Len(out), WriteOn(i) PROVE Coming' /\ got' = got
  <2>1. Coming
    BY <1>3, <1>a, AllReadAllSent DEF Idle, Asked, Made, WriteOn
  <2>2. /\ out' = [out EXCEPT ![i].left = @ - Least(out[i].left, SocketSize - unread)]
        /\ due' = due /\ pc' = pc /\ wire' = wire /\ got' = got
    BY <1>3 DEF WriteOn, chain, client
  <2>3. /\ Len(out') = Len(out)
        /\ \A j \in 1 .. Len(out) : /\ out'[j].read = out[j].read /\ out'[j].late = out[j].late
                                     /\ out'[j].intact = out[j].intact
    BY <1>b, <2>2 DEF Write
  <2>4. Len(out) \in 1 .. Len(out) /\ out' # <<>>
    BY <1>b, <2>1, <2>3 DEF Coming
  <2> QED
    BY <1>b, <2>1, <2>2, <2>3, <2>4 DEF Coming, AllRead
<1>4. ASSUME NEW i \in 1 .. Len(out), WriteEnd(i)
      PROVE  (Idle \/ Asked \/ Made \/ Coming)' /\ got' = got
  <2>1. /\ out' = [out EXCEPT ![i].done = TRUE]
        /\ due' = due /\ unread' = unread /\ wire' = wire /\ got' = got
    BY <1>4 DEF WriteEnd, client
  <2>2. /\ Len(out') = Len(out)
        /\ \A j \in 1 .. Len(out) : /\ out'[j].read = out[j].read /\ out'[j].late = out[j].late
                                     /\ out'[j].intact = out[j].intact
    BY <1>b, <2>1 DEF Write
  <2>3. CASE out[i].of = "local"
    <3>1. pc = "wait" /\ pc' = "head"
      BY <1>4, <2>3 DEF WriteEnd, WritesInOrder, Undone
    <3>2. ~Made
      BY <3>1 DEF Made
    <3>3. Len(out) \in 1 .. Len(out) /\ out # <<>> /\ out' # <<>>
      BY <1>b, <2>2
    <3> QED
      BY <1>a, <1>b, <2>1, <2>2, <3>1, <3>2, <3>3 DEF Idle, Asked, Coming, AllRead, NoneDue
  <2>4. CASE out[i].of # "local"
    <3>1. pc' = pc
      BY <1>4, <2>4 DEF WriteEnd
    <3>2. Len(out) \in 1 .. Len(out) /\ out # <<>> /\ out' # <<>>
      BY <1>b, <2>2
    <3> QED
      BY <1>a, <1>b, <2>1, <2>2, <3>1, <3>2 DEF Idle, Asked, Made, Coming, AllRead, NoneDue
  <2> QED
    BY <2>3, <2>4
<1>5. CASE Begin
  <2>1. /\ wire # <<>> /\ wire' = Tail(wire) /\ Head(wire) = wire[1]
        /\ Len(wire') = Len(wire) - 1 /\ \A k \in 1 .. Len(wire') : wire'[k] = wire[k + 1]
        /\ Len(wire) >= 1 /\ wire' \in Seq(Request)
    BY <1>5, <1>b DEF Begin
  <2>2. due' = due /\ got' = got
    BY <1>5 DEF Begin
  <2>3. Idle \/ Asked
    BY <1>a, <2>1 DEF Made, Coming
  <2>4. AllRead(Len(out)) /\ unread = 0
    BY <2>3 DEF Idle, Asked
  <2>5. CASE Head(wire).kind = "msg"
    <3>1. pc' = "body" /\ UNCHANGED socket
      BY <1>5, <2>5 DEF Begin
    <3>2. CASE Idle
      <4>1. \A k \in 1 .. Len(wire') : wire'[k].kind = "msg"
        BY <1>b, <2>1, <3>2 DEF Idle, NoneDue
      <4>2. Idle'
        BY <2>2, <3>1, <3>2, <4>1 DEF Idle, AllRead, NoneDue, socket
      <4> QED
        BY <1>a, <2>2, <4>2
    <3>3. CASE Asked
      <4>1. Len(wire) # 1
        BY <2>1, <2>5, <3>3 DEF Asked
      <4>2. wire' # <<>> /\ wire'[Len(wire')] = wire[Len(wire)]
        <5>1. Len(wire) \in Nat /\ Len(wire') \in 1 .. Len(wire') /\ Len(wire') + 1 = Len(wire)
          BY <1>b, <2>1, <4>1
        <5>2. wire'[Len(wire')] = wire[Len(wire)]
          BY <2>1, <5>1
        <5>3. wire' # <<>>
          BY <5>1
        <5> QED
          BY <5>2, <5>3
      <4>3. \A k \in 1 .. Len(wire') - 1 : wire'[k].kind = "msg"
        BY <1>b, <2>1, <3>3 DEF Asked, NoneDue
      <4>4. Asked'
        BY <2>2, <3>1, <3>3, <4>2, <4>3 DEF Asked, AllRead, NoneDue, socket
      <4> QED
        BY <1>a, <2>2, <4>4
    <3> QED
      BY <2>3, <3>2, <3>3
  <2>6. CASE Head(wire).kind # "msg"
    <3>1. Asked
      BY <1>b, <2>1, <2>3, <2>6 DEF Idle, NoneDue
    <3>2. Len(wire) = 1
      BY <1>b, <2>1, <2>6, <3>1 DEF Asked, NoneDue
    <3>3. wire' = <<>> /\ due' = 1
      BY <1>b, <2>1, <2>2, <3>1, <3>2 DEF Asked
    <3>4. CASE pc' = "rows" /\ UNCHANGED socket
      <4>1. Made'
        BY <2>4, <3>3, <3>4 DEF Made, AllRead, socket
      <4> QED
        BY <1>a, <2>2, <4>1
    <3>5. CASE BeginWrite("local", LocalSize) /\ pc' = "wait"
      <4>1. UnderWay = {}
        BY <2>4, AllReadAllSent
      <4>2. /\ Len(out') = Len(out) + 1
            /\ \A i \in 1 .. Len(out) : out'[i].read = out[i].read
            /\ out'[Len(out) + 1].read = FALSE
            /\ out'[Len(out) + 1].late = late
            /\ ~late => out'[Len(out) + 1].intact
        BY <2>4, <3>5, <4>1, BegunIsLast, SourceAssumption
      <4>3. out'[Len(out')].intact \/ out'[Len(out')].late
        BY <4>2, Zenon
      <4>4. Coming'
        BY <1>b, <2>4, <3>3, <3>5, <4>2, <4>3 DEF Coming, AllRead
      <4> QED
        BY <1>a, <2>2, <4>4
    <3> QED
      BY <1>5, <2>6, <3>4, <3>5 DEF Begin
  <2> QED
    BY <2>5, <2>6
<1>6. CASE ReadBody
  <2>1. /\ Len(out') = Len(out)
        /\ \A i \in 1 .. Len(out) : out'[i].read = out[i].read
    BY <1>6, OverwriteOnly DEF ReadBody
  <2>2. ~Made /\ ~Coming /\ pc' = "text"
    BY <1>6 DEF ReadBody, Made, Coming
  <2>3. due' = due /\ wire' = wire /\ unread' = unread /\ got' = got
    BY <1>6 DEF ReadBody, client
  <2> QED
    BY <1>a, <2>1, <2>2, <2>3 DEF Idle, Asked, AllRead, NoneDue
<1>7. CASE StoreText
  BY <1>7, <1>a DEF StoreText, client, socket, Idle, Asked, Made, Coming, AllRead, NoneDue
<1>8. ASSUME NEW n \in RecordSizes, PutRow(n) PROVE Made' /\ got' = got
  <2>1. /\ pc = "rows" /\ pc' = pc /\ Overwrite
        /\ due' = due /\ wire' = wire /\ unread' = unread /\ got' = got
    BY <1>8 DEF PutRow, client, chain
  <2>2. Made
    BY <1>a, <2>1 DEF Idle, Asked, Coming
  <2> QED
    BY <2>1, <2>2, OverwriteOnly DEF Made, AllRead
<1>9. CASE WriteRows
  <2>1. Made
    BY <1>9, <1>a DEF WriteRows, Idle, Asked, Coming
  <2>2. UnderWay = {}
    BY <2>1, AllReadAllSent DEF Made
  <2>3. /\ Len(out') = Len(out) + 1
        /\ \A i \in 1 .. Len(out) : out'[i].read = out[i].read
        /\ out'[Len(out) + 1].read = FALSE
        /\ out'[Len(out) + 1].late = late
        /\ ~late => out'[Len(out) + 1].intact
    BY <1>9, <2>2, BegunIsLast DEF WriteRows, TypeOK, BufferTypeOK
  <2>4. out'[Len(out')].intact \/ out'[Len(out')].late
    BY <2>3, Zenon
  <2>5. due' = due /\ wire' = wire /\ pc' = "end" /\ got' = got
    BY <1>9 DEF WriteRows, client
  <2>6. Coming'
    BY <1>b, <2>1, <2>3, <2>4, <2>5 DEF Made, Coming, AllRead
  <2> QED
    BY <1>a, <2>5, <2>6
<1>10. CASE TaskEnd
  <2>1. /\ pc = "end" /\ pc' = "head" /\ UNCHANGED <<client, socket, got>>
    BY <1>10 DEF TaskEnd
  <2>2. ~Made
    BY <2>1 DEF Made
  <2> QED
    BY <1>a, <2>1, <2>2 DEF client, socket, Idle, Asked, Coming, AllRead, NoneDue
<1>11. CASE UNCHANGED vars
  BY <1>11, <1>a DEF vars, Idle, Asked, Made, Coming, AllRead, NoneDue
<1> QED
  BY <1>a, <1>1, <1>2, <1>3, <1>4, <1>5, <1>6, <1>7, <1>8, <1>9, <1>10, <1>11 DEF Next

\* A client that waits for each answer gets what was put together for it, unless
\* task_end of the GetMsg before came late.
THEOREM PatientClientsAreAnswered == Spec => []AnswersIntact
<1>1. Init => WritesInOrder /\ Patient
  <2> SUFFICES ASSUME Init PROVE WritesInOrder /\ Patient
    OBVIOUS
  <2>1. Len(out) = 0 /\ Len(wire) = 0 /\ got = {}
    BY DEF Init
  <2>2. Idle
    BY <2>1 DEF Init, Idle, AllRead, NoneDue
  <2> QED
    BY <2>1, <2>2 DEF Patient, WritesInOrder
<1>2. Patient => AnswersIntact
  BY DEF Patient, AnswersIntact
<1> QED
  BY <1>1, <1>2, OrderNext, PatientNext, SourceIsTyped, PTL DEF Spec
=============================================================================
