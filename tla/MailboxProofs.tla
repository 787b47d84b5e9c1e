--------------------------- MODULE MailboxProofs ---------------------------
(***************************************************************************)
(* Theorems about Mailbox, for any number of sessions, users, io threads   *)
(* and chat tables, and any bounds: its type invariant, BackedNotice,      *)
(* OneMailbox and OnlyRacesLose.                                           *)
(***************************************************************************)
EXTENDS Mailbox, TLAPS

-----------------------------------------------------------------------------
(***************************************************************************)
(* Types.                                                                  *)
(***************************************************************************)

\* A box is a number, and the numbers of the rows' tables are boxes.
LEMMA BoxesAreBoxes ==
  /\ Boxes = {0, 1, 2}
  /\ messageArr = 0 /\ connectionReq = 2
  /\ \A table \in DOMAIN BoxOf : BoxOf[table] \in Boxes
BY DEF Boxes, BoxOf, messageArr, tableIvt, connectionReq

\* What a worker can be doing: a task that, if any, is some session's.
TaskOK(t) ==
  /\ t \in Task
  /\ t.pc = "idle" \/ t.s \in Sessions
  /\ t.pc \in {"load", "store"} => t.arr # None

LEMMA FreeIsTask == TaskOK(Free) /\ Free \in Task
BY BoxesAreBoxes DEF Free, Task, TaskOK

\* After a box comes a box, or the poll ends.
LEMMA NextBoxIsTask ==
  ASSUME NEW t, TaskOK(t), t.pc # "idle" PROVE TaskOK(NextBox(t))
<1>1. CASE t.box = connectionReq
  BY <1>1, FreeIsTask DEF NextBox
<1>2. CASE t.box # connectionReq
  <2> DEFINE b == t.box + 1
             n == [Free EXCEPT !.pc = "test", !.s = t.s, !.box = b]
  <2>1. t.box \in Boxes /\ t.s \in Sessions
    BY DEF Task, TaskOK
  <2>2. b \in Boxes
    BY <1>2, <2>1, BoxesAreBoxes
  <2> HIDE DEF b
  <2>3. TaskOK(n)
    BY <2>1, <2>2, FreeIsTask DEF Task, Free, PollPCs, TaskOK
  <2> QED
    BY <1>2, <2>3 DEF NextBox, b
<1> QED
  BY <1>1, <1>2

\* The tasks of the workers, and how they change: a worker that takes up a task
\* leaves those of the others alone.
WorkOK ==
  /\ work \in [Workers -> Task]
  /\ \A w \in Workers : /\ work[w].pc = "idle" \/ work[w].s \in Sessions
                        /\ work[w].pc \in {"load", "store"} => work[w].arr # None

LEMMA TasksAreTyped == ASSUME TypeOK, NEW w \in Workers PROVE TaskOK(work[w])
BY DEF TypeOK, TaskOK

LEMMA SetIsTyped ==
  ASSUME TypeOK, NEW w \in Workers, NEW t, TaskOK(t), Set(w, t)
  PROVE  WorkOK'
BY DEF TypeOK, Set, TaskOK, WorkOK

\* The arrays of sessions and of the map are records, or None.
LEMMA ArrayIsArray ==
  /\ None \notin Array
  /\ None \notin Sessions
  /\ Members \in [Tables -> SUBSET Users]
BY MailboxAssumption DEF Array

LEMMA TypeInit == Init => TypeOK
<1> SUFFICES ASSUME Init PROVE TypeOK
  OBVIOUS
<1>1. initialized \in [Sessions -> BOOLEAN]
  BY MailboxAssumption DEF Init
<1>2. WorkOK
  BY FreeIsTask DEF Init, WorkOK, Free, TaskOK
<1>3. rows \in Seq(Row)
  BY DEF Init
<1> QED
  BY <1>1, <1>2, <1>3 DEF Init, TypeOK, WorkOK

\* Every request handler begins with an INSERT and a list of users to notify.
LEMMA TypeStore ==
  ASSUME TypeOK, NEW w \in Workers, NEW s \in Sessions,
         NEW table \in DOMAIN BoxOf, NEW to \in SUBSET Users, NEW list \in SUBSET Users,
         StoreAndNotify(w, s, table, to, list)
  PROVE  TypeOK'
<1> DEFINE t == [Free EXCEPT !.pc = "notify", !.s = s, !.box = BoxOf[table],
                             !.to = list, !.mark = Len(rows) + 1]
<1>1. TaskOK(t)
  <2> DEFINE b == BoxOf[table]
             m == Len(rows) + 1
  <2>1. b \in Boxes /\ m \in Nat
    BY BoxesAreBoxes DEF TypeOK
  <2> HIDE DEF b, m
  <2>2. [Free EXCEPT !.pc = "notify", !.s = s, !.box = b, !.to = list, !.mark = m] \in Task
    BY <2>1, FreeIsTask DEF Task, Free, ServePCs
  <2> QED
    BY <2>2, FreeIsTask DEF b, m, TaskOK, Task
<1>2. WorkOK'
  BY <1>1, SetIsTyped DEF StoreAndNotify
<1>3. [table |-> table, to |-> to] \in Row
  BY DEF Row
<1>4. rows' \in Seq(Row)
  BY <1>3 DEF StoreAndNotify, TypeOK
<1> QED
  BY <1>2, <1>4 DEF StoreAndNotify, TypeOK, WorkOK

LEMMA TypeNext == TypeOK /\ [Next]_vars => TypeOK'
<1> SUFFICES ASSUME TypeOK, [Next]_vars PROVE TypeOK'
  OBVIOUS
<1>1. CASE UNCHANGED vars
  BY <1>1 DEF TypeOK, vars
<1>2. ASSUME NEW w \in Workers, NEW s \in Sessions, NEW u \in Users, LoginAlloc(w, s, u)
      PROVE  TypeOK'
  <2> DEFINE n == IF nf[s] = None THEN 1 ELSE nf[s].n + 1
             a == [s |-> s, u |-> u, n |-> n]
  <2>1. n \in Nat \ {0}
    BY DEF TypeOK, Array
  <2>2. a \in Array
    BY <2>1 DEF Array
  <2>3. nf' = [nf EXCEPT ![s] = a]
    BY <1>2 DEF LoginAlloc
  <2>4. nf' \in [Sessions -> Array \cup {None}]
    BY <2>2, <2>3 DEF TypeOK
  <2>5. TaskOK([Free EXCEPT !.pc = "find", !.s = s, !.to = {u}])
    BY FreeIsTask DEF Task, Free, ServePCs, TaskOK
  <2>6. WorkOK'
    BY <1>2, <2>5, SetIsTyped DEF LoginAlloc
  <2> QED
    BY <1>2, <2>4, <2>6 DEF LoginAlloc, TypeOK, WorkOK
<1>3. ASSUME NEW w \in Workers, NEW s \in Sessions, Request(w, s)
      PROVE  TypeOK'
  <2>1. ASSUME NEW t \in Tables, ActSendMsg(w, s, t) PROVE TypeOK'
    <3>1. Members[t] \in SUBSET Users
      BY ArrayIsArray
    <3>2. "ms" \in DOMAIN BoxOf
      BY DEF BoxOf
    <3> QED
      BY <2>1, <3>1, <3>2, TypeStore DEF ActSendMsg
  <2>2. ASSUME NEW u \in Users, ActConnect(w, s, u) PROVE TypeOK'
    <3>1. "connectionRequest" \in DOMAIN BoxOf
      BY DEF BoxOf
    <3> QED
      BY <2>2, <3>1, TypeStore DEF ActConnect
  <2>3. ASSUME NEW u \in Users, ActInvite(w, s, u) PROVE TypeOK'
    <3>1. "invite" \in DOMAIN BoxOf
      BY DEF BoxOf
    <3> QED
      BY <2>3, <3>1, TypeStore DEF ActInvite, TargetAsRead
  <2>4. ASSUME NEW cont \in SUBSET Users, ActCreateTable(w, s, cont) PROVE TypeOK'
    <3>1. "part" \in DOMAIN BoxOf
      BY DEF BoxOf
    <3> QED
      BY <2>4, <3>1, TypeStore DEF ActCreateTable
  <2>5. CASE CutOff(w, s)
    BY <2>5 DEF CutOff, TypeOK
  <2>6. CASE Disconnect(w, s)
    BY <2>6 DEF Disconnect, TypeOK
  <2> QED
    BY <1>2, <1>3, <2>1, <2>2, <2>3, <2>4, <2>5, <2>6 DEF Request
<1>4. ASSUME NEW w \in Workers, LoginFind(w) PROVE TypeOK'
  <2>1. \A u : /\ TaskOK([work[w] EXCEPT !.pc = "ready"])
               /\ TaskOK([work[w] EXCEPT !.pc = "link", !.seen = InMap \ {u}])
    BY <1>4, TasksAreTyped DEF LoginFind, Task, InMap, ServePCs, TaskOK
  <2>2. WorkOK'
    BY <1>4, <2>1, SetIsTyped DEF LoginFind
  <2> QED
    BY <1>4, <2>2 DEF LoginFind, TypeOK, WorkOK
<1>5. ASSUME NEW w \in Workers, LoginLink(w) PROVE TypeOK'
  <2>1. TaskOK([work[w] EXCEPT !.pc = "ready"])
    BY <1>5, TasksAreTyped DEF LoginLink, Task, ServePCs, TaskOK
  <2>2. WorkOK'
    BY <1>5, <2>1, SetIsTyped DEF LoginLink
  <2>3. torn' \in BOOLEAN
    BY <1>5 DEF LoginLink, TypeOK
  <2>4. work[w].s \in Sessions /\ work[w].to \subseteq Users
    BY <1>5, TasksAreTyped DEF LoginLink, TaskOK, Task
  <2>5. nmap' \in [Users -> Array \cup {None}]
    BY <1>5, <2>4 DEF LoginLink, TypeOK
  <2> QED
    BY <1>5, <2>2, <2>3, <2>5 DEF LoginLink, TypeOK, WorkOK
<1>6. ASSUME NEW w \in Workers, LoginReady(w) PROVE TypeOK'
  BY <1>6, FreeIsTask, SetIsTyped DEF LoginReady, TypeOK, WorkOK
<1>7. ASSUME NEW w \in Workers, NEW u \in Users, NotifyUser(w, u) PROVE TypeOK'
  <2>1. TaskOK([work[w] EXCEPT !.to = @ \ {u}])
    BY TasksAreTyped DEF TaskOK, Task
  <2>2. WorkOK'
    BY <1>7, <2>1, SetIsTyped DEF NotifyUser
  <2>3. /\ work[w].box \in Boxes /\ work[w].mark \in Nat
        /\ nmap[u] # None => nmap[u] \in Array
    BY TasksAreTyped DEF TypeOK, Task, TaskOK
  <2>4. raised' \subseteq Flag /\ rung' \subseteq Ring
    BY <1>7, <2>3 DEF NotifyUser, TypeOK, Flag, Ring
  <2> QED
    BY <1>7, <2>2, <2>4 DEF NotifyUser, TypeOK, WorkOK
<1>8. ASSUME NEW w \in Workers, NotifyEnd(w) PROVE TypeOK'
  BY <1>8, FreeIsTask, SetIsTyped DEF NotifyEnd, TypeOK, WorkOK
<1>9. ASSUME NEW w \in Workers, NEW s \in Sessions, PollStart(w, s) PROVE TypeOK'
  <2>1. TaskOK([Free EXCEPT !.pc = "test", !.s = s])
    BY FreeIsTask DEF Task, Free, PollPCs, TaskOK
  <2> QED
    BY <1>9, <2>1, SetIsTyped DEF PollStart, TypeOK, WorkOK
<1>10. ASSUME NEW w \in Workers, PollTest(w) PROVE TypeOK'
  <2>1. TaskOK(NextBox(work[w]))
    BY <1>10, NextBoxIsTask, TasksAreTyped DEF PollTest
  <2>2. FlagOf(work[w]) \in raised => nf[work[w].s] \in Array
    BY DEF FlagOf, Flag, TypeOK
  <2>3. FlagOf(work[w]) \in raised =>
          TaskOK([work[w] EXCEPT !.pc = "load", !.arr = nf[work[w].s]])
    BY <1>10, <2>2, ArrayIsArray, TasksAreTyped DEF PollTest, TaskOK, Task, PollPCs
  <2>4. WorkOK'
    BY <1>10, <2>1, <2>3, SetIsTyped DEF PollTest
  <2> QED
    BY <1>10, <2>4 DEF PollTest, TypeOK, WorkOK
<1>11. ASSUME NEW w \in Workers, PollLoad(w) PROVE TypeOK'
  <2>1. TaskOK([work[w] EXCEPT !.pc = "store", !.snap = notice[work[w].s]])
    BY <1>11, TasksAreTyped DEF PollLoad, TypeOK, TaskOK, Task, PollPCs
  <2> QED
    BY <1>11, <2>1, SetIsTyped DEF PollLoad, TypeOK, WorkOK
<1>12. ASSUME NEW w \in Workers, PollStore(w) PROVE TypeOK'
  <2> DEFINE m == [box |-> work[w].box, arr |-> work[w].arr, upto |-> Len(rows)]
  <2>1. TaskOK(work[w]) /\ work[w].pc = "store" /\ Len(rows) \in Nat
    BY <1>12, TasksAreTyped DEF PollStore, TypeOK
  <2>2. TaskOK([work[w] EXCEPT !.pc = "clear", !.mark = Len(rows)])
    BY <2>1 DEF TaskOK, Task, PollPCs
  <2>3. WorkOK'
    BY <1>12, <2>2, SetIsTyped DEF PollStore
  <2>4. m \in Notice
    BY <2>1 DEF TaskOK, Task, Notice
  <2>5. work[w].s \in Sessions /\ work[w].snap \subseteq Notice
    BY <2>1 DEF TaskOK, Task
  <2>6. notice' \in [Sessions -> SUBSET Notice]
    BY <1>12, <2>4, <2>5 DEF PollStore, TypeOK
  <2> QED
    BY <1>12, <2>3, <2>6 DEF PollStore, TypeOK, WorkOK
<1>13. ASSUME NEW w \in Workers, PollClear(w) PROVE TypeOK'
  <2>1. TaskOK(NextBox(work[w]))
    BY <1>13, NextBoxIsTask, TasksAreTyped DEF PollClear
  <2> QED
    BY <1>13, <2>1, SetIsTyped DEF PollClear, TypeOK, WorkOK
<1>14. ASSUME NEW w \in Workers, NEW s \in Sessions, PollWild(w, s) PROVE TypeOK'
  BY <1>14 DEF PollWild, TypeOK
<1>15. ASSUME NEW w \in Workers, CutOffAnswer(w) PROVE TypeOK'
  BY <1>15 DEF CutOffAnswer, TypeOK
<1>16. ASSUME NEW w \in Workers, NotifyWild(w) PROVE TypeOK'
  BY <1>16 DEF NotifyWild, TypeOK
<1> QED
  BY <1>1, <1>3, <1>4, <1>5, <1>6, <1>7, <1>8, <1>9, <1>10, <1>11, <1>12, <1>13, <1>14, <1>15,
     <1>16
     DEF Next, Advance

\* Every variable keeps to its type, in particular every flag raised and every
\* notice queued is of an array that some login has allocated.
THEOREM TypeCorrect == Spec => []TypeOK
<1> QED
  BY TypeInit, TypeNext, PTL DEF Spec

-----------------------------------------------------------------------------
(***************************************************************************)
(* The inductive invariant. BackedNotice and OneMailbox speak of raised    *)
(* flags and queued notices; between the two a flag lives on in the task   *)
(* of a poll, and before it in the task of a handler that still notifies.  *)
(***************************************************************************)

\* The entry of the map for the array's user is that array.
Registered(a) == nmap[a.u] = a

\* A session's array is one it has allocated, and an entry of the map is an array
\* of the user it is filed under.
ArraysOK ==
  /\ \A s \in Sessions : nf[s] # None => nf[s].s = s
  /\ \A u \in Users : nmap[u] # None => nmap[u].u = u

\* A login that searches the map or links into it does so for the user of the
\* session's array, and its search has not passed an entry of that user.
LoginOK(t) ==
  t.pc \in {"find", "link"} =>
    /\ nf[t.s] # None
    /\ \A u \in t.to : nf[t.s].u = u /\ u \notin t.seen

\* A handler that notifies has inserted a row of the box's kind, addressed to
\* everyone it will still notify.
NotifyOK(t) ==
  t.pc = "notify" =>
    /\ t.mark \in 1 .. Len(rows)
    /\ BoxOf[rows[t.mark].table] = t.box
    /\ t.to \subseteq rows[t.mark].to

\* The flag a poll has seen is backed and registered, and of the poll's session.
PollOK(t) ==
  t.pc \in {"load", "store"} =>
    /\ t.arr.s = t.s
    /\ Backed(t.arr, t.box, Len(rows))
    /\ torn \/ Registered(t.arr)

FlagsOK ==
  \A f \in raised :
    /\ Backed(f.arr, f.box, Len(rows))
    /\ torn \/ Registered(f.arr)

NoticeOK(s, m) ==
  /\ m.arr.s = s
  /\ Backed(m.arr, m.box, m.upto)
  /\ torn \/ Registered(m.arr)

NoticesOK == \A s \in Sessions : \A m \in notice[s] : NoticeOK(s, m)

\* The queue a push_back has found is as good as the queue that is there.
SnapOK(t) == t.pc = "store" => \A m \in t.snap : NoticeOK(t.s, m)

TaskInv(t) == LoginOK(t) /\ NotifyOK(t) /\ PollOK(t) /\ SnapOK(t)

TasksOK == \A w \in Workers : TaskInv(work[w])

RungOK == \A r \in rung : r.row \in 1 .. Len(rows)

IInv ==
  /\ TypeOK
  /\ ArraysOK
  /\ TasksOK
  /\ FlagsOK
  /\ NoticesOK
  /\ RungOK

-----------------------------------------------------------------------------
\* A task that has only just begun, or is done, owes nothing.
LEMMA FreshTask ==
  ASSUME NEW t, t.pc \in {"idle", "ready", "test", "clear"} PROVE TaskInv(t)
BY DEF TaskInv, LoginOK, NotifyOK, PollOK, SnapOK

\* So has a poll that goes on to the next box, or has just begun.
LEMMA FreshPoll ==
  /\ \A x : TaskInv(NextBox(x))
  /\ \A s : TaskInv([Free EXCEPT !.pc = "test", !.s = s])
<1>1. ASSUME NEW x PROVE TaskInv(NextBox(x))
  <2>1. PICK t : t = NextBox(x)
    OBVIOUS
  <2>2. t.pc \in {"idle", "test"}
    BY <2>1 DEF NextBox, Free
  <2> QED
    BY <2>1, <2>2, FreshTask
<1>2. ASSUME NEW s PROVE TaskInv([Free EXCEPT !.pc = "test", !.s = s])
  <2>1. PICK t : t = [Free EXCEPT !.pc = "test", !.s = s]
    OBVIOUS
  <2>2. t.pc = "test"
    BY <2>1 DEF Free
  <2>3. TaskInv(t)
    BY <2>2, FreshTask
  <2> QED
    BY <2>1, <2>3, Zenon
<1> QED
  BY <1>1, <1>2

LEMMA InvInit == Init => IInv
<1> SUFFICES ASSUME Init PROVE IInv
  OBVIOUS
<1>1. \A w \in Workers : work[w].pc = "idle"
  BY DEF Init, Free
<1>2. TasksOK
  BY <1>1, FreshTask DEF TasksOK
<1> QED
  BY <1>2, TypeInit DEF Init, IInv, ArraysOK, FlagsOK, NoticesOK, RungOK

\* What was backed stays backed while rows are only appended.
LEMMA BackedKept ==
  ASSUME TypeOK, NEW row \in Row, rows' = Append(rows, row), NEW arr, NEW box, NEW upto
  PROVE  /\ Backed(arr, box, upto) => Backed(arr, box, upto)'
         /\ Backed(arr, box, Len(rows)) => Backed(arr, box, Len(rows))'
<1>1. rows \in Seq(Row) /\ Len(rows) \in Nat /\ Len(rows') = Len(rows) + 1
  BY DEF TypeOK
<1>2. \A i \in 1 .. Len(rows) : rows'[i] = rows[i]
  BY <1>1
<1> QED
  BY <1>1, <1>2 DEF Backed

\* A step of one worker that leaves the shared state alone, and takes up a task
\* that is in order, keeps the invariant.
LEMMA InvLocal ==
  ASSUME IInv, TypeOK', NEW w \in Workers, NEW t, Set(w, t), TaskInv(t),
         UNCHANGED <<nf, nmap, raised, notice, rows, rung, torn>>
  PROVE  IInv'
<1>1. \A v \in Workers : work'[v] = IF v = w THEN t ELSE work[v]
  BY DEF IInv, TypeOK, Set
<1>2. \A x : TaskInv(x) => TaskInv(x)'
  BY DEF TaskInv, LoginOK, NotifyOK, PollOK, SnapOK, NoticeOK, Backed, Registered
<1>3. TasksOK'
  BY <1>1, <1>2 DEF IInv, TasksOK
<1> QED
  BY <1>3 DEF IInv, ArraysOK, FlagsOK, NoticesOK, NoticeOK, RungOK, Backed, Registered

\* A step that inserts a row keeps what the tasks of other workers owe.
LEMMA InvStore ==
  ASSUME IInv, TypeOK', NEW w \in Workers, NEW s \in Sessions,
         NEW table \in DOMAIN BoxOf, NEW to \in SUBSET Users, NEW list \in SUBSET to,
         StoreAndNotify(w, s, table, to, list)
  PROVE  IInv'
<1> DEFINE row == [table |-> table, to |-> to]
<1>0. PICK t : t = [Free EXCEPT !.pc = "notify", !.s = s, !.box = BoxOf[table],
                                !.to = list, !.mark = Len(rows) + 1]
  OBVIOUS
<1>1. /\ row \in Row /\ rows' = Append(rows, row)
      /\ UNCHANGED <<nf, nmap, raised, notice, rung, torn>>
  BY DEF Row, StoreAndNotify
<1>2. /\ rows \in Seq(Row) /\ Len(rows) \in Nat /\ Len(rows') = Len(rows) + 1
      /\ rows'[Len(rows) + 1] = row
      /\ \A i \in 1 .. Len(rows) : rows'[i] = rows[i]
  BY <1>1 DEF IInv, TypeOK
<1>3. \A v \in Workers : work'[v] = IF v = w THEN t ELSE work[v]
  BY <1>0 DEF IInv, TypeOK, Set, StoreAndNotify
<1>4. \A arr, box, upto : /\ Backed(arr, box, upto) => Backed(arr, box, upto)'
                          /\ Backed(arr, box, Len(rows)) => Backed(arr, box, Len(rows))'
  BY <1>1, BackedKept DEF IInv
<1>5. \A q, m : NoticeOK(q, m) => NoticeOK(q, m)'
  BY <1>1, <1>4 DEF NoticeOK, Registered
<1>6. TaskInv(t)'
  <2>1. /\ t.pc = "notify" /\ t.mark = Len(rows) + 1 /\ t.box = BoxOf[table]
        /\ t.to = list
    BY <1>0 DEF Free
  <2>2. t.mark \in 1 .. Len(rows') /\ rows'[t.mark] = row
    BY <1>2, <2>1
  <2>3. rows'[t.mark].table = table /\ rows'[t.mark].to = to
    BY <2>2
  <2>4. NotifyOK(t)'
    BY <2>1, <2>2, <2>3 DEF NotifyOK
  <2> QED
    BY <2>1, <2>4 DEF TaskInv, LoginOK, PollOK, SnapOK
<1>7. ASSUME NEW x, TaskInv(x) PROVE TaskInv(x)'
  <2>1. LoginOK(x)' /\ SnapOK(x)'
    BY <1>1, <1>5, <1>7 DEF TaskInv, LoginOK, SnapOK
  <2>2. NotifyOK(x)'
    BY <1>2, <1>7 DEF TaskInv, NotifyOK
  <2>3. PollOK(x)'
    BY <1>1, <1>4, <1>7 DEF TaskInv, PollOK, Registered
  <2> QED
    BY <2>1, <2>2, <2>3 DEF TaskInv
<1>8. TasksOK'
  BY <1>3, <1>6, <1>7 DEF IInv, TasksOK
<1>9. FlagsOK' /\ NoticesOK'
  BY <1>1, <1>4, <1>5 DEF IInv, FlagsOK, NoticesOK, Registered
<1>10. ArraysOK' /\ RungOK'
  BY <1>1, <1>2 DEF IInv, ArraysOK, RungOK, TypeOK
<1> QED
  BY <1>8, <1>9, <1>10 DEF IInv

\* A login gives its session, which nobody else serves, another array.
LEMMA InvAlloc ==
  ASSUME IInv, TypeOK', NEW w \in Workers, NEW s \in Sessions, NEW u \in Users,
         LoginAlloc(w, s, u)
  PROVE  IInv'
<1>0. PICK t : t = [Free EXCEPT !.pc = "find", !.s = s, !.to = {u}]
  OBVIOUS
<1>1. /\ \A q \in Sessions : q # s => nf'[q] = nf[q]
      /\ nf'[s].s = s /\ nf'[s].u = u
      /\ UNCHANGED <<nmap, raised, notice, rows, rung, torn>>
  BY DEF LoginAlloc, IInv, TypeOK
<1>2. nf'[s] # None
  BY ArrayIsArray DEF LoginAlloc, IInv, TypeOK, Array, MailboxAssumption
<1>3. \A v \in Workers : work'[v] = IF v = w THEN t ELSE work[v]
  BY <1>0 DEF IInv, TypeOK, Set, LoginAlloc
<1>4. t.pc = "find" /\ t.s = s /\ t.to = {u} /\ t.seen = {}
  BY <1>0 DEF Free
<1>5. TaskInv(t)'
  BY <1>1, <1>2, <1>4 DEF TaskInv, LoginOK, NotifyOK, PollOK, SnapOK
<1>6. ASSUME NEW v \in Workers, TaskInv(work[v]), work'[v] = work[v]
      PROVE  TaskInv(work[v])'
  <2>1. work[v].pc \in {"find", "link"} => work[v].s \in Sessions \ {s}
    BY DEF LoginAlloc, CanServe, Serving, ServePCs, IInv, TypeOK
  <2>2. LoginOK(work[v])'
    BY <1>1, <1>6, <2>1 DEF TaskInv, LoginOK
  <2>3. NotifyOK(work[v])' /\ PollOK(work[v])' /\ SnapOK(work[v])'
    BY <1>1, <1>6 DEF TaskInv, NotifyOK, PollOK, SnapOK, NoticeOK, Backed, Registered
  <2> QED
    BY <2>2, <2>3 DEF TaskInv
<1>7. TasksOK'
  BY <1>3, <1>5, <1>6 DEF IInv, TasksOK
<1>8. FlagsOK' /\ NoticesOK' /\ RungOK'
  BY <1>1 DEF IInv, FlagsOK, NoticesOK, NoticeOK, RungOK, Backed, Registered
<1>9. ArraysOK'
  BY <1>1 DEF IInv, ArraysOK
<1> QED
  BY <1>7, <1>8, <1>9 DEF IInv

\* A link that no other insert has overlapped takes nobody's entry.
LEMMA InvLink ==
  ASSUME IInv, TypeOK', NEW w \in Workers, LoginLink(w)
  PROVE  IInv'
<1>0. PICK t : t = [work[w] EXCEPT !.pc = "ready"]
  OBVIOUS
<1>1. /\ UNCHANGED <<nf, raised, notice, rows, rung>>
      /\ work[w].pc = "link" /\ TaskOK(work[w]) /\ LoginOK(work[w])
      /\ work[w].s \in Sessions /\ work[w].to \subseteq Users
  BY TasksAreTyped DEF LoginLink, IInv, TaskOK, Task, TasksOK, TaskInv
<1>2. \A v \in Workers : work'[v] = IF v = w THEN t ELSE work[v]
  BY <1>0 DEF IInv, TypeOK, Set, LoginLink
<1>3. ArraysOK'
  <2>1. PICK u \in work[w].to :
          \/ nmap' = [nmap EXCEPT ![u] = nf[work[w].s]]
          \/ \E lost \in SUBSET InMap, entry \in {nmap[u], nf[work[w].s]} :
               nmap' = [v \in Users |-> IF v = u THEN entry
                                       ELSE IF v \in lost THEN None ELSE nmap[v]]
    BY DEF LoginLink
  <2>2. nf[work[w].s].u = u
    BY <1>1 DEF LoginOK
  <2>3. ASSUME NEW v \in Users
        PROVE  nmap'[v] = nmap[v] \/ nmap'[v] = None \/ (v = u /\ nmap'[v] = nf[work[w].s])
    <3>1. nmap \in [Users -> Array \cup {None}]
      BY DEF IInv, TypeOK
    <3>3. CASE v = u
      BY <2>1, <3>1, <3>3
    <3>4. CASE v # u
      BY <2>1, <3>1, <3>4
    <3> QED
      BY <3>3, <3>4
  <2> QED
    BY <1>1, <2>2, <2>3 DEF ArraysOK, IInv
<1>4. torn => torn'
  BY DEF LoginLink
<1>5. ASSUME NEW a \in Array, torn \/ Registered(a) PROVE torn' \/ Registered(a)'
  <2>1. a.u \in Users /\ a # None
    BY ArrayIsArray DEF Array
  <2>2. CASE torn'
    BY <2>2
  <2>3. CASE ~torn'
    <3>1. PICK u \in work[w].to : /\ InMap = work[w].seen
                                  /\ nmap' = [nmap EXCEPT ![u] = nf[work[w].s]]
      BY <2>3 DEF LoginLink
    <3>2. u \in Users /\ nmap[u] = None
      BY <1>1, <3>1 DEF LoginOK, InMap
    <3>3. nmap[a.u] = a
      BY <1>4, <1>5, <2>3 DEF Registered
    <3>4. a.u # u
      BY <2>1, <3>2, <3>3
    <3> QED
      BY <2>1, <3>1, <3>3, <3>4 DEF Registered, IInv, TypeOK
  <2> QED
    BY <2>2, <2>3
<1>6. \A s : \A m \in Notice : NoticeOK(s, m) => NoticeOK(s, m)'
  BY <1>1, <1>5 DEF NoticeOK, Backed, Notice
<1>7. NoticesOK'
  BY <1>1, <1>6 DEF NoticesOK, IInv, TypeOK
<1>8. FlagsOK'
  BY <1>1, <1>5 DEF FlagsOK, IInv, TypeOK, Flag, Backed
<1>9. ASSUME NEW x, TaskOK(x), TaskInv(x) PROVE TaskInv(x)'
  <2>1. LoginOK(x)' /\ NotifyOK(x)'
    BY <1>1, <1>9 DEF TaskInv, LoginOK, NotifyOK
  <2>2. PollOK(x)'
    BY <1>1, <1>5, <1>9 DEF TaskInv, TaskOK, Task, PollOK, Backed
  <2>3. SnapOK(x)'
    BY <1>6, <1>9 DEF TaskInv, TaskOK, Task, SnapOK
  <2> QED
    BY <2>1, <2>2, <2>3 DEF TaskInv
<1>10. TaskInv(t)'
  BY <1>0, <1>1 DEF TaskOK, Task, TaskInv, LoginOK, NotifyOK, PollOK, SnapOK
<1>11. TasksOK'
  BY <1>2, <1>9, <1>10, TasksAreTyped DEF IInv, TasksOK
<1> QED
  BY <1>1, <1>3, <1>7, <1>8, <1>11 DEF IInv, RungOK

\* A ring raises the flag of the registered array, of a user the row is for.
LEMMA InvNotify ==
  ASSUME IInv, TypeOK', NEW w \in Workers, NEW u \in Users, NotifyUser(w, u)
  PROVE  IInv'
<1>0. PICK t : t = [work[w] EXCEPT !.to = @ \ {u}]
  OBVIOUS
<1>1. /\ UNCHANGED <<nf, nmap, notice, rows, torn>>
      /\ work[w].pc = "notify" /\ TaskOK(work[w]) /\ NotifyOK(work[w])
      /\ u \in work[w].to
  BY TasksAreTyped DEF NotifyUser, IInv, TasksOK, TaskInv
<1>2. \A v \in Workers : work'[v] = IF v = w THEN t ELSE work[v]
  BY <1>0 DEF IInv, TypeOK, Set, NotifyUser
<1>3. \A x : TaskInv(x) => TaskInv(x)'
  BY <1>1 DEF TaskInv, LoginOK, NotifyOK, PollOK, SnapOK, NoticeOK, Backed, Registered
<1>4. TaskInv(t)
  BY <1>0, <1>1 DEF TaskOK, Task, TaskInv, LoginOK, NotifyOK, PollOK, SnapOK
<1>5. TasksOK'
  BY <1>2, <1>3, <1>4 DEF IInv, TasksOK
<1>6. nmap[u] # None => Backed(nmap[u], work[w].box, Len(rows)) /\ Registered(nmap[u])
  BY <1>1 DEF NotifyOK, Backed, Registered, IInv, ArraysOK, TypeOK
<1>7. FlagsOK'
  <2>1. ASSUME NEW f \in raised'
        PROVE  Backed(f.arr, f.box, Len(rows)) /\ (torn \/ Registered(f.arr))
    <3>1. CASE f \in raised
      BY <3>1 DEF IInv, FlagsOK
    <3>2. CASE nmap[u] # None /\ f = [arr |-> nmap[u], box |-> work[w].box]
      BY <1>6, <3>2
    <3> QED
      BY <3>1, <3>2 DEF NotifyUser
  <2> QED
    BY <1>1, <2>1 DEF FlagsOK, Backed, Registered
<1>8. RungOK'
  BY <1>1 DEF NotifyUser, NotifyOK, IInv, RungOK
<1>9. ArraysOK' /\ NoticesOK'
  BY <1>1 DEF IInv, ArraysOK, NoticesOK, NoticeOK, Backed, Registered
<1> QED
  BY <1>5, <1>7, <1>8, <1>9 DEF IInv

\* A push_back adds a notice for the flag its poll has seen, to a queue of such.
LEMMA InvPollStore ==
  ASSUME IInv, TypeOK', NEW w \in Workers, PollStore(w)
  PROVE  IInv'
<1>0. PICK t : t = [work[w] EXCEPT !.pc = "clear", !.mark = Len(rows)]
  OBVIOUS
<1>1. /\ UNCHANGED <<nf, nmap, raised, rows, rung, torn>>
      /\ work[w].pc = "store" /\ TaskOK(work[w]) /\ PollOK(work[w]) /\ SnapOK(work[w])
  BY TasksAreTyped DEF PollStore, IInv, TasksOK, TaskInv
<1>2. \A v \in Workers : work'[v] = IF v = w THEN t ELSE work[v]
  BY <1>0 DEF IInv, TypeOK, Set, PollStore
<1>3. \A x : TaskInv(x) => TaskInv(x)'
  BY <1>1 DEF TaskInv, LoginOK, NotifyOK, PollOK, SnapOK, NoticeOK, Backed, Registered
<1>4. t.pc = "clear"
  BY <1>0, <1>1 DEF TaskOK, Task
<1>5. TasksOK'
  BY <1>2, <1>3, <1>4, FreshTask DEF IInv, TasksOK
<1>6. NoticesOK'
  <2> DEFINE n == [box |-> work[w].box, arr |-> work[w].arr, upto |-> Len(rows)]
  <2>1. NoticeOK(work[w].s, n)
    BY <1>1 DEF PollOK, NoticeOK
  <2> HIDE DEF n
  <2>2. work[w].s \in Sessions
    BY <1>1 DEF TaskOK
  <2>3. PICK q \in {notice[work[w].s], work[w].snap} :
          notice' = [notice EXCEPT ![work[w].s] = q \cup {n}]
    BY DEF PollStore, n
  <2>4. \A m \in q : NoticeOK(work[w].s, m)
    BY <1>1, <2>2, <2>3 DEF IInv, NoticesOK, SnapOK
  <2>5. \A s \in Sessions : \A m \in notice'[s] : NoticeOK(s, m)
    BY <2>1, <2>2, <2>3, <2>4 DEF IInv, NoticesOK, TypeOK
  <2>6. \A s, m : NoticeOK(s, m) => NoticeOK(s, m)'
    BY <1>1 DEF NoticeOK, Backed, Registered
  <2> QED
    BY <2>5, <2>6 DEF NoticesOK
<1>7. ArraysOK' /\ FlagsOK' /\ RungOK'
  BY <1>1 DEF IInv, ArraysOK, FlagsOK, RungOK, Backed, Registered
<1> QED
  BY <1>5, <1>6, <1>7 DEF IInv

\* A clear takes a flag away.
LEMMA InvPollClear ==
  ASSUME IInv, TypeOK', NEW w \in Workers, PollClear(w)
  PROVE  IInv'
<1>0. PICK t : t = NextBox(work[w])
  OBVIOUS
<1>1. /\ UNCHANGED <<nf, nmap, notice, rows, rung, torn>>
      /\ raised' \subseteq raised
  BY DEF PollClear
<1>2. \A v \in Workers : work'[v] = IF v = w THEN t ELSE work[v]
  BY <1>0 DEF IInv, TypeOK, Set, PollClear
<1>3. \A x : TaskInv(x) => TaskInv(x)'
  BY <1>1 DEF TaskInv, LoginOK, NotifyOK, PollOK, SnapOK, NoticeOK, Backed, Registered
<1>4. TaskInv(t)
  BY <1>0, FreshPoll
<1>5. TasksOK'
  BY <1>2, <1>3, <1>4 DEF IInv, TasksOK
<1>6. FlagsOK'
  BY <1>1 DEF IInv, FlagsOK, Backed, Registered
<1>7. ArraysOK' /\ NoticesOK' /\ RungOK'
  BY <1>1 DEF IInv, ArraysOK, NoticesOK, NoticeOK, RungOK, Backed, Registered
<1> QED
  BY <1>5, <1>6, <1>7 DEF IInv

LEMMA InvNext == IInv /\ [Next]_vars => IInv'
<1> SUFFICES ASSUME IInv, [Next]_vars PROVE IInv'
  OBVIOUS
<1>0. TypeOK'
  BY TypeNext DEF IInv
<1>1. ASSUME UNCHANGED <<nf, nmap, raised, notice, rows, rung, torn, work>> PROVE IInv'
  BY <1>0, <1>1 DEF IInv, ArraysOK, TasksOK, TaskInv, LoginOK, NotifyOK, PollOK, SnapOK,
                    FlagsOK, NoticesOK, NoticeOK, RungOK, Backed, Registered
<1>2. ASSUME NEW w \in Workers, NEW s \in Sessions, Request(w, s) PROVE IInv'
  <2>1. ASSUME NEW u \in Users, LoginAlloc(w, s, u) PROVE IInv'
    BY <1>0, <2>1, InvAlloc
  <2>2. ASSUME NEW t \in Tables, ActSendMsg(w, s, t) PROVE IInv'
    BY <1>0, <2>2, InvStore, ArrayIsArray DEF ActSendMsg, BoxOf
  <2>3. ASSUME NEW u \in Users, ActConnect(w, s, u) PROVE IInv'
    BY <1>0, <2>3, InvStore DEF ActConnect, BoxOf
  <2>4. ASSUME NEW u \in Users, ActInvite(w, s, u) PROVE IInv'
    BY <1>0, <2>4, InvStore DEF ActInvite, TargetAsRead, BoxOf
  <2>5. ASSUME NEW cont \in SUBSET Users, ActCreateTable(w, s, cont) PROVE IInv'
    BY <1>0, <2>5, InvStore DEF ActCreateTable, BoxOf
  <2>6. CASE CutOff(w, s) \/ Disconnect(w, s)
    BY <1>1, <2>6 DEF CutOff, Disconnect
  <2> QED
    BY <1>2, <2>1, <2>2, <2>3, <2>4, <2>5, <2>6 DEF Request
<1>3. ASSUME NEW w \in Workers, LoginFind(w) PROVE IInv'
  <2>1. TaskOK(work[w]) /\ LoginOK(work[w])
    BY TasksAreTyped DEF IInv, TasksOK, TaskInv
  <2>2. PICK u \in work[w].to :
          \/ Set(w, [work[w] EXCEPT !.pc = "ready"])
          \/ Set(w, [work[w] EXCEPT !.pc = "link", !.seen = InMap \ {u}])
    BY <1>3 DEF LoginFind
  <2>3. /\ TaskInv([work[w] EXCEPT !.pc = "ready"])
        /\ TaskInv([work[w] EXCEPT !.pc = "link", !.seen = InMap \ {u}])
    BY <1>3, <2>1, <2>2 DEF LoginFind, TaskOK, Task, TaskInv, LoginOK, NotifyOK, PollOK, SnapOK
  <2> QED
    BY <1>0, <1>3, <2>2, <2>3, InvLocal DEF LoginFind
<1>4. ASSUME NEW w \in Workers, LoginLink(w) PROVE IInv'
  BY <1>0, <1>4, InvLink
<1>5. ASSUME NEW w \in Workers, LoginReady(w) \/ NotifyEnd(w) PROVE IInv'
  <2>1. TaskInv(Free)
    BY FreshTask DEF Free
  <2> QED
    BY <1>0, <1>5, <2>1, InvLocal DEF LoginReady, NotifyEnd
<1>6. ASSUME NEW w \in Workers, NEW u \in Users, NotifyUser(w, u) PROVE IInv'
  BY <1>0, <1>6, InvNotify
<1>7. ASSUME NEW w \in Workers, NEW s \in Sessions, PollStart(w, s) PROVE IInv'
  <2>1. TaskInv([Free EXCEPT !.pc = "test", !.s = s])
    BY FreshPoll
  <2> QED
    BY <1>0, <1>7, <2>1, InvLocal DEF PollStart
<1>8. ASSUME NEW w \in Workers, PollTest(w) PROVE IInv'
  <2> DEFINE t == [work[w] EXCEPT !.pc = "load", !.arr = nf[work[w].s]]
  <2>1. TaskOK(work[w]) /\ work[w].s \in Sessions
    BY <1>8, TasksAreTyped DEF PollTest, IInv, TaskOK
  <2>2. TaskInv(NextBox(work[w]))
    BY FreshPoll
  <2>3. ASSUME FlagOf(work[w]) \in raised PROVE TaskInv(t)
    <3>1. /\ t.pc = "load" /\ t.s = work[w].s /\ t.box = work[w].box
          /\ t.arr = nf[work[w].s]
      BY <2>1 DEF TaskOK, Task
    <3>2. /\ Backed(nf[work[w].s], work[w].box, Len(rows))
          /\ torn \/ Registered(nf[work[w].s])
      BY <2>3 DEF IInv, FlagsOK, FlagOf
    <3>3. nf[work[w].s] \in Array
      BY <2>3 DEF IInv, TypeOK, Flag, FlagOf
    <3>4. nf[work[w].s].s = work[w].s
      BY <2>1, <3>3, ArrayIsArray DEF IInv, ArraysOK
    <3> HIDE DEF t
    <3> QED
      BY <3>1, <3>2, <3>4 DEF TaskInv, LoginOK, NotifyOK, PollOK, SnapOK
  <2> QED
    BY <1>0, <1>8, <2>2, <2>3, InvLocal DEF PollTest
<1>9. ASSUME NEW w \in Workers, PollLoad(w) PROVE IInv'
  <2> DEFINE t == [work[w] EXCEPT !.pc = "store", !.snap = notice[work[w].s]]
  <2>1. /\ TaskOK(work[w]) /\ work[w].s \in Sessions
        /\ work[w].pc = "load" /\ PollOK(work[w])
    BY <1>9, TasksAreTyped DEF PollLoad, IInv, TaskOK, TasksOK, TaskInv
  <2>2. /\ t.pc = "store" /\ t.s = work[w].s /\ t.box = work[w].box
        /\ t.arr = work[w].arr /\ t.snap = notice[work[w].s]
    BY <2>1 DEF TaskOK, Task
  <2> HIDE DEF t
  <2>3. TaskInv(t)
    BY <2>1, <2>2 DEF IInv, NoticesOK, TaskInv, LoginOK, NotifyOK, PollOK, SnapOK
  <2> QED
    BY <1>0, <1>9, <2>3, InvLocal DEF PollLoad, t
<1>10. ASSUME NEW w \in Workers, PollStore(w) PROVE IInv'
  BY <1>0, <1>10, InvPollStore
<1>11. ASSUME NEW w \in Workers, PollClear(w) PROVE IInv'
  BY <1>0, <1>11, InvPollClear
<1>12. ASSUME NEW w \in Workers, NEW s \in Sessions, PollWild(w, s) PROVE IInv'
  BY <1>1, <1>12 DEF PollWild
<1>13. ASSUME NEW w \in Workers, CutOffAnswer(w) PROVE IInv'
  BY <1>1, <1>13 DEF CutOffAnswer
<1>15. ASSUME NEW w \in Workers, NotifyWild(w) PROVE IInv'
  BY <1>1, <1>15 DEF NotifyWild
<1>14. CASE UNCHANGED vars
  BY <1>1, <1>14 DEF vars
<1> QED
  BY <1>2, <1>3, <1>4, <1>5, <1>6, <1>7, <1>8, <1>9, <1>10, <1>11, <1>12, <1>13, <1>14,
     <1>15
     DEF Next, Advance

LEMMA InvGivesProperties == IInv => BackedNotice /\ OneMailbox
BY DEF IInv, FlagsOK, NoticesOK, NoticeOK, Registered, BackedNotice, OneMailbox

\* However the handlers, polls and logins interleave, every flag raised and every
\* notice queued has its row in the database, and the row is for the user.
THEOREM NoticesAreBacked == Spec => []BackedNotice
<1> QED
  BY InvInit, InvNext, InvGivesProperties, PTL DEF Spec

\* As long as no two inserts into the map overlap, one array per user gets all the
\* rings and one session all the notices, however often the user logs in.
THEOREM MailboxIsOne == Spec => []OneMailbox
<1> QED
  BY InvInit, InvNext, InvGivesProperties, PTL DEF Spec

-----------------------------------------------------------------------------
(***************************************************************************)
(* What can lose a ring.                                                   *)
(***************************************************************************)

\* The polls that have seen a flag still hold it.
PollsHeld ==
  \A v \in Workers :
    work[v].pc \in {"load", "store"} =>
      work'[v].pc \in {"load", "store"} /\ work'[v].arr = work[v].arr
                                      /\ work'[v].box = work[v].box

\* A ring keeps its box, since rows are only appended.
LEMMA BoxRungKept ==
  ASSUME IInv, [Next]_vars, NEW r \in rung
  PROVE  BoxRung(r)' = BoxRung(r) /\ FlagRung(r)' = FlagRung(r)
<1>1. r.row \in 1 .. Len(rows) /\ rows \in Seq(Row)
  BY DEF IInv, RungOK, TypeOK
<1>2. rows' = rows \/ \E row : rows' = Append(rows, row)
  <2>1. ASSUME NEW w \in Workers, Advance(w) PROVE rows' = rows
    BY <2>1 DEF Advance, LoginFind, LoginLink, LoginReady, NotifyUser, NotifyEnd, PollTest,
                PollLoad, PollStore, PollClear
  <2>2. ASSUME NEW w \in Workers, NEW s \in Sessions, Request(w, s)
        PROVE  rows' = rows \/ \E row : rows' = Append(rows, row)
    BY <2>2 DEF Request, LoginAlloc, ActSendMsg, ActConnect, ActCreateTable, ActInvite,
                StoreAndNotify, CutOff, Disconnect
  <2> QED
    BY <2>1, <2>2 DEF Next, PollStart, PollWild, CutOffAnswer, NotifyWild, vars
<1>3. rows'[r.row] = rows[r.row]
  BY <1>1, <1>2
<1> QED
  BY <1>3 DEF BoxRung, FlagRung

\* A ring on record stays so if nothing is taken away.
LEMMA RecordKept ==
  ASSUME IInv, [Next]_vars, NEW r \in rung, Recorded(r), PollsHeld,
         raised \subseteq raised', notice[r.arr.s] \subseteq notice'[r.arr.s]
  PROVE  Recorded(r)'
BY BoxRungKept DEF Recorded, Covered, PollsHeld

\* All steps but the end of a push_back and a clear take nothing away.
LEMMA QuietSteps ==
  ASSUME IInv, [Next]_vars,
         ~ \E w \in Workers : PollStore(w) \/ PollClear(w)
  PROVE  PollsHeld /\ raised \subseteq raised' /\ notice' = notice
<1>1. raised \subseteq raised' /\ notice' = notice
  <2>1. ASSUME NEW w \in Workers, Advance(w)
        PROVE  raised \subseteq raised' /\ notice' = notice
    BY <2>1 DEF Advance, LoginFind, LoginLink, LoginReady, NotifyUser, NotifyEnd, PollTest,
                PollLoad
  <2>2. ASSUME NEW w \in Workers, NEW s \in Sessions, Request(w, s)
        PROVE  raised' = raised /\ notice' = notice
    BY <2>2 DEF Request, LoginAlloc, ActSendMsg, ActConnect, ActCreateTable, ActInvite,
                StoreAndNotify, CutOff, Disconnect
  <2> QED
    BY <2>1, <2>2 DEF Next, PollStart, PollWild, CutOffAnswer, NotifyWild, vars
<1>2. \/ work' = work
      \/ \E w \in Workers : \E t :
           /\ Set(w, t)
           /\ \/ work[w].pc \notin {"load", "store"}
              \/ t = [work[w] EXCEPT !.pc = "store", !.snap = notice[work[w].s]]
  <2>1. ASSUME NEW w \in Workers, Advance(w)
        PROVE  \E t : /\ Set(w, t)
                      /\ \/ work[w].pc \notin {"load", "store"}
                         \/ t = [work[w] EXCEPT !.pc = "store", !.snap = notice[work[w].s]]
    BY <2>1 DEF Advance, LoginFind, LoginLink, LoginReady, NotifyUser, NotifyEnd, PollTest,
                PollLoad
  <2>2. ASSUME NEW w \in Workers, NEW s \in Sessions, Request(w, s) \/ PollStart(w, s)
        PROVE  work' = work \/ \E t : Set(w, t) /\ work[w].pc = "idle"
    BY <2>2 DEF Request, CanServe, LoginAlloc, ActSendMsg, ActConnect, ActCreateTable,
                ActInvite, StoreAndNotify, CutOff, Disconnect, PollStart
  <2> QED
    BY <2>1, <2>2 DEF Next, PollWild, CutOffAnswer, NotifyWild, vars
<1>3. PollsHeld
  <2>1. CASE work' = work
    BY <2>1 DEF PollsHeld
  <2>2. ASSUME NEW w \in Workers, NEW t, Set(w, t), work[w].pc \notin {"load", "store"}
        PROVE  PollsHeld
    BY <2>2 DEF PollsHeld, Set, IInv, TypeOK
  <2>3. ASSUME NEW w \in Workers,
               Set(w, [work[w] EXCEPT !.pc = "store", !.snap = notice[work[w].s]])
        PROVE  PollsHeld
    BY <2>3, TasksAreTyped DEF PollsHeld, Set, IInv, TypeOK, TaskOK, Task
  <2> QED
    BY <1>2, <2>1, <2>2, <2>3
<1> QED
  BY <1>1, <1>3

LEMMA LossStep == IInv /\ [Next]_vars => LossIsARace
<1> SUFFICES ASSUME IInv, [Next]_vars PROVE LossIsARace
  OBVIOUS
<1>1. ASSUME NEW w \in Workers, PollStore(w) PROVE LossIsARace
  <2> DEFINE s == work[w].s
             n == [box |-> work[w].box, arr |-> work[w].arr, upto |-> Len(rows)]
  <2>1. /\ s \in Sessions /\ work[w].arr.s = s /\ TaskOK(work[w]) /\ work[w].pc = "store"
        /\ raised' = raised /\ notice \in [Sessions -> SUBSET Notice]
    BY <1>1, TasksAreTyped
       DEF PollStore, TaskOK, Task, IInv, TypeOK, TasksOK, TaskInv, PollOK
  <2>2. \A v \in Workers \ {w} : work'[v] = work[v]
    BY <1>1 DEF PollStore, Set, IInv, TypeOK
  <2>3. \A q \in Sessions \ {s} : notice'[q] = notice[q]
    BY <1>1, <2>1 DEF PollStore
  <2>4. n \in notice'[s]
    BY <1>1, <2>1 DEF PollStore
  <2>5. work[w].snap = notice[s] => notice[s] \subseteq notice'[s]
    BY <1>1, <2>1 DEF PollStore
  <2>6. work[w].snap # notice[s] => OverlappedStore(w, s)
    BY <1>1 DEF OverlappedStore
  <2>7. ASSUME NEW r \in rung, Recorded(r), ~ \E v \in Workers : OverlappedStore(v, r.arr.s)
        PROVE  Recorded(r)'
    <3>1. r.arr.s \in Sessions /\ r.row \in 1 .. Len(rows)
      BY DEF IInv, TypeOK, RungOK, Ring, Array
    <3>2. notice[r.arr.s] \subseteq notice'[r.arr.s]
      BY <2>3, <2>5, <2>6, <2>7, <3>1
    <3>3. BoxRung(r)' = BoxRung(r) /\ FlagRung(r)' = FlagRung(r)
      BY BoxRungKept
    <3>4. CASE work[w].arr = r.arr /\ work[w].box = BoxRung(r)
      <4>1. n \in notice'[r.arr.s] /\ n.arr = r.arr /\ n.box = BoxRung(r) /\ n.upto >= r.row
        BY <2>1, <2>4, <3>1, <3>4
      <4> QED
        BY <3>3, <4>1 DEF Recorded, Covered
    <3>5. CASE ~(work[w].arr = r.arr /\ work[w].box = BoxRung(r))
      BY <2>1, <2>2, <2>7, <3>2, <3>3, <3>5 DEF Recorded, Covered
    <3> QED
      BY <3>4, <3>5
  <2> QED
    BY <2>3, <2>5, <2>6, <2>7 DEF LossIsARace
<1>2. ASSUME NEW w \in Workers, PollClear(w) PROVE LossIsARace
  <2> DEFINE s == work[w].s
             n == [box |-> work[w].box, arr |-> work[w].arr, upto |-> work[w].mark]
  <2>1. /\ s \in Sessions /\ TaskOK(work[w]) /\ work[w].pc = "clear"
        /\ raised' = raised \ {FlagOf(work[w])} /\ notice' = notice
    BY <1>2, TasksAreTyped DEF PollClear, TaskOK, IInv
  <2>2. \A v \in Workers \ {w} : work'[v] = work[v]
    BY <1>2 DEF PollClear, Set, IInv, TypeOK
  <2>3. ASSUME NEW r \in rung, Recorded(r), ~LateClear(w, r)
        PROVE  Recorded(r)'
    <3>1. r.arr \in Array /\ r.row \in 1 .. Len(rows) /\ work[w].mark \in Nat
      BY <2>1 DEF IInv, TypeOK, RungOK, Ring, TaskOK, Task
    <3>2. BoxRung(r)' = BoxRung(r) /\ FlagRung(r)' = FlagRung(r)
      BY BoxRungKept
    <3>3. CASE FlagOf(work[w]) = FlagRung(r)
      <4>1. /\ work[w].mark >= r.row /\ work[w].arr = nf[s] /\ n \in notice[s]
        BY <1>2, <2>3, <3>1, <3>3 DEF LateClear
      <4>2. nf[s] = r.arr /\ work[w].box = BoxRung(r)
        BY <3>3 DEF FlagOf, FlagRung
      <4>3. r.arr.s = s
        BY <2>1, <3>1, <4>2, ArrayIsArray DEF IInv, ArraysOK
      <4> QED
        BY <2>1, <3>2, <4>1, <4>2, <4>3 DEF Recorded, Covered
    <3>4. CASE FlagOf(work[w]) # FlagRung(r)
      BY <2>1, <2>2, <2>3, <3>2, <3>4 DEF Recorded, Covered
    <3> QED
      BY <3>3, <3>4
  <2> QED
    BY <2>1, <2>3 DEF LossIsARace
<1>3. CASE ~ \E w \in Workers : PollStore(w) \/ PollClear(w)
  BY <1>3, QuietSteps, RecordKept DEF LossIsARace
<1> QED
  BY <1>1, <1>2, <1>3

\* Whatever the interleaving, a ring that is on record is lost only by a poll's
\* clear that its notice does not cover or by two polls pushing to one queue.
THEOREM OnlyRacesLoseRings == Spec => OnlyRacesLose
<1>1. IInv /\ [Next]_vars => [LossIsARace]_vars
  BY LossStep
<1> QED
  BY <1>1, InvInit, InvNext, PTL DEF Spec, OnlyRacesLose

-----------------------------------------------------------------------------
(***************************************************************************)
(* What Delivery needs to know: a notice tells of no row to come.          *)
(***************************************************************************)
UptoOK ==
  /\ \A s \in Sessions : \A m \in notice[s] : m.upto <= Len(rows)
  /\ \A w \in Workers : work[w].pc = "store" => \A m \in work[w].snap : m.upto <= Len(rows)

LEMMA UptoInit == Init => UptoOK
BY DEF Init, UptoOK, Free

LEMMA StoreAddsOne ==
  ASSUME TypeOK, NEW w \in Workers, NEW s \in Sessions, NEW table \in DOMAIN BoxOf,
         NEW to \in SUBSET Users, NEW list, StoreAndNotify(w, s, table, to, list)
  PROVE  Len(rows) \in Nat /\ Len(rows') = Len(rows) + 1
<1>1. PICK row \in Row : row = [table |-> table, to |-> to]
  BY DEF Row
<1>2. rows \in Seq(Row) /\ rows' = Append(rows, row)
  BY <1>1 DEF TypeOK, StoreAndNotify
<1> QED
  BY <1>2

\* Rows are stored by the request handlers only, and notices queued by polls.
LEMMA RowsNext ==
  ASSUME TypeOK, [Next]_vars
  PROVE  /\ Len(rows) \in Nat /\ Len(rows) <= Len(rows')
         /\ notice' = notice \/ \E w \in Workers : PollStore(w)
         /\ \/ work' = work
            \/ \E w \in Workers : \E t :
                 /\ Set(w, t)
                 /\ t.pc # "store" \/ (t.snap = notice[work[w].s] /\ work[w].s \in Sessions)
<1>0. Len(rows) \in Nat
  BY DEF TypeOK
<1>1. ASSUME NEW w \in Workers, NEW s \in Sessions, Request(w, s)
      PROVE  Len(rows) <= Len(rows') /\ notice' = notice
             /\ (work' = work \/ \E t : Set(w, t) /\ t.pc # "store")
  <2>1. ASSUME NEW table \in DOMAIN BoxOf, NEW to \in SUBSET Users, NEW list,
               StoreAndNotify(w, s, table, to, list)
        PROVE  Len(rows) <= Len(rows') /\ notice' = notice
               /\ \E t : Set(w, t) /\ t.pc # "store"
    <3>1. PICK t : t = [Free EXCEPT !.pc = "notify", !.s = s, !.box = BoxOf[table],
                                    !.to = list, !.mark = Len(rows) + 1]
      OBVIOUS
    <3>2. t.pc = "notify" /\ Set(w, t) /\ notice' = notice
      BY <2>1, <3>1 DEF StoreAndNotify, Free
    <3>3. Len(rows) <= Len(rows')
      BY <2>1, StoreAddsOne
    <3> QED
      BY <3>2, <3>3
  <2>2. ASSUME NEW u \in Users, LoginAlloc(w, s, u)
        PROVE  rows' = rows /\ notice' = notice /\ \E t : Set(w, t) /\ t.pc # "store"
    <3>1. PICK t : t = [Free EXCEPT !.pc = "find", !.s = s, !.to = {u}]
      OBVIOUS
    <3>2. t.pc # "store"
      BY <3>1 DEF Free
    <3>3. rows' = rows /\ notice' = notice /\ Set(w, t)
      BY <2>2, <3>1 DEF LoginAlloc
    <3> QED
      BY <3>2, <3>3
  <2>3. ASSUME CutOff(w, s) \/ Disconnect(w, s)
        PROVE  rows' = rows /\ notice' = notice /\ work' = work
    BY <2>3 DEF CutOff, Disconnect
  <2>4. ASSUME NEW t \in Tables, ActSendMsg(w, s, t)
        PROVE  Len(rows) <= Len(rows') /\ notice' = notice /\ \E x : Set(w, x) /\ x.pc # "store"
    BY <2>1, <2>4, ArrayIsArray DEF ActSendMsg, BoxOf
  <2>5. ASSUME NEW u \in Users, ActConnect(w, s, u) \/ ActInvite(w, s, u)
        PROVE  Len(rows) <= Len(rows') /\ notice' = notice /\ \E x : Set(w, x) /\ x.pc # "store"
    BY <2>1, <2>5 DEF ActConnect, ActInvite, TargetAsRead, BoxOf
  <2>6. ASSUME NEW cont \in SUBSET Users, ActCreateTable(w, s, cont)
        PROVE  Len(rows) <= Len(rows') /\ notice' = notice /\ \E x : Set(w, x) /\ x.pc # "store"
    BY <2>1, <2>6 DEF ActCreateTable, BoxOf
  <2> QED
    BY <1>0, <1>1, <2>2, <2>3, <2>4, <2>5, <2>6 DEF Request
<1>2. ASSUME NEW w \in Workers, Advance(w)
      PROVE  /\ rows' = rows /\ (notice' = notice \/ PollStore(w))
             /\ \E t : /\ Set(w, t)
                       /\ t.pc # "store" \/ (t.snap = notice[work[w].s] /\ work[w].s \in Sessions)
  <2>1. TaskOK(work[w])
    BY TasksAreTyped
  <2>2. PICK x \in Task : x = work[w]
    BY <2>1 DEF TaskOK
  <2>3. rows' = rows /\ (notice' = notice \/ PollStore(w))
    BY <1>2 DEF Advance, LoginFind, LoginLink, LoginReady, NotifyUser, NotifyEnd, PollTest,
                PollLoad, PollStore, PollClear
  <2>4. NextBox(x).pc # "store" /\ Free.pc # "store"
    BY DEF NextBox, Free
  <2>5. CASE PollLoad(w)
    <3>1. PICK t : t = [x EXCEPT !.pc = "store", !.snap = notice[x.s]]
      OBVIOUS
    <3>2. Set(w, t) /\ t.snap = notice[x.s] /\ x.s \in Sessions
      BY <2>1, <2>2, <2>5, <3>1 DEF PollLoad, Task, TaskOK
    <3> QED
      BY <2>2, <2>3, <3>2
  <2>6. CASE LoginFind(w)
    <3>1. ASSUME Set(w, [x EXCEPT !.pc = "ready"])
          PROVE  \E t : Set(w, t) /\ t.pc # "store"
      <4>1. PICK t : t = [x EXCEPT !.pc = "ready"]
        OBVIOUS
      <4>2. t.pc = "ready"
        BY <2>2, <4>1 DEF Task
      <4> QED
        BY <3>1, <4>1, <4>2
    <3>2. ASSUME NEW u \in Users, Set(w, [x EXCEPT !.pc = "link", !.seen = InMap \ {u}])
          PROVE  \E t : Set(w, t) /\ t.pc # "store"
      <4>1. PICK t : t = [x EXCEPT !.pc = "link", !.seen = InMap \ {u}]
        OBVIOUS
      <4>2. t.pc = "link"
        BY <2>2, <4>1 DEF Task
      <4> QED
        BY <3>2, <4>1, <4>2
    <3>3. x.to \subseteq Users
      BY <2>2 DEF Task
    <3>4. \E t : Set(w, t) /\ t.pc # "store"
      BY <2>2, <2>6, <3>1, <3>2, <3>3 DEF LoginFind
    <3> QED
      BY <2>3, <3>4
  <2>7. CASE LoginLink(w) \/ LoginReady(w) \/ NotifyEnd(w)
    <3>1. PICK t : Set(w, t) /\ t.pc # "store"
      BY <2>2, <2>4, <2>7 DEF LoginLink, LoginReady, NotifyEnd, Task
    <3> QED
      BY <2>3, <3>1
  <2>8. CASE \E u \in Users : NotifyUser(w, u)
    <3>1. PICK t : Set(w, t) /\ t.pc # "store"
      BY <2>2, <2>8 DEF NotifyUser, Task
    <3> QED
      BY <2>3, <3>1
  <2>9. CASE PollTest(w) \/ PollClear(w)
    <3>1. CASE Set(w, NextBox(x))
      BY <2>3, <2>4, <3>1
    <3>2. CASE Set(w, [x EXCEPT !.pc = "load", !.arr = nf[x.s]])
      <4>1. PICK t : t = [x EXCEPT !.pc = "load", !.arr = nf[x.s]]
        OBVIOUS
      <4>2. t.pc = "load"
        BY <2>2, <4>1 DEF Task
      <4> QED
        BY <2>3, <3>2, <4>1, <4>2
    <3> QED
      BY <2>2, <2>9, <3>1, <3>2 DEF PollTest, PollClear
  <2>10. CASE PollStore(w)
    <3>1. PICK t : t = [x EXCEPT !.pc = "clear", !.mark = Len(rows)]
      OBVIOUS
    <3>2. t.pc = "clear"
      BY <2>2, <3>1 DEF Task
    <3>3. Set(w, t)
      BY <2>2, <2>10, <3>1 DEF PollStore
    <3> QED
      BY <2>3, <3>2, <3>3
  <2> QED
    BY <1>2, <2>5, <2>6, <2>7, <2>8, <2>9, <2>10 DEF Advance
<1>3. ASSUME NEW w \in Workers, NEW s \in Sessions, PollStart(w, s)
      PROVE  rows' = rows /\ notice' = notice /\ \E t : Set(w, t) /\ t.pc # "store"
  <2>1. PICK t : t = [Free EXCEPT !.pc = "test", !.s = s]
    OBVIOUS
  <2>2. t.pc = "test"
    BY <2>1 DEF Free
  <2> QED
    BY <1>3, <2>1, <2>2 DEF PollStart
<1>4. ASSUME NEW w \in Workers, NEW s \in Sessions,
             PollWild(w, s) \/ CutOffAnswer(w) \/ NotifyWild(w) \/ UNCHANGED vars
      PROVE  rows' = rows /\ notice' = notice /\ work' = work
  BY <1>4 DEF PollWild, CutOffAnswer, NotifyWild, vars
<1>5. CASE UNCHANGED vars
  BY <1>0, <1>5 DEF vars
<1>6. ASSUME NEW w \in Workers, CutOffAnswer(w) \/ NotifyWild(w)
      PROVE  rows' = rows /\ notice' = notice /\ work' = work
  BY <1>6 DEF CutOffAnswer, NotifyWild
<1> QED
  BY <1>0, <1>1, <1>2, <1>3, <1>4, <1>5, <1>6 DEF Next

LEMMA UptoNext ==
  ASSUME TypeOK, UptoOK, [Next]_vars
  PROVE  UptoOK'
<1>1. Len(rows) \in Nat /\ Len(rows) <= Len(rows') /\ TypeOK'
  BY RowsNext, TypeNext
<1>2. Len(rows') \in Nat
  BY <1>1 DEF TypeOK
<1>3. ASSUME NEW s \in Sessions, NEW m \in notice[s] PROVE m.upto <= Len(rows')
  <2>1. m.upto \in Nat /\ m.upto <= Len(rows)
    BY DEF TypeOK, Notice, UptoOK
  <2> QED
    BY <1>1, <1>2, <2>1
<1>4. ASSUME NEW w \in Workers, work[w].pc = "store", NEW m \in work[w].snap
      PROVE  m.upto <= Len(rows')
  <2>1. m.upto \in Nat /\ m.upto <= Len(rows)
    BY <1>4, TasksAreTyped DEF TaskOK, Task, Notice, UptoOK
  <2> QED
    BY <1>1, <1>2, <2>1
<1>5. ASSUME NEW s \in Sessions, NEW m \in notice'[s] PROVE m.upto <= Len(rows')
  <2>1. CASE notice' = notice
    BY <1>3, <1>5, <2>1
  <2>2. ASSUME NEW w \in Workers, PollStore(w) PROVE m.upto <= Len(rows')
    <3>1. /\ work[w].pc = "store" /\ work[w].s \in Sessions /\ rows' = rows
      BY <2>2, TasksAreTyped DEF PollStore, TaskOK
    <3>2. PICK n : n = [box |-> work[w].box, arr |-> work[w].arr, upto |-> Len(rows)]
      OBVIOUS
    <3>3. PICK q \in {notice[work[w].s], work[w].snap} :
            notice' = [notice EXCEPT ![work[w].s] = q \cup {n}]
      BY <2>2, <3>2 DEF PollStore
    <3>4. m \in notice[s] \/ m \in q \/ m = n
      BY <1>5, <3>3 DEF TypeOK
    <3>5. \A x \in q : x.upto <= Len(rows')
      BY <1>3, <1>4, <3>1, <3>3
    <3>6. n.upto <= Len(rows')
      BY <1>1, <3>1, <3>2
    <3> QED
      BY <1>3, <3>4, <3>5, <3>6
  <2> QED
    BY <2>1, <2>2, RowsNext
<1>6. ASSUME NEW v \in Workers, work'[v].pc = "store", NEW m \in work'[v].snap
      PROVE  m.upto <= Len(rows')
  <2>1. CASE work' = work
    BY <1>4, <1>6, <2>1
  <2>2. ASSUME NEW w \in Workers, NEW t, Set(w, t),
               t.pc # "store" \/ (t.snap = notice[work[w].s] /\ work[w].s \in Sessions)
        PROVE  m.upto <= Len(rows')
    <3>1. work'[v] = IF v = w THEN t ELSE work[v]
      BY <2>2 DEF Set, TypeOK
    <3> QED
      BY <1>3, <1>4, <1>6, <2>2, <3>1
  <2> QED
    BY <2>1, <2>2, RowsNext
<1> QED
  BY <1>5, <1>6 DEF UptoOK
=============================================================================
