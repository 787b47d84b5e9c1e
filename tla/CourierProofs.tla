---------------------------- MODULE CourierProofs ----------------------------
(***************************************************************************)
(* Theorems about Mailbox, for any number of sessions, users and chat      *)
(* tables, and any bounds. With one io thread no ring is lost, and the     *)
(* flags, the polls and the queues of notices implement Courier; with any  *)
(* number of io threads they implement LooseCourier.                       *)
(***************************************************************************)
EXTENDS MailboxProofs, SequenceTheorems

\* main's two sweepers post, and one thread runs what they post.
OneThread == \A v, w \in Workers : v = w

-----------------------------------------------------------------------------
(***************************************************************************)
(* Nothing comes between the steps of a poll or of a handler: what it has  *)
(* read is still so.                                                       *)
(***************************************************************************)

\* The session's array is the one whose flag the poll has seen.
SeenOK(t) == t.pc \in {"load", "store", "clear"} => t.arr = nf[t.s]

\* The queue is as the push_back has found it.
FoundOK(t) == t.pc = "store" => t.snap = notice[t.s]

\* The notice that was queued is there, and tells of all rows up to now.
QueuedOK(t) ==
  t.pc = "clear" =>
    /\ t.mark = Len(rows)
    /\ [box |-> t.box, arr |-> t.arr, upto |-> t.mark] \in notice[t.s]

\* No notice tells of a row that is not there, or is being rung for; nobody is rung
\* twice for a row.
RingingOK(t) ==
  t.pc = "notify" =>
    /\ t.mark = Len(rows)
    /\ \A s \in Sessions : \A m \in notice[s] : m.upto < t.mark
    /\ \A r \in rung : r.row = t.mark => r.arr.u \notin t.to

NoticesTellWhatIs == \A s \in Sessions : \A m \in notice[s] : m.upto <= Len(rows)

Serial(t) == SeenOK(t) /\ FoundOK(t) /\ QueuedOK(t) /\ RingingOK(t)

SerialInv ==
  /\ IInv
  /\ \A w \in Workers : Serial(work[w])
  /\ NoticesTellWhatIs
  /\ NoLostNotice

\* A task of another kind has read nothing.
LEMMA FreshSerial ==
  ASSUME NEW t, t.pc \in {"idle", "find", "link", "ready", "test"} PROVE Serial(t) /\ Serial(t)'
BY DEF Serial, SeenOK, FoundOK, QueuedOK, RingingOK

LEMMA NextBoxIsFresh ==
  /\ \A x : NextBox(x).pc \in {"idle", "test"}
  /\ Free.pc = "idle"
BY DEF NextBox, Free

LEMMA SerialInit == Init => SerialInv
<1> SUFFICES ASSUME Init PROVE SerialInv
  OBVIOUS
<1>1. \A w \in Workers : work[w].pc = "idle"
  BY NextBoxIsFresh DEF Init
<1>2. \A w \in Workers : Serial(work[w])
  BY <1>1, FreshSerial
<1> QED
  BY <1>2, InvInit DEF Init, SerialInv, NoticesTellWhatIs, NoLostNotice

\* With one thread neither race of LossIsARace can happen.
LEMMA NoRace ==
  ASSUME OneThread, SerialInv, NEW w \in Workers
  PROVE  /\ \A s : ~OverlappedStore(w, s)
         /\ \A r \in rung : ~LateClear(w, r)
<1>1. \A s : ~OverlappedStore(w, s)
  BY DEF SerialInv, Serial, FoundOK, OverlappedStore, PollStore
<1>2. ASSUME NEW r \in rung, LateClear(w, r) PROVE FALSE
  <2>1. work[w].pc = "clear"
    BY <1>2 DEF LateClear, PollClear
  <2>2. /\ work[w].arr = nf[work[w].s] /\ work[w].mark = Len(rows)
        /\ [box |-> work[w].box, arr |-> work[w].arr, upto |-> work[w].mark] \in notice[work[w].s]
    BY <2>1 DEF SerialInv, Serial, SeenOK, QueuedOK
  <2>3. r.row \in 1 .. Len(rows) /\ Len(rows) \in Nat
    BY DEF SerialInv, IInv, RungOK, TypeOK
  <2> QED
    BY <1>2, <2>2, <2>3 DEF LateClear
<1> QED
  BY <1>1, <1>2

\* A ring that is new has its flag raised.
LEMMA NewRingIsRaised ==
  ASSUME IInv, [Next]_vars, NEW r \in rung', r \notin rung PROVE Recorded(r)'
<1>1. PICK w \in Workers, u \in Users : NotifyUser(w, u)
  <2>1. ASSUME NEW w \in Workers, Advance(w), ~ \E u \in Users : NotifyUser(w, u)
        PROVE  rung' = rung
    BY <2>1 DEF Advance, LoginFind, LoginLink, LoginReady, NotifyEnd, PollTest, PollLoad,
                PollStore, PollClear
  <2>2. ASSUME NEW w \in Workers, NEW s \in Sessions, Request(w, s) PROVE rung' = rung
    BY <2>2 DEF Request, LoginAlloc, ActSendMsg, ActConnect, ActCreateTable, ActInvite,
                StoreAndNotify, CutOff, Disconnect
  <2> QED
    BY <2>1, <2>2 DEF Next, PollStart, PollWild, CutOffAnswer, NotifyWild, vars
<1>2. /\ r = [row |-> work[w].mark, arr |-> nmap[u]]
      /\ [arr |-> nmap[u], box |-> work[w].box] \in raised' /\ rows' = rows
  BY <1>1 DEF NotifyUser
<1>3. BoxOf[rows[work[w].mark].table] = work[w].box
  BY <1>1 DEF NotifyUser, IInv, TasksOK, TaskInv, NotifyOK
<1> QED
  BY <1>2, <1>3 DEF Recorded, FlagRung, BoxRung

LEMMA RingsStayRecorded ==
  ASSUME OneThread, SerialInv, [Next]_vars PROVE NoLostNotice'
<1>1. LossIsARace
  BY LossStep DEF SerialInv
<1>2. ASSUME NEW r \in rung PROVE Recorded(r)'
  BY <1>1, NoRace DEF LossIsARace, SerialInv, NoLostNotice
<1> QED
  BY <1>2, NewRingIsRaised DEF NoLostNotice, SerialInv

\* The tasks of all workers are in order if that of the one that moves is.
LEMMA OnlyOneMoves ==
  ASSUME OneThread, TypeOK, NEW w \in Workers, NEW t, Set(w, t), Serial(t)'
  PROVE  \A v \in Workers : Serial(work[v])'
<1>1. \A v \in Workers : work'[v] = t
  BY DEF OneThread, TypeOK, Set
<1>2. \A v \in Workers : work'[v].pc = t.pc
  BY <1>1
<1> QED
  BY <1>1 DEF Serial, SeenOK, FoundOK, QueuedOK, RingingOK

LEMMA SerialNext == OneThread /\ SerialInv /\ [Next]_vars => SerialInv'
<1> SUFFICES ASSUME OneThread, SerialInv, [Next]_vars PROVE SerialInv'
  OBVIOUS
<1>0. IInv /\ IInv' /\ TypeOK /\ NoLostNotice'
  BY InvNext, RingsStayRecorded DEF SerialInv, IInv
<1> DEFINE Goal == NoticesTellWhatIs' /\ \A w \in Workers : Serial(work[w])'
<1>a. Len(rows) \in Nat /\ \A s \in Sessions : notice[s] \subseteq Notice
  BY <1>0 DEF TypeOK
<1>b. NoticesTellWhatIs /\ \A w \in Workers : Serial(work[w])
  BY DEF SerialInv
<1>1. ASSUME UNCHANGED <<nf, notice, rows, rung, work>> PROVE Goal
  BY <1>1, <1>b DEF NoticesTellWhatIs, Serial, SeenOK, FoundOK, QueuedOK, RingingOK
<1>2. ASSUME NEW w \in Workers, NEW t, Set(w, t),
             t.pc \in {"idle", "find", "link", "ready", "test"},
             UNCHANGED <<notice, rows>>
      PROVE  Goal
  BY <1>0, <1>2, <1>b, FreshSerial, OnlyOneMoves DEF NoticesTellWhatIs
<1>3. ASSUME NEW w \in Workers, NEW s \in Sessions,
             NEW table, NEW to, NEW list, StoreAndNotify(w, s, table, to, list)
      PROVE  Goal
  <2>0. PICK t : t = [Free EXCEPT !.pc = "notify", !.s = s, !.box = BoxOf[table],
                                  !.to = list, !.mark = Len(rows) + 1]
    OBVIOUS
  <2>1. /\ t.pc = "notify" /\ t.mark = Len(rows) + 1 /\ Set(w, t)
        /\ notice' = notice /\ rung' = rung /\ Len(rows') = Len(rows) + 1
    BY <1>0, <1>3, <2>0 DEF StoreAndNotify, Free, TypeOK
  <2>2. \A r \in rung : r.row # t.mark
    BY <1>0, <1>a, <2>1 DEF IInv, RungOK
  <2>3. \A q \in Sessions : \A m \in notice[q] : m.upto \in Nat /\ m.upto <= Len(rows)
    BY <1>a, <1>b DEF NoticesTellWhatIs, Notice
  <2>4. \A q \in Sessions : \A m \in notice[q] : m.upto < t.mark /\ m.upto <= Len(rows')
    BY <1>a, <2>1, <2>3
  <2>5. Serial(t)'
    BY <2>1, <2>2, <2>4 DEF Serial, SeenOK, FoundOK, QueuedOK, RingingOK
  <2> QED
    BY <1>0, <2>1, <2>4, <2>5, OnlyOneMoves DEF NoticesTellWhatIs
<1>4. ASSUME NEW w \in Workers, NEW s \in Sessions, Request(w, s) PROVE Goal
  <2>1. ASSUME NEW u \in Users, LoginAlloc(w, s, u) PROVE Goal
    <3>0. PICK t : t = [Free EXCEPT !.pc = "find", !.s = s, !.to = {u}]
      OBVIOUS
    <3>1. t.pc = "find" /\ Set(w, t) /\ UNCHANGED <<notice, rows>>
      BY <2>1, <3>0 DEF LoginAlloc, Free
    <3> QED
      BY <1>2, <3>1
  <2>2. CASE CutOff(w, s) \/ Disconnect(w, s)
    BY <1>1, <2>2 DEF CutOff, Disconnect
  <2> QED
    BY <1>3, <1>4, <2>1, <2>2 DEF Request, ActSendMsg, ActConnect, ActInvite, ActCreateTable
<1>5. ASSUME NEW w \in Workers, LoginFind(w) \/ LoginLink(w) \/ LoginReady(w) \/ NotifyEnd(w)
      PROVE  Goal
  <2>1. TaskOK(work[w])
    BY <1>0, TasksAreTyped
  <2>2. /\ [work[w] EXCEPT !.pc = "ready"].pc = "ready"
        /\ \A u : [work[w] EXCEPT !.pc = "link", !.seen = InMap \ {u}].pc = "link"
        /\ Free.pc = "idle"
    BY <2>1 DEF TaskOK, Task, Free
  <2> QED
    BY <1>2, <1>5, <2>2 DEF LoginFind, LoginLink, LoginReady, NotifyEnd
<1>6. ASSUME NEW w \in Workers, NEW u \in Users, NotifyUser(w, u) PROVE Goal
  <2>0. PICK t : t = [work[w] EXCEPT !.to = @ \ {u}]
    OBVIOUS
  <2>1. /\ TaskOK(work[w]) /\ work[w].pc = "notify" /\ Serial(work[w])
        /\ Set(w, t) /\ UNCHANGED <<notice, rows>>
    BY <1>0, <1>6, <1>b, <2>0, TasksAreTyped DEF NotifyUser
  <2>2. t.pc = "notify" /\ t.mark = work[w].mark /\ t.to = work[w].to \ {u}
    BY <2>0, <2>1 DEF TaskOK, Task
  <2>3. /\ t.mark = Len(rows)
        /\ \A s \in Sessions : \A m \in notice[s] : m.upto < t.mark
    BY <2>1, <2>2 DEF Serial, RingingOK
  <2>4. \A r \in rung' : r.row = t.mark => r.arr.u \notin t.to
    <3>1. ASSUME NEW r \in rung, r.row = t.mark PROVE r.arr.u \notin t.to
      BY <2>1, <2>2, <3>1 DEF Serial, RingingOK
    <3>2. ASSUME NEW r, nmap[u] # None, r = [row |-> work[w].mark, arr |-> nmap[u]]
          PROVE  r.arr.u \notin t.to
      BY <1>0, <2>2, <3>2 DEF IInv, ArraysOK
    <3> QED
      BY <1>6, <3>1, <3>2 DEF NotifyUser
  <2>5. Serial(t)'
    BY <2>1, <2>2, <2>3, <2>4 DEF Serial, SeenOK, FoundOK, QueuedOK, RingingOK
  <2> QED
    BY <1>0, <1>b, <2>1, <2>5, OnlyOneMoves DEF NoticesTellWhatIs
<1>7. ASSUME NEW w \in Workers, NEW s \in Sessions, PollStart(w, s) PROVE Goal
  <2>0. PICK t : t = [Free EXCEPT !.pc = "test", !.s = s]
    OBVIOUS
  <2>1. t.pc = "test" /\ Set(w, t) /\ UNCHANGED <<notice, rows>>
    BY <1>7, <2>0 DEF PollStart, Free
  <2> QED
    BY <1>2, <2>1
<1>8. ASSUME NEW w \in Workers, PollTest(w) PROVE Goal
  <2>1. CASE FlagOf(work[w]) \in raised
    <3>0. PICK t : t = [work[w] EXCEPT !.pc = "load", !.arr = nf[work[w].s]]
      OBVIOUS
    <3>1. /\ TaskOK(work[w]) /\ Set(w, t) /\ UNCHANGED <<nf, notice, rows, rung>>
      BY <1>0, <1>8, <2>1, <3>0, TasksAreTyped DEF PollTest
    <3>2. t.pc = "load" /\ t.s = work[w].s /\ t.arr = nf[work[w].s]
      BY <3>0, <3>1 DEF TaskOK, Task
    <3>3. Serial(t)'
      BY <3>1, <3>2 DEF Serial, SeenOK, FoundOK, QueuedOK, RingingOK
    <3> QED
      BY <1>0, <1>b, <3>1, <3>3, OnlyOneMoves DEF NoticesTellWhatIs
  <2>2. CASE FlagOf(work[w]) \notin raised
    BY <1>2, <1>8, <2>2, NextBoxIsFresh DEF PollTest
  <2> QED
    BY <2>1, <2>2
<1>9. ASSUME NEW w \in Workers, PollLoad(w) PROVE Goal
  <2>0. PICK t : t = [work[w] EXCEPT !.pc = "store", !.snap = notice[work[w].s]]
    OBVIOUS
  <2>1. /\ TaskOK(work[w]) /\ work[w].pc = "load" /\ Serial(work[w])
        /\ Set(w, t) /\ UNCHANGED <<nf, notice, rows, rung>>
    BY <1>0, <1>9, <1>b, <2>0, TasksAreTyped DEF PollLoad
  <2>2. /\ t.pc = "store" /\ t.s = work[w].s /\ t.arr = work[w].arr
        /\ t.snap = notice[work[w].s]
    BY <2>0, <2>1 DEF TaskOK, Task
  <2>3. t.arr = nf[t.s]
    BY <2>1, <2>2 DEF Serial, SeenOK
  <2>4. Serial(t)'
    BY <2>1, <2>2, <2>3 DEF Serial, SeenOK, FoundOK, QueuedOK, RingingOK
  <2> QED
    BY <1>0, <1>b, <2>1, <2>4, OnlyOneMoves DEF NoticesTellWhatIs
<1>10. ASSUME NEW w \in Workers, PollStore(w) PROVE Goal
  <2>0. PICK t : t = [work[w] EXCEPT !.pc = "clear", !.mark = Len(rows)]
    OBVIOUS
  <2>1. /\ TaskOK(work[w]) /\ work[w].pc = "store" /\ work[w].s \in Sessions
        /\ Serial(work[w]) /\ Set(w, t) /\ UNCHANGED <<nf, rows, rung>>
    BY <1>0, <1>10, <1>b, <2>0, TasksAreTyped DEF PollStore, TaskOK
  <2>2. /\ t.pc = "clear" /\ t.s = work[w].s /\ t.arr = work[w].arr /\ t.box = work[w].box
        /\ t.mark = Len(rows)
    BY <2>0, <2>1 DEF TaskOK, Task
  <2>3. t.arr = nf[t.s] /\ work[w].snap = notice[work[w].s]
    BY <2>1, <2>2 DEF Serial, SeenOK, FoundOK
  <2> DEFINE n == [box |-> work[w].box, arr |-> work[w].arr, upto |-> Len(rows)]
  <2>4. notice' = [notice EXCEPT ![work[w].s] = notice[work[w].s] \cup {n}]
    BY <1>10, <2>3 DEF PollStore
  <2>5. n.upto = Len(rows) /\ n = [box |-> t.box, arr |-> t.arr, upto |-> t.mark]
    BY <2>2
  <2> HIDE DEF n
  <2>6. n \in notice'[work[w].s]
    BY <1>0, <2>1, <2>4 DEF TypeOK
  <2>7. ASSUME NEW q \in Sessions, NEW m \in notice'[q] PROVE m.upto <= Len(rows)
    BY <1>0, <1>a, <1>b, <2>1, <2>4, <2>5, <2>7 DEF NoticesTellWhatIs, TypeOK
  <2>8. Serial(t)'
    BY <2>1, <2>2, <2>3, <2>5, <2>6 DEF Serial, SeenOK, FoundOK, QueuedOK, RingingOK
  <2> QED
    BY <1>0, <2>1, <2>7, <2>8, OnlyOneMoves DEF NoticesTellWhatIs
<1>11. ASSUME NEW w \in Workers, PollClear(w) PROVE Goal
  BY <1>2, <1>11, NextBoxIsFresh DEF PollClear
<1>12. Goal
  BY <1>1, <1>4, <1>5, <1>6, <1>7, <1>8, <1>9, <1>10, <1>11
     DEF Next, Advance, PollWild, CutOffAnswer, NotifyWild, vars
<1> QED
  BY <1>0, <1>12 DEF SerialInv

\* With one io thread no ring is lost: the flag stays raised until a notice that
\* tells of the ring's row is in the queue.
THEOREM OneThreadLosesNothing == ASSUME OneThread PROVE Spec => []NoLostNotice
<1>1. SerialInv => NoLostNotice
  BY DEF SerialInv
<1>2. SerialInv /\ [Next]_vars => SerialInv'
  BY SerialNext
<1> QED
  BY <1>1, <1>2, SerialInit, PTL DEF Spec

-----------------------------------------------------------------------------
(***************************************************************************)
(* Mailbox implements Courier: an INSERT keeps a row, a renew rings, a     *)
(* push_back tells, and the rest is not seen.                              *)
(***************************************************************************)

\* What Courier's variables stand for.
KindsStored == [i \in DOMAIN rows |-> BoxOf[rows[i].table]]
Told        == {r \in rung : Covered(r)}
Due         == rung \ Told

LEMMA AbstractVars == NoLostNotice => Due = {r \in rung : Recorded(r) /\ ~Covered(r)}
BY DEF Due, Told, NoLostNotice

\* No login numbers an array past the bound, and the map's arrays are from logins.
NumbersOK ==
  /\ \A s \in Sessions : nf[s] # None => nf[s].n <= MaxLogins
  /\ \A u \in Users : nmap[u] # None => nmap[u].n <= MaxLogins

LEMMA NumbersNext == IInv /\ NumbersOK /\ [Next]_vars => NumbersOK'
<1> SUFFICES ASSUME IInv, NumbersOK, [Next]_vars PROVE NumbersOK'
  OBVIOUS
<1>0. TypeOK
  BY DEF IInv
<1>1. ASSUME nf' = nf, nmap' = nmap PROVE NumbersOK'
  BY <1>1 DEF NumbersOK
<1>2. ASSUME NEW w \in Workers, NEW s \in Sessions, NEW u \in Users, LoginAlloc(w, s, u)
      PROVE  NumbersOK'
  <2> DEFINE n == IF nf[s] = None THEN 1 ELSE nf[s].n + 1
  <2>1. n <= MaxLogins /\ nf' = [nf EXCEPT ![s] = [s |-> s, u |-> u, n |-> n]] /\ nmap' = nmap
    BY <1>2 DEF LoginAlloc
  <2> HIDE DEF n
  <2>2. nf'[s].n = n /\ \A q \in Sessions \ {s} : nf'[q] = nf[q]
    BY <1>0, <2>1 DEF TypeOK
  <2> QED
    BY <2>1, <2>2 DEF NumbersOK
<1>3. ASSUME NEW w \in Workers, LoginLink(w) PROVE NumbersOK'
  <2>1. /\ nf' = nf /\ work[w].pc = "link" /\ LoginOK(work[w])
        /\ work[w].s \in Sessions /\ work[w].to \subseteq Users
    BY <1>0, <1>3, TasksAreTyped DEF LoginLink, IInv, TasksOK, TaskInv, TaskOK, Task
  <2>2. PICK u \in work[w].to :
          \/ nmap' = [nmap EXCEPT ![u] = nf[work[w].s]]
          \/ \E lost \in SUBSET InMap, entry \in {nmap[u], nf[work[w].s]} :
               nmap' = [v \in Users |-> IF v = u THEN entry
                                       ELSE IF v \in lost THEN None ELSE nmap[v]]
    BY <1>3 DEF LoginLink
  <2>3. ASSUME NEW v \in Users
        PROVE  nmap'[v] = nmap[v] \/ nmap'[v] = None \/ nmap'[v] = nf[work[w].s]
    <3>1. nmap \in [Users -> Array \cup {None}]
      BY <1>0 DEF TypeOK
    <3>2. CASE v = u
      BY <2>2, <3>1, <3>2
    <3>3. CASE v # u
      BY <2>2, <3>1, <3>3
    <3> QED
      BY <3>2, <3>3
  <2> QED
    BY <2>1, <2>3 DEF NumbersOK
<1>4. ASSUME NEW w \in Workers, Advance(w), ~LoginLink(w) PROVE NumbersOK'
  BY <1>1, <1>4 DEF Advance, LoginFind, LoginReady, NotifyUser, NotifyEnd, PollTest, PollLoad,
                    PollStore, PollClear
<1>5. ASSUME NEW w \in Workers, NEW s \in Sessions, Request(w, s) PROVE NumbersOK'
  BY <1>1, <1>2, <1>5 DEF Request, ActSendMsg, ActConnect, ActCreateTable, ActInvite,
                          StoreAndNotify, CutOff, Disconnect
<1> QED
  BY <1>1, <1>3, <1>4, <1>5 DEF Next, PollStart, PollWild, CutOffAnswer, NotifyWild, vars

\* What no notice, row or ring is added to looks the same.
LEMMA Unseen ==
  ASSUME UNCHANGED <<notice, rows, rung>>
  PROVE  UNCHANGED <<KindsStored, Due, Told>>
BY DEF KindsStored, Due, Told, Covered, BoxRung

\* An INSERT keeps a row.
LEMMA StoreKeeps ==
  ASSUME IInv, NEW w, NEW s, NEW table \in DOMAIN BoxOf, NEW to, NEW list,
         StoreAndNotify(w, s, table, to, list)
  PROVE  /\ KindsStored' = Append(KindsStored, BoxOf[table])
         /\ UNCHANGED <<Due, Told>>
<1> DEFINE row == [table |-> table, to |-> to]
<1>1. /\ rows \in Seq(Row) /\ Len(rows) \in Nat /\ rows' = Append(rows, row)
      /\ notice' = notice /\ rung' = rung
  BY DEF StoreAndNotify, IInv, TypeOK
<1>2. row.table = table
  OBVIOUS
<1> HIDE DEF row
<1>3. /\ Len(rows') = Len(rows) + 1 /\ DOMAIN rows = 1 .. Len(rows)
      /\ DOMAIN rows' = 1 .. Len(rows) + 1
      /\ \A i \in 1 .. Len(rows) : rows'[i] = rows[i]
      /\ rows'[Len(rows) + 1] = row
  BY <1>1
<1>4. KindsStored' = Append(KindsStored, BoxOf[table])
  <2>1. /\ Len(KindsStored) = Len(rows) /\ KindsStored \in Seq(Boxes)
        /\ \A i \in 1 .. Len(rows) : KindsStored[i] = BoxOf[rows[i].table]
    <3>0. \A i \in 1 .. Len(rows) : rows[i] \in Row
      BY <1>1
    <3>1. \A i \in 1 .. Len(rows) : rows[i].table \in DOMAIN BoxOf
      BY <3>0 DEF Row
    <3>2. \A i \in 1 .. Len(rows) : BoxOf[rows[i].table] \in Boxes
      BY <3>1, BoxesAreBoxes
    <3>3. KindsStored \in [1 .. Len(rows) -> Boxes]
      BY <1>3, <3>2 DEF KindsStored
    <3> QED
      BY <1>1, <1>3, <3>3 DEF KindsStored
  <2>2. /\ DOMAIN (KindsStored') = 1 .. Len(rows) + 1
        /\ \A i \in 1 .. Len(rows) + 1 : KindsStored'[i] = BoxOf[rows'[i].table]
    BY <1>3 DEF KindsStored
  <2>3. \A i \in 1 .. Len(rows) : KindsStored'[i] = BoxOf[rows[i].table]
    BY <1>1, <1>3, <2>2
  <2>4. KindsStored'[Len(rows) + 1] = BoxOf[table]
    BY <1>1, <1>2, <1>3, <2>2
  <2>5. \A i \in 1 .. Len(rows) + 1 :
          KindsStored'[i] = IF i = Len(rows) + 1 THEN BoxOf[table] ELSE KindsStored[i]
    BY <1>1, <2>1, <2>3, <2>4
  <2>6. \A i \in 1 .. Len(rows) + 1 : KindsStored'[i] \in Boxes
    BY <1>1, <2>1, <2>5, BoxesAreBoxes
  <2>7. KindsStored' \in [1 .. Len(rows) + 1 -> Boxes]
    BY <1>3, <2>6 DEF KindsStored
  <2>8. KindsStored' \in Seq(Boxes) /\ Len(KindsStored') = Len(rows) + 1
    BY <1>1, <2>7
  <2>9. PICK after : after = Append(KindsStored, BoxOf[table])
    OBVIOUS
  <2>10. /\ after \in Seq(Boxes) /\ Len(after) = Len(rows) + 1
         /\ \A i \in 1 .. Len(rows) + 1 :
              after[i] = IF i = Len(rows) + 1 THEN BoxOf[table] ELSE KindsStored[i]
    BY <1>1, <2>1, <2>9, BoxesAreBoxes
  <2>11. \A i \in 1 .. Len(rows) + 1 : KindsStored'[i] = after[i]
    BY <2>5, <2>10
  <2> QED
    BY <2>8, <2>9, <2>10, <2>11, SeqEqual
<1>5. \A r \in rung : BoxRung(r)' = BoxRung(r)
  BY <1>3 DEF BoxRung, IInv, RungOK
<1> QED
  BY <1>1, <1>4, <1>5 DEF Due, Told, Covered

\* A renew rings, for a row and an array not rung for before; the rest is not seen.
LEMMA NotifyRings ==
  ASSUME SerialInv, NEW w \in Workers, NEW u \in Users, NotifyUser(w, u)
  PROVE  \/ UNCHANGED <<KindsStored, Due, Told>>
         \/ LET r == [row |-> work[w].mark, arr |-> nmap[u]] IN
            /\ nmap[u] # None /\ work[w].mark \in DOMAIN rows /\ r \notin rung
            /\ Due' = Due \cup {r} /\ UNCHANGED <<KindsStored, Told>>
<1>1. CASE UNCHANGED rung
  BY <1>1, Unseen DEF NotifyUser
<1>2. CASE nmap[u] # None /\ rung' = rung \cup {[row |-> work[w].mark, arr |-> nmap[u]]}
  <2>0. PICK r : r = [row |-> work[w].mark, arr |-> nmap[u]]
    OBVIOUS
  <2>1. /\ rows' = rows /\ notice' = notice /\ rung' = rung \cup {r}
        /\ r.row = work[w].mark /\ r.arr = nmap[u]
        /\ work[w].pc = "notify" /\ u \in work[w].to
    BY <1>2, <2>0 DEF NotifyUser
  <2>2. nmap[u] \in Array /\ nmap[u].u = u
    BY <1>2 DEF SerialInv, IInv, TypeOK, ArraysOK
  <2>3. RingingOK(work[w]) /\ NotifyOK(work[w])
    BY DEF SerialInv, IInv, TasksOK, TaskInv, Serial
  <2>4. r \notin rung
    BY <2>1, <2>2, <2>3 DEF RingingOK
  <2>5. work[w].mark \in 1 .. Len(rows) /\ DOMAIN rows = 1 .. Len(rows)
    BY <2>1, <2>3 DEF NotifyOK, SerialInv, IInv, TypeOK
  <2>6. ~Covered(r)
    <3>1. r.arr.s \in Sessions
      BY <2>1, <2>2 DEF Array
    <3>2. \A m \in notice[r.arr.s] : m.upto \in Nat /\ m.upto < r.row
      BY <2>1, <2>3, <3>1 DEF RingingOK, SerialInv, IInv, TypeOK, Notice
    <3> QED
      BY <2>1, <2>5, <3>2 DEF Covered
  <2>7. \A x : Covered(x)' = Covered(x)
    BY <2>1 DEF Covered, BoxRung
  <2>8. Told' = Told /\ Due' = Due \cup {r}
    BY <2>1, <2>4, <2>6, <2>7 DEF Told, Due
  <2>9. KindsStored' = KindsStored
    BY <2>1 DEF KindsStored
  <2> QED
    BY <1>2, <2>0, <2>4, <2>5, <2>8, <2>9
<1> QED
  BY <1>1, <1>2 DEF NotifyUser

\* A push_back tells of all that is due in its box.
LEMMA PushTells ==
  ASSUME SerialInv, NEW w \in Workers, PollStore(w)
  PROVE  LET all == {r \in Due : r.arr = work[w].arr /\ KindsStored[r.row] = work[w].box}
         IN  /\ Due' = Due \ all /\ Told' = Told \cup all /\ KindsStored' = KindsStored
             /\ work[w].arr = nf[work[w].s] /\ work[w].s \in Sessions
             /\ work[w].arr # None /\ work[w].box \in Boxes
<1> DEFINE n == [box |-> work[w].box, arr |-> work[w].arr, upto |-> Len(rows)]
           all == {r \in Due : r.arr = work[w].arr /\ KindsStored[r.row] = work[w].box}
<1>0. TypeOK /\ IInv
  BY DEF SerialInv, IInv
<1>1. /\ TaskOK(work[w]) /\ work[w].pc = "store" /\ work[w].s \in Sessions
      /\ work[w].arr # None /\ work[w].box \in Boxes
      /\ rows' = rows /\ rung' = rung
  BY <1>0, TasksAreTyped DEF PollStore, TaskOK, Task
<1>2. /\ work[w].arr = nf[work[w].s] /\ work[w].snap = notice[work[w].s]
      /\ work[w].arr.s = work[w].s
  BY <1>1 DEF SerialInv, Serial, SeenOK, FoundOK, IInv, TasksOK, TaskInv, PollOK
<1>3. notice' = [notice EXCEPT ![work[w].s] = notice[work[w].s] \cup {n}]
  BY <1>2 DEF PollStore
<1>4. n.box = work[w].box /\ n.arr = work[w].arr /\ n.upto = Len(rows)
  OBVIOUS
<1> HIDE DEF n
<1>5. KindsStored' = KindsStored
  BY <1>1 DEF KindsStored
<1>6. ASSUME NEW r \in rung
      PROVE  Covered(r)' <=> Covered(r) \/ (r.arr = work[w].arr /\ KindsStored[r.row] = work[w].box)
  <2>1. /\ r.row \in 1 .. Len(rows) /\ Len(rows) \in Nat /\ r.arr.s \in Sessions
        /\ DOMAIN rows = 1 .. Len(rows)
    BY <1>0 DEF IInv, RungOK, TypeOK, Ring, Array
  <2>2. KindsStored[r.row] = BoxRung(r) /\ BoxRung(r)' = BoxRung(r)
    BY <1>1, <2>1 DEF KindsStored, BoxRung
  <2>3. CASE r.arr.s = work[w].s
    <3>1. notice'[r.arr.s] = notice[r.arr.s] \cup {n}
      BY <1>0, <1>1, <1>3, <2>3 DEF TypeOK
    <3> QED
      BY <1>4, <2>1, <2>2, <3>1 DEF Covered
  <2>4. CASE r.arr.s # work[w].s
    <3>1. notice'[r.arr.s] = notice[r.arr.s] /\ r.arr # work[w].arr
      BY <1>0, <1>2, <1>3, <2>1, <2>4 DEF TypeOK
    <3> QED
      BY <2>2, <3>1 DEF Covered
  <2> QED
    BY <2>3, <2>4
<1>7. Told' = Told \cup all /\ Due' = Due \ all
  BY <1>1, <1>6 DEF Told, Due
<1> QED
  BY <1>1, <1>2, <1>5, <1>7

LEMMA StepIsSeen ==
  ASSUME OneThread, SerialInv, NumbersOK, [Next]_vars
  PROVE  [Abstract!Next]_(Abstract!vars)
<1> DEFINE dueNow  == {r \in rung : Recorded(r) /\ ~Covered(r)}
           toldNow == {r \in rung : Covered(r)}
<1>0. /\ SerialInv' /\ IInv /\ TypeOK
      /\ KindsStored = [i \in DOMAIN rows |-> BoxOf[rows[i].table]]
      /\ Due = dueNow /\ Due' = dueNow' /\ Told = toldNow /\ Told' = toldNow'
  <2>1. SerialInv' /\ IInv /\ TypeOK /\ NoLostNotice /\ NoLostNotice'
    BY SerialNext DEF SerialInv, IInv
  <2>2. Due' = dueNow'
    BY <2>1 DEF Due, Told, NoLostNotice
  <2> QED
    BY <2>1, <2>2, AbstractVars DEF KindsStored, Told
<1> DEFINE Goal == [Abstract!Next]_(Abstract!vars)
<1>1. ASSUME UNCHANGED <<KindsStored, Due, Told>> PROVE Goal
  BY <1>0, <1>1 DEF Abstract!vars, KindsStored
<1>2. ASSUME NEW kind \in Boxes, KindsStored' = Append(KindsStored, kind), UNCHANGED <<Due, Told>>
      PROVE  Goal
  BY <1>0, <1>2 DEF Abstract!Next, Abstract!Keep, KindsStored
<1>3. ASSUME NEW receiver \in [s : Sessions, u : Users, n : 1 .. MaxLogins],
             NEW row \in DOMAIN rows, [row |-> row, arr |-> receiver] \notin rung,
             Due' = Due \cup {[row |-> row, arr |-> receiver]}, UNCHANGED <<KindsStored, Told>>
      PROVE  Goal
  <2>1. Abstract!Ring(row, receiver)
    BY <1>0, <1>3 DEF Abstract!Ring, KindsStored, Due, Told
  <2>2. row \in DOMAIN KindsStored
    BY DEF KindsStored
  <2> QED
    BY <2>1, <2>2 DEF Abstract!Next, KindsStored
<1>4. ASSUME NEW receiver \in [s : Sessions, u : Users, n : 1 .. MaxLogins], NEW kind \in Boxes,
             Due' = Due \ {r \in Due : r.arr = receiver /\ KindsStored[r.row] = kind},
             Told' = Told \cup {r \in Due : r.arr = receiver /\ KindsStored[r.row] = kind},
             KindsStored' = KindsStored
      PROVE  Goal
  <2>1. Abstract!Tell(kind, receiver)
    BY <1>0, <1>4 DEF Abstract!Tell, KindsStored
  <2> QED
    BY <2>1 DEF Abstract!Next
<1>a. \A a \in Array : a.n <= MaxLogins => a \in [s : Sessions, u : Users, n : 1 .. MaxLogins]
  BY MailboxAssumption DEF Array
<1> HIDE DEF Goal, dueNow, toldNow
<1>5. ASSUME NEW w \in Workers, NEW s \in Sessions,
             NEW table \in DOMAIN BoxOf, NEW to, NEW list, StoreAndNotify(w, s, table, to, list)
      PROVE  Goal
  BY <1>0, <1>2, <1>5, StoreKeeps, BoxesAreBoxes
<1>6. ASSUME NEW w \in Workers, NEW s \in Sessions, Request(w, s) PROVE Goal
  <2>1. CASE UNCHANGED <<notice, rows, rung>>
    BY <1>1, <2>1, Unseen
  <2>2. {"ms", "part", "invite", "connectionRequest"} \subseteq DOMAIN BoxOf
    BY DEF BoxOf
  <2> QED
    BY <1>5, <1>6, <2>1, <2>2 DEF Request, LoginAlloc, ActSendMsg, ActConnect, ActCreateTable,
                                  ActInvite, CutOff, Disconnect
<1>7. ASSUME NEW w \in Workers, NEW u \in Users, NotifyUser(w, u) PROVE Goal
  <2>1. nmap[u] # None => nmap[u] \in [s : Sessions, u : Users, n : 1 .. MaxLogins]
    BY <1>0, <1>a DEF NumbersOK, TypeOK
  <2> QED
    BY <1>1, <1>3, <1>7, <2>1, NotifyRings
<1>8. ASSUME NEW w \in Workers, PollStore(w) PROVE Goal
  <2>1. /\ work[w].arr = nf[work[w].s] /\ work[w].s \in Sessions
        /\ work[w].arr # None /\ work[w].box \in Boxes
    BY <1>8, PushTells
  <2>2. work[w].arr \in [s : Sessions, u : Users, n : 1 .. MaxLogins]
    BY <1>0, <1>a, <2>1 DEF NumbersOK, TypeOK
  <2> QED
    BY <1>4, <1>8, <2>1, <2>2, PushTells
<1>9. ASSUME NEW w \in Workers, Advance(w) PROVE Goal
  <2>1. CASE UNCHANGED <<notice, rows, rung>>
    BY <1>1, <2>1, Unseen
  <2> QED
    BY <1>7, <1>8, <1>9, <2>1 DEF Advance, LoginFind, LoginLink, LoginReady, NotifyEnd, PollTest,
                                  PollLoad, PollClear
<1>10. ASSUME UNCHANGED <<notice, rows, rung>> PROVE Goal
  BY <1>1, <1>10, Unseen
<1>11. Goal
  BY <1>6, <1>9, <1>10 DEF Next, PollStart, PollWild, CutOffAnswer, NotifyWild, vars
<1> QED
  BY <1>11 DEF Goal

\* With one io thread the notification path does what Courier promises.
THEOREM MailboxDelivers == ASSUME OneThread PROVE Spec => Delivers
<1>1. Init => SerialInv /\ NumbersOK /\ Abstract!Init
  <2> SUFFICES ASSUME Init PROVE NumbersOK /\ Abstract!Init
    BY SerialInit
  <2>1. rows = <<>> /\ rung = {}
    BY DEF Init
  <2>2. [i \in DOMAIN rows |-> BoxOf[rows[i].table]] = <<>>
    BY <2>1
  <2> QED
    BY <2>1, <2>2 DEF Abstract!Init, Init, NumbersOK
<1>2. SerialInv /\ NumbersOK /\ [Next]_vars => SerialInv' /\ NumbersOK'
  BY SerialNext, NumbersNext DEF SerialInv
<1>3. SerialInv /\ NumbersOK /\ [Next]_vars => [Abstract!Next]_(Abstract!vars)
  BY StepIsSeen
<1> QED
  BY <1>1, <1>2, <1>3, PTL DEF Spec, Delivers, Abstract!Spec

-----------------------------------------------------------------------------
(***************************************************************************)
(* Any number of io threads: Mailbox implements LooseCourier.              *)
(***************************************************************************)

\* Every ring is of an array whose number is in the bounds.
RungNumbers == \A r \in rung : r.arr.n <= MaxLogins

\* Two handlers never ring for the same row, and nobody is rung twice for a row.
Ringing(w) == work[w].pc = "notify"

RingersOK ==
  \A w \in Workers : Ringing(w) =>
    /\ \A r \in rung : r.row = work[w].mark => r.arr.u \notin work[w].to
    /\ \A v \in Workers : Ringing(v) /\ work[v].mark = work[w].mark => v = w

\* The flags raised, and those that polls have seen raised and are answering.
Answering == {w \in Workers : work[w].pc \in {"load", "store"}}
FlagSeen(w) == [arr |-> work[w].arr, box |-> work[w].box]
Held == raised \cup {FlagSeen(w) : w \in Answering}

\* No flag is raised or seen but by a ring.
HeldAreRung == \A f \in Held : \E r \in rung : FlagRung(r) = f

\* A session that is polled has an array.
PolledOK == \A w \in Workers : work[w].pc \in PollPCs => nf[work[w].s] # None

LooseInv ==
  /\ IInv
  /\ NumbersOK
  /\ RungNumbers
  /\ RingersOK
  /\ HeldAreRung
  /\ PolledOK

LEMMA LooseInit == Init => LooseInv
<1> SUFFICES ASSUME Init PROVE LooseInv
  OBVIOUS
<1>1. \A w \in Workers : work[w].pc = "idle"
  BY NextBoxIsFresh DEF Init
<1>2. "idle" \notin PollPCs
  BY DEF PollPCs
<1> QED
  BY <1>1, <1>2, InvInit
     DEF Init, LooseInv, NumbersOK, RungNumbers, RingersOK, Ringing, HeldAreRung, Held, Answering,
         PolledOK

\* A step that rings nobody, stores nothing and touches no flag or queue: a worker goes
\* on to something that answers no flag and rings nobody, and polls only who has an array.
Quiet ==
  /\ UNCHANGED <<raised, notice, rows, rung>>
  /\ \/ work' = work
     \/ \E w \in Workers : \E t :
          /\ Set(w, t)
          /\ work[w].pc \notin {"load", "store", "clear"}
          /\ t.pc \in {"idle", "find", "link", "ready", "test"}
          /\ t.pc = "test" => t.s \in Sessions /\ nf'[t.s] # None

\* The steps there are.
LEMMA StepsThereAre ==
  ASSUME LooseInv, [Next]_vars
  PROVE  \/ Quiet
         \/ \E w \in Workers :
              \/ \E s \in Sessions, table \in DOMAIN BoxOf, to, list \in SUBSET Users :
                   StoreAndNotify(w, s, table, to, list)
              \/ \E u \in Users : NotifyUser(w, u)
              \/ PollTest(w) /\ FlagOf(work[w]) \in raised
              \/ PollLoad(w) \/ PollStore(w) \/ PollClear(w)
<1> DEFINE Goal ==
      \/ Quiet
      \/ \E w \in Workers :
           \/ \E s \in Sessions, table \in DOMAIN BoxOf, to, list \in SUBSET Users :
                StoreAndNotify(w, s, table, to, list)
           \/ \E u \in Users : NotifyUser(w, u)
           \/ PollTest(w) /\ FlagOf(work[w]) \in raised
           \/ PollLoad(w) \/ PollStore(w) \/ PollClear(w)
<1>0. IInv /\ TypeOK
  BY DEF LooseInv, IInv
<1>1. ASSUME UNCHANGED <<raised, notice, rows, rung, work>> PROVE Quiet
  BY <1>1 DEF Quiet
<1>2. ASSUME NEW w \in Workers, NEW t, Set(w, t), UNCHANGED <<raised, notice, rows, rung>>,
             work[w].pc \notin {"load", "store", "clear"},
             t.pc \in {"idle", "find", "link", "ready"}
      PROVE  Quiet
  BY <1>2 DEF Quiet
<1>3. ASSUME NEW w \in Workers, NEW s \in Sessions, NEW u \in Users, LoginAlloc(w, s, u) PROVE Quiet
  <2>0. PICK t : t = [Free EXCEPT !.pc = "find", !.s = s, !.to = {u}]
    OBVIOUS
  <2>1. t.pc = "find"
    BY <2>0 DEF Free
  <2>2. /\ Set(w, t) /\ work[w].pc = "idle" /\ UNCHANGED <<raised, notice, rows, rung>>
    BY <1>3, <2>0 DEF LoginAlloc, CanServe
  <2> QED
    BY <1>2, <2>1, <2>2
<1>4. ASSUME NEW w \in Workers, NEW s \in Sessions, Request(w, s) PROVE Goal
  <2>1. /\ {"ms", "part", "invite", "connectionRequest"} \subseteq DOMAIN BoxOf
        /\ \A t \in Tables : Members[t] \in SUBSET Users
        /\ \A u : TargetAsRead(u) \in SUBSET Users
    BY ArrayIsArray DEF BoxOf, TargetAsRead
  <2>2. CASE CutOff(w, s) \/ Disconnect(w, s)
    BY <1>1, <2>2 DEF CutOff, Disconnect
  <2>3. ASSUME NEW t \in Tables, ActSendMsg(w, s, t) PROVE Goal
    BY <2>1, <2>3 DEF ActSendMsg
  <2>4. ASSUME NEW u \in Users, ActConnect(w, s, u) PROVE Goal
    <3>1. {u} \in SUBSET Users
      OBVIOUS
    <3> QED
      BY <2>1, <2>4, <3>1 DEF ActConnect
  <2>5. ASSUME NEW u \in Users, ActInvite(w, s, u) PROVE Goal
    BY <2>1, <2>5 DEF ActInvite
  <2>6. ASSUME NEW cont \in SUBSET Users, ActCreateTable(w, s, cont) PROVE Goal
    BY <2>1, <2>6 DEF ActCreateTable
  <2> QED
    BY <1>3, <1>4, <2>2, <2>3, <2>4, <2>5, <2>6 DEF Request
<1>5. ASSUME NEW w \in Workers, LoginFind(w) \/ LoginLink(w) \/ LoginReady(w) \/ NotifyEnd(w)
      PROVE  Quiet
  <2>1. TaskOK(work[w])
    BY <1>0, TasksAreTyped
  <2>2. /\ [work[w] EXCEPT !.pc = "ready"].pc = "ready"
        /\ \A u : [work[w] EXCEPT !.pc = "link", !.seen = InMap \ {u}].pc = "link"
        /\ Free.pc = "idle"
    BY <2>1 DEF TaskOK, Task, Free
  <2> QED
    BY <1>2, <1>5, <2>2 DEF LoginFind, LoginLink, LoginReady, NotifyEnd
<1>6. ASSUME NEW w \in Workers, NEW s \in Sessions, PollStart(w, s) PROVE Quiet
  <2>0. PICK t : t = [Free EXCEPT !.pc = "test", !.s = s]
    OBVIOUS
  <2>1. t.pc = "test" /\ t.s = s
    BY <2>0 DEF Free
  <2>2. /\ Set(w, t) /\ work[w].pc = "idle" /\ nf'[s] # None
        /\ UNCHANGED <<raised, notice, rows, rung>>
    BY <1>6, <2>0 DEF PollStart
  <2> QED
    BY <2>1, <2>2 DEF Quiet
<1>7. ASSUME NEW w \in Workers, PollTest(w), FlagOf(work[w]) \notin raised PROVE Quiet
  <2>0. PICK t : t = NextBox(work[w])
    OBVIOUS
  <2>1. /\ Set(w, t) /\ work[w].pc = "test" /\ nf' = nf /\ UNCHANGED <<raised, notice, rows, rung>>
    BY <1>7, <2>0 DEF PollTest
  <2>2. t.pc \in {"idle", "test"} /\ (t.pc = "test" => t.s = work[w].s)
    BY <2>0 DEF NextBox, Free
  <2>3. work[w].s \in Sessions /\ nf[work[w].s] # None
    BY <1>0, <2>1, TasksAreTyped DEF TaskOK, LooseInv, PolledOK, PollPCs
  <2> QED
    BY <2>1, <2>2, <2>3 DEF Quiet
<1>8. ASSUME NEW w \in Workers, Advance(w) PROVE Goal
  BY <1>5, <1>7, <1>8 DEF Advance
<1>9. Goal
  BY <1>1, <1>4, <1>6, <1>8 DEF Next, PollWild, CutOffAnswer, NotifyWild, vars
<1> QED
  BY <1>9 DEF Goal

\* A session keeps its array, or is given another.
LEMMA ArraysStay ==
  ASSUME LooseInv, [Next]_vars, NEW s \in Sessions, nf[s] # None PROVE nf'[s] # None
<1>1. ASSUME NEW w \in Workers, NEW q \in Sessions, NEW u \in Users, LoginAlloc(w, q, u)
      PROVE  nf'[s] # None
  <2>1. PICK a : a = [s |-> q, u |-> u, n |-> IF nf[q] = None THEN 1 ELSE nf[q].n + 1]
    OBVIOUS
  <2>2. nf' = [nf EXCEPT ![q] = a] /\ nf \in [Sessions -> Array \cup {None}]
    BY <1>1, <2>1 DEF LoginAlloc, LooseInv, IInv, TypeOK
  <2>3. nf'[q] = a /\ nf'[q] \in Array \cup {None}
    <3>1. IInv'
      BY InvNext DEF LooseInv
    <3> QED
      BY <2>2, <3>1 DEF IInv, TypeOK
  <2>4. (IF nf[q] = None THEN 1 ELSE nf[q].n + 1) \in Nat \ {0}
    BY <2>2 DEF Array
  <2>5. a \in Array
    BY <2>1, <2>4 DEF Array
  <2> QED
    BY <2>2, <2>5, ArrayIsArray
<1>2. ASSUME NEW w \in Workers, NEW q \in Sessions, Request(w, q),
             ~ \E u \in Users : LoginAlloc(w, q, u)
      PROVE  nf' = nf
  BY <1>2 DEF Request, ActSendMsg, ActConnect, ActCreateTable, ActInvite, StoreAndNotify, CutOff,
              Disconnect
<1>3. ASSUME NEW w \in Workers, Advance(w) PROVE nf' = nf
  BY <1>3 DEF Advance, LoginFind, LoginLink, LoginReady, NotifyUser, NotifyEnd, PollTest, PollLoad,
              PollStore, PollClear
<1> QED
  BY <1>1, <1>2, <1>3 DEF Next, PollStart, PollWild, CutOffAnswer, NotifyWild, vars

\* A worker that takes up a task leaves those of the others alone.
LEMMA OthersStay ==
  ASSUME TypeOK, NEW w \in Workers, NEW t, Set(w, t)
  PROVE  \A v \in Workers : work'[v] = IF v = w THEN t ELSE work[v]
BY DEF TypeOK, Set

\* Workers that answer no flag, before and after, change nothing of what is being answered.
LEMMA AnswersStay ==
  ASSUME \A v \in Workers : work'[v] = work[v] \/ /\ work[v].pc \notin {"load", "store", "clear"}
                                                  /\ work'[v].pc \notin {"load", "store", "clear"},
         raised' = raised
  PROVE  UNCHANGED <<Held, Found, Clearing>>
<1>1. \A v \in Workers : /\ work'[v].pc = "store" <=> work[v].pc = "store"
                         /\ work'[v].pc = "clear" <=> work[v].pc = "clear"
                         /\ work'[v].pc \in {"load", "store"} <=> work[v].pc \in {"load", "store"}
                         /\ work[v].pc \in {"load", "store", "clear"} => work'[v] = work[v]
  OBVIOUS
<1>2. UNCHANGED <<Found, Clearing>>
  BY <1>1 DEF Found, Clearing, Doing
<1>3. UNCHANGED Held
  BY <1>1 DEF Held, Answering, FlagSeen
<1> QED
  BY <1>2, <1>3

\* Nobody begins to ring.
RingersStay == \A v \in Workers : Ringing(v)' => Ringing(v) /\ work'[v] = work[v]

\* Nobody but the worker polls more than before.
PollersStay(w) ==
  \A v \in Workers : work'[v].pc \in PollPCs =>
     work[v].pc \in PollPCs /\ work'[v].s = work[v].s

LEMMA QuietTask ==
  ASSUME LooseInv, Quiet
  PROVE  /\ UNCHANGED <<Held, Found, Clearing>> /\ RingersStay
         /\ \A v \in Workers : work'[v] = work[v]
                               \/ work'[v].pc \notin PollPCs \/ nf'[work'[v].s] # None
<1>0. TypeOK
  BY DEF LooseInv, IInv
<1>1. CASE work' = work
  BY <1>1, AnswersStay DEF RingersStay, Ringing, Quiet
<1>2. ASSUME NEW w \in Workers, NEW t, Set(w, t), raised' = raised,
             work[w].pc \notin {"load", "store", "clear"},
             t.pc \in {"idle", "find", "link", "ready", "test"},
             t.pc = "test" => nf'[t.s] # None
      PROVE  /\ UNCHANGED <<Held, Found, Clearing>> /\ RingersStay
             /\ \A v \in Workers : work'[v] = work[v]
                                   \/ work'[v].pc \notin PollPCs \/ nf'[work'[v].s] # None
  <2>1. \A v \in Workers : work'[v] = IF v = w THEN t ELSE work[v]
    BY <1>0, <1>2, OthersStay
  <2>2. UNCHANGED <<Held, Found, Clearing>>
    BY <1>2, <2>1, AnswersStay
  <2> QED
    BY <1>2, <2>1, <2>2 DEF RingersStay, Ringing, PollPCs
<1> QED
  BY <1>1, <1>2 DEF Quiet

LEMMA StoreTask ==
  ASSUME LooseInv, NEW w \in Workers, NEW s \in Sessions, NEW table \in DOMAIN BoxOf,
         NEW to \in SUBSET Users, NEW list \in SUBSET Users, StoreAndNotify(w, s, table, to, list)
  PROVE  /\ UNCHANGED <<notice, rung, Held, Found, Clearing>>
         /\ Len(rows) \in Nat
         /\ work'[w].pc = "notify" /\ work'[w].mark = Len(rows) + 1
         /\ \A v \in Workers \ {w} : work'[v] = work[v]
<1>0. TypeOK
  BY DEF LooseInv, IInv
<1>1. PICK t : t = [Free EXCEPT !.pc = "notify", !.s = s, !.box = BoxOf[table],
                                !.to = list, !.mark = Len(rows) + 1]
  OBVIOUS
<1>2. t.pc = "notify" /\ t.mark = Len(rows) + 1
  BY <1>1 DEF Free
<1>3. Set(w, t) /\ work[w].pc = "idle" /\ UNCHANGED <<notice, rung, raised>>
  BY <1>1 DEF StoreAndNotify, CanServe
<1>4. \A v \in Workers : work'[v] = IF v = w THEN t ELSE work[v]
  BY <1>0, <1>3, OthersStay
<1>5. UNCHANGED <<Held, Found, Clearing>>
  BY <1>2, <1>3, <1>4, AnswersStay
<1> QED
  BY <1>0, <1>2, <1>3, <1>4, <1>5 DEF TypeOK

LEMMA NotifyTask ==
  ASSUME LooseInv, NEW w \in Workers, NEW u \in Users, NotifyUser(w, u)
  PROVE  /\ UNCHANGED <<notice, rows, Found, Clearing>>
         /\ work[w].pc = "notify" /\ u \in work[w].to
         /\ work'[w].pc = "notify" /\ work'[w].mark = work[w].mark /\ work'[w].to = work[w].to \ {u}
         /\ \A v \in Workers \ {w} : work'[v] = work[v]
         /\ \/ UNCHANGED <<rung, Held>>
            \/ LET r == [row |-> work[w].mark, arr |-> nmap[u]]
               IN  /\ nmap[u] \in Array /\ nmap[u].u = u /\ nmap[u].n <= MaxLogins
                   /\ r.row \in DOMAIN rows
                   /\ rung' = rung \cup {r} /\ Held' = Held \cup {FlagRung(r)}
<1>0. TypeOK /\ IInv /\ TaskOK(work[w]) /\ NotifyOK(work[w])
  BY TasksAreTyped DEF LooseInv, IInv, TasksOK, TaskInv
<1>1. PICK t : t = [work[w] EXCEPT !.to = @ \ {u}]
  OBVIOUS
<1>2. work[w].pc = "notify" /\ u \in work[w].to /\ Set(w, t) /\ UNCHANGED <<notice, rows>>
  BY <1>1 DEF NotifyUser
<1>3. t.pc = "notify" /\ t.mark = work[w].mark /\ t.to = work[w].to \ {u}
  BY <1>0, <1>1, <1>2 DEF TaskOK, Task
<1>4. \A v \in Workers : work'[v] = IF v = w THEN t ELSE work[v]
  BY <1>0, <1>2, OthersStay
<1>5. /\ \A v \in Workers : v \in Answering' <=> v \in Answering
      /\ \A v \in Answering : work'[v] = work[v]
      /\ \A pc \in {"store", "clear"} : \A v \in Workers :
           (work'[v].pc = pc <=> work[v].pc = pc) /\ (work[v].pc = pc => work'[v] = work[v])
  BY <1>2, <1>3, <1>4 DEF Answering
<1>6. UNCHANGED <<Found, Clearing>>
  BY <1>5 DEF Found, Clearing, Doing
<1>7. {FlagSeen(v) : v \in Answering}' = {FlagSeen(v) : v \in Answering}
  BY <1>5 DEF FlagSeen, Answering
<1>8. CASE UNCHANGED <<raised, rung>>
  BY <1>2, <1>3, <1>4, <1>6, <1>7, <1>8 DEF Held
<1>9. CASE /\ nmap[u] # None
           /\ raised' = raised \cup {[arr |-> nmap[u], box |-> work[w].box]}
           /\ rung' = rung \cup {[row |-> work[w].mark, arr |-> nmap[u]]}
  <2>1. PICK r : r = [row |-> work[w].mark, arr |-> nmap[u]]
    OBVIOUS
  <2>2. /\ r.row = work[w].mark /\ r.row \in 1 .. Len(rows) /\ r.arr = nmap[u]
        /\ nmap[u] \in Array /\ nmap[u].u = u /\ nmap[u].n <= MaxLogins
    BY <1>0, <1>2, <1>9, <2>1 DEF NotifyOK, LooseInv, IInv, TypeOK, ArraysOK, NumbersOK
  <2>3. FlagRung(r) = [arr |-> nmap[u], box |-> work[w].box]
    BY <1>0, <1>2, <2>2 DEF FlagRung, BoxRung, NotifyOK
  <2>4. Held' = Held \cup {FlagRung(r)}
    BY <1>7, <1>9, <2>3 DEF Held
  <2>5. DOMAIN rows = 1 .. Len(rows)
    BY <1>0 DEF TypeOK
  <2> QED
    BY <1>2, <1>3, <1>4, <1>6, <1>9, <2>1, <2>2, <2>4, <2>5
<1> QED
  BY <1>8, <1>9 DEF NotifyUser

\* A poll that sees a raised flag answers it: nothing is held that was not before.
LEMMA TestTask ==
  ASSUME LooseInv, NEW w \in Workers, PollTest(w), FlagOf(work[w]) \in raised
  PROVE  /\ UNCHANGED <<nf, notice, rows, rung, Held, Found, Clearing>>
         /\ RingersStay /\ PollersStay(w)
<1>0. TypeOK /\ TaskOK(work[w])
  BY TasksAreTyped DEF LooseInv, IInv
<1>1. PICK t : t = [work[w] EXCEPT !.pc = "load", !.arr = nf[work[w].s]]
  OBVIOUS
<1>2. /\ work[w].pc = "test" /\ Set(w, t) /\ UNCHANGED <<nf, notice, rows, rung, raised>>
  BY <1>1 DEF PollTest
<1>3. t.pc = "load" /\ t.s = work[w].s /\ t.box = work[w].box /\ t.arr = nf[work[w].s]
  BY <1>0, <1>1 DEF TaskOK, Task
<1>4. \A v \in Workers : work'[v] = IF v = w THEN t ELSE work[v]
  BY <1>0, <1>2, OthersStay
<1>5. RingersStay /\ PollersStay(w)
  BY <1>2, <1>3, <1>4 DEF RingersStay, Ringing, PollersStay, PollPCs
<1>6. UNCHANGED <<Found, Clearing>>
  <2>1. \A pc \in {"store", "clear"} : \A v \in Workers :
          (work'[v].pc = pc <=> work[v].pc = pc) /\ (work[v].pc = pc => work'[v] = work[v])
    BY <1>2, <1>3, <1>4
  <2> QED
    BY <2>1 DEF Found, Clearing, Doing
<1>7. Held' = Held
  <2>1. FlagSeen(w)' = FlagOf(work[w]) /\ raised' = raised
    BY <1>2, <1>3, <1>4 DEF FlagSeen, FlagOf
  <2>2. \A v \in Workers \ {w} :
          (v \in Answering' <=> v \in Answering) /\ FlagSeen(v)' = FlagSeen(v)
    BY <1>4 DEF Answering, FlagSeen
  <2>3. w \notin Answering /\ w \in Answering'
    BY <1>2, <1>3, <1>4 DEF Answering
  <2>4. Answering \subseteq Workers /\ Answering' \subseteq Workers
    BY DEF Answering
  <2> DEFINE seen == {FlagSeen(v) : v \in Answering}
  <2>5. seen' = seen \cup {FlagOf(work[w])}
    BY <2>1, <2>2, <2>3, <2>4
  <2> QED
    BY <2>1, <2>5 DEF Held
<1> QED
  BY <1>2, <1>5, <1>6, <1>7

\* A push_back begins with the queue it finds.
LEMMA LoadTask ==
  ASSUME LooseInv, NEW w \in Workers, PollLoad(w)
  PROVE  /\ UNCHANGED <<nf, notice, rows, rung, Held, Clearing>>
         /\ work[w].s \in Sessions
         /\ Found' = Found \cup {[s |-> work[w].s, queue |-> notice[work[w].s]]}
         /\ RingersStay /\ PollersStay(w)
<1>0. TypeOK /\ TaskOK(work[w])
  BY TasksAreTyped DEF LooseInv, IInv
<1>1. PICK t : t = [work[w] EXCEPT !.pc = "store", !.snap = notice[work[w].s]]
  OBVIOUS
<1>2. /\ work[w].pc = "load" /\ work[w].s \in Sessions /\ Set(w, t)
      /\ UNCHANGED <<nf, notice, rows, rung, raised>>
  BY <1>0, <1>1 DEF PollLoad, TaskOK
<1>3. /\ t.pc = "store" /\ t.s = work[w].s /\ t.box = work[w].box /\ t.arr = work[w].arr
      /\ t.snap = notice[work[w].s]
  BY <1>0, <1>1 DEF TaskOK, Task
<1>4. \A v \in Workers : work'[v] = IF v = w THEN t ELSE work[v]
  BY <1>0, <1>2, OthersStay
<1>5. RingersStay /\ PollersStay(w)
  BY <1>2, <1>3, <1>4 DEF RingersStay, Ringing, PollersStay, PollPCs
<1>6. UNCHANGED Clearing
  <2>1. \A v \in Workers :
          /\ work'[v].pc = "clear" <=> work[v].pc = "clear"
          /\ work[v].pc = "clear" => work'[v] = work[v]
    BY <1>2, <1>3, <1>4
  <2> QED
    BY <2>1 DEF Clearing, Doing
<1>7. Held' = Held
  <2>1. \A v \in Workers : (v \in Answering' <=> v \in Answering) /\ FlagSeen(v)' = FlagSeen(v)
    BY <1>2, <1>3, <1>4 DEF Answering, FlagSeen
  <2> QED
    BY <1>2, <2>1 DEF Held, Answering
<1>8. Found' = Found \cup {[s |-> work[w].s, queue |-> notice[work[w].s]]}
  <2>1. \A v \in Workers \ {w} :
          /\ v \in Doing("store")' <=> v \in Doing("store")
          /\ work'[v] = work[v]
    BY <1>4 DEF Doing
  <2>2. w \notin Doing("store") /\ w \in Doing("store")'
    BY <1>2, <1>3, <1>4 DEF Doing
  <2>3. Doing("store") \subseteq Workers /\ Doing("store")' \subseteq Workers
    BY DEF Doing
  <2>4. [s |-> work'[w].s, queue |-> work'[w].snap] = [s |-> work[w].s, queue |-> notice[work[w].s]]
    BY <1>3, <1>4
  <2> QED
    BY <2>1, <2>2, <2>3, <2>4 DEF Found
<1> QED
  BY <1>2, <1>5, <1>6, <1>7, <1>8

\* When it ends, the notice is queued, the flag it was for is to be cleared, and no other
\* flag is let go.
LEMMA PushTask ==
  ASSUME LooseInv, NEW w \in Workers, PollStore(w)
  PROVE  LET old == [s |-> work[w].s, queue |-> work[w].snap] IN
         /\ UNCHANGED <<nf, rows, rung>>
         /\ work[w].s \in Sessions /\ work[w].box \in Boxes /\ work[w].arr \in Array
         /\ work[w].arr.s = work[w].s
         /\ FlagSeen(w) \in Held /\ Held' \subseteq Held /\ Held \subseteq Held' \cup {FlagSeen(w)}
         /\ old \in Found /\ Found' \in {Found, Found \ {old}}
         /\ Clearing' = Clearing \cup {[s |-> work[w].s, box |-> work[w].box]}
         /\ RingersStay /\ PollersStay(w)
<1> DEFINE old == [s |-> work[w].s, queue |-> work[w].snap]
<1>0. TypeOK /\ TaskOK(work[w]) /\ PollOK(work[w])
  BY TasksAreTyped DEF LooseInv, IInv, TasksOK, TaskInv
<1>1. PICK t : t = [work[w] EXCEPT !.pc = "clear", !.mark = Len(rows)]
  OBVIOUS
<1>2. /\ work[w].pc = "store" /\ Set(w, t) /\ UNCHANGED <<nf, rows, rung, raised>>
      /\ work[w].s \in Sessions /\ work[w].box \in Boxes /\ work[w].arr \in Array
      /\ work[w].arr.s = work[w].s
  BY <1>0, <1>1 DEF PollStore, TaskOK, Task, PollOK
<1>3. t.pc = "clear" /\ t.s = work[w].s /\ t.box = work[w].box
  BY <1>0, <1>1 DEF TaskOK, Task
<1>4. \A v \in Workers : work'[v] = IF v = w THEN t ELSE work[v]
  BY <1>0, <1>2, OthersStay
<1>5. RingersStay /\ PollersStay(w)
  BY <1>2, <1>3, <1>4 DEF RingersStay, Ringing, PollersStay, PollPCs
<1>6. Clearing' = Clearing \cup {[s |-> work[w].s, box |-> work[w].box]}
  <2>1. \A v \in Workers \ {w} :
          /\ v \in Doing("clear")' <=> v \in Doing("clear")
          /\ work'[v] = work[v]
    BY <1>4 DEF Doing
  <2>2. w \notin Doing("clear") /\ w \in Doing("clear")'
    BY <1>2, <1>3, <1>4 DEF Doing
  <2>3. Doing("clear") \subseteq Workers /\ Doing("clear")' \subseteq Workers
    BY DEF Doing
  <2>4. [s |-> work'[w].s, box |-> work'[w].box] = [s |-> work[w].s, box |-> work[w].box]
    BY <1>3, <1>4
  <2> QED
    BY <2>1, <2>2, <2>3, <2>4 DEF Clearing
<1>7. FlagSeen(w) \in Held /\ Held' \subseteq Held /\ Held \subseteq Held' \cup {FlagSeen(w)}
  <2>1. \A v \in Workers \ {w} :
          (v \in Answering' <=> v \in Answering) /\ FlagSeen(v)' = FlagSeen(v)
    BY <1>4 DEF Answering, FlagSeen
  <2>2. w \in Answering /\ w \notin Answering'
    BY <1>2, <1>3, <1>4 DEF Answering
  <2>3. Answering \subseteq Workers /\ Answering' \subseteq Workers
    BY DEF Answering
  <2> QED
    BY <1>2, <2>1, <2>2, <2>3 DEF Held
<1>8. old \in Found /\ Found' \in {Found, Found \ {old}}
  <2>1. \A v \in Workers \ {w} :
          /\ v \in Doing("store")' <=> v \in Doing("store")
          /\ work'[v] = work[v]
    BY <1>4 DEF Doing
  <2>2. w \in Doing("store") /\ w \notin Doing("store")'
    BY <1>2, <1>3, <1>4 DEF Doing
  <2>3. Doing("store") \subseteq Workers /\ Doing("store")' \subseteq Workers
    BY DEF Doing
  <2>4. Found' \subseteq Found /\ Found \subseteq Found' \cup {old} /\ old \in Found
    BY <2>1, <2>2, <2>3 DEF Found
  <2> QED
    BY <2>4
<1> QED
  BY <1>2, <1>5, <1>6, <1>7, <1>8

\* A clear lets go of one flag at most, of the session's array.
LEMMA ClearTask ==
  ASSUME LooseInv, NEW w \in Workers, PollClear(w)
  PROVE  LET closed == [s |-> work[w].s, box |-> work[w].box] IN
         /\ UNCHANGED <<nf, notice, rows, rung, Found>>
         /\ work[w].s \in Sessions /\ work[w].box \in Boxes
         /\ nf[work[w].s] \in Array /\ nf[work[w].s].s = work[w].s /\ nf[work[w].s].n <= MaxLogins
         /\ Held' \subseteq Held /\ Held \subseteq Held' \cup {FlagOf(work[w])}
         /\ closed \in Clearing /\ Clearing' \in {Clearing, Clearing \ {closed}}
         /\ RingersStay /\ PollersStay(w)
<1> DEFINE closed == [s |-> work[w].s, box |-> work[w].box]
<1>0. TypeOK /\ TaskOK(work[w])
  BY TasksAreTyped DEF LooseInv, IInv
<1>1. PICK t : t = NextBox(work[w])
  OBVIOUS
<1>2. /\ work[w].pc = "clear" /\ Set(w, t) /\ UNCHANGED <<nf, notice, rows, rung>>
      /\ raised' = raised \ {FlagOf(work[w])}
      /\ work[w].s \in Sessions /\ work[w].box \in Boxes
  BY <1>0, <1>1 DEF PollClear, TaskOK, Task
<1>3. t.pc \in {"idle", "test"} /\ (t.pc = "test" => t.s = work[w].s)
  BY <1>1 DEF NextBox, Free
<1>4. \A v \in Workers : work'[v] = IF v = w THEN t ELSE work[v]
  BY <1>0, <1>2, OthersStay
<1>5. RingersStay /\ PollersStay(w)
  BY <1>2, <1>3, <1>4 DEF RingersStay, Ringing, PollersStay, PollPCs
<1>6. nf[work[w].s] \in Array /\ nf[work[w].s].s = work[w].s /\ nf[work[w].s].n <= MaxLogins
  <2>1. nf[work[w].s] # None
    BY <1>2 DEF LooseInv, PolledOK, PollPCs
  <2> QED
    BY <1>0, <1>2, <2>1 DEF TypeOK, LooseInv, IInv, ArraysOK, NumbersOK
<1>7. Held' \subseteq Held /\ Held \subseteq Held' \cup {FlagOf(work[w])}
  <2>1. \A v \in Workers : /\ v \in Answering' <=> v \in Answering
                           /\ v \in Answering => FlagSeen(v)' = FlagSeen(v)
    BY <1>2, <1>3, <1>4 DEF Answering, FlagSeen
  <2>2. Answering \subseteq Workers /\ Answering' \subseteq Workers
    BY DEF Answering
  <2> QED
    BY <1>2, <2>1, <2>2 DEF Held
<1>8. UNCHANGED Found
  <2>1. \A v \in Workers :
          /\ work'[v].pc = "store" <=> work[v].pc = "store"
          /\ work[v].pc = "store" => work'[v] = work[v]
    BY <1>2, <1>3, <1>4
  <2> QED
    BY <2>1 DEF Found, Doing
<1>9. closed \in Clearing /\ Clearing' \in {Clearing, Clearing \ {closed}}
  <2>1. \A v \in Workers \ {w} :
          /\ v \in Doing("clear")' <=> v \in Doing("clear")
          /\ work'[v] = work[v]
    BY <1>4 DEF Doing
  <2>2. w \in Doing("clear") /\ w \notin Doing("clear")'
    BY <1>2, <1>3, <1>4 DEF Doing
  <2>3. Doing("clear") \subseteq Workers /\ Doing("clear")' \subseteq Workers
    BY DEF Doing
  <2>4. /\ Clearing' \subseteq Clearing /\ Clearing \subseteq Clearing' \cup {closed}
        /\ closed \in Clearing
    BY <2>1, <2>2, <2>3 DEF Clearing
  <2> QED
    BY <2>4
<1> QED
  BY <1>2, <1>5, <1>6, <1>7, <1>8, <1>9

\* What is held stays rung for, and what is rung stays within the bounds.
LEMMA HeldStaysRung ==
  ASSUME LooseInv, [Next]_vars, UNCHANGED rung, Held' \subseteq Held
  PROVE  HeldAreRung' /\ RungNumbers'
<1>1. \A r \in rung : FlagRung(r)' = FlagRung(r)
  BY BoxRungKept DEF LooseInv
<1> QED
  BY <1>1 DEF LooseInv, HeldAreRung, RungNumbers

LEMMA RingersStayOK ==
  ASSUME LooseInv, UNCHANGED rung, RingersStay PROVE RingersOK'
BY DEF LooseInv, RingersOK, RingersStay, Ringing

LEMMA PollersStayOK ==
  ASSUME LooseInv, [Next]_vars, NEW w \in Workers, PollersStay(w) PROVE PolledOK'
<1> SUFFICES ASSUME NEW v \in Workers, work'[v].pc \in PollPCs PROVE nf'[work'[v].s] # None
  BY DEF PolledOK
<1>1. work[v].pc \in PollPCs /\ work'[v].s = work[v].s
  BY DEF PollersStay
<1>2. work[v].s \in Sessions
  BY <1>1, TasksAreTyped DEF TaskOK, LooseInv, IInv, PollPCs
<1> QED
  BY <1>1, <1>2, ArraysStay DEF LooseInv, PolledOK

LEMMA LooseNext == LooseInv /\ [Next]_vars => LooseInv'
<1> SUFFICES ASSUME LooseInv, [Next]_vars PROVE LooseInv'
  OBVIOUS
<1> DEFINE Goal == RungNumbers' /\ RingersOK' /\ HeldAreRung' /\ PolledOK'
<1>0. IInv /\ TypeOK /\ IInv' /\ NumbersOK'
  BY InvNext, NumbersNext DEF LooseInv, IInv
<1>1. ASSUME Quiet PROVE Goal
  <2>1. RungNumbers' /\ HeldAreRung' /\ RingersOK'
    BY <1>1, QuietTask, HeldStaysRung, RingersStayOK DEF Quiet
  <2>2. ASSUME NEW v \in Workers, work'[v].pc \in PollPCs PROVE nf'[work'[v].s] # None
    <3>1. CASE work'[v] = work[v]
      <4>1. work[v].s \in Sessions
        BY <1>0, <2>2, <3>1, TasksAreTyped DEF TaskOK, PollPCs
      <4> QED
        BY <2>2, <3>1, <4>1, ArraysStay DEF LooseInv, PolledOK
    <3> QED
      BY <1>1, <2>2, <3>1, QuietTask
  <2> QED
    BY <2>1, <2>2 DEF PolledOK
<1>2. ASSUME NEW w \in Workers, NEW s \in Sessions, NEW table \in DOMAIN BoxOf,
             NEW to \in SUBSET Users, NEW list \in SUBSET Users,
             StoreAndNotify(w, s, table, to, list)
      PROVE  Goal
  <2>1. /\ UNCHANGED <<rung, Held>> /\ Len(rows) \in Nat
        /\ work'[w].pc = "notify" /\ work'[w].mark = Len(rows) + 1
        /\ \A v \in Workers \ {w} : work'[v] = work[v]
    BY <1>2, StoreTask
  <2>2. PollersStay(w)
    BY <2>1 DEF PollersStay, PollPCs
  <2>3. \A v \in Workers : Ringing(v) => work[v].mark \in 1 .. Len(rows)
    BY <1>0 DEF Ringing, IInv, TasksOK, TaskInv, NotifyOK
  <2>4. \A r \in rung : r.row \in 1 .. Len(rows)
    BY <1>0 DEF IInv, RungOK
  <2>5. \A v \in Workers \ {w} : Ringing(v)' =>
          /\ Ringing(v) /\ work'[v] = work[v] /\ work'[v].mark # work'[w].mark
    BY <2>1, <2>3 DEF Ringing
  <2>6. RingersOK'
    BY <2>1, <2>4, <2>5 DEF LooseInv, RingersOK
  <2> QED
    BY <2>1, <2>2, <2>6, HeldStaysRung, PollersStayOK
<1>3. ASSUME NEW w \in Workers, NEW u \in Users, NotifyUser(w, u) PROVE Goal
  <2>1. /\ UNCHANGED rows /\ work[w].pc = "notify" /\ u \in work[w].to
        /\ work'[w].pc = "notify" /\ work'[w].mark = work[w].mark
        /\ work'[w].to = work[w].to \ {u}
        /\ \A v \in Workers \ {w} : work'[v] = work[v]
    BY <1>3, NotifyTask
  <2>2. PolledOK'
    <3>1. PollersStay(w)
      BY <2>1 DEF PollersStay, PollPCs
    <3> QED
      BY <3>1, PollersStayOK
  <2>3. \A v \in Workers : /\ Ringing(v)' <=> Ringing(v)
                           /\ work'[v].mark = work[v].mark /\ work'[v].to \subseteq work[v].to
    BY <2>1 DEF Ringing
  <2>4. CASE UNCHANGED <<rung, Held>>
    <3>1. RingersOK'
      BY <2>3, <2>4 DEF LooseInv, RingersOK
    <3> QED
      BY <2>2, <2>4, <3>1, HeldStaysRung
  <2>5. ASSUME NEW r, r = [row |-> work[w].mark, arr |-> nmap[u]],
               nmap[u].u = u, nmap[u].n <= MaxLogins,
               rung' = rung \cup {r}, Held' = Held \cup {FlagRung(r)}
        PROVE  Goal
    <3>1. \A x : FlagRung(x)' = FlagRung(x)
      BY <2>1 DEF FlagRung, BoxRung
    <3>2. HeldAreRung' /\ RungNumbers'
      BY <2>5, <3>1 DEF LooseInv, HeldAreRung, RungNumbers
    <3>3. ASSUME NEW v \in Workers, Ringing(v)', NEW x \in rung', x.row = work'[v].mark
          PROVE  x.arr.u \notin work'[v].to
      <4>1. CASE x \in rung
        BY <2>3, <3>3, <4>1 DEF LooseInv, RingersOK
      <4>2. CASE x = r
        <5>1. work[v].mark = work[w].mark
          BY <2>3, <2>5, <3>3, <4>2
        <5>2. v = w
          BY <2>1, <2>3, <3>3, <5>1 DEF LooseInv, RingersOK, Ringing
        <5> QED
          BY <2>1, <2>5, <4>2, <5>2
      <4> QED
        BY <2>5, <4>1, <4>2
    <3>4. \A v, x \in Workers : Ringing(v)' /\ Ringing(x)' /\ work'[x].mark = work'[v].mark => x = v
      BY <2>3 DEF LooseInv, RingersOK
    <3>5. RingersOK'
      BY <3>3, <3>4 DEF RingersOK
    <3> QED
      BY <2>2, <3>2, <3>5
  <2>6. PICK r : r = [row |-> work[w].mark, arr |-> nmap[u]]
    OBVIOUS
  <2>7. \/ UNCHANGED <<rung, Held>>
        \/ /\ nmap[u].u = u /\ nmap[u].n <= MaxLogins
           /\ rung' = rung \cup {r} /\ Held' = Held \cup {FlagRung(r)}
    BY <1>3, <2>6, NotifyTask
  <2> QED
    BY <2>4, <2>5, <2>6, <2>7
<1>4. ASSUME NEW w \in Workers, PollTest(w), FlagOf(work[w]) \in raised PROVE Goal
  BY <1>4, TestTask, HeldStaysRung, RingersStayOK, PollersStayOK
<1>5. ASSUME NEW w \in Workers, PollLoad(w) PROVE Goal
  BY <1>5, LoadTask, HeldStaysRung, RingersStayOK, PollersStayOK
<1>6. ASSUME NEW w \in Workers, PollStore(w) PROVE Goal
  BY <1>6, PushTask, HeldStaysRung, RingersStayOK, PollersStayOK
<1>7. ASSUME NEW w \in Workers, PollClear(w) PROVE Goal
  BY <1>7, ClearTask, HeldStaysRung, RingersStayOK, PollersStayOK
<1>8. Goal
  BY <1>1, <1>2, <1>3, <1>4, <1>5, <1>6, <1>7, StepsThereAre
<1> QED
  BY <1>0, <1>8 DEF LooseInv

-----------------------------------------------------------------------------
\* What LooseCourier's variables stand for.
Forgotten == {r \in rung : ~Recorded(r)}

\* A ring is forgotten when its flag is not held and no notice covers it.
LEMMA ForgottenAre == Forgotten = {r \in rung : FlagRung(r) \notin Held /\ ~Covered(r)}
<1>1. ASSUME NEW r \in rung
      PROVE  Recorded(r) <=> FlagRung(r) \in Held \/ Covered(r)
  <2>1. (\E w \in Answering : FlagSeen(w) = FlagRung(r)) <=>
          \E w \in Workers : /\ work[w].pc \in {"load", "store"}
                             /\ work[w].arr = r.arr /\ work[w].box = BoxRung(r)
    BY DEF Answering, FlagSeen, FlagRung
  <2> QED
    BY <2>1 DEF Recorded, Held
<1> QED
  BY <1>1 DEF Forgotten

\* A ring's kind is its box, and what LooseCourier calls told is what is covered.
LEMMA RungIs ==
  ASSUME IInv
  PROVE  /\ \A r \in rung : /\ KindsStored[r.row] = BoxRung(r) /\ r.arr \in Array
                            /\ r.arr.s \in Sessions /\ r.row \in 1 .. Len(rows) /\ Len(rows) \in Nat
         /\ Loose!Told(notice) = Told
         /\ \A kind, receiver : Loose!Concerns(kind, receiver) =
              {r \in rung : FlagRung(r) = [arr |-> receiver, box |-> kind]}
<1>1. ASSUME NEW r \in rung
      PROVE  /\ KindsStored[r.row] = BoxRung(r) /\ r.arr \in Array /\ r.arr.s \in Sessions
             /\ r.row \in 1 .. Len(rows) /\ Len(rows) \in Nat
  <2>1. /\ r.row \in 1 .. Len(rows) /\ r.arr \in Array
        /\ DOMAIN rows = 1 .. Len(rows) /\ Len(rows) \in Nat
    BY DEF IInv, RungOK, TypeOK, Ring
  <2> QED
    BY <2>1 DEF KindsStored, BoxRung, Array
<1>2. Loose!Told(notice) = Told
  BY <1>1 DEF Loose!Told, Told, Covered, KindsStored
<1>3. ASSUME NEW kind, NEW receiver
      PROVE  Loose!Concerns(kind, receiver) =
               {r \in rung : FlagRung(r) = [arr |-> receiver, box |-> kind]}
  BY <1>1 DEF Loose!Concerns, FlagRung, KindsStored
<1> QED
  BY <1>1, <1>2, <1>3

\* A ring stays forgotten, or not, while no flag is taken or let go.
LEMMA SameIsForgotten ==
  ASSUME UNCHANGED <<notice, rows, rung, Held>> PROVE UNCHANGED <<KindsStored, Forgotten>>
<1>1. UNCHANGED KindsStored
  BY DEF KindsStored
<1>2. \A r : FlagRung(r)' = FlagRung(r) /\ Covered(r)' = Covered(r)
  BY DEF FlagRung, BoxRung, Covered
<1>3. (Forgotten = {r \in rung : FlagRung(r) \notin Held /\ ~Covered(r)})'
  BY ForgottenAre, PTL
<1> QED
  BY <1>1, <1>2, <1>3, ForgottenAre

\* The same after a step that stores nothing.
LEMMA ForgottenThen ==
  ASSUME UNCHANGED rows
  PROVE  /\ UNCHANGED KindsStored
         /\ \A r : FlagRung(r)' = FlagRung(r) /\ BoxRung(r)' = BoxRung(r)
         /\ Forgotten' = {r \in rung' : FlagRung(r) \notin Held' /\ ~Covered(r)'}
<1>1. \A r : FlagRung(r)' = FlagRung(r) /\ BoxRung(r)' = BoxRung(r)
  BY DEF FlagRung, BoxRung
<1>2. (Forgotten = {r \in rung : FlagRung(r) \notin Held /\ ~Covered(r)})'
  BY ForgottenAre, PTL
<1> QED
  BY <1>1, <1>2 DEF KindsStored

\* A renew rings for a row and an array not rung for before, and recalls what was
\* forgotten of the same flag.
LEMMA NotifyRecalls ==
  ASSUME LooseInv, NEW w \in Workers, NEW u \in Users, NotifyUser(w, u)
  PROVE  /\ UNCHANGED <<KindsStored, notice, Found, Clearing>>
         /\ \/ UNCHANGED <<rung, Forgotten>>
            \/ LET r == [row |-> work[w].mark, arr |-> nmap[u]]
               IN  /\ nmap[u] \in Array /\ nmap[u].n <= MaxLogins /\ r.row \in DOMAIN rows
                   /\ r \notin rung /\ rung' = rung \cup {r}
                   /\ Forgotten' = Forgotten \ Loose!Concerns(KindsStored[r.row], nmap[u])
<1>1. /\ UNCHANGED <<notice, rows, Found, Clearing>>
      /\ work[w].pc = "notify" /\ u \in work[w].to
  BY NotifyTask
<1>2. UNCHANGED KindsStored /\ \A r : Covered(r)' = Covered(r)
  BY <1>1 DEF KindsStored, Covered, BoxRung
<1>3. CASE UNCHANGED <<rung, Held>>
  BY <1>1, <1>2, <1>3, SameIsForgotten
<1>4. CASE LET r == [row |-> work[w].mark, arr |-> nmap[u]]
           IN  /\ nmap[u] \in Array /\ nmap[u].u = u /\ nmap[u].n <= MaxLogins
               /\ r.row \in DOMAIN rows
               /\ rung' = rung \cup {r} /\ Held' = Held \cup {FlagRung(r)}
  <2>1. PICK r : r = [row |-> work[w].mark, arr |-> nmap[u]]
    OBVIOUS
  <2>2. /\ r.row = work[w].mark /\ r.arr = nmap[u]
        /\ nmap[u] \in Array /\ nmap[u].u = u /\ nmap[u].n <= MaxLogins
        /\ r.row \in DOMAIN rows
        /\ rung' = rung \cup {r} /\ Held' = Held \cup {FlagRung(r)}
    BY <1>4, <2>1
  <2>3. r \notin rung
    BY <1>1, <2>2 DEF LooseInv, RingersOK, Ringing
  <2>4. Forgotten' = {x \in rung' : FlagRung(x) \notin Held' /\ ~Covered(x)}
    BY <1>1, <1>2, ForgottenThen
  <2>5. FlagRung(r) = [arr |-> nmap[u], box |-> KindsStored[r.row]]
    BY <2>2 DEF FlagRung, BoxRung, KindsStored
  <2>6. Forgotten' = {x \in Forgotten : FlagRung(x) # FlagRung(r)}
    BY <2>2, <2>4, ForgottenAre
  <2>7. \A x \in rung :
          x \in Loose!Concerns(KindsStored[r.row], nmap[u]) <=> FlagRung(x) = FlagRung(r)
    BY <2>5, RungIs DEF LooseInv
  <2>8. Forgotten' = Forgotten \ Loose!Concerns(KindsStored[r.row], nmap[u])
    BY <2>6, <2>7 DEF Forgotten
  <2> QED
    BY <1>1, <1>2, <2>1, <2>2, <2>3, <2>8
<1> QED
  BY <1>3, <1>4, NotifyTask

\* A push_back tells all that was rung for its flag, and what it undoes was told by a
\* notice that came into the queue since it began.
LEMMA PushTellsLoosely ==
  ASSUME LooseInv, [Next]_vars, NEW w \in Workers, PollStore(w)
  PROVE  Loose!Tell(work[w].box, work[w].arr)
<1> DEFINE s    == work[w].s
           kind == work[w].box
           arr  == work[w].arr
           n    == [box |-> kind, arr |-> arr, upto |-> Len(KindsStored)]
           old  == [s |-> s, queue |-> work[w].snap]
<1>0. IInv /\ TypeOK /\ IInv'
  BY InvNext DEF LooseInv, IInv
<1>1. /\ UNCHANGED <<nf, rows, rung>> /\ UNCHANGED KindsStored
      /\ s \in Sessions /\ kind \in Boxes /\ arr \in Array /\ arr.s = s
      /\ FlagSeen(w) \in Held /\ Held' \subseteq Held /\ Held \subseteq Held' \cup {FlagSeen(w)}
      /\ old \in Found /\ Found' \in {Found, Found \ {old}}
      /\ Clearing' = Clearing \cup {[s |-> s, box |-> kind]}
  BY PushTask, ForgottenThen
<1>2. Len(KindsStored) = Len(rows) /\ Len(rows) \in Nat
  BY <1>0 DEF KindsStored, TypeOK
<1>3. PICK q \in {notice[s], work[w].snap} : notice' = [notice EXCEPT ![s] = q \cup {n}]
  BY <1>2 DEF PollStore
<1>4. Loose!Concerns(kind, arr) # {}
  <2>1. PICK r \in rung : FlagRung(r) = FlagSeen(w)
    BY <1>1 DEF LooseInv, HeldAreRung
  <2>2. Loose!Concerns(kind, arr) = {x \in rung : FlagRung(x) = FlagSeen(w)}
    BY <1>0, RungIs DEF FlagSeen
  <2> QED
    BY <2>1, <2>2
<1>5. \E o \in {f \in Found : f.s = arr.s} :
        /\ \E x \in {notice[arr.s], o.queue} : notice' = [notice EXCEPT ![arr.s] = x \cup {n}]
        /\ Found' \in {Found, Found \ {o}}
  <2>1. old.s = s /\ old.queue = work[w].snap
    OBVIOUS
  <2> HIDE DEF old, n
  <2> QED
    BY <1>1, <1>3, <2>1
<1>6. Loose!Told(notice') = {r \in rung : Covered(r)'}
  <2>1. \A r \in rung : KindsStored[r.row] = BoxRung(r)' 
    BY <1>0, <1>1, RungIs, ForgottenThen
  <2> QED
    BY <1>1, <2>1 DEF Loose!Told, Covered, KindsStored
<1>7. \A r \in rung : FlagRung(r) = FlagSeen(w) => Covered(r)'
  <2>1. n \in notice'[s]
    BY <1>0, <1>1, <1>3 DEF TypeOK
  <2>2. n.box = kind /\ n.arr = arr /\ n.upto = Len(rows)
    BY <1>2
  <2> HIDE DEF n
  <2>3. SUFFICES ASSUME NEW r \in rung, FlagRung(r) = FlagSeen(w) PROVE Covered(r)'
    OBVIOUS
  <2>4. r.arr = arr /\ BoxRung(r)' = kind /\ r.row \in 1 .. Len(rows)
    BY <1>0, <1>1, <2>3, RungIs, ForgottenThen DEF FlagRung, FlagSeen
  <2> QED
    BY <1>1, <1>2, <2>1, <2>2, <2>4 DEF Covered
<1>8. Forgotten' = {r \in rung : FlagRung(r) \notin Held /\ ~Covered(r)'}
  <2>1. Forgotten' = {r \in rung : FlagRung(r) \notin Held' /\ ~Covered(r)'}
    BY <1>1, ForgottenThen
  <2> QED
    BY <1>1, <1>7, <2>1
<1>9. \E lost \in SUBSET (Loose!Told(notice) \ Loose!Told(notice')) :
        Forgotten' = (Forgotten \ Loose!Told(notice')) \cup lost
  <2>1. Loose!Told(notice) = {r \in rung : Covered(r)}
    BY <1>0, RungIs DEF Told
  <2> DEFINE lost == {r \in rung : FlagRung(r) \notin Held /\ Covered(r) /\ ~Covered(r)'}
  <2>2. lost \in SUBSET (Loose!Told(notice) \ Loose!Told(notice'))
    BY <1>6, <2>1
  <2>3. Forgotten' = (Forgotten \ Loose!Told(notice')) \cup lost
    BY <1>6, <1>8, ForgottenAre
  <2> QED
    BY <2>2, <2>3
<1>10. Clearing' = Clearing \cup {Loose!Closing(kind, arr)}
  BY <1>1 DEF Loose!Closing
<1> QED
  BY <1>1, <1>4, <1>5, <1>9, <1>10 DEF Loose!Tell, KindsStored, Forgotten

\* A clear settles a notice of its session and box; what it may forget is what is due of
\* the flag it lets go.
LEMMA ClearSettles ==
  ASSUME LooseInv, NEW w \in Workers, PollClear(w)
  PROVE  Loose!Settle(work[w].box, nf[work[w].s])
<1> DEFINE kind == work[w].box
           arr  == nf[work[w].s]
           closed == [s |-> work[w].s, box |-> kind]
<1>0. IInv
  BY DEF LooseInv
<1>1. /\ UNCHANGED <<nf, notice, rows, rung, Found>>
      /\ arr.s = work[w].s
      /\ Held' \subseteq Held /\ Held \subseteq Held' \cup {FlagOf(work[w])}
      /\ closed \in Clearing /\ Clearing' \in {Clearing, Clearing \ {closed}}
  BY ClearTask
<1>2. UNCHANGED KindsStored /\ \A r : Covered(r)' = Covered(r)
  BY <1>1 DEF KindsStored, Covered, BoxRung
<1>3. Forgotten' = {r \in rung : FlagRung(r) \notin Held' /\ ~Covered(r)}
  BY <1>1, <1>2, ForgottenThen
<1>4. Loose!Concerns(kind, arr) = {r \in rung : FlagRung(r) = FlagOf(work[w])}
  BY <1>0, RungIs DEF FlagOf
<1>5. Loose!Told(notice) = {r \in rung : Covered(r)}
  BY <1>0, RungIs DEF Told
<1>6. Forgotten' \in {Forgotten, Forgotten \cup (Loose!Concerns(kind, arr) \ Loose!Told(notice))}
  <2>1. CASE FlagOf(work[w]) \in Held' \/ FlagOf(work[w]) \notin Held
    <3>1. Held' = Held
      BY <1>1, <2>1
    <3> QED
      BY <1>3, <3>1, ForgottenAre
  <2>2. CASE FlagOf(work[w]) \notin Held' /\ FlagOf(work[w]) \in Held
    <3>1. Held' = Held \ {FlagOf(work[w])}
      BY <1>1, <2>2
    <3>2. Forgotten' = Forgotten \cup (Loose!Concerns(kind, arr) \ Loose!Told(notice))
      BY <1>3, <1>4, <1>5, <3>1, ForgottenAre
    <3> QED
      BY <3>2
  <2> QED
    BY <2>1, <2>2
<1>7. Loose!Closing(kind, arr) = closed
  BY <1>1 DEF Loose!Closing
<1> QED
  BY <1>1, <1>2, <1>6, <1>7 DEF Loose!Settle, KindsStored, Forgotten

LEMMA StepIsSeenLoosely ==
  ASSUME LooseInv, [Next]_vars
  PROVE  [Loose!Next]_(Loose!vars)
<1> DEFINE Goal == [Loose!Next]_(Loose!vars)
<1>0. /\ IInv /\ TypeOK
      /\ KindsStored = [i \in DOMAIN rows |-> BoxOf[rows[i].table]]
      /\ Forgotten = {r \in rung : ~Recorded(r)}
  BY DEF LooseInv, IInv, KindsStored, Forgotten
<1>1. ASSUME UNCHANGED <<KindsStored, rung, notice, Found, Clearing, Forgotten>> PROVE Goal
  BY <1>1 DEF Loose!vars, KindsStored, Forgotten
<1>2. \A a \in Array : a.n <= MaxLogins => a \in [s : Sessions, u : Users, n : 1 .. MaxLogins]
  BY MailboxAssumption DEF Array
<1>3. ASSUME Quiet PROVE Goal
  BY <1>1, <1>3, QuietTask, SameIsForgotten DEF Quiet
<1>4. ASSUME NEW w \in Workers, NEW s \in Sessions, NEW table \in DOMAIN BoxOf,
             NEW to \in SUBSET Users, NEW list \in SUBSET Users,
             StoreAndNotify(w, s, table, to, list)
      PROVE  Goal
  <2>1. UNCHANGED <<notice, rung, Held, Found, Clearing>>
    BY <1>4, StoreTask
  <2>2. KindsStored' = Append(KindsStored, BoxOf[table]) /\ BoxOf[table] \in Boxes
    BY <1>0, <1>4, StoreKeeps, BoxesAreBoxes
  <2>3. \A r \in rung : FlagRung(r)' = FlagRung(r) /\ Covered(r)' = Covered(r)
    BY <1>0, <2>1, BoxRungKept DEF Covered
  <2>4. (Forgotten = {r \in rung : FlagRung(r) \notin Held /\ ~Covered(r)})'
    BY ForgottenAre, PTL
  <2>5. Forgotten' = Forgotten
    BY <2>1, <2>3, <2>4, ForgottenAre
  <2>6. Loose!Keep(BoxOf[table])
    BY <2>1, <2>2, <2>5 DEF Loose!Keep, KindsStored, Forgotten
  <2> QED
    BY <2>2, <2>6 DEF Loose!Next
<1>5. ASSUME NEW w \in Workers, NEW u \in Users, NotifyUser(w, u) PROVE Goal
  <2>1. UNCHANGED <<KindsStored, notice, Found, Clearing>>
    BY <1>5, NotifyRecalls
  <2>2. CASE UNCHANGED <<rung, Forgotten>>
    BY <1>1, <2>1, <2>2
  <2>3. CASE LET r == [row |-> work[w].mark, arr |-> nmap[u]]
             IN  /\ nmap[u] \in Array /\ nmap[u].n <= MaxLogins /\ r.row \in DOMAIN rows
                 /\ r \notin rung /\ rung' = rung \cup {r}
                 /\ Forgotten' = Forgotten \ Loose!Concerns(KindsStored[r.row], nmap[u])
    <3>1. Loose!Ring(work[w].mark, nmap[u])
      BY <2>1, <2>3 DEF Loose!Ring, KindsStored, Forgotten
    <3>2. work[w].mark \in DOMAIN KindsStored
      BY <2>3 DEF KindsStored
    <3> QED
      BY <1>2, <2>3, <3>1, <3>2 DEF Loose!Next, KindsStored
  <2> QED
    BY <1>5, <2>2, <2>3, NotifyRecalls
<1>6. ASSUME NEW w \in Workers, PollTest(w), FlagOf(work[w]) \in raised PROVE Goal
  BY <1>1, <1>6, TestTask, SameIsForgotten
<1>7. ASSUME NEW w \in Workers, PollLoad(w) PROVE Goal
  <2>1. UNCHANGED <<KindsStored, Forgotten>>
    BY <1>7, LoadTask, SameIsForgotten
  <2>2. Loose!Find(work[w].s) /\ work[w].s \in Sessions
    BY <1>7, <2>1, LoadTask DEF Loose!Find, KindsStored, Forgotten
  <2> QED
    BY <2>2 DEF Loose!Next
<1>8. ASSUME NEW w \in Workers, PollStore(w) PROVE Goal
  <2>1. Loose!Tell(work[w].box, work[w].arr)
    BY <1>8, PushTellsLoosely
  <2>2. /\ work[w].box \in Boxes /\ work[w].arr \in Array /\ FlagSeen(w) \in Held
    BY <1>8, PushTask
  <2>3. work[w].arr.n <= MaxLogins
    BY <2>2 DEF LooseInv, HeldAreRung, RungNumbers, FlagSeen, FlagRung
  <2> QED
    BY <1>2, <2>1, <2>2, <2>3 DEF Loose!Next
<1>9. ASSUME NEW w \in Workers, PollClear(w) PROVE Goal
  <2>1. Loose!Settle(work[w].box, nf[work[w].s])
    BY <1>9, ClearSettles
  <2>2. /\ work[w].box \in Boxes /\ nf[work[w].s] \in [s : Sessions, u : Users, n : 1 .. MaxLogins]
    BY <1>2, <1>9, ClearTask
  <2> QED
    BY <2>1, <2>2 DEF Loose!Next
<1> HIDE DEF Goal
<1>10. Goal
  BY <1>3, <1>4, <1>5, <1>6, <1>7, <1>8, <1>9, StepsThereAre
<1> QED
  BY <1>10 DEF Goal

\* Whatever the number of io threads and however their steps interleave, the flags, the
\* polls and the queues of notices do what LooseCourier says: check_mail_box forgets the
\* rings of one flag of its own session, upon a notice for that flag, and nothing else.
THEOREM MailboxForgetsByBox == Spec => ForgetsByBox
<1>1. Init => LooseInv /\ Loose!Init
  <2> SUFFICES ASSUME Init PROVE Loose!Init
    BY LooseInit
  <2>1. rows = <<>> /\ rung = {} /\ notice = [s \in Sessions |-> {}]
    BY DEF Init
  <2>2. \A w \in Workers : work[w].pc = "idle"
    BY NextBoxIsFresh DEF Init
  <2>3. [i \in DOMAIN rows |-> BoxOf[rows[i].table]] = <<>>
    BY <2>1
  <2>4. Found = {} /\ Clearing = {}
    BY <2>2 DEF Found, Clearing, Doing
  <2> QED
    BY <2>1, <2>3, <2>4 DEF Loose!Init
<1>2. LooseInv /\ [Next]_vars => LooseInv'
  BY LooseNext
<1>3. LooseInv /\ [Next]_vars => [Loose!Next]_(Loose!vars)
  BY StepIsSeenLoosely
<1> QED
  BY <1>1, <1>2, <1>3, PTL DEF Spec, ForgetsByBox, Loose!Spec
=============================================================================
