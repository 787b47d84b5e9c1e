------------------------------- MODULE Mailbox -------------------------------
(***************************************************************************)
(* The notification path of the chat server: the handlers that store a     *)
(* request in the database and then raise a flag of its receivers, and the *)
(* polls that turn a raised flag into a notice for the receiver's session. *)
(* Handlers run on the io threads (Workers) without a lock, so every       *)
(* access to the shared map, flags and notice queues is a step of its own. *)
(***************************************************************************)
EXTENDS Naturals, Sequences

CONSTANTS
  Sessions,   \* the session objects of server.h's sessionPool_
  Users,      \* user ids with a row in table `user'
  Workers,    \* the threads that run the io_service
  Tables,     \* chat tables a client sends messages to
  Members,    \* the members Qr::get_dining_members finds for each of them
  StaleInit,  \* values `initialized' can have in a new session: the
              \* constructor leaves it indeterminate
  MaxLogins,  \* bound: logins per session
  MaxRows,    \* bound: inserts executed
  None        \* no array, no session

ASSUME MailboxAssumption ==
  /\ Members \in [Tables -> SUBSET Users]
  /\ StaleInit \subseteq BOOLEAN
  /\ MaxLogins \in Nat
  /\ MaxRows \in Nat
  /\ None \notin Sessions
  /\ None \notin [s : Sessions, u : Users, n : Nat \ {0}]

(***************************************************************************)
(* The flags a poll looks at, in the order it does (enum checkListIndex),  *)
(* and the flag raised for a row of each table.                            *)
(***************************************************************************)
messageArr    == 0
tableIvt      == 1
connectionReq == 2
Boxes == {messageArr, tableIvt, connectionReq}

BoxOf == [ms |-> messageArr, part |-> tableIvt, invite |-> tableIvt,
          connectionRequest |-> connectionReq]

\* A boost::array<nof, 10>: the one allocated by session s in its n-th login,
\* which was as user u.
Array == [s : Sessions, u : Users, n : Nat \ {0}]
Flag  == [arr : Array, box : Boxes]

\* An executed INSERT: its table, and the users the row is addressed to.
Row == [table : DOMAIN BoxOf, to : SUBSET Users]

\* A pchd in notice_. h.comd is the box; the array whose flag was seen and the
\* number of rows inserted by then are kept for the properties.
Notice == [box : Boxes, arr : Array, upto : Nat]

\* A renew() that was executed: for which insert, on which array.
Ring == [row : Nat, arr : Array]

(***************************************************************************)
(* What a worker is doing. find, link, ready: response_req_login as the    *)
(* user in `to', `seen' being the users its search passed in the map.      *)
(* notify: a request handler after its insert, with `to' still to be       *)
(* notified of row `mark'. test, load, store, clear: check_mail_box at     *)
(* `box'; `arr' is the array whose flag was seen raised, `snap' the queue  *)
(* as found by the push_back under way, `mark' the number of rows when it  *)
(* ended.                                                                  *)
(***************************************************************************)
PollPCs  == {"test", "load", "store", "clear"}
ServePCs == {"find", "link", "ready", "notify"}

Task == [pc : {"idle"} \cup ServePCs \cup PollPCs, s : Sessions \cup {None},
         box : Boxes, to : SUBSET Users, mark : Nat,
         arr : Array \cup {None}, snap : SUBSET Notice, seen : SUBSET Users]

Free == [pc |-> "idle", s |-> None, box |-> messageArr, to |-> {}, mark |-> 0,
         arr |-> None, snap |-> {}, seen |-> {}]

VARIABLES
  up,           \* the process is running
  open,         \* the socket of each session is open
  initialized,  \* session_no_ssl::initialized
  nf,           \* session_no_ssl::nf, with user_name in it
  nmap,         \* nMap::Map, user id -> array
  raised,       \* the flags (nof::_new) that are true
  notice,       \* session_no_ssl::notice_
  rows,         \* the INSERTs executed, in order
  rung,         \* history: the rings so far
  torn,         \* history: two inserts into nMap::Map have overlapped
  work          \* what each worker is doing

vars == <<up, open, initialized, nf, nmap, raised, notice, rows, rung, torn, work>>

TypeOK ==
  /\ up \in BOOLEAN
  /\ open \in [Sessions -> BOOLEAN]
  /\ initialized \in [Sessions -> BOOLEAN]
  /\ nf \in [Sessions -> Array \cup {None}]
  /\ nmap \in [Users -> Array \cup {None}]
  /\ raised \subseteq Flag
  /\ notice \in [Sessions -> SUBSET Notice]
  /\ rows \in Seq(Row)
  /\ rung \subseteq Ring
  /\ torn \in BOOLEAN
  /\ work \in [Workers -> Task]
  /\ \A w \in Workers : /\ work[w].pc = "idle" \/ work[w].s \in Sessions
                        /\ work[w].pc \in {"load", "store"} => work[w].arr # None

Init ==
  /\ up = TRUE
  /\ open = [s \in Sessions |-> TRUE]
  /\ initialized \in [Sessions -> StaleInit]
  /\ nf = [s \in Sessions |-> None]
  /\ nmap = [u \in Users |-> None]
  /\ raised = {}
  /\ notice = [s \in Sessions |-> {}]
  /\ rows = <<>>
  /\ rung = {}
  /\ torn = FALSE
  /\ work = [w \in Workers |-> Free]

-----------------------------------------------------------------------------
Set(w, task) == work' = [work EXCEPT ![w] = task]

\* A session has one chain of handlers: it serves one request at a time.
Serving(s) == \E w \in Workers : work[w].pc \in ServePCs /\ work[w].s = s

CanServe(w, s) == up /\ work[w].pc = "idle" /\ open[s] /\ ~Serving(s)

InMap == {u \in Users : nmap[u] # None}

\* Another worker is linking a node into the tree, with nothing that keeps a
\* search out: the search may miss what is there.
MapRace(w) == \E v \in Workers \ {w} : work[v].pc = "link"

(***************************************************************************)
(* response_req_login, the password being right: session_init gives the    *)
(* session a new array, offers it to the map and sets initialized. The     *)
(* std::map keeps the entry it has, if its search finds one.               *)
(***************************************************************************)
LoginAlloc(w, s, u) ==
  LET n == IF nf[s] = None THEN 1 ELSE nf[s].n + 1 IN
  /\ CanServe(w, s)
  /\ n <= MaxLogins
  /\ nf' = [nf EXCEPT ![s] = [s |-> s, u |-> u, n |-> n]]
  /\ Set(w, [Free EXCEPT !.pc = "find", !.s = s, !.to = {u}])
  /\ UNCHANGED <<up, open, initialized, nmap, raised, notice, rows, rung, torn>>

\* Faulty variant: Map[id] = notification in place of Map.insert.
LoginFindAssign(w) ==
  /\ up
  /\ work[w].pc = "find"
  /\ \E u \in work[w].to : nmap' = [nmap EXCEPT ![u] = nf[work[w].s]]
  /\ Set(w, [work[w] EXCEPT !.pc = "ready"])
  /\ UNCHANGED <<up, open, initialized, nf, raised, notice, rows, rung, torn>>

LoginFind(w) ==
  /\ up
  /\ work[w].pc = "find"
  /\ \E u \in work[w].to :
       \/ /\ nmap[u] # None
          /\ Set(w, [work[w] EXCEPT !.pc = "ready"])
       \/ /\ nmap[u] = None \/ MapRace(w)
          /\ Set(w, [work[w] EXCEPT !.pc = "link", !.seen = InMap \ {u}])
  /\ UNCHANGED <<up, open, initialized, nf, nmap, raised, notice, rows, rung, torn>>

\* The node is linked where the search ended. If the tree has changed since, the
\* link may cut off other nodes, this one may be lost, or the user's entry double.
LoginLink(w) ==
  LET s == work[w].s IN
  /\ up
  /\ work[w].pc = "link"
  /\ \E u \in work[w].to :
       \/ /\ InMap = work[w].seen
          /\ nmap' = [nmap EXCEPT ![u] = nf[s]]
          /\ UNCHANGED torn
       \/ /\ InMap # work[w].seen
          /\ \E lost \in SUBSET InMap, entry \in {nmap[u], nf[s]} :
               nmap' = [v \in Users |-> IF v = u THEN entry
                                       ELSE IF v \in lost THEN None ELSE nmap[v]]
          /\ torn' = TRUE
  /\ Set(w, [work[w] EXCEPT !.pc = "ready"])
  /\ UNCHANGED <<up, open, initialized, nf, raised, notice, rows, rung>>

LoginReady(w) ==
  /\ up
  /\ work[w].pc = "ready"
  /\ initialized' = [initialized EXCEPT ![work[w].s] = TRUE]
  /\ Set(w, Free)
  /\ UNCHANGED <<up, open, nf, nmap, raised, notice, rows, rung, torn>>

(***************************************************************************)
(* The request handlers. Each executes its INSERT, accepted by SQLite or   *)
(* not (an error is logged and the handler goes on), and then notifies a   *)
(* list of users one by one.                                               *)
(***************************************************************************)
StoreAndNotify(w, s, table, to, list) ==
  /\ CanServe(w, s)
  /\ Len(rows) < MaxRows
  /\ rows' = Append(rows, [table |-> table, to |-> to])
  /\ Set(w, [Free EXCEPT !.pc = "notify", !.s = s, !.box = BoxOf[table],
                         !.to = list, !.mark = Len(rows) + 1])
  /\ UNCHANGED <<up, open, initialized, nf, nmap, raised, notice, rung, torn>>

ActSendMsg(w, s, t) == StoreAndNotify(w, s, "ms", Members[t], Members[t])

\* Faulty variant: the sender is notified in place of the receiver.
ActConnectEcho(w, s, receiver) ==
  /\ nf[s] # None
  /\ StoreAndNotify(w, s, "connectionRequest", {receiver}, {nf[s].u})

ActConnect(w, s, receiver) ==
  StoreAndNotify(w, s, "connectionRequest", {receiver}, {receiver})

ActCreateTable(w, s, cont) == StoreAndNotify(w, s, "part", cont, cont)

\* The target is read into a pBuffer whose next_input_point stays 0, so
\* to_string() is empty whoever was named: the row and the ring go to "".
TargetAsRead(target) == {}

ActInvite(w, s, target) ==
  StoreAndNotify(w, s, "invite", TargetAsRead(target), TargetAsRead(target))

\* nmap_notify of one user: renew() on the array the map holds for it. A find
\* beside an insert of another worker may miss what is there.
NotifyUser(w, u) ==
  /\ up
  /\ work[w].pc = "notify"
  /\ u \in work[w].to
  /\ \/ /\ nmap[u] # None
        /\ raised' = raised \cup {[arr |-> nmap[u], box |-> work[w].box]}
        /\ rung' = rung \cup {[row |-> work[w].mark, arr |-> nmap[u]]}
     \/ /\ nmap[u] = None \/ MapRace(w)
        /\ UNCHANGED <<raised, rung>>
  /\ Set(w, [work[w] EXCEPT !.to = @ \ {u}])
  /\ UNCHANGED <<up, open, initialized, nf, nmap, notice, rows, torn>>

\* get_notifier searches twice and looks at the result of the first search only: what
\* the second returns when it misses the entry is no node of the tree.
NotifyWild(w) ==
  /\ up
  /\ work[w].pc = "notify"
  /\ \E u \in work[w].to : nmap[u] # None
  /\ MapRace(w)
  /\ up' = FALSE
  /\ UNCHANGED <<open, initialized, nf, nmap, raised, notice, rows, rung, torn, work>>

NotifyEnd(w) ==
  /\ up
  /\ work[w].pc = "notify"
  /\ work[w].to = {}
  /\ Set(w, Free)
  /\ UNCHANGED <<up, open, initialized, nf, nmap, raised, notice, rows, rung, torn>>

\* The client goes away while a handler reads its body or writes its answer: the
\* boost::system::system_error thrown is caught by no clause and ends the process.
CutOff(w, s) ==
  /\ CanServe(w, s)
  /\ up' = FALSE
  /\ UNCHANGED <<open, initialized, nf, nmap, raised, notice, rows, rung, torn, work>>

\* create_table answers between its INSERTs and its rings.
CutOffAnswer(w) ==
  /\ up
  /\ work[w].pc = "notify"
  /\ rows[work[w].mark].table = "part"
  /\ work[w].to = rows[work[w].mark].to
  /\ up' = FALSE
  /\ UNCHANGED <<open, initialized, nf, nmap, raised, notice, rows, rung, torn, work>>

\* error_handle on eof or connection_reset. The map keeps the array.
Disconnect(w, s) ==
  /\ CanServe(w, s)
  /\ open' = [open EXCEPT ![s] = FALSE]
  /\ initialized' = [initialized EXCEPT ![s] = FALSE]
  /\ UNCHANGED <<up, nf, nmap, raised, notice, rows, rung, torn, work>>

-----------------------------------------------------------------------------
(***************************************************************************)
(* check_mail_box, posted over and over for every session of the pool. A   *)
(* poll of a session with a stale initialized follows a garbage nf, which  *)
(* ends the process unless what it points to happens to read as false.     *)
(***************************************************************************)
PollStart(w, s) ==
  /\ up
  /\ work[w].pc = "idle"
  /\ initialized[s]
  /\ nf[s] # None
  /\ Set(w, [Free EXCEPT !.pc = "test", !.s = s])
  /\ UNCHANGED <<up, open, initialized, nf, nmap, raised, notice, rows, rung, torn>>

PollWild(w, s) ==
  /\ up
  /\ work[w].pc = "idle"
  /\ initialized[s]
  /\ nf[s] = None
  /\ up' = FALSE
  /\ UNCHANGED <<open, initialized, nf, nmap, raised, notice, rows, rung, torn, work>>

\* Faulty variants: the sweep goes one box too far, or stops one too early.
NextBoxOver(task) ==
  IF task.box > connectionReq
  THEN Free
  ELSE [Free EXCEPT !.pc = "test", !.s = task.s, !.box = task.box + 1]

NextBoxShort(task) ==
  IF task.box = tableIvt
  THEN Free
  ELSE [Free EXCEPT !.pc = "test", !.s = task.s, !.box = task.box + 1]

NextBox(task) ==
  IF task.box = connectionReq
  THEN Free
  ELSE [Free EXCEPT !.pc = "test", !.s = task.s, !.box = task.box + 1]

FlagOf(task) == [arr |-> nf[task.s], box |-> task.box]

PollTest(w) ==
  /\ up
  /\ work[w].pc = "test"
  /\ IF FlagOf(work[w]) \in raised
     THEN Set(w, [work[w] EXCEPT !.pc = "load", !.arr = nf[work[w].s]])
     ELSE Set(w, NextBox(work[w]))
  /\ UNCHANGED <<up, open, initialized, nf, nmap, raised, notice, rows, rung, torn>>

PollLoad(w) ==
  /\ up
  /\ work[w].pc = "load"
  /\ Set(w, [work[w] EXCEPT !.pc = "store", !.snap = notice[work[w].s]])
  /\ UNCHANGED <<up, open, initialized, nf, nmap, raised, notice, rows, rung, torn>>

\* Faulty variant: the notice replaces the queue.
PollStoreLast(w) ==
  LET s == work[w].s
      m == [box |-> work[w].box, arr |-> work[w].arr, upto |-> Len(rows)]
  IN
  /\ up
  /\ work[w].pc = "store"
  /\ notice' = [notice EXCEPT ![s] = {m}]
  /\ Set(w, [work[w] EXCEPT !.pc = "clear", !.mark = Len(rows)])
  /\ UNCHANGED <<up, open, initialized, nf, nmap, raised, rows, rung, torn>>

\* The push_back ends. Over another one that overlapped it, the deque may
\* come out without what the other added.
PollStore(w) ==
  LET s == work[w].s
      m == [box |-> work[w].box, arr |-> work[w].arr, upto |-> Len(rows)]
  IN
  /\ up
  /\ work[w].pc = "store"
  /\ \E q \in {notice[s], work[w].snap} :
       notice' = [notice EXCEPT ![s] = q \cup {m}]
  /\ Set(w, [work[w] EXCEPT !.pc = "clear", !.mark = Len(rows)])
  /\ UNCHANGED <<up, open, initialized, nf, nmap, raised, rows, rung, torn>>

\* Faulty variant: every flag of the array is cleared, seen or not.
PollClearAll(w) ==
  /\ up
  /\ work[w].pc = "clear"
  /\ raised' = {f \in raised : f.arr # nf[work[w].s]}
  /\ Set(w, NextBox(work[w]))
  /\ UNCHANGED <<up, open, initialized, nf, nmap, notice, rows, rung, torn>>

PollClear(w) ==
  /\ up
  /\ work[w].pc = "clear"
  /\ raised' = raised \ {FlagOf(work[w])}
  /\ Set(w, NextBox(work[w]))
  /\ UNCHANGED <<up, open, initialized, nf, nmap, notice, rows, rung, torn>>

Request(w, s) ==
  \/ \E u \in Users : LoginAlloc(w, s, u)
  \/ \E t \in Tables : ActSendMsg(w, s, t)
  \/ \E u \in Users : ActConnect(w, s, u)
  \/ \E u \in Users : ActInvite(w, s, u)
  \/ \E cont \in SUBSET Users : ActCreateTable(w, s, cont)
  \/ CutOff(w, s)
  \/ Disconnect(w, s)

\* The next step of the handler a worker has begun.
Advance(w) ==
  \/ LoginFind(w)
  \/ LoginLink(w)
  \/ LoginReady(w)
  \/ \E u \in Users : NotifyUser(w, u)
  \/ NotifyEnd(w)
  \/ PollTest(w)
  \/ PollLoad(w)
  \/ PollStore(w)
  \/ PollClear(w)

Next ==
  \E w \in Workers :
    \/ \E s \in Sessions : Request(w, s) \/ PollStart(w, s) \/ PollWild(w, s)
    \/ Advance(w) \/ CutOffAnswer(w) \/ NotifyWild(w)

Spec == Init /\ [][Next]_vars

\* A handler that was begun runs on, and the io_service runs its handlers in
\* the order they were posted: a poll of each session gets its turn again and
\* again. Clients need not send anything.
Fairness ==
  /\ \A w \in Workers : WF_vars(Advance(w))
  /\ \A s \in Sessions : SF_vars(\E w \in Workers : PollStart(w, s))

FairSpec == Spec /\ Fairness

-----------------------------------------------------------------------------
(***************************************************************************)
(* Properties.                                                             *)
(***************************************************************************)

\* The box a ring is for, and the same as a flag.
BoxRung(r) == BoxOf[rows[r.row].table]
FlagRung(r) == [arr |-> r.arr, box |-> BoxRung(r)]

\* What a flag or a notice announces is in the database: an executed INSERT of
\* the box's kind, addressed to the user whose array was flagged, that a client
\* which asks upon the notice can be answered with.
Backed(arr, box, upto) ==
  \E i \in 1 .. upto : /\ i <= Len(rows)
                        /\ BoxOf[rows[i].table] = box
                        /\ arr.u \in rows[i].to

\* No flag is raised, and no notice queued, for nothing: the handlers insert
\* before they notify, and notify nobody but those the row is addressed to.
BackedNotice ==
  /\ \A f \in raised : Backed(f.arr, f.box, Len(rows))
  /\ \A s \in Sessions : \A m \in notice[s] : Backed(m.arr, m.box, m.upto)

\* Of all the arrays logins have allocated for a user, only the one the map holds
\* is ever flagged, and it is the session that allocated it that queues the
\* notices: Map.insert keeps the first entry, so a user who logs in again from
\* another session gets no notice there, then or later. Only two inserts that
\* overlap can change the entry.
OneMailbox ==
  \/ torn
  \/ /\ \A f \in raised : nmap[f.arr.u] = f.arr
     /\ \A s \in Sessions : \A m \in notice[s] : nmap[m.arr.u] = m.arr /\ m.arr.s = s

\* A notice queued after the ring's INSERT is there.
Covered(r) ==
  \E m \in notice[r.arr.s] : /\ m.arr = r.arr
                              /\ m.box = BoxRung(r)
                              /\ m.upto >= r.row

\* A ring is on record while its flag is raised, or a poll has seen the flag and
\* is queueing the notice, or it is covered.
Recorded(r) ==
  \/ FlagRung(r) \in raised
  \/ \E w \in Workers : /\ work[w].pc \in {"load", "store"}
                         /\ work[w].arr = r.arr
                         /\ work[w].box = BoxRung(r)
  \/ Covered(r)

\* The race of two polls of a session: a push_back into a queue the other has
\* changed since it began. It may drop notices, its own flag being still raised.
OverlappedStore(w, s) ==
  /\ PollStore(w)
  /\ work[w].s = s
  /\ work[w].snap # notice[s]

\* A poll's clear takes away a ring its notice does not cover: the ring's INSERT
\* came after the notice was queued; the notice is gone, by the race above; or the
\* session has logged in again since, and the flag cleared is of the new array.
LateClear(w, r) ==
  /\ PollClear(w)
  /\ FlagOf(work[w]) = FlagRung(r)
  /\ \/ work[w].mark < r.row
     \/ work[w].arr # nf[work[w].s]
     \/ [box |-> work[w].box, arr |-> work[w].arr, upto |-> work[w].mark]
          \notin notice[work[w].s]

\* Notices are dropped, and rings that were on record lost, by those two races and
\* by nothing else: not by a disconnect, another login, another box or session.
LossIsARace ==
  /\ \A s \in Sessions :
       notice[s] \subseteq notice'[s] \/ \E w \in Workers : OverlappedStore(w, s)
  /\ \A r \in rung :
       Recorded(r) /\ ~Recorded(r)' =>
         \E w \in Workers : LateClear(w, r) \/ OverlappedStore(w, r.arr.s)

OnlyRacesLose == [][LossIsARace]_vars

\* With one io thread every ring stays on record: the insert, ring, push_back,
\* clear protocol of the handlers and check_mail_box loses nothing by itself.
NoLostNotice == \A r \in rung : Recorded(r)

(***************************************************************************)
(* The abstract view: a ring is due while it is on record and in no notice *)
(* yet, and told when it is covered.                                       *)
(***************************************************************************)
Abstract == INSTANCE Courier WITH
  Receivers <- [s : Sessions, u : Users, n : 1 .. MaxLogins],
  Kinds     <- Boxes,
  stored    <- [i \in DOMAIN rows |-> BoxOf[rows[i].table]],
  due       <- {r \in rung : Recorded(r) /\ ~Covered(r)},
  told      <- {r \in rung : Covered(r)}

\* With one io thread the flags, the polls and the queue of notices do what Courier
\* promises: no ring is forgotten, told of twice or taken back, whatever logins,
\* disconnects and other requests come between, and one notice tells of all that is
\* due in its box.
Delivers == Abstract!Spec

\* The same with what several io threads can do to it: the queues as the push_backs
\* under way have found them, the flags that the polls which have queued a notice are
\* still to clear, and the rings that are not on record any more.
Doing(pc) == {w \in Workers : work[w].pc = pc}
Found     == {[s |-> work[w].s, queue |-> work[w].snap] : w \in Doing("store")}
Clearing  == {[s |-> work[w].s, box |-> work[w].box] : w \in Doing("clear")}

Loose == INSTANCE LooseCourier WITH
  Queues    <- Sessions,
  Receivers <- [s : Sessions, u : Users, n : 1 .. MaxLogins],
  Kinds     <- Boxes,
  stored    <- [i \in DOMAIN rows |-> BoxOf[rows[i].table]],
  rung      <- rung,
  queue     <- notice,
  found     <- Found,
  closing   <- Clearing,
  forgotten <- {r \in rung : ~Recorded(r)}

\* With any number of io threads a ring is forgotten only upon a notice of its box and its
\* session, and then with all that is due in that box; the next ring of the box recalls it;
\* a notice tells of all that was rung in its box, and takes nothing away but what came
\* into its own session's queue since its push_back began.
ForgetsByBox == Loose!Spec

\* While the server runs and the session stays logged in with this array, a raised
\* flag is seen and cleared again by one of the polls posted for the session.
RaisedIsPolled ==
  \A s \in Sessions, box \in Boxes :
    (up /\ initialized[s] /\ nf[s] # None /\ [arr |-> nf[s], box |-> box] \in raised)
      ~> (~up \/ ~initialized[s] \/ [arr |-> nf[s], box |-> box] \notin raised)

\* Each notice that an invite has come is for a user an invite row is addressed to,
\* the row GetIvt is answered with.
InviteNoticeHasInvite ==
  \A s \in Sessions : \A m \in notice[s] :
    m.box = tableIvt =>
      \E i \in 1 .. m.upto : rows[i].table = "invite" /\ m.arr.u \in rows[i].to
=============================================================================
