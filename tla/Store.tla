-------------------------------- MODULE Store --------------------------------
(***************************************************************************)
(* The database as the request handlers use it: the class Qr over the one  *)
(* SQLite connection Q::DB that all io threads share. One call of          *)
(* sqlite3_exec holds the connection; between two calls of a handler those *)
(* of others come in, and sqlite3_last_insert_rowid tells of the last      *)
(* INSERT of any of them, into any table.                                  *)
(***************************************************************************)
EXTENDS Query, FiniteSets

CONSTANTS
  Users,       \* user ids
  Nobody,      \* the empty id, under which no user is stored
  Texts,       \* texts of messages
  Workers,     \* the io threads
  Old,         \* what the database holds when the server starts
  MaxCont,     \* bound: participants named in one request
  MaxInserts   \* bound: no handler that inserts begins after so many INSERTs

Key == Nat \ {0}

\* user_name of a session, empty before a login.
Senders == Users \cup {Nobody}

\* What is in the rows: keys and counts, ids and texts.
Value == Nat \cup Users \cup Texts \cup {Nobody, Default}

StoreConstants ==
  /\ Nobody \notin Users
  /\ \A u \in Users : u \notin Nat
  /\ DOMAIN Old = Tables
  /\ \A t \in Tables : Old[t] \in Seq([Columns(t) -> Value])
  /\ \A i \in DOMAIN Old.checkList, k \in 1 .. 3 : Argv("checkList", Old.checkList[i])[k] \in Nat
  /\ \A i \in DOMAIN Old.part : Old.part[i].user \in Users => Old.part[i].tableKey \in Key
  /\ MaxCont \in Nat /\ MaxInserts \in Nat

ASSUME StoreAssumption == StoreConstants

VARIABLES
  db,      \* the tables
  log,     \* the INSERTs executed on the connection since it was opened
  check,   \* checkManager, of the session each user is logged in with
  work,    \* what each worker is doing
  answer   \* history: the answer a handler was finished with last, until another begins
           \* that takes several steps

vars == <<db, log, check, work, answer>>

(***************************************************************************)
(* key, part: create_table after its first INSERT and after the call of    *)
(* last_insert_rowid, with `list' still to be inserted; own and mark are   *)
(* the rowid and the place in log of the first INSERT, 0 if it failed.     *)
(* table, mark: get_new_message before the SELECT from ms for the first of *)
(* `list', and before the call of last_insert_rowid that follows it.       *)
(***************************************************************************)
Task ==
  [pc : {"idle"}]
  \cup [pc : {"key", "part"}, host : Senders, list : Seq(Users), all : Seq(Users),
        own : Nat, mark : Nat, key : Nat, raced : BOOLEAN]
  \cup [pc : {"table", "mark"}, u : Users, list : Seq(Key), all : Seq(Key),
        since : Nat, out : SUBSET Nat, upto : Nat]

Free == [pc |-> "idle"]

NoAnswer == [kind |-> "none"]

\* The answers to RequestCreateTable, GetMsg, GetIvt, GetConnection and GetFriendList:
\* out has the rowids of what is sent.
Answer ==
  {NoAnswer}
  \cup [kind : {"key"}, host : Senders, cont : Seq(Users), key : Nat, own : Nat, raced : BOOLEAN]
  \cup [kind : {"ms"}, u : Users, tables : Seq(Key), out : SUBSET Nat, upto : Nat]
  \cup [kind : {"invite", "connectionRequest", "userPair"}, u : Users, out : SUBSET Nat]

TypeOK ==
  /\ DOMAIN db = Tables
  /\ \A t \in Tables : db[t] \in Seq([Columns(t) -> Value])
  /\ log \in Seq([table : Tables, rowid : Key])
  /\ check \in [Users -> [0 .. 9 -> Nat]]
  /\ work \in [Workers -> Task]
  /\ answer \in Answer

CheckColumn(u, i) ==
  LET found == SelectQuery(db.checkList, <<Where("checkList", 0, Equal, u)>>)
  IN  IF found = {} THEN 0 ELSE Argv("checkList", db.checkList[CHOOSE r \in found : TRUE])[i]

\* Faulty variant: the columns and no more.
GetCheckListBare(u) == [i \in 1 .. 3 |-> CheckColumn(u, i)]

\* get_check_list: column i is put at index i, one further than checkListIndex has it.
GetCheckList(u) == [i \in 0 .. 9 |-> IF i \in 1 .. 3 THEN CheckColumn(u, i) ELSE 0]

Init ==
  /\ db = Old
  /\ log = <<>>
  /\ check = [u \in Users |-> GetCheckList(u)]
  /\ work = [w \in Workers |-> Free]
  /\ answer = NoAnswer

-----------------------------------------------------------------------------
Set(w, task) == work' = [work EXCEPT ![w] = task]

Idle(w) == work[w].pc = "idle"

LastInsertRowid == IF log = <<>> THEN 0 ELSE log[Len(log)].rowid

\* sqlite3_exec of an INSERT.
Insert(query) ==
  /\ Accepted(query)
  /\ db' = [db EXCEPT ![query.table] = Append(@, RowOf(query))]
  /\ log' = Append(log, [table |-> query.table, rowid |-> Len(db[query.table]) + 1])

\* A statement that SQLite refuses, for a quote in a text say, is logged at most.
Fails == UNCHANGED <<db, log>>

CanInsert(w) == Idle(w) /\ Len(log) < MaxInserts

\* insert_message, for a table of the client's choice; sender and uncheck are numbers
\* that nobody reads.
InsertMessage(w, key, text) ==
  /\ CanInsert(w)
  /\ Insert(InsertPairs("ms", << <<0, key>>, <<1, 0>>, <<2, text>>, <<4, 0>> >>))
  /\ UNCHANGED <<check, work, answer>>

\* insert_invite. response_act_invite passes the empty string for the target.
InsertInvite(w, sender, key) ==
  /\ CanInsert(w)
  /\ Insert(InsertPairs("invite", << <<0, Nobody>>, <<1, key>>, <<2, sender>> >>))
  /\ UNCHANGED <<check, work, answer>>

InsertConnection(w, sender, receiver) ==
  /\ CanInsert(w)
  /\ Insert(InsertPairs("connectionRequest", << <<0, sender>>, <<1, receiver>> >>))
  /\ UNCHANGED <<check, work, answer>>

(***************************************************************************)
(* create_table: a row for the table, the row's key asked for, and a row   *)
(* for each participant.                                                   *)
(***************************************************************************)
CreateTable(w, host, cont) ==
  LET begun(own, mark) ==
        [pc |-> "key", host |-> host, list |-> cont, all |-> cont,
         own |-> own, mark |-> mark, key |-> 0, raced |-> FALSE]
  IN
  /\ CanInsert(w)
  /\ \/ /\ Insert(InsertQuery("chatTable", host, Len(cont)))
        /\ Set(w, begun(Len(db.chatTable) + 1, Len(log) + 1))
     \/ /\ Fails
        /\ Set(w, begun(0, 0))
  /\ answer' = NoAnswer
  /\ UNCHANGED check

CreateKey(w) ==
  /\ work[w].pc = "key"
  /\ Set(w, [work[w] EXCEPT !.pc = "part", !.key = LastInsertRowid,
                            !.raced = (Len(log) # work[w].mark)])
  /\ UNCHANGED <<db, log, check, answer>>

\* insert_query with the user and the key, and the participant's index added to it.
InsertPart(t) ==
  AddCondition(InsertQuery("part", Head(t.list), t.key), Len(t.all) - Len(t.list))

CreatePart(w) ==
  /\ work[w].pc = "part"
  /\ work[w].list # <<>>
  /\ Insert(InsertPart(work[w])) \/ Fails
  /\ Set(w, [work[w] EXCEPT !.list = Tail(@)])
  /\ UNCHANGED <<check, answer>>

\* Faulty variant: the key is asked for at the end.
CreateEndLate(w) ==
  /\ work[w].pc = "part"
  /\ work[w].list = <<>>
  /\ answer' = [kind |-> "key", host |-> work[w].host, cont |-> work[w].all,
                key |-> LastInsertRowid, own |-> work[w].own, raced |-> work[w].raced]
  /\ Set(w, Free)
  /\ UNCHANGED <<db, log, check>>

CreateEnd(w) ==
  /\ work[w].pc = "part"
  /\ work[w].list = <<>>
  /\ answer' = [kind |-> "key", host |-> work[w].host, cont |-> work[w].all,
                key |-> work[w].key, own |-> work[w].own, raced |-> work[w].raced]
  /\ Set(w, Free)
  /\ UNCHANGED <<db, log, check>>

\* get_dining_members: the users a message into the table is announced to.
DiningMembers(key) ==
  {db.part[i].user : i \in SelectQuery(db.part, <<Where("part", 0, Equal, key)>>)}

-----------------------------------------------------------------------------
(***************************************************************************)
(* rget_new_message and get_new_message. lastCheck goes by reference into  *)
(* get_new_message_in_table, which leaves last_insert_rowid in it: what is *)
(* SELECTed of the second and further tables are the messages beyond that. *)
(***************************************************************************)
\* get_table, in the order of the rows.
GetTable(u) ==
  LET mine     == SelectQuery(db.part, <<Where("part", 1, Equal, u)>>)
      place(r) == Cardinality({q \in mine : q <= r})
  IN  [i \in 1 .. Cardinality(mine) |-> db.part[CHOOSE r \in mine : place(r) = i].tableKey]

GetMsg(w, u) ==
  /\ Idle(w)
  /\ Set(w, [pc |-> "table", u |-> u, list |-> GetTable(u), all |-> GetTable(u),
             since |-> check[u][0], out |-> {}, upto |-> Len(db.ms)])
  /\ answer' = NoAnswer
  /\ UNCHANGED <<db, log, check>>

MessagesIn(key, lastCheck) ==
  SelectQuery(db.ms, << Where("ms", 0, Equal, key), Where("ms", RowId, Higher, lastCheck) >>)

\* What the callback makes of a row: msOut and the text that follows it, which is
\* taken from column 0.
MsOut(row) ==
  LET argv == Argv("ms", row) IN [tableKey |-> argv[0], text |-> argv[0]]

\* Faulty variant: last_insert_rowid is asked for before the SELECT.
GetMsgTableMarked(w) ==
  /\ work[w].pc = "table"
  /\ work[w].list # <<>>
  /\ LET new == MessagesIn(Head(work[w].list), LastInsertRowid)
     IN  Set(w, [work[w] EXCEPT !.pc = "mark", !.out = @ \cup new])
  /\ UNCHANGED <<db, log, check, answer>>

GetMsgTable(w) ==
  /\ work[w].pc = "table"
  /\ work[w].list # <<>>
  /\ LET new == MessagesIn(Head(work[w].list), work[w].since)
     IN  Set(w, [work[w] EXCEPT !.pc = "mark", !.out = @ \cup new])
  /\ UNCHANGED <<db, log, check, answer>>

GetMsgMark(w) ==
  /\ work[w].pc = "mark"
  /\ Set(w, [work[w] EXCEPT !.pc = "table", !.list = Tail(@), !.since = LastInsertRowid])
  /\ UNCHANGED <<db, log, check, answer>>

\* What rget_new_message writes back is what it read from checkManager.
GetMsgEnd(w) ==
  LET t == work[w] IN
  /\ t.pc = "table"
  /\ t.list = <<>>
  /\ answer' = [kind |-> "ms", u |-> t.u, tables |-> t.all, out |-> t.out, upto |-> t.upto]
  /\ Set(w, Free)
  /\ UNCHANGED <<db, log, check>>

\* get_new_ivt_req, which does not look at lastCheck, and get_new_connection_req,
\* which compares it with `>='.
InvitesOf(u) == SelectQuery(db.invite, <<Where("invite", 0, Equal, u)>>)

RequestsOf(u, lastCheck) ==
  SelectQuery(db.connectionRequest,
              << Where("connectionRequest", 1, Equal, u),
                 Where("connectionRequest", RowId, EqualAndHigher, lastCheck) >>)

\* get_friend_list: the pairs the user is in, on either side.
FriendList(u) ==
  SelectQuery(db.userPair, <<Where("userPair", 0, Equal, u)>>)
  \cup SelectQuery(db.userPair, <<Where("userPair", 1, Equal, u)>>)

Found(kind, u) ==
  CASE kind = "invite" -> InvitesOf(u)
    [] kind = "connectionRequest" -> RequestsOf(u, check[u][2])
    [] kind = "userPair" -> FriendList(u)

\* Faulty variant: lastCheck is written back.
GetRenew(w, kind, u) ==
  /\ Idle(w)
  /\ answer' = [kind |-> kind, u |-> u, out |-> Found(kind, u)]
  /\ check' = [check EXCEPT ![u][2] = LastInsertRowid]
  /\ UNCHANGED <<db, log, work>>

\* GetIvt, GetConnection, GetFriendList: lastCheck_ is set to last_insert_rowid, and
\* then dropped.
Get(w, kind, u) ==
  /\ Idle(w)
  /\ answer' = [kind |-> kind, u |-> u, out |-> Found(kind, u)]
  /\ UNCHANGED <<db, log, check, work>>

-----------------------------------------------------------------------------
Conts == UNION {[1 .. n -> Users] : n \in 0 .. MaxCont}

Request(w) ==
  \/ \E key \in DOMAIN db.chatTable, text \in Texts : InsertMessage(w, key, text)
  \/ \E s \in Senders : InsertInvite(w, s, Len(db.chatTable))
  \/ \E s \in Senders, r \in Users : InsertConnection(w, s, r)
  \/ \E h \in Senders, cont \in Conts : CreateTable(w, h, cont)
  \/ \E u \in Users :
       \/ GetMsg(w, u)
       \/ \E kind \in {"invite", "connectionRequest", "userPair"} : Get(w, kind, u)

Advance(w) ==
  \/ CreateKey(w) \/ CreatePart(w) \/ CreateEnd(w)
  \/ GetMsgTable(w) \/ GetMsgMark(w) \/ GetMsgEnd(w)

Next == \E w \in Workers : Request(w) \/ Advance(w)

Spec == Init /\ [][Next]_vars

-----------------------------------------------------------------------------
(***************************************************************************)
(* Properties.                                                             *)
(***************************************************************************)

\* create_table answers the key of the table it has made, unless its INSERT failed
\* or another handler's INSERT, into whatever table, came before it asked.
KeyIsOwn ==
  answer.kind = "key" =>
    \/ answer.own = 0 \/ answer.raced
    \/ answer.key = answer.own /\ db.chatTable[answer.key].host = answer.host

\* An answer to GetMsg has every message beyond lastCheck that was in the first of
\* the user's tables when the client asked, whatever was inserted meanwhile, and no
\* message of a table the user is not in. Of the other tables it may have any.
FirstTableWhole ==
  answer.kind = "ms" =>
    /\ \A i \in answer.out :
         \E j \in 1 .. Len(answer.tables) : db.ms[i].tableKey = answer.tables[j]
    /\ answer.tables # <<>> =>
         \A i \in 1 .. answer.upto :
           db.ms[i].tableKey = answer.tables[1] /\ i > check[answer.u][0] => i \in answer.out

\* What a client was answered, it would be answered again: a connection request or
\* an invite is not lost with an answer that does not arrive, and never seen off.
AnsweredAgain ==
  answer.kind \in {"invite", "connectionRequest", "userPair"} =>
    answer.out \subseteq Found(answer.kind, answer.u)

\* Who was named as a participant of a table, and has got a row for it, is found in
\* it by get_dining_members: is told of its messages.
Stored(u, key) ==
  \E i \in DOMAIN db.part : {db.part[i].tableKey, db.part[i].user} = {u, key}

ParticipantsDine ==
  answer.kind = "key" =>
    \A i \in 1 .. Len(answer.cont) :
      Stored(answer.cont[i], answer.key) => answer.cont[i] \in DiningMembers(answer.key)

\* The text that follows a message's msOut in an answer to GetMsg is the text that
\* the message was stored with.
TextArrives ==
  answer.kind = "ms" => \A i \in answer.out : MsOut(db.ms[i]).text = db.ms[i].message
==============================================================================
