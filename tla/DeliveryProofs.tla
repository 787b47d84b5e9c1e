--------------------------- MODULE DeliveryProofs ----------------------------
(***************************************************************************)
(* The theorem about Delivery, for any sessions, users, workers, texts and *)
(* database. What was proved of Store and of Mailbox is taken from there.  *)
(***************************************************************************)
EXTENDS Delivery, TLAPS

SP == INSTANCE StoreProofs WITH work <- query

MP == INSTANCE MailboxProofs WITH
  work    <- mail,
  Tables  <- DOMAIN Old.chatTable,
  Members <- [key \in DOMAIN Old.chatTable |->
                {Old.part[i].user : i \in {j \in DOMAIN Old.part : Old.part[j].tableKey = key}}]

-----------------------------------------------------------------------------
(***************************************************************************)
(* Their assumptions hold here, and their steps are the ones taken here.   *)
(***************************************************************************)
LEMMA StoreIs == SP!StoreConstants
BY DeliveryAssumption
   DEF SP!StoreConstants, SP!Tables, SP!Dsc, SP!Columns, SP!Schema, SP!Value, SP!Key, SP!Argv,
       S!StoreConstants, S!Tables, S!Dsc, S!Columns, S!Schema, S!Value, S!Key, S!Argv

LEMMA MailIs ==
  /\ [key \in DOMAIN Old.chatTable |->
        {Old.part[i].user : i \in {j \in DOMAIN Old.part : Old.part[j].tableKey = key}}]
       \in [DOMAIN Old.chatTable -> SUBSET Users]
  /\ StaleInit \subseteq BOOLEAN
  /\ MaxLogins \in Nat
  /\ MaxRows \in Nat
  /\ None \notin Sessions
  /\ None \notin [s : Sessions, u : Users, n : Nat \ {0}]
BY DeliveryAssumption

LEMMA TablesAreKeys == \A key \in DOMAIN Old.chatTable : key \in Nat \ {0}
<1>1. Old["chatTable"] \in Seq([SP!Columns("chatTable") -> SP!Value])
  BY StoreIs DEF SP!StoreConstants, SP!Tables, SP!Dsc
<1> QED
  BY <1>1

LEMMA InsertIs ==
  /\ \A q : S!Insert(q) <=> SP!Insert(q)
  /\ \A t, pairs : S!InsertPairs(t, pairs) = SP!InsertPairs(t, pairs)
  /\ \A t, a, b : S!InsertQuery(t, a, b) = SP!InsertQuery(t, a, b)
  /\ \A w : S!CanInsert(w) <=> SP!CanInsert(w)
  /\ S!Fails <=> SP!Fails
<1>1. ASSUME NEW q PROVE S!Insert(q) <=> SP!Insert(q)
  BY DEF S!Insert, S!Accepted, S!RowOf, S!Columns, S!Dsc, S!Schema,
         SP!Insert, SP!Accepted, SP!RowOf, SP!Columns, SP!Dsc, SP!Schema
<1>2. ASSUME NEW t, NEW pairs PROVE S!InsertPairs(t, pairs) = SP!InsertPairs(t, pairs)
  BY DEF S!InsertPairs, S!ColumnName, S!RowId, S!Dsc, SP!InsertPairs, SP!ColumnName, SP!RowId, SP!Dsc
<1>3. ASSUME NEW t, NEW a, NEW b PROVE S!InsertQuery(t, a, b) = SP!InsertQuery(t, a, b)
  BY DEF S!InsertQuery, S!Schema, S!Dsc, SP!InsertQuery, SP!Schema, SP!Dsc
<1>4. ASSUME NEW w PROVE S!CanInsert(w) <=> SP!CanInsert(w)
  BY DEF S!CanInsert, S!Idle, SP!CanInsert, SP!Idle
<1>5. S!Fails <=> SP!Fails
  BY DEF S!Fails, SP!Fails
<1> QED
  BY <1>1, <1>2, <1>3, <1>4, <1>5

LEMMA InsertsAre ==
  ASSUME NEW w \in Workers
  PROVE  /\ \A key, text : S!InsertMessage(w, key, text) => SP!InsertMessage(w, key, text)
         /\ \A s, key : S!InsertInvite(w, s, key) => SP!InsertInvite(w, s, key)
         /\ \A s, r : S!InsertConnection(w, s, r) => SP!InsertConnection(w, s, r)
BY InsertIs DEF S!InsertMessage, S!InsertInvite, S!InsertConnection,
                SP!InsertMessage, SP!InsertInvite, SP!InsertConnection

LEMMA CreateStepsAre ==
  ASSUME NEW w \in Workers
  PROVE  /\ \A host, cont : S!CreateTable(w, host, cont) => SP!CreateTable(w, host, cont)
         /\ S!CreateKey(w) => SP!CreateKey(w)
         /\ S!CreatePart(w) => SP!CreatePart(w)
         /\ S!CreateEnd(w) => SP!CreateEnd(w)
<1>1. ASSUME NEW host, NEW cont, S!CreateTable(w, host, cont) PROVE SP!CreateTable(w, host, cont)
  BY <1>1, InsertIs DEF S!CreateTable, S!Set, S!NoAnswer, SP!CreateTable, SP!Set, SP!NoAnswer
<1>2. S!CreateKey(w) => SP!CreateKey(w)
  BY DEF S!CreateKey, S!LastInsertRowid, S!Set, SP!CreateKey, SP!LastInsertRowid, SP!Set
<1>3. \A t : S!InsertPart(t) = SP!InsertPart(t)
  BY InsertIs DEF S!InsertPart, S!AddCondition, SP!InsertPart, SP!AddCondition
<1>4. S!CreatePart(w) => SP!CreatePart(w)
  BY <1>3, InsertIs DEF S!CreatePart, S!Set, SP!CreatePart, SP!Set
<1>5. S!CreateEnd(w) => SP!CreateEnd(w)
  BY DEF S!CreateEnd, S!Set, S!Free, SP!CreateEnd, SP!Set, SP!Free
<1> QED
  BY <1>1, <1>2, <1>4, <1>5

LEMMA GetStepsAre ==
  ASSUME NEW w \in Workers
  PROVE  /\ \A u : S!GetMsg(w, u) => SP!GetMsg(w, u)
         /\ S!GetMsgTable(w) => SP!GetMsgTable(w)
         /\ S!GetMsgMark(w) => SP!GetMsgMark(w)
         /\ S!GetMsgEnd(w) => SP!GetMsgEnd(w)
<1>1. ASSUME NEW table, NEW conditions
      PROVE  S!SelectQuery(table, conditions) = SP!SelectQuery(table, conditions)
  BY DEF S!SelectQuery, S!Holds, SP!SelectQuery, SP!Holds
<1>2. ASSUME NEW t, NEW i, NEW e, NEW value PROVE S!Where(t, i, e, value) = SP!Where(t, i, e, value)
  BY DEF S!Where, S!ColumnName, S!eqivDscCont, S!RowId, S!Dsc,
         SP!Where, SP!ColumnName, SP!eqivDscCont, SP!RowId, SP!Dsc
<1>3. ASSUME NEW u PROVE S!GetTable(u) = SP!GetTable(u)
  <2> DEFINE ours   == S!SelectQuery(db.part, <<S!Where("part", 1, S!Equal, u)>>)
             theirs == SP!SelectQuery(db.part, <<SP!Where("part", 1, SP!Equal, u)>>)
             Keys(mine) ==
               [i \in 1 .. SP!Cardinality(mine) |->
                  db.part[CHOOSE r \in mine : SP!Cardinality({q \in mine : q <= r}) = i].tableKey]
  <2>1. ours = theirs
    BY <1>1, <1>2 DEF S!Equal, SP!Equal
  <2>2. S!GetTable(u) = Keys(ours)
    BY Zenon DEF S!GetTable, S!Cardinality, SP!Cardinality
  <2>3. SP!GetTable(u) = Keys(theirs)
    BY DEF SP!GetTable
  <2> HIDE DEF Keys, ours, theirs
  <2> QED
    BY <2>1, <2>2, <2>3
<1>4. ASSUME NEW key, NEW last PROVE S!MessagesIn(key, last) = SP!MessagesIn(key, last)
  BY <1>1, <1>2 DEF S!MessagesIn, S!Equal, S!Higher, S!RowId,
                    SP!MessagesIn, SP!Equal, SP!Higher, SP!RowId
<1>5. ASSUME NEW u, S!GetMsg(w, u) PROVE SP!GetMsg(w, u)
  BY <1>3, <1>5 DEF S!GetMsg, S!Idle, S!Set, S!NoAnswer, SP!GetMsg, SP!Idle, SP!Set, SP!NoAnswer
<1>6. S!GetMsgTable(w) => SP!GetMsgTable(w)
  BY <1>4 DEF S!GetMsgTable, S!Set, SP!GetMsgTable, SP!Set
<1>7. S!GetMsgMark(w) => SP!GetMsgMark(w)
  BY DEF S!GetMsgMark, S!Set, S!LastInsertRowid, SP!GetMsgMark, SP!Set, SP!LastInsertRowid
<1>8. S!GetMsgEnd(w) => SP!GetMsgEnd(w)
  BY DEF S!GetMsgEnd, S!Set, S!Free, SP!GetMsgEnd, SP!Set, SP!Free
<1> QED
  BY <1>5, <1>6, <1>7, <1>8

LEMMA StoreInit == S!Init => SP!Init
BY ZenonT(30) DEF S!Init, S!Free, S!NoAnswer, S!GetCheckList, S!CheckColumn, S!SelectQuery, S!Holds, S!Where,
       S!eqivDscCont, S!Equal, S!ColumnName, S!RowId, S!Dsc, S!Schema, S!Argv,
       SP!Init, SP!Free, SP!NoAnswer, SP!GetCheckList, SP!CheckColumn, SP!SelectQuery, SP!Holds,
       SP!Where, SP!eqivDscCont, SP!Equal, SP!ColumnName, SP!RowId, SP!Dsc, SP!Schema, SP!Argv

LEMMA MailInit == M!Init => MP!Init
BY DEF M!Init, M!Free, M!messageArr, MP!Init, MP!Free, MP!messageArr

LEMMA MailStepIs == M!Next => MP!Next
BY ZenonT(30) DEF M!Next, M!Request, M!PollStart, M!PollWild, M!Advance, M!CutOffAnswer, M!NotifyWild,
       M!LoginAlloc, M!ActSendMsg, M!ActConnect, M!ActInvite, M!ActCreateTable, M!CutOff,
       M!Disconnect, M!Set, M!Free, M!LoginFind, M!LoginLink, M!LoginReady, M!NotifyUser,
       M!NotifyEnd, M!PollTest, M!PollLoad, M!PollStore, M!PollClear, M!MapRace, M!CanServe,
       M!StoreAndNotify, M!TargetAsRead, M!messageArr, M!InMap, M!FlagOf, M!NextBox, M!Serving,
       M!BoxOf, M!connectionReq, M!ServePCs, M!tableIvt,
       MP!Next, MP!Request, MP!PollStart, MP!PollWild, MP!Advance, MP!CutOffAnswer, MP!NotifyWild,
       MP!LoginAlloc, MP!ActSendMsg, MP!ActConnect, MP!ActInvite, MP!ActCreateTable, MP!CutOff,
       MP!Disconnect, MP!Set, MP!Free, MP!LoginFind, MP!LoginLink, MP!LoginReady, MP!NotifyUser,
       MP!NotifyEnd, MP!PollTest, MP!PollLoad, MP!PollStore, MP!PollClear, MP!MapRace, MP!CanServe,
       MP!StoreAndNotify, MP!TargetAsRead, MP!messageArr, MP!InMap, MP!FlagOf, MP!NextBox, MP!Serving,
       MP!BoxOf, MP!connectionReq, MP!ServePCs, MP!tableIvt

-----------------------------------------------------------------------------
(***************************************************************************)
(* The invariant. What a notice that was queued is about, by the time it   *)
(* is asked upon, is among the messages the answer is made of.             *)
(***************************************************************************)
Entry == [key : Nat, row : Nat]

EntryOK(e) ==
  /\ e.row <= Len(db.ms)
  /\ e.key # 0 => e.row # 0 /\ db.ms[e.row].tableKey = e.key

StoredOK ==
  /\ stored \in Seq(Entry) /\ Len(stored) = Len(rows)
  /\ \A i \in 1 .. Len(stored) : EntryOK(stored[i])

\* The notices are about INSERTs that are done, and about no message after the last of `upto'.
Reached(notices, upto) ==
  \A m \in notices : m.upto \in 0 .. Len(stored) /\ \A i \in 1 .. m.upto : stored[i].row <= upto

\* What a handler of several queries holds between two of them.
HandlerOK(w) ==
  /\ query[w].pc # "idle" => at[w] \in Sessions
  /\ query[w].pc \in SP!Msgs => Reached(asked[w], query[w].upto)

Parts == SP!IInv /\ MP!TypeOK /\ MP!UptoOK

Inv ==
  /\ Parts
  /\ \A u \in Users : check[u][0] = 0
  /\ at \in [Workers -> Sessions \cup {None}]
  /\ asked \in [Workers -> SUBSET MP!Notice]
  /\ StoredOK
  /\ \A w \in Workers : HandlerOK(w)
  /\ answer.kind = "ms" => Reached(upon, answer.upto)

LEMMA StoreTyped ==
  ASSUME SP!IInv
  PROVE  SP!TypeOK /\ Len(db.ms) \in Nat
         /\ Len(db.chatTable) \in Nat
<1>1. SP!TypeOK
  BY DEF SP!IInv
<1>2. "ms" \in SP!Tables /\ "chatTable" \in SP!Tables
  BY DEF SP!Tables, SP!Dsc
<1> QED
  BY <1>1, <1>2 DEF SP!TypeOK

LEMMA RowsCount == ASSUME MP!TypeOK PROVE Len(rows) \in Nat
BY DEF MP!TypeOK

LEMMA GrowsToo ==
  ASSUME SP!Grows
  PROVE  /\ Len(db.ms) <= Len(db'.ms) /\ \A i \in 1 .. Len(db.ms) : db'.ms[i] = db.ms[i]
         /\ check' = check
<1>1. "ms" \in SP!Tables
  BY DEF SP!Tables, SP!Dsc
<1> QED
  BY <1>1 DEF SP!Grows

\* Every Mailbox step taken here is one that Mailbox's proofs are about.
LEMMA MailNext ==
  ASSUME Parts, M!Next \/ UNCHANGED mailbox
  PROVE  MP!TypeOK' /\ MP!UptoOK'
<1>1. [MP!Next]_(MP!vars)
  BY MailStepIs DEF mailbox, MP!vars
<1> QED
  BY <1>1, MailIs, MP!TypeNext, MP!UptoNext DEF Parts

LEMMA EntryStays ==
  ASSUME Parts, SP!IInv', SP!Grows, NEW e \in Entry, EntryOK(e)
  PROVE  EntryOK(e)'
<1>1. Len(db.ms) \in Nat /\ Len(db'.ms) \in Nat /\ Len(db.ms) <= Len(db'.ms)
  BY StoreTyped, GrowsToo DEF Parts
<1>2. e.row \in Nat /\ e.row <= Len(db'.ms)
  BY <1>1 DEF Entry, EntryOK
<1>3. e.key # 0 => e.row \in 1 .. Len(db.ms)
  BY <1>1, <1>2 DEF EntryOK
<1> QED
  BY <1>2, <1>3, GrowsToo DEF EntryOK

\* No INSERT that Mailbox counts.
LEMMA SameStored ==
  ASSUME Inv, SP!IInv', SP!Grows, rows' = rows, stored' = stored
  PROVE  StoredOK' /\ \A notices, upto : Reached(notices, upto) => Reached(notices, upto)'
<1>1. \A i \in 1 .. Len(stored) : stored[i] \in Entry /\ EntryOK(stored[i])
  BY DEF Inv, StoredOK
<1>2. ASSUME NEW i \in 1 .. Len(stored) PROVE EntryOK(stored[i])'
  <2>1. PICK e \in Entry : e = stored[i]
    BY <1>1
  <2>2. EntryOK(e)'
    BY <1>1, <2>1, EntryStays DEF Inv
  <2> QED
    BY <2>1, <2>2
<1> QED
  BY <1>2 DEF Inv, StoredOK, Reached

\* One more.
LEMMA OneStored ==
  ASSUME Inv, SP!IInv', SP!Grows, Len(rows') = Len(rows) + 1,
         NEW e \in Entry, EntryOK(e)', stored' = Append(stored, e)
  PROVE  StoredOK' /\ \A notices, upto : Reached(notices, upto) => Reached(notices, upto)'
<1>1. stored \in Seq(Entry) /\ Len(stored) = Len(rows) /\ Len(stored) \in Nat
  BY DEF Inv, StoredOK
<1>2. /\ stored' \in Seq(Entry) /\ Len(stored') = Len(stored) + 1
      /\ stored'[Len(stored) + 1] = e
      /\ \A i \in 1 .. Len(stored) : stored'[i] = stored[i]
  BY <1>1
<1>3. ASSUME NEW i \in 1 .. Len(stored') PROVE EntryOK(stored[i])'
  <2>1. CASE i = Len(stored) + 1
    BY <1>2, <2>1
  <2>2. CASE i \in 1 .. Len(stored)
    <3>1. PICK x \in Entry : x = stored[i]
      BY <1>1, <2>2
    <3>2. EntryOK(x)
      BY <2>2, <3>1 DEF Inv, StoredOK
    <3>3. EntryOK(x)'
      BY <3>2, EntryStays DEF Inv
    <3> QED
      BY <1>2, <2>2, <3>1, <3>3
  <2> QED
    BY <1>1, <1>2, <2>1, <2>2
<1>4. StoredOK'
  BY <1>1, <1>2, <1>3 DEF StoredOK
<1>5. ASSUME NEW notices, NEW upto, Reached(notices, upto) PROVE Reached(notices, upto)'
  <2>1. ASSUME NEW m \in notices
        PROVE  m.upto \in 0 .. Len(stored') /\ \A i \in 1 .. m.upto : stored'[i].row <= upto
    <3>1. m.upto \in 0 .. Len(stored) /\ \A i \in 1 .. m.upto : stored[i].row <= upto
      BY <1>5 DEF Reached
    <3>2. \A i \in 1 .. m.upto : i \in 1 .. Len(stored)
      BY <1>1, <3>1
    <3> QED
      BY <1>1, <1>2, <3>1, <3>2
  <2> QED
    BY <2>1 DEF Reached
<1> QED
  BY <1>4, <1>5

LEMMA NotAMessageFits == ASSUME SP!IInv' PROVE NotAMessage \in Entry /\ EntryOK(NotAMessage)'
<1>1. Len(db'.ms) \in Nat
  BY StoreTyped
<1> QED
  BY <1>1 DEF NotAMessage, Entry, EntryOK

\* What is left to show of a step.
LEMMA StepKeeps ==
  ASSUME Inv, SP!IInv', SP!Grows, MP!TypeOK', MP!UptoOK', StoredOK',
         \A notices, upto : Reached(notices, upto) => Reached(notices, upto)',
         at' \in [Workers -> Sessions \cup {None}],
         asked' \in [Workers -> SUBSET MP!Notice],
         \A v \in Workers :
           /\ query'[v].pc # "idle" => at'[v] \in Sessions
           /\ query'[v].pc \in SP!Msgs =>
                \/ /\ query[v].pc \in SP!Msgs
                   /\ query'[v].upto = query[v].upto /\ asked'[v] = asked[v]
                \/ Reached(asked'[v], query'[v].upto),
         answer'.kind = "ms" =>
           \/ answer' = answer /\ upon' = upon
           \/ Reached(upon', answer'.upto)
  PROVE  Inv'
<1>1. ASSUME NEW v \in Workers PROVE HandlerOK(v)'
  <2>1. query'[v].pc # "idle" => at'[v] \in Sessions
    OBVIOUS
  <2>2. CASE query'[v].pc \in SP!Msgs
    <3>1. PICK notices, upto : notices = asked'[v] /\ upto = query'[v].upto
      OBVIOUS
    <3>2. Reached(notices, upto)
      BY <2>2, <3>1 DEF Inv, HandlerOK
    <3>3. Reached(notices, upto)'
      BY <3>2
    <3>4. Reached(asked[v], query[v].upto)'
      BY <3>1, <3>3 DEF Reached
    <3> QED
      BY <2>1, <3>4 DEF HandlerOK
  <2>3. SP!Msgs' = SP!Msgs
    BY DEF SP!Msgs
  <2> QED
    BY <2>1, <2>2, <2>3 DEF HandlerOK
<1>2. ASSUME answer'.kind = "ms" PROVE Reached(upon, answer.upto)'
  <2>1. PICK notices, upto : notices = upon' /\ upto = answer'.upto
    OBVIOUS
  <2>2. Reached(notices, upto)
    BY <1>2, <2>1 DEF Inv
  <2>3. Reached(notices, upto)'
    BY <2>2
  <2> QED
    BY <2>1, <2>3 DEF Reached
<1>3. \A u \in Users : check'[u][0] = 0
  BY GrowsToo DEF Inv
<1> QED
  BY <1>1, <1>2, <1>3 DEF Inv, Parts

-----------------------------------------------------------------------------
(***************************************************************************)
(* The steps.                                                              *)
(***************************************************************************)
LEMMA StoreStill == ASSUME SP!IInv, UNCHANGED store PROVE SP!IInv' /\ SP!Grows
<1>1. UNCHANGED <<db, log, check, query, answer>>
  BY DEF store
<1>2. SP!IInv'
  BY <1>1, StoreIs, SP!InvStep DEF SP!vars
<1>3. SP!Grows
  BY <1>1, StoreIs, SP!StillKeeps
<1> QED
  BY <1>2, <1>3

LEMMA RowsAppend ==
  ASSUME MP!TypeOK, NEW row, rows' = Append(rows, row)
  PROVE  Len(rows') = Len(rows) + 1
<1>1. rows \in Seq(MP!Row \cup {row})
  BY DEF MP!TypeOK
<1> QED
  BY <1>1

LEMMA NameIs == ASSUME Inv, NEW s \in Sessions PROVE UserName(s) \in SP!Senders
<1>1. nf[s] \in MP!Array \cup {None}
  BY DEF Inv, Parts, MP!TypeOK
<1> QED
  BY <1>1 DEF UserName, MP!Array, SP!Senders

\* What the handlers of one INSERT have in common.
LEMMA InsertKeeps ==
  ASSUME Inv, SP!IInv', SP!Grows, M!Next, Len(rows') = Len(rows) + 1,
         NEW e \in Entry, EntryOK(e)', stored' = Append(stored, e),
         UNCHANGED <<query, answer, at, asked, upon>>
  PROVE  Inv'
<1>1. MP!TypeOK' /\ MP!UptoOK'
  BY MailNext DEF Inv
<1>2. StoredOK' /\ \A notices, upto : Reached(notices, upto) => Reached(notices, upto)'
  BY OneStored
<1>3. \A v \in Workers : query[v].pc # "idle" => at[v] \in Sessions
  BY DEF Inv, HandlerOK
<1>4. /\ at' \in [Workers -> Sessions \cup {None}] /\ asked' \in [Workers -> SUBSET MP!Notice]
  BY DEF Inv
<1> QED
  BY <1>1, <1>2, <1>3, <1>4, StepKeeps

LEMMA SendMsgInv ==
  ASSUME Inv, NEW w \in Workers, NEW s \in Sessions, NEW key \in DOMAIN Old.chatTable,
         NEW text \in Texts, SendMsg(w, s, key, text)
  PROVE  Inv'
<1>1. M!Next
  BY DEF SendMsg, M!Next, M!Request
<1>2. Len(rows') = Len(rows) + 1
  BY RowsAppend DEF SendMsg, M!ActSendMsg, M!StoreAndNotify, Inv, Parts
<1>3. CASE /\ S!InsertMessage(w, key, text)
           /\ stored' = Append(stored, [key |-> key, row |-> Len(db'.ms)])
  <2>1. SP!InsertMessage(w, key, text) /\ key \in Nat /\ SP!IInv
    BY <1>3, InsertsAre, TablesAreKeys DEF Inv, Parts
  <2>2. SP!IInv' /\ SP!Grows
    BY <2>1, StoreIs, SP!MessageInv
  <2>3. Len(db'.ms) \in Nat \ {0} /\ db'.ms[Len(db'.ms)].tableKey = key
    BY <2>1, StoreIs, SP!MessageStored
  <2>4. PICK e : e = [key |-> key, row |-> Len(db'.ms)]
    OBVIOUS
  <2>5. e \in Entry /\ EntryOK(e)'
    BY <2>1, <2>3, <2>4 DEF Entry, EntryOK
  <2>6. UNCHANGED <<query, answer, at, asked, upon>>
    BY <2>1 DEF SendMsg, SP!InsertMessage
  <2> QED
    BY <1>1, <1>2, <1>3, <2>2, <2>4, <2>5, <2>6, InsertKeeps
<1>4. CASE UNCHANGED store /\ stored' = Append(stored, NotAMessage)
  <2>1. SP!IInv' /\ SP!Grows
    BY <1>4, StoreStill DEF Inv, Parts
  <2>2. UNCHANGED <<query, answer, at, asked, upon>>
    BY <1>4 DEF SendMsg, store
  <2> QED
    BY <1>1, <1>2, <1>4, <2>1, <2>2, NotAMessageFits, InsertKeeps
<1> QED
  BY <1>3, <1>4 DEF SendMsg

LEMMA ConnectInv ==
  ASSUME Inv, NEW w \in Workers, NEW s \in Sessions, NEW u \in Users, Connect(w, s, u)
  PROVE  Inv'
<1>1. M!Next
  BY DEF Connect, M!Next, M!Request
<1>2. Len(rows') = Len(rows) + 1
  BY RowsAppend DEF Connect, M!ActConnect, M!StoreAndNotify, Inv, Parts
<1>3. SP!InsertConnection(w, UserName(s), u) /\ UserName(s) \in SP!Senders /\ SP!IInv
  BY InsertsAre, NameIs DEF Connect, Inv, Parts
<1>4. SP!IInv' /\ SP!Grows
  BY <1>3, StoreIs, SP!ConnectionInv
<1>5. UNCHANGED <<query, answer, at, asked, upon>> /\ stored' = Append(stored, NotAMessage)
  BY <1>3 DEF Connect, SP!InsertConnection
<1> QED
  BY <1>1, <1>2, <1>4, <1>5, NotAMessageFits, InsertKeeps

LEMMA InviteInv ==
  ASSUME Inv, NEW w \in Workers, NEW s \in Sessions, NEW u \in Users, Invite(w, s, u, 1)
  PROVE  Inv'
<1>1. M!Next
  BY DEF Invite, M!Next, M!Request
<1>2. Len(rows') = Len(rows) + 1
  BY RowsAppend DEF Invite, M!ActInvite, M!StoreAndNotify, Inv, Parts
<1>3. SP!InsertInvite(w, UserName(s), 1) /\ UserName(s) \in SP!Senders /\ SP!IInv
  BY InsertsAre, NameIs DEF Invite, Inv, Parts
<1>4. SP!IInv' /\ SP!Grows
  BY <1>3, StoreIs, SP!InviteInv
<1>5. UNCHANGED <<query, answer, at, asked, upon>> /\ stored' = Append(stored, NotAMessage)
  BY <1>3 DEF Invite, SP!InsertInvite
<1> QED
  BY <1>1, <1>2, <1>4, <1>5, NotAMessageFits, InsertKeeps

\* What the steps of create_table and get_new_message have in common.
LEMMA HandlerKeeps ==
  ASSUME Inv, SP!IInv', SP!Grows, MP!TypeOK', MP!UptoOK', StoredOK',
         \A notices, upto : Reached(notices, upto) => Reached(notices, upto)',
         at' \in [Workers -> Sessions \cup {None}], asked' = asked,
         \A v \in Workers : query'[v].pc # "idle" => at'[v] \in Sessions,
         \A v \in Workers : query'[v].pc \in SP!Msgs =>
                              query[v].pc \in SP!Msgs /\ query'[v].upto = query[v].upto,
         answer'.kind = "ms" =>
           (answer' = answer /\ upon' = upon) \/ Reached(upon', answer'.upto)
  PROVE  Inv'
<1>1. asked' \in [Workers -> SUBSET MP!Notice]
  BY DEF Inv
<1> QED
  BY <1>1, StepKeeps

\* A handler's query is one of the worker it runs on.
LEMMA OneQuery ==
  ASSUME SP!TypeOK, NEW w \in Workers, NEW t, SP!Set(w, t)
  PROVE  \A v \in Workers : query'[v] = IF v = w THEN t ELSE query[v]
BY DEF SP!TypeOK, SP!Set

LEMMA MailStill ==
  ASSUME Inv, UNCHANGED mailbox
  PROVE  MP!TypeOK' /\ MP!UptoOK' /\ rows' = rows
BY MailNext DEF Inv, mailbox

LEMMA QueryInv == ASSUME Inv, NEW w \in Workers, Query(w) PROVE Inv'
<1>1. /\ SP!CreateKey(w) \/ SP!CreatePart(w) \/ SP!GetMsgTable(w) \/ SP!GetMsgMark(w)
      /\ SP!IInv /\ SP!TypeOK
  BY CreateStepsAre, GetStepsAre DEF Query, Inv, Parts, SP!IInv
<1>2. SP!IInv' /\ SP!Grows
  BY <1>1, StoreIs, SP!CreateKeyInv, SP!CreatePartInv, SP!GetMsgTableInv, SP!GetMsgMarkInv
<1>3. UNCHANGED <<mailbox, at, stored, asked, upon>> /\ answer' = answer
  BY <1>1 DEF Query, history, SP!CreateKey, SP!CreatePart, SP!GetMsgTable, SP!GetMsgMark
<1>4. MP!TypeOK' /\ MP!UptoOK' /\ rows' = rows
  BY <1>3, MailStill
<1>5. StoredOK' /\ \A notices, upto : Reached(notices, upto) => Reached(notices, upto)'
  BY <1>2, <1>3, <1>4, SameStored
<1>6. \A v \in Workers : query'[v].pc \in SP!Msgs =>
                           query[v].pc \in SP!Msgs /\ query'[v].upto = query[v].upto
  BY <1>1, StoreIs, SP!UptoStays
<1>7. PICK t : SP!Set(w, t)
  BY <1>1 DEF SP!CreateKey, SP!CreatePart, SP!GetMsgTable, SP!GetMsgMark
<1>8. query[w].pc # "idle"
  BY <1>1 DEF SP!CreateKey, SP!CreatePart, SP!GetMsgTable, SP!GetMsgMark
<1>9. \A v \in Workers : query'[v].pc # "idle" => at'[v] \in Sessions
  BY <1>1, <1>3, <1>7, <1>8, OneQuery DEF Inv, HandlerOK
<1>10. at' \in [Workers -> Sessions \cup {None}]
  BY <1>3 DEF Inv
<1> QED
  BY <1>2, <1>3, <1>4, <1>5, <1>6, <1>9, <1>10, HandlerKeeps

LEMMA CreateTableInv ==
  ASSUME Inv, NEW w \in Workers, NEW s \in Sessions, NEW cont \in S!Conts, CreateTable(w, s, cont)
  PROVE  Inv'
<1>0. UserName(s) \in SP!Senders /\ cont \in Seq(Users)
  <2>1. S!Conts = SP!Conts
    BY DEF S!Conts, SP!Conts
  <2> QED
    BY <2>1, NameIs, StoreIs, SP!ContsAre
<1>1. SP!CreateTable(w, UserName(s), cont) /\ SP!IInv /\ SP!TypeOK
  BY CreateStepsAre DEF CreateTable, Inv, Parts, SP!IInv
<1>2. SP!IInv' /\ SP!Grows
  BY <1>0, <1>1, StoreIs, SP!CreateTableInv
<1>3. /\ UNCHANGED <<mailbox, stored, asked, upon>> /\ at' = [at EXCEPT ![w] = s]
      /\ answer'.kind = "none"
  BY <1>1 DEF CreateTable, SP!CreateTable, SP!NoAnswer
<1>4. MP!TypeOK' /\ MP!UptoOK' /\ rows' = rows
  BY <1>3, MailStill
<1>5. StoredOK' /\ \A notices, upto : Reached(notices, upto) => Reached(notices, upto)'
  BY <1>2, <1>3, <1>4, SameStored
<1>6. \A v \in Workers : query'[v].pc \in SP!Msgs =>
                           query[v].pc \in SP!Msgs /\ query'[v].upto = query[v].upto
  BY <1>0, <1>1, StoreIs, SP!UptoStays
<1>7. PICK t : SP!Set(w, t)
  BY <1>1 DEF SP!CreateTable
<1>8. /\ at' \in [Workers -> Sessions \cup {None}] /\ at'[w] = s
      /\ \A v \in Workers : v # w => at'[v] = at[v]
  BY <1>3 DEF Inv
<1>9. \A v \in Workers : query'[v].pc # "idle" => at'[v] \in Sessions
  BY <1>1, <1>7, <1>8, OneQuery DEF Inv, HandlerOK
<1> QED
  BY <1>2, <1>3, <1>4, <1>5, <1>6, <1>8, <1>9, HandlerKeeps

LEMMA CreateEndInv == ASSUME Inv, NEW w \in Workers, CreateEnd(w) PROVE Inv'
<1>1. SP!CreateEnd(w) /\ SP!IInv /\ SP!TypeOK
  BY CreateStepsAre DEF CreateEnd, Inv, Parts, SP!IInv
<1>2. SP!IInv' /\ SP!Grows
  BY <1>1, StoreIs, SP!CreateEndInv
<1>3. /\ asked' = asked /\ stored' = Append(stored, NotAMessage) /\ at' = [at EXCEPT ![w] = None]
      /\ answer'.kind = "key"
  BY <1>1 DEF CreateEnd, SP!CreateEnd
<1>4. M!Next /\ Len(rows') = Len(rows) + 1
  <2>1. at[w] \in Sessions
    BY <1>1 DEF Inv, HandlerOK, SP!CreateEnd
  <2>2. PICK x \in SP!Task : x = query[w]
    BY <1>1 DEF SP!TypeOK
  <2>3. x.all \in Seq(Users)
    BY <1>1, <2>2, StoreIs, SP!TaskKinds DEF SP!CreateEnd
  <2>4. PICK names \in SUBSET Users : names = {query[w].all[i] : i \in DOMAIN query[w].all}
    <3>1. PICK all \in Seq(Users) : all = query[w].all
      BY <2>2, <2>3
    <3>2. \A i \in DOMAIN all : all[i] \in Users
      OBVIOUS
    <3> QED
      BY <3>1, <3>2
  <2>5. M!ActCreateTable(w, at[w], names)
    BY <2>4 DEF CreateEnd
  <2>6. M!Next
    BY <2>1, <2>5 DEF M!Next, M!Request
  <2> QED
    BY <2>5, <2>6, RowsAppend DEF M!ActCreateTable, M!StoreAndNotify, Inv, Parts
<1>5. MP!TypeOK' /\ MP!UptoOK'
  BY <1>4, MailNext DEF Inv
<1>6. StoredOK' /\ \A notices, upto : Reached(notices, upto) => Reached(notices, upto)'
  BY <1>2, <1>3, <1>4, OneStored, NotAMessageFits
<1>7. \A v \in Workers : query'[v].pc \in SP!Msgs =>
                           query[v].pc \in SP!Msgs /\ query'[v].upto = query[v].upto
  BY <1>1, StoreIs, SP!UptoStays
<1>8. SP!Set(w, SP!Free) /\ SP!Free.pc = "idle"
  BY <1>1 DEF SP!CreateEnd, SP!Free
<1>9. at' \in [Workers -> Sessions \cup {None}] /\ \A v \in Workers : v # w => at'[v] = at[v]
  BY <1>3 DEF Inv
<1>10. \A v \in Workers : query'[v].pc # "idle" => at'[v] \in Sessions
  BY <1>1, <1>8, <1>9, OneQuery DEF Inv, HandlerOK
<1> QED
  BY <1>2, <1>3, <1>5, <1>6, <1>7, <1>9, <1>10, HandlerKeeps

LEMMA GetMsgEndInv == ASSUME Inv, NEW w \in Workers, GetMsgEnd(w) PROVE Inv'
<1>1. SP!GetMsgEnd(w) /\ SP!IInv /\ SP!TypeOK
  BY GetStepsAre DEF GetMsgEnd, Inv, Parts, SP!IInv
<1>2. SP!IInv' /\ SP!Grows
  BY <1>1, StoreIs, SP!GetMsgEndInv
<1>3. /\ UNCHANGED <<mailbox, stored, asked>> /\ at' = [at EXCEPT ![w] = None]
      /\ upon' = asked[w]
  BY DEF GetMsgEnd
<1>4. MP!TypeOK' /\ MP!UptoOK' /\ rows' = rows
  BY <1>3, MailStill
<1>5. StoredOK' /\ \A notices, upto : Reached(notices, upto) => Reached(notices, upto)'
  BY <1>2, <1>3, <1>4, SameStored
<1>6. \A v \in Workers : query'[v].pc \in SP!Msgs =>
                           query[v].pc \in SP!Msgs /\ query'[v].upto = query[v].upto
  BY <1>1, StoreIs, SP!UptoStays
<1>7. SP!Set(w, SP!Free) /\ SP!Free.pc = "idle"
  BY <1>1 DEF SP!GetMsgEnd, SP!Free
<1>8. at' \in [Workers -> Sessions \cup {None}] /\ \A v \in Workers : v # w => at'[v] = at[v]
  BY <1>3 DEF Inv
<1>9. \A v \in Workers : query'[v].pc # "idle" => at'[v] \in Sessions
  BY <1>1, <1>7, <1>8, OneQuery DEF Inv, HandlerOK
<1>10. answer'.upto = query[w].upto /\ query[w].pc \in SP!Msgs
  BY <1>1, StoreIs, SP!UptoAnswered
<1>11. Reached(upon', answer'.upto)
  BY <1>3, <1>10 DEF Inv, HandlerOK
<1> QED
  BY <1>2, <1>3, <1>4, <1>5, <1>6, <1>8, <1>9, <1>11, HandlerKeeps

LEMMA GetMsgInv ==
  ASSUME Inv, NEW w \in Workers, NEW s \in Sessions, GetMsg(w, s)
  PROVE  Inv'
<1>1. PICK u \in Users : S!GetMsg(w, u)
  <2>1. nf[s] \in MP!Array
    BY DEF GetMsg, Inv, Parts, MP!TypeOK
  <2> QED
    BY <2>1 DEF GetMsg, MP!Array
<1>2. SP!GetMsg(w, u) /\ SP!IInv /\ SP!TypeOK
  BY <1>1, GetStepsAre DEF Inv, Parts, SP!IInv
<1>3. SP!IInv' /\ SP!Grows
  BY <1>2, StoreIs, SP!GetMsgInv
<1>4. /\ UNCHANGED <<mailbox, stored, upon>> /\ at' = [at EXCEPT ![w] = s]
      /\ asked' = [asked EXCEPT ![w] = notice[s]]
  BY DEF GetMsg
<1>5. MP!TypeOK' /\ MP!UptoOK' /\ rows' = rows
  BY <1>4, MailStill
<1>6. StoredOK' /\ \A notices, upto : Reached(notices, upto) => Reached(notices, upto)'
  BY <1>3, <1>4, <1>5, SameStored
<1>7. /\ query'[w].upto = Len(db.ms) /\ answer'.kind = "none"
      /\ \A v \in Workers : v # w => query'[v] = query[v]
  BY <1>2, StoreIs, SP!UptoBegins
<1>8. notice[s] \in SUBSET MP!Notice
  BY DEF Inv, Parts, MP!TypeOK
<1>9. /\ at' \in [Workers -> Sessions \cup {None}] /\ at'[w] = s
      /\ asked' \in [Workers -> SUBSET MP!Notice] /\ asked'[w] = notice[s]
      /\ \A v \in Workers : v # w => at'[v] = at[v] /\ asked'[v] = asked[v]
  BY <1>4, <1>8 DEF Inv
<1>10. Reached(notice[s], Len(db.ms))
  <2>1. ASSUME NEW m \in notice[s]
        PROVE  m.upto \in 0 .. Len(stored) /\ \A i \in 1 .. m.upto : stored[i].row <= Len(db.ms)
    <3>1. Len(stored) = Len(rows) /\ Len(rows) \in Nat
      BY RowsCount DEF Inv, Parts, StoredOK
    <3>2. m.upto \in Nat /\ m.upto <= Len(rows)
      BY <1>8 DEF MP!Notice, Inv, Parts, MP!UptoOK
    <3>3. m.upto \in 0 .. Len(stored) /\ \A i \in 1 .. m.upto : i \in 1 .. Len(stored)
      BY <3>1, <3>2
    <3> QED
      BY <3>3 DEF Inv, StoredOK, EntryOK
  <2> QED
    BY <2>1 DEF Reached
<1>11. ASSUME NEW v \in Workers
       PROVE  /\ query'[v].pc # "idle" => at'[v] \in Sessions
              /\ query'[v].pc \in SP!Msgs =>
                   \/ /\ query[v].pc \in SP!Msgs
                      /\ query'[v].upto = query[v].upto /\ asked'[v] = asked[v]
                   \/ Reached(asked'[v], query'[v].upto)
  <2>1. CASE v = w
    BY <1>7, <1>9, <1>10, <2>1
  <2>2. CASE v # w
    BY <1>7, <1>9, <2>2 DEF Inv, HandlerOK
  <2> QED
    BY <2>1, <2>2
<1> QED
  BY <1>3, <1>5, <1>6, <1>7, <1>9, <1>11, StepKeeps

LEMMA MailInv == ASSUME Inv, NEW w \in Workers, Mail(w) PROVE Inv'
<1>1. UNCHANGED <<db, log, check, query, answer>> /\ UNCHANGED <<at, stored, asked, upon>>
  BY DEF Mail, store, history
<1>2. M!Next
  BY SMTT(30) DEF Mail, M!Next, M!Request
<1>3. rows' = rows
  BY DEF Mail, M!LoginAlloc, M!CutOff, M!Disconnect, M!PollStart, M!PollWild, M!Advance,
         M!CutOffAnswer, M!NotifyWild, M!LoginFind, M!LoginLink, M!LoginReady, M!NotifyUser,
         M!NotifyEnd, M!PollTest, M!PollLoad, M!PollStore, M!PollClear
<1>4. SP!IInv' /\ SP!Grows
  BY <1>1, StoreStill DEF Inv, Parts, store
<1>5. MP!TypeOK' /\ MP!UptoOK'
  BY <1>2, MailNext DEF Inv
<1>6. StoredOK' /\ \A notices, upto : Reached(notices, upto) => Reached(notices, upto)'
  BY <1>1, <1>3, <1>4, SameStored
<1>7. \A v \in Workers : query[v].pc # "idle" => at[v] \in Sessions
  BY DEF Inv, HandlerOK
<1>8. at' \in [Workers -> Sessions \cup {None}]
  BY <1>1 DEF Inv
<1> QED
  BY <1>1, <1>4, <1>5, <1>6, <1>7, <1>8, HandlerKeeps

LEMMA InvNext == ASSUME Inv, [Next]_vars PROVE Inv'
<1>1. ASSUME NEW w \in Workers, NEW s \in Sessions,
             \/ \E key \in DOMAIN Old.chatTable, text \in Texts : SendMsg(w, s, key, text)
             \/ \E u \in Users : Connect(w, s, u) \/ Invite(w, s, u, 1)
             \/ \E cont \in S!Conts : CreateTable(w, s, cont)
             \/ GetMsg(w, s)
      PROVE  Inv'
  BY <1>1, SendMsgInv, ConnectInv, InviteInv, CreateTableInv, GetMsgInv
<1>2. ASSUME NEW w \in Workers, CreateEnd(w) \/ GetMsgEnd(w) \/ Query(w) \/ Mail(w) PROVE Inv'
  BY <1>2, CreateEndInv, GetMsgEndInv, QueryInv, MailInv
<1>3. CASE UNCHANGED vars
  <2>1. /\ UNCHANGED mailbox /\ UNCHANGED <<db, log, check, query, answer>>
        /\ UNCHANGED <<at, stored, asked, upon>>
    BY <1>3 DEF vars, mailbox, store, history
  <2>2. SP!IInv' /\ SP!Grows
    BY <2>1, StoreStill DEF Inv, Parts, store
  <2>3. MP!TypeOK' /\ MP!UptoOK' /\ rows' = rows
    BY <2>1, MailStill
  <2>4. StoredOK' /\ \A notices, upto : Reached(notices, upto) => Reached(notices, upto)'
    BY <2>1, <2>2, <2>3, SameStored
  <2>5. \A v \in Workers : query[v].pc # "idle" => at[v] \in Sessions
    BY DEF Inv, HandlerOK
  <2>6. at' \in [Workers -> Sessions \cup {None}]
    BY <2>1 DEF Inv
  <2> QED
    BY <2>1, <2>2, <2>3, <2>4, <2>5, <2>6, HandlerKeeps
<1> QED
  BY <1>1, <1>2, <1>3 DEF Next

LEMMA InvInit == ASSUME Init PROVE Inv
<1>1. SP!Init /\ MP!Init
  BY StoreInit, MailInit DEF Init
<1>2. SP!IInv
  BY <1>1, StoreIs, SP!InvInit
<1>3. MP!TypeOK
  BY <1>1, MailIs, MP!TypeInit
<1>4. MP!UptoOK
  BY <1>1, MailIs, MP!UptoInit
<1>5. \A u \in Users : check[u][0] = 0
  BY <1>1, StoreIs, SP!InitMark
<1>6. StoredOK
  BY <1>1 DEF Init, StoredOK, MP!Init
<1>7. \A w \in Workers : HandlerOK(w)
  BY <1>1 DEF SP!Init, SP!Free, HandlerOK, SP!Msgs
<1>8. answer.kind = "none"
  BY <1>1 DEF SP!Init, SP!NoAnswer
<1> QED
  BY <1>2, <1>3, <1>4, <1>5, <1>6, <1>7, <1>8 DEF Init, Inv, Parts

-----------------------------------------------------------------------------
\* Every message a notice was queued for, by the time the client asks for what is new,
\* is in the answer if it went into the first of the user's tables: with any number of
\* io threads, clients and users, and whatever is inserted and asked meanwhile.
THEOREM NoticesAreAnswered == Spec => []FirstTableArrives
<1>1. Inv => FirstTableArrives
  <2> SUFFICES ASSUME Inv, answer.kind = "ms", answer.tables # <<>>,
                      NEW m \in upon, NEW i \in 1 .. m.upto, stored[i].key = answer.tables[1]
               PROVE  stored[i].row \in answer.out
    BY DEF FirstTableArrives, Announced
  <2>1. answer \in [kind : {"ms"}, u : Users, tables : Seq(SP!Key), out : SUBSET Nat, upto : Nat]
    <3>1. answer \in SP!Answer
      BY DEF Inv, Parts, SP!IInv, SP!TypeOK
    <3> QED
      BY <3>1 DEF SP!Answer, SP!NoAnswer
  <2>2. answer.tables[1] \in Nat \ {0} /\ answer.u \in Users
    BY <2>1 DEF SP!Key
  <2>3. m.upto \in 0 .. Len(stored) /\ stored[i].row <= answer.upto
    BY DEF Inv, Reached
  <2>4. i \in 1 .. Len(stored) /\ stored \in Seq(Entry)
    BY <2>3 DEF Inv, StoredOK
  <2>5. PICK e \in Entry : e = stored[i]
    BY <2>4
  <2>6. e.row \in Nat \ {0} /\ db.ms[e.row].tableKey = e.key /\ e.row <= answer.upto
    BY <2>2, <2>3, <2>4, <2>5 DEF Inv, StoredOK, EntryOK, Entry
  <2>7. SP!FirstWhole(answer.u, answer.tables, answer.out, answer.upto)
    BY DEF Inv, Parts, SP!IInv, SP!AnswerOK
  <2>8. e.row \in 1 .. answer.upto /\ e.row > check[answer.u][0]
    BY <2>1, <2>2, <2>6 DEF Inv
  <2> QED
    BY <2>5, <2>6, <2>7, <2>8 DEF SP!FirstWhole
<1> QED
  BY <1>1, InvInit, InvNext, PTL DEF Spec
=============================================================================
