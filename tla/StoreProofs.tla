----------------------------- MODULE StoreProofs -----------------------------
(***************************************************************************)
(* Theorems about Store, for any users, texts, workers and database, and   *)
(* any number of INSERTs and participants.                                 *)
(***************************************************************************)
EXTENDS Store, FiniteSetTheorems, SequenceTheorems, TLAPS

-----------------------------------------------------------------------------
(***************************************************************************)
(* The statements.                                                         *)
(***************************************************************************)
LEMMA SchemaIs ==
  /\ Tables = {"user", "chatTable", "ms", "part", "userPair", "checkList", "invite",
               "connectionRequest"}
  /\ Schema["chatTable"] = <<"host", "participations">>
  /\ Schema["part"] = <<"tableKey", "user", "idx">>
  /\ Columns("chatTable") = {"host", "participations"}
  /\ Columns("part") = {"tableKey", "user", "idx"}
<1>1. DOMAIN Dsc = {"user", "chatTable", "ms", "part", "userPair", "checkList", "invite",
                    "connectionRequest"}
  BY DEF Dsc
<1>2. /\ Schema["chatTable"] = <<"host", "participations">>
      /\ Schema["part"] = <<"tableKey", "user", "idx">>
  BY DEF Schema, Dsc
<1>3. Columns("chatTable") = {"host", "participations"}
  BY <1>2 DEF Columns
<1>4. Columns("part") = {"tableKey", "user", "idx"}
  BY <1>2 DEF Columns
<1> QED
  BY <1>1, <1>2, <1>3, <1>4 DEF Tables

\* An INSERT of values that belong in the rows.
Fit(query) ==
  /\ query.table \in Tables
  /\ Len(query.columns) \in Nat
  /\ \A k \in 1 .. Len(query.values) : query.values[k] \in Value

LEMMA RowFits ==
  ASSUME NEW query, Fit(query), Accepted(query)
  PROVE  RowOf(query) \in [Columns(query.table) -> Value]
<1> SUFFICES ASSUME NEW c \in Columns(query.table)
             PROVE  (IF \E k \in 1 .. Len(query.columns) : query.columns[k] = c
                     THEN query.values[CHOOSE k \in 1 .. Len(query.columns) : query.columns[k] = c]
                     ELSE Default) \in Value
  BY DEF RowOf
<1>1. CASE \E k \in 1 .. Len(query.columns) : query.columns[k] = c
  <2>1. PICK m : m = CHOOSE k \in 1 .. Len(query.columns) : query.columns[k] = c
    OBVIOUS
  <2>2. m \in 1 .. Len(query.values)
    BY <1>1, <2>1 DEF Accepted
  <2> QED
    BY <1>1, <2>1, <2>2 DEF Fit
<1> QED
  BY <1>1 DEF Value

LEMMA PairsFit ==
  ASSUME NEW t \in Tables, NEW pairs, Len(pairs) \in Nat,
         \A k \in 1 .. Len(pairs) : pairs[k][2] \in Value
  PROVE  Fit(InsertPairs(t, pairs)) /\ InsertPairs(t, pairs).table = t
<1>1. InsertPairs(t, pairs).table = t
  BY DEF InsertPairs
<1>2. Len([k \in 1 .. Len(pairs) |-> ColumnName(t, pairs[k][1])]) = Len(pairs)
  OBVIOUS
<1>3. Len([k \in 1 .. Len(pairs) |-> pairs[k][2]]) = Len(pairs)
  OBVIOUS
<1>4. /\ InsertPairs(t, pairs).columns = [k \in 1 .. Len(pairs) |-> ColumnName(t, pairs[k][1])]
      /\ InsertPairs(t, pairs).values = [k \in 1 .. Len(pairs) |-> pairs[k][2]]
  BY DEF InsertPairs
<1> QED
  BY <1>1, <1>2, <1>3, <1>4 DEF Fit

LEMMA ValuesAre ==
  /\ Nat \subseteq Value /\ Users \subseteq Value /\ Texts \subseteq Value
  /\ Nobody \in Value /\ Default \in Value /\ Senders \subseteq Value
BY DEF Value, Senders

LEMMA MessageFits ==
  ASSUME NEW key \in Nat, NEW text \in Texts
  PROVE  LET q == InsertPairs("ms", << <<0, key>>, <<1, 0>>, <<2, text>>, <<4, 0>> >>)
         IN  Fit(q) /\ q.table = "ms" /\ RowOf(q).tableKey = key
<1> DEFINE pairs == << <<0, key>>, <<1, 0>>, <<2, text>>, <<4, 0>> >>
<1>1. Len(pairs) = 4 /\ pairs[1][2] = key /\ pairs[2][2] = 0 /\ pairs[3][2] = text /\ pairs[4][2] = 0
  OBVIOUS
<1>0. pairs[1][1] = 0 /\ pairs[2][1] = 1 /\ pairs[3][1] = 2 /\ pairs[4][1] = 4
  OBVIOUS
<1>2. \A k \in 1 .. 4 : k = 1 \/ k = 2 \/ k = 3 \/ k = 4
  OBVIOUS
<1> HIDE DEF pairs
<1>3. \A k \in 1 .. Len(pairs) : pairs[k][2] \in Value
  BY <1>1, <1>2, ValuesAre
<1>4. Fit(InsertPairs("ms", pairs)) /\ InsertPairs("ms", pairs).table = "ms"
  BY <1>1, <1>3, PairsFit, SchemaIs
<1>5. PICK q : q = InsertPairs("ms", pairs)
  OBVIOUS
<1>6. /\ q.table = "ms" /\ q.columns = [k \in 1 .. 4 |-> ColumnName("ms", pairs[k][1])]
      /\ q.values = [k \in 1 .. 4 |-> pairs[k][2]] /\ Len(q.columns) = 4
  BY <1>1, <1>5 DEF InsertPairs
<1>7. /\ q.columns[1] = "tableKey" /\ q.columns[2] = "sender" /\ q.columns[3] = "message"
      /\ q.columns[4] = "chk" /\ q.values[1] = key
  <2>1. /\ ColumnName("ms", 0) = "tableKey" /\ ColumnName("ms", 1) = "sender"
        /\ ColumnName("ms", 2) = "message" /\ ColumnName("ms", 4) = "chk"
    BY DEF ColumnName, RowId, Dsc
  <2> QED
    BY <1>0, <1>1, <1>6, <2>1
<1>8. \A k \in 1 .. Len(q.columns) : q.columns[k] = "tableKey" <=> k = 1
  BY <1>2, <1>6, <1>7
<1>9. (CHOOSE k \in 1 .. Len(q.columns) : q.columns[k] = "tableKey") = 1
  BY <1>6, <1>8
<1>10. "tableKey" \in Columns("ms")
  BY DEF Columns, Schema, Dsc
<1>11. RowOf(q)["tableKey"] = key
  BY <1>6, <1>7, <1>9, <1>10 DEF RowOf
<1> QED
  BY <1>4, <1>5, <1>11 DEF pairs

LEMMA InviteFits ==
  ASSUME NEW s \in Value, NEW key \in Nat
  PROVE  LET q == InsertPairs("invite", << <<0, Nobody>>, <<1, key>>, <<2, s>> >>)
         IN  Fit(q) /\ q.table = "invite"
<1> DEFINE pairs == << <<0, Nobody>>, <<1, key>>, <<2, s>> >>
<1>1. Len(pairs) = 3 /\ pairs[1][2] = Nobody /\ pairs[2][2] = key /\ pairs[3][2] = s
  OBVIOUS
<1>2. \A k \in 1 .. 3 : k = 1 \/ k = 2 \/ k = 3
  OBVIOUS
<1> HIDE DEF pairs
<1>3. \A k \in 1 .. Len(pairs) : pairs[k][2] \in Value
  BY <1>1, <1>2, ValuesAre
<1>4. Fit(InsertPairs("invite", pairs)) /\ InsertPairs("invite", pairs).table = "invite"
  BY <1>1, <1>3, PairsFit, SchemaIs
<1> QED
  BY <1>4 DEF pairs

LEMMA ConnectionFits ==
  ASSUME NEW s \in Value, NEW r \in Value
  PROVE  LET q == InsertPairs("connectionRequest", << <<0, s>>, <<1, r>> >>)
         IN  Fit(q) /\ q.table = "connectionRequest"
<1> DEFINE pairs == << <<0, s>>, <<1, r>> >>
<1>1. Len(pairs) = 2 /\ pairs[1][2] = s /\ pairs[2][2] = r
  OBVIOUS
<1>2. \A k \in 1 .. 2 : k = 1 \/ k = 2
  OBVIOUS
<1> HIDE DEF pairs
<1>3. \A k \in 1 .. Len(pairs) : pairs[k][2] \in Value
  BY <1>1, <1>2, ValuesAre
<1>4. Fit(InsertPairs("connectionRequest", pairs))
      /\ InsertPairs("connectionRequest", pairs).table = "connectionRequest"
  BY <1>1, <1>3, PairsFit, SchemaIs
<1> QED
  BY <1>4 DEF pairs

\* A new table's row names its host.
LEMMA TableFits ==
  ASSUME NEW host \in Value, NEW n \in Nat
  PROVE  LET q == InsertQuery("chatTable", host, n)
         IN  Fit(q) /\ q.table = "chatTable" /\ RowOf(q).host = host
<1>1. PICK q : q = InsertQuery("chatTable", host, n)
  OBVIOUS
<1>2. q.table = "chatTable" /\ q.columns = <<"host", "participations">> /\ q.values = <<host, n>>
  BY <1>1, SchemaIs DEF InsertQuery
<1>3. Len(q.columns) = 2 /\ Len(q.values) = 2 /\ q.values[1] = host /\ q.values[2] = n
      /\ q.columns[1] = "host" /\ q.columns[2] = "participations"
  BY <1>2
<1>4. \A k \in 1 .. 2 : k = 1 \/ k = 2
  OBVIOUS
<1>5. Fit(q)
  BY <1>2, <1>3, <1>4, ValuesAre, SchemaIs DEF Fit
<1>6. \A k \in 1 .. Len(q.columns) : q.columns[k] = "host" <=> k = 1
  BY <1>3, <1>4
<1>7. (CHOOSE k \in 1 .. Len(q.columns) : q.columns[k] = "host") = 1
  BY <1>3, <1>6
<1>8. RowOf(q)["host"] = host
  BY <1>2, <1>3, <1>7, SchemaIs DEF RowOf
<1> QED
  BY <1>1, <1>2, <1>5, <1>8

\* A participant's row: what create_table has for the key goes into the user's column.
LEMMA PartFits ==
  ASSUME NEW user \in Value, NEW key \in Nat, NEW n \in Nat
  PROVE  LET q == AddCondition(InsertQuery("part", user, key), n)
         IN  Fit(q) /\ q.table = "part" /\ RowOf(q).user = key
<1>1. PICK q : q = AddCondition(InsertQuery("part", user, key), n)
  OBVIOUS
<1>2. q.table = "part" /\ q.columns = <<"tableKey", "user", "idx">> /\ q.values = Append(<<user, key>>, n)
  BY <1>1, SchemaIs DEF InsertQuery, AddCondition
<1>3. /\ Len(<<user, key>>) = 2 /\ <<user, key>>[1] = user /\ <<user, key>>[2] = key
      /\ <<user, key>> \in Seq(Value)
  BY ValuesAre
<1>4. /\ Len(q.values) = 3 /\ q.values[1] = user /\ q.values[2] = key /\ q.values[3] = n
      /\ Len(q.columns) = 3
      /\ q.columns[1] = "tableKey" /\ q.columns[2] = "user" /\ q.columns[3] = "idx"
  <2>1. Len(q.values) = 3 /\ q.values[1] = user /\ q.values[2] = key /\ q.values[3] = n
    BY <1>2, <1>3, ValuesAre, AppendProperties
  <2> QED
    BY <1>2, <2>1
<1>5. \A k \in 1 .. 3 : k = 1 \/ k = 2 \/ k = 3
  OBVIOUS
<1>6. Fit(q)
  BY <1>2, <1>4, <1>5, ValuesAre, SchemaIs DEF Fit
<1>7. \A k \in 1 .. Len(q.columns) : q.columns[k] = "user" <=> k = 2
  BY <1>4, <1>5
<1>8. (CHOOSE k \in 1 .. Len(q.columns) : q.columns[k] = "user") = 2
  BY <1>4, <1>7
<1>9. RowOf(q)["user"] = key
  BY <1>2, <1>4, <1>8, SchemaIs DEF RowOf
<1> QED
  BY <1>1, <1>2, <1>6, <1>9

-----------------------------------------------------------------------------
(***************************************************************************)
(* SELECTs.                                                                *)
(***************************************************************************)
LEMMA MessagesAre ==
  ASSUME NEW key, NEW since
  PROVE  MessagesIn(key, since) = {r \in DOMAIN db.ms : db.ms[r].tableKey = key /\ r > since}
<1> DEFINE c1 == Where("ms", 0, Equal, key)
           c2 == Where("ms", RowId, Higher, since)
<1>1. c1.column = "tableKey" /\ c1.op = "==" /\ c1.value = key
  BY DEF Where, ColumnName, RowId, Dsc, Equal, eqivDscCont
<1>2. c2.column = "rowid" /\ c2.op = ">" /\ c2.value = since
  BY DEF Where, ColumnName, RowId, Dsc, Higher, eqivDscCont
<1>3. Len(<<c1, c2>>) = 2 /\ <<c1, c2>>[1] = c1 /\ <<c1, c2>>[2] = c2
  OBVIOUS
<1>4. \A k \in 1 .. 2 : k = 1 \/ k = 2
  OBVIOUS
<1>5. MessagesIn(key, since) = SelectQuery(db.ms, <<c1, c2>>)
  BY DEF MessagesIn
<1> HIDE DEF c1, c2
<1>6. PICK cs : cs = <<c1, c2>>
  OBVIOUS
<1>7. \A x : Holds(x, "==", key) <=> x = key
  BY DEF Holds
<1>8. \A x : Holds(x, ">", since) <=> x > since
  BY DEF Holds
<1>9. ASSUME NEW r \in DOMAIN db.ms
      PROVE  (\A k \in 1 .. Len(cs) :
                LET c == cs[k]
                IN  Holds(IF c.column = "rowid" THEN r ELSE db.ms[r][c.column], c.op, c.value))
             <=> (db.ms[r].tableKey = key /\ r > since)
  BY <1>1, <1>2, <1>3, <1>4, <1>6, <1>7, <1>8
<1> QED
  BY <1>5, <1>6, <1>9 DEF SelectQuery

LEMMA TablesOf ==
  ASSUME NEW u
  PROVE  SelectQuery(db.part, <<Where("part", 1, Equal, u)>>) = {r \in DOMAIN db.part : db.part[r].user = u}
<1> DEFINE c1 == Where("part", 1, Equal, u)
<1>1. c1.column = "user" /\ c1.op = "==" /\ c1.value = u
  BY DEF Where, ColumnName, RowId, Dsc, Equal, eqivDscCont
<1>2. Len(<<c1>>) = 1 /\ <<c1>>[1] = c1
  OBVIOUS
<1> HIDE DEF c1
<1>3. PICK cs : cs = <<c1>>
  OBVIOUS
<1>4. \A x : Holds(x, "==", u) <=> x = u
  BY DEF Holds
<1>5. \A k \in 1 .. 1 : k = 1
  OBVIOUS
<1>6. ASSUME NEW r \in DOMAIN db.part
      PROVE  (\A k \in 1 .. Len(cs) :
                LET c == cs[k]
                IN  Holds(IF c.column = "rowid" THEN r ELSE db.part[r][c.column], c.op, c.value))
             <=> (db.part[r].user = u)
  BY <1>1, <1>2, <1>3, <1>4, <1>5
<1> QED
  BY <1>3, <1>6 DEF SelectQuery, c1

\* A SELECT finds again what it has found, whatever is added to the table.
LEMMA SelectGrows ==
  ASSUME NEW S, NEW rows \in Seq(S), NEW more \in Seq(S), NEW conditions,
         Len(rows) <= Len(more), \A i \in 1 .. Len(rows) : more[i] = rows[i]
  PROVE  SelectQuery(rows, conditions) \subseteq SelectQuery(more, conditions)
<1>1. DOMAIN rows = 1 .. Len(rows) /\ DOMAIN more = 1 .. Len(more) /\ Len(rows) \in Nat /\ Len(more) \in Nat
  OBVIOUS
<1>2. ASSUME NEW r \in DOMAIN rows PROVE r \in DOMAIN more /\ more[r] = rows[r]
  BY <1>1
<1> QED
  BY <1>2 DEF SelectQuery

-----------------------------------------------------------------------------
(***************************************************************************)
(* get_table finds as many keys as there are rows of the user.             *)
(***************************************************************************)
LEMMA PlacesAreMet ==
  ASSUME NEW n \in Nat, NEW mine \in SUBSET (1 .. n)
  PROVE  /\ Cardinality(mine) \in Nat
         /\ \A i \in 1 .. Cardinality(mine) : \E r \in mine : Cardinality({q \in mine : q <= r}) = i
<1> DEFINE upto(r) == {q \in mine : q <= r}
           place == [r \in mine |-> Cardinality(upto(r))]
           l == Cardinality(mine)
<1>1. IsFiniteSet(mine) /\ l \in Nat
  <2>1. IsFiniteSet(1 .. n)
    BY FS_Interval
  <2>2. IsFiniteSet(mine)
    BY <2>1, FS_Subset
  <2> QED
    BY <2>2, FS_CardinalityType
<1>2. ASSUME NEW r \in mine PROVE IsFiniteSet(upto(r)) /\ Cardinality(upto(r)) \in 1 .. l
  <2>1. upto(r) \in SUBSET mine /\ r \in upto(r)
    OBVIOUS
  <2>2. IsFiniteSet(upto(r)) /\ Cardinality(upto(r)) <= l
    BY <1>1, <2>1, FS_Subset
  <2>3. Cardinality(upto(r)) \in Nat /\ Cardinality(upto(r)) # 0
    BY <2>1, <2>2, FS_CardinalityType, FS_EmptySet
  <2> HIDE DEF upto, l
  <2> QED
    BY <1>1, <2>2, <2>3
<1>3. ASSUME NEW r \in mine, NEW s \in mine, r < s
      PROVE  Cardinality(upto(r)) # Cardinality(upto(s))
  <2>0. \A q \in mine : q \in Nat
    OBVIOUS
  <2>1. /\ \A q \in mine : q <= r => q <= s
        /\ s <= s /\ ~(s <= r)
    BY <1>3, <2>0
  <2>2. upto(r) \in SUBSET upto(s) /\ s \in upto(s) /\ s \notin upto(r)
    BY <2>1, Zenon
  <2> QED
    BY <1>2, <2>2, FS_Subset
<1>4. place \in [mine -> 1 .. l]
  BY <1>2
<1>5. place \in Injection(mine, 1 .. l)
  <2>1. ASSUME NEW r \in mine, NEW s \in mine, place[r] = place[s] PROVE r = s
    <3>1. r < s \/ r = s \/ s < r
      OBVIOUS
    <3> QED
      BY <1>3, <2>1, <3>1
  <2> QED
    BY <1>4, <2>1 DEF Injection, IsInjective
<1>6. IsFiniteSet(1 .. l) /\ Cardinality(1 .. l) = l
  BY <1>1, FS_Interval
<1>7. place \in Surjection(mine, 1 .. l)
  BY <1>5, <1>6, FS_Injection
<1>8. \A i \in 1 .. l : \E r \in mine : place[r] = i
  BY <1>7 DEF Surjection
<1> QED
  BY <1>1, <1>8

-----------------------------------------------------------------------------
(***************************************************************************)
(* The invariant.                                                          *)
(***************************************************************************)
DbOK ==
  /\ DOMAIN db = Tables
  /\ \A t \in Tables : db[t] \in Seq([Columns(t) -> Value])

LogOK == log \in Seq([table : Tables, rowid : Key])

\* A row of part that names a user has a table's key.
PartOK == \A r \in 1 .. Len(db.part) : db.part[r].user \in Users => db.part[r].tableKey \in Key

\* The table that was made is the one its host is stored with, and the INSERT at mark.
TableMade(own, host) == own \in 1 .. Len(db.chatTable) /\ db.chatTable[own].host = host

KeyOK(t) ==
  \/ t.own = 0
  \/ /\ TableMade(t.own, t.host)
     /\ t.mark \in 1 .. Len(log) /\ log[t.mark].rowid = t.own
     /\ t.pc = "part" => t.raced \/ t.key = t.own

\* What has been SELECTed so far is of the user's tables, and has all of the first one's.
Selected(u, tables, out, upto) ==
  /\ \A i \in out : i \in 1 .. Len(db.ms) /\ \E j \in 1 .. Len(tables) : db.ms[i].tableKey = tables[j]

FirstWhole(u, tables, out, upto) ==
  tables # <<>> =>
    \A i \in 1 .. upto : db.ms[i].tableKey = tables[1] /\ i > check[u][0] => i \in out

MsgOK(t) ==
  /\ t.upto <= Len(db.ms)
  /\ Selected(t.u, t.all, t.out, t.upto)
  /\ \A i \in 1 .. Len(t.list) : \E j \in 1 .. Len(t.all) : t.list[i] = t.all[j]
  /\ t.pc = "mark" => t.list # <<>>
  /\ \/ t.pc = "table" /\ t.list = t.all /\ t.since = check[t.u][0]
     \/ t.all # <<>> /\ FirstWhole(t.u, t.all, t.out, t.upto)

TaskOK(t) ==
  /\ t.pc \in {"key", "part"} => KeyOK(t) /\ Len(t.list) <= Len(t.all)
  /\ t.pc \in {"table", "mark"} => MsgOK(t)

AnswerOK(a) ==
  /\ a.kind = "key" =>
       a.own = 0 \/ a.raced \/ (a.key = a.own /\ TableMade(a.own, a.host))
  /\ a.kind = "ms" =>
       /\ a.upto <= Len(db.ms)
       /\ Selected(a.u, a.tables, a.out, a.upto) /\ FirstWhole(a.u, a.tables, a.out, a.upto)
  /\ a.kind \in {"invite", "connectionRequest", "userPair"} => a.out \subseteq Found(a.kind, a.u)

IInv ==
  /\ TypeOK /\ PartOK
  /\ \A w \in Workers : TaskOK(work[w])
  /\ AnswerOK(answer)

LEMMA TypeParts == TypeOK <=> /\ DbOK /\ LogOK
                              /\ check \in [Users -> [0 .. 9 -> Nat]]
                              /\ work \in [Workers -> Task]
                              /\ answer \in Answer
BY DEF TypeOK, DbOK, LogOK

\* Nothing is taken out of the tables or out of the log, and no check list changed.
Grows ==
  /\ \A t \in Tables : /\ Len(db[t]) <= Len(db'[t])
                       /\ \A i \in 1 .. Len(db[t]) : db'[t][i] = db[t][i]
  /\ Len(log) <= Len(log') /\ \A i \in 1 .. Len(log) : log'[i] = log[i]
  /\ check' = check

LEMMA RowsAre ==
  ASSUME DbOK
  PROVE  /\ db.ms \in Seq([Columns("ms") -> Value]) /\ db.part \in Seq([Columns("part") -> Value])
         /\ db.chatTable \in Seq([Columns("chatTable") -> Value])
         /\ db.invite \in Seq([Columns("invite") -> Value])
         /\ db.userPair \in Seq([Columns("userPair") -> Value])
         /\ db.connectionRequest \in Seq([Columns("connectionRequest") -> Value])
         /\ \A t \in Tables : Len(db[t]) \in Nat
<1>1. \A t \in Tables : db[t] \in Seq([Columns(t) -> Value])
  BY DEF DbOK
<1>2. \A t \in Tables : Len(db[t]) \in Nat
  BY <1>1, LenProperties
<1> QED
  BY <1>1, <1>2, SchemaIs

LEMMA InsertGrows ==
  ASSUME DbOK, LogOK, NEW q, Fit(q), Insert(q), check' = check
  PROVE  /\ DbOK' /\ LogOK' /\ Grows
         /\ db'[q.table] = Append(db[q.table], RowOf(q))
         /\ \A t \in Tables : t # q.table => db'[t] = db[t]
         /\ Len(log') = Len(log) + 1 /\ log'[Len(log) + 1].rowid = Len(db[q.table]) + 1
<1>1. /\ q.table \in Tables /\ db' = [db EXCEPT ![q.table] = Append(@, RowOf(q))]
      /\ log' = Append(log, [table |-> q.table, rowid |-> Len(db[q.table]) + 1])
      /\ Accepted(q)
  BY DEF Insert, Fit
<1>2. RowOf(q) \in [Columns(q.table) -> Value]
  BY <1>1, RowFits
<1>3. PICK rows \in Seq([Columns(q.table) -> Value]) : rows = db[q.table]
  BY <1>1 DEF DbOK
<1>4. /\ Append(rows, RowOf(q)) \in Seq([Columns(q.table) -> Value])
      /\ Len(rows) \in Nat /\ Len(Append(rows, RowOf(q))) = Len(rows) + 1
      /\ \A i \in 1 .. Len(rows) : Append(rows, RowOf(q))[i] = rows[i]
  BY <1>2
<1>5. db'[q.table] = Append(rows, RowOf(q)) /\ DOMAIN db' = Tables
      /\ \A t \in Tables : t # q.table => db'[t] = db[t]
  BY <1>1, <1>3 DEF DbOK
<1>6. DbOK'
  <2>1. ASSUME NEW t \in Tables PROVE db'[t] \in Seq([Columns(t) -> Value])
    <3>1. CASE t = q.table
      BY <1>4, <1>5, <3>1
    <3>2. CASE t # q.table
      BY <1>5, <3>2 DEF DbOK
    <3> QED
      BY <3>1, <3>2
  <2>2. DOMAIN db' = Tables
    BY <1>5
  <2> QED
    BY <2>1, <2>2 DEF DbOK
<1>7. PICK e \in [table : Tables, rowid : Key] : e = [table |-> q.table, rowid |-> Len(rows) + 1]
  <2>1. Len(rows) + 1 \in Key
    BY <1>4 DEF Key
  <2> QED
    BY <1>1, <2>1
<1>8. /\ log' = Append(log, e) /\ e.rowid = Len(rows) + 1
  BY <1>1, <1>3, <1>7
<1>9. /\ log' \in Seq([table : Tables, rowid : Key]) /\ Len(log') = Len(log) + 1 /\ Len(log) \in Nat
      /\ \A i \in 1 .. Len(log) : log'[i] = log[i]
      /\ log'[Len(log) + 1] = e
  BY <1>8 DEF LogOK
<1>10. \A t \in Tables : /\ Len(db[t]) <= Len(db'[t])
                         /\ \A i \in 1 .. Len(db[t]) : db'[t][i] = db[t][i]
  <2> SUFFICES ASSUME NEW t \in Tables
               PROVE  /\ Len(db[t]) <= Len(db'[t])
                      /\ \A i \in 1 .. Len(db[t]) : db'[t][i] = db[t][i]
    OBVIOUS
  <2>1. CASE t = q.table
    BY <1>3, <1>4, <1>5, <2>1
  <2>2. CASE t # q.table
    BY <1>5, <2>2, RowsAre
  <2> QED
    BY <2>1, <2>2
<1>11. Grows
  BY <1>9, <1>10 DEF Grows
<1>12. LogOK'
  BY <1>9 DEF LogOK, Tables, Dsc, Key
<1> QED
  BY <1>3, <1>5, <1>6, <1>8, <1>9, <1>11, <1>12

LEMMA StillGrows ==
  ASSUME DbOK, LogOK, UNCHANGED <<db, log, check>>
  PROVE  DbOK' /\ LogOK' /\ Grows
<1>1. Len(log) \in Nat
  BY DEF LogOK
<1>2. DbOK' /\ LogOK'
  BY DEF DbOK, LogOK, Tables, Columns, Schema, Dsc, Value, Key
<1> QED
  BY <1>1, <1>2, RowsAre DEF Grows

-----------------------------------------------------------------------------
(***************************************************************************)
(* What the database's growing leaves true.                                *)
(***************************************************************************)
LEMMA GrowsOf ==
  ASSUME Grows
  PROVE  /\ Len(db.ms) <= Len(db'.ms) /\ \A i \in 1 .. Len(db.ms) : db'.ms[i] = db.ms[i]
         /\ Len(db.chatTable) <= Len(db'.chatTable)
         /\ \A i \in 1 .. Len(db.chatTable) : db'.chatTable[i] = db.chatTable[i]
BY SchemaIs DEF Grows

LEMMA TableMadeStays ==
  ASSUME DbOK, DbOK', Grows, NEW own, NEW host, TableMade(own, host)
  PROVE  TableMade(own, host)'
<1>1. Len(db.chatTable) \in Nat /\ Len(db'.chatTable) \in Nat
  BY RowsAre, SchemaIs DEF DbOK
<1> QED
  BY <1>1, GrowsOf DEF TableMade

LEMMA FoundGrows ==
  ASSUME DbOK, DbOK', Grows, NEW kind \in {"invite", "connectionRequest", "userPair"}, NEW u
  PROVE  Found(kind, u) \subseteq Found(kind, u)'
<1>1. \A t \in Tables : db[t] \in Seq([Columns(t) -> Value]) /\ db'[t] \in Seq([Columns(t) -> Value])
  BY DEF DbOK
<1>2. ASSUME NEW t \in Tables, NEW conditions
      PROVE  SelectQuery(db[t], conditions) \subseteq SelectQuery(db'[t], conditions)
  <2>1. PICK S : S = [Columns(t) -> Value]
    OBVIOUS
  <2>2. PICK rows \in Seq(S) : rows = db[t]
    BY <1>1, <2>1
  <2>3. PICK more \in Seq(S) : more = db'[t]
    BY <1>1, <2>1
  <2>4. Len(rows) <= Len(more) /\ \A i \in 1 .. Len(rows) : more[i] = rows[i]
    BY <2>2, <2>3 DEF Grows
  <2>5. SelectQuery(rows, conditions) \subseteq SelectQuery(more, conditions)
    BY <2>4, SelectGrows
  <2> QED
    BY <2>2, <2>3, <2>5
<1>3. CASE kind = "invite"
  <2>1. SelectQuery(db["invite"], <<Where("invite", 0, Equal, u)>>)
          \subseteq SelectQuery(db'["invite"], <<Where("invite", 0, Equal, u)>>)
    BY <1>2, SchemaIs
  <2> QED
    BY <1>3, <2>1 DEF Found, InvitesOf
<1>4. CASE kind = "connectionRequest"
  <2>1. PICK n : n = check[u][2]
    OBVIOUS
  <2>2. PICK cs : cs = << Where("connectionRequest", 1, Equal, u),
                         Where("connectionRequest", RowId, EqualAndHigher, n) >>
    OBVIOUS
  <2>3. SelectQuery(db["connectionRequest"], cs) \subseteq SelectQuery(db'["connectionRequest"], cs)
    BY <1>2, SchemaIs
  <2>4. check'[u][2] = n
    BY <2>1 DEF Grows
  <2> QED
    BY <1>4, <2>1, <2>2, <2>3, <2>4 DEF Found, RequestsOf
<1>5. CASE kind = "userPair"
  <2>1. /\ SelectQuery(db["userPair"], <<Where("userPair", 0, Equal, u)>>)
             \subseteq SelectQuery(db'["userPair"], <<Where("userPair", 0, Equal, u)>>)
        /\ SelectQuery(db["userPair"], <<Where("userPair", 1, Equal, u)>>)
             \subseteq SelectQuery(db'["userPair"], <<Where("userPair", 1, Equal, u)>>)
    BY <1>2, SchemaIs
  <2> QED
    BY <1>5, <2>1 DEF Found, FriendList
<1> QED
  BY <1>3, <1>4, <1>5

LEMMA SelectedStays ==
  ASSUME DbOK, DbOK', Grows, NEW u, NEW tables, NEW out, NEW upto \in Nat, upto <= Len(db.ms)
  PROVE  /\ upto <= Len(db'.ms)
         /\ Selected(u, tables, out, upto) => Selected(u, tables, out, upto)'
         /\ FirstWhole(u, tables, out, upto) => FirstWhole(u, tables, out, upto)'
<1>1. Len(db.ms) \in Nat /\ Len(db'.ms) \in Nat
  BY RowsAre, SchemaIs DEF DbOK
<1>2. upto <= Len(db'.ms)
  BY <1>1, GrowsOf
<1>3. Selected(u, tables, out, upto) => Selected(u, tables, out, upto)'
  BY <1>1, GrowsOf DEF Selected
<1>4. ASSUME NEW i \in 1 .. upto PROVE db'.ms[i] = db.ms[i]
  BY <1>1, GrowsOf
<1>5. FirstWhole(u, tables, out, upto) => FirstWhole(u, tables, out, upto)'
  BY <1>4 DEF FirstWhole, Grows
<1> QED
  BY <1>2, <1>3, <1>5

LEMMA TaskKinds ==
  ASSUME NEW t \in Task
  PROVE  /\ t.pc \in {"idle", "key", "part", "table", "mark"}
         /\ t.pc \in {"key", "part"} =>
              t \in [pc : {"key", "part"}, host : Senders, list : Seq(Users), all : Seq(Users),
                     own : Nat, mark : Nat, key : Nat, raced : BOOLEAN]
         /\ t.pc \in {"table", "mark"} =>
              t \in [pc : {"table", "mark"}, u : Users, list : Seq(Key), all : Seq(Key),
                     since : Nat, out : SUBSET Nat, upto : Nat]
BY DEF Task

LEMMA TaskStays ==
  ASSUME DbOK, DbOK', LogOK, LogOK', Grows, NEW t \in Task, TaskOK(t)
  PROVE  TaskOK(t)'
<1>1. CASE t.pc \in {"key", "part"}
  <2>1. Len(log) \in Nat /\ Len(log') \in Nat
    BY DEF LogOK
  <2>2. KeyOK(t)'
    <3>1. CASE t.own = 0
      BY <3>1 DEF KeyOK
    <3>2. CASE /\ TableMade(t.own, t.host)
               /\ t.mark \in 1 .. Len(log) /\ log[t.mark].rowid = t.own
               /\ t.pc = "part" => t.raced \/ t.key = t.own
      <4>1. TableMade(t.own, t.host)'
        BY <3>2, TableMadeStays
      <4>2. t.mark \in 1 .. Len(log') /\ log'[t.mark].rowid = t.own
        BY <2>1, <3>2 DEF Grows
      <4> QED
        BY <3>2, <4>1, <4>2 DEF KeyOK
    <3> QED
      BY <1>1, <3>1, <3>2 DEF TaskOK, KeyOK
  <2> QED
    BY <1>1, <2>2 DEF TaskOK
<1>2. CASE t.pc \in {"table", "mark"}
  <2>1. t.upto \in Nat /\ MsgOK(t)
    BY <1>2, TaskKinds DEF TaskOK
  <2>2. /\ t.upto <= Len(db'.ms) /\ Selected(t.u, t.all, t.out, t.upto)'
        /\ FirstWhole(t.u, t.all, t.out, t.upto) => FirstWhole(t.u, t.all, t.out, t.upto)'
    BY <2>1, SelectedStays DEF MsgOK
  <2>3. check' = check
    BY DEF Grows
  <2>4. MsgOK(t)'
    BY <2>1, <2>2, <2>3 DEF MsgOK
  <2> QED
    BY <1>2, <2>4 DEF TaskOK
<1> QED
  BY <1>1, <1>2 DEF TaskOK

LEMMA AnswerStays ==
  ASSUME DbOK, DbOK', Grows, NEW a \in Answer, AnswerOK(a)
  PROVE  AnswerOK(a)'
<1>1. CASE a.kind = "key"
  <2>1. a.own = 0 \/ a.raced \/ (a.key = a.own /\ TableMade(a.own, a.host)')
    BY <1>1, TableMadeStays DEF AnswerOK
  <2> QED
    BY <1>1, <2>1 DEF AnswerOK
<1>2. CASE a.kind = "ms"
  <2>1. a.upto \in Nat
    BY <1>2 DEF Answer, NoAnswer
  <2>2. a.upto <= Len(db'.ms) /\ Selected(a.u, a.tables, a.out, a.upto)'
        /\ FirstWhole(a.u, a.tables, a.out, a.upto)'
    BY <1>2, <2>1, SelectedStays DEF AnswerOK
  <2> QED
    BY <1>2, <2>2 DEF AnswerOK
<1>3. CASE a.kind \in {"invite", "connectionRequest", "userPair"}
  <2>1. a.out \subseteq Found(a.kind, a.u)'
    BY <1>3, FoundGrows DEF AnswerOK
  <2> QED
    BY <1>3, <2>1 DEF AnswerOK
<1> QED
  BY <1>1, <1>2, <1>3 DEF AnswerOK

LEMMA GetTableFits ==
  ASSUME DbOK, PartOK, NEW u \in Users
  PROVE  GetTable(u) \in Seq(Key)
<1> DEFINE mine == SelectQuery(db.part, <<Where("part", 1, Equal, u)>>)
           place(r) == Cardinality({q \in mine : q <= r})
<1>1. /\ Len(db.part) \in Nat /\ DOMAIN db.part = 1 .. Len(db.part)
  BY RowsAre, LenProperties
<1>2. mine = {r \in 1 .. Len(db.part) : db.part[r].user = u}
  BY <1>1, TablesOf
<1>3. mine \in SUBSET (1 .. Len(db.part)) /\ \A r \in mine : db.part[r].tableKey \in Key
  BY <1>2 DEF PartOK
<1>4. /\ Cardinality(mine) \in Nat
      /\ \A i \in 1 .. Cardinality(mine) : \E r \in mine : place(r) = i
  <2> HIDE DEF mine
  <2> QED
    BY <1>1, <1>3, PlacesAreMet
<1>5. ASSUME NEW i \in 1 .. Cardinality(mine)
      PROVE  db.part[CHOOSE r \in mine : place(r) = i].tableKey \in Key
  <2> HIDE DEF mine, place
  <2>1. (CHOOSE r \in mine : place(r) = i) \in mine
    BY <1>4
  <2> QED
    BY <1>3, <2>1
<1>6. GetTable(u) = [i \in 1 .. Cardinality(mine) |-> db.part[CHOOSE r \in mine : place(r) = i].tableKey]
  BY DEF GetTable
<1> HIDE DEF mine, place
<1> QED
  BY <1>4, <1>5, <1>6

-----------------------------------------------------------------------------
(***************************************************************************)
(* The initial states and the steps.                                       *)
(***************************************************************************)
LEMMA InvInit == ASSUME Init PROVE IInv
<1>1. DbOK /\ LogOK
  BY StoreAssumption DEF StoreConstants, Init, DbOK, LogOK
<1>2. PartOK
  <2>1. DOMAIN Old.part = 1 .. Len(Old.part)
    BY <1>1, RowsAre DEF Init
  <2> QED
    BY <2>1, StoreAssumption DEF StoreConstants, PartOK, Init
<1>3. ASSUME NEW u \in Users PROVE GetCheckList(u) \in [0 .. 9 -> Nat]
  <2>1. ASSUME NEW i \in 1 .. 3 PROVE CheckColumn(u, i) \in Nat
    <3> DEFINE found == SelectQuery(db.checkList, <<Where("checkList", 0, Equal, u)>>)
    <3>1. found \subseteq DOMAIN Old.checkList
      BY DEF SelectQuery, Init
    <3>2. CheckColumn(u, i) = IF found = {} THEN 0
                              ELSE Argv("checkList", db.checkList[CHOOSE r \in found : TRUE])[i]
      BY DEF CheckColumn
    <3>3. PICK r : r = CHOOSE k \in found : TRUE
      OBVIOUS
    <3> HIDE DEF found
    <3>4. CASE found = {}
      BY <3>2, <3>4
    <3>5. CASE found # {}
      <4>1. r \in DOMAIN Old.checkList
        BY <3>1, <3>3, <3>5
      <4>2. Argv("checkList", Old.checkList[r])[i] \in Nat
        BY <4>1, StoreAssumption DEF StoreConstants
      <4> QED
        BY <3>2, <3>3, <3>5, <4>2 DEF Init
    <3> QED
      BY <3>4, <3>5
  <2> QED
    BY <2>1 DEF GetCheckList
<1>4. check \in [Users -> [0 .. 9 -> Nat]]
  BY <1>3 DEF Init
<1>5. Free \in Task /\ TaskOK(Free)
  BY DEF Free, Task, TaskOK
<1>6. work \in [Workers -> Task] /\ \A w \in Workers : TaskOK(work[w])
  BY <1>5 DEF Init
<1>7. answer \in Answer /\ AnswerOK(answer)
  BY DEF Init, NoAnswer, Answer, AnswerOK
<1> QED
  BY <1>1, <1>2, <1>4, <1>6, <1>7, TypeParts DEF IInv

\* A step keeps the invariant if what it changes of the tasks and the answer fits.
LEMMA StepKeeps ==
  ASSUME IInv, DbOK', LogOK', PartOK', Grows,
         work' \in [Workers -> Task], answer' \in Answer,
         \A v \in Workers : work'[v] = work[v] \/ TaskOK(work[v])',
         answer' = answer \/ AnswerOK(answer)'
  PROVE  IInv' /\ Grows
<1>1. DbOK /\ LogOK /\ check \in [Users -> [0 .. 9 -> Nat]] /\ work \in [Workers -> Task] /\ answer \in Answer
  BY TypeParts DEF IInv
<1>2. ASSUME NEW v \in Workers PROVE TaskOK(work[v])'
  <2>1. PICK t \in Task : t = work[v]
    BY <1>1
  <2>2. TaskOK(t)'
    BY <1>1, <2>1, TaskStays DEF IInv
  <2> QED
    BY <2>1, <2>2
<1>3. AnswerOK(answer)'
  <2>1. PICK a \in Answer : a = answer
    BY <1>1
  <2>2. AnswerOK(a)'
    BY <1>1, <2>1, AnswerStays DEF IInv
  <2> QED
    BY <2>1, <2>2
<1>4. TypeOK'
  BY <1>1 DEF TypeOK, DbOK, LogOK, Grows
<1> QED
  BY <1>2, <1>3, <1>4 DEF IInv

LEMMA InsertKeeps ==
  ASSUME IInv, NEW q, Fit(q), Insert(q), check' = check, q.table # "part" \/ RowOf(q).user \in Nat
  PROVE  DbOK' /\ LogOK' /\ PartOK' /\ Grows
<1>1. DbOK /\ LogOK /\ PartOK
  BY TypeParts DEF IInv
<1>2. /\ DbOK' /\ LogOK' /\ Grows
      /\ db'[q.table] = Append(db[q.table], RowOf(q))
      /\ \A t \in Tables : t # q.table => db'[t] = db[t]
  BY <1>1, InsertGrows
<1>3. CASE q.table # "part"
  <2>1. db'["part"] = db["part"]
    BY <1>2, <1>3, SchemaIs
  <2> QED
    BY <1>1, <1>2, <2>1 DEF PartOK
<1>4. CASE q.table = "part"
  <2>1. PICK rows \in Seq([Columns("part") -> Value]) : rows = db.part
    BY <1>1, RowsAre
  <2>2. PICK row : row = RowOf(q)
    OBVIOUS
  <2>3. row \in [Columns("part") -> Value] /\ row.user \in Nat
    BY <1>4, <2>2, RowFits DEF Insert
  <2>4. db'.part = Append(rows, row)
    BY <1>2, <1>4, <2>1, <2>2
  <2>5. Len(Append(rows, row)) = Len(rows) + 1 /\ Append(rows, row)[Len(rows) + 1] = row /\ Len(rows) \in Nat
        /\ \A i \in 1 .. Len(rows) : Append(rows, row)[i] = rows[i]
    BY <2>3
  <2>6. row.user \notin Users
    BY <2>3, StoreAssumption DEF StoreConstants
  <2>7. ASSUME NEW r \in 1 .. Len(rows) + 1, Append(rows, row)[r].user \in Users
        PROVE  Append(rows, row)[r].tableKey \in Key
    <3>1. r \in 1 .. Len(rows)
      BY <2>5, <2>6, <2>7
    <3> QED
      BY <1>1, <2>1, <2>5, <2>7, <3>1 DEF PartOK
  <2>8. PartOK'
    BY <2>4, <2>5, <2>7 DEF PartOK
  <2> QED
    BY <1>2, <2>8
<1> QED
  BY <1>3, <1>4

\* A step that does no INSERT.
LEMMA StillKeeps ==
  ASSUME IInv, UNCHANGED <<db, log, check>>
  PROVE  DbOK' /\ LogOK' /\ PartOK' /\ Grows
<1>1. DbOK /\ LogOK /\ PartOK
  BY TypeParts DEF IInv
<1>2. DbOK' /\ LogOK' /\ Grows
  BY <1>1, StillGrows
<1> QED
  BY <1>1, <1>2 DEF PartOK

LEMMA OneTask ==
  ASSUME TypeOK, NEW w \in Workers, NEW t \in Task, Set(w, t), TaskOK(t)'
  PROVE  /\ work' \in [Workers -> Task]
         /\ \A v \in Workers : work'[v] = work[v] \/ TaskOK(work[v])'
<1>1. work \in [Workers -> Task] /\ work' = [work EXCEPT ![w] = t]
  BY DEF TypeOK, Set
<1>2. work' \in [Workers -> Task]
  BY <1>1
<1>3. work'[w] = t /\ \A v \in Workers : v # w => work'[v] = work[v]
  BY <1>1
<1>4. TaskOK(work[w])'
  BY <1>3
<1> QED
  BY <1>2, <1>3, <1>4

LEMMA FreeFits == Free \in Task /\ TaskOK(Free)'
BY DEF Free, Task, TaskOK

LEMMA SameWork == ASSUME TypeOK, work' = work PROVE work' \in [Workers -> Task]
BY DEF TypeOK

LEMMA SameAnswer == ASSUME TypeOK, answer' = answer PROVE answer' \in Answer
BY DEF TypeOK, Answer, NoAnswer, Key

LEMMA NoAnswerFits == NoAnswer \in Answer /\ AnswerOK(NoAnswer)'
BY DEF NoAnswer, Answer, AnswerOK

-----------------------------------------------------------------------------
(***************************************************************************)
(* The actions.                                                            *)
(***************************************************************************)
\* An INSERT that changes nothing else.
LEMMA InsertOnly ==
  ASSUME IInv, NEW q, Fit(q), Insert(q), q.table # "part", UNCHANGED <<check, work, answer>>
  PROVE  IInv' /\ Grows
<1>1. DbOK' /\ LogOK' /\ PartOK' /\ Grows
  BY InsertKeeps
<1>2. work' \in [Workers -> Task] /\ answer' \in Answer
  BY SameWork, SameAnswer DEF IInv
<1> QED
  BY <1>1, <1>2, StepKeeps

LEMMA MessageInv ==
  ASSUME IInv, NEW w \in Workers, NEW key \in Nat, NEW text \in Texts,
         InsertMessage(w, key, text)
  PROVE  IInv' /\ Grows
<1>2. PICK q : q = InsertPairs("ms", << <<0, key>>, <<1, 0>>, <<2, text>>, <<4, 0>> >>)
  OBVIOUS
<1>3. Fit(q) /\ q.table = "ms"
  BY <1>2, MessageFits
<1>4. Insert(q) /\ UNCHANGED <<check, work, answer>>
  BY <1>2 DEF InsertMessage
<1> QED
  BY <1>3, <1>4, InsertOnly

LEMMA InviteInv ==
  ASSUME IInv, NEW w \in Workers, NEW s \in Senders, NEW key \in Nat, InsertInvite(w, s, key)
  PROVE  IInv' /\ Grows
<1>2. PICK q : q = InsertPairs("invite", << <<0, Nobody>>, <<1, key>>, <<2, s>> >>)
  OBVIOUS
<1>3. Fit(q) /\ q.table = "invite"
  BY <1>2, InviteFits, ValuesAre
<1>4. Insert(q) /\ UNCHANGED <<check, work, answer>>
  BY <1>2 DEF InsertInvite
<1> QED
  BY <1>3, <1>4, InsertOnly

LEMMA ConnectionInv ==
  ASSUME IInv, NEW w \in Workers, NEW s \in Senders, NEW r \in Users, InsertConnection(w, s, r)
  PROVE  IInv' /\ Grows
<1>1. PICK q : q = InsertPairs("connectionRequest", << <<0, s>>, <<1, r>> >>)
  OBVIOUS
<1>2. Fit(q) /\ q.table = "connectionRequest"
  BY <1>1, ConnectionFits, ValuesAre
<1>3. Insert(q) /\ UNCHANGED <<check, work, answer>>
  BY <1>1 DEF InsertConnection
<1> QED
  BY <1>2, <1>3, InsertOnly

\* What create_table goes on with after its first INSERT.
LEMMA BegunFits ==
  ASSUME NEW host \in Senders, NEW cont \in Seq(Users), NEW own \in Nat, NEW mark \in Nat,
         own = 0 \/ (TableMade(own, host)' /\ mark \in 1 .. Len(log') /\ log'[mark].rowid = own)
  PROVE  LET t == [pc |-> "key", host |-> host, list |-> cont, all |-> cont,
                   own |-> own, mark |-> mark, key |-> 0, raced |-> FALSE]
         IN  t \in Task /\ TaskOK(t)'
<1>1. PICK no \in BOOLEAN : no = FALSE
  OBVIOUS
<1> DEFINE t == [pc |-> "key", host |-> host, list |-> cont, all |-> cont,
                 own |-> own, mark |-> mark, key |-> 0, raced |-> no]
<1>2. t \in Task
  BY DEF Task
<1>3. /\ t.pc = "key" /\ t.own = own /\ t.host = host /\ t.mark = mark
      /\ t.list = cont /\ t.all = cont /\ Len(cont) <= Len(cont)
  BY LenProperties
<1> HIDE DEF t
<1>4. TaskOK(t)'
  BY <1>3 DEF TaskOK, KeyOK
<1> QED
  BY <1>1, <1>2, <1>4, Zenon DEF t

LEMMA CreateTableInv ==
  ASSUME IInv, NEW w \in Workers, NEW host \in Senders, NEW cont \in Seq(Users),
         CreateTable(w, host, cont)
  PROVE  IInv' /\ Grows
<1> DEFINE begun(own, mark) ==
             [pc |-> "key", host |-> host, list |-> cont, all |-> cont,
              own |-> own, mark |-> mark, key |-> 0, raced |-> FALSE]
           q == InsertQuery("chatTable", host, Len(cont))
<1>1. /\ DbOK /\ LogOK /\ TypeOK /\ check' = check /\ answer' = NoAnswer
  BY TypeParts DEF IInv, CreateTable
<1>2. answer' \in Answer /\ AnswerOK(answer)'
  <2>1. answer' = NoAnswer
    BY <1>1
  <2> QED
    BY <2>1, NoAnswerFits
<1>3. CASE Insert(q) /\ Set(w, begun(Len(db.chatTable) + 1, Len(log) + 1))
  <2>1. Fit(q) /\ q.table = "chatTable" /\ RowOf(q).host = host
    BY TableFits, ValuesAre, LenProperties
  <2> HIDE DEF q
  <2>2. DbOK' /\ LogOK' /\ PartOK' /\ Grows
    BY <1>1, <1>3, <2>1, InsertKeeps
  <2>3. /\ db'.chatTable = Append(db.chatTable, RowOf(q))
        /\ Len(log') = Len(log) + 1 /\ log'[Len(log) + 1].rowid = Len(db.chatTable) + 1
    BY <1>1, <1>3, <2>1, InsertGrows
  <2>4. PICK rows \in Seq([Columns("chatTable") -> Value]) : rows = db.chatTable
    BY <1>1, RowsAre
  <2>5. PICK row \in [Columns("chatTable") -> Value] : row = RowOf(q)
    BY <1>3, <2>1, RowFits DEF Insert
  <2>6. PICK own \in Nat : own = Len(rows) + 1
    OBVIOUS
  <2>7. PICK mark \in Nat : mark = Len(log) + 1
    BY <1>1 DEF LogOK
  <2>8. Len(Append(rows, row)) = own /\ Append(rows, row)[own] = row /\ own \in 1 .. own
    BY <2>6
  <2>9. TableMade(own, host)'
    BY <2>1, <2>3, <2>4, <2>5, <2>8 DEF TableMade
  <2>10. mark \in 1 .. Len(log') /\ log'[mark].rowid = own
    <3>1. Len(log) \in Nat
      BY <1>1 DEF LogOK
    <3> QED
      BY <2>3, <2>4, <2>6, <2>7, <3>1
  <2>11. begun(own, mark) \in Task /\ TaskOK(begun(own, mark))'
    BY <2>9, <2>10, BegunFits
  <2>12. Set(w, begun(own, mark))
    BY <1>3, <2>4, <2>6, <2>7
  <2> HIDE DEF begun
  <2>13. PICK t : t = begun(own, mark)
    OBVIOUS
  <2>14. /\ work' \in [Workers -> Task]
         /\ \A v \in Workers : work'[v] = work[v] \/ TaskOK(work[v])'
    BY <1>1, <2>11, <2>12, <2>13, OneTask
  <2> QED
    BY <1>2, <2>2, <2>14, StepKeeps
<1>4. CASE Fails /\ Set(w, begun(0, 0))
  <2>1. DbOK' /\ LogOK' /\ PartOK' /\ Grows
    BY <1>1, <1>4, StillKeeps DEF Fails
  <2>2. begun(0, 0) \in Task /\ TaskOK(begun(0, 0))'
    <3>1. PICK n \in Nat : n = 0
      OBVIOUS
    <3>2. n = 0 \/ (TableMade(n, host)' /\ n \in 1 .. Len(log') /\ log'[n].rowid = n)
      BY <3>1
    <3>3. begun(n, n) \in Task /\ TaskOK(begun(n, n))'
      BY <3>2, BegunFits
    <3> QED
      BY <3>1, <3>3
  <2>3. Set(w, begun(0, 0))
    BY <1>4
  <2> HIDE DEF begun
  <2>4. /\ work' \in [Workers -> Task]
        /\ \A v \in Workers : work'[v] = work[v] \/ TaskOK(work[v])'
    BY <1>1, <2>2, <2>3, OneTask
  <2> QED
    BY <1>2, <2>1, <2>4, StepKeeps
<1>5. (Insert(q) /\ Set(w, begun(Len(db.chatTable) + 1, Len(log) + 1))) \/ (Fails /\ Set(w, begun(0, 0)))
  BY DEF CreateTable
<1> QED
  BY <1>3, <1>4, <1>5

\* A step of a task that executes no INSERT and leaves the answer.
LEMMA TaskOnly ==
  ASSUME IInv, NEW w \in Workers, NEW t \in Task, Set(w, t), TaskOK(t)',
         UNCHANGED <<db, log, check, answer>>
  PROVE  IInv' /\ Grows
<1>1. DbOK' /\ LogOK' /\ PartOK' /\ Grows
  BY StillKeeps
<1>2. /\ work' \in [Workers -> Task] /\ answer' \in Answer
      /\ \A v \in Workers : work'[v] = work[v] \/ TaskOK(work[v])'
  BY OneTask, SameAnswer DEF IInv
<1> QED
  BY <1>1, <1>2, StepKeeps

\* A handler's last step.
LEMMA EndOnly ==
  ASSUME IInv, NEW w \in Workers, Set(w, Free), answer' \in Answer, AnswerOK(answer)',
         UNCHANGED <<db, log, check>>
  PROVE  IInv' /\ Grows
<1>1. DbOK' /\ LogOK' /\ PartOK' /\ Grows
  BY StillKeeps
<1>2. /\ work' \in [Workers -> Task]
      /\ \A v \in Workers : work'[v] = work[v] \/ TaskOK(work[v])'
  BY FreeFits, OneTask DEF IInv
<1> QED
  BY <1>1, <1>2, StepKeeps

LEMMA LastIs ==
  ASSUME LogOK
  PROVE  LastInsertRowid \in Nat /\ (log # <<>> => LastInsertRowid = log[Len(log)].rowid)
<1>1. CASE log = <<>>
  BY <1>1 DEF LastInsertRowid
<1>2. CASE log # <<>>
  <2>1. Len(log) \in 1 .. Len(log)
    BY <1>2 DEF LogOK
  <2>2. log[Len(log)] \in [table : Tables, rowid : Key]
    <3>1. PICK S : S = [table : Tables, rowid : Key]
      OBVIOUS
    <3>2. PICK s \in Seq(S) : s = log
      BY <3>1 DEF LogOK
    <3>3. s[Len(s)] \in S
      BY <2>1, <3>2
    <3> QED
      BY <3>1, <3>2, <3>3
  <2> QED
    BY <1>2, <2>2 DEF LastInsertRowid, Key
<1> QED
  BY <1>1, <1>2

LEMMA CreateKeyInv ==
  ASSUME IInv, NEW w \in Workers, CreateKey(w)
  PROVE  IInv' /\ Grows
<1>1. LogOK /\ TypeOK
  BY TypeParts DEF IInv
<1>2. PICK t \in Task : t = work[w]
  BY <1>1 DEF TypeOK
<1>3. /\ t.pc = "key" /\ TaskOK(t) /\ UNCHANGED <<db, log, check, answer>>
      /\ Set(w, [t EXCEPT !.pc = "part", !.key = LastInsertRowid, !.raced = (Len(log) # t.mark)])
  BY <1>2 DEF CreateKey, IInv
<1>4. t \in [pc : {"key", "part"}, host : Senders, list : Seq(Users), all : Seq(Users),
             own : Nat, mark : Nat, key : Nat, raced : BOOLEAN]
  BY <1>3, TaskKinds
<1>5. PICK raced \in BOOLEAN : raced = (Len(log) # t.mark)
  BY Zenon
<1>6. PICK key \in Nat : key = LastInsertRowid
  BY <1>1, LastIs
<1>7. PICK n : n = [t EXCEPT !.pc = "part", !.key = key, !.raced = raced]
  OBVIOUS
<1>8. Set(w, n)
  BY <1>3, <1>5, <1>6, <1>7, Zenon
<1>9. /\ n \in [pc : {"key", "part"}, host : Senders, list : Seq(Users), all : Seq(Users),
                own : Nat, mark : Nat, key : Nat, raced : BOOLEAN]
      /\ n.pc = "part" /\ n.key = key /\ n.own = t.own /\ n.host = t.host /\ n.mark = t.mark
      /\ n.list = t.list /\ n.all = t.all
  BY <1>4, <1>7
<1>10. n.raced = raced
  BY <1>4, <1>7, Zenon
<1>11. n \in Task
  BY <1>9 DEF Task
<1>12. ~raced => Len(log) = t.mark
  BY <1>5
<1>13. KeyOK(t) /\ Len(t.list) <= Len(t.all)
  BY <1>3 DEF TaskOK
<1>14. t.own # 0 => TableMade(t.own, t.host)' /\ t.mark \in 1 .. Len(log') /\ log'[t.mark].rowid = t.own
  BY <1>3, <1>13 DEF KeyOK, TableMade
<1>15. t.own # 0 /\ ~raced => key = t.own
  <2> SUFFICES ASSUME t.own # 0, ~raced PROVE key = t.own
    OBVIOUS
  <2>1. t.mark \in 1 .. Len(log) /\ log[t.mark].rowid = t.own /\ Len(log) = t.mark
    BY <1>12, <1>13 DEF KeyOK
  <2>2. log # <<>>
    <3>1. Len(log) # 0
      BY <1>1, <2>1 DEF LogOK
    <3> QED
      BY <3>1
  <2> QED
    BY <1>1, <1>6, <2>1, <2>2, LastIs
<1>16. n.raced \/ ~raced
  BY <1>10
<1>17. KeyOK(n)'
  BY <1>9, <1>14, <1>15, <1>16 DEF KeyOK
<1>18. TaskOK(n)'
  BY <1>9, <1>13, <1>17 DEF TaskOK
<1> QED
  BY <1>3, <1>8, <1>11, <1>18, TaskOnly

LEMMA CreatePartInv ==
  ASSUME IInv, NEW w \in Workers, CreatePart(w)
  PROVE  IInv' /\ Grows
<1>1. DbOK /\ LogOK /\ TypeOK
  BY TypeParts DEF IInv
<1>2. PICK t \in Task : t = work[w]
  BY <1>1 DEF TypeOK
<1>3. /\ t.pc = "part" /\ TaskOK(t) /\ UNCHANGED <<check, answer>>
      /\ Set(w, [t EXCEPT !.list = Tail(@)]) /\ t.list # <<>>
      /\ Insert(InsertPart(t)) \/ Fails
  BY <1>2 DEF CreatePart, IInv
<1>4. t \in [pc : {"key", "part"}, host : Senders, list : Seq(Users), all : Seq(Users),
             own : Nat, mark : Nat, key : Nat, raced : BOOLEAN]
  BY <1>3, TaskKinds
<1>5. PICK list \in Seq(Users) : list = t.list
  BY <1>4
<1>6. Head(list) \in Users /\ Tail(list) \in Seq(Users) /\ Len(Tail(list)) = Len(list) - 1
      /\ Len(list) \in Nat
  BY <1>3, <1>5
<1>7. Len(t.all) - Len(t.list) \in Nat /\ Len(Tail(list)) <= Len(t.all)
  <2>1. Len(t.all) \in Nat /\ Len(t.list) <= Len(t.all)
    BY <1>3, <1>4, LenProperties DEF TaskOK
  <2> QED
    BY <1>5, <1>6, <2>1
<1>8. DbOK' /\ LogOK' /\ PartOK' /\ Grows
  <2>1. CASE Insert(InsertPart(t))
    <3>1. PICK q : q = InsertPart(t)
      OBVIOUS
    <3>2. t.key \in Nat /\ Head(t.list) \in Value
      BY <1>4, <1>5, <1>6, ValuesAre
    <3>3. PICK n : n = Len(t.all) - Len(t.list)
      OBVIOUS
    <3>4. q = AddCondition(InsertQuery("part", Head(t.list), t.key), n)
      BY <3>1, <3>3 DEF InsertPart
    <3>5. n \in Nat
      BY <1>7, <3>3
    <3>6. Fit(q) /\ q.table = "part" /\ RowOf(q).user = t.key
      BY <3>2, <3>4, <3>5, PartFits
    <3> QED
      BY <1>3, <2>1, <3>1, <3>2, <3>6, InsertKeeps
  <2>2. CASE Fails
    BY <1>3, <2>2, StillKeeps DEF Fails
  <2> QED
    BY <1>3, <2>1, <2>2
<1>9. PICK n : n = [t EXCEPT !.list = Tail(list)]
  OBVIOUS
<1>10. Set(w, n)
  BY <1>3, <1>5, <1>9
<1>11. /\ n \in [pc : {"key", "part"}, host : Senders, list : Seq(Users), all : Seq(Users),
                 own : Nat, mark : Nat, key : Nat, raced : BOOLEAN]
       /\ n.pc = "part" /\ n.key = t.key /\ n.own = t.own /\ n.host = t.host /\ n.mark = t.mark
       /\ n.list = Tail(list) /\ n.all = t.all
  BY <1>3, <1>4, <1>6, <1>9
<1>12. n.raced = t.raced
  BY <1>4, <1>9, Zenon
<1>13. n \in Task
  BY <1>11 DEF Task
<1>14. TaskOK(t)'
  BY <1>1, <1>3, <1>8, TaskStays
<1>15. KeyOK(t)'
  BY <1>3, <1>14 DEF TaskOK
<1>16. n.raced <=> t.raced
  BY <1>12
<1>17. KeyOK(n)'
  BY <1>3, <1>11, <1>15, <1>16 DEF KeyOK
<1>18. TaskOK(n)'
  BY <1>7, <1>11, <1>17 DEF TaskOK
<1>19. /\ work' \in [Workers -> Task] /\ answer' \in Answer
       /\ \A v \in Workers : work'[v] = work[v] \/ TaskOK(work[v])'
  BY <1>1, <1>3, <1>10, <1>13, <1>18, OneTask, SameAnswer
<1> QED
  BY <1>3, <1>8, <1>19, StepKeeps

LEMMA CreateEndInv ==
  ASSUME IInv, NEW w \in Workers, CreateEnd(w)
  PROVE  IInv' /\ Grows
<1>1. TypeOK
  BY DEF IInv
<1>2. PICK t \in Task : t = work[w]
  BY <1>1 DEF TypeOK
<1>3. /\ t.pc = "part" /\ TaskOK(t) /\ UNCHANGED <<db, log, check>> /\ Set(w, Free)
      /\ answer' = [kind |-> "key", host |-> t.host, cont |-> t.all,
                    key |-> t.key, own |-> t.own, raced |-> t.raced]
  BY <1>2 DEF CreateEnd, IInv
<1>4. t \in [pc : {"key", "part"}, host : Senders, list : Seq(Users), all : Seq(Users),
             own : Nat, mark : Nat, key : Nat, raced : BOOLEAN]
  BY <1>3, TaskKinds
<1>5. PICK raced \in BOOLEAN : raced = t.raced
  BY <1>4
<1>6. PICK a : a = [kind |-> "key", host |-> t.host, cont |-> t.all,
                    key |-> t.key, own |-> t.own, raced |-> raced]
  OBVIOUS
<1>7. answer' = a
  BY <1>3, <1>5, <1>6, Zenon
<1>8. a \in Answer
  BY <1>4, <1>6 DEF Answer
<1>9. a.kind = "key" /\ a.own = t.own /\ a.key = t.key /\ a.host = t.host
  BY <1>6
<1>10. a.raced = raced
  BY <1>6, Zenon
<1>11. KeyOK(t)
  BY <1>3 DEF TaskOK
<1>12. a.raced <=> t.raced
  BY <1>5, <1>10
<1>13. AnswerOK(a)'
  BY <1>3, <1>9, <1>11, <1>12 DEF AnswerOK, KeyOK, TableMade
<1> QED
  BY <1>3, <1>7, <1>8, <1>13, EndOnly

LEMMA GetMsgInv ==
  ASSUME IInv, NEW w \in Workers, NEW u \in Users, GetMsg(w, u)
  PROVE  IInv' /\ Grows
<1>1. DbOK /\ LogOK /\ PartOK /\ TypeOK
  BY TypeParts DEF IInv
<1>2. PICK list \in Seq(Key) : list = GetTable(u)
  BY <1>1, GetTableFits
<1>3. PICK since \in Nat : since = check[u][0]
  <2>1. check \in [Users -> [0 .. 9 -> Nat]]
    BY <1>1, TypeParts
  <2>2. check[u] \in [0 .. 9 -> Nat] /\ 0 \in 0 .. 9
    BY <2>1
  <2> QED
    BY <2>2
<1>4. PICK upto \in Nat : upto = Len(db.ms)
  BY <1>1, RowsAre, SchemaIs
<1>5. PICK n : n = [pc |-> "table", u |-> u, list |-> list, all |-> list,
                    since |-> since, out |-> {}, upto |-> upto]
  OBVIOUS
<1>6. Set(w, n) /\ answer' = NoAnswer /\ UNCHANGED <<db, log, check>>
  BY <1>2, <1>3, <1>4, <1>5 DEF GetMsg
<1>7. n \in Task
  BY <1>5 DEF Task
<1>8. n.pc = "table" /\ n.u = u /\ n.list = list /\ n.all = list /\ n.since = since /\ n.out = {} /\ n.upto = upto
  BY <1>5
<1>9. MsgOK(n)'
  <2>1. Selected(n.u, n.all, n.out, n.upto)'
    BY <1>8 DEF Selected
  <2>2. n.upto <= Len(db'.ms)
    BY <1>4, <1>6, <1>8
  <2>3. n.since = check'[n.u][0]
    BY <1>3, <1>6, <1>8
  <2> QED
    BY <1>8, <2>1, <2>2, <2>3 DEF MsgOK
<1>10. TaskOK(n)'
  BY <1>8, <1>9 DEF TaskOK
<1>11. DbOK' /\ LogOK' /\ PartOK' /\ Grows
  BY <1>6, StillKeeps
<1>12. /\ work' \in [Workers -> Task]
       /\ \A v \in Workers : work'[v] = work[v] \/ TaskOK(work[v])'
  BY <1>1, <1>6, <1>7, <1>10, OneTask
<1>13. answer' \in Answer /\ AnswerOK(answer)'
  BY <1>6, NoAnswerFits
<1> QED
  BY <1>11, <1>12, <1>13, StepKeeps

LEMMA GetMsgTableInv ==
  ASSUME IInv, NEW w \in Workers, GetMsgTable(w)
  PROVE  IInv' /\ Grows
<1>1. DbOK /\ TypeOK
  BY TypeParts DEF IInv
<1>2. PICK t \in Task : t = work[w]
  BY <1>1 DEF TypeOK
<1>3. PICK new : new = MessagesIn(Head(t.list), t.since)
  OBVIOUS
<1>4. /\ t.pc = "table" /\ t.list # <<>> /\ MsgOK(t) /\ UNCHANGED <<db, log, check, answer>>
      /\ Set(w, [t EXCEPT !.pc = "mark", !.out = @ \cup new])
  BY <1>2, <1>3 DEF GetMsgTable, IInv, TaskOK
<1>5. t \in [pc : {"table", "mark"}, u : Users, list : Seq(Key), all : Seq(Key),
             since : Nat, out : SUBSET Nat, upto : Nat]
  BY <1>4, TaskKinds
<1>6. PICK list \in Seq(Key) : list = t.list
  BY <1>5
<1>7. 1 \in 1 .. Len(list) /\ Head(list) = list[1]
  BY <1>4, <1>6
<1>8. /\ Len(db.ms) \in Nat
      /\ new = {r \in 1 .. Len(db.ms) : db.ms[r].tableKey = list[1] /\ r > t.since}
  <2>1. Len(db.ms) \in Nat /\ DOMAIN db.ms = 1 .. Len(db.ms)
    BY <1>1, RowsAre, LenProperties
  <2> QED
    BY <1>3, <1>6, <1>7, <2>1, MessagesAre
<1>9. PICK n : n = [t EXCEPT !.pc = "mark", !.out = t.out \cup new]
  OBVIOUS
<1>10. Set(w, n)
  BY <1>4, <1>9
<1>11. /\ n \in [pc : {"table", "mark"}, u : Users, list : Seq(Key), all : Seq(Key),
                 since : Nat, out : SUBSET Nat, upto : Nat]
       /\ n.pc = "mark" /\ n.u = t.u /\ n.list = list /\ n.all = t.all /\ n.since = t.since
       /\ n.out = t.out \cup new /\ n.upto = t.upto
  <2>1. new \in SUBSET Nat
    BY <1>8
  <2> QED
    BY <1>5, <1>6, <1>9, <2>1
<1>12. PICK j \in 1 .. Len(t.all) : list[1] = t.all[j]
  BY <1>4, <1>6, <1>7 DEF MsgOK
<1>13. Selected(t.u, t.all, t.out \cup new, t.upto)
  BY <1>4, <1>8, <1>12 DEF Selected, MsgOK
<1>14. FirstWhole(t.u, t.all, t.out \cup new, t.upto)
  <2>1. CASE t.list = t.all /\ t.since = check[t.u][0]
    <3>1. t.upto \in Nat /\ t.upto <= Len(db.ms)
      BY <1>4, <1>5 DEF MsgOK
    <3>2. \A i \in 1 .. t.upto : i \in 1 .. Len(db.ms)
      BY <1>8, <3>1
    <3> QED
      BY <1>6, <1>8, <2>1, <3>2 DEF FirstWhole
  <2>2. CASE FirstWhole(t.u, t.all, t.out, t.upto)
    BY <2>2 DEF FirstWhole
  <2> QED
    BY <1>4, <2>1, <2>2 DEF MsgOK
<1>15. t.all # <<>>
  <2>1. Len(t.all) # 0
    BY <1>5, <1>12
  <2> QED
    BY <2>1
<1>16. MsgOK(n)
  BY <1>4, <1>6, <1>11, <1>13, <1>14, <1>15 DEF MsgOK
<1>17. TaskOK(n)'
  BY <1>4, <1>11, <1>16 DEF TaskOK, MsgOK, Selected, FirstWhole
<1>18. n \in Task
  BY <1>11 DEF Task
<1> QED
  BY <1>4, <1>10, <1>17, <1>18, TaskOnly

LEMMA GetMsgMarkInv ==
  ASSUME IInv, NEW w \in Workers, GetMsgMark(w)
  PROVE  IInv' /\ Grows
<1>1. LogOK /\ TypeOK
  BY TypeParts DEF IInv
<1>2. PICK t \in Task : t = work[w]
  BY <1>1 DEF TypeOK
<1>3. PICK since \in Nat : since = LastInsertRowid
  BY <1>1, LastIs
<1>4. /\ t.pc = "mark" /\ MsgOK(t) /\ UNCHANGED <<db, log, check, answer>>
      /\ Set(w, [t EXCEPT !.pc = "table", !.list = Tail(@), !.since = since])
  BY <1>2, <1>3 DEF GetMsgMark, IInv, TaskOK
<1>5. t \in [pc : {"table", "mark"}, u : Users, list : Seq(Key), all : Seq(Key),
             since : Nat, out : SUBSET Nat, upto : Nat]
  BY <1>4, TaskKinds
<1>6. PICK list \in Seq(Key) : list = t.list
  BY <1>5
<1>7. /\ Tail(list) \in Seq(Key) /\ Len(Tail(list)) = Len(list) - 1 /\ Len(list) \in Nat
      /\ \A i \in 1 .. Len(Tail(list)) : i + 1 \in 1 .. Len(list) /\ Tail(list)[i] = list[i + 1]
  <2>1. list # <<>>
    BY <1>4, <1>6 DEF MsgOK
  <2> QED
    BY <2>1
<1>8. PICK n : n = [t EXCEPT !.pc = "table", !.list = Tail(list), !.since = since]
  OBVIOUS
<1>9. Set(w, n)
  BY <1>4, <1>6, <1>8
<1>10. /\ n \in [pc : {"table", "mark"}, u : Users, list : Seq(Key), all : Seq(Key),
                 since : Nat, out : SUBSET Nat, upto : Nat]
       /\ n.pc = "table" /\ n.u = t.u /\ n.list = Tail(list) /\ n.all = t.all
       /\ n.out = t.out /\ n.upto = t.upto
  BY <1>5, <1>7, <1>8
<1>11. \A i \in 1 .. Len(Tail(list)) : \E j \in 1 .. Len(t.all) : Tail(list)[i] = t.all[j]
  BY <1>4, <1>6, <1>7 DEF MsgOK
<1>12. MsgOK(n)
  BY <1>4, <1>10, <1>11 DEF MsgOK
<1>13. TaskOK(n)'
  BY <1>4, <1>10, <1>12 DEF TaskOK, MsgOK, Selected, FirstWhole
<1>14. n \in Task
  BY <1>10 DEF Task
<1> QED
  BY <1>4, <1>9, <1>13, <1>14, TaskOnly

LEMMA GetMsgEndInv ==
  ASSUME IInv, NEW w \in Workers, GetMsgEnd(w)
  PROVE  IInv' /\ Grows
<1>1. TypeOK
  BY DEF IInv
<1>2. PICK t \in Task : t = work[w]
  BY <1>1 DEF TypeOK
<1>3. PICK a : a = [kind |-> "ms", u |-> t.u, tables |-> t.all, out |-> t.out, upto |-> t.upto]
  OBVIOUS
<1>4. /\ t.pc = "table" /\ t.list = <<>> /\ MsgOK(t) /\ UNCHANGED <<db, log, check>>
      /\ Set(w, Free) /\ answer' = a
  BY <1>2, <1>3 DEF GetMsgEnd, IInv, TaskOK
<1>5. t \in [pc : {"table", "mark"}, u : Users, list : Seq(Key), all : Seq(Key),
             since : Nat, out : SUBSET Nat, upto : Nat]
  BY <1>4, TaskKinds
<1>6. a \in Answer
  BY <1>3, <1>5 DEF Answer
<1>7. a.kind = "ms" /\ a.u = t.u /\ a.tables = t.all /\ a.out = t.out /\ a.upto = t.upto
  BY <1>3
<1>8. FirstWhole(t.u, t.all, t.out, t.upto)
  BY <1>4 DEF MsgOK, FirstWhole
<1>9. AnswerOK(a)
  BY <1>4, <1>7, <1>8 DEF AnswerOK, MsgOK
<1>10. AnswerOK(a)'
  BY <1>4, <1>7, <1>9 DEF AnswerOK, Selected, FirstWhole
<1> QED
  BY <1>4, <1>6, <1>10, EndOnly

LEMMA GetInv ==
  ASSUME IInv, NEW w \in Workers, NEW u \in Users,
         NEW kind \in {"invite", "connectionRequest", "userPair"}, Get(w, kind, u)
  PROVE  IInv' /\ Grows
<1>1. TypeOK /\ DbOK
  BY TypeParts DEF IInv
<1>2. PICK out : out = Found(kind, u)
  OBVIOUS
<1>3. PICK a : a = [kind |-> kind, u |-> u, out |-> out]
  OBVIOUS
<1>4. answer' = a /\ UNCHANGED <<db, log, check, work>>
  BY <1>2, <1>3 DEF Get
<1>5. ASSUME NEW t \in Tables, NEW conditions PROVE SelectQuery(db[t], conditions) \subseteq Nat
  <2>1. DOMAIN db[t] = 1 .. Len(db[t])
    BY <1>1, LenProperties DEF DbOK
  <2> QED
    BY <2>1 DEF SelectQuery
<1>6. out \in SUBSET Nat
  <2>1. CASE kind = "invite"
    BY <1>2, <1>5, <2>1, SchemaIs DEF Found, InvitesOf
  <2>2. CASE kind = "connectionRequest"
    BY <1>2, <1>5, <2>2, SchemaIs DEF Found, RequestsOf
  <2>3. CASE kind = "userPair"
    BY <1>2, <1>5, <2>3, SchemaIs DEF Found, FriendList
  <2> QED
    BY <2>1, <2>2, <2>3
<1>7. a \in Answer
  BY <1>3, <1>6 DEF Answer
<1>8. a.kind = kind /\ a.u = u /\ a.out = out
  BY <1>3
<1>9. DbOK' /\ LogOK' /\ PartOK' /\ Grows
  BY <1>4, StillKeeps
<1>10. AnswerOK(a)'
  <2>1. a.out \subseteq Found(kind, u)'
    BY <1>1, <1>2, <1>8, <1>9, FoundGrows
  <2> QED
    BY <1>8, <2>1 DEF AnswerOK
<1>11. work' \in [Workers -> Task]
  BY <1>1, <1>4, SameWork
<1> QED
  BY <1>4, <1>7, <1>9, <1>10, <1>11, StepKeeps

LEMMA ContsAre == Conts \subseteq Seq(Users)
<1> SUFFICES ASSUME NEW cont \in Conts PROVE cont \in Seq(Users)
  OBVIOUS
<1>1. PICK n \in 0 .. MaxCont : cont \in [1 .. n -> Users]
  BY DEF Conts
<1>2. n \in Nat
  OBVIOUS
<1> QED
  BY <1>1, <1>2

LEMMA InvStep == ASSUME IInv, [Next]_vars PROVE IInv'
<1>1. ASSUME NEW w \in Workers, Request(w) PROVE IInv'
  <2>0. Len(db.chatTable) \in Nat /\ DOMAIN db.chatTable = 1 .. Len(db.chatTable)
    BY TypeParts, RowsAre, LenProperties DEF IInv
  <2>1. ASSUME NEW key \in DOMAIN db.chatTable, NEW text \in Texts, InsertMessage(w, key, text)
        PROVE  IInv'
    <3>1. key \in Nat
      BY <2>0
    <3> QED
      BY <2>1, <3>1, MessageInv
  <2>2. ASSUME NEW s \in Senders, InsertInvite(w, s, Len(db.chatTable)) PROVE IInv'
    BY <2>0, <2>2, InviteInv
  <2>3. ASSUME NEW s \in Senders, NEW r \in Users, InsertConnection(w, s, r) PROVE IInv'
    BY <2>3, ConnectionInv
  <2>4. ASSUME NEW h \in Senders, NEW cont \in Conts, CreateTable(w, h, cont) PROVE IInv'
    <3>1. cont \in Seq(Users)
      BY ContsAre
    <3> QED
      BY <2>4, <3>1, CreateTableInv
  <2>5. ASSUME NEW u \in Users, GetMsg(w, u) PROVE IInv'
    BY <2>5, GetMsgInv
  <2>6. ASSUME NEW u \in Users, NEW kind \in {"invite", "connectionRequest", "userPair"}, Get(w, kind, u)
        PROVE  IInv'
    BY <2>6, GetInv
  <2> QED
    BY <1>1, <2>1, <2>2, <2>3, <2>4, <2>5, <2>6 DEF Request
<1>2. ASSUME NEW w \in Workers, Advance(w) PROVE IInv'
  BY <1>2, CreateKeyInv, CreatePartInv, CreateEndInv, GetMsgTableInv, GetMsgMarkInv, GetMsgEndInv
     DEF Advance
<1>3. CASE UNCHANGED vars
  <2>1. UNCHANGED <<db, log, check, work, answer>>
    BY <1>3 DEF vars
  <2>2. DbOK' /\ LogOK' /\ PartOK' /\ Grows
    BY <2>1, StillKeeps
  <2>3. work' \in [Workers -> Task] /\ answer' \in Answer
    BY <2>1, SameWork, SameAnswer DEF IInv
  <2> QED
    BY <2>1, <2>2, <2>3, StepKeeps
<1> QED
  BY <1>1, <1>2, <1>3 DEF Next

-----------------------------------------------------------------------------
(***************************************************************************)
(* What Delivery needs to know of the steps.                               *)
(***************************************************************************)
LEMMA InitMark == ASSUME Init PROVE \A u \in Users : check[u][0] = 0
BY DEF Init, GetCheckList

\* A message that was inserted is the last one.
LEMMA MessageStored ==
  ASSUME IInv, NEW w \in Workers, NEW key \in Nat, NEW text \in Texts, InsertMessage(w, key, text)
  PROVE  Len(db'.ms) \in Nat \ {0} /\ db'.ms[Len(db'.ms)].tableKey = key
<1>1. DbOK /\ LogOK
  BY TypeParts DEF IInv
<1>2. PICK q : q = InsertPairs("ms", << <<0, key>>, <<1, 0>>, <<2, text>>, <<4, 0>> >>)
  OBVIOUS
<1>3. Fit(q) /\ q.table = "ms" /\ RowOf(q).tableKey = key
  BY <1>2, MessageFits
<1>4. Insert(q) /\ check' = check
  BY <1>2 DEF InsertMessage
<1>5. db'.ms = Append(db.ms, RowOf(q))
  BY <1>1, <1>3, <1>4, InsertGrows
<1>6. PICK rows \in Seq([Columns("ms") -> Value]) : rows = db.ms
  BY <1>1, RowsAre
<1>7. PICK row \in [Columns("ms") -> Value] : row = RowOf(q)
  BY <1>3, <1>4, RowFits DEF Insert
<1>8. Len(Append(rows, row)) = Len(rows) + 1 /\ Append(rows, row)[Len(rows) + 1] = row /\ Len(rows) \in Nat
  OBVIOUS
<1> QED
  BY <1>3, <1>5, <1>6, <1>7, <1>8

Msgs == {"table", "mark"}

\* A GetMsg under way keeps what it began with.
LEMMA UptoStays ==
  ASSUME TypeOK, NEW w \in Workers, NEW v \in Workers,
         \/ CreateKey(w) \/ CreatePart(w) \/ CreateEnd(w)
         \/ GetMsgTable(w) \/ GetMsgMark(w) \/ GetMsgEnd(w)
         \/ \E host \in Senders, cont \in Seq(Users) : CreateTable(w, host, cont)
  PROVE  work'[v].pc \in Msgs => work[v].pc \in Msgs /\ work'[v].upto = work[v].upto
<1>1. PICK n : Set(w, n)
  BY DEF CreateKey, CreatePart, CreateEnd, GetMsgTable, GetMsgMark, GetMsgEnd, CreateTable
<1>2. \A x \in Workers : work'[x] = IF x = w THEN work'[w] ELSE work[x]
  BY <1>1 DEF Set, TypeOK
<1>3. CASE v # w
  BY <1>2, <1>3
<1>4. CASE v = w
  <2>1. PICK t \in Task : t = work[w]
    BY DEF TypeOK
  <2>2. work \in [Workers -> Task]
    BY DEF TypeOK
  <2>3. CASE CreateKey(w) \/ CreatePart(w)
    <3>1. t \in [pc : {"key", "part"}, host : Senders, list : Seq(Users), all : Seq(Users),
                 own : Nat, mark : Nat, key : Nat, raced : BOOLEAN]
      BY <2>1, <2>3, TaskKinds DEF CreateKey, CreatePart
    <3>2. PICK raced \in BOOLEAN : raced = (Len(log) # t.mark)
      BY Zenon
    <3>3. CASE CreateKey(w)
      <4>1. Set(w, [t EXCEPT !.pc = "part", !.key = LastInsertRowid, !.raced = raced])
        BY <2>1, <3>2, <3>3, Zenon DEF CreateKey
      <4>2. work'[w].pc = "part"
        BY <2>2, <3>1, <4>1 DEF Set
      <4> QED
        BY <1>4, <4>2 DEF Msgs
    <3>4. CASE CreatePart(w)
      <4>1. work'[w].pc = "part"
        BY <2>1, <2>2, <3>1, <3>4 DEF CreatePart, Set
      <4> QED
        BY <1>4, <4>1 DEF Msgs
    <3> QED
      BY <2>3, <3>3, <3>4
  <2>4. CASE CreateEnd(w) \/ GetMsgEnd(w)
    BY <1>4, <2>2, <2>4 DEF CreateEnd, GetMsgEnd, Set, Free, Msgs
  <2>5. CASE GetMsgTable(w) \/ GetMsgMark(w)
    <3>1. t \in [pc : {"table", "mark"}, u : Users, list : Seq(Key), all : Seq(Key),
                 since : Nat, out : SUBSET Nat, upto : Nat]
      BY <2>1, <2>5, TaskKinds DEF GetMsgTable, GetMsgMark
    <3>2. CASE GetMsgTable(w)
      <4>1. PICK out : Set(w, [t EXCEPT !.pc = "mark", !.out = out])
        BY <2>1, <3>2 DEF GetMsgTable
      <4>2. PICK x : x = [t EXCEPT !.pc = "mark", !.out = out]
        OBVIOUS
      <4>3. x.upto = t.upto
        BY <3>1, <4>2
      <4>4. work'[w] = x
        BY <2>2, <4>1, <4>2 DEF Set
      <4> QED
        BY <1>4, <2>1, <3>1, <4>3, <4>4 DEF Msgs
    <3>3. CASE GetMsgMark(w)
      <4>1. PICK list : Set(w, [t EXCEPT !.pc = "table", !.list = list, !.since = LastInsertRowid])
        BY <2>1, <3>3 DEF GetMsgMark
      <4>2. PICK x : x = [t EXCEPT !.pc = "table", !.list = list, !.since = LastInsertRowid]
        OBVIOUS
      <4>3. x.upto = t.upto
        BY <3>1, <4>2
      <4>4. work'[w] = x
        BY <2>2, <4>1, <4>2 DEF Set
      <4> QED
        BY <1>4, <2>1, <3>1, <4>3, <4>4 DEF Msgs
    <3> QED
      BY <2>5, <3>2, <3>3
  <2>6. CASE \E host \in Senders, cont \in Seq(Users) : CreateTable(w, host, cont)
    BY <1>4, <2>2, <2>6 DEF CreateTable, Set, Msgs
  <2> QED
    BY <2>3, <2>4, <2>5, <2>6
<1> QED
  BY <1>3, <1>4

LEMMA UptoBegins ==
  ASSUME TypeOK, NEW w \in Workers, NEW u \in Users, GetMsg(w, u)
  PROVE  /\ work'[w].upto = Len(db.ms) /\ answer'.kind = "none"
         /\ \A v \in Workers : v # w => work'[v] = work[v]
BY DEF TypeOK, GetMsg, Set, NoAnswer

LEMMA UptoAnswered ==
  ASSUME NEW w \in Workers, GetMsgEnd(w)
  PROVE  answer'.upto = work[w].upto /\ work[w].pc \in Msgs
BY DEF GetMsgEnd, Msgs

-----------------------------------------------------------------------------
(***************************************************************************)
(* The theorems.                                                           *)
(***************************************************************************)
LEMMA Inductive == Spec => []IInv
<1>1. Init => IInv
  BY InvInit
<1>2. IInv /\ [Next]_vars => IInv'
  BY InvStep
<1> QED
  BY <1>1, <1>2, PTL DEF Spec

\* Every row has its table's columns and values that belong in them; the check lists
\* are of numbers, and what create_table and get_new_message hold between two calls of
\* sqlite3_exec, and answer with, is what their declarations say.
THEOREM StoreIsTyped == Spec => []TypeOK
<1>1. IInv => TypeOK
  BY DEF IInv
<1> QED
  BY <1>1, Inductive, PTL

\* create_table answers the key of the table it has made, with any number of io threads
\* on the connection, unless its INSERT failed or another one came before it asked.
THEOREM OwnKeyIsAnswered == Spec => []KeyIsOwn
<1>1. IInv => KeyIsOwn
  BY DEF IInv, AnswerOK, TableMade, KeyIsOwn
<1> QED
  BY <1>1, Inductive, PTL

\* get_new_message gives every message beyond lastCheck of the first of the user's
\* tables, and none of a table of others, whatever is inserted while it runs.
THEOREM FirstTableIsWhole == Spec => []FirstTableWhole
<1>1. IInv => FirstTableWhole
  BY DEF IInv, AnswerOK, Selected, FirstWhole, FirstTableWhole
<1> QED
  BY <1>1, Inductive, PTL

\* get_new_ivt_req, get_new_connection_req and get_friend_list give again what they
\* have given, however the tables grow.
THEOREM AnswersComeAgain == Spec => []AnsweredAgain
<1>1. IInv => AnsweredAgain
  BY DEF IInv, AnswerOK, AnsweredAgain
<1> QED
  BY <1>1, Inductive, PTL
=============================================================================
