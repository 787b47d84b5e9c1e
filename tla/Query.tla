-------------------------------- MODULE Query --------------------------------
(***************************************************************************)
(* The statements that hqery.h and query.cpp make for SQLite and what it   *)
(* does with them. A statement is a record here and no text: the table,    *)
(* the columns and values of an INSERT, the conditions of a SELECT.        *)
(***************************************************************************)
EXTENDS Integers, Sequences

CONSTANT Default   \* what SQLite puts into a column that an INSERT does not name

\* descriptorCont: the tables and their columns as the program knows them.
Dsc ==
  [user              |-> <<"id", "pw">>,
   chatTable         |-> <<"host", "participations">>,
   ms                |-> <<"tableKey", "sender", "message", "time", "chk">>,
   part              |-> <<"tableKey", "user">>,
   userPair          |-> <<"user0", "user1">>,
   checkList         |-> <<"user", "messageArr", "tableIvt", "connctionReq">>,
   invite            |-> <<"target", "tableKey", "sender">>,
   connectionRequest |-> <<"sender", "receiver", "time">>]

Tables == DOMAIN Dsc

\* The columns the tables have in dbt.db.
Schema ==
  [Dsc EXCEPT !.part = <<"tableKey", "user", "idx">>,
              !.checkList = <<"user", "messageArr", "tableIvt", "connectionReq">>,
              !.invite = <<"target", "tableKey", "sender", "time">>]

Columns(t) == {Schema[t][i] : i \in 1 .. Len(Schema[t])}

\* SelectTarget::RowId in the place of a column's index.
RowId == -2

ColumnName(t, i) == IF i = RowId THEN "rowid" ELSE Dsc[t][i + 1]

-----------------------------------------------------------------------------
\* insert_query_with_pair: two to four pairs of a column's index and a value.
InsertPairs(t, pairs) ==
  [table   |-> t,
   columns |-> [k \in 1 .. Len(pairs) |-> ColumnName(t, pairs[k][1])],
   values  |-> [k \in 1 .. Len(pairs) |-> pairs[k][2]]]

\* insert_query names no columns: the values are for those of the table, in order.
InsertQuery(t, a0, a1) ==
  [table |-> t, columns |-> Schema[t], values |-> <<a0, a1>>]

AddCondition(query, a0) == [query EXCEPT !.values = Append(@, a0)]

\* SQLite takes an INSERT that has a value for every column it names, and no other.
Accepted(query) == Len(query.columns) = Len(query.values)

RowOf(query) ==
  [c \in Columns(query.table) |->
     IF \E k \in 1 .. Len(query.columns) : query.columns[k] = c
     THEN query.values[CHOOSE k \in 1 .. Len(query.columns) : query.columns[k] = c]
     ELSE Default]

-----------------------------------------------------------------------------
\* The enumeration Compare, and the operators its members stand for: the last two
\* are not in its order.
Higher == 0
EqualAndHigher == 1
Equal == 2

eqivDscCont == <<">", ">=", "==", "<", "<=">>

Holds(x, op, y) ==
  \/ op = ">" /\ x > y
  \/ op = ">=" /\ x >= y
  \/ op = "==" /\ x = y
  \/ op = "<" /\ x < y
  \/ op = "<=" /\ x <= y

Where(t, i, e, value) ==
  [column |-> ColumnName(t, i), op |-> eqivDscCont[e + 1], value |-> value]

\* select_query with one condition or two: the rowids of the rows it gives. The rowid
\* of a row is its place, as no row is ever deleted.
SelectQuery(rows, conditions) ==
  {r \in DOMAIN rows :
     \A k \in 1 .. Len(conditions) :
       LET c == conditions[k]
       IN  Holds(IF c.column = "rowid" THEN r ELSE rows[r][c.column], c.op, c.value)}

\* What a callback finds in argv when all columns are selected; argv[0] is the first.
Argv(t, row) == [i \in 0 .. Len(Schema[t]) - 1 |-> row[Schema[t][i + 1]]]
==============================================================================
