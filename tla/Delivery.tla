------------------------------ MODULE Delivery -------------------------------
(***************************************************************************)
(* The notification path and the database together: a handler stores a     *)
(* request with Qr and raises the flags of those it is for, polls turn the *)
(* flags into notices, and a client that asks is answered by Qr. Each step *)
(* is one of Mailbox, one of Store, or one of both: the io threads are the *)
(* same, and so are the INSERTs.                                           *)
(***************************************************************************)
EXTENDS Naturals, Sequences

CONSTANTS Sessions, Users, Workers, StaleInit, MaxLogins, MaxRows, None,  \* of Mailbox
          Default, Nobody, Texts, Old, MaxCont, MaxInserts                \* of Store

VARIABLES
  up, open, initialized, nf, nmap, raised, notice, rows, rung, torn, mail,  \* of Mailbox
  db, log, check, query, answer,                                            \* of Store
  at,      \* the session for which each worker is in a handler of several queries
  stored,  \* history: for each of `rows', the table of the message stored and its rowid
  asked,   \* history: the notices queued for the session when its GetMsg began
  upon     \* history: the same of the GetMsg answered last

S == INSTANCE Store WITH work <- query

M == INSTANCE Mailbox WITH
  work    <- mail,
  Tables  <- DOMAIN Old.chatTable,
  Members <- [key \in DOMAIN Old.chatTable |->
                {Old.part[i].user : i \in {j \in DOMAIN Old.part : Old.part[j].tableKey = key}}]

ASSUME DeliveryAssumption ==
  /\ S!StoreConstants
  /\ \A i \in DOMAIN Old.part :
       Old.part[i].tableKey \in DOMAIN Old.chatTable => Old.part[i].user \in Users
  /\ StaleInit \subseteq BOOLEAN
  /\ MaxLogins \in Nat /\ MaxRows \in Nat
  /\ None \notin Sessions
  /\ None \notin [s : Sessions, u : Users, n : Nat \ {0}]

mailbox == <<up, open, initialized, nf, nmap, raised, notice, rows, rung, torn, mail>>
store   == <<db, log, check, query, answer>>
history == <<at, stored, asked, upon>>
vars == <<mailbox, store, history>>

Init ==
  /\ M!Init /\ S!Init
  /\ at = [w \in Workers |-> None]
  /\ stored = <<>>
  /\ asked = [w \in Workers |-> {}]
  /\ upon = {}

-----------------------------------------------------------------------------
\* A worker that does nothing else may run a handler of a session that is in none.
Ready(w, s) ==
  /\ up /\ open[s]
  /\ mail[w].pc = "idle" /\ query[w].pc = "idle"
  /\ ~M!Serving(s)
  /\ \A v \in Workers : at[v] # s

\* user_name, empty before a login.
UserName(s) == IF nf[s] = None THEN Nobody ELSE nf[s].u

NotAMessage == [key |-> 0, row |-> 0]

\* response_act_send_msg: the INSERT, which SQLite may refuse, and then the rings.
SendMsg(w, s, key, text) ==
  /\ Ready(w, s)
  /\ M!ActSendMsg(w, s, key)
  /\ \/ /\ S!InsertMessage(w, key, text)
        /\ stored' = Append(stored, [key |-> key, row |-> Len(db'.ms)])
     \/ /\ UNCHANGED store
        /\ stored' = Append(stored, NotAMessage)
  /\ UNCHANGED <<at, asked, upon>>

Connect(w, s, receiver) ==
  /\ Ready(w, s)
  /\ M!ActConnect(w, s, receiver)
  /\ S!InsertConnection(w, UserName(s), receiver)
  /\ stored' = Append(stored, NotAMessage)
  /\ UNCHANGED <<at, asked, upon>>

Invite(w, s, target, key) ==
  /\ Ready(w, s)
  /\ M!ActInvite(w, s, target)
  /\ S!InsertInvite(w, UserName(s), key)
  /\ stored' = Append(stored, NotAMessage)
  /\ UNCHANGED <<at, asked, upon>>

\* response_act_create_chat_table: create_table, and when it has returned the rings.
CreateTable(w, s, cont) ==
  /\ Ready(w, s)
  /\ S!CreateTable(w, UserName(s), cont)
  /\ at' = [at EXCEPT ![w] = s]
  /\ UNCHANGED <<mailbox, stored, asked, upon>>

CreateEnd(w) ==
  /\ S!CreateEnd(w)
  /\ M!ActCreateTable(w, at[w], {query[w].all[i] : i \in DOMAIN query[w].all})
  /\ stored' = Append(stored, NotAMessage)
  /\ at' = [at EXCEPT ![w] = None]
  /\ UNCHANGED <<asked, upon>>

\* rget_new_message, for the user the session is logged in as.
GetMsg(w, s) ==
  /\ Ready(w, s)
  /\ nf[s] # None
  /\ S!GetMsg(w, nf[s].u)
  /\ at' = [at EXCEPT ![w] = s]
  /\ asked' = [asked EXCEPT ![w] = notice[s]]
  /\ UNCHANGED <<mailbox, stored, upon>>

GetMsgEnd(w) ==
  /\ S!GetMsgEnd(w)
  /\ at' = [at EXCEPT ![w] = None]
  /\ upon' = asked[w]
  /\ UNCHANGED <<mailbox, stored, asked>>

\* The next query of a handler, its result kept on the handler's stack.
Query(w) ==
  /\ up
  /\ S!CreateKey(w) \/ S!CreatePart(w) \/ S!GetMsgTable(w) \/ S!GetMsgMark(w)
  /\ UNCHANGED <<mailbox, history>>

\* What touches no table, or one that the server never writes.
Mail(w) ==
  /\ \/ \E s \in Sessions :
          /\ Ready(w, s)
          /\ \/ \E u \in Users : M!LoginAlloc(w, s, u)
             \/ M!CutOff(w, s)
             \/ M!Disconnect(w, s)
     \/ \E s \in Sessions :
          /\ query[w].pc = "idle"
          /\ M!PollStart(w, s) \/ M!PollWild(w, s)
     \/ M!Advance(w) \/ M!CutOffAnswer(w) \/ M!NotifyWild(w)
  /\ UNCHANGED <<store, history>>

Next ==
  \E w \in Workers :
    \/ \E s \in Sessions :
         \/ \E key \in DOMAIN Old.chatTable, text \in Texts : SendMsg(w, s, key, text)
         \/ \E u \in Users : Connect(w, s, u) \/ Invite(w, s, u, 1)
         \/ \E cont \in S!Conts : CreateTable(w, s, cont)
         \/ GetMsg(w, s)
    \/ CreateEnd(w) \/ GetMsgEnd(w) \/ Query(w) \/ Mail(w)

Spec == Init /\ [][Next]_vars

-----------------------------------------------------------------------------
(***************************************************************************)
(* Properties. A notice that a message has arrived asks for GetMsg.        *)
(***************************************************************************)
Announced(keys) ==
  UNION {{stored[i].row : i \in {j \in 1 .. m.upto : stored[j].key \in keys}}
           : m \in {n \in upon : n.box = M!messageArr}}

\* A client that sends GetMsg with such a notice queued is answered with every
\* message the notice is about, if it went into the first of the user's tables:
\* the handlers store before they ring, the poll's notice comes after the ring, and
\* no INSERT or GetMsg of another thread takes a message out of the answer.
FirstTableArrives ==
  answer.kind = "ms" /\ answer.tables # <<>> =>
    Announced({answer.tables[1]}) \subseteq answer.out

\* The same, whichever of the user's tables it went into.
MessageArrives ==
  answer.kind = "ms" =>
    Announced({answer.tables[i] : i \in DOMAIN answer.tables}) \subseteq answer.out
==============================================================================
