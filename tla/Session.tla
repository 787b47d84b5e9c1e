------------------------------- MODULE Session -------------------------------
(***************************************************************************)
(* One connection of the chat server: the chain of handlers that reads a   *)
(* request's header, reads the rest of the request, carries it out, writes *)
(* the answer, and begins again. A handler runs in one step, except that   *)
(* one that reads from the socket synchronously waits for its client, on   *)
(* its thread, between the reads.                                          *)
(***************************************************************************)
EXTENDS Naturals, FiniteSets, Sequences

CONSTANTS
  Cmds,         \* the commands clients send, of AllCmds
  Parts,        \* numbers of body parts an action's request can have
  FallOff,      \* what decode_hader can return where it returns nothing
  Zeroed,       \* if `allocated' of a new Param, which nothing sets, reads as zero
  MaxRequests,  \* bound: requests the client sends
  None          \* no request

(***************************************************************************)
(* The requests. Other stands for the actions that no branch of Action     *)
(* handles (ReqLogOut, ReqInit, ConnectionClese), Unknown for a command    *)
(* with no check list index, BadSize for a header whose sz is out of range.*)
(***************************************************************************)
BodyActions == {"SendMsg", "RequestConnection", "RequestInvite", "RequestCreateTable"}
Gets        == {"GetConnection", "GetIvt", "GetMsg", "GetFriendList"}
AllCmds     == BodyActions \cup Gets \cup {"ReqLog", "Other", "Unknown", "BadSize"}

ASSUME SessionAssumption ==
  /\ Cmds \subseteq AllCmds
  /\ Parts \subseteq Nat
  /\ FallOff \subseteq BOOLEAN /\ FallOff # {}
  /\ Zeroed \subseteq BOOLEAN /\ Zeroed # {}
  /\ MaxRequests \in Nat
  /\ None \notin AllCmds

\* The answers the client waits for: the others are carried out silently.
HasAnswer(c) == c \in Gets \cup {"ReqLog", "RequestCreateTable"}

\* What goes over the socket: a header, the fixed struct of an action, which says
\* how many body parts follow, and those.
Unit == [t : {"H", "F", "B"}, cmd : AllCmds, n : Nat]

Units(c, n) ==
  LET unit(t) == [t |-> t, cmd |-> c, n |-> n] IN
  IF c \in BodyActions \cup {"ReqLog"}
  THEN <<unit("H"), unit("F")>> \o [i \in 1 .. n |-> unit("B")]
  ELSE <<unit("H")>>

\* The state of the peer as the server's calls find it: there, or gone by eof or
\* by reset.
Peers  == {"on", "eof", "reset"}
Errors == {"eof", "reset", "pipe", "aborted"}

\* An asynchronous read under way, and a handler between its synchronous reads,
\* with the error it was called with.
ReadOp == [kind : {"header", "fixed", "idpw"}, cmd : AllCmds \cup {None}]
Body   == [cmd : BodyActions, left : Nat, err : Errors \cup {"ok"}]

VARIABLES
  up,           \* the process is running
  lost,         \* undefined behaviour has put the session out of step for good
  client,       \* the peer
  toSend,       \* what the client has yet to write of its request
  wire,         \* what it has written that the server has not read
  open,         \* socket_ is open
  initialized,  \* session_no_ssl::initialized
  ready,        \* checkManager points to a check list
  head,         \* the header in pc's hQue, which never holds two; or None
  reads,        \* the asynchronous reads under way, oldest first
  writes,       \* the asynchronous writes under way, by the command answered
  bodies,       \* the handlers between their synchronous reads
  asked,        \* how many requests the client has sent
  owed,         \* history: the commands it waits for the answer to, in order
  answered,     \* history: the commands it was sent the answer to, in order
  doubled       \* history: a GetMsg was carried out

server == <<up, lost, open, initialized, ready, head, reads, writes, bodies>>
peer   == <<client, toSend, asked, owed>>
vars   == <<server, peer, wire, answered, doubled>>

TypeOK ==
  /\ up \in BOOLEAN /\ lost \in BOOLEAN /\ open \in BOOLEAN
  /\ initialized \in BOOLEAN /\ ready \in BOOLEAN /\ doubled \in BOOLEAN
  /\ client \in Peers
  /\ toSend \in Seq(Unit) /\ wire \in Seq(Unit)
  /\ head \in AllCmds \cup {None}
  /\ reads \in Seq(ReadOp)
  /\ writes \in Seq(AllCmds)
  /\ bodies \in Seq(Body)
  /\ asked \in 0 .. MaxRequests
  /\ owed \in Seq(AllCmds) /\ answered \in Seq(AllCmds)

HeaderRead == [kind |-> "header", cmd |-> None]

Init ==
  /\ up = TRUE /\ lost = FALSE
  /\ client = "on" /\ toSend = <<>> /\ wire = <<>>
  /\ open = TRUE /\ initialized \in BOOLEAN /\ ready = FALSE
  /\ head = None
  /\ reads = <<HeaderRead>> /\ writes = <<>> /\ bodies = <<>>
  /\ asked = 0 /\ owed = <<>> /\ answered = <<>> /\ doubled = FALSE

-----------------------------------------------------------------------------
(***************************************************************************)
(* The client: it sends its requests piece by piece, waits for answers or  *)
(* does not, and may go away at any time.                                  *)
(***************************************************************************)
Ask(c, n) ==
  /\ client = "on"
  /\ toSend = <<>>
  /\ asked < MaxRequests
  /\ IF c \in BodyActions THEN n \in Parts ELSE n = 1
  /\ toSend' = Units(c, n)
  /\ asked' = asked + 1
  /\ owed' = IF HasAnswer(c) THEN Append(owed, c) ELSE owed
  /\ UNCHANGED <<server, client, wire, answered, doubled>>

Send ==
  /\ toSend # <<>>
  /\ wire' = Append(wire, Head(toSend))
  /\ toSend' = Tail(toSend)
  /\ UNCHANGED <<server, client, asked, owed, answered, doubled>>

\* What was written before an eof can still be read, before a reset it is gone.
Leave(how) ==
  /\ client = "on"
  /\ client' = how
  /\ toSend' = <<>>
  /\ wire' = IF how = "reset" THEN <<>> ELSE wire
  /\ UNCHANGED <<server, asked, owed, answered, doubled>>

-----------------------------------------------------------------------------
(***************************************************************************)
(* What a read or a write of socket_ can end with.                         *)
(***************************************************************************)
Running == up /\ ~lost

CanRead == open /\ wire # <<>>

ReadErrors ==
  IF ~open THEN {"aborted"}
  ELSE IF wire = <<>> /\ client # "on" THEN {client} ELSE {}

WriteResults ==
  IF ~open THEN {"aborted"}
  ELSE IF client = "on" THEN {"ok"} ELSE {"ok", "reset", "pipe"}

\* Undefined behaviour: the process ends, or the session goes on with garbage.
Wild ==
  /\ \/ up' = FALSE /\ lost' = lost
     \/ up' = up /\ lost' = TRUE

Down == up' = FALSE /\ lost' = lost

\* Param::set_value writes to p_args[0], which is where `allocated' was found to point.
SetValue(zero) == IF zero THEN UNCHANGED <<up, lost>> ELSE Wild

\* error_handle: an error that is neither eof nor reset closes nothing.
ErrorHandle(err) ==
  IF err \in {"eof", "reset"}
  THEN open' = FALSE /\ initialized' = FALSE
  ELSE UNCHANGED <<open, initialized>>

\* Faulty variant: the header is left in the queue.
TaskEndNoPop(err, h, rs) ==
  /\ head' = h
  /\ IF err = "ok"
     THEN reads' = Append(rs, HeaderRead) /\ UNCHANGED <<open, initialized>>
     ELSE reads' = rs /\ ErrorHandle(err)
  /\ UNCHANGED <<up, lost>>

\* task_end with h in the queue and rs being read: the header is popped, and
\* session_task begins to read the next or handles the error.
TaskEnd(err, h, rs) ==
  /\ head' = None
  /\ IF h = None
     THEN Wild /\ reads' = rs /\ UNCHANGED <<open, initialized>>
     ELSE /\ IF err = "ok"
             THEN reads' = Append(rs, HeaderRead) /\ UNCHANGED <<open, initialized>>
             ELSE reads' = rs /\ ErrorHandle(err)
          /\ UNCHANGED <<up, lost>>

-----------------------------------------------------------------------------
(***************************************************************************)
(* read_handle, by the header c at the front of the queue, with rs being   *)
(* read: Action and Command and what they call.                            *)
(***************************************************************************)
StartAction(c, rs) ==
  /\ c \in BodyActions \cup {"ReqLog", "Other"}
  /\ head' = c
  /\ reads' = IF c = "Other" THEN rs ELSE Append(rs, [kind |-> "fixed", cmd |-> c])
  /\ UNCHANGED <<up, lost, open, initialized, writes, answered, doubled>>

\* Command indexes checkManager first: by -1, which boost::array asserts against,
\* or through a pointer that no login has set.
BadCommand(c, rs) ==
  /\ head' = c
  /\ reads' = rs
  /\ \/ c = "Unknown" /\ IF ready THEN Down ELSE Wild
     \/ c \in Gets /\ ~ready /\ Wild
  /\ UNCHANGED <<open, initialized, writes, answered, doubled>>

\* Faulty variant: the task is ended twice, as GetMsg does.
GetListTwice(c, rs) ==
  /\ c \in {"GetIvt", "GetConnection"} /\ ready
  /\ writes' = Append(writes, c)
  /\ TaskEnd("ok", c, rs)
  /\ UNCHANGED <<answered, doubled>>

\* The place of the answer's header is kept with a tag of the buffer, a Param.
GetList(c, rs) ==
  /\ c \in {"GetIvt", "GetConnection"} /\ ready
  /\ head' = c
  /\ reads' = rs
  /\ \E zero \in Zeroed :
       /\ SetValue(zero)
       /\ writes' = IF zero THEN Append(writes, c) ELSE writes
  /\ UNCHANGED <<open, initialized, answered, doubled>>

\* The list's header is written by a call that throws, the names by calls that
\* return an error.
GetFriendList(c, rs) ==
  /\ c = "GetFriendList" /\ ready
  /\ \/ /\ WriteResults # {"ok"}
        /\ Down /\ head' = c /\ reads' = rs
        /\ UNCHANGED <<open, initialized, answered>>
     \/ /\ "ok" \in WriteResults
        /\ \E err \in WriteResults :
             /\ TaskEnd(err, c, rs)
             /\ answered' = IF err = "ok" THEN Append(answered, c) ELSE answered
  /\ UNCHANGED <<writes, doubled>>

\* rget_new_message ends its task twice: when the answer is written, and at once.
GetMsg(c, rs) ==
  /\ c = "GetMsg" /\ ready
  /\ \/ /\ WriteResults # {"ok"}
        /\ Down /\ head' = c /\ reads' = rs
        /\ UNCHANGED <<open, initialized, writes, doubled>>
     \/ /\ "ok" \in WriteResults
        /\ writes' = Append(writes, c)
        /\ TaskEnd("ok", c, rs)
        /\ doubled' = TRUE
  /\ UNCHANGED answered

ReadHandle(c, rs) ==
  \/ StartAction(c, rs)
  \/ BadCommand(c, rs)
  \/ GetList(c, rs)
  \/ GetFriendList(c, rs)
  \/ GetMsg(c, rs)

\* The session reads something else than what its peer has sent.
Garbled(rs) ==
  /\ lost' = TRUE
  /\ reads' = rs
  /\ UNCHANGED <<up, open, initialized, head, writes, answered, doubled>>

-----------------------------------------------------------------------------
(***************************************************************************)
(* read_header_handle. A header that finds another in the queue is not     *)
(* queued, and the other is handled once more.                             *)
(***************************************************************************)
HeaderReading == Running /\ reads # <<>> /\ Head(reads).kind = "header"

\* Faulty variant: a header with a bad size ends the chain.
HeaderReadStop ==
  LET u == Head(wire)
      rs == Tail(reads)
  IN
  /\ HeaderReading /\ CanRead
  /\ wire' = Tail(wire)
  /\ IF u.t # "H"
     THEN Garbled(rs)
     ELSE IF head = None /\ u.cmd = "BadSize"
     THEN /\ reads' = rs
          /\ UNCHANGED <<up, lost, open, initialized, head, writes, answered, doubled>>
     ELSE ReadHandle(IF head = None THEN u.cmd ELSE head, rs)
  /\ UNCHANGED <<peer, ready, bodies>>

HeaderReadOk ==
  LET u == Head(wire)
      rs == Tail(reads)
  IN
  /\ HeaderReading /\ CanRead
  /\ wire' = Tail(wire)
  /\ IF u.t # "H"
     THEN Garbled(rs)
     ELSE IF head = None /\ u.cmd = "BadSize"
     THEN /\ reads' = Append(rs, HeaderRead)
          /\ UNCHANGED <<up, lost, open, initialized, head, writes, answered, doubled>>
     ELSE ReadHandle(IF head = None THEN u.cmd ELSE head, rs)
  /\ UNCHANGED <<peer, ready, bodies>>

\* The error is handled, and then decode_hader called all the same; if what it
\* returns there reads as true, read_handle takes the front of an empty queue, or
\* takes up once more, on a socket now closed, what is there.
HeaderReadErr ==
  /\ HeaderReading
  /\ \E err \in ReadErrors : ErrorHandle(err)
  /\ \E decoded \in FallOff :
       IF ~decoded
       THEN UNCHANGED <<up, lost>>
       ELSE IF head = None THEN Wild ELSE lost' = TRUE /\ up' = up
  /\ reads' = Tail(reads)
  /\ UNCHANGED <<peer, wire, ready, head, writes, bodies, answered, doubled>>

(***************************************************************************)
(* The fixed struct has been read, or not: all but read_id_and_password go *)
(* on to read the body synchronously whatever the error, by the sizes that *)
(* they find in the buffer.                                                *)
(***************************************************************************)
FixedReading == Running /\ reads # <<>> /\ Head(reads).kind = "fixed"

\* Faulty variant: one body part too many is expected.
FixedReadOkExtra ==
  LET u == Head(wire)
      c == Head(reads).cmd
  IN
  /\ FixedReading /\ CanRead
  /\ wire' = Tail(wire)
  /\ IF c = "ReqLog"
     THEN /\ reads' = Append(Tail(reads), [kind |-> "idpw", cmd |-> c])
          /\ UNCHANGED bodies
     ELSE /\ reads' = Tail(reads)
          /\ bodies' = Append(bodies, [cmd |-> c, left |-> u.n + 1, err |-> "ok"])
  /\ UNCHANGED <<up, lost, peer, open, initialized, ready, head, writes, answered, doubled>>

FixedReadOk ==
  LET u == Head(wire)
      c == Head(reads).cmd
      rs == Tail(reads)
  IN
  /\ FixedReading /\ CanRead
  /\ wire' = Tail(wire)
  /\ \/ /\ u.t # "F"
        /\ lost' = TRUE /\ reads' = rs /\ UNCHANGED bodies
     \/ /\ u.t = "F" /\ c = "ReqLog"
        /\ reads' = Append(rs, [kind |-> "idpw", cmd |-> c])
        /\ UNCHANGED <<lost, bodies>>
     \/ /\ u.t = "F" /\ c # "ReqLog"
        /\ reads' = rs
        /\ bodies' = Append(bodies, [cmd |-> c, left |-> u.n, err |-> "ok"])
        /\ UNCHANGED lost
  /\ UNCHANGED <<up, peer, open, initialized, ready, head, writes, answered, doubled>>

\* Faulty variant: the read is tried again.
FixedReadErrRetry ==
  /\ FixedReading
  /\ \E err \in ReadErrors : ErrorHandle(err)
  /\ reads' = Append(Tail(reads), Head(reads))
  /\ UNCHANGED <<up, lost, peer, wire, ready, head, writes, bodies, answered, doubled>>

FixedReadErr ==
  LET c == Head(reads).cmd IN
  /\ FixedReading
  /\ \E err \in ReadErrors :
       /\ IF c \in {"ReqLog", "RequestInvite"}
          THEN ErrorHandle(err) ELSE UNCHANGED <<open, initialized>>
       /\ IF c = "ReqLog"
          THEN UNCHANGED bodies
          ELSE \E n \in Parts : bodies' = Append(bodies, [cmd |-> c, left |-> n, err |-> err])
  /\ reads' = Tail(reads)
  /\ UNCHANGED <<up, lost, peer, wire, ready, head, writes, answered, doubled>>

-----------------------------------------------------------------------------
Drop(seq, i) == SubSeq(seq, 1, i - 1) \o SubSeq(seq, i + 1, Len(seq))

\* Faulty variant: the parts are not counted.
BodyReadOn(i) ==
  /\ Running
  /\ CanRead
  /\ wire' = Tail(wire)
  /\ lost' = (Head(wire).t # "B")
  /\ bodies' = [bodies EXCEPT ![i].left = @ - 1]
  /\ UNCHANGED <<up, peer, open, initialized, ready, head, reads, writes, answered, doubled>>

BodyRead(i) ==
  /\ Running
  /\ bodies[i].left > 0
  /\ CanRead
  /\ wire' = Tail(wire)
  /\ lost' = (Head(wire).t # "B")
  /\ bodies' = [bodies EXCEPT ![i].left = @ - 1]
  /\ UNCHANGED <<up, peer, open, initialized, ready, head, reads, writes, answered, doubled>>

\* Faulty variant: the exception is caught, and the error handled.
BodyThrowCaught(i) ==
  /\ Running
  /\ bodies[i].left > 0
  /\ \E err \in ReadErrors : ErrorHandle(err)
  /\ bodies' = Drop(bodies, i)
  /\ UNCHANGED <<up, lost, peer, wire, ready, head, reads, writes, answered, doubled>>

\* boost::asio::read throws a boost::system::system_error, for which there is no
\* catch clause: they all name error_code.
BodyThrow(i) ==
  /\ Running
  /\ bodies[i].left > 0
  /\ ReadErrors # {}
  /\ Down
  /\ UNCHANGED <<peer, wire, open, initialized, ready, head, reads, writes, bodies,
                 answered, doubled>>

\* The request is carried out; create_table's answer is written by a call that
\* throws. The task ends with the error the handler was called with.
BodyEnd(i) ==
  LET b == bodies[i] IN
  /\ Running
  /\ b.left = 0
  /\ bodies' = Drop(bodies, i)
  /\ \/ /\ b.cmd = "RequestCreateTable"
        /\ WriteResults # {"ok"}
        /\ Down
        /\ UNCHANGED <<open, initialized, head, reads, answered>>
     \/ /\ b.cmd = "RequestCreateTable" => "ok" \in WriteResults
        /\ answered' = IF HasAnswer(b.cmd) THEN Append(answered, b.cmd) ELSE answered
        /\ TaskEnd(b.err, head, reads)
  /\ UNCHANGED <<peer, wire, ready, writes, doubled>>

\* response_req_login, with the right password or a wrong one.
IdPwReading == Running /\ reads # <<>> /\ Head(reads).kind = "idpw"

IdPwReadOk ==
  /\ IdPwReading /\ CanRead
  /\ wire' = Tail(wire)
  /\ reads' = Tail(reads)
  /\ IF Head(wire).t # "B"
     THEN lost' = TRUE /\ UNCHANGED <<initialized, ready, writes>>
     ELSE /\ \/ initialized' = TRUE /\ ready' = TRUE
             \/ UNCHANGED <<initialized, ready>>
          /\ writes' = Append(writes, "ReqLog")
          /\ UNCHANGED lost
  /\ UNCHANGED <<up, peer, open, head, bodies, answered, doubled>>

\* Faulty variant: id and password are read by a call that throws.
IdPwReadErrThrow ==
  /\ IdPwReading
  /\ ReadErrors # {}
  /\ Down
  /\ UNCHANGED <<peer, wire, open, initialized, ready, head, reads, writes, bodies,
                 answered, doubled>>

IdPwReadErr ==
  /\ IdPwReading
  /\ \E err \in ReadErrors : ErrorHandle(err)
  /\ reads' = Tail(reads)
  /\ UNCHANGED <<up, lost, peer, wire, ready, head, writes, bodies, answered, doubled>>

WriteEnd ==
  /\ Running
  /\ writes # <<>>
  /\ writes' = Tail(writes)
  /\ \E err \in WriteResults :
       /\ TaskEnd(err, head, reads)
       /\ answered' = IF err = "ok" THEN Append(answered, Head(writes)) ELSE answered
  /\ UNCHANGED <<peer, wire, ready, bodies, doubled>>

-----------------------------------------------------------------------------
Client ==
  \/ \E c \in Cmds, n \in Parts \cup {1} : Ask(c, n)
  \/ Send
  \/ \E how \in Peers \ {"on"} : Leave(how)

\* A handler of the session runs.
Handler ==
  \/ HeaderReadOk \/ HeaderReadErr
  \/ FixedReadOk \/ FixedReadErr
  \/ IdPwReadOk \/ IdPwReadErr
  \/ \E i \in 1 .. Len(bodies) : BodyRead(i) \/ BodyThrow(i) \/ BodyEnd(i)
  \/ WriteEnd

Next == Client \/ Handler

Spec == Init /\ [][Next]_vars

\* The io threads run what is ready, and the client takes what it is sent. Nobody
\* makes the client send, or leave.
FairSpec == Spec /\ WF_vars(Handler)

-----------------------------------------------------------------------------
(***************************************************************************)
(* Properties. Most hold until the session has carried out its first       *)
(* GetMsg, which ends its task twice.                                      *)
(***************************************************************************)
Sound == Running /\ ~doubled

\* The handlers of the session form one chain: there is one thing it waits for,
\* which belongs to the header in the queue, and never none unless its peer has
\* gone or has sent an action nobody handles.
OneChain ==
  Sound =>
    /\ Len(reads) + Len(writes) + Len(bodies) <= 1
    /\ client = "on" /\ head # "Other" => Len(reads) + Len(writes) + Len(bodies) = 1
    /\ \A i \in 1 .. Len(reads) : head = reads[i].cmd
    /\ \A i \in 1 .. Len(writes) : head = writes[i]
    /\ \A i \in 1 .. Len(bodies) : head = bodies[i].cmd

\* Server and client agree where in the stream they are: what the server reads next
\* as a header, a struct or a body part is what the client sends as that.
InStep ==
  LET p == wire \o toSend IN
  Sound /\ client = "on" =>
    /\ \A i \in 1 .. Len(reads) :
         CASE reads[i].kind = "header" -> p # <<>> => Head(p).t = "H"
           [] reads[i].kind = "fixed"  -> p # <<>> /\ Head(p).t = "F"
           [] reads[i].kind = "idpw"   -> p # <<>> /\ Head(p).t = "B"
    /\ \A i \in 1 .. Len(bodies) :
         /\ Len(p) >= bodies[i].left
         /\ \A j \in 1 .. bodies[i].left : p[j].t = "B"
         /\ Len(p) > bodies[i].left => p[bodies[i].left + 1].t = "H"

\* The client gets the answers it is owed in the order it asked, none twice and none
\* left out: all of them when the session waits for a header and has read all.
AnswersInOrder ==
  Sound =>
    /\ Len(answered) <= Len(owed)
    /\ answered = SubSeq(owed, 1, Len(answered))
    /\ client = "on" /\ head = None /\ wire = <<>> /\ toSend = <<>> => answered = owed

Waiting == reads = <<HeaderRead>> /\ head = None /\ wire = <<>>

\* Session and client never wait for each other: with the request written, there is a
\* handler that can go on, or the session waits for the header of the next, or the last
\* request is one that nobody handles.
NeverStuck ==
  Sound /\ client = "on" /\ toSend = <<>> =>
    \/ Waiting
    \/ head = "Other"
    \/ writes # <<>>
    \/ CanRead /\ reads # <<>>
    \/ \E i \in 1 .. Len(bodies) : bodies[i].left = 0 \/ CanRead

\* What there is still to do for the handlers if the client sends nothing more: the
\* handler of a struct begins a body, and one of a body or a write begins to read a
\* header.
FixedReads == {i \in 1 .. Len(reads) : reads[i].kind = "fixed"}

Work == 3 * Len(wire) + 2 * (Len(writes) + Len(bodies)) + Len(reads) + 2 * Cardinality(FixedReads)

\* No handler runs in vain, be it for an error that is handled and not told of, a read
\* that is begun again, or the second chain after a GetMsg: each leaves less to do or
\* is the session's last.
HandlersRunOut == [][Handler => Work' < Work \/ ~Running']_vars

\* The next header is of a command that Command cannot index checkManager for, or of
\* one whose answer's place is written to where a Param that was not zero points.
Misuse == /\ HeaderReading /\ CanRead
          /\ \/ Head(wire).cmd = "Unknown"
             \/ Head(wire).cmd \in Gets /\ ~ready
             \/ Head(wire).cmd \in {"GetIvt", "GetConnection"} /\ FALSE \in Zeroed

\* A peer that goes away takes the server with it, or leaves its session to undefined
\* behaviour, only if a handler is reading its body or the next request is answered
\* synchronously, or where decode_hader returns nothing; never while it logs in or an
\* answer is written asynchronously. Peers that stay do so by a command before the
\* login, an unknown one or GetIvt and GetConnection, and otherwise only after GetMsg.
HarmStep ==
  Running /\ ~Running' =>
    \/ doubled
    \/ Misuse
    \/ /\ client # "on"
       /\ \/ bodies # <<>>
          \/ HeaderReading /\ CanRead /\ Head(wire).cmd \in {"GetFriendList", "GetMsg"}
          \/ HeaderReading /\ ~CanRead /\ TRUE \in FallOff

HarmHasCause == [][HarmStep]_vars

\* A request the client has sent in full is read and carried out to the end.
Served ==
  (Sound /\ client = "on" /\ toSend = <<>>) ~>
    (Waiting \/ toSend # <<>> \/ client # "on" \/ ~Sound \/ head = "Other")

\* When the peer has gone, every handler of its session comes to an end: no thread
\* keeps waiting for it.
GoneIsNoticed ==
  (client # "on") ~> (~Running \/ (reads = <<>> /\ writes = <<>> /\ bodies = <<>>))

-----------------------------------------------------------------------------
(***************************************************************************)
(* The session as Server has it.                                           *)
(***************************************************************************)
Stage ==
  IF ~up THEN "down"
  ELSE IF ~Sound THEN "astray"
  ELSE IF \E i \in 1 .. Len(bodies) : bodies[i].left > 0 THEN "reading"
  ELSE IF reads = <<>> /\ writes = <<>> /\ bodies = <<>> THEN "over"
  ELSE "waiting"

Life == INSTANCE Chain WITH stage <- Stage, First <- "waiting"

\* From a body a session comes back to its chain or the process ends: it is never
\* closed there, nor leaves the stream. A session that is closed has no handler again.
LivesOnOrGoesDown == Life!Spec
=============================================================================
