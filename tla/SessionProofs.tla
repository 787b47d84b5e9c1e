---------------------------- MODULE SessionProofs ----------------------------
(***************************************************************************)
(* Theorems about Session, for any number of requests of any command and   *)
(* any numbers of body parts.                                              *)
(***************************************************************************)
EXTENDS Session, FiniteSetTheorems, SequenceTheorems, TLAPS

-----------------------------------------------------------------------------
(***************************************************************************)
(* Types.                                                                  *)
(***************************************************************************)
Fixed == BodyActions \cup {"ReqLog"}

\* The struct that is read belongs to an action that has one.
FixedOfAction == \A i \in 1 .. Len(reads) : reads[i].kind = "fixed" => reads[i].cmd \in Fixed

TypesOK == TypeOK /\ FixedOfAction

LEMMA CommandsAre ==
  /\ BodyActions \subseteq AllCmds /\ Gets \subseteq AllCmds /\ Fixed \subseteq AllCmds
  /\ "ReqLog" \in AllCmds /\ "Other" \in AllCmds
  /\ HeaderRead \in ReadOp /\ HeaderRead.kind = "header" /\ HeaderRead.cmd = None
BY DEF BodyActions, Gets, AllCmds, Fixed, HeaderRead, ReadOp

LEMMA HeadIsUnit ==
  ASSUME wire \in Seq(Unit), wire # <<>>
  PROVE  /\ Head(wire) \in Unit /\ Tail(wire) \in Seq(Unit)
         /\ Head(wire).cmd \in AllCmds /\ Head(wire).n \in Nat
<1>1. Head(wire) \in Unit /\ Tail(wire) \in Seq(Unit)
  OBVIOUS
<1> QED
  BY <1>1 DEF Unit

LEMMA UnitsFit ==
  ASSUME NEW c \in AllCmds, NEW n \in Nat
  PROVE  Units(c, n) \in Seq(Unit)
<1> DEFINE unit(t) == [t |-> t, cmd |-> c, n |-> n]
<1>1. unit("H") \in Unit /\ unit("F") \in Unit /\ unit("B") \in Unit
  BY DEF Unit
<1>2. <<unit("H"), unit("F")>> \in Seq(Unit) /\ <<unit("H")>> \in Seq(Unit)
  BY <1>1
<1>3. [i \in 1 .. n |-> unit("B")] \in Seq(Unit)
  BY <1>1, IsASeq
<1>4. <<unit("H"), unit("F")>> \o [i \in 1 .. n |-> unit("B")] \in Seq(Unit)
  BY <1>2, <1>3, ConcatProperties
<1> QED
  BY <1>2, <1>4 DEF Units

LEMMA ErrorsAre == TypeOK => ReadErrors \subseteq Errors /\ WriteResults \subseteq Errors \cup {"ok"}
BY DEF TypeOK, ReadErrors, WriteResults, Peers, Errors

\* The reads that follow the one that has ended, and those with one more.
LEMMA ReadsFit ==
  ASSUME TypesOK, reads # <<>>
  PROVE  /\ Tail(reads) \in Seq(ReadOp) /\ Head(reads) \in ReadOp
         /\ Head(reads).kind = "fixed" => Head(reads).cmd \in Fixed
         /\ \A i \in 1 .. Len(Tail(reads)) : Tail(reads)[i].kind = "fixed" => Tail(reads)[i].cmd \in Fixed
<1>1. reads \in Seq(ReadOp)
  BY DEF TypesOK, TypeOK
<1>2. /\ Tail(reads) \in Seq(ReadOp) /\ Head(reads) \in ReadOp /\ Head(reads) = reads[1]
      /\ Len(Tail(reads)) = Len(reads) - 1 /\ Len(reads) >= 1
      /\ \A i \in 1 .. Len(Tail(reads)) : Tail(reads)[i] = reads[i + 1]
  BY <1>1
<1> QED
  BY <1>2 DEF TypesOK, FixedOfAction

\* What reads becomes: one that was there, with a header's or another's after it.
Reads(rs) ==
  /\ rs \in Seq(ReadOp)
  /\ \A i \in 1 .. Len(rs) : rs[i].kind = "fixed" => rs[i].cmd \in Fixed

LEMMA ReadsMore ==
  ASSUME NEW rs, Reads(rs), NEW op \in ReadOp, op.kind = "fixed" => op.cmd \in Fixed
  PROVE  Reads(Append(rs, op))
<1>1. rs \in Seq(ReadOp)
  BY DEF Reads
<1>2. /\ Append(rs, op) \in Seq(ReadOp) /\ Len(Append(rs, op)) = Len(rs) + 1
      /\ \A i \in 1 .. Len(rs) + 1 : Append(rs, op)[i] = IF i = Len(rs) + 1 THEN op ELSE rs[i]
  BY <1>1
<1>3. Len(rs) \in Nat
  BY <1>1
<1> QED
  BY <1>2, <1>3 DEF Reads

LEMMA ErrorHandleFits ==
  ASSUME TypeOK, NEW err, ErrorHandle(err)
  PROVE  open' \in BOOLEAN /\ initialized' \in BOOLEAN
<1>1. CASE open' = FALSE /\ initialized' = FALSE
  BY <1>1
<1>2. CASE UNCHANGED <<open, initialized>>
  BY <1>2 DEF TypeOK
<1> QED
  BY <1>1, <1>2 DEF ErrorHandle

LEMMA WildFits ==
  ASSUME TypeOK, Wild \/ Down \/ UNCHANGED <<up, lost>>
  PROVE  up' \in BOOLEAN /\ lost' \in BOOLEAN
<1>1. CASE up' = FALSE /\ lost' = lost
  BY <1>1 DEF TypeOK
<1>2. CASE up' = up /\ lost' = TRUE
  BY <1>2 DEF TypeOK
<1>3. CASE UNCHANGED <<up, lost>>
  BY <1>3 DEF TypeOK
<1> QED
  BY <1>1, <1>2, <1>3 DEF Wild, Down

LEMMA TaskEndFits ==
  ASSUME TypesOK, NEW err, NEW h, NEW rs, Reads(rs), TaskEnd(err, h, rs)
  PROVE  /\ up' \in BOOLEAN /\ lost' \in BOOLEAN /\ open' \in BOOLEAN /\ initialized' \in BOOLEAN
         /\ head' = None /\ Reads(reads')
<1> USE DEF TypesOK
<1>1. Reads(Append(rs, HeaderRead))
  BY CommandsAre, ReadsMore
<1>2. CASE h = None
  BY <1>2, WildFits DEF TaskEnd, TypeOK
<1>3. CASE h # None /\ err = "ok"
  BY <1>1, <1>3 DEF TaskEnd, TypeOK
<1>4. CASE h # None /\ err # "ok"
  BY <1>4, ErrorHandleFits DEF TaskEnd, TypeOK
<1> QED
  BY <1>2, <1>3, <1>4

\* Commands on record.
LEMMA CommandsMore ==
  ASSUME NEW cs \in Seq(AllCmds), NEW c \in AllCmds
  PROVE  Append(cs, c) \in Seq(AllCmds)
OBVIOUS

LEMMA ReadHandleFits ==
  ASSUME TypesOK, NEW c \in AllCmds \cup {None}, c # None, NEW rs, Reads(rs), ReadHandle(c, rs)
  PROVE  /\ up' \in BOOLEAN /\ lost' \in BOOLEAN /\ open' \in BOOLEAN /\ initialized' \in BOOLEAN
         /\ head' \in AllCmds \cup {None} /\ Reads(reads')
         /\ writes' \in Seq(AllCmds) /\ answered' \in Seq(AllCmds) /\ doubled' \in BOOLEAN
<1> USE DEF TypesOK
<1>0. /\ Append(writes, c) \in Seq(AllCmds) /\ Append(answered, c) \in Seq(AllCmds)
      /\ writes \in Seq(AllCmds) /\ answered \in Seq(AllCmds)
  BY CommandsMore DEF TypeOK
<1>1. CASE StartAction(c, rs)
  <2>1. CASE c = "Other"
    BY <1>1, <2>1 DEF StartAction, TypeOK
  <2>2. CASE c # "Other"
    <3>1. c \in Fixed
      BY <1>1, <2>2 DEF StartAction, Fixed
    <3>2. [kind |-> "fixed", cmd |-> c] \in ReadOp
      BY DEF ReadOp
    <3>3. Reads(Append(rs, [kind |-> "fixed", cmd |-> c]))
      BY <3>1, <3>2, ReadsMore
    <3> QED
      BY <1>1, <2>2, <3>3 DEF StartAction, TypeOK
  <2> QED
    BY <2>1, <2>2
<1>2. CASE BadCommand(c, rs)
  <2>1. up' \in BOOLEAN /\ lost' \in BOOLEAN
    BY <1>2, WildFits DEF BadCommand
  <2> QED
    BY <1>2, <2>1 DEF BadCommand, TypeOK
<1>3. CASE GetList(c, rs)
  <2>1. PICK zero \in Zeroed : SetValue(zero) /\ writes' = IF zero THEN Append(writes, c) ELSE writes
    BY <1>3 DEF GetList
  <2>2. up' \in BOOLEAN /\ lost' \in BOOLEAN
    BY <2>1, WildFits DEF SetValue
  <2>3. writes' \in Seq(AllCmds)
    BY <1>0, <2>1
  <2> QED
    BY <1>3, <2>2, <2>3 DEF GetList, TypeOK
<1>4. CASE GetFriendList(c, rs)
  <2>1. CASE Down /\ head' = c /\ reads' = rs /\ UNCHANGED <<open, initialized, answered>>
    BY <1>4, <2>1, WildFits DEF GetFriendList, TypeOK
  <2>2. CASE \E err \in WriteResults :
               /\ TaskEnd(err, c, rs)
               /\ answered' = IF err = "ok" THEN Append(answered, c) ELSE answered
    <3>1. PICK err \in WriteResults :
               /\ TaskEnd(err, c, rs)
               /\ answered' = IF err = "ok" THEN Append(answered, c) ELSE answered
      BY <2>2
    <3>2. answered' \in Seq(AllCmds)
      BY <1>0, <3>1
    <3> QED
      BY <1>4, <3>1, <3>2, TaskEndFits DEF GetFriendList, TypeOK
  <2> QED
    BY <1>4, <2>1, <2>2 DEF GetFriendList
<1>5. CASE GetMsg(c, rs)
  <2>1. CASE Down /\ head' = c /\ reads' = rs /\ UNCHANGED <<open, initialized, writes, doubled>>
    BY <1>5, <2>1, WildFits DEF GetMsg, TypeOK
  <2>2. CASE writes' = Append(writes, c) /\ TaskEnd("ok", c, rs) /\ doubled' = TRUE
    BY <1>0, <1>5, <2>2, TaskEndFits DEF GetMsg, TypeOK
  <2> QED
    BY <1>5, <2>1, <2>2 DEF GetMsg
<1> QED
  BY <1>1, <1>2, <1>3, <1>4, <1>5 DEF ReadHandle

LEMMA DropFits ==
  ASSUME bodies \in Seq(Body), NEW i \in 1 .. Len(bodies)
  PROVE  Drop(bodies, i) \in Seq(Body)
<1>1. SubSeq(bodies, 1, i - 1) \in Seq(Body) /\ SubSeq(bodies, i + 1, Len(bodies)) \in Seq(Body)
  BY SubSeqProperties
<1> QED
  BY <1>1, ConcatProperties DEF Drop

LEMMA TypesInit == Init => TypesOK
<1> SUFFICES ASSUME Init PROVE TypesOK
  OBVIOUS
<1>1. <<HeaderRead>> \in Seq(ReadOp) /\ Len(<<HeaderRead>>) = 1 /\ <<HeaderRead>>[1] = HeaderRead
  BY CommandsAre
<1>2. FixedOfAction
  BY <1>1, CommandsAre DEF Init, FixedOfAction
<1>3. /\ up \in BOOLEAN /\ lost \in BOOLEAN /\ open \in BOOLEAN
      /\ initialized \in BOOLEAN /\ ready \in BOOLEAN /\ doubled \in BOOLEAN
  BY Zenon DEF Init
<1>4. TypeOK
  BY <1>1, <1>3, SessionAssumption DEF Init, TypeOK, Peers
<1> QED
  BY <1>2, <1>4 DEF TypesOK

LEMMA TypesNext == TypesOK /\ [Next]_vars => TypesOK'
<1> SUFFICES ASSUME TypesOK, [Next]_vars PROVE TypesOK'
  OBVIOUS
<1> USE DEF TypesOK
<1>0. FixedOfAction' <=> (\A i \in 1 .. Len(reads') : reads'[i].kind = "fixed" => reads'[i].cmd \in Fixed)
  BY DEF FixedOfAction, Fixed, BodyActions
<1>r. Reads(reads)
  BY DEF TypeOK, FixedOfAction, Reads
<1>s. reads # <<>> => Reads(Tail(reads))
  BY ReadsFit DEF Reads
<1>1. ASSUME NEW c \in Cmds, NEW n \in Parts \cup {1}, Ask(c, n) PROVE TypesOK'
  <2>1. c \in AllCmds /\ n \in Nat
    BY SessionAssumption
  <2>2. toSend' \in Seq(Unit) /\ asked' \in 0 .. MaxRequests
    BY <1>1, <2>1, UnitsFit, SessionAssumption DEF Ask, TypeOK
  <2>3. owed' \in Seq(AllCmds)
    BY <1>1, <2>1, CommandsMore DEF Ask, TypeOK
  <2> QED
    BY <1>0, <1>1, <2>2, <2>3 DEF Ask, TypeOK, server, FixedOfAction
<1>2. CASE Send
  <2>1. toSend' \in Seq(Unit) /\ wire' \in Seq(Unit)
    BY <1>2 DEF Send, TypeOK
  <2> QED
    BY <1>0, <1>2, <2>1 DEF Send, TypeOK, server, FixedOfAction
<1>3. ASSUME NEW how \in Peers \ {"on"}, Leave(how) PROVE TypesOK'
  <2>1. toSend' \in Seq(Unit) /\ wire' \in Seq(Unit)
    BY <1>3 DEF Leave, TypeOK
  <2> QED
    BY <1>0, <1>3, <2>1 DEF Leave, TypeOK, server, FixedOfAction
<1>4. CASE HeaderReadOk
  <2>1. reads # <<>> /\ wire # <<>> /\ wire' = Tail(wire)
    BY <1>4 DEF HeaderReadOk, HeaderReading, CanRead
  <2>2. Head(wire).cmd \in AllCmds /\ wire' \in Seq(Unit)
    BY <2>1, HeadIsUnit DEF TypeOK
  <2>3. UNCHANGED <<client, toSend, asked, owed, ready, bodies>>
    BY <1>4 DEF HeaderReadOk, peer
  <2>4. PICK rs : rs = Tail(reads)
    OBVIOUS
  <2>5. Reads(rs) /\ Reads(Append(rs, HeaderRead))
    BY <1>s, <2>1, <2>4, CommandsAre, ReadsMore
  <2>6. CASE Garbled(rs)
    BY <1>0, <2>2, <2>3, <2>5, <2>6 DEF Garbled, TypeOK, Reads
  <2>7. CASE /\ reads' = Append(rs, HeaderRead)
             /\ UNCHANGED <<up, lost, open, initialized, head, writes, answered, doubled>>
    BY <1>0, <2>2, <2>3, <2>5, <2>7 DEF TypeOK, Reads
  <2>8. CASE ReadHandle(IF head = None THEN Head(wire).cmd ELSE head, rs)
    <3>1. PICK c : c = IF head = None THEN Head(wire).cmd ELSE head
      OBVIOUS
    <3>2. c \in AllCmds \cup {None} /\ c # None
      BY <2>2, <3>1, SessionAssumption DEF TypeOK
    <3> QED
      BY <1>0, <2>2, <2>3, <2>5, <2>8, <3>1, <3>2, ReadHandleFits DEF TypeOK, Reads
  <2> QED
    BY <1>4, <2>4, <2>6, <2>7, <2>8 DEF HeaderReadOk
<1>5. CASE HeaderReadErr
  <2>1. reads # <<>> /\ Reads(reads')
    BY <1>5, <1>s DEF HeaderReadErr, HeaderReading
  <2>2. open' \in BOOLEAN /\ initialized' \in BOOLEAN
    BY <1>5, ErrorHandleFits DEF HeaderReadErr
  <2>3. up' \in BOOLEAN /\ lost' \in BOOLEAN
    <3>1. CASE Wild \/ UNCHANGED <<up, lost>>
      BY <3>1, WildFits
    <3>2. CASE lost' = TRUE /\ up' = up
      BY <3>2 DEF TypeOK
    <3> QED
      BY <1>5, <3>1, <3>2 DEF HeaderReadErr
  <2> QED
    BY <1>0, <1>5, <2>1, <2>2, <2>3 DEF HeaderReadErr, TypeOK, peer, Reads
<1>6. CASE FixedReadOk
  <2>1. reads # <<>> /\ wire # <<>> /\ wire' = Tail(wire) /\ Head(reads).cmd \in Fixed
    BY <1>6, ReadsFit DEF FixedReadOk, FixedReading, CanRead
  <2>2. wire' \in Seq(Unit) /\ Head(wire).n \in Nat
    BY <2>1, HeadIsUnit DEF TypeOK
  <2>3. UNCHANGED <<up, client, toSend, asked, owed, open, initialized, ready, head, writes, answered, doubled>>
    BY <1>6 DEF FixedReadOk, peer
  <2>4. PICK rs : rs = Tail(reads)
    OBVIOUS
  <2>5. Reads(rs)
    BY <1>s, <2>1, <2>4
  <2>6. CASE lost' = TRUE /\ reads' = rs /\ UNCHANGED bodies
    BY <1>0, <2>2, <2>3, <2>5, <2>6 DEF TypeOK, Reads
  <2>7. CASE /\ reads' = Append(rs, [kind |-> "idpw", cmd |-> Head(reads).cmd])
             /\ UNCHANGED <<lost, bodies>>
    <3>1. [kind |-> "idpw", cmd |-> Head(reads).cmd] \in ReadOp
      BY <2>1, CommandsAre DEF ReadOp
    <3>2. Reads(reads')
      BY <2>5, <2>7, <3>1, ReadsMore
    <3> QED
      BY <1>0, <2>2, <2>3, <2>7, <3>2 DEF TypeOK, Reads
  <2>8. CASE /\ reads' = rs /\ Head(reads).cmd # "ReqLog"
             /\ bodies' = Append(bodies, [cmd |-> Head(reads).cmd, left |-> Head(wire).n, err |-> "ok"])
             /\ UNCHANGED lost
    <3>1. [cmd |-> Head(reads).cmd, left |-> Head(wire).n, err |-> "ok"] \in Body
      BY <2>1, <2>2, <2>8 DEF Fixed, Body
    <3>2. bodies' \in Seq(Body)
      BY <2>8, <3>1 DEF TypeOK
    <3> QED
      BY <1>0, <2>2, <2>3, <2>5, <2>8, <3>2 DEF TypeOK, Reads
  <2> QED
    BY <1>6, <2>4, <2>6, <2>7, <2>8 DEF FixedReadOk
<1>7. CASE FixedReadErr
  <2>1. reads # <<>> /\ Reads(reads') /\ Head(reads).cmd \in Fixed
    BY <1>7, <1>s, ReadsFit DEF FixedReadErr, FixedReading
  <2>2. PICK err \in ReadErrors :
             /\ \/ ErrorHandle(err) \/ UNCHANGED <<open, initialized>>
             /\ \/ UNCHANGED bodies
                \/ /\ Head(reads).cmd # "ReqLog"
                   /\ \E n \in Parts : bodies' = Append(bodies, [cmd |-> Head(reads).cmd, left |-> n, err |-> err])
    BY <1>7 DEF FixedReadErr
  <2>3. open' \in BOOLEAN /\ initialized' \in BOOLEAN
    BY <2>2, ErrorHandleFits DEF TypeOK
  <2>4. bodies' \in Seq(Body)
    <3>1. CASE UNCHANGED bodies
      BY <3>1 DEF TypeOK
    <3>2. ASSUME NEW n \in Parts, Head(reads).cmd # "ReqLog",
                 bodies' = Append(bodies, [cmd |-> Head(reads).cmd, left |-> n, err |-> err])
          PROVE  bodies' \in Seq(Body)
      <4>1. [cmd |-> Head(reads).cmd, left |-> n, err |-> err] \in Body
        BY <2>1, <3>2, SessionAssumption, ErrorsAre DEF Fixed, Body
      <4> QED
        BY <3>2, <4>1 DEF TypeOK
    <3> QED
      BY <2>2, <3>1, <3>2
  <2> QED
    BY <1>0, <1>7, <2>1, <2>3, <2>4 DEF FixedReadErr, TypeOK, peer, Reads
<1>8. CASE IdPwReadOk
  <2>1. reads # <<>> /\ wire # <<>> /\ wire' = Tail(wire) /\ Reads(reads')
    BY <1>8, <1>s DEF IdPwReadOk, IdPwReading, CanRead
  <2>2. wire' \in Seq(Unit)
    BY <2>1, HeadIsUnit DEF TypeOK
  <2>3. Append(writes, "ReqLog") \in Seq(AllCmds)
    BY CommandsAre, CommandsMore DEF TypeOK
  <2>4. UNCHANGED <<up, client, toSend, asked, owed, open, head, bodies, answered, doubled>>
    BY <1>8 DEF IdPwReadOk, peer
  <2>5. CASE lost' = TRUE /\ UNCHANGED <<initialized, ready, writes>>
    BY <1>0, <2>1, <2>2, <2>4, <2>5 DEF TypeOK, Reads
  <2>6. CASE /\ \/ initialized' = TRUE /\ ready' = TRUE
                \/ UNCHANGED <<initialized, ready>>
             /\ writes' = Append(writes, "ReqLog") /\ UNCHANGED lost
    <3>1. initialized' \in BOOLEAN /\ ready' \in BOOLEAN
      <4>1. CASE initialized' = TRUE /\ ready' = TRUE
        BY <4>1
      <4>2. CASE UNCHANGED <<initialized, ready>>
        BY <4>2 DEF TypeOK
      <4> QED
        BY <2>6, <4>1, <4>2
    <3> QED
      BY <1>0, <2>1, <2>2, <2>3, <2>4, <2>6, <3>1 DEF TypeOK, Reads
  <2> QED
    BY <1>8, <2>5, <2>6 DEF IdPwReadOk
<1>9. CASE IdPwReadErr
  <2>1. Reads(reads')
    BY <1>9, <1>s DEF IdPwReadErr, IdPwReading
  <2>2. open' \in BOOLEAN /\ initialized' \in BOOLEAN
    BY <1>9, ErrorHandleFits DEF IdPwReadErr
  <2> QED
    BY <1>0, <1>9, <2>1, <2>2 DEF IdPwReadErr, TypeOK, peer, Reads
<1>10. ASSUME NEW i \in 1 .. Len(bodies), BodyRead(i) PROVE TypesOK'
  <2>1. wire # <<>> /\ wire' = Tail(wire) /\ bodies[i].left > 0
    BY <1>10 DEF BodyRead, CanRead
  <2>2. wire' \in Seq(Unit)
    BY <2>1, HeadIsUnit DEF TypeOK
  <2>3. bodies \in Seq(Body) /\ bodies[i] \in Body
    BY DEF TypeOK
  <2>4. [bodies[i] EXCEPT !.left = @ - 1] \in Body
    <3>1. bodies[i].left - 1 \in Nat
      BY <2>1, <2>3 DEF Body
    <3> QED
      BY <2>3, <3>1 DEF Body
  <2>5. bodies' = [bodies EXCEPT ![i] = [bodies[i] EXCEPT !.left = @ - 1]]
    BY <1>10 DEF BodyRead
  <2>6. bodies' \in Seq(Body)
    BY <2>3, <2>4, <2>5, ExceptSeq
  <2>7. lost' \in BOOLEAN
    BY <1>10 DEF BodyRead
  <2> QED
    BY <1>0, <1>10, <2>2, <2>6, <2>7 DEF BodyRead, TypeOK, peer, FixedOfAction
<1>11. ASSUME NEW i \in 1 .. Len(bodies), BodyThrow(i) PROVE TypesOK'
  <2>1. up' \in BOOLEAN /\ lost' \in BOOLEAN
    BY <1>11, WildFits DEF BodyThrow
  <2> QED
    BY <1>0, <1>11, <2>1 DEF BodyThrow, TypeOK, peer, FixedOfAction
<1>12. ASSUME NEW i \in 1 .. Len(bodies), BodyEnd(i) PROVE TypesOK'
  <2>1. bodies' \in Seq(Body)
    BY <1>12, DropFits DEF BodyEnd, TypeOK
  <2>2. bodies[i].cmd \in AllCmds
    <3>1. bodies[i] \in Body
      BY DEF TypeOK
    <3> QED
      BY <3>1, CommandsAre DEF Body
  <2>3. UNCHANGED <<client, toSend, asked, owed, wire, ready, writes, doubled>>
    BY <1>12 DEF BodyEnd, peer
  <2>4. CASE Down /\ UNCHANGED <<open, initialized, head, reads, answered>>
    BY <1>0, <1>r, <2>1, <2>3, <2>4, WildFits DEF TypeOK, Reads
  <2>5. CASE /\ answered' = IF HasAnswer(bodies[i].cmd) THEN Append(answered, bodies[i].cmd) ELSE answered
             /\ TaskEnd(bodies[i].err, head, reads)
    <3>1. answered' \in Seq(AllCmds)
      BY <2>2, <2>5, CommandsMore DEF TypeOK
    <3> QED
      BY <1>0, <1>r, <2>1, <2>3, <2>5, <3>1, TaskEndFits DEF TypeOK, Reads
  <2> QED
    BY <1>12, <2>4, <2>5 DEF BodyEnd
<1>13. CASE WriteEnd
  <2>1. writes # <<>> /\ writes' = Tail(writes)
    BY <1>13 DEF WriteEnd
  <2>2. Head(writes) \in AllCmds /\ writes' \in Seq(AllCmds)
    BY <2>1 DEF TypeOK
  <2>3. UNCHANGED <<client, toSend, asked, owed, wire, ready, bodies, doubled>>
    BY <1>13 DEF WriteEnd, peer
  <2>4. PICK err \in WriteResults :
             /\ TaskEnd(err, head, reads)
             /\ answered' = IF err = "ok" THEN Append(answered, Head(writes)) ELSE answered
    BY <1>13 DEF WriteEnd
  <2>5. answered' \in Seq(AllCmds)
    BY <2>2, <2>4, CommandsMore DEF TypeOK
  <2> QED
    BY <1>0, <1>r, <2>2, <2>3, <2>4, <2>5, TaskEndFits DEF TypeOK, Reads
<1>14. CASE UNCHANGED vars
  BY <1>14 DEF vars, server, peer, TypeOK, FixedOfAction
<1> QED
  BY <1>1, <1>2, <1>3, <1>4, <1>5, <1>6, <1>7, <1>8, <1>9, <1>10, <1>11, <1>12, <1>13, <1>14
  DEF Next, Client, Handler

LEMMA AlwaysTypes == Spec => []TypesOK
BY TypesInit, TypesNext, PTL DEF Spec

\* The variables of a session keep their types, whatever its client sends, whenever it
\* leaves, and also when the session is out of step.
THEOREM SessionIsTyped == Spec => []TypeOK
<1>1. TypesOK => TypeOK
  BY DEF TypesOK
<1> QED
  BY <1>1, AlwaysTypes, PTL

-----------------------------------------------------------------------------
(***************************************************************************)
(* The stream: what the client has begun to send and the server has not    *)
(* read. It is a run of requests, of which the first may be read in part   *)
(* and, when the client has gone, the last cut short.                      *)
(***************************************************************************)
Stream == wire \o toSend

\* k parts come next, and then a header. whole: nothing is cut off.
Parted(p, k, whole) ==
  /\ whole => k <= Len(p)
  /\ \A j \in 1 .. Len(p) : (j <= k => p[j].t = "B") /\ (j = k + 1 => p[j].t = "H")

\* A header is followed by the struct of its action, if it has one, and by the next
\* header if not; a struct by its parts and a header.
HeaderFits(p, i, whole) ==
  IF p[i].cmd \in Fixed
  THEN /\ whole => i < Len(p)
       /\ i < Len(p) => p[i + 1].t = "F" /\ p[i + 1].cmd = p[i].cmd
  ELSE i < Len(p) => p[i + 1].t = "H"

StructFits(p, i, whole) ==
  /\ p[i].cmd = "ReqLog" => p[i].n = 1
  /\ whole => i + p[i].n <= Len(p)
  /\ \A j \in 1 .. Len(p) :
       /\ i < j /\ j <= i + p[i].n => p[j].t = "B"
       /\ j = i + p[i].n + 1 => p[j].t = "H"

Formed(p, whole) ==
  \A i \in 1 .. Len(p) :
    /\ p[i].t = "H" => HeaderFits(p, i, whole)
    /\ p[i].t = "F" => StructFits(p, i, whole)

LEMMA NumbersOf ==
  ASSUME NEW p \in Seq(Unit)
  PROVE  \A i \in 1 .. Len(p) : p[i] \in Unit /\ p[i].n \in Nat
<1>1. \A i \in 1 .. Len(p) : p[i] \in Unit
  OBVIOUS
<1> QED
  BY <1>1 DEF Unit

LEMMA FormedTail ==
  ASSUME NEW p \in Seq(Unit), p # <<>>, NEW whole, Formed(p, whole)
  PROVE  Formed(Tail(p), whole)
<1>1. /\ Len(p) \in Nat /\ Len(p) >= 1 /\ Len(Tail(p)) = Len(p) - 1
      /\ \A i \in 1 .. Len(p) - 1 : Tail(p)[i] = p[i + 1]
  OBVIOUS
<1>n. \A i \in 1 .. Len(p) : p[i].n \in Nat
  BY NumbersOf
<1> SUFFICES ASSUME NEW i \in 1 .. Len(p) - 1
             PROVE  /\ p[i + 1].t = "H" => HeaderFits(Tail(p), i, whole)
                    /\ p[i + 1].t = "F" => StructFits(Tail(p), i, whole)
  BY <1>1 DEF Formed
<1>2. i + 1 \in 1 .. Len(p)
  BY <1>1
<1>3. CASE p[i + 1].t = "H"
  <2>1. HeaderFits(p, i + 1, whole)
    BY <1>2, <1>3 DEF Formed
  <2> QED
    BY <1>1, <1>3, <2>1 DEF HeaderFits
<1>4. CASE p[i + 1].t = "F"
  <2>1. StructFits(p, i + 1, whole)
    BY <1>2, <1>4 DEF Formed
  <2>2. PICK m \in Nat : m = p[i + 1].n
    BY <1>n, <1>2
  <2>3. ASSUME NEW j \in 1 .. Len(p) - 1
        PROVE  /\ i < j /\ j <= i + m => p[j + 1].t = "B"
               /\ j = i + m + 1 => p[j + 1].t = "H"
    <3>1. PICK k \in 1 .. Len(p) : k = j + 1
      BY <1>1
    <3>2. /\ i + 1 < k /\ k <= i + 1 + m => p[k].t = "B"
          /\ k = i + 1 + m + 1 => p[k].t = "H"
      BY <2>1, <2>2 DEF StructFits
    <3>3. /\ i < j /\ j <= i + m => i + 1 < k /\ k <= i + 1 + m
          /\ j = i + m + 1 => k = i + 1 + m + 1
      BY <3>1
    <3> QED
      BY <3>1, <3>2, <3>3
  <2> QED
    BY <1>1, <1>4, <2>1, <2>2, <2>3 DEF StructFits
<1> QED
  BY <1>3, <1>4

\* A stream cut off is formed as far as it goes.
LEMMA FormedCut ==
  ASSUME NEW p \in Seq(Unit), NEW q \in Seq(Unit), NEW whole, Formed(p \o q, whole)
  PROVE  Formed(p, FALSE)
<1>1. /\ Len(p) \in Nat /\ Len(q) \in Nat /\ Len(p \o q) = Len(p) + Len(q)
      /\ \A i \in 1 .. Len(p) : (p \o q)[i] = p[i] /\ i \in 1 .. Len(p \o q)
  OBVIOUS
<1>n. \A i \in 1 .. Len(p) : p[i].n \in Nat
  BY NumbersOf
<1> SUFFICES ASSUME NEW i \in 1 .. Len(p)
             PROVE  /\ p[i].t = "H" => HeaderFits(p, i, FALSE)
                    /\ p[i].t = "F" => StructFits(p, i, FALSE)
  BY DEF Formed
<1>2. CASE p[i].t = "H"
  <2>1. HeaderFits(p \o q, i, whole)
    BY <1>1, <1>2 DEF Formed
  <2> QED
    BY <1>1, <1>2, <2>1 DEF HeaderFits
<1>3. CASE p[i].t = "F"
  <2>1. StructFits(p \o q, i, whole)
    BY <1>1, <1>3 DEF Formed
  <2> QED
    BY <1>1, <1>n, <1>3, <2>1 DEF StructFits
<1> QED
  BY <1>2, <1>3

\* A request is formed, and begins with its header.
LEMMA UnitsFormed ==
  ASSUME NEW c \in AllCmds, NEW n \in Nat, c = "ReqLog" => n = 1
  PROVE  /\ Units(c, n) \in Seq(Unit) /\ Formed(Units(c, n), TRUE)
         /\ Len(Units(c, n)) >= 1 /\ Units(c, n)[1].t = "H"
<1> DEFINE unit(t) == [t |-> t, cmd |-> c, n |-> n]
           parts == [i \in 1 .. n |-> unit("B")]
<1>1. Units(c, n) \in Seq(Unit)
  BY UnitsFit
<1>2. CASE c \in Fixed
  <2>1. Units(c, n) = <<unit("H"), unit("F")>> \o parts
    BY <1>2 DEF Units, Fixed
  <2>2. parts \in Seq({unit("B")}) /\ Len(parts) = n
    BY IsASeq
  <2>3. /\ Len(Units(c, n)) = n + 2
        /\ Units(c, n)[1] = unit("H") /\ Units(c, n)[2] = unit("F")
        /\ \A i \in 3 .. n + 2 : Units(c, n)[i] = unit("B")
    BY <2>1, <2>2
  <2>4. HeaderFits(Units(c, n), 1, TRUE)
    BY <1>2, <2>3 DEF HeaderFits
  <2>5. StructFits(Units(c, n), 2, TRUE)
    BY <2>3 DEF StructFits
  <2>6. \A i \in 1 .. n + 2 : i = 1 \/ i = 2 \/ i \in 3 .. n + 2
    OBVIOUS
  <2>7. \A i \in 3 .. n + 2 : Units(c, n)[i].t = "B"
    BY <2>3
  <2>8. Units(c, n)[1].t = "H" /\ Units(c, n)[2].t = "F"
    BY <2>3
  <2>9. Formed(Units(c, n), TRUE)
    <3> SUFFICES ASSUME NEW i \in 1 .. n + 2
                 PROVE  /\ Units(c, n)[i].t = "H" => HeaderFits(Units(c, n), i, TRUE)
                        /\ Units(c, n)[i].t = "F" => StructFits(Units(c, n), i, TRUE)
      BY <2>3 DEF Formed
    <3> QED
      BY <2>4, <2>5, <2>6, <2>7, <2>8
  <2>10. Len(Units(c, n)) >= 1
    BY <2>3
  <2> QED
    BY <1>1, <2>8, <2>9, <2>10, Zenon
<1>3. CASE c \notin Fixed
  <2>1. Units(c, n) = <<unit("H")>>
    BY <1>3 DEF Units, Fixed
  <2>2. Len(Units(c, n)) = 1 /\ Units(c, n)[1] = unit("H")
    BY <2>1
  <2>3. Units(c, n)[1].t = "H" /\ Units(c, n)[1].cmd = c
    BY <2>2
  <2>4. HeaderFits(Units(c, n), 1, TRUE)
    BY <1>3, <2>2, <2>3 DEF HeaderFits
  <2>5. Formed(Units(c, n), TRUE)
    <3> SUFFICES ASSUME NEW i \in 1 .. 1
                 PROVE  /\ Units(c, n)[i].t = "H" => HeaderFits(Units(c, n), i, TRUE)
                        /\ Units(c, n)[i].t = "F" => StructFits(Units(c, n), i, TRUE)
      BY <2>2 DEF Formed
    <3>1. i = 1
      OBVIOUS
    <3> QED
      BY <2>3, <2>4, <3>1
  <2>6. Len(Units(c, n)) >= 1
    BY <2>2
  <2> QED
    BY <1>1, <2>3, <2>5, <2>6, Zenon
<1> QED
  BY <1>2, <1>3

\* So is what has one more request at its end.
LEMMA FormedMore ==
  ASSUME NEW p \in Seq(Unit), NEW q \in Seq(Unit), Formed(p, TRUE), Formed(q, TRUE),
         Len(q) >= 1, q[1].t = "H"
  PROVE  Formed(p \o q, TRUE)
<1> DEFINE r == p \o q
<1>1. /\ Len(p) \in Nat /\ Len(q) \in Nat /\ Len(r) = Len(p) + Len(q)
      /\ \A i \in 1 .. Len(p) : i \in 1 .. Len(r) /\ r[i] = p[i]
      /\ \A i \in 1 .. Len(q) : Len(p) + i \in 1 .. Len(r) /\ r[Len(p) + i] = q[i]
  OBVIOUS
<1>n. (\A i \in 1 .. Len(p) : p[i].n \in Nat) /\ (\A i \in 1 .. Len(q) : q[i].n \in Nat)
  BY NumbersOf
<1>h. r[Len(p) + 1].t = "H"
  BY <1>1
<1> HIDE DEF r
<1>2. ASSUME NEW i \in 1 .. Len(p), p[i].t = "H" PROVE HeaderFits(r, i, TRUE)
  <2>1. HeaderFits(p, i, TRUE)
    BY <1>2 DEF Formed
  <2>2. i < Len(p) => r[i + 1] = p[i + 1]
    BY <1>1
  <2>3. i = Len(p) => r[i + 1].t = "H"
    BY <1>h
  <2>4. i \in Nat /\ (i < Len(p) \/ i = Len(p)) /\ r[i] = p[i] /\ (i < Len(p) => i < Len(r))
    BY <1>1
  <2> QED
    BY <1>1, <2>1, <2>2, <2>3, <2>4 DEF HeaderFits
<1>3. ASSUME NEW i \in 1 .. Len(p), p[i].t = "F" PROVE StructFits(r, i, TRUE)
  <2>1. StructFits(p, i, TRUE) /\ p[i].n \in Nat
    BY <1>3, <1>n DEF Formed
  <2>2. ASSUME NEW j \in 1 .. Len(r)
        PROVE  /\ i < j /\ j <= i + p[i].n => r[j].t = "B"
               /\ j = i + p[i].n + 1 => r[j].t = "H"
    <3>1. i + p[i].n <= Len(p)
      BY <2>1 DEF StructFits
    <3>2. CASE j \in 1 .. Len(p)
      BY <1>1, <2>1, <3>2 DEF StructFits
    <3>3. CASE j \notin 1 .. Len(p)
      <4>1. j >= Len(p) + 1
        BY <1>1, <3>3
      <4>2. ~(j <= i + p[i].n) /\ (j = i + p[i].n + 1 => j = Len(p) + 1)
        <5>1. PICK m \in Nat : m = p[i].n
          BY <2>1
        <5>2. i + m <= Len(p)
          BY <3>1, <5>1
        <5>3. PICK l \in Nat : l = Len(p)
          BY <1>1
        <5>4. j \in Nat /\ i \in Nat
          OBVIOUS
        <5>5. ~(j <= i + m) /\ (j = i + m + 1 => j = l + 1)
          BY <4>1, <5>2, <5>3, <5>4
        <5> QED
          BY <5>1, <5>3, <5>5
      <4> QED
        BY <1>h, <4>2
    <3> QED
      BY <3>2, <3>3
  <2> QED
    BY <1>1, <2>1, <2>2 DEF StructFits
<1>4. ASSUME NEW i \in 1 .. Len(q), q[i].t = "H" PROVE HeaderFits(r, Len(p) + i, TRUE)
  <2>1. HeaderFits(q, i, TRUE)
    BY <1>4 DEF Formed
  <2>2. i < Len(q) => r[Len(p) + i + 1] = q[i + 1]
    <3>1. ASSUME i < Len(q) PROVE r[Len(p) + (i + 1)] = q[i + 1]
      BY <1>1, <3>1
    <3> QED
      BY <1>1, <3>1
  <2> QED
    BY <1>1, <2>1, <2>2 DEF HeaderFits
<1>5. ASSUME NEW i \in 1 .. Len(q), q[i].t = "F" PROVE StructFits(r, Len(p) + i, TRUE)
  <2>1. StructFits(q, i, TRUE) /\ q[i].n \in Nat /\ r[Len(p) + i] = q[i]
    BY <1>5, <1>n, <1>1 DEF Formed
  <2>2. ASSUME NEW j \in 1 .. Len(r), j > Len(p)
        PROVE  /\ Len(p) + i < j /\ j <= Len(p) + i + q[i].n => r[j].t = "B"
               /\ j = Len(p) + i + q[i].n + 1 => r[j].t = "H"
    <3>1. PICK k \in 1 .. Len(q) : j = Len(p) + k
      <4>1. j - Len(p) \in 1 .. Len(q) /\ j = Len(p) + (j - Len(p))
        BY <1>1, <2>2
      <4> QED
        BY <4>1
    <3>2. r[j] = q[k]
      BY <1>1, <3>1
    <3>3. /\ i < k /\ k <= i + q[i].n => q[k].t = "B"
          /\ k = i + q[i].n + 1 => q[k].t = "H"
      BY <2>1, <3>1 DEF StructFits
    <3>4. PICK m \in Nat : m = q[i].n
      BY <2>1
    <3>5. /\ i < k /\ k <= i + m => q[k].t = "B"
          /\ k = i + m + 1 => q[k].t = "H"
      BY <3>3, <3>4
    <3>6. /\ Len(p) + i < j /\ j <= Len(p) + i + m => q[k].t = "B"
          /\ j = Len(p) + i + m + 1 => q[k].t = "H"
      BY <1>1, <3>1, <3>5
    <3> QED
      BY <3>2, <3>4, <3>6
  <2>3. ASSUME NEW j \in 1 .. Len(r), ~(j > Len(p))
        PROVE  ~(Len(p) + i < j) /\ j # Len(p) + i + q[i].n + 1
    BY <1>1, <2>1, <2>3
  <2>4. Len(p) + i + q[i].n <= Len(r)
    BY <1>1, <2>1 DEF StructFits
  <2>5. q[i].cmd = "ReqLog" => q[i].n = 1
    BY <2>1 DEF StructFits
  <2> QED
    BY <2>1, <2>2, <2>3, <2>4, <2>5 DEF StructFits
<1>6. ASSUME NEW i \in 1 .. Len(r)
      PROVE  (r[i].t = "H" => HeaderFits(r, i, TRUE)) /\ (r[i].t = "F" => StructFits(r, i, TRUE))
  <2>1. CASE i <= Len(p)
    <3>1. i \in 1 .. Len(p) /\ r[i] = p[i]
      BY <1>1, <2>1
    <3> QED
      BY <1>2, <1>3, <3>1
  <2>2. CASE i > Len(p)
    <3>1. PICK k \in 1 .. Len(q) : i = Len(p) + k
      <4>1. i - Len(p) \in 1 .. Len(q) /\ i = Len(p) + (i - Len(p))
        BY <1>1, <2>2
      <4> QED
        BY <4>1
    <3>2. r[i] = q[k]
      BY <1>1, <3>1
    <3> QED
      BY <1>4, <1>5, <3>1, <3>2
  <2>3. i <= Len(p) \/ i > Len(p)
    BY <1>1
  <2> QED
    BY <2>1, <2>2, <2>3, Zenon
<1> QED
  BY <1>6 DEF Formed, r

\* What comes next still does when more is sent, when the first part is read, and
\* when the rest is cut off.
LEMMA PartedMore ==
  ASSUME NEW p \in Seq(Unit), NEW q \in Seq(Unit), NEW k \in Nat, Parted(p, k, TRUE),
         Len(q) >= 1, q[1].t = "H"
  PROVE  Parted(p \o q, k, TRUE)
<1>1. /\ Len(p) \in Nat /\ Len(q) \in Nat /\ Len(p \o q) = Len(p) + Len(q)
      /\ \A i \in 1 .. Len(p) : (p \o q)[i] = p[i]
      /\ (p \o q)[Len(p) + 1] = q[1]
  OBVIOUS
<1> QED
  BY <1>1 DEF Parted

LEMMA PartedTail ==
  ASSUME NEW p \in Seq(Unit), p # <<>>, NEW k \in Nat, k > 0, NEW whole, Parted(p, k, whole)
  PROVE  p[1].t = "B" /\ Parted(Tail(p), k - 1, whole)
<1>1. /\ Len(p) \in Nat /\ Len(p) >= 1 /\ Len(Tail(p)) = Len(p) - 1
      /\ \A i \in 1 .. Len(p) - 1 : Tail(p)[i] = p[i + 1]
  OBVIOUS
<1>2. ASSUME NEW j \in 1 .. Len(p) - 1
      PROVE  (j <= k - 1 => p[j + 1].t = "B") /\ (j = k => p[j + 1].t = "H")
  <2>1. j + 1 \in 1 .. Len(p)
    BY <1>1
  <2> QED
    BY <2>1 DEF Parted
<1> QED
  BY <1>1, <1>2 DEF Parted

LEMMA PartedCut ==
  ASSUME NEW p \in Seq(Unit), NEW q \in Seq(Unit), NEW k \in Nat, NEW whole, Parted(p \o q, k, whole)
  PROVE  Parted(p, k, FALSE)
<1>1. /\ Len(p) \in Nat /\ Len(q) \in Nat /\ Len(p \o q) = Len(p) + Len(q)
      /\ \A i \in 1 .. Len(p) : (p \o q)[i] = p[i] /\ i \in 1 .. Len(p \o q)
  OBVIOUS
<1> QED
  BY <1>1 DEF Parted

\* What the struct of an action announces.
LEMMA PartedByStruct ==
  ASSUME NEW p \in Seq(Unit), p # <<>>, NEW whole, Formed(p, whole), p[1].t = "F"
  PROVE  Parted(Tail(p), p[1].n, whole) /\ (p[1].cmd = "ReqLog" => p[1].n = 1)
<1>1. /\ Len(p) \in Nat /\ Len(p) >= 1 /\ Len(Tail(p)) = Len(p) - 1
      /\ \A i \in 1 .. Len(p) - 1 : Tail(p)[i] = p[i + 1]
  OBVIOUS
<1>2. StructFits(p, 1, whole) /\ p[1].n \in Nat
  <2>1. 1 \in 1 .. Len(p)
    BY <1>1
  <2> QED
    BY <2>1, NumbersOf DEF Formed
<1>3. ASSUME NEW j \in 1 .. Len(p) - 1
      PROVE  (j <= p[1].n => p[j + 1].t = "B") /\ (j = p[1].n + 1 => p[j + 1].t = "H")
  <2>1. j + 1 \in 1 .. Len(p)
    BY <1>1
  <2> QED
    BY <1>2, <2>1 DEF StructFits
<1> QED
  BY <1>1, <1>2, <1>3 DEF Parted, StructFits

\* How the stream moves with the wire.
LEMMA StreamIs ==
  ASSUME wire \in Seq(Unit), toSend \in Seq(Unit)
  PROVE  /\ Stream \in Seq(Unit) /\ (wire # <<>> => Stream # <<>>)
         /\ wire # <<>> => Stream[1] = Head(wire) /\ Tail(wire) \o toSend = Tail(Stream)
         /\ toSend # <<>> => Append(wire, Head(toSend)) \o Tail(toSend) = Stream
         /\ toSend = <<>> => Stream = wire
         /\ \A q \in Seq(Unit) : toSend = <<>> => wire \o q = Stream \o q
<1>1. Stream \in Seq(Unit) /\ (wire # <<>> => Stream # <<>>)
  BY DEF Stream
<1>2. ASSUME wire # <<>> PROVE Stream[1] = Head(wire) /\ Tail(wire) \o toSend = Tail(Stream)
  BY <1>2 DEF Stream
<1>3. ASSUME toSend # <<>> PROVE Append(wire, Head(toSend)) \o Tail(toSend) = Stream
  BY <1>3 DEF Stream
<1>4. toSend = <<>> => Stream = wire
  BY DEF Stream
<1> QED
  BY <1>1, <1>2, <1>3, <1>4

-----------------------------------------------------------------------------
(***************************************************************************)
(* The chain: where a session is that is sound, and what comes next in the *)
(* stream there.                                                           *)
(***************************************************************************)
Nothing == reads = <<>> /\ writes = <<>> /\ bodies = <<>>

Over ==
  /\ Nothing
  /\ client = "on" => open /\ head = "Other"

AtHeader ==
  /\ reads = <<HeaderRead>> /\ writes = <<>> /\ bodies = <<>>
  /\ head = None /\ open
  /\ Parted(Stream, 0, client = "on")

AtStruct ==
  /\ \E c \in Fixed : reads = <<[kind |-> "fixed", cmd |-> c]>> /\ head = c
                      /\ (Stream # <<>> => Stream[1].cmd = c)
  /\ writes = <<>> /\ bodies = <<>>
  /\ open
  /\ client = "on" => Stream # <<>>
  /\ Stream # <<>> => Stream[1].t = "F"

AtIdPw ==
  /\ reads = <<[kind |-> "idpw", cmd |-> "ReqLog"]>> /\ writes = <<>> /\ bodies = <<>>
  /\ head = "ReqLog" /\ open
  /\ Parted(Stream, 1, client = "on")

AtBody ==
  \E b \in {bodies[i] : i \in 1 .. Len(bodies)} :
    /\ reads = <<>> /\ writes = <<>> /\ bodies = <<b>>
    /\ head = b.cmd
    /\ IF b.err = "ok" THEN open ELSE client # "on" /\ Stream = <<>>
    /\ Parted(Stream, b.left, client = "on")

AtWrite ==
  \E c \in AllCmds :
    /\ reads = <<>> /\ writes = <<c>> /\ bodies = <<>>
    /\ head = c /\ open
    /\ Parted(Stream, 0, client = "on")

Point == Over \/ AtHeader \/ AtStruct \/ AtIdPw \/ AtBody \/ AtWrite

Aligned ==
  /\ Formed(Stream, client = "on")
  /\ client # "on" => toSend = <<>>
  /\ Point

IInv == TypesOK /\ (Sound => Aligned)

\* The steps keep it, and do harm for the causes named only.
Kept == (Sound' => Aligned') /\ HarmStep

LEMMA WhereReading ==
  ASSUME TypesOK, Point
  PROVE  /\ HeaderReading => AtHeader
         /\ FixedReading => AtStruct
         /\ IdPwReading => AtIdPw
         /\ bodies # <<>> => AtBody
         /\ writes # <<>> => AtWrite
<1>1. CASE Over
  BY <1>1 DEF Over, Nothing, HeaderReading, FixedReading, IdPwReading
<1>2. CASE AtHeader
  BY <1>2 DEF AtHeader, HeaderRead, HeaderReading, FixedReading, IdPwReading
<1>3. CASE AtStruct
  BY <1>3 DEF AtStruct, HeaderReading, FixedReading, IdPwReading
<1>4. CASE AtIdPw
  BY <1>4 DEF AtIdPw, HeaderReading, FixedReading, IdPwReading
<1>5. CASE AtBody
  BY <1>5 DEF AtBody, HeaderReading, FixedReading, IdPwReading
<1>6. CASE AtWrite
  BY <1>6 DEF AtWrite, HeaderReading, FixedReading, IdPwReading
<1> QED
  BY <1>1, <1>2, <1>3, <1>4, <1>5, <1>6 DEF Point

\* Undefined behaviour, and the end of the process, end what is sound.
LEMMA WildEnds ==
  ASSUME Sound, Wild \/ Down
  PROVE  ~Running' /\ ~Sound'
<1>1. CASE up' = FALSE
  BY <1>1, Zenon DEF Running, Sound
<1>2. CASE lost' = TRUE
  BY <1>2, Zenon DEF Running, Sound
<1> QED
  BY <1>1, <1>2 DEF Wild, Down

LEMMA StillRuns ==
  ASSUME Sound, UNCHANGED <<up, lost>>
  PROVE  Running' /\ HarmStep
<1>1. Running'
  BY DEF Sound, Running
<1> QED
  BY <1>1 DEF HarmStep

\* An error of a read or a write on an open socket tells that the peer has gone.
LEMMA ErrorMeans ==
  ASSUME TypesOK, Aligned, open, NEW err
  PROVE  /\ err \in ReadErrors => client # "on" /\ Stream = <<>> /\ err # "ok"
         /\ err \in WriteResults /\ err # "ok" => client # "on"
<1>1. ASSUME err \in ReadErrors PROVE client # "on" /\ Stream = <<>> /\ err # "ok"
  <2>1. wire = <<>> /\ client # "on" /\ err = client
    BY <1>1 DEF ReadErrors
  <2>2. toSend = <<>>
    BY <2>1 DEF Aligned
  <2>3. Stream = <<>>
    BY <2>1, <2>2, StreamIs DEF TypesOK, TypeOK
  <2> QED
    BY <2>1, <2>3 DEF TypesOK, TypeOK, Peers
<1>2. err \in WriteResults /\ err # "ok" => client # "on"
  BY DEF WriteResults
<1> QED
  BY <1>1, <1>2

\* What a read takes from the wire is the first of the stream.
LEMMA WireRead ==
  ASSUME TypesOK, Aligned, wire # <<>>, wire' = Tail(wire), UNCHANGED <<client, toSend>>
  PROVE  /\ Stream \in Seq(Unit) /\ Stream # <<>> /\ Stream[1] = Head(wire) /\ Stream' = Tail(Stream)
         /\ Formed(Stream, client = "on") /\ Formed(Stream', client' = "on")
         /\ client' # "on" => toSend' = <<>>
<1>1. wire \in Seq(Unit) /\ toSend \in Seq(Unit)
  BY DEF TypesOK, TypeOK
<1>2. Stream \in Seq(Unit) /\ Stream # <<>> /\ Stream[1] = Head(wire) /\ Tail(wire) \o toSend = Tail(Stream)
  BY <1>1, StreamIs
<1>3. Stream' = Tail(Stream)
  BY <1>2 DEF Stream
<1>4. PICK whole : whole = (client = "on")
  OBVIOUS
<1>5. Formed(Stream, whole)
  BY <1>4 DEF Aligned
<1>6. Formed(Tail(Stream), whole)
  BY <1>2, <1>5, FormedTail
<1>7. Formed(Stream, client = "on") /\ Formed(Stream', client' = "on")
  BY <1>3, <1>4, <1>5, <1>6
<1>8. client' # "on" => toSend' = <<>>
  BY DEF Aligned
<1> QED
  BY <1>2, <1>3, <1>7, <1>8, Zenon

LEMMA WireStays ==
  ASSUME Aligned, UNCHANGED <<wire, client, toSend>>
  PROVE  /\ Stream' = Stream /\ Formed(Stream', client' = "on")
         /\ client' # "on" => toSend' = <<>>
<1>1. Stream' = Stream
  BY DEF Stream
<1> QED
  BY <1>1 DEF Aligned

\* What follows a header that is read.
LEMMA AfterHeader ==
  ASSUME NEW p \in Seq(Unit), p # <<>>, NEW whole, Formed(p, whole), Parted(p, 0, whole)
  PROVE  /\ p[1].t = "H"
         /\ p[1].cmd \in Fixed => /\ whole => Tail(p) # <<>>
                                  /\ Tail(p) # <<>> => Tail(p)[1].t = "F" /\ Tail(p)[1].cmd = p[1].cmd
         /\ p[1].cmd \notin Fixed => Parted(Tail(p), 0, whole)
<1>1. /\ Len(p) \in Nat /\ Len(p) >= 1 /\ Len(Tail(p)) = Len(p) - 1 /\ Tail(p) \in Seq(Unit)
      /\ \A i \in 1 .. Len(p) - 1 : Tail(p)[i] = p[i + 1]
  OBVIOUS
<1>2. p[1].t = "H"
  BY <1>1 DEF Parted
<1>3. HeaderFits(p, 1, whole)
  BY <1>1, <1>2 DEF Formed
<1>4. Len(p) > 1 => Tail(p)[1] = p[2]
  BY <1>1
<1>5. (Tail(p) # <<>>) <=> (Len(p) > 1)
  <2>1. PICK q \in Seq(Unit) : q = Tail(p)
    BY <1>1
  <2>2. (q # <<>>) <=> (Len(q) > 0)
    OBVIOUS
  <2> QED
    BY <1>1, <2>1, <2>2
<1>6. ASSUME p[1].cmd \in Fixed
      PROVE  /\ whole => Tail(p) # <<>>
             /\ Tail(p) # <<>> => Tail(p)[1].t = "F" /\ Tail(p)[1].cmd = p[1].cmd
  BY <1>3, <1>4, <1>5, <1>6 DEF HeaderFits
<1>7. ASSUME p[1].cmd \notin Fixed PROVE Parted(Tail(p), 0, whole)
  <2>1. Len(p) > 1 => Tail(p)[1].t = "H"
    BY <1>3, <1>4, <1>7 DEF HeaderFits
  <2> QED
    BY <1>1, <2>1 DEF Parted
<1> QED
  BY <1>2, <1>6, <1>7, Zenon

LEMMA KeptByHeaderRead == TypesOK /\ Sound /\ Aligned /\ HeaderReadOk => Kept
<1> SUFFICES ASSUME TypesOK, Sound, Aligned, HeaderReadOk PROVE Kept
  OBVIOUS
<1>1. AtHeader /\ wire # <<>> /\ wire' = Tail(wire) /\ HeaderReading /\ CanRead
  BY WhereReading DEF HeaderReadOk, CanRead, Aligned
<1>2. UNCHANGED <<client, toSend, bodies>>
  BY DEF HeaderReadOk, peer
<1>3. /\ Stream \in Seq(Unit) /\ Stream # <<>> /\ Stream[1] = Head(wire) /\ Stream' = Tail(Stream)
      /\ Formed(Stream, client = "on") /\ Formed(Stream', client' = "on")
      /\ client' # "on" => toSend' = <<>>
  BY <1>1, <1>2, WireRead
<1>4. PICK c : c = Head(wire).cmd
  OBVIOUS
<1>5. c \in AllCmds /\ c # None
  BY <1>1, <1>4, HeadIsUnit, SessionAssumption DEF TypesOK, TypeOK
<1>6. /\ Head(wire).t = "H"
      /\ c \in Fixed => /\ client = "on" => Stream' # <<>>
                        /\ Stream' # <<>> => Stream'[1].t = "F" /\ Stream'[1].cmd = c
      /\ c \notin Fixed => Parted(Stream', 0, client' = "on")
  <2>1. PICK whole : whole = (client = "on")
    OBVIOUS
  <2>2. Parted(Stream, 0, whole) /\ Formed(Stream, whole)
    BY <1>1, <1>3, <2>1 DEF AtHeader
  <2> QED
    BY <1>2, <1>3, <1>4, <2>1, <2>2, AfterHeader
<1>7. /\ Tail(reads) = <<>> /\ head = None /\ open /\ writes = <<>> /\ bodies = <<>>
      /\ Append(<<>>, HeaderRead) = <<HeaderRead>>
  BY <1>1 DEF AtHeader
<1>8. Aligned' <=> Point'
  BY <1>3 DEF Aligned
<1>9. CASE c = "BadSize" /\ reads' = Append(<<>>, HeaderRead)
           /\ UNCHANGED <<up, lost, open, initialized, head, writes, answered, doubled>>
  <2>1. Parted(Stream', 0, client' = "on")
    BY <1>6, <1>9 DEF Fixed, BodyActions
  <2>2. AtHeader'
    BY <1>2, <1>7, <1>9, <2>1 DEF AtHeader, HeaderRead
  <2> QED
    BY <1>8, <1>9, <2>2, StillRuns DEF Point, Kept
<1>10. CASE StartAction(c, <<>>)
  <2>1. CASE c = "Other"
    <3>1. Over'
      BY <1>2, <1>7, <1>10, <2>1 DEF StartAction, Over, Nothing
    <3> QED
      BY <1>8, <1>10, <3>1, StillRuns DEF StartAction, Point, Kept
  <2>2. CASE c # "Other"
    <3>1. c \in Fixed /\ reads' = <<[kind |-> "fixed", cmd |-> c]>> /\ head' = c
      BY <1>10, <2>2 DEF StartAction, Fixed
    <3>2. AtStruct'
      BY <1>2, <1>6, <1>7, <1>10, <3>1 DEF StartAction, AtStruct, Fixed, BodyActions
    <3> QED
      BY <1>8, <1>10, <3>2, StillRuns DEF StartAction, Point, Kept
  <2> QED
    BY <2>1, <2>2
<1>11. CASE BadCommand(c, <<>>)
  <2>1. Wild \/ Down
    BY <1>11 DEF BadCommand
  <2>2. Misuse
    BY <1>1, <1>4, <1>11 DEF BadCommand, Misuse
  <2> QED
    BY <2>1, <2>2, WildEnds DEF Kept, HarmStep
<1>12. CASE GetList(c, <<>>)
  <2>1. PICK zero \in Zeroed : SetValue(zero) /\ writes' = IF zero THEN Append(writes, c) ELSE writes
    BY <1>12 DEF GetList
  <2>2. CASE zero
    <3>1. writes' = <<c>> /\ UNCHANGED <<up, lost>>
      BY <1>7, <2>1, <2>2 DEF SetValue
    <3>2. c \notin Fixed
      BY <1>12 DEF GetList, Fixed, BodyActions
    <3>3. AtWrite'
      BY <1>2, <1>5, <1>6, <1>7, <1>12, <3>1, <3>2 DEF GetList, AtWrite
    <3> QED
      BY <1>8, <3>1, <3>3, StillRuns DEF Point, Kept
  <2>3. CASE ~zero
    <3>1. Wild
      BY <2>1, <2>3 DEF SetValue
    <3>2. FALSE \in Zeroed
      BY <2>3, SessionAssumption
    <3>3. Misuse
      BY <1>1, <1>4, <1>12, <3>2 DEF GetList, Misuse
    <3> QED
      BY <3>1, <3>3, WildEnds DEF Kept, HarmStep
  <2> QED
    BY <2>2, <2>3
<1>13. CASE GetFriendList(c, <<>>)
  <2>1. CASE WriteResults # {"ok"} /\ Down
    <3>1. client # "on"
      BY <1>7, <2>1 DEF WriteResults
    <3>2. Head(wire).cmd = "GetFriendList"
      BY <1>4, <1>13 DEF GetFriendList
    <3> QED
      BY <1>1, <2>1, <3>1, <3>2, WildEnds DEF Kept, HarmStep
  <2>2. ASSUME NEW err \in WriteResults, TaskEnd(err, c, <<>>) PROVE Kept
    <3>1. UNCHANGED <<up, lost, writes>> /\ head' = None
      BY <1>5, <1>13, <2>2 DEF TaskEnd, GetFriendList
    <3>2. CASE err = "ok"
      <4>1. reads' = <<HeaderRead>> /\ open' = open
        BY <1>5, <2>2, <3>2 DEF TaskEnd
      <4>2. Parted(Stream', 0, client' = "on")
        BY <1>6, <1>13 DEF Fixed, BodyActions, GetFriendList
      <4>3. AtHeader'
        BY <1>2, <1>7, <3>1, <4>1, <4>2 DEF AtHeader, HeaderRead
      <4> QED
        BY <1>8, <3>1, <4>3, StillRuns DEF Point, Kept
    <3>3. CASE err # "ok"
      <4>1. reads' = <<>>
        BY <1>5, <2>2, <3>3 DEF TaskEnd
      <4>2. client' # "on"
        BY <1>2, <1>7, <2>2, <3>3, ErrorMeans
      <4>3. Over'
        BY <1>2, <1>7, <3>1, <4>1, <4>2 DEF Over, Nothing
      <4> QED
        BY <1>8, <3>1, <4>3, StillRuns DEF Point, Kept
    <3> QED
      BY <3>2, <3>3
  <2> QED
    BY <1>13, <2>1, <2>2 DEF GetFriendList
<1>14. CASE GetMsg(c, <<>>)
  <2>1. CASE WriteResults # {"ok"} /\ Down
    <3>1. client # "on"
      BY <1>7, <2>1 DEF WriteResults
    <3>2. Head(wire).cmd = "GetMsg"
      BY <1>4, <1>14 DEF GetMsg
    <3> QED
      BY <1>1, <2>1, <3>1, <3>2, WildEnds DEF Kept, HarmStep
  <2>2. CASE TaskEnd("ok", c, <<>>) /\ doubled' = TRUE
    <3>1. UNCHANGED <<up, lost>>
      BY <1>5, <2>2 DEF TaskEnd
    <3>2. ~Sound'
      BY <2>2, Zenon DEF Sound
    <3> QED
      BY <3>1, <3>2, StillRuns DEF Kept
  <2> QED
    BY <1>14, <2>1, <2>2 DEF GetMsg
<1>15. ReadHandle(c, <<>>) => Kept
  BY <1>10, <1>11, <1>12, <1>13, <1>14 DEF ReadHandle
<1> QED
  BY <1>4, <1>6, <1>7, <1>9, <1>15 DEF HeaderReadOk

LEMMA KeptByHeaderError == TypesOK /\ Sound /\ Aligned /\ HeaderReadErr => Kept
<1> SUFFICES ASSUME TypesOK, Sound, Aligned, HeaderReadErr PROVE Kept
  OBVIOUS
<1>1. AtHeader /\ HeaderReading
  BY WhereReading DEF HeaderReadErr, Aligned
<1>2. UNCHANGED <<client, toSend, wire, writes, bodies, head>> /\ reads' = Tail(reads)
  BY DEF HeaderReadErr, peer
<1>3. client # "on" /\ ~CanRead
  <2>1. PICK err \in ReadErrors : ErrorHandle(err)
    BY DEF HeaderReadErr
  <2>2. open
    BY <1>1 DEF AtHeader
  <2> QED
    BY <2>1, <2>2, ErrorMeans DEF ReadErrors, CanRead
<1>4. Over'
  BY <1>1, <1>2, <1>3 DEF AtHeader, Over, Nothing
<1>5. Aligned'
  BY <1>2, <1>4, WireStays DEF Aligned, Point
<1>6. HarmStep
  <2>1. CASE UNCHANGED <<up, lost>>
    BY <2>1, StillRuns
  <2>2. CASE TRUE \in FallOff
    BY <1>1, <1>3, <2>2 DEF HarmStep
  <2>3. UNCHANGED <<up, lost>> \/ \E decoded \in FallOff : decoded
    BY DEF HeaderReadErr
  <2>4. FallOff \subseteq BOOLEAN
    BY SessionAssumption
  <2> QED
    BY <2>1, <2>2, <2>3, <2>4
<1> QED
  BY <1>5, <1>6 DEF Kept

LEMMA KeptByStructRead == TypesOK /\ Sound /\ Aligned /\ FixedReadOk => Kept
<1> SUFFICES ASSUME TypesOK, Sound, Aligned, FixedReadOk PROVE Kept
  OBVIOUS
<1>1. AtStruct /\ wire # <<>> /\ wire' = Tail(wire)
  BY WhereReading DEF FixedReadOk, CanRead, Aligned
<1>2. UNCHANGED <<up, client, toSend, writes, head, open>>
  BY DEF FixedReadOk, peer
<1>3. /\ Stream \in Seq(Unit) /\ Stream # <<>> /\ Stream[1] = Head(wire) /\ Stream' = Tail(Stream)
      /\ Formed(Stream, client = "on") /\ Formed(Stream', client' = "on")
      /\ client' # "on" => toSend' = <<>>
  BY <1>1, <1>2, WireRead
<1>4. PICK c \in Fixed : reads = <<[kind |-> "fixed", cmd |-> c]>> /\ head = c /\ Stream[1].cmd = c
  BY <1>1, <1>3 DEF AtStruct
<1>5. /\ Head(reads).cmd = c /\ Tail(reads) = <<>> /\ writes = <<>> /\ bodies = <<>> /\ open
      /\ Head(wire).t = "F" /\ Head(wire).cmd = c
  BY <1>1, <1>3, <1>4 DEF AtStruct
<1>6. Parted(Stream', Head(wire).n, client' = "on") /\ (c = "ReqLog" => Head(wire).n = 1)
  <2>1. PICK whole : whole = (client = "on")
    OBVIOUS
  <2>2. Parted(Tail(Stream), Stream[1].n, whole) /\ (Stream[1].cmd = "ReqLog" => Stream[1].n = 1)
    BY <1>3, <1>5, <2>1, PartedByStruct
  <2> QED
    BY <1>2, <1>3, <1>4, <2>1, <2>2
<1>7. UNCHANGED lost
  BY <1>5 DEF FixedReadOk
<1>8. CASE c = "ReqLog" /\ reads' = Append(Tail(reads), [kind |-> "idpw", cmd |-> c]) /\ UNCHANGED bodies
  <2>1. AtIdPw'
    BY <1>2, <1>4, <1>5, <1>6, <1>8 DEF AtIdPw
  <2> QED
    BY <1>2, <1>3, <1>7, <2>1, StillRuns DEF Kept, Aligned, Point
<1>9. CASE c # "ReqLog" /\ reads' = Tail(reads)
           /\ bodies' = Append(bodies, [cmd |-> c, left |-> Head(wire).n, err |-> "ok"])
  <2>1. PICK b : b = [cmd |-> c, left |-> Head(wire).n, err |-> "ok"]
    OBVIOUS
  <2>2. bodies' = <<b>> /\ b \in {bodies'[i] : i \in 1 .. Len(bodies')}
    BY <1>5, <1>9, <2>1
  <2>3. b.cmd = c /\ b.left = Head(wire).n /\ b.err = "ok"
    BY <2>1
  <2>4. AtBody'
    BY <1>2, <1>4, <1>5, <1>6, <1>9, <2>2, <2>3 DEF AtBody
  <2> QED
    BY <1>2, <1>3, <1>7, <2>4, StillRuns DEF Kept, Aligned, Point
<1> QED
  BY <1>5, <1>8, <1>9 DEF FixedReadOk

LEMMA KeptByStructError == TypesOK /\ Sound /\ Aligned /\ FixedReadErr => Kept
<1> SUFFICES ASSUME TypesOK, Sound, Aligned, FixedReadErr PROVE Kept
  OBVIOUS
<1>1. AtStruct
  BY WhereReading DEF FixedReadErr, Aligned
<1>2. UNCHANGED <<up, lost, client, toSend, wire, writes, head>> /\ reads' = Tail(reads)
  BY DEF FixedReadErr, peer
<1>3. PICK err \in ReadErrors :
        /\ IF Head(reads).cmd \in {"ReqLog", "RequestInvite"}
           THEN ErrorHandle(err) ELSE UNCHANGED <<open, initialized>>
        /\ IF Head(reads).cmd = "ReqLog"
           THEN UNCHANGED bodies
           ELSE \E n \in Parts : bodies' = Append(bodies, [cmd |-> Head(reads).cmd, left |-> n, err |-> err])
  BY DEF FixedReadErr
<1>4. client # "on" /\ Stream = <<>> /\ err # "ok"
  BY <1>1, ErrorMeans DEF AtStruct
<1>5. PICK c \in Fixed : reads = <<[kind |-> "fixed", cmd |-> c]>> /\ head = c
  BY <1>1 DEF AtStruct
<1>6. Head(reads).cmd = c /\ Tail(reads) = <<>> /\ writes = <<>> /\ bodies = <<>>
  BY <1>1, <1>5 DEF AtStruct
<1>7. CASE c = "ReqLog"
  <2>1. Over'
    BY <1>2, <1>3, <1>4, <1>6, <1>7 DEF Over, Nothing
  <2> QED
    BY <1>2, <2>1, WireStays, StillRuns DEF Kept, Aligned, Point
<1>8. CASE c # "ReqLog"
  <2>1. PICK n \in Parts : bodies' = Append(bodies, [cmd |-> c, left |-> n, err |-> err])
    BY <1>3, <1>6, <1>8
  <2>2. PICK b : b = [cmd |-> c, left |-> n, err |-> err]
    OBVIOUS
  <2>3. bodies' = <<b>> /\ b \in {bodies'[i] : i \in 1 .. Len(bodies')}
    BY <1>6, <2>1, <2>2
  <2>4. b.cmd = c /\ b.left = n /\ b.err # "ok"
    BY <1>4, <2>2
  <2>5. Stream' = <<>> /\ Len(Stream') = 0
    BY <1>2, <1>4, WireStays
  <2>6. Parted(Stream', b.left, client' = "on")
    BY <1>2, <1>4, <2>5 DEF Parted
  <2>7. AtBody'
    BY <1>2, <1>4, <1>5, <1>6, <2>3, <2>4, <2>5, <2>6 DEF AtBody
  <2> QED
    BY <1>2, <2>7, WireStays, StillRuns DEF Kept, Aligned, Point
<1> QED
  BY <1>7, <1>8

LEMMA KeptByIdPwRead == TypesOK /\ Sound /\ Aligned /\ IdPwReadOk => Kept
<1> SUFFICES ASSUME TypesOK, Sound, Aligned, IdPwReadOk PROVE Kept
  OBVIOUS
<1>1. AtIdPw /\ wire # <<>> /\ wire' = Tail(wire)
  BY WhereReading DEF IdPwReadOk, CanRead, Aligned
<1>2. UNCHANGED <<up, client, toSend, bodies, head, open>> /\ reads' = Tail(reads)
  BY DEF IdPwReadOk, peer
<1>3. /\ Stream \in Seq(Unit) /\ Stream # <<>> /\ Stream[1] = Head(wire) /\ Stream' = Tail(Stream)
      /\ Formed(Stream', client' = "on") /\ (client' # "on" => toSend' = <<>>)
  BY <1>1, <1>2, WireRead
<1>4. Stream[1].t = "B" /\ Parted(Stream', 0, client' = "on")
  <2>1. PICK whole : whole = (client = "on")
    OBVIOUS
  <2>2. Parted(Stream, 1, whole)
    BY <1>1, <2>1 DEF AtIdPw
  <2>3. Stream[1].t = "B" /\ Parted(Tail(Stream), 1 - 1, whole)
    BY <1>3, <2>2, PartedTail
  <2> QED
    BY <1>2, <1>3, <2>1, <2>3
<1>5. UNCHANGED lost /\ writes' = Append(writes, "ReqLog")
  BY <1>3, <1>4 DEF IdPwReadOk
<1>6. writes' = <<"ReqLog">> /\ reads' = <<>> /\ head' = "ReqLog" /\ open' /\ bodies' = <<>>
  BY <1>1, <1>2, <1>5 DEF AtIdPw
<1>7. AtWrite'
  BY <1>4, <1>6, CommandsAre DEF AtWrite
<1> QED
  BY <1>2, <1>3, <1>5, <1>7, StillRuns DEF Kept, Aligned, Point

LEMMA KeptByIdPwError == TypesOK /\ Sound /\ Aligned /\ IdPwReadErr => Kept
<1> SUFFICES ASSUME TypesOK, Sound, Aligned, IdPwReadErr PROVE Kept
  OBVIOUS
<1>1. AtIdPw
  BY WhereReading DEF IdPwReadErr, Aligned
<1>2. UNCHANGED <<up, lost, client, toSend, wire, writes, bodies>> /\ reads' = Tail(reads)
  BY DEF IdPwReadErr, peer
<1>3. client # "on"
  BY <1>1, ErrorMeans DEF IdPwReadErr, AtIdPw
<1>4. Over'
  BY <1>1, <1>2, <1>3 DEF AtIdPw, Over, Nothing
<1> QED
  BY <1>2, <1>4, WireStays, StillRuns DEF Kept, Aligned, Point

LEMMA KeptByBodyRead ==
  ASSUME TypesOK, Sound, Aligned, NEW i \in 1 .. Len(bodies), BodyRead(i)
  PROVE  Kept /\ UNCHANGED lost
<1>1. AtBody /\ wire # <<>> /\ wire' = Tail(wire)
  BY WhereReading DEF BodyRead, CanRead, Aligned
<1>2. UNCHANGED <<up, client, toSend, reads, writes, head, open>>
  BY DEF BodyRead, peer
<1>3. /\ Stream \in Seq(Unit) /\ Stream # <<>> /\ Stream[1] = Head(wire) /\ Stream' = Tail(Stream)
      /\ Formed(Stream', client' = "on") /\ (client' # "on" => toSend' = <<>>)
  BY <1>1, <1>2, WireRead
<1>4. PICK b \in {bodies[k] : k \in 1 .. Len(bodies)} :
        /\ reads = <<>> /\ writes = <<>> /\ bodies = <<b>>
        /\ head = b.cmd
        /\ IF b.err = "ok" THEN open ELSE client # "on" /\ Stream = <<>>
        /\ Parted(Stream, b.left, client = "on")
  BY <1>1 DEF AtBody
<1>5. i = 1 /\ bodies[i] = b /\ b \in Body /\ b.left > 0 /\ b.left \in Nat /\ open
  <2>1. i = 1 /\ bodies[i] = b /\ b.left > 0
    BY <1>4 DEF BodyRead
  <2>2. b \in Body
    BY <2>1 DEF TypesOK, TypeOK
  <2> QED
    BY <1>3, <1>4, <2>1, <2>2 DEF Body
<1>6. Stream[1].t = "B" /\ Parted(Stream', b.left - 1, client' = "on")
  <2>1. PICK whole : whole = (client = "on")
    OBVIOUS
  <2>2. Stream[1].t = "B" /\ Parted(Tail(Stream), b.left - 1, whole)
    BY <1>3, <1>4, <1>5, <2>1, PartedTail
  <2> QED
    BY <1>2, <1>3, <2>1, <2>2
<1>7. UNCHANGED lost
  <2>1. lost' = FALSE
    BY <1>3, <1>6 DEF BodyRead
  <2>2. lost = FALSE
    BY DEF Sound, Running, TypesOK, TypeOK
  <2> QED
    BY <2>1, <2>2
<1>8. PICK d : d = [b EXCEPT !.left = b.left - 1]
  OBVIOUS
<1>9. d.cmd = b.cmd /\ d.err = b.err /\ d.left = b.left - 1
  BY <1>5, <1>8 DEF Body
<1>10. bodies' = <<d>> /\ d \in {bodies'[k] : k \in 1 .. Len(bodies')}
  <2>1. bodies' = [bodies EXCEPT ![1] = d]
    BY <1>5, <1>8 DEF BodyRead
  <2> QED
    BY <1>4, <2>1
<1>11. AtBody'
  BY <1>2, <1>3, <1>4, <1>5, <1>6, <1>9, <1>10 DEF AtBody
<1> QED
  BY <1>2, <1>3, <1>7, <1>11, StillRuns DEF Kept, Aligned, Point

\* The peer of a session that reads a body has gone, if it is told of an error.
LEMMA BodyPeer ==
  ASSUME TypesOK, Aligned, bodies # <<>>
  PROVE  ReadErrors # {} \/ WriteResults # {"ok"} => client # "on"
<1>1. AtBody
  BY WhereReading DEF Aligned
<1>2. open \/ client # "on"
  BY <1>1 DEF AtBody
<1> QED
  BY <1>2, ErrorMeans DEF WriteResults

LEMMA KeptByBodyThrow ==
  ASSUME TypesOK, Sound, Aligned, NEW i \in 1 .. Len(bodies), BodyThrow(i) PROVE Kept
<1>1. bodies # <<>> /\ client # "on"
  BY BodyPeer DEF BodyThrow
<1>2. Down
  BY DEF BodyThrow
<1> QED
  BY <1>1, <1>2, WildEnds DEF Kept, HarmStep

LEMMA KeptByBodyEnd ==
  ASSUME TypesOK, Sound, Aligned, NEW i \in 1 .. Len(bodies), BodyEnd(i) PROVE Kept
<1>1. AtBody /\ bodies # <<>>
  BY WhereReading DEF Aligned
<1>2. UNCHANGED <<client, toSend, wire, writes>> /\ bodies' = Drop(bodies, i)
  BY DEF BodyEnd, peer
<1>3. PICK b \in {bodies[k] : k \in 1 .. Len(bodies)} :
        /\ reads = <<>> /\ writes = <<>> /\ bodies = <<b>>
        /\ head = b.cmd
        /\ IF b.err = "ok" THEN open ELSE client # "on" /\ Stream = <<>>
        /\ Parted(Stream, b.left, client = "on")
  BY <1>1 DEF AtBody
<1>4. i = 1 /\ bodies[i] = b /\ b \in Body
  <2>1. i = 1 /\ bodies[i] = b
    BY <1>3
  <2> QED
    BY <2>1 DEF TypesOK, TypeOK
<1>5. b.left = 0 /\ b.cmd # None
  <2>1. b.cmd \in AllCmds
    BY <1>4, CommandsAre DEF Body
  <2> QED
    BY <1>4, <2>1, SessionAssumption DEF BodyEnd
<1>6. bodies' = <<>>
  BY <1>2, <1>3, <1>4 DEF Drop
<1>7. CASE WriteResults # {"ok"} /\ Down
  BY <1>1, <1>7, BodyPeer, WildEnds DEF Kept, HarmStep
<1>8. CASE TaskEnd(b.err, head, reads)
  <2>1. UNCHANGED <<up, lost>> /\ head' = None
    BY <1>3, <1>5, <1>8 DEF TaskEnd
  <2>2. CASE b.err = "ok"
    <3>1. reads' = <<HeaderRead>> /\ open' /\ writes' = <<>>
      BY <1>2, <1>3, <1>5, <1>8, <2>2 DEF TaskEnd
    <3>2. Parted(Stream', 0, client' = "on")
      BY <1>2, <1>3, <1>5, WireStays
    <3>3. AtHeader'
      BY <1>6, <2>1, <3>1, <3>2 DEF AtHeader, HeaderRead
    <3> QED
      BY <1>2, <2>1, <3>3, WireStays, StillRuns DEF Kept, Aligned, Point
  <2>3. CASE b.err # "ok"
    <3>1. reads' = <<>> /\ writes' = <<>> /\ client' # "on"
      BY <1>2, <1>3, <1>5, <1>8, <2>3 DEF TaskEnd
    <3>2. Over'
      BY <1>6, <3>1 DEF Over, Nothing
    <3> QED
      BY <1>2, <2>1, <3>2, WireStays, StillRuns DEF Kept, Aligned, Point
  <2> QED
    BY <2>2, <2>3
<1> QED
  BY <1>4, <1>7, <1>8 DEF BodyEnd

LEMMA KeptByWriteEnd == TypesOK /\ Sound /\ Aligned /\ WriteEnd => Kept
<1> SUFFICES ASSUME TypesOK, Sound, Aligned, WriteEnd PROVE Kept
  OBVIOUS
<1>1. AtWrite
  BY WhereReading DEF WriteEnd, Aligned
<1>2. UNCHANGED <<client, toSend, wire, bodies>> /\ writes' = Tail(writes)
  BY DEF WriteEnd, peer
<1>3. PICK c \in AllCmds :
        /\ reads = <<>> /\ writes = <<c>> /\ bodies = <<>>
        /\ head = c /\ open
        /\ Parted(Stream, 0, client = "on")
  BY <1>1 DEF AtWrite
<1>4. c # None /\ writes' = <<>>
  BY <1>2, <1>3, SessionAssumption
<1>5. PICK err \in WriteResults : TaskEnd(err, head, reads)
  BY DEF WriteEnd
<1>6. UNCHANGED <<up, lost>> /\ head' = None
  BY <1>3, <1>4, <1>5 DEF TaskEnd
<1>7. CASE err = "ok"
  <2>1. reads' = <<HeaderRead>> /\ open'
    BY <1>3, <1>4, <1>5, <1>7 DEF TaskEnd
  <2>2. Parted(Stream', 0, client' = "on")
    BY <1>2, <1>3, WireStays
  <2>3. AtHeader'
    BY <1>2, <1>3, <1>4, <1>6, <2>1, <2>2 DEF AtHeader, HeaderRead
  <2> QED
    BY <1>2, <1>6, <2>3, WireStays, StillRuns DEF Kept, Aligned, Point
<1>8. CASE err # "ok"
  <2>1. reads' = <<>> /\ client' # "on"
    BY <1>2, <1>3, <1>4, <1>5, <1>8, ErrorMeans DEF TaskEnd
  <2>2. Over'
    BY <1>2, <1>3, <1>4, <2>1 DEF Over, Nothing
  <2> QED
    BY <1>2, <1>6, <2>2, WireStays, StillRuns DEF Kept, Aligned, Point
<1> QED
  BY <1>7, <1>8

\* A step of the client moves no session, as long as what came next in the stream
\* comes next in what it has become.
LEMMA PointStays ==
  ASSUME TypesOK, Point, UNCHANGED server,
         client' = "on" => client = "on",
         \A k \in Nat : Parted(Stream, k, client = "on") => Parted(Stream', k, client' = "on"),
         client' = "on" /\ Stream # <<>> => Stream' # <<>>,
         Stream # <<>> /\ Stream' # <<>> => Stream'[1] = Stream[1],
         client # "on" /\ Stream = <<>> => Stream' = <<>>
  PROVE  Point'
<1>1. UNCHANGED <<open, head, reads, writes, bodies>>
  BY DEF server
<1>2. CASE Over
  BY <1>1, <1>2 DEF Over, Nothing, Point
<1>3. CASE AtHeader
  BY <1>1, <1>3 DEF AtHeader, HeaderRead, Point
<1>4. CASE AtStruct
  <2>1. PICK c \in Fixed : reads = <<[kind |-> "fixed", cmd |-> c]>> /\ head = c
                           /\ (Stream # <<>> => Stream[1].cmd = c)
    BY <1>4 DEF AtStruct
  <2>2. Stream' # <<>> => Stream # <<>> /\ Stream'[1] = Stream[1]
    BY <1>4 DEF AtStruct
  <2>3. client' = "on" => Stream' # <<>>
    BY <1>4 DEF AtStruct
  <2>4. AtStruct'
    BY <1>1, <1>4, <2>1, <2>2, <2>3 DEF AtStruct, Fixed, BodyActions
  <2> QED
    BY <2>4 DEF Point
<1>5. CASE AtIdPw
  BY <1>1, <1>5 DEF AtIdPw, Point
<1>6. CASE AtBody
  <2>1. PICK b \in {bodies[k] : k \in 1 .. Len(bodies)} :
          /\ reads = <<>> /\ writes = <<>> /\ bodies = <<b>>
          /\ head = b.cmd
          /\ IF b.err = "ok" THEN open ELSE client # "on" /\ Stream = <<>>
          /\ Parted(Stream, b.left, client = "on")
    BY <1>6 DEF AtBody
  <2>2. b.left \in Nat
    <3>1. b \in Body
      BY <2>1 DEF TypesOK, TypeOK
    <3> QED
      BY <3>1 DEF Body
  <2>3. Parted(Stream', b.left, client' = "on")
    BY <2>1, <2>2
  <2>4. AtBody'
    BY <1>1, <2>1, <2>3 DEF AtBody
  <2> QED
    BY <2>4 DEF Point
<1>7. CASE AtWrite
  <2>1. AtWrite'
    BY <1>1, <1>7 DEF AtWrite, AllCmds, BodyActions, Gets
  <2> QED
    BY <2>1 DEF Point
<1> QED
  BY <1>2, <1>3, <1>4, <1>5, <1>6, <1>7 DEF Point

LEMMA ServerStill ==
  ASSUME Sound, UNCHANGED server
  PROVE  HarmStep
BY StillRuns DEF server

LEMMA KeptByAsk ==
  ASSUME TypesOK, Sound, Aligned, NEW c \in Cmds, NEW n \in Parts \cup {1}, Ask(c, n) PROVE Kept
<1>1. c \in AllCmds /\ n \in Nat /\ (c = "ReqLog" => n = 1)
  BY SessionAssumption DEF Ask, BodyActions
<1>2. PICK q : q = Units(c, n)
  OBVIOUS
<1>3. q \in Seq(Unit) /\ Formed(q, TRUE) /\ Len(q) >= 1 /\ q[1].t = "H"
  BY <1>1, <1>2, UnitsFormed
<1>4. /\ client = "on" /\ client' = "on" /\ UNCHANGED server
      /\ wire \in Seq(Unit) /\ toSend \in Seq(Unit) /\ toSend = <<>>
      /\ toSend' = q /\ wire' = wire
  BY <1>2 DEF Ask, TypesOK, TypeOK
<1>5. Stream \in Seq(Unit) /\ Stream' = Stream \o q
  <2>1. Stream \in Seq(Unit) /\ wire \o q = Stream \o q
    BY <1>3, <1>4, StreamIs
  <2> QED
    BY <1>4, <2>1 DEF Stream
<1>6. PICK yes \in BOOLEAN : yes = TRUE
  OBVIOUS
<1>7. (client = "on") = yes /\ (client' = "on") = yes
  BY <1>4, <1>6
<1>8. Formed(Stream', client' = "on")
  <2>1. Formed(Stream, yes) /\ Formed(q, yes)
    BY <1>3, <1>6, <1>7 DEF Aligned
  <2>2. Formed(Stream \o q, yes)
    BY <1>3, <1>5, <1>6, <2>1, FormedMore
  <2> QED
    BY <1>5, <1>7, <2>2
<1>9. ASSUME NEW k \in Nat, Parted(Stream, k, client = "on") PROVE Parted(Stream', k, client' = "on")
  <2>1. Parted(Stream, k, yes)
    BY <1>7, <1>9
  <2>2. Parted(Stream \o q, k, yes)
    BY <1>3, <1>5, <1>6, <2>1, PartedMore
  <2> QED
    BY <1>5, <1>7, <2>2
<1>10. /\ Stream # <<>> => Stream' # <<>> /\ Stream'[1] = Stream[1]
  BY <1>3, <1>5
<1>11. Point'
  BY <1>4, <1>9, <1>10, PointStays DEF Aligned
<1>12. Aligned'
  BY <1>4, <1>8, <1>11 DEF Aligned
<1> QED
  BY <1>4, <1>12, ServerStill DEF Kept

LEMMA KeptBySend == TypesOK /\ Sound /\ Aligned /\ Send => Kept
<1> SUFFICES ASSUME TypesOK, Sound, Aligned, Send PROVE Kept
  OBVIOUS
<1>1. toSend # <<>> /\ client' = client /\ client = "on" /\ UNCHANGED server
  BY DEF Send, Aligned
<1>2. Stream' = Stream
  <2>1. Append(wire, Head(toSend)) \o Tail(toSend) = Stream
    BY <1>1, StreamIs DEF TypesOK, TypeOK
  <2> QED
    BY <2>1 DEF Send, Stream
<1>3. Point'
  BY <1>1, <1>2, PointStays DEF Aligned
<1>4. Aligned'
  BY <1>1, <1>2, <1>3 DEF Aligned
<1> QED
  BY <1>1, <1>4, ServerStill DEF Kept

LEMMA KeptByLeave ==
  ASSUME TypesOK, Sound, Aligned, NEW how \in Peers \ {"on"}, Leave(how) PROVE Kept
<1>1. client = "on" /\ client' # "on" /\ toSend' = <<>> /\ UNCHANGED server
  BY DEF Leave
<1>2. wire \in Seq(Unit) /\ toSend \in Seq(Unit) /\ <<>> \in Seq(Unit)
  BY DEF TypesOK, TypeOK
<1>3. PICK p \in Seq(Unit) : p = wire'
  BY <1>2 DEF Leave
<1>4. Stream' = p
  BY <1>1, <1>3 DEF Stream
<1>5. p = wire \/ p = <<>>
  BY <1>3 DEF Leave
<1>6. PICK q \in Seq(Unit) : Stream = p \o q
  <2>1. Stream \in Seq(Unit) /\ Stream = wire \o toSend /\ Stream = <<>> \o Stream
    BY <1>2, StreamIs DEF Stream
  <2> QED
    BY <1>2, <1>5, <2>1
<1>7. PICK whole : whole = (client = "on")
  OBVIOUS
<1>8. PICK no \in BOOLEAN : no = FALSE
  OBVIOUS
<1>9. (client' = "on") = no
  BY <1>1, <1>8
<1>10. Formed(Stream', client' = "on")
  <2>1. Formed(p \o q, whole)
    BY <1>6, <1>7 DEF Aligned
  <2>2. Formed(p, no)
    BY <1>8, <2>1, FormedCut
  <2> QED
    BY <1>4, <1>9, <2>2
<1>11. ASSUME NEW k \in Nat, Parted(Stream, k, client = "on") PROVE Parted(Stream', k, client' = "on")
  <2>1. Parted(p \o q, k, whole)
    BY <1>6, <1>7, <1>11
  <2>2. Parted(p, k, no)
    BY <1>8, <2>1, PartedCut
  <2> QED
    BY <1>4, <1>9, <2>2
<1>12. Stream' # <<>> => Stream'[1] = Stream[1]
  BY <1>4, <1>6
<1>13. Point'
  BY <1>1, <1>11, <1>12, PointStays DEF Aligned
<1>14. Aligned'
  BY <1>1, <1>10, <1>13 DEF Aligned
<1> QED
  BY <1>1, <1>14, ServerStill DEF Kept

LEMMA KeptAlways == TypesOK /\ Sound /\ Aligned /\ [Next]_vars => Kept
<1> SUFFICES ASSUME TypesOK, Sound, Aligned, [Next]_vars PROVE Kept
  OBVIOUS
<1>1. CASE Client
  BY <1>1, KeptByAsk, KeptBySend, KeptByLeave DEF Client
<1>2. CASE Handler
  BY <1>2, KeptByHeaderRead, KeptByHeaderError, KeptByStructRead, KeptByStructError,
     KeptByIdPwRead, KeptByIdPwError, KeptByBodyRead, KeptByBodyThrow, KeptByBodyEnd,
     KeptByWriteEnd DEF Handler
<1>3. CASE UNCHANGED vars
  <2>1. UNCHANGED <<client, toSend, wire>> /\ UNCHANGED server
    BY <1>3 DEF vars, peer
  <2>2. Point'
    BY <2>1, WireStays, PointStays DEF Aligned
  <2>3. Aligned'
    BY <2>1, <2>2, WireStays DEF Aligned
  <2> QED
    BY <2>1, <2>3, ServerStill DEF Kept
<1> QED
  BY <1>1, <1>2, <1>3 DEF Next

\* Once a session is unsound it stays so.
LEMMA UnsoundStays ==
  ASSUME TypesOK, ~Sound, [Next]_vars
  PROVE  ~Sound'
<1>1. CASE ~Running
  <2>1. UNCHANGED <<up, lost>>
    <3>1. CASE Client
      BY <3>1 DEF Client, Ask, Send, Leave, server
    <3>2. ~Handler
      BY <1>1 DEF Handler, HeaderReadOk, HeaderReadErr, HeaderReading, FixedReadOk, FixedReadErr,
                  FixedReading, IdPwReadOk, IdPwReadErr, IdPwReading, BodyRead, BodyThrow,
                  BodyEnd, WriteEnd
    <3>3. CASE UNCHANGED vars
      BY <3>3 DEF vars, server
    <3> QED
      BY <3>1, <3>2, <3>3 DEF Next
  <2> QED
    BY <1>1, <2>1 DEF Sound, Running
<1>2. CASE doubled
  <2>1. doubled'
    <3>1. CASE Client
      BY <1>2, <3>1 DEF Client, Ask, Send, Leave
    <3>2. CASE HeaderReadOk
      <4>1. ASSUME NEW c, NEW rs, ReadHandle(c, rs) PROVE doubled'
        <5>1. CASE GetMsg(c, rs)
          <6>1. (doubled' = doubled) \/ (doubled' = TRUE)
            BY <5>1 DEF GetMsg
          <6> QED
            BY <1>2, <6>1
        <5> QED
          BY <1>2, <4>1, <5>1 DEF ReadHandle, StartAction, BadCommand, GetList, GetFriendList
      <4> QED
        BY <1>2, <3>2, <4>1 DEF HeaderReadOk, Garbled
    <3>3. CASE UNCHANGED doubled
      BY <1>2, <3>3
    <3> QED
      BY <3>1, <3>2, <3>3 DEF Next, Handler, HeaderReadErr, FixedReadOk, FixedReadErr, IdPwReadOk,
         IdPwReadErr, BodyRead, BodyThrow, BodyEnd, WriteEnd, vars
  <2> QED
    BY <2>1 DEF Sound
<1> QED
  BY <1>1, <1>2 DEF Sound

LEMMA InvInit == Init => IInv
<1> SUFFICES ASSUME Init PROVE IInv
  OBVIOUS
<1>1. Stream = <<>> /\ Len(Stream) = 0
  BY DEF Init, Stream
<1>2. Formed(Stream, client = "on") /\ Parted(Stream, 0, client = "on")
  BY <1>1 DEF Formed, Parted
<1>3. open /\ client = "on"
  BY DEF Init
<1>4. AtHeader
  BY <1>2, <1>3 DEF Init, AtHeader
<1> QED
  BY <1>2, <1>3, <1>4, TypesInit DEF IInv, Aligned, Point

LEMMA InvNext == IInv /\ [Next]_vars => IInv' /\ HarmStep
<1> SUFFICES ASSUME IInv, [Next]_vars PROVE IInv' /\ HarmStep
  OBVIOUS
<1>1. TypesOK'
  BY TypesNext DEF IInv
<1>2. CASE Sound
  BY <1>1, <1>2, KeptAlways DEF IInv, Kept
<1>3. CASE ~Sound
  <2>1. ~Sound'
    BY <1>3, UnsoundStays DEF IInv
  <2>2. HarmStep
    BY <1>3 DEF HarmStep, Sound
  <2> QED
    BY <1>1, <2>1, <2>2 DEF IInv
<1> QED
  BY <1>2, <1>3

LEMMA Invariant == Spec => []IInv
<1>1. IInv /\ [Next]_vars => IInv'
  BY InvNext
<1> QED
  BY <1>1, InvInit, PTL DEF Spec

-----------------------------------------------------------------------------
(***************************************************************************)
(* The answers: those owed for the requests of the stream come after those *)
(* given and the one in hand.                                              *)
(***************************************************************************)
Owes(u) == u.t = "H" /\ HasAnswer(u.cmd)

\* Stream p asks for the answers of o after the k-th, in their order: r[i] is how many of
\* them are asked for with its i-th unit. whole: nothing is cut off.
Asks(p, o, k, whole, r) ==
  /\ r \in [0 .. Len(p) -> 0 .. Len(o)]
  /\ r[0] = k
  /\ whole => r[Len(p)] = Len(o)
  /\ \A i \in 1 .. Len(p) : IF Owes(p[i])
                            THEN r[i] = r[i - 1] + 1 /\ o[r[i]] = p[i].cmd
                            ELSE r[i] = r[i - 1]

AsksFor(p, o, k, whole) == \E r : Asks(p, o, k, whole, r)

LEMMA AsksTail ==
  ASSUME NEW p \in Seq(Unit), p # <<>>, NEW o \in Seq(AllCmds), NEW k, NEW whole,
         AsksFor(p, o, k, whole)
  PROVE  /\ ~Owes(p[1]) => AsksFor(Tail(p), o, k, whole)
         /\ Owes(p[1]) => /\ AsksFor(Tail(p), o, k + 1, whole)
                          /\ k + 1 \in 1 .. Len(o) /\ o[k + 1] = p[1].cmd
<1>1. /\ Len(p) \in Nat /\ Len(p) >= 1 /\ Len(Tail(p)) = Len(p) - 1 /\ Len(o) \in Nat
      /\ \A i \in 1 .. Len(p) - 1 : Tail(p)[i] = p[i + 1]
  OBVIOUS
<1>2. PICK r : Asks(p, o, k, whole, r)
  BY DEF AsksFor
<1>3. /\ r \in [0 .. Len(p) -> 0 .. Len(o)] /\ r[0] = k
      /\ whole => r[Len(p)] = Len(o)
      /\ \A i \in 1 .. Len(p) : IF Owes(p[i])
                                THEN r[i] = r[i - 1] + 1 /\ o[r[i]] = p[i].cmd
                                ELSE r[i] = r[i - 1]
  BY <1>2 DEF Asks
<1>4. PICK q : q = [i \in 0 .. Len(p) - 1 |-> r[i + 1]]
  OBVIOUS
<1>5. \A i \in 0 .. Len(p) - 1 : q[i] = r[i + 1] /\ q[i] \in 0 .. Len(o)
  BY <1>1, <1>3, <1>4
<1>6. q \in [0 .. Len(Tail(p)) -> 0 .. Len(o)]
  BY <1>1, <1>4, <1>5
<1>7. whole => q[Len(Tail(p))] = Len(o)
  BY <1>1, <1>3, <1>5
<1>8. ASSUME NEW i \in 1 .. Len(Tail(p))
      PROVE  IF Owes(Tail(p)[i])
             THEN q[i] = q[i - 1] + 1 /\ o[q[i]] = Tail(p)[i].cmd
             ELSE q[i] = q[i - 1]
  <2>1. /\ i + 1 \in 1 .. Len(p) /\ Tail(p)[i] = p[i + 1] /\ i + 1 - 1 = i
        /\ q[i] = r[i + 1] /\ q[i - 1] = r[i]
    <3>1. i \in 0 .. Len(p) - 1 /\ i - 1 \in 0 .. Len(p) - 1 /\ i - 1 + 1 = i
      BY <1>1
    <3>2. q[i] = r[i + 1] /\ q[i - 1] = r[i - 1 + 1]
      BY <1>5, <3>1
    <3> QED
      BY <1>1, <3>1, <3>2
  <2> QED
    BY <1>3, <2>1
<1>9. Asks(Tail(p), o, r[1], whole, q)
  BY <1>1, <1>5, <1>6, <1>7, <1>8 DEF Asks
<1>10. 1 \in 1 .. Len(p) /\ r[1 - 1] = k /\ r[1] \in 0 .. Len(o) /\ k \in 0 .. Len(o)
  BY <1>1, <1>3
<1>11. IF Owes(p[1]) THEN r[1] = k + 1 /\ o[r[1]] = p[1].cmd ELSE r[1] = k
  BY <1>3, <1>10
<1> QED
  BY <1>9, <1>10, <1>11 DEF AsksFor

LEMMA AsksCut ==
  ASSUME NEW p \in Seq(Unit), NEW q \in Seq(Unit), NEW o \in Seq(AllCmds), NEW k, NEW whole,
         AsksFor(p \o q, o, k, whole)
  PROVE  AsksFor(p, o, k, FALSE)
<1>1. /\ Len(p) \in Nat /\ Len(q) \in Nat /\ Len(p \o q) = Len(p) + Len(q)
      /\ \A i \in 1 .. Len(p) : (p \o q)[i] = p[i]
  OBVIOUS
<1>2. PICK r : Asks(p \o q, o, k, whole, r)
  BY DEF AsksFor
<1>3. PICK s : s = [i \in 0 .. Len(p) |-> r[i]]
  OBVIOUS
<1>4. /\ \A i \in 0 .. Len(p) : s[i] = r[i] /\ i \in 0 .. Len(p \o q)
      /\ \A i \in 1 .. Len(p) : i \in 1 .. Len(p \o q) /\ i - 1 \in 0 .. Len(p) /\ i \in 0 .. Len(p)
  BY <1>1, <1>3
<1>5. s \in [0 .. Len(p) -> 0 .. Len(o)] /\ s[0] = k
  BY <1>1, <1>2, <1>3, <1>4 DEF Asks
<1>6. \A i \in 1 .. Len(p) : IF Owes(p[i])
                             THEN s[i] = s[i - 1] + 1 /\ o[s[i]] = p[i].cmd
                             ELSE s[i] = s[i - 1]
  BY <1>1, <1>2, <1>4 DEF Asks
<1>7. Asks(p, o, k, FALSE, s)
  BY <1>5, <1>6 DEF Asks
<1> QED
  BY <1>7 DEF AsksFor

\* One more request: its header is its first unit.
LEMMA AsksMore ==
  ASSUME NEW p \in Seq(Unit), NEW q \in Seq(Unit), NEW o \in Seq(AllCmds), NEW k, NEW c \in AllCmds,
         AsksFor(p, o, k, TRUE),
         Len(q) >= 1, q[1].t = "H", q[1].cmd = c, \A i \in 2 .. Len(q) : q[i].t # "H"
  PROVE  AsksFor(p \o q, IF HasAnswer(c) THEN Append(o, c) ELSE o, k, TRUE)
<1>1. /\ Len(p) \in Nat /\ Len(q) \in Nat /\ Len(p \o q) = Len(p) + Len(q) /\ Len(o) \in Nat
      /\ \A i \in 1 .. Len(p) : (p \o q)[i] = p[i]
      /\ \A i \in 1 .. Len(q) : (p \o q)[Len(p) + i] = q[i]
  OBVIOUS
<1>2. PICK r : Asks(p, o, k, TRUE, r)
  BY DEF AsksFor
<1>r. /\ r \in [0 .. Len(p) -> 0 .. Len(o)] /\ r[0] = k /\ r[Len(p)] = Len(o)
      /\ \A i \in 1 .. Len(p) : IF Owes(p[i])
                                THEN r[i] = r[i - 1] + 1 /\ o[r[i]] = p[i].cmd
                                ELSE r[i] = r[i - 1]
  BY <1>2 DEF Asks
<1>3. PICK n \in Seq(AllCmds) : n = IF HasAnswer(c) THEN Append(o, c) ELSE o
  BY CommandsMore
<1>4. /\ Len(n) \in Nat /\ Len(n) = IF HasAnswer(c) THEN Len(o) + 1 ELSE Len(o)
      /\ \A i \in 1 .. Len(o) : n[i] = o[i]
      /\ HasAnswer(c) => n[Len(n)] = c
  BY <1>3
<1>5. PICK s : s = [i \in 0 .. Len(p \o q) |-> IF i <= Len(p) THEN r[i] ELSE Len(n)]
  OBVIOUS
<1>6. /\ \A i \in 0 .. Len(p) : s[i] = r[i] /\ r[i] \in 0 .. Len(o)
      /\ \A i \in Len(p) + 1 .. Len(p \o q) : s[i] = Len(n)
  <2>1. \A i \in 0 .. Len(p) : i \in 0 .. Len(p \o q) /\ i <= Len(p)
    BY <1>1
  <2>2. \A i \in Len(p) + 1 .. Len(p \o q) : i \in 0 .. Len(p \o q) /\ ~(i <= Len(p))
    BY <1>1
  <2> QED
    BY <1>5, <1>r, <2>1, <2>2
<1>7. s \in [0 .. Len(p \o q) -> 0 .. Len(n)]
  <2>1. Len(n) \in 0 .. Len(n) /\ \A j \in 0 .. Len(o) : j \in 0 .. Len(n)
    BY <1>1, <1>4
  <2>2. \A i \in 0 .. Len(p \o q) : i \in 0 .. Len(p) \/ i \in Len(p) + 1 .. Len(p \o q)
    BY <1>1
  <2>3. \A i \in 0 .. Len(p \o q) : s[i] \in 0 .. Len(n)
    BY <1>6, <2>1, <2>2
  <2> QED
    BY <1>5, <2>3
<1>8. s[0] = k /\ s[Len(p \o q)] = Len(n)
  <2>1. 0 \in 0 .. Len(p) /\ Len(p \o q) \in Len(p) + 1 .. Len(p \o q)
    BY <1>1
  <2> QED
    BY <1>r, <1>6, <2>1
<1>9. ASSUME NEW i \in 1 .. Len(p \o q)
      PROVE  IF Owes((p \o q)[i])
             THEN s[i] = s[i - 1] + 1 /\ n[s[i]] = (p \o q)[i].cmd
             ELSE s[i] = s[i - 1]
  <2>1. CASE i \in 1 .. Len(p)
    <3>1. i - 1 \in 0 .. Len(p) /\ i \in 0 .. Len(p)
      BY <1>1, <2>1
    <3>2. s[i] = r[i] /\ s[i - 1] = r[i - 1] /\ (p \o q)[i] = p[i]
      BY <1>1, <1>6, <2>1, <3>1
    <3>3. r[i] \in 0 .. Len(o) /\ r[i - 1] \in 0 .. Len(o)
      BY <1>6, <3>1
    <3>4. IF Owes(p[i])
          THEN r[i] = r[i - 1] + 1 /\ o[r[i]] = p[i].cmd
          ELSE r[i] = r[i - 1]
      BY <1>r, <2>1
    <3>5. Owes(p[i]) => r[i] \in 1 .. Len(o)
      BY <1>1, <3>3, <3>4
    <3> QED
      BY <1>4, <3>2, <3>4, <3>5
  <2>2. CASE i = Len(p) + 1
    <3>1. (p \o q)[i] = q[1] /\ s[i - 1] = Len(o) /\ s[i] = Len(n)
      <4>1. /\ 1 \in 1 .. Len(q) /\ i = Len(p) + 1 /\ i - 1 = Len(p)
            /\ Len(p) \in 0 .. Len(p) /\ i \in Len(p) + 1 .. Len(p \o q)
        BY <1>1, <2>2
      <4> QED
        BY <1>1, <1>r, <1>6, <4>1
    <3>2. Owes(q[1]) <=> HasAnswer(c)
      BY DEF Owes
    <3> QED
      BY <1>4, <3>1, <3>2
  <2>3. CASE i > Len(p) + 1
    <3>1. PICK j \in 2 .. Len(q) : i = Len(p) + j
      <4>1. i - Len(p) \in 2 .. Len(q) /\ i = Len(p) + (i - Len(p))
        BY <1>1, <2>3
      <4> QED
        BY <4>1
    <3>2. (p \o q)[i] = q[j] /\ s[i - 1] = Len(n) /\ s[i] = Len(n)
      <4>1. j \in 1 .. Len(q) /\ i - 1 \in Len(p) + 1 .. Len(p \o q) /\ i \in Len(p) + 1 .. Len(p \o q)
        BY <1>1, <2>3, <3>1
      <4> QED
        BY <1>1, <1>6, <3>1, <4>1
    <3>3. ~Owes(q[j])
      BY DEF Owes
    <3> QED
      BY <3>2, <3>3
  <2> QED
    BY <1>1, <2>1, <2>2, <2>3
<1>10. Asks(p \o q, n, k, TRUE, s)
  BY <1>7, <1>8, <1>9 DEF Asks
<1> QED
  BY <1>3, <1>10 DEF AsksFor

LEMMA AsksNothing ==
  ASSUME NEW o, NEW k, AsksFor(<<>>, o, k, TRUE) PROVE k = Len(o)
BY DEF AsksFor, Asks

\* A request begins with its header, and has no other.
LEMMA OneHeader ==
  ASSUME NEW c \in AllCmds, NEW n \in Nat
  PROVE  Units(c, n)[1].cmd = c /\ \A i \in 2 .. Len(Units(c, n)) : Units(c, n)[i].t # "H"
<1> DEFINE unit(t) == [t |-> t, cmd |-> c, n |-> n]
           parts == [i \in 1 .. n |-> unit("B")]
<1>1. CASE c \in Fixed
  <2>1. Units(c, n) = <<unit("H"), unit("F")>> \o parts
    BY <1>1 DEF Units, Fixed
  <2>2. parts \in Seq({unit("B")}) /\ Len(parts) = n
    BY IsASeq
  <2>3. /\ Len(Units(c, n)) = n + 2
        /\ Units(c, n)[1] = unit("H") /\ Units(c, n)[2] = unit("F")
        /\ \A i \in 3 .. n + 2 : Units(c, n)[i] = unit("B")
    BY <2>1, <2>2
  <2>4. \A i \in 2 .. n + 2 : i = 2 \/ i \in 3 .. n + 2
    OBVIOUS
  <2> QED
    BY <2>3, <2>4
<1>2. CASE c \notin Fixed
  BY <1>2 DEF Units, Fixed
<1> QED
  BY <1>1, <1>2

(***************************************************************************)
(* What was answered comes first of what is owed, then what the request in *)
(* hand is owed, then what the stream asks for; when nothing is under way  *)
(* any more, nothing else will be answered.                                *)
(***************************************************************************)
InOrder ==
  /\ Len(answered) <= Len(owed)
  /\ \A i \in 1 .. Len(answered) : answered[i] = owed[i]

InHand == IF HasAnswer(head) THEN 1 ELSE 0

Expected ==
  /\ AsksFor(Stream, owed, Len(answered) + InHand, client = "on")
  /\ HasAnswer(head) => Len(answered) < Len(owed) /\ owed[Len(answered) + 1] = head
  /\ writes # <<>> => HasAnswer(head)

Ordered == InOrder /\ (Nothing \/ Expected)

OInv == IInv /\ (Sound => Ordered)

LEMMA AnswerInHand ==
  ASSUME TypesOK, InOrder, Expected, HasAnswer(head), answered' = Append(answered, head),
         UNCHANGED owed
  PROVE  InOrder' /\ Len(answered') = Len(answered) + InHand
<1>1. /\ Len(answered) \in Nat /\ Len(owed) \in Nat /\ Len(answered') = Len(answered) + 1
      /\ \A i \in 1 .. Len(answered) : answered'[i] = answered[i]
      /\ answered'[Len(answered) + 1] = head
  BY DEF TypesOK, TypeOK
<1>2. Len(answered) < Len(owed) /\ owed[Len(answered) + 1] = head
  BY DEF Expected
<1>3. \A i \in 1 .. Len(answered) + 1 : i \in 1 .. Len(answered) \/ i = Len(answered) + 1
  BY <1>1
<1> QED
  BY <1>1, <1>2, <1>3 DEF InOrder, InHand

LEMMA NoneHasNoAnswer == ~HasAnswer(None) /\ \A c \in AllCmds : HasAnswer(c) => c \notin {"Other", "BadSize"}
BY SessionAssumption DEF HasAnswer, Gets, AllCmds, BodyActions

\* A header is taken from the stream: it is the one in hand from now on.
LEMMA TakenUp ==
  ASSUME TypesOK, InOrder, Expected, ~HasAnswer(head),
         Stream \in Seq(Unit), Stream # <<>>, Stream[1].t = "H", Stream' = Tail(Stream),
         head' = Stream[1].cmd, writes' # <<>> => HasAnswer(head'),
         UNCHANGED <<answered, owed, client>>
  PROVE  InOrder' /\ Expected'
<1>1. InOrder'
  BY DEF InOrder
<1>2. PICK whole : whole = (client = "on")
  OBVIOUS
<1>3. owed \in Seq(AllCmds) /\ answered \in Seq(AllCmds) /\ Len(answered) \in Nat /\ Len(owed) \in Nat
  BY DEF TypesOK, TypeOK
<1>4. AsksFor(Stream, owed, Len(answered), whole)
  BY <1>2, <1>3 DEF Expected, InHand
<1>5. /\ ~Owes(Stream[1]) => AsksFor(Stream', owed, Len(answered), whole)
      /\ Owes(Stream[1]) => /\ AsksFor(Stream', owed, Len(answered) + 1, whole)
                            /\ Len(answered) + 1 \in 1 .. Len(owed)
                            /\ owed[Len(answered) + 1] = Stream[1].cmd
  BY <1>3, <1>4, AsksTail
<1>6. Owes(Stream[1]) <=> HasAnswer(head')
  BY DEF Owes
<1>7. CASE HasAnswer(head')
  <2>1. AsksFor(Stream', owed', Len(answered') + InHand', client' = "on")
    BY <1>2, <1>5, <1>6, <1>7 DEF InHand
  <2>2. Len(answered') < Len(owed') /\ owed'[Len(answered') + 1] = head'
    BY <1>3, <1>5, <1>6, <1>7
  <2> QED
    BY <1>1, <1>7, <2>1, <2>2 DEF Expected
<1>8. CASE ~HasAnswer(head')
  <2>1. AsksFor(Stream', owed', Len(answered') + InHand', client' = "on")
    BY <1>2, <1>3, <1>5, <1>6, <1>8 DEF InHand
  <2> QED
    BY <1>1, <1>8, <2>1 DEF Expected
<1> QED
  BY <1>7, <1>8

\* A header is taken from the stream and answered at once.
LEMMA AnsweredAtOnce ==
  ASSUME TypesOK, InOrder, Expected, ~HasAnswer(head),
         Stream \in Seq(Unit), Stream # <<>>, Owes(Stream[1]), Stream' = Tail(Stream),
         answered' = Append(answered, Stream[1].cmd), ~HasAnswer(head'), writes' = <<>>,
         UNCHANGED <<owed, client>>
  PROVE  InOrder' /\ Expected'
<1>1. PICK whole : whole = (client = "on")
  OBVIOUS
<1>2. PICK c \in AllCmds : c = Stream[1].cmd
  <2>1. Stream[1] \in Unit
    OBVIOUS
  <2> QED
    BY <2>1 DEF Unit
<1>3. /\ owed \in Seq(AllCmds) /\ answered \in Seq(AllCmds) /\ Len(answered) \in Nat /\ Len(owed) \in Nat
      /\ Len(answered') = Len(answered) + 1 /\ answered'[Len(answered) + 1] = c
      /\ \A i \in 1 .. Len(answered) : answered'[i] = answered[i]
  BY <1>2 DEF TypesOK, TypeOK
<1>4. AsksFor(Stream, owed, Len(answered), whole)
  BY <1>1, <1>3 DEF Expected, InHand
<1>5. /\ AsksFor(Stream', owed, Len(answered) + 1, whole)
      /\ Len(answered) + 1 \in 1 .. Len(owed)
      /\ owed[Len(answered) + 1] = c
  BY <1>2, <1>3, <1>4, AsksTail
<1>6. InOrder'
  <2>1. \A i \in 1 .. Len(answered) + 1 : i \in 1 .. Len(answered) \/ i = Len(answered) + 1
    BY <1>3
  <2> QED
    BY <1>3, <1>5, <2>1 DEF InOrder
<1>7. AsksFor(Stream', owed', Len(answered') + InHand', client' = "on")
  BY <1>1, <1>3, <1>5 DEF InHand
<1> QED
  BY <1>6, <1>7 DEF Expected

\* Any other unit is taken from the stream.
LEMMA ReadOn ==
  ASSUME TypesOK, InOrder, Expected,
         Stream \in Seq(Unit), Stream # <<>>, ~Owes(Stream[1]), Stream' = Tail(Stream),
         writes' # <<>> => HasAnswer(head),
         UNCHANGED <<head, answered, owed, client>>
  PROVE  InOrder' /\ Expected'
<1>1. PICK whole : whole = (client = "on")
  OBVIOUS
<1>2. AsksFor(Stream, owed, Len(answered) + InHand, whole) /\ owed \in Seq(AllCmds)
  BY <1>1 DEF Expected, TypesOK, TypeOK
<1>3. AsksFor(Stream', owed', Len(answered') + InHand', client' = "on")
  BY <1>1, <1>2, AsksTail DEF InHand
<1>4. InOrder'
  BY DEF InOrder
<1> QED
  BY <1>3, <1>4 DEF Expected

\* The request in hand is done with.
LEMMA LaidDown ==
  ASSUME TypesOK, InOrder, Expected, Stream' = Stream, writes' = <<>>, ~HasAnswer(head'),
         answered' = IF HasAnswer(head) THEN Append(answered, head) ELSE answered,
         UNCHANGED <<owed, client>>
  PROVE  InOrder' /\ Expected'
<1>1. InOrder' /\ Len(answered') = Len(answered) + InHand
  <2>1. CASE HasAnswer(head)
    BY <2>1, AnswerInHand
  <2>2. CASE ~HasAnswer(head)
    BY <2>2 DEF InHand, InOrder, TypesOK, TypeOK
  <2> QED
    BY <2>1, <2>2
<1>2. Len(answered') \in Nat /\ InHand' = 0
  <2>1. InHand \in Nat /\ Len(answered) \in Nat
    BY DEF InHand, TypesOK, TypeOK
  <2> QED
    BY <1>1, <2>1 DEF InHand
<1>3. AsksFor(Stream', owed', Len(answered') + InHand', client' = "on")
  BY <1>1, <1>2 DEF Expected
<1> QED
  BY <1>1, <1>3 DEF Expected

\* Nothing of it is changed.
LEMMA OrderedStays ==
  ASSUME Ordered, UNCHANGED <<head, writes, answered, owed, client>>, Stream' = Stream,
         Nothing => Nothing'
  PROVE  Ordered'
<1>1. InOrder'
  BY DEF Ordered, InOrder
<1>2. Expected => Expected'
  BY DEF Expected, InHand
<1> QED
  BY <1>1, <1>2 DEF Ordered

LEMMA OrderedOver ==
  ASSUME InOrder, UNCHANGED <<answered, owed>>, reads' = <<>>, writes' = <<>>, bodies' = <<>>
  PROVE  Ordered'
BY DEF InOrder, Ordered, Nothing

-----------------------------------------------------------------------------
LEMMA OrderedByAsk ==
  ASSUME TypesOK, Sound, Aligned, Ordered, NEW c \in Cmds, NEW n \in Parts \cup {1}, Ask(c, n)
  PROVE  Ordered'
<1>1. c \in AllCmds /\ n \in Nat /\ (c = "ReqLog" => n = 1)
  BY SessionAssumption DEF Ask, BodyActions
<1>2. PICK q : q = Units(c, n)
  OBVIOUS
<1>3. /\ q \in Seq(Unit) /\ Len(q) >= 1 /\ q[1].t = "H" /\ q[1].cmd = c
      /\ \A i \in 2 .. Len(q) : q[i].t # "H"
  BY <1>1, <1>2, UnitsFormed, OneHeader
<1>4. /\ client = "on" /\ client' = "on" /\ UNCHANGED <<server, answered>>
      /\ wire \in Seq(Unit) /\ toSend \in Seq(Unit) /\ toSend = <<>>
      /\ toSend' = q /\ wire' = wire
      /\ owed' = IF HasAnswer(c) THEN Append(owed, c) ELSE owed
  BY <1>2 DEF Ask, TypesOK, TypeOK
<1>5. Stream \in Seq(Unit) /\ Stream' = Stream \o q
  <2>1. Stream \in Seq(Unit) /\ wire \o q = Stream \o q
    BY <1>3, <1>4, StreamIs
  <2> QED
    BY <1>4, <2>1 DEF Stream
<1>6. /\ owed \in Seq(AllCmds) /\ answered \in Seq(AllCmds)
      /\ Len(owed) \in Nat /\ Len(answered) \in Nat
  BY DEF TypesOK, TypeOK
<1>7. /\ Len(owed') \in Nat /\ Len(owed) <= Len(owed')
      /\ \A i \in 1 .. Len(owed) : owed'[i] = owed[i]
  BY <1>1, <1>4, <1>6
<1>8. InOrder'
  <2>1. Len(answered) <= Len(owed) /\ \A i \in 1 .. Len(answered) : answered[i] = owed[i]
    BY DEF Ordered, InOrder
  <2>2. \A i \in 1 .. Len(answered) : i \in 1 .. Len(owed)
    BY <1>6, <2>1
  <2> QED
    BY <1>4, <1>6, <1>7, <2>1, <2>2 DEF InOrder
<1>9. ASSUME Expected PROVE Expected'
  <2>1. PICK k : k = Len(answered) + InHand
    OBVIOUS
  <2>2. AsksFor(Stream, owed, k, TRUE)
    <3>1. PICK whole \in BOOLEAN : whole = (client = "on")
      OBVIOUS
    <3>2. whole = TRUE
      BY <1>4, <3>1
    <3> QED
      BY <1>9, <2>1, <3>1, <3>2 DEF Expected
  <2>3. AsksFor(Stream \o q, owed', k, TRUE)
    BY <1>1, <1>3, <1>4, <1>5, <1>6, <2>2, AsksMore
  <2>4. Len(answered') + InHand' = k /\ head' = head /\ writes' = writes
    BY <1>4, <2>1 DEF InHand, server
  <2>5. (client' = "on") = TRUE
    BY <1>4
  <2>6. AsksFor(Stream', owed', Len(answered') + InHand', client' = "on")
    BY <1>5, <2>3, <2>4, <2>5
  <2>7. ASSUME HasAnswer(head) PROVE Len(answered) < Len(owed') /\ owed'[Len(answered) + 1] = head
    <3>1. Len(answered) < Len(owed) /\ owed[Len(answered) + 1] = head
      BY <1>9, <2>7 DEF Expected
    <3>2. Len(answered) + 1 \in 1 .. Len(owed)
      BY <1>6, <3>1
    <3> QED
      BY <1>6, <1>7, <3>1, <3>2
  <2> QED
    BY <1>4, <1>9, <2>4, <2>6, <2>7 DEF Expected
<1>10. Nothing => Nothing'
  BY <1>4 DEF Nothing, server
<1> QED
  BY <1>8, <1>9, <1>10 DEF Ordered

LEMMA OrderedByLeave ==
  ASSUME TypesOK, Sound, Aligned, Ordered, NEW how \in Peers \ {"on"}, Leave(how)
  PROVE  Ordered'
<1>1. client = "on" /\ client' # "on" /\ toSend' = <<>> /\ UNCHANGED <<server, owed, answered>>
  BY DEF Leave
<1>2. wire \in Seq(Unit) /\ toSend \in Seq(Unit) /\ <<>> \in Seq(Unit) /\ owed \in Seq(AllCmds)
  BY DEF TypesOK, TypeOK
<1>3. PICK p \in Seq(Unit) : p = wire'
  BY <1>2 DEF Leave
<1>4. Stream' = p
  BY <1>1, <1>3 DEF Stream
<1>5. p = wire \/ p = <<>>
  BY <1>3 DEF Leave
<1>6. PICK q \in Seq(Unit) : Stream = p \o q
  <2>1. Stream \in Seq(Unit) /\ Stream = wire \o toSend /\ Stream = <<>> \o Stream
    BY <1>2, StreamIs DEF Stream
  <2> QED
    BY <1>2, <1>5, <2>1
<1>7. InOrder'
  BY <1>1 DEF Ordered, InOrder
<1>8. ASSUME Expected PROVE Expected'
  <2>1. PICK whole : whole = (client = "on")
    OBVIOUS
  <2>2. AsksFor(p \o q, owed, Len(answered) + InHand, whole)
    BY <1>6, <1>8, <2>1 DEF Expected
  <2>3. AsksFor(p, owed, Len(answered) + InHand, FALSE)
    BY <1>2, <2>2, AsksCut
  <2>4. (client' = "on") = FALSE /\ UNCHANGED <<head, writes, InHand>>
    BY <1>1 DEF server, InHand
  <2>5. AsksFor(Stream', owed', Len(answered') + InHand', client' = "on")
    BY <1>1, <1>4, <2>3, <2>4
  <2> QED
    BY <1>1, <1>8, <2>4, <2>5 DEF Expected
<1>9. Nothing => Nothing'
  BY <1>1 DEF Nothing, server
<1> QED
  BY <1>7, <1>8, <1>9 DEF Ordered

LEMMA OrderedByHeaderRead ==
  TypesOK /\ Sound /\ Aligned /\ Ordered /\ HeaderReadOk /\ Sound' => Ordered'
<1> SUFFICES ASSUME TypesOK, Sound, Aligned, Ordered, HeaderReadOk, Sound' PROVE Ordered'
  OBVIOUS
<1>1. AtHeader /\ wire # <<>> /\ wire' = Tail(wire)
  BY WhereReading DEF HeaderReadOk, CanRead, Aligned
<1>2. UNCHANGED <<client, toSend, bodies, owed>>
  BY DEF HeaderReadOk, peer
<1>3. /\ Stream \in Seq(Unit) /\ Stream # <<>> /\ Stream[1] = Head(wire) /\ Stream' = Tail(Stream)
  BY <1>1, <1>2, WireRead
<1>4. PICK c : c = Head(wire).cmd
  OBVIOUS
<1>5. c \in AllCmds /\ c # None
  BY <1>1, <1>4, HeadIsUnit, SessionAssumption DEF TypesOK, TypeOK
<1>6. Stream[1].t = "H" /\ Stream[1].cmd = c
  <2>1. PICK whole : whole = (client = "on")
    OBVIOUS
  <2>2. Parted(Stream, 0, whole) /\ Formed(Stream, whole)
    BY <1>1, <2>1 DEF AtHeader, Aligned
  <2> QED
    BY <1>3, <1>4, <2>2, AfterHeader
<1>7. /\ Tail(reads) = <<>> /\ reads # <<>> /\ head = None /\ writes = <<>> /\ bodies = <<>>
      /\ Append(<<>>, HeaderRead) = <<HeaderRead>> /\ <<HeaderRead>> # <<>>
  BY <1>1 DEF AtHeader
<1>8. ~HasAnswer(head) /\ InOrder /\ Expected
  BY <1>7, NoneHasNoAnswer DEF Ordered, Nothing
<1>9. CASE c = "BadSize"
           /\ UNCHANGED <<up, lost, open, initialized, head, writes, answered, doubled>>
  <2>1. ~Owes(Stream[1])
    BY <1>5, <1>6, <1>9, NoneHasNoAnswer DEF Owes
  <2> QED
    BY <1>2, <1>3, <1>7, <1>8, <1>9, <2>1, ReadOn DEF Ordered
<1>10. CASE StartAction(c, <<>>)
  BY <1>2, <1>3, <1>6, <1>7, <1>8, <1>10, TakenUp DEF StartAction, Ordered
<1>11. CASE BadCommand(c, <<>>)
  BY <1>11, WildEnds DEF BadCommand
<1>12. CASE GetList(c, <<>>)
  <2>1. HasAnswer(c)
    BY <1>12 DEF GetList, HasAnswer, Gets
  <2> QED
    BY <1>2, <1>3, <1>6, <1>7, <1>8, <1>12, <2>1, TakenUp DEF GetList, Ordered
<1>13. CASE GetFriendList(c, <<>>)
  <2>1. CASE Down
    BY <2>1, WildEnds
  <2>2. ASSUME NEW err \in WriteResults, TaskEnd(err, c, <<>>),
               answered' = IF err = "ok" THEN Append(answered, c) ELSE answered
        PROVE  Ordered'
    <3>1. UNCHANGED writes /\ head' = None
      BY <1>13, <2>2 DEF TaskEnd, GetFriendList
    <3>2. CASE err = "ok"
      <4>1. Owes(Stream[1])
        BY <1>6, <1>13 DEF GetFriendList, Owes, HasAnswer, Gets
      <4> QED
        BY <1>2, <1>3, <1>6, <1>7, <1>8, <2>2, <3>1, <3>2, <4>1, AnsweredAtOnce DEF Ordered
    <3>3. CASE err # "ok"
      <4>1. reads' = <<>>
        BY <1>5, <2>2, <3>3 DEF TaskEnd
      <4> QED
        BY <1>2, <1>7, <1>8, <2>2, <3>1, <3>3, <4>1, OrderedOver
    <3> QED
      BY <3>2, <3>3
  <2> QED
    BY <1>13, <2>1, <2>2 DEF GetFriendList
<1>14. CASE GetMsg(c, <<>>)
  <2>1. CASE Down
    BY <2>1, WildEnds
  <2>2. CASE doubled' = TRUE
    BY <2>2, Zenon DEF Sound
  <2> QED
    BY <1>14, <2>1, <2>2 DEF GetMsg
<1>15. ReadHandle(c, <<>>) => Ordered'
  BY <1>10, <1>11, <1>12, <1>13, <1>14 DEF ReadHandle
<1> QED
  BY <1>3, <1>4, <1>6, <1>7, <1>9, <1>15 DEF HeaderReadOk

LEMMA OrderedByStructRead ==
  TypesOK /\ Sound /\ Aligned /\ Ordered /\ FixedReadOk => Ordered'
<1> SUFFICES ASSUME TypesOK, Sound, Aligned, Ordered, FixedReadOk PROVE Ordered'
  OBVIOUS
<1>1. AtStruct /\ wire # <<>> /\ wire' = Tail(wire) /\ reads # <<>>
  BY WhereReading DEF FixedReadOk, FixedReading, CanRead, Aligned
<1>2. UNCHANGED <<client, toSend, head, writes, answered, owed>>
  BY DEF FixedReadOk, peer
<1>3. Stream \in Seq(Unit) /\ Stream # <<>> /\ Stream' = Tail(Stream)
  BY <1>1, <1>2, WireRead
<1>4. ~Owes(Stream[1]) /\ writes = <<>>
  BY <1>1, <1>3 DEF AtStruct, Owes
<1>5. InOrder /\ Expected
  BY <1>1 DEF Ordered, Nothing
<1> QED
  BY <1>2, <1>3, <1>4, <1>5, ReadOn DEF Ordered

LEMMA OrderedByIdPwRead ==
  TypesOK /\ Sound /\ Aligned /\ Ordered /\ IdPwReadOk => Ordered'
<1> SUFFICES ASSUME TypesOK, Sound, Aligned, Ordered, IdPwReadOk PROVE Ordered'
  OBVIOUS
<1>1. AtIdPw /\ wire # <<>> /\ wire' = Tail(wire) /\ reads # <<>>
  BY WhereReading DEF IdPwReadOk, IdPwReading, CanRead, Aligned
<1>2. UNCHANGED <<client, toSend, head, answered, owed>>
  BY DEF IdPwReadOk, peer
<1>3. Stream \in Seq(Unit) /\ Stream # <<>> /\ Stream' = Tail(Stream)
  BY <1>1, <1>2, WireRead
<1>4. ~Owes(Stream[1])
  <2>1. PICK whole : whole = (client = "on")
    OBVIOUS
  <2>2. Parted(Stream, 1, whole)
    BY <1>1, <2>1 DEF AtIdPw
  <2>3. Stream[1].t = "B"
    BY <1>3, <2>2, PartedTail
  <2> QED
    BY <2>3 DEF Owes
<1>5. InOrder /\ Expected
  BY <1>1 DEF Ordered, Nothing
<1>6. HasAnswer(head)
  BY <1>1 DEF AtIdPw, HasAnswer
<1> QED
  BY <1>2, <1>3, <1>4, <1>5, <1>6, ReadOn DEF Ordered

LEMMA OrderedByBodyRead ==
  ASSUME TypesOK, Sound, Aligned, Ordered, NEW i \in 1 .. Len(bodies), BodyRead(i) PROVE Ordered'
<1>1. AtBody /\ wire # <<>> /\ wire' = Tail(wire) /\ bodies # <<>>
  BY WhereReading DEF BodyRead, CanRead, Aligned
<1>2. UNCHANGED <<client, toSend, head, writes, answered, owed>>
  BY DEF BodyRead, peer
<1>3. Stream \in Seq(Unit) /\ Stream # <<>> /\ Stream' = Tail(Stream)
  BY <1>1, <1>2, WireRead
<1>4. PICK b \in {bodies[k] : k \in 1 .. Len(bodies)} :
        /\ writes = <<>> /\ bodies = <<b>> /\ Parted(Stream, b.left, client = "on")
  BY <1>1 DEF AtBody
<1>5. b.left \in Nat /\ b.left > 0
  <2>1. i = 1 /\ bodies[i] = b
    BY <1>4
  <2>2. b \in Body
    BY <2>1 DEF TypesOK, TypeOK
  <2> QED
    BY <2>1, <2>2 DEF Body, BodyRead
<1>6. ~Owes(Stream[1])
  <2>1. PICK whole : whole = (client = "on")
    OBVIOUS
  <2>2. Parted(Stream, b.left, whole)
    BY <1>4, <2>1
  <2>3. Stream[1].t = "B"
    BY <1>3, <1>5, <2>2, PartedTail
  <2> QED
    BY <2>3 DEF Owes
<1>7. InOrder /\ Expected
  BY <1>1 DEF Ordered, Nothing
<1> QED
  BY <1>2, <1>3, <1>4, <1>6, <1>7, ReadOn DEF Ordered

LEMMA OrderedByBodyEnd ==
  ASSUME TypesOK, Sound, Aligned, Ordered, NEW i \in 1 .. Len(bodies), BodyEnd(i), Sound'
  PROVE  Ordered'
<1>1. AtBody /\ bodies # <<>>
  BY WhereReading DEF Aligned
<1>2. UNCHANGED <<client, toSend, wire, writes, owed>> /\ bodies' = Drop(bodies, i)
  BY DEF BodyEnd, peer
<1>3. PICK b \in {bodies[k] : k \in 1 .. Len(bodies)} :
        reads = <<>> /\ writes = <<>> /\ bodies = <<b>> /\ head = b.cmd
  BY <1>1 DEF AtBody
<1>4. i = 1 /\ bodies[i] = b /\ b \in Body
  <2>1. i = 1 /\ bodies[i] = b
    BY <1>3
  <2> QED
    BY <2>1 DEF TypesOK, TypeOK
<1>5. bodies' = <<>> /\ Stream' = Stream /\ b.cmd # None
  BY <1>2, <1>3, <1>4, CommandsAre, SessionAssumption DEF Drop, Stream, Body
<1>6. /\ answered' = IF HasAnswer(head) THEN Append(answered, head) ELSE answered
      /\ TaskEnd(b.err, head, reads)
  BY <1>3, <1>4, WildEnds DEF BodyEnd
<1>7. head' = None /\ writes' = <<>> /\ ~HasAnswer(head')
  BY <1>2, <1>3, <1>6, NoneHasNoAnswer DEF TaskEnd
<1>8. InOrder /\ Expected
  BY <1>1 DEF Ordered, Nothing
<1> QED
  BY <1>2, <1>5, <1>6, <1>7, <1>8, LaidDown DEF Ordered

LEMMA OrderedByWriteEnd == TypesOK /\ Sound /\ Aligned /\ Ordered /\ WriteEnd => Ordered'
<1> SUFFICES ASSUME TypesOK, Sound, Aligned, Ordered, WriteEnd PROVE Ordered'
  OBVIOUS
<1>1. AtWrite
  BY WhereReading DEF WriteEnd, Aligned
<1>2. UNCHANGED <<client, toSend, wire, bodies, owed>> /\ writes' = Tail(writes)
  BY DEF WriteEnd, peer
<1>3. PICK c \in AllCmds : reads = <<>> /\ writes = <<c>> /\ bodies = <<>> /\ head = c
  BY <1>1 DEF AtWrite
<1>4. c # None /\ writes' = <<>> /\ Stream' = Stream
  BY <1>2, <1>3, SessionAssumption DEF Stream
<1>5. PICK err \in WriteResults :
        /\ TaskEnd(err, head, reads)
        /\ answered' = IF err = "ok" THEN Append(answered, Head(writes)) ELSE answered
  BY DEF WriteEnd
<1>6. head' = None /\ ~HasAnswer(head')
  BY <1>5, NoneHasNoAnswer DEF TaskEnd
<1>7. InOrder /\ Expected /\ HasAnswer(head) /\ Head(writes) = head
  BY <1>3 DEF Ordered, Expected, Nothing
<1>8. CASE err = "ok"
  BY <1>2, <1>4, <1>5, <1>6, <1>7, <1>8, LaidDown DEF Ordered
<1>9. CASE err # "ok"
  <2>1. reads' = <<>>
    BY <1>3, <1>4, <1>5, <1>9 DEF TaskEnd
  <2> QED
    BY <1>2, <1>3, <1>4, <1>5, <1>7, <1>9, <2>1, OrderedOver
<1> QED
  BY <1>8, <1>9

\* The handlers that are told of an error answer nothing and take up nothing.
LEMMA OrderedByError ==
  ASSUME TypesOK, Sound, Aligned, Ordered, HeaderReadErr \/ FixedReadErr \/ IdPwReadErr
  PROVE  Ordered'
<1>1. /\ UNCHANGED <<client, wire, toSend, head, writes, answered, owed>>
      /\ reads # <<>>
  BY DEF HeaderReadErr, FixedReadErr, IdPwReadErr, HeaderReading, FixedReading, IdPwReading, peer
<1>2. Stream' = Stream
  BY <1>1 DEF Stream
<1> QED
  BY <1>1, <1>2, OrderedStays DEF Nothing

LEMMA OrderedAlways ==
  TypesOK /\ Sound /\ Aligned /\ Ordered /\ [Next]_vars /\ Sound' => Ordered'
<1> SUFFICES ASSUME TypesOK, Sound, Aligned, Ordered, [Next]_vars, Sound' PROVE Ordered'
  OBVIOUS
<1>1. CASE Send
  <2>1. Append(wire, Head(toSend)) \o Tail(toSend) = Stream
    BY <1>1, StreamIs DEF Send, TypesOK, TypeOK
  <2>2. Stream' = Stream
    BY <1>1, <2>1 DEF Send, Stream
  <2> QED
    BY <1>1, <2>2, OrderedStays DEF Send, server, Nothing
<1>2. CASE Client
  BY <1>1, <1>2, OrderedByAsk, OrderedByLeave DEF Client
<1>3. ASSUME NEW i \in 1 .. Len(bodies), BodyThrow(i) PROVE Ordered'
  BY <1>3, WildEnds DEF BodyThrow
<1>4. CASE Handler
  BY <1>3, <1>4, OrderedByHeaderRead, OrderedByStructRead, OrderedByIdPwRead, OrderedByBodyRead,
     OrderedByBodyEnd, OrderedByWriteEnd, OrderedByError DEF Handler
<1>5. CASE UNCHANGED vars
  BY <1>5, OrderedStays DEF vars, server, peer, Stream, Nothing
<1> QED
  BY <1>2, <1>4, <1>5 DEF Next

LEMMA OrderInit == Init => OInv
<1> SUFFICES ASSUME Init PROVE OInv
  OBVIOUS
<1>1. Stream = <<>> /\ Len(Stream) = 0 /\ answered = <<>> /\ owed = <<>> /\ head = None /\ writes = <<>>
  BY DEF Init, Stream
<1>2. ~HasAnswer(head) /\ InHand = 0
  BY <1>1, NoneHasNoAnswer DEF InHand
<1>3. AsksFor(<<>>, <<>>, 0, client = "on")
  <2>1. Asks(<<>>, <<>>, 0, client = "on", [i \in 0 .. 0 |-> 0])
    BY DEF Asks
  <2> QED
    BY <2>1 DEF AsksFor
<1>4. Ordered
  BY <1>1, <1>2, <1>3 DEF Ordered, InOrder, Expected
<1> QED
  BY <1>4, InvInit DEF OInv

LEMMA OrderNext == OInv /\ [Next]_vars => OInv'
<1> SUFFICES ASSUME OInv, [Next]_vars PROVE OInv'
  OBVIOUS
<1>1. IInv /\ IInv'
  BY InvNext DEF OInv
<1>2. CASE Sound
  BY <1>1, <1>2, OrderedAlways DEF OInv, IInv
<1>3. CASE ~Sound
  BY <1>1, <1>3, UnsoundStays DEF OInv, IInv
<1> QED
  BY <1>2, <1>3

\* Until its first GetMsg a session answers in the order it was asked, what has an answer
\* and that once: all of it, when it waits for a header and the stream is read to its end.
THEOREM AnswersComeInOrder == Spec => []AnswersInOrder
<1>1. OInv => AnswersInOrder
  <2> SUFFICES ASSUME OInv, Sound
               PROVE  /\ Len(answered) <= Len(owed)
                      /\ answered = SubSeq(owed, 1, Len(answered))
                      /\ client = "on" /\ head = None /\ wire = <<>> /\ toSend = <<>> => answered = owed
    BY DEF AnswersInOrder
  <2>1. TypesOK /\ Aligned /\ Ordered /\ InOrder
    BY DEF OInv, IInv, Ordered
  <2>2. /\ owed \in Seq(AllCmds) /\ answered \in Seq(AllCmds)
        /\ Len(owed) \in Nat /\ Len(answered) \in Nat
    BY <2>1 DEF TypesOK, TypeOK
  <2>3. Len(answered) <= Len(owed) /\ \A i \in 1 .. Len(answered) : answered[i] = owed[i]
    BY <2>1 DEF InOrder
  <2>4. answered = SubSeq(owed, 1, Len(answered))
    BY <2>2, <2>3
  <2>5. ASSUME client = "on", head = None, wire = <<>>, toSend = <<>> PROVE answered = owed
    <3>1. ~Nothing
      BY <2>1, <2>5, SessionAssumption DEF Aligned, Point, Over, AtHeader, AtStruct, AtIdPw, AtBody, AtWrite, Nothing, AllCmds
    <3>2. Stream = <<>> /\ InHand = 0
      BY <2>5, NoneHasNoAnswer DEF Stream, InHand
    <3>3. AsksFor(<<>>, owed, Len(answered), TRUE)
      <4>1. PICK whole \in BOOLEAN : whole = (client = "on")
        OBVIOUS
      <4>2. whole = TRUE
        BY <2>5, <4>1
      <4>3. AsksFor(Stream, owed, Len(answered) + InHand, whole)
        BY <2>1, <3>1, <4>1 DEF Ordered, Expected
      <4>4. Len(answered) + InHand = Len(answered)
        BY <2>2, <3>2
      <4> QED
        BY <3>2, <4>2, <4>3, <4>4
    <3>4. Len(answered) = Len(owed)
      BY <3>3, AsksNothing
    <3> QED
      BY <2>2, <2>3, <3>4
  <2> QED
    BY <2>3, <2>4, <2>5
<1>2. Spec => []OInv
  BY OrderInit, OrderNext, PTL DEF Spec
<1> QED
  BY <1>1, <1>2, PTL

-----------------------------------------------------------------------------
\* Until its first GetMsg a session waits for one thing only, which belongs to the
\* header at the front of its queue, and for something as long as its peer is there and
\* has asked for no action that nobody handles.
THEOREM HandlersFormOneChain == Spec => []OneChain
<1>1. IInv => OneChain
  <2> SUFFICES ASSUME TypesOK, Aligned, Sound PROVE OneChain
    BY DEF IInv, OneChain
  <2>1. CASE Over
    BY <2>1 DEF Over, Nothing, OneChain
  <2>2. CASE AtHeader
    BY <2>2 DEF AtHeader, HeaderRead, OneChain
  <2>3. CASE AtStruct
    BY <2>3 DEF AtStruct, OneChain
  <2>4. CASE AtIdPw
    BY <2>4 DEF AtIdPw, OneChain
  <2>5. CASE AtBody
    BY <2>5 DEF AtBody, OneChain
  <2>6. CASE AtWrite
    BY <2>6 DEF AtWrite, OneChain
  <2> QED
    BY <2>1, <2>2, <2>3, <2>4, <2>5, <2>6 DEF Aligned, Point
<1> QED
  BY <1>1, Invariant, PTL

\* Until then server and client agree where in the stream they are: what is read next
\* as a header, as a struct or as a part of a body was sent as that.
THEOREM StreamsAgree == Spec => []InStep
<1>1. IInv => InStep
  <2> DEFINE Next1(i) == CASE reads[i].kind = "header" -> Stream # <<>> => Head(Stream).t = "H"
                           [] reads[i].kind = "fixed"  -> Stream # <<>> /\ Head(Stream).t = "F"
                           [] reads[i].kind = "idpw"   -> Stream # <<>> /\ Head(Stream).t = "B"
             Parts1(i) == /\ Len(Stream) >= bodies[i].left
                          /\ \A j \in 1 .. bodies[i].left : Stream[j].t = "B"
                          /\ Len(Stream) > bodies[i].left => Stream[bodies[i].left + 1].t = "H"
  <2> SUFFICES ASSUME TypesOK, Aligned, Sound, client = "on"
               PROVE  /\ \A i \in 1 .. Len(reads) : Next1(i)
                      /\ \A i \in 1 .. Len(bodies) : Parts1(i)
    BY DEF IInv, InStep, Stream
  <2>1. Stream \in Seq(Unit) /\ Stream = wire \o toSend /\ Len(Stream) \in Nat
    <3>1. Stream \in Seq(Unit)
      BY StreamIs DEF TypesOK, TypeOK
    <3> QED
      BY <3>1 DEF Stream
  <2>2. Stream # <<>> <=> Len(Stream) >= 1
    BY <2>1
  <2>3. Stream # <<>> => Head(Stream) = Stream[1]
    BY <2>1
  <2>4. CASE Over
    BY <2>4 DEF Over, Nothing
  <2>5. CASE AtHeader
    <3>1. Stream # <<>> => Stream[1].t = "H"
      BY <2>2, <2>5 DEF AtHeader, Parted
    <3>2. bodies = <<>> /\ Len(reads) = 1 /\ reads[1].kind = "header"
      BY <2>5 DEF AtHeader, HeaderRead
    <3>3. \A i \in 1 .. Len(reads) : i = 1
      BY <3>2
    <3>4. Next1(1)
      BY <2>3, <3>1, <3>2
    <3>5. \A i \in 1 .. Len(bodies) : FALSE
      BY <3>2
    <3> HIDE DEF Next1, Parts1
    <3> QED
      BY <3>3, <3>4, <3>5
  <2>6. CASE AtStruct
    <3>1. Stream # <<>> /\ Stream[1].t = "F"
      BY <2>6 DEF AtStruct
    <3>2. bodies = <<>> /\ Len(reads) = 1 /\ reads[1].kind = "fixed"
      BY <2>6 DEF AtStruct
    <3>3. \A i \in 1 .. Len(reads) : i = 1
      BY <3>2
    <3>4. Next1(1)
      BY <2>3, <3>1, <3>2
    <3>5. \A i \in 1 .. Len(bodies) : FALSE
      BY <3>2
    <3> HIDE DEF Next1, Parts1
    <3> QED
      BY <3>3, <3>4, <3>5
  <2>7. CASE AtIdPw
    <3>1. Stream # <<>> /\ Stream[1].t = "B"
      BY <2>1, <2>2, <2>7 DEF AtIdPw, Parted
    <3>2. bodies = <<>> /\ Len(reads) = 1 /\ reads[1].kind = "idpw"
      BY <2>7 DEF AtIdPw
    <3>3. \A i \in 1 .. Len(reads) : i = 1
      BY <3>2
    <3>4. Next1(1)
      BY <2>3, <3>1, <3>2
    <3>5. \A i \in 1 .. Len(bodies) : FALSE
      BY <3>2
    <3> HIDE DEF Next1, Parts1
    <3> QED
      BY <3>3, <3>4, <3>5
  <2>8. CASE AtBody
    <3>1. PICK b \in {bodies[k] : k \in 1 .. Len(bodies)} :
            /\ reads = <<>> /\ writes = <<>> /\ bodies = <<b>>
            /\ Parted(Stream, b.left, client = "on")
      BY <2>8 DEF AtBody
    <3>2. b.left \in Nat
      <4>1. b \in Body
        BY <3>1 DEF TypesOK, TypeOK
      <4> QED
        BY <4>1 DEF Body
    <3>3. /\ Len(Stream) >= b.left
          /\ \A j \in 1 .. b.left : Stream[j].t = "B"
          /\ Len(Stream) > b.left => Stream[b.left + 1].t = "H"
      BY <2>1, <3>1, <3>2 DEF Parted
    <3>4. reads = <<>> /\ Len(bodies) = 1 /\ bodies[1] = b
      BY <3>1
    <3>5. \A i \in 1 .. Len(bodies) : i = 1
      BY <3>4
    <3>6. Parts1(1)
      BY <3>3, <3>4
    <3> QED
      BY <3>4, <3>5, <3>6
  <2>9. CASE AtWrite
    BY <2>9 DEF AtWrite
  <2> QED
    BY <2>4, <2>5, <2>6, <2>7, <2>8, <2>9 DEF Aligned, Point
<1> QED
  BY <1>1, Invariant, PTL

\* What brings the process down, or a session out of step with its peer, before the
\* first GetMsg: a peer that leaves within a body, before an answer that is written
\* synchronously, or where decode_hader returns nothing, and a command misused.
THEOREM HarmIsCaused == Spec => HarmHasCause
<1>1. IInv /\ [Next]_vars => [HarmStep]_vars
  BY InvNext
<1> QED
  BY <1>1, Invariant, PTL DEF Spec, HarmHasCause

-----------------------------------------------------------------------------
(***************************************************************************)
(* Progress: there is a handler that can run unless the session waits for  *)
(* its client, and each that runs leaves less to do.                       *)
(***************************************************************************)

\* With the request written a session waits for the header of the next, has taken up one
\* that nobody handles, or can go on.
THEOREM SessionNeverStuck == Spec => []NeverStuck
<1>1. IInv => NeverStuck
  <2> SUFFICES ASSUME TypesOK, Aligned, Sound, client = "on", toSend = <<>>
               PROVE  \/ Waiting
                      \/ head = "Other"
                      \/ writes # <<>>
                      \/ CanRead /\ reads # <<>>
                      \/ \E i \in 1 .. Len(bodies) : bodies[i].left = 0 \/ CanRead
    BY DEF IInv, NeverStuck
  <2>1. Stream = wire /\ wire \in Seq(Unit) /\ Len(wire) \in Nat
    BY StreamIs DEF TypesOK, TypeOK
  <2>2. PICK whole \in BOOLEAN : whole = (client = "on") /\ whole = TRUE
    OBVIOUS
  <2>3. ASSUME NEW k \in Nat, Parted(Stream, k, client = "on"), k > 0 PROVE wire # <<>>
    <3>1. Parted(wire, k, whole)
      BY <2>1, <2>2, <2>3
    <3> QED
      BY <2>1, <2>2, <2>3, <3>1 DEF Parted
  <2>4. CASE Over
    BY <2>4 DEF Over
  <2>5. CASE AtHeader
    BY <2>5 DEF AtHeader, Waiting, CanRead
  <2>6. CASE AtStruct
    BY <2>1, <2>6 DEF AtStruct, CanRead
  <2>7. CASE AtIdPw
    BY <2>3, <2>7 DEF AtIdPw, CanRead
  <2>8. CASE AtBody
    <3>1. PICK b \in {bodies[k] : k \in 1 .. Len(bodies)} :
            /\ bodies = <<b>>
            /\ IF b.err = "ok" THEN open ELSE client # "on" /\ Stream = <<>>
            /\ Parted(Stream, b.left, client = "on")
      BY <2>8 DEF AtBody
    <3>2. 1 \in 1 .. Len(bodies) /\ bodies[1] = b
      BY <3>1
    <3>3. b.left \in Nat
      <4>1. b \in Body
        BY <3>2 DEF TypesOK, TypeOK
      <4> QED
        BY <4>1 DEF Body
    <3>4. b.left = 0 \/ CanRead
      BY <2>3, <3>1, <3>3 DEF CanRead
    <3> QED
      BY <3>2, <3>4
  <2>9. CASE AtWrite
    BY <2>9 DEF AtWrite
  <2> QED
    BY <2>4, <2>5, <2>6, <2>7, <2>8, <2>9 DEF Aligned, Point
<1> QED
  BY <1>1, Invariant, PTL

FixedIn(rs) == {i \in 1 .. Len(rs) : rs[i].kind = "fixed"}

Weight(rs) == Len(rs) + 2 * Cardinality(FixedIn(rs))

WeightOf(r) == IF r.kind = "fixed" THEN 3 ELSE 1

LEMMA WeightIsNat ==
  ASSUME NEW rs \in Seq(ReadOp)
  PROVE  IsFiniteSet(FixedIn(rs)) /\ Weight(rs) \in Nat
<1>0. Len(rs) \in Nat /\ 1 \in Int /\ Len(rs) \in Int
  OBVIOUS
<1>1. Len(rs) \in Nat /\ IsFiniteSet(1 .. Len(rs)) /\ FixedIn(rs) \in SUBSET (1 .. Len(rs))
  BY <1>0, FS_Interval DEF FixedIn
<1>2. IsFiniteSet(FixedIn(rs)) /\ Cardinality(FixedIn(rs)) \in Nat
  BY <1>1, FS_Subset, FS_CardinalityType
<1> QED
  BY <1>1, <1>2 DEF Weight

LEMMA WeightMore ==
  ASSUME NEW rs \in Seq(ReadOp), NEW r \in ReadOp
  PROVE  Weight(Append(rs, r)) = Weight(rs) + WeightOf(r)
<1>1. PICK q : q = Append(rs, r)
  OBVIOUS
<1>2. /\ Len(rs) \in Nat /\ Len(q) = Len(rs) + 1 /\ q[Len(rs) + 1] = r
      /\ \A i \in 1 .. Len(rs) : q[i] = rs[i]
      /\ 1 .. Len(q) = (1 .. Len(rs)) \cup {Len(rs) + 1} /\ Len(rs) + 1 \notin 1 .. Len(rs)
  BY <1>1
<1>3. FixedIn(q) = IF r.kind = "fixed" THEN FixedIn(rs) \cup {Len(rs) + 1} ELSE FixedIn(rs)
  BY <1>2, Zenon DEF FixedIn
<1>4. Len(rs) + 1 \notin FixedIn(rs)
  BY <1>2 DEF FixedIn
<1>5. IsFiniteSet(FixedIn(rs)) /\ Cardinality(FixedIn(rs)) \in Nat
  BY WeightIsNat, FS_CardinalityType
<1>6. Cardinality(FixedIn(q)) = IF r.kind = "fixed" THEN Cardinality(FixedIn(rs)) + 1
                                ELSE Cardinality(FixedIn(rs))
  BY <1>3, <1>4, <1>5, FS_AddElement
<1> QED
  BY <1>1, <1>2, <1>5, <1>6 DEF Weight, WeightOf

LEMMA WeightLess ==
  ASSUME NEW rs \in Seq(ReadOp), rs # <<>>
  PROVE  Tail(rs) \in Seq(ReadOp) /\ Weight(Tail(rs)) = Weight(rs) - WeightOf(Head(rs))
<1>t. Tail(rs) \in Seq(ReadOp)
  OBVIOUS
<1>1. PICK q \in Seq(ReadOp) : q = Tail(rs)
  BY <1>t
<1>2. /\ Len(rs) \in Nat /\ Len(rs) >= 1 /\ Len(q) = Len(rs) - 1 /\ rs[1] = Head(rs)
      /\ \A i \in 1 .. Len(q) : q[i] = rs[i + 1]
  BY <1>1
<1> DEFINE S == FixedIn(q)
           T == FixedIn(rs) \ {1}
           f == [i \in S |-> i + 1]
<1>3. S \subseteq Nat
  BY DEF FixedIn
<1>4. \A i \in S : i + 1 \in T
  BY <1>2 DEF FixedIn
<1>5. \A j \in T : j - 1 \in S /\ j - 1 + 1 = j
  BY <1>2 DEF FixedIn
<1>6. IsFiniteSet(S) /\ IsFiniteSet(FixedIn(rs))
  BY WeightIsNat
<1> HIDE DEF S, T
<1>7. f \in Bijection(S, T)
  <2>1. f \in [S -> T]
    BY <1>4
  <2>2. \A i, j \in S : f[i] = f[j] => i = j
    BY <1>3
  <2>3. \A j \in T : \E i \in S : f[i] = j
    BY <1>5
  <2> QED
    BY <2>1, <2>2, <2>3, Zenon DEF Bijection, Injection, Surjection, IsInjective
<1>8. Cardinality(T) = Cardinality(S)
  BY <1>6, <1>7, FS_Bijection DEF ExistsBijection
<1>9. 1 \in FixedIn(rs) <=> Head(rs).kind = "fixed"
  BY <1>2 DEF FixedIn
<1>10. Cardinality(T) = IF Head(rs).kind = "fixed" THEN Cardinality(FixedIn(rs)) - 1
                        ELSE Cardinality(FixedIn(rs))
  BY <1>6, <1>9, FS_RemoveElement DEF T
<1>11. Cardinality(FixedIn(rs)) \in Nat
  BY <1>6, FS_CardinalityType
<1> QED
  BY <1>1, <1>2, <1>8, <1>10, <1>11 DEF Weight, WeightOf, S

\* A read taken, and one begun in its place.
LEMMA WeightOfReads ==
  ASSUME TypesOK
  PROVE  /\ Weight(reads) \in Nat
         /\ Weight(Append(reads, HeaderRead)) = Weight(reads) + 1
         /\ reads # <<>> =>
              LET rs == Tail(reads) IN
              /\ Weight(rs) \in Nat /\ Weight(rs) = Weight(reads) - WeightOf(Head(reads))
              /\ Weight(Append(rs, HeaderRead)) = Weight(rs) + 1
              /\ \A c \in AllCmds :
                   /\ Weight(Append(rs, [kind |-> "fixed", cmd |-> c])) = Weight(rs) + 3
                   /\ Weight(Append(rs, [kind |-> "idpw", cmd |-> c])) = Weight(rs) + 1
<1>1. reads \in Seq(ReadOp) /\ HeaderRead \in ReadOp
  BY CommandsAre DEF TypesOK, TypeOK
<1>2. \A c \in AllCmds : [kind |-> "fixed", cmd |-> c] \in ReadOp /\ [kind |-> "idpw", cmd |-> c] \in ReadOp
  BY DEF ReadOp
<1>3. \A k \in {"header", "fixed", "idpw"} : \A c :
        WeightOf([kind |-> k, cmd |-> c]) = IF k = "fixed" THEN 3 ELSE 1
  BY DEF WeightOf
<1>4. WeightOf(HeaderRead) = 1
  BY DEF WeightOf, HeaderRead
<1>5. Weight(reads) \in Nat /\ Weight(Append(reads, HeaderRead)) = Weight(reads) + 1
  BY <1>1, <1>4, WeightIsNat, WeightMore
<1>6. ASSUME reads # <<>>, NEW rs, rs = Tail(reads)
      PROVE  /\ Weight(rs) \in Nat /\ Weight(rs) = Weight(reads) - WeightOf(Head(reads))
             /\ Weight(Append(rs, HeaderRead)) = Weight(rs) + 1
             /\ \A c \in AllCmds :
                  /\ Weight(Append(rs, [kind |-> "fixed", cmd |-> c])) = Weight(rs) + 3
                  /\ Weight(Append(rs, [kind |-> "idpw", cmd |-> c])) = Weight(rs) + 1
  <2>1. rs \in Seq(ReadOp) /\ Weight(rs) = Weight(reads) - WeightOf(Head(reads))
    BY <1>1, <1>6, WeightLess
  <2>2. Weight(rs) \in Nat /\ Weight(Append(rs, HeaderRead)) = Weight(rs) + 1
    BY <1>1, <1>4, <2>1, WeightIsNat, WeightMore
  <2>3. ASSUME NEW c \in AllCmds
        PROVE  /\ Weight(Append(rs, [kind |-> "fixed", cmd |-> c])) = Weight(rs) + 3
               /\ Weight(Append(rs, [kind |-> "idpw", cmd |-> c])) = Weight(rs) + 1
    BY <1>2, <1>3, <2>1, WeightMore
  <2> QED
    BY <2>1, <2>2, <2>3
<1> QED
  BY <1>5, <1>6

\* What is under way beside the reads.
Rest == 3 * Len(wire) + 2 * (Len(writes) + Len(bodies))

LEMMA WorkIs ==
  ASSUME TypesOK, TypesOK'
  PROVE  /\ Work = Rest + Weight(reads) /\ Work' = Rest' + Weight(reads')
         /\ Len(wire) \in Nat /\ Len(writes) \in Nat /\ Len(bodies) \in Nat
         /\ Weight(reads) \in Nat
<1>1. /\ Len(wire) \in Nat /\ Len(writes) \in Nat /\ Len(bodies) \in Nat /\ Len(reads) \in Nat
      /\ reads \in Seq(ReadOp)
  BY DEF TypesOK, TypeOK
<1>2. /\ Len(wire') \in Nat /\ Len(writes') \in Nat /\ Len(bodies') \in Nat /\ Len(reads') \in Nat
      /\ reads' \in Seq(ReadOp)
  BY DEF TypesOK, TypeOK
<1>3. FixedReads = FixedIn(reads) /\ FixedReads' = FixedIn(reads')
  BY DEF FixedReads, FixedIn
<1>4. /\ Cardinality(FixedIn(reads)) \in Nat /\ Cardinality(FixedIn(reads')) \in Nat
      /\ Weight(reads) \in Nat
  BY <1>1, <1>2, WeightIsNat, FS_CardinalityType
<1>5. Work = Rest + Weight(reads)
  BY <1>1, <1>3, <1>4 DEF Work, Rest, Weight
<1>6. Work' = Rest' + Weight(reads')
  BY <1>2, <1>3, <1>4 DEF Work, Rest, Weight
<1> QED
  BY <1>1, <1>4, <1>5, <1>6

\* A task that ends begins to read a header, or nothing, or does harm.
LEMMA TaskEndWeighs ==
  ASSUME TypesOK, NEW rs, Weight(rs) \in Nat, Weight(Append(rs, HeaderRead)) = Weight(rs) + 1,
         NEW err, NEW h, TaskEnd(err, h, rs)
  PROVE  Weight(reads') <= Weight(rs) + 1 /\ Weight(reads') \in Nat
<1>1. reads' = rs \/ reads' = Append(rs, HeaderRead)
  BY DEF TaskEnd
<1>2. Weight(reads') = Weight(rs) \/ Weight(reads') = Weight(rs) + 1
  BY <1>1, Zenon
<1> QED
  BY <1>2

LEMMA WildStops ==
  ASSUME Wild \/ Down \/ lost' = TRUE
  PROVE  ~Running'
<1>1. CASE up' = FALSE
  BY <1>1, Zenon DEF Running
<1>2. CASE lost' = TRUE
  BY <1>2, Zenon DEF Running
<1> QED
  BY <1>1, <1>2 DEF Wild, Down

\* Until the next header is taken up.
LEMMA HandleWorksOff ==
  ASSUME TypesOK, NEW c \in AllCmds, NEW rs, ReadHandle(c, rs), ~Wild /\ ~Down,
         Weight(rs) \in Nat, Weight(Append(rs, HeaderRead)) = Weight(rs) + 1,
         Weight(Append(rs, [kind |-> "fixed", cmd |-> c])) = Weight(rs) + 3
  PROVE  /\ Weight(reads') \in Nat
         /\ \/ Len(writes') = Len(writes) /\ Weight(reads') <= Weight(rs) + 3
            \/ Len(writes') = Len(writes) + 1 /\ Weight(reads') <= Weight(rs) + 1
<1>1. Len(writes) \in Nat /\ writes \in Seq(AllCmds) /\ c # None
  BY SessionAssumption DEF TypesOK, TypeOK
<1>2. Len(Append(writes, c)) = Len(writes) + 1
  BY <1>1
<1>3. CASE StartAction(c, rs)
  <2>1. writes' = writes /\ (reads' = rs \/ reads' = Append(rs, [kind |-> "fixed", cmd |-> c]))
    BY <1>3 DEF StartAction
  <2>2. Weight(reads') = Weight(rs) \/ Weight(reads') = Weight(rs) + 3
    BY <2>1, Zenon
  <2> QED
    BY <2>1, <2>2
<1>4. CASE BadCommand(c, rs)
  BY <1>4 DEF BadCommand
<1>5. CASE GetList(c, rs)
  <2>1. writes' = Append(writes, c) /\ reads' = rs
    BY <1>5 DEF GetList, SetValue
  <2>2. Weight(reads') = Weight(rs)
    BY <2>1, Zenon
  <2> QED
    BY <1>2, <2>1, <2>2
<1>6. CASE GetFriendList(c, rs)
  <2>1. writes' = writes /\ \E err : TaskEnd(err, c, rs)
    BY <1>6 DEF GetFriendList
  <2>2. Weight(reads') <= Weight(rs) + 1 /\ Weight(reads') \in Nat
    BY <2>1, TaskEndWeighs
  <2> QED
    BY <1>2, <2>1, <2>2
<1>7. CASE GetMsg(c, rs)
  <2>1. writes' = Append(writes, c) /\ TaskEnd("ok", c, rs)
    BY <1>7 DEF GetMsg
  <2>2. Weight(reads') <= Weight(rs) + 1 /\ Weight(reads') \in Nat
    BY <2>1, TaskEndWeighs
  <2> QED
    BY <1>2, <2>1, <2>2
<1> QED
  BY <1>3, <1>4, <1>5, <1>6, <1>7 DEF ReadHandle

\* Every handler leaves less to do, or is the session's last.
LEMMA WorksOff ==
  ASSUME TypesOK, TypesOK', Handler, Running'
  PROVE  Work' < Work
<1>1. /\ Work = Rest + Weight(reads) /\ Work' = Rest' + Weight(reads')
      /\ Len(wire) \in Nat /\ Len(writes) \in Nat /\ Len(bodies) \in Nat
      /\ Weight(reads) \in Nat
  BY WorkIs
<1>2. PICK rs : rs = Tail(reads)
  OBVIOUS
<1>3. /\ Weight(Append(reads, HeaderRead)) = Weight(reads) + 1
      /\ reads # <<>> =>
           /\ Weight(rs) \in Nat /\ Weight(rs) = Weight(reads) - WeightOf(Head(reads))
           /\ Weight(Append(rs, HeaderRead)) = Weight(rs) + 1
           /\ \A c \in AllCmds :
                /\ Weight(Append(rs, [kind |-> "fixed", cmd |-> c])) = Weight(rs) + 3
                /\ Weight(Append(rs, [kind |-> "idpw", cmd |-> c])) = Weight(rs) + 1
  BY <1>2, WeightOfReads
<1>4. CanRead /\ wire' = Tail(wire) => Len(wire') = Len(wire) - 1 /\ Head(wire).cmd \in AllCmds
  BY HeadIsUnit DEF CanRead, TypesOK, TypeOK
<1>5. ~Wild /\ ~Down /\ lost' # TRUE
  BY WildStops
<1>6. CASE HeaderReadOk
  <2>1. /\ reads # <<>> /\ WeightOf(Head(reads)) = 1 /\ Len(wire') = Len(wire) - 1
        /\ Head(wire).cmd \in AllCmds /\ bodies' = bodies
    BY <1>4, <1>6 DEF HeaderReadOk, HeaderReading, WeightOf
  <2>2. CASE reads' = Append(rs, HeaderRead) /\ UNCHANGED writes
    <3>1. Weight(reads') = Weight(reads)
      BY <1>1, <1>3, <2>1, <2>2
    <3> QED
      BY <1>1, <2>1, <2>2, <3>1 DEF Rest
  <2>3. ASSUME NEW c \in AllCmds, ReadHandle(c, rs) PROVE Work' < Work
    <3>1. /\ Weight(rs) \in Nat /\ Weight(Append(rs, HeaderRead)) = Weight(rs) + 1
          /\ Weight(Append(rs, [kind |-> "fixed", cmd |-> c])) = Weight(rs) + 3
          /\ Weight(rs) = Weight(reads) - 1
      BY <1>3, <2>1
    <3>2. /\ Weight(reads') \in Nat
          /\ \/ Len(writes') = Len(writes) /\ Weight(reads') <= Weight(rs) + 3
             \/ Len(writes') = Len(writes) + 1 /\ Weight(reads') <= Weight(rs) + 1
      BY <1>5, <2>3, <3>1, HandleWorksOff, Zenon
    <3>3. /\ Len(writes') = Len(writes) => Rest' = Rest - 3
          /\ Len(writes') = Len(writes) + 1 => Rest' = Rest - 1
      BY <1>1, <2>1 DEF Rest
    <3>4. Rest \in Nat
      BY <1>1 DEF Rest
    <3>5. \/ Rest' = Rest - 3 /\ Weight(reads') <= Weight(reads) + 2
          \/ Rest' = Rest - 1 /\ Weight(reads') <= Weight(reads)
      BY <1>1, <3>1, <3>2, <3>3
    <3> QED
      BY <1>1, <3>2, <3>4, <3>5
  <2>4. \/ reads' = Append(rs, HeaderRead) /\ UNCHANGED writes
        \/ ReadHandle(IF head = None THEN Head(wire).cmd ELSE head, rs)
    BY <1>2, <1>5, <1>6 DEF HeaderReadOk, Garbled
  <2>5. (IF head = None THEN Head(wire).cmd ELSE head) \in AllCmds
    BY <2>1 DEF TypesOK, TypeOK
  <2> QED
    BY <2>2, <2>3, <2>4, <2>5
<1>7. CASE HeaderReadErr \/ IdPwReadErr
  <2>1. /\ reads # <<>> /\ WeightOf(Head(reads)) = 1 /\ reads' = rs
        /\ UNCHANGED <<wire, writes, bodies>>
    BY <1>2, <1>7 DEF HeaderReadErr, HeaderReading, IdPwReadErr, IdPwReading, WeightOf
  <2>2. Weight(reads') = Weight(reads) - 1
    BY <1>3, <2>1
  <2> QED
    BY <1>1, <2>1, <2>2 DEF Rest
<1>8. CASE FixedReadOk
  <2>1. /\ reads # <<>> /\ WeightOf(Head(reads)) = 3 /\ Len(wire') = Len(wire) - 1
        /\ Head(reads).cmd \in AllCmds /\ writes' = writes
    BY <1>4, <1>8, ReadsFit, CommandsAre DEF FixedReadOk, FixedReading, WeightOf, TypesOK
  <2>2. CASE reads' = Append(rs, [kind |-> "idpw", cmd |-> Head(reads).cmd]) /\ UNCHANGED bodies
    <3>1. Weight(reads') = Weight(rs) + 1 /\ Weight(rs) = Weight(reads) - 3 /\ Weight(rs) \in Nat
      <4>1. PICK q : q = Append(rs, [kind |-> "idpw", cmd |-> Head(reads).cmd])
        OBVIOUS
      <4>2. Weight(q) = Weight(rs) + 1 /\ reads' = q
        BY <1>3, <2>1, <2>2, <4>1, Zenon
      <4> QED
        BY <1>3, <2>1, <4>2
    <3>2. Rest' = Rest - 3 /\ Rest \in Nat
      BY <1>1, <2>1, <2>2 DEF Rest
    <3> QED
      BY <1>1, <3>1, <3>2
  <2>3. CASE reads' = rs /\ \E b : bodies' = Append(bodies, b)
    <3>1. Weight(reads') = Weight(reads) - 3
      BY <1>3, <2>1, <2>3
    <3>2. Len(bodies') = Len(bodies) + 1
      BY <2>3 DEF TypesOK, TypeOK
    <3> QED
      BY <1>1, <2>1, <3>1, <3>2 DEF Rest
  <2> QED
    BY <1>2, <1>5, <1>8, <2>2, <2>3 DEF FixedReadOk
<1>9. CASE FixedReadErr
  <2>1. /\ reads # <<>> /\ WeightOf(Head(reads)) = 3 /\ reads' = rs
        /\ UNCHANGED <<wire, writes>>
        /\ bodies' = bodies \/ \E b : bodies' = Append(bodies, b)
    BY <1>2, <1>9 DEF FixedReadErr, FixedReading, WeightOf
  <2>2. Weight(reads') = Weight(reads) - 3
    BY <1>3, <2>1
  <2>3. Len(bodies') \in {Len(bodies), Len(bodies) + 1}
    BY <2>1 DEF TypesOK, TypeOK
  <2> QED
    BY <1>1, <2>1, <2>2, <2>3 DEF Rest
<1>10. CASE IdPwReadOk
  <2>1. /\ reads # <<>> /\ WeightOf(Head(reads)) = 1 /\ Len(wire') = Len(wire) - 1
        /\ reads' = rs /\ bodies' = bodies /\ writes' = Append(writes, "ReqLog")
    BY <1>2, <1>4, <1>5, <1>10 DEF IdPwReadOk, IdPwReading, WeightOf
  <2>2. Weight(reads') = Weight(reads) - 1
    BY <1>3, <2>1
  <2>3. Len(writes') = Len(writes) + 1
    BY <2>1 DEF TypesOK, TypeOK
  <2> QED
    BY <1>1, <2>1, <2>2, <2>3 DEF Rest
<1>11. ASSUME NEW i \in 1 .. Len(bodies), BodyRead(i) PROVE Work' < Work
  <2>1. Len(wire') = Len(wire) - 1 /\ UNCHANGED <<reads, writes>>
    BY <1>4, <1>11 DEF BodyRead
  <2>2. Len(bodies') = Len(bodies)
    BY <1>11 DEF BodyRead, TypesOK, TypeOK
  <2>3. Weight(reads') = Weight(reads)
    BY <2>1
  <2> QED
    BY <1>1, <2>1, <2>2, <2>3 DEF Rest
<1>12. ASSUME NEW i \in 1 .. Len(bodies), BodyThrow(i) PROVE Work' < Work
  BY <1>5, <1>12 DEF BodyThrow
<1>13. ASSUME NEW i \in 1 .. Len(bodies), BodyEnd(i) PROVE Work' < Work
  <2>1. bodies' = Drop(bodies, i) /\ UNCHANGED <<wire, writes>> /\ TaskEnd(bodies[i].err, head, reads)
    BY <1>5, <1>13 DEF BodyEnd
  <2>2. Len(bodies') = Len(bodies) - 1
    <3>1. bodies \in Seq(Body)
      BY DEF TypesOK, TypeOK
    <3>2. /\ SubSeq(bodies, 1, i - 1) \in Seq(Body) /\ Len(SubSeq(bodies, 1, i - 1)) = i - 1
          /\ SubSeq(bodies, i + 1, Len(bodies)) \in Seq(Body)
          /\ Len(SubSeq(bodies, i + 1, Len(bodies))) = Len(bodies) - i
      BY <3>1, SubSeqProperties
    <3>3. PICK p \in Seq(Body), q \in Seq(Body) :
               bodies' = p \o q /\ Len(p) = i - 1 /\ Len(q) = Len(bodies) - i
      BY <2>1, <3>2 DEF Drop
    <3>4. Len(p \o q) = Len(p) + Len(q)
      OBVIOUS
    <3> QED
      BY <1>1, <3>3, <3>4
  <2>3. Weight(reads') <= Weight(reads) + 1 /\ Weight(reads') \in Nat
    BY <1>1, <1>3, <2>1, TaskEndWeighs
  <2> QED
    BY <1>1, <2>1, <2>2, <2>3 DEF Rest
<1>14. CASE WriteEnd
  <2>1. /\ writes # <<>> /\ writes' = Tail(writes) /\ UNCHANGED <<wire, bodies>>
        /\ \E err : TaskEnd(err, head, reads)
    BY <1>14 DEF WriteEnd
  <2>2. Len(writes') = Len(writes) - 1
    BY <2>1 DEF TypesOK, TypeOK
  <2>3. Weight(reads') <= Weight(reads) + 1 /\ Weight(reads') \in Nat
    BY <1>1, <1>3, <2>1, TaskEndWeighs
  <2> QED
    BY <1>1, <2>1, <2>2, <2>3 DEF Rest
<1> QED
  BY <1>6, <1>7, <1>8, <1>9, <1>10, <1>11, <1>12, <1>13, <1>14 DEF Handler

\* Whatever the clients send and when they go, after a GetMsg too: a handler leaves less to
\* do than it found, or it is the last.
THEOREM HandlersComeToAnEnd == Spec => HandlersRunOut
<1>1. TypesOK /\ [Next]_vars => [Handler => Work' < Work \/ ~Running']_vars
  BY TypesNext, WorksOff
<1> QED
  BY <1>1, AlwaysTypes, PTL DEF Spec, HandlersRunOut


-----------------------------------------------------------------------------
(***************************************************************************)
(* The life of a session, as Server has it.                                *)
(***************************************************************************)

\* A process that has ended has ended.
LEMMA DownStays ==
  ASSUME ~up, [Next]_vars
  PROVE  ~up'
<1>1. CASE Client
  BY <1>1 DEF Client, Ask, Send, Leave, server
<1>2. ~Handler
  BY DEF Running, Handler, HeaderReadOk, HeaderReadErr, HeaderReading, FixedReadOk, FixedReadErr,
         FixedReading, IdPwReadOk, IdPwReadErr, IdPwReading, BodyRead, BodyThrow, BodyEnd, WriteEnd
<1>3. CASE UNCHANGED vars
  BY <1>3 DEF vars, server
<1> QED
  BY <1>1, <1>2, <1>3 DEF Next

\* What the stage is, for a session that is sound.
LEMMA StageIs ==
  /\ ~up => Stage = "down"
  /\ up /\ ~Sound => Stage = "astray"
  /\ Sound => /\ Stage \in {"reading", "over", "waiting"}
              /\ Stage = "reading" <=> \E i \in 1 .. Len(bodies) : bodies[i].left > 0
              /\ Stage = "over" => Nothing
              /\ Nothing => Stage = "over"
<1>1. ASSUME Nothing PROVE Len(bodies) = 0
  BY <1>1 DEF Nothing
<1>2. Sound => up
  BY DEF Sound, Running
<1> QED
  BY <1>1, <1>2 DEF Stage, Nothing

\* The handler that reads a body is the only one, and it reads on or its exception ends
\* the process: what it reads is the body of its request.
LEMMA FromReading ==
  ASSUME TypesOK, Sound, Aligned, Handler, Stage = "reading"
  PROVE  ~up' \/ (Sound' /\ ~Nothing')
<1>1. PICK i \in 1 .. Len(bodies) : bodies[i].left > 0
  BY StageIs
<1>2. AtBody
  BY <1>1, WhereReading DEF Aligned
<1>3. reads = <<>> /\ writes = <<>> /\ Len(bodies) = 1
  BY <1>2 DEF AtBody
<1>4. PICK j \in 1 .. Len(bodies) : BodyRead(j) \/ BodyThrow(j) \/ BodyEnd(j)
  BY <1>3 DEF Handler, HeaderReadOk, HeaderReadErr, HeaderReading, FixedReadOk, FixedReadErr,
     FixedReading, IdPwReadOk, IdPwReadErr, IdPwReading, WriteEnd
<1>5. i = 1 /\ j = 1
  BY <1>3, <1>4
<1>6. CASE BodyThrow(j)
  <2>1. up' = FALSE
    BY <1>6 DEF BodyThrow, Down
  <2> QED
    BY <2>1, Zenon
<1>7. CASE BodyRead(j)
  <2>1. UNCHANGED <<up, lost, doubled>>
    BY <1>7, KeptByBodyRead DEF BodyRead
  <2>2. PICK b, d : bodies = <<b>> /\ bodies' = [bodies EXCEPT ![1] = d]
    BY <1>2, <1>5, <1>7 DEF AtBody, BodyRead
  <2>3. bodies' = <<d>>
    BY <2>2
  <2> QED
    BY <2>1, <2>3 DEF Nothing, Sound, Running
<1>8. CASE BodyEnd(j)
  BY <1>1, <1>5, <1>8 DEF BodyEnd
<1> QED
  BY <1>4, <1>6, <1>7, <1>8

\* A session without a handler is left as it is.
LEMMA FromOver ==
  ASSUME Nothing
  PROVE  ~Handler
BY DEF Nothing, Handler, HeaderReadOk, HeaderReadErr, HeaderReading, FixedReadOk, FixedReadErr,
   FixedReading, IdPwReadOk, IdPwReadErr, IdPwReading, WriteEnd

LEMMA StageStill ==
  ASSUME UNCHANGED server, UNCHANGED doubled
  PROVE  UNCHANGED Stage
BY DEF server, Stage, Sound, Running

LEMMA StepOfLife ==
  ASSUME IInv, [Next]_vars
  PROVE  [Life!Next]_Stage
<1> USE DEF Life!Next, Life!Begin, Life!Read, Life!ReadEnd, Life!Close, Life!Stray, Life!GoDown,
            Life!Move
<1>1. CASE ~up
  BY <1>1, DownStays, StageIs DEF Stage
<1>2. CASE ~up'
  <2>1. Stage' = "down"
    BY <1>2 DEF Stage
  <2> QED
    BY <2>1
<1>3. CASE up /\ up' /\ ~Sound
  <2>1. ~Sound'
    BY <1>3, UnsoundStays DEF IInv
  <2>2. Stage = "astray" /\ Stage' = "astray"
    BY <1>3, <2>1 DEF Stage
  <2> QED
    BY <2>2
<1>4. CASE Sound /\ up' /\ (Client \/ UNCHANGED vars)
  <2>1. UNCHANGED server /\ UNCHANGED doubled
    BY <1>4 DEF Client, Ask, Send, Leave, vars
  <2> QED
    BY <2>1, StageStill
<1>5. CASE Sound /\ up' /\ Handler
  <2>1. Stage' \in {"astray", "reading", "over", "waiting"}
    BY <1>5 DEF Stage
  <2>2. CASE Stage = "waiting"
    BY <2>1, <2>2
  <2>3. CASE Stage = "reading"
    <3>1. Stage' \in {"reading", "waiting"}
      BY <1>5, <2>3, FromReading DEF IInv, Stage, Nothing
    <3> QED
      BY <2>3, <3>1
  <2>4. CASE Stage = "over"
    BY <1>5, <2>4, StageIs, FromOver
  <2> QED
    BY <1>5, <2>2, <2>3, <2>4, StageIs
<1> QED
  BY <1>1, <1>2, <1>3, <1>4, <1>5 DEF Next, Sound, Running

\* LivesOnOrGoesDown, which Server takes for granted of its sessions: once a handler
\* reads a body, the session comes back to its chain or the process ends, and when it
\* has no handler left it never has one again.
THEOREM SessionLivesAsServerHasIt == Spec => LivesOnOrGoesDown
<1>1. Init => Life!Init
  BY DEF Init, Life!Init, Stage, Sound, Running
<1>2. IInv /\ [Next]_vars => [Life!Next]_Stage
  BY StepOfLife
<1> QED
  BY <1>1, <1>2, Invariant, PTL DEF Spec, LivesOnOrGoesDown, Life!Spec
=============================================================================
