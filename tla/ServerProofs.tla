---------------------------- MODULE ServerProofs -----------------------------
(***************************************************************************)
(* Theorems about Server, for any number of threads, of sessions and of    *)
(* handlers queued.                                                        *)
(***************************************************************************)
EXTENDS Server, TLAPS, FiniteSetTheorems, SequenceTheorems

Doing == Posted \cup Busy \cup {Idle}

LEMMA HandlersAreRecords ==
  ASSUME NEW x \in Doing
  PROVE  /\ x = Handler(x.h, x.s, x.ok) /\ x.s \in Sessions \cup {0} /\ x.ok \in BOOLEAN
         /\ \A k : [x EXCEPT !.h = k] = Handler(k, x.s, x.ok)
<1>1. CASE x \in Posted
  BY <1>1 DEF Posted, Handler
<1>2. CASE x \in Busy
  BY <1>2 DEF Busy, Handler
<1>3. CASE x = Idle
  <2>1. PICK ok \in BOOLEAN : ok = TRUE
    OBVIOUS
  <2>2. x = [h |-> "idle", s |-> 0, ok |-> ok]
    BY <1>3, <2>1, Zenon DEF Idle, Handler
  <2> HIDE <2>1
  <2> QED
    BY <2>2 DEF Handler
<1> QED
  BY <1>1, <1>2, <1>3 DEF Doing

LEMMA Fields ==
  ASSUME NEW h, NEW s, NEW ok
  PROVE  Handler(h, s, ok).h = h /\ Handler(h, s, ok).s = s /\ Handler(h, s, ok).ok = ok
BY DEF Handler

LEMMA HandlersFit ==
  ASSUME NEW ok \in BOOLEAN
  PROVE  /\ Posted \subseteq Doing /\ Idle \in Doing /\ Idle.h = "idle"
         /\ \A h \in {"server_run", "accept", "run", "serve", "check"}, s \in Sessions \cup {0} :
              Handler(h, s, ok) \in Posted /\ Handler(h, s, ok) \in Doing
         /\ \A h \in {"post", "arm", "wait"}, s \in Sessions : Handler(h, s, ok) \in Doing
<1>1. Posted \subseteq Doing /\ Busy \subseteq Doing /\ Idle \in Doing
  BY DEF Doing
<1>2. \A h \in {"server_run", "accept", "run", "serve", "check"}, s \in Sessions \cup {0} :
        Handler(h, s, ok) \in Posted
  BY DEF Posted, Handler
<1>3. \A h \in {"post", "arm", "wait"}, s \in Sessions : Handler(h, s, ok) \in Busy
  BY DEF Busy, Handler
<1>4. Idle.h = "idle"
  BY Zenon DEF Idle, Handler
<1> QED
  BY <1>1, <1>2, <1>3, <1>4

-----------------------------------------------------------------------------
(***************************************************************************)
(* Handlers of some kinds, for some sessions, by their places.             *)
(***************************************************************************)
All == Sessions \cup {0}

QueuedFor(H, S)  == {i \in 1 .. Len(queue) : queue[i].h \in H /\ queue[i].s \in S}
RunningFor(H, S) == {t \in Threads : at[t].h \in H /\ at[t].s \in S}

LEMMA ForAll ==
  ASSUME TypeOK, NEW H
  PROVE  Queued(H) = QueuedFor(H, All) /\ Running(H) = RunningFor(H, All)
<1>1. \A i \in 1 .. Len(queue) : queue[i] \in Posted
  BY DEF TypeOK
<1>2. \A i \in 1 .. Len(queue) : queue[i].s \in All
  BY <1>1, HandlersAreRecords DEF All, Doing
<1>3. \A t \in Threads : at[t].s \in All
  BY HandlersAreRecords DEF All, TypeOK, Doing
<1> QED
  BY <1>2, <1>3 DEF Queued, QueuedFor, Running, RunningFor

\* A handler is queued, is the first and leaves, or is another for a thread.
LEMMA QueueAppend ==
  ASSUME queue \in Seq(Posted), NEW x \in Posted, queue' = Append(queue, x), NEW H, NEW S
  PROVE  /\ queue' \in Seq(Posted) /\ Len(queue) \in Nat
         /\ queue'[Len(queue) + 1] = x /\ \A i \in 1 .. Len(queue) : queue'[i] = queue[i]
         /\ QueuedFor(H, S)' = IF x.h \in H /\ x.s \in S THEN QueuedFor(H, S) \cup {Len(queue) + 1}
                                                         ELSE QueuedFor(H, S)
<1>1. /\ Len(queue) \in Nat /\ Len(queue') = Len(queue) + 1 /\ queue' \in Seq(Posted)
      /\ queue'[Len(queue) + 1] = x /\ \A i \in 1 .. Len(queue) : queue'[i] = queue[i]
  OBVIOUS
<1>2. 1 .. Len(queue') = (1 .. Len(queue)) \cup {Len(queue) + 1}
  BY <1>1
<1> QED
  BY <1>1, <1>2 DEF QueuedFor

LEMMA QueueTail ==
  ASSUME queue \in Seq(Posted), queue # <<>>, queue' = Tail(queue), NEW H, NEW S
  PROVE  /\ queue' \in Seq(Posted) /\ Head(queue) = queue[1] /\ queue[1] \in Posted
         /\ \A i \in Nat : i \in QueuedFor(H, S)' <=> i >= 1 /\ i + 1 \in QueuedFor(H, S)
         /\ 1 \in QueuedFor(H, S) <=> queue[1].h \in H /\ queue[1].s \in S
<1>1. /\ Len(queue) \in Nat /\ Len(queue) >= 1 /\ Len(queue') = Len(queue) - 1
      /\ queue' \in Seq(Posted) /\ Head(queue) = queue[1] /\ queue[1] \in Posted
      /\ \A i \in 1 .. Len(queue') : queue'[i] = queue[i + 1]
  OBVIOUS
<1>2. \A i \in Nat : i \in 1 .. Len(queue') <=> i >= 1 /\ i + 1 \in 1 .. Len(queue)
  BY <1>1
<1> QED
  BY <1>1, <1>2 DEF QueuedFor

LEMMA QueueTailOne ==
  ASSUME queue \in Seq(Posted), queue # <<>>, queue' = Tail(queue), NEW H, NEW S
  PROVE  /\ QueuedFor(H, S) = {} => QueuedFor(H, S)' = {}
         /\ QueuedFor(H, S) = {1} => QueuedFor(H, S)' = {}
         /\ \A i : QueuedFor(H, S) = {i} /\ i # 1 => QueuedFor(H, S)' = {i - 1}
<1>1. \A i \in Nat : i \in QueuedFor(H, S)' <=> i >= 1 /\ i + 1 \in QueuedFor(H, S)
  BY QueueTail
<1>2. QueuedFor(H, S) \subseteq Nat \ {0} /\ QueuedFor(H, S)' \subseteq Nat \ {0}
  BY DEF QueuedFor
<1>3. QueuedFor(H, S) = {} => QueuedFor(H, S)' = {}
  BY <1>1, <1>2
<1>4. QueuedFor(H, S) = {1} => QueuedFor(H, S)' = {}
  BY <1>1, <1>2
<1>5. ASSUME NEW i, QueuedFor(H, S) = {i}, i # 1 PROVE QueuedFor(H, S)' = {i - 1}
  <2>1. i \in Nat /\ i > 1 /\ i - 1 \in Nat /\ (i - 1) + 1 = i
    BY <1>2, <1>5
  <2>2. i - 1 \in QueuedFor(H, S)'
    BY <1>1, <1>5, <2>1
  <2>3. \A j \in QueuedFor(H, S)' : j = i - 1
    BY <1>1, <1>2, <1>5, <2>1
  <2> QED
    BY <2>2, <2>3
<1> QED
  BY <1>3, <1>4, <1>5

LEMMA RunSet ==
  ASSUME TypeOK, NEW t \in Threads, NEW x, Set(t, x), NEW H, NEW S
  PROVE  /\ RunningFor(H, S)' = IF x.h \in H /\ x.s \in S THEN RunningFor(H, S) \cup {t}
                                                         ELSE RunningFor(H, S) \ {t}
         /\ t \in RunningFor(H, S) <=> at[t].h \in H /\ at[t].s \in S
         /\ \A u \in Threads : at'[u] = IF u = t THEN x ELSE at[u]
<1>1. \A u \in Threads : at'[u] = IF u = t THEN x ELSE at[u]
  BY DEF Set, TypeOK
<1> QED
  BY <1>1 DEF RunningFor

LEMMA Still ==
  ASSUME NEW H, NEW S
  PROVE  /\ UNCHANGED queue => QueuedFor(H, S)' = QueuedFor(H, S)
         /\ UNCHANGED at => RunningFor(H, S)' = RunningFor(H, S)
BY DEF QueuedFor, RunningFor

-----------------------------------------------------------------------------
(***************************************************************************)
(* The inductive invariant.                                                *)
(***************************************************************************)

\* A handler of a session is of one that was made.
HandlerOK(x) == x.h \notin {"idle", "server_run"} => x.s \in 1 .. made

HandlersOK ==
  /\ \A i \in 1 .. Len(queue) : HandlerOK(queue[i])
  /\ \A t \in Threads : HandlerOK(at[t])

\* What leads to the next accept is in one place, and says how many sessions of those
\* made are in the pool.
AcceptQueued  == QueuedFor({"server_run", "accept"}, All)
AcceptRunning == RunningFor({"server_run", "accept", "post", "arm"}, All)

InPoolBut(n) == made = Len(pool) + n
ButOne(h) == IF h = "accept" THEN 1 ELSE 0

Waiting == /\ \E s \in 1 .. made : armed = {s}
           /\ AcceptQueued = {} /\ AcceptRunning = {} /\ InPoolBut(1)
Coming  == /\ armed = {} /\ AcceptRunning = {} /\ made < MaxSessions
           /\ \E i \in 1 .. Len(queue) : AcceptQueued = {i} /\ InPoolBut(ButOne(queue[i].h))
Accepting == /\ armed = {} /\ AcceptQueued = {} /\ made < MaxSessions
             /\ \E t \in Threads : AcceptRunning = {t} /\ InPoolBut(ButOne(at[t].h))

ChainOK == Waiting \/ Coming \/ Accepting

\* A session that was made is still to be accepted, and then nothing goes on for it,
\* or in the pool once, and one handler at most goes on with it.
Goes  == {"post", "run", "serve", "wait"}
Comes == {"accept"}

Places(s) == {i \in 1 .. Len(pool) : pool[i] = s}

Quiet(s) == QueuedFor(Goes, {s}) = {} /\ RunningFor(Goes, {s}) = {} /\ s \notin reading
One(s) ==
  \/ Quiet(s)
  \/ s \notin reading /\ RunningFor(Goes, {s}) = {} /\ \E i : QueuedFor(Goes, {s}) = {i}
  \/ s \notin reading /\ QueuedFor(Goes, {s}) = {} /\ \E t : RunningFor(Goes, {s}) = {t}
  \/ s \in reading /\ QueuedFor(Goes, {s}) = {} /\ RunningFor(Goes, {s}) = {}

Awaited(s) ==
  \/ s \in armed
  \/ QueuedFor(Comes, {s}) # {}
  \/ RunningFor(Comes, {s}) # {}

SessionOK(s) ==
  \/ Awaited(s) /\ Places(s) = {} /\ Quiet(s)
  \/ ~Awaited(s) /\ (\E i : Places(s) = {i}) /\ One(s)

IInv == TypeOK /\ HandlersOK /\ ChainOK /\ \A s \in 1 .. made : SessionOK(s)

LEMMA InvInit == Init => IInv
<1> SUFFICES ASSUME Init PROVE IInv
  OBVIOUS
<1>0. MaxSessions \in Nat \ {0} /\ Sessions = 1 .. MaxSessions
  BY ServerAssumption DEF Sessions
<1>1. /\ made = 0 /\ armed = {} /\ pool = <<>> /\ Len(pool) = 0 /\ reading = {}
      /\ sweeping \subseteq Sweepers /\ iter = [w \in Sweepers |-> 1]
      /\ queue = <<Handler("server_run", 0, TRUE)>> /\ at = [t \in Threads |-> Idle]
  BY DEF Init, Sweepers
<1>2. up \in BOOLEAN
  BY Zenon DEF Init
<1>3. Idle \in Doing /\ Idle.h = "idle"
  BY HandlersFit
<1>4. /\ queue \in Seq(Posted) /\ Len(queue) = 1
      /\ queue[1].h = "server_run" /\ queue[1].s = 0
  <2>1. PICK yes \in BOOLEAN : yes = TRUE
    OBVIOUS
  <2>x. PICK x : x = Handler("server_run", 0, yes)
    OBVIOUS
  <2>3. queue = <<x>>
    BY <1>1, <2>1, <2>x, Zenon
  <2>2. x \in Posted /\ x.h = "server_run" /\ x.s = 0
    BY <2>x, HandlersFit, Fields
  <2> HIDE <2>1
  <2> QED
    BY <2>2, <2>3
<1>5. iter \in [Sweepers -> 1 .. MaxSessions + 1] /\ at \in [Threads -> Doing]
  BY <1>0, <1>1, <1>3
<1>6. TypeOK
  <2>1. made \in 0 .. MaxSessions /\ armed \subseteq 1 .. made /\ pool \in Seq(1 .. made)
        /\ reading \subseteq 1 .. made
    BY <1>0, <1>1
  <2>2. queue \in Seq(Posted) /\ sweeping \subseteq Sweepers
    BY <1>1, <1>4
  <2> QED
    BY <1>2, <1>5, <2>1, <2>2 DEF TypeOK, Doing
<1>7. HandlersOK
  <2>1. \A i \in 1 .. Len(queue) : queue[i].h = "server_run"
    BY <1>4
  <2>2. \A t \in Threads : at[t].h = "idle"
    BY <1>1, <1>3
  <2> QED
    BY <2>1, <2>2 DEF HandlersOK, HandlerOK
<1>8. AcceptRunning = {}
  BY <1>1, <1>3 DEF AcceptRunning, RunningFor
<1>9. AcceptQueued = {1}
  BY <1>4 DEF AcceptQueued, QueuedFor, All
<1>10. ChainOK
  <2>1. 1 \in 1 .. Len(queue) /\ made < MaxSessions /\ made = Len(pool) + 0
    BY <1>0, <1>1, <1>4
  <2> QED
    BY <1>1, <1>4, <1>8, <1>9, <2>1 DEF ChainOK, Coming, InPoolBut, ButOne
<1> QED
  BY <1>1, <1>6, <1>7, <1>10 DEF IInv

\* A thread that is in one of the handlers that lead to the next accept is the one;
\* then no session is awaited but the one it is about.
LEMMA TheAccept ==
  ASSUME IInv, NEW t \in Threads, at[t].h \in {"server_run", "accept", "post", "arm"}
  PROVE  /\ AcceptRunning = {t} /\ AcceptQueued = {} /\ armed = {} /\ made < MaxSessions
         /\ InPoolBut(ButOne(at[t].h))
<1>1. at[t].s \in All
  BY HandlersAreRecords DEF All, Doing, IInv, TypeOK
<1>2. t \in AcceptRunning
  BY <1>1 DEF AcceptRunning, RunningFor
<1> QED
  BY <1>2 DEF IInv, ChainOK, Waiting, Coming, Accepting

LEMMA PoolFits == IInv => Len(pool) \in Nat /\ Len(pool) <= made /\ made <= MaxSessions
BY ServerAssumption DEF IInv, ChainOK, Waiting, Coming, Accepting, InPoolBut, ButOne, TypeOK

LEMMA TypeNext == IInv /\ [Next]_vars => TypeOK' /\ HandlersOK'
<1> SUFFICES ASSUME IInv, [Next]_vars PROVE TypeOK' /\ HandlersOK'
  OBVIOUS
<1>a. /\ TypeOK /\ HandlersOK /\ MaxSessions \in Nat \ {0} /\ Sessions = 1 .. MaxSessions
      /\ queue \in Seq(Posted) /\ Len(queue) \in Nat /\ made \in Nat /\ made <= MaxSessions
  BY ServerAssumption DEF IInv, TypeOK, Sessions
<1>b. /\ \A t \in Threads : at[t] \in Doing
      /\ at \in [Threads -> Doing]
  BY <1>a DEF TypeOK, Doing
<1>t. PICK yes \in BOOLEAN : yes = TRUE
  OBVIOUS
\* A thread goes on to another handler; a handler is queued.
<1>c. ASSUME NEW t \in Threads, NEW x \in Doing, Set(t, x), HandlerOK(x)'
      PROVE  at' \in [Threads -> Doing] /\ (made' >= made /\ made' \in Nat => \A u \in Threads : HandlerOK(at[u])')
  BY <1>a, <1>b, <1>c DEF Set, HandlersOK, HandlerOK
<1>d. ASSUME NEW x \in Posted, queue' = Append(queue, x), HandlerOK(x), made' = made
      PROVE  queue' \in Seq(Posted) /\ \A i \in 1 .. Len(queue') : HandlerOK(queue[i])'
  BY <1>a, <1>d DEF HandlersOK, HandlerOK
<1>e. UNCHANGED queue /\ made' >= made /\ made' \in Nat => \A i \in 1 .. Len(queue') : HandlerOK(queue[i])'
  BY <1>a DEF HandlersOK, HandlerOK
<1>f. UNCHANGED <<at, made>> => \A t \in Threads : HandlerOK(at[t])'
  BY <1>a DEF HandlersOK, HandlerOK
<1>g. \A t \in Threads : at[t].h \notin {"idle", "server_run"} => at[t].s \in 1 .. made /\ at[t].s \in Sessions
  BY <1>a DEF HandlersOK, HandlerOK
<1>h. HandlerOK(Idle)' /\ Idle \in Doing
  BY HandlersFit DEF HandlerOK
<1>1. ASSUME NEW s \in Sessions, NEW ok \in BOOLEAN, Accepted(s, ok) PROVE TypeOK' /\ HandlersOK'
  <2>1. s \in 1 .. made /\ queue' = Append(queue, Handler("accept", s, ok)) /\ UNCHANGED <<made, at>>
    BY <1>1, <1>a DEF Accepted, TypeOK
  <2>2. Handler("accept", s, ok) \in Posted /\ HandlerOK(Handler("accept", s, ok))
    BY <2>1, HandlersFit, Fields DEF HandlerOK
  <2>3. queue' \in Seq(Posted) /\ HandlersOK'
    BY <1>d, <1>f, <2>1, <2>2 DEF HandlersOK
  <2> QED
    BY <1>1, <1>a, <2>3 DEF Accepted, TypeOK
<1>2. ASSUME NEW s \in Sessions, Arrived(s) PROVE TypeOK' /\ HandlersOK'
  <2>1. s \in 1 .. made /\ queue' = Append(queue, Handler("serve", s, yes)) /\ UNCHANGED <<made, at>>
    BY <1>2, <1>a, <1>t DEF Arrived, TypeOK
  <2>2. Handler("serve", s, yes) \in Posted /\ HandlerOK(Handler("serve", s, yes))
    BY <2>1, HandlersFit, Fields DEF HandlerOK
  <2>3. queue' \in Seq(Posted) /\ HandlersOK'
    BY <1>d, <1>f, <2>1, <2>2 DEF HandlersOK
  <2> QED
    BY <1>2, <1>a, <2>3 DEF Arrived, TypeOK
<1>3. CASE Check \/ Exit
  <2>1. up' \in BOOLEAN
    BY <1>3, <1>a, Zenon DEF Check, Exit, TypeOK
  <2>2. sweeping' \subseteq Sweepers /\ UNCHANGED <<iter, made, armed, pool, queue, at, reading>>
    BY <1>3, <1>a DEF Check, Exit, TypeOK, Sweepers
  <2> QED
    BY <1>a, <1>e, <1>f, <2>1, <2>2 DEF TypeOK, HandlersOK
<1>4. ASSUME NEW t \in Threads, Start(t) PROVE TypeOK' /\ HandlersOK'
  <2>1. /\ queue' \in Seq(Posted) /\ Head(queue) \in Posted /\ Head(queue) = queue[1] /\ made' = made
        /\ Len(queue') = Len(queue) - 1 /\ 1 \in 1 .. Len(queue)
        /\ \A i \in 1 .. Len(queue') : queue'[i] = queue[i + 1] /\ i + 1 \in 1 .. Len(queue)
    BY <1>4, <1>a DEF Start
  <2>2. \A i \in 1 .. Len(queue') : HandlerOK(queue[i])'
    BY <1>a, <2>1 DEF HandlersOK, HandlerOK
  <2>x. PICK x : x = queue[1]
    OBVIOUS
  <2>3. x \in Doing /\ Set(t, x) /\ HandlerOK(x)'
    BY <1>4, <1>a, <2>1, <2>x, HandlersFit DEF Start, HandlersOK, HandlerOK
  <2>4. at' \in [Threads -> Doing] /\ HandlersOK'
    BY <1>a, <1>c, <2>1, <2>2, <2>3 DEF HandlersOK
  <2> QED
    BY <1>4, <1>a, <2>1, <2>4 DEF Start, TypeOK, Doing
<1>5. ASSUME NEW t \in Threads, PushSession(t) PROVE TypeOK' /\ HandlersOK'
  <2>1. /\ at[t].s \in 1 .. made /\ at[t].s \in Sessions /\ made' = made /\ queue' = queue
        /\ Set(t, Handler("post", at[t].s, at[t].ok)) /\ at[t].ok \in BOOLEAN
    BY <1>5, <1>b, <1>g, HandlersAreRecords DEF PushSession, Runs
  <2>x. PICK x : x = Handler("post", at[t].s, at[t].ok)
    OBVIOUS
  <2>2. /\ x \in Doing
        /\ HandlerOK(x)'
    BY <2>1, <2>x, HandlersFit, Fields DEF HandlerOK
  <2>3. at' \in [Threads -> Doing] /\ HandlersOK'
    BY <1>a, <1>c, <1>e, <2>1, <2>x, <2>2 DEF HandlersOK
  <2>4. pool' \in Seq(1 .. made')
    BY <1>5, <1>a, <2>1 DEF PushSession, TypeOK
  <2> QED
    BY <1>5, <1>a, <2>3, <2>4 DEF PushSession, TypeOK, Doing
<1>6. ASSUME NEW t \in Threads, PostRun(t) PROVE TypeOK' /\ HandlersOK'
  <2>1. /\ at[t].s \in 1 .. made /\ at[t].s \in Sessions /\ made' = made
        /\ Set(t, Handler("arm", at[t].s, at[t].ok)) /\ at[t].ok \in BOOLEAN
        /\ queue' = Append(queue, Handler("run", at[t].s, at[t].ok))
    BY <1>6, <1>b, <1>g, HandlersAreRecords DEF PostRun, Runs
  <2>x. PICK x : x = Handler("arm", at[t].s, at[t].ok)
    OBVIOUS
  <2>2. /\ x \in Doing
        /\ HandlerOK(x)'
        /\ Handler("run", at[t].s, at[t].ok) \in Posted
        /\ HandlerOK(Handler("run", at[t].s, at[t].ok))
    BY <2>1, <2>x, HandlersFit, Fields DEF HandlerOK
  <2>3. at' \in [Threads -> Doing] /\ queue' \in Seq(Posted) /\ HandlersOK'
    BY <1>a, <1>c, <1>d, <2>1, <2>x, <2>2 DEF HandlersOK
  <2> QED
    BY <1>6, <1>a, <2>3 DEF PostRun, TypeOK, Doing
<1>7. ASSUME NEW t \in Threads, ServerRun(t) PROVE TypeOK' /\ HandlersOK'
  <2>1. made < MaxSessions
    BY <1>7, TheAccept DEF ServerRun, Runs
  <2>2. made' = made + 1 /\ made' \in 0 .. MaxSessions /\ armed' \subseteq 1 .. made'
    BY <1>7, <1>a, <2>1 DEF ServerRun, TypeOK
  <2>3. 1 .. made \subseteq 1 .. made'
    BY <1>a, <2>2
  <2>4. pool' \in Seq(1 .. made') /\ reading' \subseteq 1 .. made'
    BY <1>7, <1>a, <2>3 DEF ServerRun, TypeOK
  <2>5. at' \in [Threads -> Doing] /\ HandlersOK'
    BY <1>7, <1>a, <1>c, <1>e, <1>h, <2>2 DEF ServerRun, HandlersOK
  <2> QED
    BY <1>7, <1>a, <2>2, <2>4, <2>5 DEF ServerRun, TypeOK, Doing
<1>8. ASSUME NEW t \in Threads, Run(t) \/ ServeEnd(t) PROVE TypeOK' /\ HandlersOK'
  <2>1. /\ at[t].s \in 1 .. made /\ UNCHANGED <<up, sweeping, iter, made, armed, pool, queue>>
        /\ Set(t, Idle) /\ reading' \in {reading, reading \cup {at[t].s}}
    BY <1>8, <1>g DEF Run, ServeEnd, Runs
  <2>2. at' \in [Threads -> Doing] /\ HandlersOK'
    BY <1>a, <1>c, <1>e, <1>h, <2>1 DEF HandlersOK
  <2> QED
    BY <1>a, <2>1, <2>2 DEF TypeOK, Doing
<1>9. ASSUME NEW t \in Threads, ServeWait(t) PROVE TypeOK' /\ HandlersOK'
  <2>1. /\ at[t].s \in 1 .. made /\ at[t].s \in Sessions /\ at[t].ok \in BOOLEAN
        /\ Set(t, Handler("wait", at[t].s, at[t].ok)) /\ made' = made /\ queue' = queue
    BY <1>9, <1>b, <1>g, HandlersAreRecords DEF ServeWait, Runs
  <2>x. PICK x : x = Handler("wait", at[t].s, at[t].ok)
    OBVIOUS
  <2>2. /\ x \in Doing
        /\ HandlerOK(x)'
    BY <2>1, <2>x, HandlersFit, Fields DEF HandlerOK
  <2>3. at' \in [Threads -> Doing] /\ HandlersOK'
    BY <1>a, <1>c, <1>e, <2>1, <2>x, <2>2 DEF HandlersOK
  <2> QED
    BY <1>9, <1>a, <2>3 DEF ServeWait, TypeOK, Doing
<1>10. ASSUME NEW t \in Threads, WaitEnd(t) PROVE TypeOK' /\ HandlersOK'
  <2>1. UNCHANGED <<sweeping, iter, made, armed, pool, queue>>
    BY <1>10 DEF WaitEnd
  <2>2. CASE reading' = reading \cup {at[t].s} /\ Set(t, Idle) /\ UNCHANGED up
    <3>1. at' \in [Threads -> Doing] /\ HandlersOK'
      BY <1>a, <1>c, <1>e, <1>h, <2>1, <2>2 DEF HandlersOK
    <3>2. at[t].s \in 1 .. made
      BY <1>10, <1>g DEF WaitEnd, Runs
    <3> QED
      BY <1>a, <2>1, <2>2, <3>1, <3>2 DEF TypeOK, Doing
  <2>3. CASE up' = FALSE /\ UNCHANGED <<at, reading>>
    <3>1. up' \in BOOLEAN
      BY <2>3, Zenon
    <3> QED
      BY <1>a, <1>e, <1>f, <2>1, <2>3, <3>1 DEF TypeOK, HandlersOK
  <2> QED
    BY <1>10, <2>2, <2>3 DEF WaitEnd
<1>11. ASSUME NEW t \in Threads, CheckMailBox(t) PROVE TypeOK' /\ HandlersOK'
  <2>1. at' \in [Threads -> Doing] /\ HandlersOK'
    BY <1>11, <1>a, <1>c, <1>e, <1>h DEF CheckMailBox, HandlersOK
  <2> QED
    BY <1>11, <1>a, <2>1 DEF CheckMailBox, TypeOK, Doing
<1>12. ASSUME NEW w \in Sweepers, Sweep(w) PROVE TypeOK' /\ HandlersOK'
  <2>0. PICK i : i = IF iter[w] <= Len(pool) THEN iter[w] ELSE 1
    OBVIOUS
  <2>1. /\ queue' = Append(queue, Handler("check", pool[i], yes)) /\ iter' = [iter EXCEPT ![w] = i + 1]
        /\ pool # <<>> /\ UNCHANGED <<up, sweeping, made, armed, pool, at, reading>>
    BY <1>12, <1>t, <2>0 DEF Sweep
  <2>2. i \in 1 .. Len(pool) /\ Len(pool) \in Nat /\ Len(pool) <= MaxSessions
    BY <1>a, <2>0, <2>1, PoolFits DEF TypeOK
  <2>3. pool[i] \in 1 .. made /\ pool[i] \in Sessions /\ i + 1 \in 1 .. MaxSessions + 1
    BY <1>a, <2>2 DEF TypeOK
  <2>4. Handler("check", pool[i], yes) \in Posted /\ HandlerOK(Handler("check", pool[i], yes))
    BY <2>3, HandlersFit, Fields DEF HandlerOK
  <2>5. queue' \in Seq(Posted) /\ HandlersOK'
    BY <1>d, <1>f, <2>1, <2>4 DEF HandlersOK
  <2>6. iter' \in [Sweepers -> 1 .. MaxSessions + 1]
    BY <1>a, <2>1, <2>3 DEF TypeOK
  <2> QED
    BY <1>a, <2>1, <2>5, <2>6 DEF TypeOK
<1>13. CASE UNCHANGED vars
  BY <1>13, <1>a, <1>e, <1>f DEF vars, TypeOK, HandlersOK
<1> QED
  BY <1>1, <1>2, <1>3, <1>4, <1>5, <1>6, <1>7, <1>8, <1>9, <1>10, <1>11, <1>12, <1>13 DEF Next, Step

LEMMA ChainStill ==
  ASSUME ChainOK, UNCHANGED <<made, armed, pool>>,
         AcceptQueued' = AcceptQueued, AcceptRunning' = AcceptRunning,
         \A i \in AcceptQueued : i \in 1 .. Len(queue') /\ queue'[i] = queue[i],
         \A t \in AcceptRunning : at'[t] = at[t]
  PROVE  ChainOK'
<1>1. CASE Waiting
  BY <1>1 DEF ChainOK, Waiting, InPoolBut
<1>2. CASE Coming
  BY <1>2 DEF ChainOK, Coming, InPoolBut
<1>3. CASE Accepting
  BY <1>3 DEF ChainOK, Accepting, InPoolBut
<1> QED
  BY <1>1, <1>2, <1>3 DEF ChainOK

LEMMA ChainNext == IInv /\ [Next]_vars => ChainOK'
<1> SUFFICES ASSUME IInv, [Next]_vars PROVE ChainOK'
  OBVIOUS
<1>a. /\ TypeOK /\ HandlersOK /\ ChainOK /\ queue \in Seq(Posted) /\ Len(queue) \in Nat
      /\ made \in Nat /\ Len(pool) \in Nat /\ pool \in Seq(1 .. made)
  BY DEF IInv, TypeOK
<1>b. /\ AcceptQueued = QueuedFor({"server_run", "accept"}, All)
      /\ AcceptRunning = RunningFor({"server_run", "accept", "post", "arm"}, All)
      /\ AcceptQueued' = QueuedFor({"server_run", "accept"}, All)'
      /\ AcceptRunning' = RunningFor({"server_run", "accept", "post", "arm"}, All)'
  BY DEF AcceptQueued, AcceptRunning
<1>c. AcceptQueued \subseteq 1 .. Len(queue) /\ AcceptRunning \subseteq Threads
  BY DEF AcceptQueued, AcceptRunning, QueuedFor, RunningFor
<1>d. \A t \in Threads : at[t] \in Doing /\ at[t].s \in All
  BY <1>a, HandlersAreRecords DEF TypeOK, Doing, All
<1>e. UNCHANGED queue => AcceptQueued' = AcceptQueued
  BY <1>b, Still
<1>f. UNCHANGED at => AcceptRunning' = AcceptRunning
  BY <1>b, Still
\* A handler that has nothing to do with it is queued, or ends, or goes on to another.
<1>g. ASSUME NEW x \in Posted, queue' = Append(queue, x), x.h \notin {"server_run", "accept"}
      PROVE  AcceptQueued' = AcceptQueued /\ \A i \in AcceptQueued : i \in 1 .. Len(queue') /\ queue'[i] = queue[i]
  <2>1. AcceptQueued' = AcceptQueued /\ \A i \in 1 .. Len(queue) : queue'[i] = queue[i]
    BY <1>a, <1>b, <1>g, QueueAppend
  <2>2. Len(queue') = Len(queue) + 1
    BY <1>a, <1>g
  <2> QED
    BY <1>a, <1>c, <2>1, <2>2
<1>h. ASSUME NEW t \in Threads, NEW x, Set(t, x),
             at[t].h \notin {"server_run", "accept", "post", "arm"},
             x.h \notin {"server_run", "accept", "post", "arm"}
      PROVE  AcceptRunning' = AcceptRunning /\ \A u \in AcceptRunning : at'[u] = at[u]
  <2>1. /\ AcceptRunning' = AcceptRunning \ {t} /\ t \notin AcceptRunning
        /\ \A u \in Threads : at'[u] = IF u = t THEN x ELSE at[u]
    BY <1>a, <1>b, <1>h, RunSet
  <2> QED
    BY <1>c, <2>1
<1>i. Idle.h = "idle"
  BY HandlersFit
<1>j. \E yes \in BOOLEAN : yes = TRUE
  OBVIOUS
<1>1. ASSUME NEW s \in Sessions, NEW ok \in BOOLEAN, Accepted(s, ok) PROVE ChainOK'
  <2>1. /\ s \in armed /\ armed' = armed \ {s} /\ made < MaxSessions /\ UNCHANGED <<made, pool, at>>
        /\ queue' = Append(queue, Handler("accept", s, ok))
    BY <1>1 DEF Accepted
  <2>2. armed' = {} /\ AcceptQueued = {} /\ AcceptRunning' = {} /\ InPoolBut(1)
    BY <1>a, <1>f, <2>1 DEF ChainOK, Waiting, Coming, Accepting
  <2>x. PICK x : x = Handler("accept", s, ok)
    OBVIOUS
  <2>3. x \in Posted /\ x.h = "accept" /\ x.s \in All
    BY <2>x, HandlersFit, Fields DEF All
  <2>4. AcceptQueued' = {Len(queue) + 1} /\ queue'[Len(queue) + 1] = x /\ Len(queue') = Len(queue) + 1
    BY <1>a, <1>b, <2>1, <2>2, <2>x, <2>3, QueueAppend
  <2>5. Len(queue) + 1 \in 1 .. Len(queue') /\ queue'[Len(queue) + 1].h = "accept"
    BY <1>a, <2>3, <2>4
  <2>6. Coming'
    BY <2>1, <2>2, <2>4, <2>5 DEF Coming, InPoolBut, ButOne
  <2> QED
    BY <2>6 DEF ChainOK
<1>2. ASSUME NEW s \in Sessions, Arrived(s) PROVE ChainOK'
  <2>1. PICK yes \in BOOLEAN : queue' = Append(queue, Handler("serve", s, yes))
    BY <1>2, <1>j DEF Arrived
  <2>2. Handler("serve", s, yes) \in Posted /\ Handler("serve", s, yes).h = "serve"
    BY HandlersFit, Fields
  <2> QED
    BY <1>2, <1>a, <1>f, <1>g, <2>1, <2>2, ChainStill DEF Arrived
<1>3. CASE Check \/ Exit
  BY <1>3, <1>a, <1>c, <1>e, <1>f, ChainStill DEF Check, Exit
<1>4. ASSUME NEW t \in Threads, Start(t) PROVE ChainOK'
  <2>1. /\ at[t].h = "idle" /\ queue # <<>> /\ Set(t, Head(queue)) /\ queue' = Tail(queue)
        /\ UNCHANGED <<made, armed, pool>>
    BY <1>4 DEF Start, Runs
  <2>x. PICK x : x = queue[1]
    OBVIOUS
  <2>2. /\ x \in Posted /\ Set(t, x) /\ x.s \in All
        /\ 1 \in AcceptQueued <=> x.h \in {"server_run", "accept"}
    <3>1. Head(queue) = queue[1] /\ queue[1] \in Posted
      BY <1>a, <2>1
    <3>2. x.s \in All
      BY <2>x, <3>1, HandlersAreRecords, HandlersFit DEF All, Doing
    <3>3. 1 \in AcceptQueued <=> queue[1].h \in {"server_run", "accept"} /\ queue[1].s \in All
      BY <1>a, <1>b, <2>1, QueueTail
    <3> QED
      BY <2>1, <2>x, <3>1, <3>2, <3>3
  <2>3. /\ x.h \in {"server_run", "accept", "post", "arm"} => AcceptRunning' = AcceptRunning \cup {t}
        /\ x.h \notin {"server_run", "accept", "post", "arm"} => AcceptRunning' = AcceptRunning \ {t}
        /\ t \notin AcceptRunning
        /\ \A u \in Threads : at'[u] = IF u = t THEN x ELSE at[u]
    BY <1>a, <1>b, <2>1, <2>2, RunSet
  <2>4. /\ AcceptQueued = {} => AcceptQueued' = {}
        /\ AcceptQueued = {1} => AcceptQueued' = {}
        /\ \A i : AcceptQueued = {i} /\ i # 1 => AcceptQueued' = {i - 1}
    BY <1>a, <1>b, <2>1, QueueTailOne
  <2>5. CASE 1 \in AcceptQueued
    <3>1. /\ AcceptQueued = {1} /\ armed = {} /\ AcceptRunning = {} /\ made < MaxSessions
          /\ InPoolBut(ButOne(x.h))
      BY <1>a, <2>5, <2>x DEF ChainOK, Waiting, Coming, Accepting
    <3>2. AcceptRunning' = {t} /\ AcceptQueued' = {} /\ at'[t] = x
      BY <2>2, <2>3, <2>4, <2>5, <3>1
    <3>3. Accepting'
      BY <2>1, <3>1, <3>2 DEF Accepting, InPoolBut
    <3> QED
      BY <3>3 DEF ChainOK
  <2>6. CASE 1 \notin AcceptQueued
    <3>1. x.h \notin {"server_run", "accept", "post", "arm"}
      BY <2>2, <2>6 DEF Posted
    <3>2. AcceptRunning' = AcceptRunning /\ \A u \in AcceptRunning : at'[u] = at[u]
      BY <1>c, <2>3, <3>1
    <3>3. CASE AcceptQueued = {}
      BY <1>a, <2>1, <2>4, <3>2, <3>3, ChainStill
    <3>4. CASE AcceptQueued # {}
      <4>1. PICK i \in 1 .. Len(queue) : /\ AcceptQueued = {i} /\ InPoolBut(ButOne(queue[i].h))
                                        /\ armed = {} /\ AcceptRunning = {} /\ made < MaxSessions
        BY <1>a, <3>4 DEF ChainOK, Waiting, Coming, Accepting
      <4>2. i # 1 /\ AcceptQueued' = {i - 1}
        BY <2>4, <2>6, <4>1
      <4>3. i - 1 \in 1 .. Len(queue') /\ queue'[i - 1] = queue[i]
        BY <1>a, <2>1, <4>1, <4>2
      <4>4. Coming'
        BY <2>1, <3>2, <4>1, <4>2, <4>3 DEF Coming, InPoolBut
      <4> QED
        BY <4>4 DEF ChainOK
    <3> QED
      BY <3>3, <3>4
  <2> QED
    BY <2>5, <2>6
<1>5. ASSUME NEW t \in Threads, PushSession(t) PROVE ChainOK'
  <2>1. /\ at[t].h = "accept" /\ Set(t, Handler("post", at[t].s, at[t].ok))
        /\ pool' = Append(pool, at[t].s) /\ UNCHANGED <<made, armed, queue>>
    BY <1>5, <1>d, HandlersAreRecords DEF PushSession, Runs
  <2>2. /\ AcceptRunning = {t} /\ AcceptQueued = {} /\ armed = {} /\ made < MaxSessions
        /\ made = Len(pool) + 1
    BY <2>1, TheAccept DEF InPoolBut, ButOne
  <2>x. PICK x : x = Handler("post", at[t].s, at[t].ok)
    OBVIOUS
  <2>3. x.h = "post" /\ x.s \in All /\ Set(t, x)
    BY <1>d, <2>1, <2>x, Fields
  <2>4. AcceptRunning' = {t} /\ at'[t] = x
    BY <1>a, <1>b, <2>2, <2>3, RunSet
  <2>5. Len(pool') = Len(pool) + 1
    BY <1>a, <2>1
  <2>6. Accepting'
    BY <1>a, <1>e, <2>1, <2>2, <2>3, <2>4, <2>5 DEF Accepting, InPoolBut, ButOne
  <2> QED
    BY <2>6 DEF ChainOK
<1>6. ASSUME NEW t \in Threads, PostRun(t) PROVE ChainOK'
  <2>1. /\ at[t].h = "post" /\ Set(t, Handler("arm", at[t].s, at[t].ok))
        /\ queue' = Append(queue, Handler("run", at[t].s, at[t].ok)) /\ UNCHANGED <<made, armed, pool>>
    BY <1>6, <1>d, HandlersAreRecords DEF PostRun, Runs
  <2>2. /\ AcceptRunning = {t} /\ AcceptQueued = {} /\ armed = {} /\ made < MaxSessions
        /\ made = Len(pool) + 0
    BY <2>1, TheAccept DEF InPoolBut, ButOne
  <2>x. PICK x : x = Handler("arm", at[t].s, at[t].ok)
    OBVIOUS
  <2>3. x.h = "arm" /\ x.s \in All /\ Set(t, x)
    BY <1>d, <2>1, <2>x, Fields
  <2>4. AcceptRunning' = {t} /\ at'[t] = x
    BY <1>a, <1>b, <2>2, <2>3, RunSet
  <2>5. /\ Handler("run", at[t].s, at[t].ok) \in Posted
        /\ Handler("run", at[t].s, at[t].ok).h = "run"
    BY <1>d, HandlersAreRecords, HandlersFit, Fields
  <2>6. AcceptQueued' = {}
    BY <1>g, <2>1, <2>2, <2>5
  <2>7. Accepting'
    BY <1>a, <2>1, <2>2, <2>3, <2>4, <2>6 DEF Accepting, InPoolBut, ButOne
  <2> QED
    BY <2>7 DEF ChainOK
<1>7. ASSUME NEW t \in Threads, ServerRun(t) PROVE ChainOK'
  <2>1. /\ at[t].h \in {"server_run", "arm"} /\ Set(t, Idle) /\ made' = made + 1
        /\ armed' = armed \cup {made + 1} /\ UNCHANGED <<pool, queue>>
    BY <1>7 DEF ServerRun, Runs
  <2>2. AcceptRunning = {t} /\ AcceptQueued = {} /\ armed = {} /\ made = Len(pool) + 0
    BY <2>1, TheAccept DEF InPoolBut, ButOne
  <2>3. AcceptRunning' = {}
    BY <1>a, <1>b, <1>i, <2>1, <2>2, RunSet
  <2>4. made + 1 \in 1 .. made' /\ armed' = {made + 1} /\ made' = Len(pool) + 1
    BY <1>a, <2>1, <2>2
  <2>5. Waiting'
    BY <1>e, <2>1, <2>2, <2>3, <2>4 DEF Waiting, InPoolBut
  <2> QED
    BY <2>5 DEF ChainOK
<1>8. ASSUME NEW t \in Threads, Run(t) \/ ServeEnd(t) \/ CheckMailBox(t) PROVE ChainOK'
  <2>1. /\ at[t].h \notin {"server_run", "accept", "post", "arm"} /\ Set(t, Idle)
        /\ UNCHANGED <<made, armed, pool, queue>>
    BY <1>8 DEF Run, ServeEnd, CheckMailBox, Runs
  <2> QED
    BY <1>a, <1>c, <1>e, <1>h, <1>i, <2>1, ChainStill
<1>9. ASSUME NEW t \in Threads, ServeWait(t) PROVE ChainOK'
  <2>1. /\ at[t].h = "serve" /\ Set(t, Handler("wait", at[t].s, at[t].ok))
        /\ UNCHANGED <<made, armed, pool, queue>>
    BY <1>9, <1>d, HandlersAreRecords DEF ServeWait, Runs
  <2>2. Handler("wait", at[t].s, at[t].ok).h = "wait"
    BY Fields
  <2> QED
    BY <1>a, <1>c, <1>e, <1>h, <2>1, <2>2, ChainStill
<1>10. ASSUME NEW t \in Threads, WaitEnd(t) PROVE ChainOK'
  <2>1. /\ (at[t].h = "wait" /\ Set(t, Idle)) \/ UNCHANGED at
        /\ UNCHANGED <<made, armed, pool, queue>>
    BY <1>10 DEF WaitEnd, Runs
  <2> QED
    BY <1>a, <1>c, <1>e, <1>f, <1>h, <1>i, <2>1, ChainStill
<1>11. ASSUME NEW w \in Sweepers, Sweep(w) PROVE ChainOK'
  <2>0. PICK i : i = IF iter[w] <= Len(pool) THEN iter[w] ELSE 1
    OBVIOUS
  <2>1. PICK yes \in BOOLEAN : queue' = Append(queue, Handler("check", pool[i], yes))
    BY <1>11, <1>j, <2>0 DEF Sweep
  <2>2. pool # <<>> /\ UNCHANGED <<made, armed, pool, at>>
    BY <1>11 DEF Sweep
  <2>3. i \in 1 .. Len(pool)
    BY <1>a, <2>0, <2>2 DEF TypeOK
  <2>4. pool[i] \in Sessions
    BY <1>a, <2>3, PoolFits, ServerAssumption DEF IInv, Sessions
  <2>5. Handler("check", pool[i], yes) \in Posted /\ Handler("check", pool[i], yes).h = "check"
    BY <2>4, HandlersFit, Fields
  <2> QED
    BY <1>a, <1>f, <1>g, <2>1, <2>2, <2>5, ChainStill
<1>12. CASE UNCHANGED vars
  BY <1>12, <1>a, <1>c, <1>e, <1>f, ChainStill DEF vars
<1> QED
  BY <1>1, <1>2, <1>3, <1>4, <1>5, <1>6, <1>7, <1>8, <1>9, <1>10, <1>11, <1>12 DEF Next, Step

-----------------------------------------------------------------------------
\* What a step leaves as it was for a session, and what makes its one handler.
LEMMA SessionStill ==
  ASSUME NEW s, SessionOK(s), Places(s)' = Places(s), Awaited(s)' <=> Awaited(s),
         QueuedFor(Goes, {s})' = QueuedFor(Goes, {s}),
         RunningFor(Goes, {s})' = RunningFor(Goes, {s}), s \in reading' <=> s \in reading
  PROVE  SessionOK(s)'
<1>1. Quiet(s)' <=> Quiet(s)
  BY DEF Quiet
<1>2. One(s)' <=> One(s)
  BY <1>1 DEF One
<1> QED
  BY <1>1, <1>2 DEF SessionOK

LEMMA AwaitedStill ==
  ASSUME NEW s, s \in armed' <=> s \in armed,
         QueuedFor(Comes, {s})' = QueuedFor(Comes, {s}),
         RunningFor(Comes, {s})' = RunningFor(Comes, {s})
  PROVE  Awaited(s)' <=> Awaited(s)
BY DEF Awaited

LEMMA SessionMoves ==
  ASSUME NEW s, SessionOK(s), ~Awaited(s), Places(s)' = Places(s), ~Awaited(s)', One(s)'
  PROVE  SessionOK(s)'
BY DEF SessionOK

\* The thread that goes on with a session is the one thing that does.
LEMMA TheRunner ==
  ASSUME NEW s, SessionOK(s), NEW t, t \in RunningFor(Goes, {s})
  PROVE  /\ ~Awaited(s) /\ s \notin reading
         /\ QueuedFor(Goes, {s}) = {} /\ RunningFor(Goes, {s}) = {t}
BY DEF SessionOK, One, Quiet

LEMMA SessionNext ==
  ASSUME IInv, [Next]_vars, NEW s \in 1 .. made
  PROVE  SessionOK(s)'
<1> DEFINE QA == QueuedFor(Comes, {s})
           QG == QueuedFor(Goes, {s})
           RA == RunningFor(Comes, {s})
           RG == RunningFor(Goes, {s})
<1>a. /\ TypeOK /\ HandlersOK /\ SessionOK(s) /\ queue \in Seq(Posted) /\ Len(queue) \in Nat
      /\ made \in Nat /\ Len(pool) \in Nat /\ pool \in Seq(1 .. made)
  BY DEF IInv, TypeOK
<1>d. \A t \in Threads : at[t] \in Doing /\ at[t].s \in All
  BY <1>a, HandlersAreRecords DEF TypeOK, Doing, All
<1>i. Idle.h = "idle"
  BY HandlersFit
<1>j. \E yes \in BOOLEAN : yes = TRUE
  OBVIOUS
<1>p. UNCHANGED pool => Places(s)' = Places(s)
  BY DEF Places
<1>q. UNCHANGED queue => QA' = QA /\ QG' = QG
  BY Still
<1>u. UNCHANGED at => RA' = RA /\ RG' = RG
  BY Still
<1>v. ASSUME NEW x \in Posted, queue' = Append(queue, x)
      PROVE  /\ QA' = IF x.h = "accept" /\ x.s = s THEN QA \cup {Len(queue) + 1} ELSE QA
             /\ QG' = IF x.h \in Goes /\ x.s = s THEN QG \cup {Len(queue) + 1} ELSE QG
  <2>1. /\ QA' = IF x.h \in Comes /\ x.s \in {s} THEN QA \cup {Len(queue) + 1} ELSE QA
        /\ QG' = IF x.h \in Goes /\ x.s \in {s} THEN QG \cup {Len(queue) + 1} ELSE QG
    BY <1>a, <1>v, QueueAppend
  <2> QED
    BY <2>1 DEF Comes
<1>w. ASSUME NEW t \in Threads, NEW x, Set(t, x)
      PROVE  /\ RA' = IF x.h = "accept" /\ x.s = s THEN RA \cup {t} ELSE RA \ {t}
             /\ RG' = IF x.h \in Goes /\ x.s = s THEN RG \cup {t} ELSE RG \ {t}
             /\ t \in RA <=> at[t].h = "accept" /\ at[t].s = s
             /\ t \in RG <=> at[t].h \in Goes /\ at[t].s = s
  <2>0. TypeOK /\ Set(t, x)
    BY <1>a, <1>w
  <2>1. /\ RA' = IF x.h \in Comes /\ x.s \in {s} THEN RA \cup {t} ELSE RA \ {t}
        /\ t \in RA <=> at[t].h \in Comes /\ at[t].s \in {s}
    BY <2>0, RunSet DEF Comes, Goes, RunningFor
  <2>2. /\ RG' = IF x.h \in Goes /\ x.s \in {s} THEN RG \cup {t} ELSE RG \ {t}
        /\ t \in RG <=> at[t].h \in Goes /\ at[t].s \in {s}
    BY <2>0, RunSet DEF Comes, Goes, RunningFor
  <2> QED
    BY <2>1, <2>2 DEF Comes
<1>1. ASSUME NEW n \in Sessions, NEW ok \in BOOLEAN, Accepted(n, ok) PROVE SessionOK(s)'
  <2>1. /\ n \in armed /\ armed' = armed \ {n} /\ UNCHANGED <<pool, at, reading>>
        /\ queue' = Append(queue, Handler("accept", n, ok))
    BY <1>1 DEF Accepted
  <2>x. PICK x : x = Handler("accept", n, ok)
    OBVIOUS
  <2>3. x \in Posted /\ x.h = "accept" /\ x.s = n /\ queue' = Append(queue, x)
    BY <2>1, <2>x, HandlersFit, Fields
  <2>4. QG' = QG /\ QA' = (IF n = s THEN QA \cup {Len(queue) + 1} ELSE QA) /\ RA' = RA /\ RG' = RG
    BY <1>u, <1>v, <2>1, <2>3 DEF Goes
  <2>5. Awaited(s)' <=> Awaited(s)
    BY <2>1, <2>4 DEF Awaited
  <2> QED
    BY <1>a, <1>p, <2>1, <2>4, <2>5, SessionStill
<1>2. ASSUME NEW n \in Sessions, Arrived(n) PROVE SessionOK(s)'
  <2>1. /\ n \in reading /\ reading' = reading \ {n} /\ UNCHANGED <<pool, at, armed>>
    BY <1>2 DEF Arrived
  <2>0. PICK yes \in BOOLEAN : queue' = Append(queue, Handler("serve", n, yes))
    BY <1>2, <1>j DEF Arrived
  <2>x. PICK x : x = Handler("serve", n, yes)
    OBVIOUS
  <2>3. x \in Posted /\ x.h = "serve" /\ x.s = n /\ queue' = Append(queue, x)
    BY <2>0, <2>x, HandlersFit, Fields
  <2>4. QG' = (IF n = s THEN QG \cup {Len(queue) + 1} ELSE QG) /\ QA' = QA /\ RA' = RA /\ RG' = RG
    BY <1>u, <1>v, <2>1, <2>3 DEF Goes
  <2>5. Awaited(s)' <=> Awaited(s)
    BY <2>1, <2>4, AwaitedStill
  <2>6. CASE n = s
    <3>1. ~Awaited(s) /\ QG = {} /\ RG = {}
      BY <1>a, <2>1, <2>6 DEF SessionOK, One, Quiet
    <3>2. QG' = {Len(queue) + 1} /\ RG' = {} /\ s \notin reading'
      BY <2>1, <2>4, <2>6, <3>1
    <3>3. One(s)'
      BY <3>2 DEF One
    <3> QED
      BY <1>a, <1>p, <2>1, <2>5, <3>1, <3>3, SessionMoves
  <2>7. CASE n # s
    BY <1>a, <1>p, <2>1, <2>4, <2>5, <2>7, SessionStill
  <2> QED
    BY <2>6, <2>7
<1>3. CASE Check \/ Exit \/ UNCHANGED vars
  <2>1. UNCHANGED <<armed, pool, queue, at, reading>>
    BY <1>3 DEF Check, Exit, vars
  <2>2. QA' = QA /\ QG' = QG /\ RA' = RA /\ RG' = RG
    BY <1>q, <1>u, <2>1
  <2> QED
    BY <1>a, <1>p, <2>1, <2>2, AwaitedStill, SessionStill
<1>4. ASSUME NEW t \in Threads, Start(t) PROVE SessionOK(s)'
  <2>1. /\ at[t].h = "idle" /\ queue # <<>> /\ Set(t, Head(queue)) /\ queue' = Tail(queue)
        /\ UNCHANGED <<armed, pool, reading>>
    BY <1>4 DEF Start, Runs
  <2>x. PICK x : x = queue[1]
    OBVIOUS
  <2>2. /\ Set(t, x)
        /\ 1 \in QA <=> x.h = "accept" /\ x.s = s
        /\ 1 \in QG <=> x.h \in Goes /\ x.s = s
    <3>1. /\ Head(queue) = queue[1]
          /\ 1 \in QA <=> queue[1].h \in Comes /\ queue[1].s \in {s}
          /\ 1 \in QG <=> queue[1].h \in Goes /\ queue[1].s \in {s}
      BY <1>a, <2>1, QueueTail
    <3> QED
      BY <2>1, <2>x, <3>1 DEF Comes
  <2>3. /\ t \notin RA /\ t \notin RG
        /\ RA' = IF 1 \in QA THEN RA \cup {t} ELSE RA
        /\ RG' = IF 1 \in QG THEN RG \cup {t} ELSE RG
    <3>1. t \notin RA /\ t \notin RG
      BY <1>w, <2>1, <2>2 DEF Goes
    <3>2. RA \ {t} = RA /\ RG \ {t} = RG
      BY <3>1
    <3> QED
      BY <1>w, <2>2, <3>2
  <2>4. /\ QG = {} => QG' = {}
        /\ QG = {1} => QG' = {}
        /\ \A i : QG = {i} /\ i # 1 => QG' = {i - 1}
    BY <1>a, <2>1, QueueTailOne
  <2>5. (QA' = {} /\ QA \subseteq {1}) \/ (QA' # {} /\ QA # {})
    <3>1. \A i \in Nat : i \in QA' <=> i >= 1 /\ i + 1 \in QA
      BY <1>a, <2>1, QueueTail
    <3>2. QA \subseteq Nat \ {0} /\ QA' \subseteq Nat \ {0}
      BY DEF QueuedFor
    <3>3. ASSUME NEW i \in QA, i # 1 PROVE i - 1 \in QA'
      <4>0. i \in Nat \ {0}
        BY <3>2
      <4>1. i \in Nat /\ i - 1 >= 1 /\ i - 1 \in Nat /\ (i - 1) + 1 = i
        BY <3>3, <4>0
      <4>2. i - 1 >= 1 /\ (i - 1) + 1 \in QA
        BY <3>3, <4>1
      <4> QED
        BY <3>1, <4>1, <4>2
    <3>4. QA' # {} => QA # {}
      BY <3>1, <3>2
    <3>5. QA \subseteq {1} \/ QA' # {}
      BY <3>3
    <3>6. QA' # {} \/ QA' = {}
      OBVIOUS
    <3> QED
      BY <3>4, <3>5, <3>6, Zenon
  <2>6. Awaited(s)' <=> Awaited(s)
    BY <2>1, <2>3, <2>5 DEF Awaited
  <2>7. CASE Awaited(s)
    <3>1. Places(s) = {} /\ QG = {} /\ RG = {} /\ s \notin reading
      BY <1>a, <2>7 DEF SessionOK, Quiet
    <3>2. QG' = {} /\ RG' = {}
      BY <2>3, <2>4, <3>1
    <3> QED
      BY <1>p, <2>1, <2>6, <2>7, <3>1, <3>2 DEF SessionOK, Quiet
  <2>8. CASE ~Awaited(s)
    <3>1. One(s)
      BY <1>a, <2>8 DEF SessionOK
    <3>2. One(s)'
      <4>1. CASE 1 \in QG
        <5>1. QG = {1} /\ RG = {} /\ s \notin reading
          BY <3>1, <4>1 DEF One, Quiet
        <5>2. QG' = {} /\ RG' = {t} /\ s \notin reading'
          BY <2>1, <2>3, <2>4, <4>1, <5>1
        <5> QED
          BY <5>2 DEF One
      <4>2. CASE 1 \notin QG
        <5>1. RG' = RG /\ reading' = reading
          BY <2>1, <2>3, <4>2
        <5>2. CASE QG = {}
          BY <2>4, <3>1, <5>1, <5>2 DEF One, Quiet
        <5>3. CASE QG # {}
          <6>1. PICK i : QG = {i}
            BY <3>1, <5>3 DEF One, Quiet
          <6>2. QG' = {i - 1}
            BY <2>4, <4>2, <6>1
          <6>3. RG = {} /\ s \notin reading
            BY <3>1, <5>3 DEF One, Quiet
          <6> QED
            BY <5>1, <6>2, <6>3 DEF One
        <5> QED
          BY <5>2, <5>3
      <4> QED
        BY <4>1, <4>2
    <3> QED
      BY <1>a, <1>p, <2>1, <2>6, <2>8, <3>2, SessionMoves
  <2> QED
    BY <2>7, <2>8
<1>5. ASSUME NEW t \in Threads, PushSession(t) PROVE SessionOK(s)'
  <2>1. /\ at[t].h = "accept" /\ Set(t, Handler("post", at[t].s, at[t].ok))
        /\ pool' = Append(pool, at[t].s) /\ UNCHANGED <<armed, queue, reading>>
    BY <1>5, <1>d, HandlersAreRecords DEF PushSession, Runs
  <2>x. PICK x : x = Handler("post", at[t].s, at[t].ok)
    OBVIOUS
  <2>2. x.h = "post" /\ x.s = at[t].s /\ Set(t, x)
    BY <2>1, <2>x, Fields
  <2>3. /\ RA' = RA \ {t} /\ QA' = QA /\ QG' = QG
        /\ RG' = IF at[t].s = s THEN RG \cup {t} ELSE RG \ {t}
        /\ t \in RA <=> at[t].s = s
        /\ t \notin RG
    BY <1>q, <1>w, <2>1, <2>2 DEF Goes
  <2>4. Places(s)' = IF at[t].s = s THEN Places(s) \cup {Len(pool) + 1} ELSE Places(s)
    <3>1. /\ at[t].s \in 1 .. made
      BY <1>a, <2>1 DEF HandlersOK, HandlerOK
    <3>2. /\ Len(pool') = Len(pool) + 1 /\ pool'[Len(pool) + 1] = at[t].s
          /\ \A i \in 1 .. Len(pool) : pool'[i] = pool[i]
      BY <1>a, <2>1, <3>1
    <3>3. 1 .. Len(pool') = (1 .. Len(pool)) \cup {Len(pool) + 1}
      BY <1>a, <3>2
    <3> QED
      BY <3>2, <3>3 DEF Places
  <2>5. CASE at[t].s = s
    <3>1. AcceptRunning = {t} /\ AcceptQueued = {} /\ armed = {}
      BY <2>1, TheAccept
    <3>2. RA \subseteq AcceptRunning /\ QA \subseteq AcceptQueued
      <4>1. s \in All
        BY <1>a, ServerAssumption DEF All, Sessions, TypeOK
      <4> QED
        BY <4>1 DEF AcceptRunning, AcceptQueued, RunningFor, QueuedFor, Comes
    <3>3. Awaited(s)
      BY <2>3, <2>5 DEF Awaited
    <3>4. Places(s) = {} /\ QG = {} /\ RG = {} /\ s \notin reading
      BY <1>a, <3>3 DEF SessionOK, Quiet
    <3>5. Places(s)' = {Len(pool) + 1} /\ QG' = {} /\ RG' = {t} /\ s \notin reading'
      BY <2>1, <2>3, <2>4, <2>5, <3>4
    <3>6. RA' = {} /\ QA' = {} /\ s \notin armed'
      BY <2>1, <2>3, <3>1, <3>2
    <3>7. ~Awaited(s)' /\ One(s)'
      BY <3>5, <3>6 DEF Awaited, One
    <3> QED
      BY <3>5, <3>7 DEF SessionOK
  <2>6. CASE at[t].s # s
    <3>1. RA' = RA /\ RG' = RG /\ Places(s)' = Places(s)
      BY <2>3, <2>4, <2>6
    <3> QED
      BY <1>a, <2>1, <2>3, <3>1, AwaitedStill, SessionStill
  <2> QED
    BY <2>5, <2>6
<1>6. ASSUME NEW t \in Threads, PostRun(t) PROVE SessionOK(s)'
  <2>1. /\ at[t].h = "post" /\ Set(t, Handler("arm", at[t].s, at[t].ok))
        /\ queue' = Append(queue, Handler("run", at[t].s, at[t].ok)) /\ UNCHANGED <<armed, pool, reading>>
    BY <1>6, <1>d, HandlersAreRecords DEF PostRun, Runs
  <2>x. PICK x : x = Handler("arm", at[t].s, at[t].ok)
    OBVIOUS
  <2>y. PICK y : y = Handler("run", at[t].s, at[t].ok)
    OBVIOUS
  <2>2. x.h = "arm" /\ Set(t, x)
    BY <2>1, <2>x, Fields
  <2>3. y.h = "run" /\ y.s = at[t].s /\ y \in Posted /\ queue' = Append(queue, y)
    BY <1>d, <2>1, <2>y, HandlersAreRecords, HandlersFit, Fields
  <2>4. /\ RA' = RA /\ QA' = QA /\ RG' = RG \ {t}
        /\ QG' = IF at[t].s = s THEN QG \cup {Len(queue) + 1} ELSE QG
        /\ t \in RG <=> at[t].s = s
    BY <1>v, <1>w, <2>1, <2>2, <2>3 DEF Goes
  <2>5. Awaited(s)' <=> Awaited(s)
    BY <2>1, <2>4, AwaitedStill
  <2>6. CASE at[t].s = s
    <3>1. ~Awaited(s) /\ s \notin reading /\ QG = {} /\ RG = {t}
      BY <1>a, <2>4, <2>6, TheRunner
    <3>2. s \notin reading' /\ RG' = {} /\ QG' = {Len(queue) + 1}
      BY <2>1, <2>4, <2>6, <3>1
    <3>3. One(s)'
      BY <3>2 DEF One
    <3> QED
      BY <1>a, <1>p, <2>1, <2>5, <3>1, <3>3, SessionMoves
  <2>7. CASE at[t].s # s
    <3>1. RG' = RG /\ QG' = QG
      BY <2>4, <2>7
    <3> QED
      BY <1>a, <1>p, <2>1, <2>5, <3>1, SessionStill
  <2> QED
    BY <2>6, <2>7
<1>7. ASSUME NEW t \in Threads, ServerRun(t) PROVE SessionOK(s)'
  <2>1. /\ at[t].h \in {"server_run", "arm"} /\ Set(t, Idle)
        /\ armed' = armed \cup {made + 1} /\ UNCHANGED <<pool, queue, reading>>
    BY <1>7 DEF ServerRun, Runs
  <2>2. RA' = RA /\ RG' = RG /\ QA' = QA /\ QG' = QG
    BY <1>i, <1>q, <1>w, <2>1 DEF Goes
  <2>3. s \in armed' <=> s \in armed
    BY <1>a, <2>1
  <2> QED
    BY <1>a, <1>p, <2>1, <2>2, <2>3, AwaitedStill, SessionStill
\* A request ends, or the wait for the rest of one.
<1>8. ASSUME NEW t \in Threads, at[t].h \in {"run", "serve", "wait"}, Set(t, Idle),
             reading' \in {reading, reading \cup {at[t].s}}, UNCHANGED <<armed, pool, queue>>
      PROVE  SessionOK(s)'
  <2>1. /\ RA' = RA /\ RG' = RG \ {t} /\ QA' = QA /\ QG' = QG
        /\ t \in RG <=> at[t].s = s
    BY <1>8, <1>i, <1>q, <1>w DEF Goes
  <2>2. Awaited(s)' <=> Awaited(s)
    BY <1>8, <2>1, AwaitedStill
  <2>3. CASE at[t].s = s
    <3>1. ~Awaited(s) /\ s \notin reading /\ QG = {} /\ RG = {t}
      BY <1>a, <2>1, <2>3, TheRunner
    <3>2. RG' = {} /\ QG' = {}
      BY <2>1, <3>1
    <3>3. One(s)'
      BY <3>2 DEF One, Quiet
    <3> QED
      BY <1>8, <1>a, <1>p, <2>2, <3>1, <3>3, SessionMoves
  <2>4. CASE at[t].s # s
    <3>1. RG' = RG /\ (s \in reading' <=> s \in reading)
      BY <1>8, <2>1, <2>4
    <3> QED
      BY <1>8, <1>a, <1>p, <2>1, <2>2, <3>1, SessionStill
  <2> QED
    BY <2>3, <2>4
<1>9. ASSUME NEW t \in Threads, Run(t) \/ ServeEnd(t) PROVE SessionOK(s)'
  BY <1>8, <1>9 DEF Run, ServeEnd, Runs
<1>10. ASSUME NEW t \in Threads, ServeWait(t) PROVE SessionOK(s)'
  <2>1. /\ at[t].h = "serve" /\ Set(t, Handler("wait", at[t].s, at[t].ok))
        /\ UNCHANGED <<armed, pool, queue, reading>>
    BY <1>10, <1>d, HandlersAreRecords DEF ServeWait, Runs
  <2>x. PICK x : x = Handler("wait", at[t].s, at[t].ok)
    OBVIOUS
  <2>2. x.h = "wait" /\ x.s = at[t].s /\ Set(t, x)
    BY <2>1, <2>x, Fields
  <2>3. RA' = RA /\ RG' = RG /\ QA' = QA /\ QG' = QG
    BY <1>q, <1>w, <2>1, <2>2 DEF Goes
  <2> QED
    BY <1>a, <1>p, <2>1, <2>3, AwaitedStill, SessionStill
<1>11. ASSUME NEW t \in Threads, WaitEnd(t) PROVE SessionOK(s)'
  <2>1. at[t].h = "wait" /\ UNCHANGED <<armed, pool, queue>>
    BY <1>11 DEF WaitEnd, Runs
  <2>2. CASE reading' = reading \cup {at[t].s} /\ Set(t, Idle)
    BY <1>8, <2>1, <2>2
  <2>3. CASE UNCHANGED <<at, reading>>
    <3>1. RA' = RA /\ RG' = RG /\ QA' = QA /\ QG' = QG
      BY <1>q, <1>u, <2>1, <2>3
    <3> QED
      BY <1>a, <1>p, <2>1, <2>3, <3>1, AwaitedStill, SessionStill
  <2> QED
    BY <1>11, <2>2, <2>3 DEF WaitEnd
<1>12. ASSUME NEW t \in Threads, CheckMailBox(t) PROVE SessionOK(s)'
  <2>1. at[t].h = "check" /\ Set(t, Idle) /\ UNCHANGED <<armed, pool, queue, reading>>
    BY <1>12 DEF CheckMailBox, Runs
  <2>2. RA' = RA /\ RG' = RG /\ QA' = QA /\ QG' = QG
    BY <1>i, <1>q, <1>w, <2>1 DEF Goes
  <2> QED
    BY <1>a, <1>p, <2>1, <2>2, AwaitedStill, SessionStill
<1>13. ASSUME NEW w \in Sweepers, Sweep(w) PROVE SessionOK(s)'
  <2>0. PICK i : i = IF iter[w] <= Len(pool) THEN iter[w] ELSE 1
    OBVIOUS
  <2>1. PICK yes \in BOOLEAN : queue' = Append(queue, Handler("check", pool[i], yes))
    BY <1>13, <1>j, <2>0 DEF Sweep
  <2>2. pool # <<>> /\ UNCHANGED <<made, armed, pool, at, reading>>
    BY <1>13 DEF Sweep
  <2>3. i \in 1 .. Len(pool)
    BY <1>a, <2>0, <2>2 DEF TypeOK
  <2>4. pool[i] \in Sessions
    BY <1>a, <2>3, PoolFits, ServerAssumption DEF IInv, Sessions
  <2>x. PICK x : x = Handler("check", pool[i], yes)
    OBVIOUS
  <2>5. x \in Posted /\ x.h = "check" /\ queue' = Append(queue, x)
    BY <2>1, <2>4, <2>x, HandlersFit, Fields
  <2>6. RA' = RA /\ RG' = RG /\ QA' = QA /\ QG' = QG
    BY <1>u, <1>v, <2>2, <2>5 DEF Goes
  <2> QED
    BY <1>a, <1>p, <2>2, <2>6, AwaitedStill, SessionStill
<1> QED
  BY <1>1, <1>2, <1>3, <1>4, <1>5, <1>6, <1>7, <1>9, <1>10, <1>11, <1>12, <1>13 DEF Next, Step

\* The session that server_run makes is the one that is awaited.
LEMMA SessionMade ==
  ASSUME IInv, [Next]_vars, NEW n \in 1 .. made', n \notin 1 .. made
  PROVE  SessionOK(n)'
<1>a. /\ TypeOK /\ HandlersOK /\ made \in Nat
      /\ \A i \in 1 .. Len(pool) : pool[i] # n
      /\ \A i \in 1 .. Len(queue) : queue[i].h \in Goes => queue[i].s # n
      /\ \A t \in Threads : at[t].h \in Goes => at[t].s # n
      /\ n \notin reading
  <2>1. TypeOK /\ HandlersOK /\ made \in Nat /\ n \notin reading
    BY DEF IInv, TypeOK
  <2>2. pool \in Seq(1 .. made)
    BY <2>1 DEF TypeOK
  <2>3. \A i \in 1 .. Len(pool) : pool[i] # n
    <3>1. \A i \in 1 .. Len(pool) : pool[i] \in 1 .. made
      BY <2>2, ElementOfSeq
    <3> QED
      BY <3>1
  <2>4. /\ \A i \in 1 .. Len(queue) : queue[i].h \in Goes => queue[i].s # n
        /\ \A t \in Threads : at[t].h \in Goes => at[t].s # n
    BY <2>1 DEF Goes, HandlersOK, HandlerOK
  <2> QED
    BY <2>1, <2>3, <2>4
<1>1. (\E t \in Threads : ServerRun(t)) \/ made' = made
  BY DEF Next, Step, Accepted, Arrived, Check, Exit, Start, PushSession, PostRun, Run, ServeEnd,
         ServeWait, WaitEnd, CheckMailBox, Sweep, vars
<1>2. PICK t \in Threads : ServerRun(t)
  BY <1>1
<1>3. /\ made' = made + 1 /\ n = made + 1 /\ n \in armed' /\ Set(t, Idle)
      /\ UNCHANGED <<pool, queue, reading>>
  BY <1>2, <1>a DEF ServerRun
<1>4. Places(n)' = {}
  BY <1>a, <1>3 DEF Places
<1>5. QueuedFor(Goes, {n})' = {}
  BY <1>a, <1>3 DEF QueuedFor
<1>6. RunningFor(Goes, {n})' = {}
  <2>1. Idle.h \notin Goes
    BY HandlersFit DEF Goes
  <2>2. \A u \in Threads : at'[u] = IF u = t THEN Idle ELSE at[u]
    BY <1>a, <1>3, RunSet
  <2>3. \A u \in Threads : at'[u].h \in Goes => at'[u].s # n
    BY <1>a, <2>1, <2>2
  <2> QED
    BY <2>3 DEF RunningFor
<1> QED
  BY <1>a, <1>3, <1>4, <1>5, <1>6 DEF SessionOK, Awaited, Quiet

LEMMA InvNext == IInv /\ [Next]_vars => IInv'
<1> SUFFICES ASSUME IInv, [Next]_vars PROVE IInv'
  OBVIOUS
<1>1. TypeOK' /\ HandlersOK' /\ ChainOK'
  BY TypeNext, ChainNext
<1>2. ASSUME NEW s \in 1 .. made' PROVE SessionOK(s)'
  BY <1>2, SessionNext, SessionMade
<1> QED
  BY <1>1, <1>2 DEF IInv

LEMMA Invariant == Spec => []IInv
BY InvInit, InvNext, PTL DEF Spec

-----------------------------------------------------------------------------
\* TypeOK, for any number of threads, sessions and handlers queued.
THEOREM ServerIsTyped == Spec => []TypeOK
<1>1. IInv => TypeOK
  BY DEF IInv
<1> QED
  BY <1>1, Invariant, PTL

LEMMA Sizes ==
  ASSUME NEW X
  PROVE  /\ X = {} => Cardinality(X) = 0
         /\ (\E x : X = {x}) => Cardinality(X) = 1
<1>1. X = {} => Cardinality(X) = 0
  BY FS_EmptySet
<1>2. ASSUME NEW x, X = {x} PROVE Cardinality(X) = 1
  <2>1. Cardinality({x}) = 1
    BY FS_Singleton
  <2> QED
    BY <1>2, <2>1
<1> QED
  BY <1>1, <1>2

LEMMA AcceptorIsOne == IInv => OneAcceptor
<1> SUFFICES ASSUME IInv PROVE OneAcceptor
  OBVIOUS
<1>1. /\ Queued({"server_run", "accept"}) = AcceptQueued
      /\ Running({"server_run", "accept", "post", "arm"}) = AcceptRunning
  BY ForAll DEF IInv, AcceptQueued, AcceptRunning
<1>2. Cardinality(armed) + Cardinality(AcceptQueued) + Cardinality(AcceptRunning) = 1
  <2>0. Cardinality({}) = 0
    BY FS_EmptySet
  <2>1. CASE Waiting
    <3>1. Cardinality(armed) = 1 /\ AcceptQueued = {} /\ AcceptRunning = {}
      BY <2>1, Sizes DEF Waiting
    <3> QED
      BY <2>0, <3>1
  <2>2. CASE Coming
    <3>1. Cardinality(AcceptQueued) = 1 /\ armed = {} /\ AcceptRunning = {}
      BY <2>2, Sizes DEF Coming
    <3> QED
      BY <2>0, <3>1
  <2>3. CASE Accepting
    <3>1. Cardinality(AcceptRunning) = 1 /\ armed = {} /\ AcceptQueued = {}
      BY <2>3, Sizes DEF Accepting
    <3> QED
      BY <2>0, <3>1
  <2> QED
    BY <2>1, <2>2, <2>3 DEF IInv, ChainOK
<1> QED
  BY <1>1, <1>2 DEF OneAcceptor

\* OneAcceptor: whatever fails, one thing at a time leads to the next accept.
THEOREM AcceptorNeverStops == Spec => []OneAcceptor
BY AcceptorIsOne, Invariant, PTL

LEMMA RunIsOne == IInv => OneRun
<1> SUFFICES ASSUME IInv, NEW s \in 1 .. made
             PROVE  LET places == {i \in 1 .. Len(pool) : pool[i] = s}
                        chain  == {"post", "run", "serve", "wait"}
                    IN
                    /\ Cardinality(places) = IF Arriving(s) THEN 0 ELSE 1
                    /\ Cardinality({i \in Queued(chain) : queue[i].s = s})
                         + Cardinality({t \in Running(chain) : at[t].s = s})
                         + Cardinality(reading \cap {s}) <= 1
  BY DEF OneRun
<1>0. Cardinality({}) = 0
  BY FS_EmptySet
<1>1. SessionOK(s)
  BY DEF IInv
<1>2. Arriving(s) <=> Awaited(s)
  BY DEF Arriving, Awaited, Comes, Queued, QueuedFor, Running, RunningFor
<1>3. Cardinality(Places(s)) = IF Arriving(s) THEN 0 ELSE 1
  BY <1>1, <1>2, Sizes DEF SessionOK
<1>4. /\ {i \in Queued(Goes) : queue[i].s = s} = QueuedFor(Goes, {s})
      /\ {t \in Running(Goes) : at[t].s = s} = RunningFor(Goes, {s})
  BY DEF Queued, QueuedFor, Running, RunningFor
<1>5. s \notin reading => reading \cap {s} = {}
  OBVIOUS
<1>6. s \in reading => reading \cap {s} = {s}
  OBVIOUS
<1>7. Cardinality(QueuedFor(Goes, {s})) + Cardinality(RunningFor(Goes, {s}))
        + Cardinality(reading \cap {s}) <= 1
  <2>1. Quiet(s) \/ One(s)
    BY <1>1 DEF SessionOK
  <2>2. CASE Quiet(s)
    BY <1>0, <1>5, <2>2 DEF Quiet
  <2>3. CASE s \notin reading /\ RunningFor(Goes, {s}) = {} /\ \E i : QueuedFor(Goes, {s}) = {i}
    <3>1. Cardinality(QueuedFor(Goes, {s})) = 1
      BY <2>3, Sizes
    <3> QED
      BY <1>0, <1>5, <2>3, <3>1
  <2>4. CASE s \notin reading /\ QueuedFor(Goes, {s}) = {} /\ \E t : RunningFor(Goes, {s}) = {t}
    <3>1. Cardinality(RunningFor(Goes, {s})) = 1
      BY <2>4, Sizes
    <3> QED
      BY <1>0, <1>5, <2>4, <3>1
  <2>5. CASE s \in reading /\ QueuedFor(Goes, {s}) = {} /\ RunningFor(Goes, {s}) = {}
    <3>1. Cardinality(reading \cap {s}) = 1
      BY <1>6, <2>5, Sizes
    <3> QED
      BY <1>0, <2>5, <3>1
  <2> QED
    BY <2>1, <2>2, <2>3, <2>4, <2>5 DEF One
<1> QED
  BY <1>3, <1>4, <1>7 DEF Places, Goes

\* OneRun: a session is in the pool once, and one handler at most goes on with it.
THEOREM SessionRunsOnce == Spec => []OneRun
BY RunIsOne, Invariant, PTL

-----------------------------------------------------------------------------
(***************************************************************************)
(* The life of each session.                                               *)
(***************************************************************************)

\* A handler that goes on with s.
GoesOn(x, s) == x.h \in Goes /\ x.s = s

LEMMA QuietIs ==
  ASSUME NEW s
  PROVE  Quiet(s) <=> /\ \A i \in 1 .. Len(queue) : ~GoesOn(queue[i], s)
                      /\ \A t \in Threads : ~GoesOn(at[t], s)
                      /\ s \notin reading
BY DEF Quiet, QueuedFor, RunningFor, GoesOn

LEMMA QuietMoves ==
  ASSUME TypeOK, NEW s, Quiet(s), s \notin reading',
         \/ UNCHANGED queue
         \/ queue # <<>> /\ queue' = Tail(queue)
         \/ \E x \in Posted : ~GoesOn(x, s) /\ queue' = Append(queue, x),
         UNCHANGED at \/ \E t \in Threads, x \in Doing : ~GoesOn(x, s) /\ Set(t, x)
  PROVE  Quiet(s)'
<1>1. queue \in Seq(Posted) /\ Len(queue) \in Nat /\ at \in [Threads -> Doing]
  BY DEF TypeOK, Doing
<1>2. /\ \A i \in 1 .. Len(queue) : ~GoesOn(queue[i], s)
      /\ \A t \in Threads : ~GoesOn(at[t], s)
  BY QuietIs
<1>3. \A i \in 1 .. Len(queue') : ~GoesOn(queue'[i], s)
  <2>1. CASE UNCHANGED queue
    BY <1>2, <2>1
  <2>2. CASE queue # <<>> /\ queue' = Tail(queue)
    <3>1. \A i \in 1 .. Len(queue') : i + 1 \in 1 .. Len(queue) /\ queue'[i] = queue[i + 1]
      BY <1>1, <2>2
    <3> QED
      BY <1>2, <3>1
  <2>3. CASE \E x \in Posted : ~GoesOn(x, s) /\ queue' = Append(queue, x)
    <3>1. PICK x \in Posted : ~GoesOn(x, s) /\ queue' = Append(queue, x)
      BY <2>3
    <3>2. /\ Len(queue') = Len(queue) + 1 /\ queue'[Len(queue) + 1] = x
          /\ \A i \in 1 .. Len(queue) : queue'[i] = queue[i]
      BY <1>1, <3>1
    <3>3. \A i \in 1 .. Len(queue') : i \in 1 .. Len(queue) \/ i = Len(queue) + 1
      BY <1>1, <3>2
    <3> QED
      BY <1>2, <3>1, <3>2, <3>3
  <2> QED
    BY <2>1, <2>2, <2>3
<1>4. \A t \in Threads : ~GoesOn(at'[t], s)
  <2>1. CASE UNCHANGED at
    BY <1>2, <2>1
  <2>2. CASE \E t \in Threads, x \in Doing : ~GoesOn(x, s) /\ Set(t, x)
    <3>1. PICK t \in Threads, x \in Doing : ~GoesOn(x, s) /\ Set(t, x)
      BY <2>2
    <3>2. \A u \in Threads : at'[u] = IF u = t THEN x ELSE at[u]
      BY <1>1, <3>1 DEF Set
    <3> QED
      BY <1>2, <3>1, <3>2
  <2> QED
    BY <2>1, <2>2
<1> QED
  BY <1>3, <1>4 DEF Quiet, QueuedFor, RunningFor, GoesOn

\* The first handler queued goes on with a session or does not.
LEMMA FirstIs ==
  ASSUME TypeOK, queue # <<>>, NEW s, Quiet(s)
  PROVE  Head(queue) \in Doing /\ ~GoesOn(Head(queue), s)
<1>1. Head(queue) = queue[1] /\ 1 \in 1 .. Len(queue) /\ queue[1] \in Posted
  BY DEF TypeOK
<1>2. ~GoesOn(queue[1], s)
  BY <1>1, QuietIs
<1> QED
  BY <1>1, <1>2 DEF Doing

\* A session that is over stays so: nothing takes it up again.
LEMMA QuietStays ==
  ASSUME IInv, [Next]_vars, NEW s \in 1 .. made, Quiet(s), ~Awaited(s)
  PROVE  Quiet(s)'
<1>a. TypeOK /\ s \notin reading
  BY DEF IInv, Quiet
<1>b. \A t \in Threads : ~GoesOn(at[t], s) /\ (at[t].h = "accept" => at[t].s # s)
  <2>1. \A t \in Threads : ~GoesOn(at[t], s)
    BY QuietIs
  <2>2. \A t \in Threads : at[t].h = "accept" => at[t].s # s
    BY DEF Awaited, RunningFor, Comes
  <2> QED
    BY <2>1, <2>2
<1>c. \A t \in Threads : /\ at[t].ok \in BOOLEAN
                        /\ \A k : [at[t] EXCEPT !.h = k] = Handler(k, at[t].s, at[t].ok)
  BY <1>a, HandlersAreRecords DEF TypeOK, Doing
<1>g. \A t \in Threads : at[t].h \notin {"idle", "server_run"} => at[t].s \in Sessions
  <2>1. \A t \in Threads : at[t].h \notin {"idle", "server_run"} => at[t].s \in 1 .. made
    BY DEF IInv, HandlersOK, HandlerOK
  <2>2. 1 .. made \subseteq Sessions
    BY <1>a, ServerAssumption DEF TypeOK, Sessions
  <2> QED
    BY <2>1, <2>2
<1>i. Idle \in Doing /\ ~GoesOn(Idle, s)
  <2>1. Idle \in Doing /\ Idle.h = "idle"
    BY HandlersFit
  <2> QED
    BY <2>1 DEF GoesOn, Goes
<1>j. \E yes \in BOOLEAN : yes = TRUE
  OBVIOUS
<1>0. ASSUME NEW h \in {"accept", "serve", "run", "check"}, NEW n \in Sessions, NEW ok \in BOOLEAN,
             queue' = Append(queue, Handler(h, n, ok)), h \in Goes => n # s
      PROVE  \E x \in Posted : ~GoesOn(x, s) /\ queue' = Append(queue, x)
  <2>x. PICK x : x = Handler(h, n, ok)
    OBVIOUS
  <2>1. x \in Posted /\ x.h = h /\ x.s = n
    BY <2>x, HandlersFit, Fields
  <2> QED
    BY <1>0, <2>x, <2>1 DEF GoesOn
<1>1. ASSUME NEW n \in Sessions, NEW ok \in BOOLEAN, Accepted(n, ok) PROVE Quiet(s)'
  <2>1. \E x \in Posted : ~GoesOn(x, s) /\ queue' = Append(queue, x)
    BY <1>0, <1>1 DEF Accepted, Goes
  <2> QED
    BY <1>1, <1>a, <2>1, QuietMoves DEF Accepted
<1>2. ASSUME NEW n \in Sessions, Arrived(n) PROVE Quiet(s)'
  <2>0. PICK yes \in BOOLEAN : queue' = Append(queue, Handler("serve", n, yes))
    BY <1>2, <1>j DEF Arrived
  <2>1. n # s /\ s \notin reading' /\ UNCHANGED at
    BY <1>2, <1>a DEF Arrived
  <2>2. \E x \in Posted : ~GoesOn(x, s) /\ queue' = Append(queue, x)
    BY <1>0, <2>0, <2>1
  <2> QED
    BY <1>a, <2>1, <2>2, QuietMoves
<1>3. CASE Check \/ Exit \/ UNCHANGED vars
  <2>1. UNCHANGED <<queue, at, reading>>
    BY <1>3 DEF Check, Exit, vars
  <2> QED
    BY <1>a, <2>1, QuietMoves
<1>4. ASSUME NEW t \in Threads, Start(t) PROVE Quiet(s)'
  <2>1. Head(queue) \in Doing /\ ~GoesOn(Head(queue), s)
    BY <1>4, <1>a, FirstIs DEF Start
  <2> QED
    BY <1>4, <1>a, <2>1, QuietMoves DEF Start
<1>5. ASSUME NEW t \in Threads, PushSession(t) PROVE Quiet(s)'
  <2>0. /\ at[t].s \in Sessions /\ at[t].s # s /\ UNCHANGED <<queue, reading>>
        /\ Set(t, Handler("post", at[t].s, at[t].ok))
    BY <1>5, <1>b, <1>c, <1>g DEF PushSession, Runs
  <2>x. PICK x : x = Handler("post", at[t].s, at[t].ok)
    OBVIOUS
  <2>1. Set(t, x) /\ x.s = at[t].s /\ x \in Doing
    BY <1>c, <2>0, <2>x, HandlersFit, Fields
  <2> QED
    BY <1>a, <2>0, <2>1, QuietMoves DEF GoesOn
<1>6. ASSUME NEW t \in Threads, PostRun(t) PROVE Quiet(s)'
  <2>1. at[t].h = "post" /\ at[t].s # s
    BY <1>6, <1>b DEF PostRun, Runs, GoesOn, Goes
  <2>2. at[t].s \in Sessions
    BY <1>g, <2>1
  <2>x. PICK x : x = Handler("arm", at[t].s, at[t].ok)
    OBVIOUS
  <2>0. /\ queue' = Append(queue, Handler("run", at[t].s, at[t].ok)) /\ UNCHANGED reading
        /\ Set(t, Handler("arm", at[t].s, at[t].ok)) /\ at[t].ok \in BOOLEAN
    BY <1>6, <1>c DEF PostRun
  <2>3. Set(t, x) /\ x.s = at[t].s /\ x \in Doing
    BY <2>0, <2>2, <2>x, HandlersFit, Fields
  <2>4. \E y \in Posted : ~GoesOn(y, s) /\ queue' = Append(queue, y)
    BY <1>0, <2>0, <2>1, <2>2
  <2> QED
    BY <1>a, <2>0, <2>1, <2>3, <2>4, QuietMoves DEF GoesOn
<1>7. ASSUME NEW t \in Threads, ServerRun(t) \/ CheckMailBox(t) PROVE Quiet(s)'
  <2>1. Set(t, Idle) /\ UNCHANGED <<queue, reading>>
    BY <1>7 DEF ServerRun, CheckMailBox
  <2> QED
    BY <1>a, <1>i, <2>1, QuietMoves
<1>8. ASSUME NEW t \in Threads, Run(t) \/ ServeEnd(t) \/ ServeWait(t) \/ WaitEnd(t) PROVE Quiet(s)'
  <2>1. at[t].h \in Goes /\ UNCHANGED queue
    BY <1>8 DEF Run, ServeEnd, ServeWait, WaitEnd, Runs, Goes
  <2>2. at[t].s # s
    BY <1>b, <2>1 DEF GoesOn
  <2>3. s \notin reading'
    BY <1>8, <1>a, <2>2 DEF Run, ServeEnd, ServeWait, WaitEnd
  <2>4. UNCHANGED at \/ \E x \in Doing : ~GoesOn(x, s) /\ Set(t, x)
    <3>1. CASE ServeWait(t)
      <4>x. PICK x : x = Handler("wait", at[t].s, at[t].ok)
        OBVIOUS
      <4>1. at[t].s \in Sessions
        BY <1>g, <2>1 DEF Goes
      <4>2. Set(t, Handler("wait", at[t].s, at[t].ok)) /\ at[t].ok \in BOOLEAN
        BY <1>c, <3>1 DEF ServeWait
      <4>3. Set(t, x) /\ x.s = at[t].s /\ x \in Doing
        BY <4>x, <4>1, <4>2, HandlersFit, Fields
      <4> QED
        BY <2>2, <4>3 DEF GoesOn
    <3>2. CASE Set(t, Idle) \/ UNCHANGED at
      BY <1>i, <3>2
    <3> QED
      BY <1>8, <3>1, <3>2 DEF Run, ServeEnd, WaitEnd
  <2> QED
    BY <1>a, <2>1, <2>3, <2>4, QuietMoves
<1>9. ASSUME NEW w \in Sweepers, Sweep(w) PROVE Quiet(s)'
  <2>0. PICK i : i = IF iter[w] <= Len(pool) THEN iter[w] ELSE 1
    OBVIOUS
  <2>1. PICK yes \in BOOLEAN : queue' = Append(queue, Handler("check", pool[i], yes))
    BY <1>9, <1>j, <2>0 DEF Sweep
  <2>2. pool # <<>> /\ UNCHANGED <<at, reading>>
    BY <1>9 DEF Sweep
  <2>3. i \in 1 .. Len(pool)
    BY <1>a, <2>0, <2>2 DEF TypeOK
  <2>4. pool[i] \in Sessions
    BY <1>a, <2>3, PoolFits, ServerAssumption DEF IInv, Sessions, TypeOK
  <2>5. \E x \in Posted : ~GoesOn(x, s) /\ queue' = Append(queue, x)
    BY <1>0, <2>1, <2>4 DEF Goes
  <2> QED
    BY <1>a, <2>2, <2>5, QuietMoves
<1> QED
  BY <1>1, <1>2, <1>3, <1>4, <1>5, <1>6, <1>7, <1>8, <1>9 DEF Next, Step

\* An accept leads to the pool, which nobody leaves.
LEMMA PoolGrows ==
  ASSUME IInv, [Next]_vars, NEW s \in 1 .. made
  PROVE  /\ Places(s) # {} => Places(s)' # {}
         /\ Places(s) = {} /\ Places(s)' # {} => \E t \in Threads : PushSession(t) /\ at[t].s = s
<1>1. UNCHANGED pool \/ \E t \in Threads : PushSession(t)
  BY DEF Next, Step, Accepted, Arrived, Check, Exit, Start, PostRun, ServerRun, Run, ServeEnd,
         ServeWait, WaitEnd, CheckMailBox, Sweep, vars
<1>2. CASE UNCHANGED pool
  BY <1>2 DEF Places
<1>3. ASSUME NEW t \in Threads, PushSession(t)
      PROVE  Places(s)' = IF at[t].s = s THEN Places(s) \cup {Len(pool) + 1} ELSE Places(s)
  <2>1. pool \in Seq(1 .. made) /\ Len(pool) \in Nat
    BY DEF IInv, TypeOK
  <2>2. at[t].s \in 1 .. made /\ pool' = Append(pool, at[t].s)
    BY <1>3 DEF PushSession, Runs, IInv, HandlersOK, HandlerOK
  <2>3. /\ Len(pool') = Len(pool) + 1 /\ pool'[Len(pool) + 1] = at[t].s
        /\ \A i \in 1 .. Len(pool) : pool'[i] = pool[i]
    BY <2>1, <2>2
  <2>4. 1 .. Len(pool') = (1 .. Len(pool)) \cup {Len(pool) + 1}
    BY <2>1, <2>3
  <2> QED
    BY <2>1, <2>3, <2>4 DEF Places
<1> QED
  BY <1>1, <1>2, <1>3

\* A thread that reads a body reads on, or goes on with the next header.
LEMMA ReaderMoves ==
  ASSUME IInv, [Next]_vars, up', NEW t \in Threads, at[t].h = "wait"
  PROVE  at'[t] = at[t] \/ at[t].s \in reading'
<1>1. \A u \in Threads : u # t => \A x : Set(u, x) => at'[t] = at[t]
  BY DEF Set, IInv, TypeOK
<1>2. ASSUME NEW u \in Threads, Step(u) PROVE at'[t] = at[t]
  <2>1. u # t
    BY <1>2 DEF Step, Start, PushSession, PostRun, ServerRun, Run, ServeEnd, ServeWait,
                CheckMailBox, Runs
  <2>2. \E x : Set(u, x)
    BY <1>2 DEF Step, Start, PushSession, PostRun, ServerRun, Run, ServeEnd, ServeWait,
                CheckMailBox
  <2> QED
    BY <1>1, <2>1, <2>2
<1>3. ASSUME NEW u \in Threads, WaitEnd(u) PROVE at'[t] = at[t] \/ at[t].s \in reading'
  <2>1. CASE u = t
    BY <1>3, <2>1 DEF WaitEnd
  <2>2. CASE u # t
    BY <1>1, <1>3, <2>2 DEF WaitEnd
  <2> QED
    BY <2>1, <2>2
<1> QED
  BY <1>2, <1>3 DEF Next, Accepted, Arrived, Check, Exit, Sweep, vars

\* What the stage is of a session that was made: ahead, or by what goes on with it.
StageByHandlers ==
  TypeOK /\ up => \A s \in 1 .. made :
    /\ Awaited(s) => Stage(s) = "ahead"
    /\ ~Awaited(s) =>
         /\ Stage(s) \in {"reading", "waiting", "over"}
         /\ Stage(s) = "reading" <=> \E t \in Threads : at[t].h = "wait" /\ at[t].s = s
         /\ Stage(s) = "over" <=> Quiet(s)

LEMMA StageIs == StageByHandlers
<1> SUFFICES ASSUME TypeOK, up, NEW s \in 1 .. made
             PROVE  /\ Awaited(s) => Stage(s) = "ahead"
                    /\ ~Awaited(s) =>
                         /\ Stage(s) \in {"reading", "waiting", "over"}
                         /\ Stage(s) = "reading" <=> \E t \in Threads : at[t].h = "wait" /\ at[t].s = s
                         /\ Stage(s) = "over" <=> Quiet(s)
  BY DEF StageByHandlers
<1>1. made \in Nat /\ made <= MaxSessions /\ s \in Sessions
  BY ServerAssumption DEF TypeOK, Sessions
<1>2. (s > made \/ Arriving(s)) <=> Awaited(s)
  BY <1>1 DEF Arriving, Awaited, Comes, Queued, QueuedFor, Running, RunningFor
<1>3. (\E t \in Running({"wait"}) : at[t].s = s) <=> \E t \in Threads : at[t].h = "wait" /\ at[t].s = s
  BY DEF Running
<1>4. \A i \in 1 .. Len(queue) : queue[i].h \in Goes => queue[i].h \in {"run", "serve"}
  <2>1. \A i \in 1 .. Len(queue) : queue[i] \in Posted
    BY DEF TypeOK
  <2> QED
    BY <2>1 DEF Posted, Goes
<1>5. Quiet(s) <=> ~(\/ \E t \in Running({"wait"}) : at[t].s = s
                     \/ s \in reading
                     \/ \E i \in Queued({"run", "serve"}) : queue[i].s = s
                     \/ \E t \in Running({"post", "run", "serve"}) : at[t].s = s)
  BY <1>4, QuietIs DEF GoesOn, Goes, Running, Queued
<1> QED
  BY <1>2, <1>3, <1>5 DEF Stage

LEMMA StepOfLife ==
  ASSUME IInv, [Next]_vars, NEW s \in Sessions
  PROVE  [Life(s)!Next]_(Stage(s))
<1> USE DEF Life!Next, Life!Begin, Life!Read, Life!ReadEnd, Life!Close, Life!Stray, Life!GoDown,
            Life!Move
<1>a. TypeOK /\ TypeOK' /\ IInv' /\ made \in Nat /\ made' \in Nat /\ s \in Nat /\ s >= 1
  BY InvNext, ServerAssumption DEF IInv, TypeOK, Sessions
<1>b. StageByHandlers /\ StageByHandlers'
  BY StageIs, PTL
<1>c. made' = made \/ \E t \in Threads : ServerRun(t)
  BY DEF Next, Step, Accepted, Arrived, Check, Exit, Start, PushSession, PostRun, Run, ServeEnd,
         ServeWait, WaitEnd, CheckMailBox, Sweep, vars
<1>1. CASE ~up
  <2>1. UNCHANGED vars
    BY <1>1 DEF Next, Step, Accepted, Arrived, Check, Exit, Start, PushSession, PostRun, ServerRun,
       Run, ServeEnd, ServeWait, WaitEnd, CheckMailBox, Sweep, Runs
  <2>2. Stage(s) = "down" /\ Stage(s)' = "down"
    BY <1>1, <2>1 DEF Stage, vars
  <2> QED
    BY <2>2
<1>2. CASE ~up'
  BY <1>2 DEF Stage
<1>3. CASE up /\ up' /\ s > made
  <2>1. Stage(s) = "ahead"
    BY <1>3 DEF Stage
  <2>2. s > made' \/ s \in armed'
    BY <1>3, <1>a, <1>c DEF ServerRun
  <2>3. Stage(s)' = "ahead"
    BY <1>3, <2>2 DEF Stage, Arriving
  <2> QED
    BY <2>1, <2>3
<1>4. CASE up /\ up' /\ s \in 1 .. made
  <2>0. /\ made' >= made /\ s \in 1 .. made' /\ SessionOK(s) /\ SessionOK(s)'
    <3>1. made' >= made
      BY <1>a, <1>c DEF ServerRun
    <3> QED
      BY <1>4, <1>a, <3>1 DEF IInv
  <2>1. CASE Awaited(s) /\ Awaited(s)'
    <3>1. Stage(s) = "ahead" /\ Stage(s)' = "ahead"
      BY <1>4, <1>a, <1>b, <2>0, <2>1 DEF StageByHandlers
    <3> QED
      BY <3>1
  <2>2. CASE Awaited(s) /\ ~Awaited(s)'
    <3>1. Stage(s) = "ahead"
      BY <1>4, <1>a, <1>b, <2>2 DEF StageByHandlers
    <3>2. PICK t \in Threads : PushSession(t) /\ at[t].s = s
      BY <1>4, <2>0, <2>2, PoolGrows DEF SessionOK
    <3>x. PICK x : x = Handler("post", at[t].s, at[t].ok)
      OBVIOUS
    <3>3. at'[t].h = "post" /\ at'[t].s = s
      <4>1. /\ [at[t] EXCEPT !.h = "post"] = Handler("post", at[t].s, at[t].ok)
            /\ \A u \in Threads : \A y : Set(u, y) => at'[u] = y
        BY <1>a, HandlersAreRecords DEF TypeOK, Doing, Set
      <4>2. at'[t] = x /\ x.h = "post" /\ x.s = s
        BY <3>2, <3>x, <4>1, Fields DEF PushSession
      <4> QED
        BY <4>2
    <3>4. t \in RunningFor(Goes, {s})'
      BY <3>3 DEF RunningFor, Goes
    <3>5. RunningFor(Goes, {s})' = {t}
      BY <2>0, <2>2, <3>4 DEF SessionOK, One, Quiet
    <3>6. ~Quiet(s)' /\ ~\E u \in Threads : at'[u].h = "wait" /\ at'[u].s = s
      BY <3>3, <3>5 DEF Quiet, RunningFor, Goes
    <3>7. Stage(s)' = "waiting"
      BY <1>4, <1>a, <1>b, <2>0, <2>2, <3>6 DEF StageByHandlers
    <3> QED
      BY <3>1, <3>7
  <2>3. CASE ~Awaited(s)
    <3>1. ~Awaited(s)'
      BY <1>4, <2>0, <2>3, PoolGrows DEF SessionOK
    <3>2. Stage(s)' \in {"reading", "waiting", "over"}
      BY <1>4, <1>a, <1>b, <2>0, <3>1 DEF StageByHandlers
    <3>3. CASE Stage(s) = "waiting"
      BY <3>2, <3>3
    <3>4. CASE Stage(s) = "over"
      <4>1. Quiet(s)'
        BY <1>4, <1>a, <1>b, <2>3, <3>4, QuietStays DEF StageByHandlers
      <4>2. Stage(s)' = "over"
        BY <1>4, <1>a, <1>b, <2>0, <3>1, <4>1 DEF StageByHandlers
      <4> QED
        BY <3>4, <4>2
    <3>5. CASE Stage(s) = "reading"
      <4>1. PICK t \in Threads : at[t].h = "wait" /\ at[t].s = s
        BY <1>4, <1>a, <1>b, <2>3, <3>5 DEF StageByHandlers
      <4>2. at'[t] = at[t] \/ s \in reading'
        BY <1>4, <4>1, ReaderMoves
      <4>3. ~Quiet(s)'
        <5>1. CASE s \in reading'
          BY <5>1 DEF Quiet
        <5>2. CASE at'[t] = at[t]
          BY <4>1, <5>2 DEF Quiet, RunningFor, Goes
        <5> QED
          BY <4>2, <5>1, <5>2
      <4>4. Stage(s)' \in {"reading", "waiting"}
        BY <1>4, <1>a, <1>b, <2>0, <3>1, <3>2, <4>3 DEF StageByHandlers
      <4> QED
        BY <3>5, <4>4
    <3> QED
      BY <1>4, <1>a, <1>b, <2>3, <3>3, <3>4, <3>5 DEF StageByHandlers
  <2> QED
    BY <2>1, <2>2, <2>3
<1> QED
  BY <1>1, <1>2, <1>3, <1>4, <1>a

\* LivesOnce: each session is accepted once, goes on until it is over, for good, and
\* leaves a synchronous read for its next header or with the process.
THEOREM SessionsLiveOnce == Spec => LivesOnce
<1>1. Init => \A s \in Sessions : Life(s)!Init
  <2> SUFFICES ASSUME Init, NEW s \in Sessions PROVE Stage(s) = "ahead"
    BY DEF Life!Init
  <2>1. s > made
    BY DEF Init, Sessions
  <2>2. up
    BY Zenon DEF Init
  <2> QED
    BY <2>1, <2>2 DEF Stage
<1>2. IInv /\ [Next]_vars => [\A s \in Sessions : [Life(s)!Next]_(Stage(s))]_vars
  BY StepOfLife
<1> QED
  BY <1>1, <1>2, Invariant, PTL DEF Spec, LivesOnce
=============================================================================
