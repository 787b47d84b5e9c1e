-------------------------------- MODULE Server --------------------------------
(***************************************************************************)
(* What drives the sessions: the acceptor, the pool of sessions, the       *)
(* queue of the io_service, the io threads that run what is queued, and    *)
(* the threads that post a check_mail_box for every session of the pool,   *)
(* over and over. What the handlers do is left to Session and Mailbox.     *)
(***************************************************************************)
EXTENDS Naturals, FiniteSets, Sequences

CONSTANTS
  Threads,      \* the threads in io_service::run
  MaxSessions,  \* bound: session objects made
  MaxPosted     \* bound: no poll is posted when as many handlers are queued

ASSUME ServerAssumption ==
  /\ Threads # {}
  /\ MaxSessions \in Nat \ {0}
  /\ MaxPosted \in Nat \ {0}

\* Sessions are numbered in the order server_run makes them.
Sessions == 1 .. MaxSessions

\* The threads in client_check_mail_box: the background thread from the start, the
\* one that reads the console after the command "check".
Sweepers == {"background", "console"}

(***************************************************************************)
(* Handlers. accept, post and arm are handle_accept at its three calls;    *)
(* serve is any handler of a request, wait one that is in a synchronous    *)
(* read its client has not sent enough for. ok: without an error.          *)
(***************************************************************************)
Handler(h, s, ok) == [h |-> h, s |-> s, ok |-> ok]

Idle == Handler("idle", 0, TRUE)

Posted == [h : {"server_run", "accept", "run", "serve", "check"},
           s : Sessions \cup {0}, ok : BOOLEAN]

Busy == [h : {"post", "arm", "wait"}, s : Sessions, ok : BOOLEAN]

VARIABLES
  up,       \* the process is running
  sweeping, \* the threads in client_check_mail_box
  iter,     \* how far each of them is in sessionPool_
  made,     \* session objects made
  armed,    \* those an async_accept is under way for
  pool,     \* sessionPool_
  queue,    \* the handlers ready to run
  at,       \* what each io thread is running
  reading   \* sessions whose next header is read asynchronously

vars == <<up, sweeping, iter, made, armed, pool, queue, at, reading>>

TypeOK ==
  /\ up \in BOOLEAN
  /\ sweeping \subseteq Sweepers
  /\ iter \in [Sweepers -> 1 .. MaxSessions + 1]
  /\ made \in 0 .. MaxSessions
  /\ armed \subseteq 1 .. made
  /\ pool \in Seq(1 .. made)
  /\ queue \in Seq(Posted)
  /\ at \in [Threads -> Posted \cup Busy \cup {Idle}]
  /\ reading \subseteq 1 .. made

\* The constructor has started the background thread and posted server_run.
Init ==
  /\ up = TRUE
  /\ sweeping = {"background"}
  /\ iter = [w \in Sweepers |-> 1]
  /\ made = 0 /\ armed = {} /\ pool = <<>>
  /\ queue = <<Handler("server_run", 0, TRUE)>>
  /\ at = [t \in Threads |-> Idle]
  /\ reading = {}

-----------------------------------------------------------------------------
(***************************************************************************)
(* The outside: clients that connect, send requests and go away, and the   *)
(* console.                                                                *)
(***************************************************************************)
\* An accept ends, with or without an error.
Accepted(s, ok) ==
  /\ up
  /\ made < MaxSessions
  /\ s \in armed
  /\ armed' = armed \ {s}
  /\ queue' = Append(queue, Handler("accept", s, ok))
  /\ UNCHANGED <<up, sweeping, iter, made, pool, at, reading>>

\* A header has come, or the end of the connection.
Arrived(s) ==
  /\ up
  /\ s \in reading
  /\ reading' = reading \ {s}
  /\ queue' = Append(queue, Handler("serve", s, TRUE))
  /\ UNCHANGED <<up, sweeping, iter, made, armed, pool, at>>

\* The command "check": the console's thread never comes back from it.
Check ==
  /\ up
  /\ "console" \notin sweeping
  /\ sweeping' = sweeping \cup {"console"}
  /\ UNCHANGED <<up, iter, made, armed, pool, queue, at, reading>>

\* The command "exit".
Exit ==
  /\ up
  /\ "console" \notin sweeping
  /\ up' = FALSE
  /\ UNCHANGED <<sweeping, iter, made, armed, pool, queue, at, reading>>

-----------------------------------------------------------------------------
Set(t, handler) == at' = [at EXCEPT ![t] = handler]

Runs(t, h) == up /\ at[t].h = h

\* An io thread takes the handler queued first.
Start(t) ==
  /\ Runs(t, "idle")
  /\ queue # <<>>
  /\ Set(t, Head(queue))
  /\ queue' = Tail(queue)
  /\ UNCHANGED <<up, sweeping, iter, made, armed, pool, reading>>

\* handle_accept, error or not: the session goes into the pool, its run is posted,
\* and server_run called, which makes the next session and arms the acceptor.
PushSession(t) ==
  /\ Runs(t, "accept")
  /\ pool' = Append(pool, at[t].s)
  /\ Set(t, [at[t] EXCEPT !.h = "post"])
  /\ UNCHANGED <<up, sweeping, iter, made, armed, queue, reading>>

\* Faulty variants: an accept that failed is the last; a sweeper's poll is posted in
\* place of the run.
PostRunUnlessError(t) ==
  /\ Runs(t, "post")
  /\ queue' = Append(queue, [at[t] EXCEPT !.h = "run"])
  /\ Set(t, IF at[t].ok THEN [at[t] EXCEPT !.h = "arm"] ELSE Idle)
  /\ UNCHANGED <<up, sweeping, iter, made, armed, pool, reading>>

PostCheck(t) ==
  /\ Runs(t, "post")
  /\ queue' = Append(queue, Handler("check", at[t].s, TRUE))
  /\ Set(t, [at[t] EXCEPT !.h = "arm"])
  /\ UNCHANGED <<up, sweeping, iter, made, armed, pool, reading>>

PostRun(t) ==
  /\ Runs(t, "post")
  /\ queue' = Append(queue, [at[t] EXCEPT !.h = "run"])
  /\ Set(t, [at[t] EXCEPT !.h = "arm"])
  /\ UNCHANGED <<up, sweeping, iter, made, armed, pool, reading>>

\* Faulty variant: the session object is used again for the next client.
ServerRunReuse(t) ==
  /\ Runs(t, "server_run") \/ Runs(t, "arm")
  /\ made' = IF made = 0 THEN 1 ELSE made
  /\ armed' = armed \cup {made'}
  /\ Set(t, Idle)
  /\ UNCHANGED <<up, sweeping, iter, pool, queue, reading>>

\* server_run: reusablePool_ is always empty.
ServerRun(t) ==
  /\ Runs(t, "server_run") \/ Runs(t, "arm")
  /\ made' = made + 1
  /\ armed' = armed \cup {made + 1}
  /\ Set(t, Idle)
  /\ UNCHANGED <<up, sweeping, iter, pool, queue, reading>>

\* session_no_ssl::run, which does nothing after an error.
Run(t) ==
  /\ Runs(t, "run")
  /\ reading' = IF at[t].ok THEN reading \cup {at[t].s} ELSE reading
  /\ Set(t, Idle)
  /\ UNCHANGED <<up, sweeping, iter, made, armed, pool, queue>>

\* A request is carried out and the next is read, or the session is closed. Until
\* its body has come it takes up the thread.
ServeEnd(t) ==
  /\ Runs(t, "serve")
  /\ reading' \in {reading, reading \cup {at[t].s}}
  /\ Set(t, Idle)
  /\ UNCHANGED <<up, sweeping, iter, made, armed, pool, queue>>

\* Faulty variant: the next header is read meanwhile.
ServeWaitReading(t) ==
  /\ Runs(t, "serve")
  /\ reading' = reading \cup {at[t].s}
  /\ Set(t, [at[t] EXCEPT !.h = "wait"])
  /\ UNCHANGED <<up, sweeping, iter, made, armed, pool, queue>>

ServeWait(t) ==
  /\ Runs(t, "serve")
  /\ Set(t, [at[t] EXCEPT !.h = "wait"])
  /\ UNCHANGED <<up, sweeping, iter, made, armed, pool, queue, reading>>

\* The client sends the rest, or goes, which ends the process.
WaitEnd(t) ==
  /\ Runs(t, "wait")
  /\ \/ /\ reading' = reading \cup {at[t].s}
        /\ Set(t, Idle)
        /\ UNCHANGED up
     \/ /\ up' = FALSE
        /\ UNCHANGED <<at, reading>>
  /\ UNCHANGED <<sweeping, iter, made, armed, pool, queue>>

CheckMailBox(t) ==
  /\ Runs(t, "check")
  /\ Set(t, Idle)
  /\ UNCHANGED <<up, sweeping, iter, made, armed, pool, queue, reading>>

\* Faulty variants: the iterator runs past the end of the pool; the pool is gone
\* through once.
SweepPast(w) ==
  /\ up
  /\ w \in sweeping
  /\ Len(queue) < MaxPosted
  /\ queue' = IF iter[w] <= Len(pool)
              THEN Append(queue, Handler("check", pool[iter[w]], TRUE))
              ELSE queue
  /\ iter' = [iter EXCEPT ![w] = @ + 1]
  /\ UNCHANGED <<up, sweeping, made, armed, pool, at, reading>>

SweepOnce(w) ==
  /\ up
  /\ w \in sweeping
  /\ iter[w] <= Len(pool)
  /\ Len(queue) < MaxPosted
  /\ queue' = Append(queue, Handler("check", pool[iter[w]], TRUE))
  /\ iter' = [iter EXCEPT ![w] = @ + 1]
  /\ UNCHANGED <<up, sweeping, made, armed, pool, at, reading>>

\* client_check_mail_box, up to and including one post. The list only grows, at its
\* end, so that the iterator stays good beside the push_back of an io thread.
Sweep(w) ==
  LET i == IF iter[w] <= Len(pool) THEN iter[w] ELSE 1 IN
  /\ up
  /\ w \in sweeping
  /\ pool # <<>>
  /\ Len(queue) < MaxPosted
  /\ queue' = Append(queue, Handler("check", pool[i], TRUE))
  /\ iter' = [iter EXCEPT ![w] = i + 1]
  /\ UNCHANGED <<up, sweeping, made, armed, pool, at, reading>>

Step(t) ==
  \/ Start(t)
  \/ PushSession(t) \/ PostRun(t) \/ ServerRun(t)
  \/ Run(t) \/ ServeEnd(t) \/ ServeWait(t) \/ CheckMailBox(t)

Next ==
  \/ \E s \in Sessions : Arrived(s) \/ \E ok \in BOOLEAN : Accepted(s, ok)
  \/ Check \/ Exit
  \/ \E t \in Threads : Step(t) \/ WaitEnd(t)
  \/ \E w \in Sweepers : Sweep(w)

Spec == Init /\ [][Next]_vars

(***************************************************************************)
(* The threads run. What ends a wait is up to the client. The program has  *)
(* no bound on the queue and a sweeper's next post is always enabled: what *)
(* is weak fairness there has to be strong fairness beside MaxPosted.      *)
(***************************************************************************)
Fairness ==
  /\ \A t \in Threads : WF_vars(Step(t))
  /\ \A w \in Sweepers : SF_vars(Sweep(w))

FairSpec == Spec /\ Fairness

-----------------------------------------------------------------------------
(***************************************************************************)
(* Properties.                                                             *)
(***************************************************************************)

\* The handlers queued and those being run, each by its place.
Queued(H)  == {i \in 1 .. Len(queue) : queue[i].h \in H}
Running(H) == {t \in Threads : at[t].h \in H}

\* There is always one thing that leads to the next accept, and one only: errors do
\* not end the chain that handle_accept and server_run form, and no two of them run
\* beside each other, so that nobody else changes sessionPool_ during a push_back.
OneAcceptor ==
  up => Cardinality(armed)
          + Cardinality(Queued({"server_run", "accept"}))
          + Cardinality(Running({"server_run", "accept", "post", "arm"})) = 1

\* The accepts of session s.
Arriving(s) ==
  \/ s \in armed
  \/ \E i \in Queued({"accept"}) : queue[i].s = s
  \/ \E t \in Running({"accept"}) : at[t].s = s

\* Every session made is either still to be accepted or in the pool, there once, and
\* has one handler that goes on with it at most: its run is posted once, and a
\* thread in a synchronous read is the only one to read from its socket.
OneRun ==
  \A s \in 1 .. made :
    LET places == {i \in 1 .. Len(pool) : pool[i] = s}
        chain  == {"post", "run", "serve", "wait"}
    IN
    /\ Cardinality(places) = IF Arriving(s) THEN 0 ELSE 1
    /\ Cardinality({i \in Queued(chain) : queue[i].s = s})
         + Cardinality({t \in Running(chain) : at[t].s = s})
         + Cardinality(reading \cap {s}) <= 1

\* All io threads are in synchronous reads.
Starved == Running({"wait"}) = Threads

\* A session of the pool is polled again and again as long as some thread is not in
\* a synchronous read: what the fairness of Mailbox takes for granted.
Polled ==
  \A s \in Sessions :
    (\E i \in 1 .. Len(pool) : pool[i] = s)
      ~> (~up \/ Starved \/ \E t \in Running({"check"}) : at[t].s = s)

\* A client whose connection was accepted is read from, behind however many polls.
Welcomed ==
  \A s \in Sessions :
    (\E i \in Queued({"accept"}) : queue[i] = Handler("accept", s, TRUE))
      ~> (~up \/ Starved \/ s \in reading)

-------------------------------------------------------------------------------
(***************************************************************************)
(* What a session does here is what Session lets it do.                    *)
(***************************************************************************)
Stage(s) ==
  IF ~up THEN "down"
  ELSE IF s > made \/ Arriving(s) THEN "ahead"
  ELSE IF \E t \in Running({"wait"}) : at[t].s = s THEN "reading"
  ELSE IF \/ s \in reading
          \/ \E i \in Queued({"run", "serve"}) : queue[i].s = s
          \/ \E t \in Running({"post", "run", "serve"}) : at[t].s = s
       THEN "waiting" ELSE "over"

Life(s) == INSTANCE Chain WITH stage <- Stage(s), First <- "ahead"

\* Every session is accepted once; closed, it is not taken up for another client; and
\* it leaves a synchronous read with the next header to read or with the process.
LivesOnce ==
  /\ \A s \in Sessions : Life(s)!Init
  /\ [][\A s \in Sessions : [Life(s)!Next]_(Stage(s))]_vars
===============================================================================
