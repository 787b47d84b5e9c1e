# A verification of the chat server

The repository holds a chat server (boost::asio, SQLite) and the header of a
client. Clients log in, send messages into chat tables, ask for connections with
other users, invite, create tables, and fetch what has come for them. This
directory holds TLA+ models of the server, their TLC instances, and proofs.

## 1. The system

| Part | Source | State | Operations | Interacts with |
|---|---|---|---|---|
| Start, io threads, console | `src/pr9_s.cpp` | threads, console | `io_service::run` in five threads (four of `main`, one of `set_threads`); `check`, `exit` | starts the server |
| Server | `src/server.h` | `sessionPool_`, acceptor, map `N` | `server_run`, `handle_accept`, `client_check_mail_box` | posts `run` and `check_mail_box` of sessions |
| Session | `src/session.cpp`, `session.h` | socket, `initialized`, `checkManager`, `nf`, `pc`, `source_`, `notice_` | a chain of handlers, from the read of a header to `task_end`; `check_mail_box` | Packer, pBuffer, Qr, nMap |
| Packer | `src/pack.hpp` | `hQue` | `decode_hader`, `front`, `pop` | a session's own |
| pBuffer | `src/pack.hpp` | `_size`, `next_input_point`, bytes | `nsrc`, `init_record`, `allocate_some`, `reserve_with_tag` | filled by sessions and by Qr, sent by `async_write` |
| Param | `src/param.h` | `allocated`, places by name | `set`, `allocate_at` | pBuffer's tag of an answer's header |
| nMap, nof | `src/nof.h` | user id -> array of ten flags | `insert`, `get_notifier`; `renew`, `task_end` | shared by all sessions, without a lock |
| Qr | `src/query.cpp`, `hqery.h` | the database, one connection `Q::DB` | INSERTs and SELECTs | shared by all sessions |
| notifier, client, stubs | `nof.cpp`, `cle.h`, `request.h`, ... | | | not modelled, section 8 |

How a message goes: a handler of the sender's session reads it, INSERTs it, asks
the database who sits at the table and, for each of them, finds the array in
nMap and raises a flag. Meanwhile the sweepers post `check_mail_box` for every
session again and again; it finds the flag raised, queues a notice and clears the
flag. The receiver asks for the messages with GetMsg.

What makes this hard:
- *threads without locks*: five io threads run handlers of all sessions; nMap, the
  flags, `notice_` and `sessionPool_` are used by all of them;
- *two sweeps* can post two polls of one session that run at the same time;
- *one connection*: `sqlite3_last_insert_rowid` tells of anybody's last INSERT;
- *buffers in use*: `async_write` sends on from `source_`, or from a local variable,
  after the handler that began it has gone on or returned;
- *synchronous reads* of request bodies hold a thread until the client sends;
- *errors*: `read` and `write` without an error argument throw
  `boost::system::system_error`, the `catch` clauses name `error_code`; handlers
  go on after `error_handle`; `decode_hader` falls off its end; an INSERT that
  fails is logged at most;
- *a handler that ends its task twice* (`rget_new_message`).

What should be true of each part:
- notification path: no notice without a row for that user; no ring lost; a raised
  flag is polled; one mailbox per user;
- session: one chain of handlers, in step with the stream, answers in order; a
  client's leaving ends its handlers and nothing else;
- server: one accept at a time, each session in the pool once and served by one
  handler; sessions are polled and new clients served as long as a thread is free;
- Qr: a new table's own key is answered; a user's messages, invites and requests
  are found, again if need be;
- pBuffer: nothing past the end, nothing lost by growing, and what is sent or stored
  is what was put in;
- all together: who asks upon a notice is answered with what it was about.

## 2. The modules

| Module | Models | State and actions |
|---|---|---|
| `Mailbox` | the notification path | each io thread's place in its handler (`work`), sockets, arrays, map, flags, notices, rows. One action per access to shared state: a login is `LoginAlloc`, `LoginFind`, `LoginLink`, `LoginReady`; a request is its INSERT (`ActSendMsg`, ...) and one `NotifyUser` per receiver; a poll is `PollStart` and `PollTest`, `PollLoad`, `PollStore`, `PollClear` for each box |
| `Courier` | what the notification path promises | rows stored, rings due, rings told of. `Mailbox` on one thread implements it: a ring on record that no notice covers is due, a covered one told |
| `LooseCourier` | what it still promises with several threads | the same rows and rings, the queues of notices, the queues as the push_backs under way have found them (`found`), the notices whose flags are still to be cleared (`closing`), and the rings that no notice will tell of (`forgotten`) |
| `Session` | one connection | the client, the bytes on the wire by unit (header, struct, body part), the reads and writes under way, `hQue`, and the numbered requests that an answer is owed to (`owed`, a history). One action per handler and error: `HeaderReadOk` contains all that `read_header_handle` calls. `SetValue` is Param's part in an answer's header |
| `Server` | what drives the sessions | the acceptor, pool, io queue, threads, sweepers, console |
| `Chain` | the life of one session | its `stage`. `Session` implements it (`Stage`), and `Server` does for each of its sessions |
| `Query` | the statements of `hqery.h` and `query.cpp` | no state: the tables' columns, INSERTs, conditions of SELECTs, and what SQLite makes of them |
| `Store` | Qr on its connection; extends `Query` | tables as sequences of rows, the INSERTs on the connection in order, one action per `sqlite3_exec` or `last_insert_rowid` |
| `Delivery` | composes `Mailbox` and `Store` | the variables of both, on the same threads: a request handler's INSERT is a step of both, GetMsg one of `Store`, a poll one of `Mailbox`; and for which INSERT each notice was queued |
| `PBuffer` | pBuffer | sizes, and how many of the bytes put in are there |
| `Source` | pBuffer as a session uses it; extends `PBuffer` | the requests on the wire, the writes under way from `source_` and from local variables, what the socket has taken, what the client got, what was stored |
| `MC...` | TLC instances | constants |
| `...Proofs` | theorems | section 6; `MailboxProofs` and `CourierProofs` about `Mailbox`, one for each of `Server`, `Session`, `Store`, `PBuffer`, `Source`, `Delivery` |

`Server` and `Mailbox` meet in the polls: `Server` takes `check_mail_box` as one
handler and shows (`Polled`) that each session of the pool gets it again and again;
`Mailbox` assumes just that and splits the handler into its steps. `Session` and
`Mailbox` meet in the requests: `Session` shows (`OneChain`) that a session carries
out one request at a time until its first GetMsg; `Mailbox` assumes it (`Serving`).
`Server` shows (`OneRun`) that this chain is begun once. `Server` takes for granted that
a handler in a synchronous read ends with the next header to read or with the process,
and that a session without a handler never has one again: `Chain` states it and
`Session` implements `Chain` (`LivesOnOrGoesDown`), as does each session of `Server`
(`LivesOnce`). Of the stages of `Chain`, `Server` leaves out "astray": what a second
chain after a GetMsg, or a garbled stream, would do to the threads. `Session` and `Source` share
the chain: `Session` follows what is read and answered, `Source` what becomes of the
bytes. In `Delivery`, the members of a table that `Mailbox` takes as a constant are
those in `part` when the server starts: `get_dining_members` finds no others, as no
INSERT of the server adds to them (`store_participants`, section 4).

Abstractions worth knowing:
- *Races.* A `bool` flag is read and written whole. A `push_back` into `notice_`
  that overlaps another may come out without what the other added (`snap`). Two
  inserts into the map that overlap, and they only, may lose entries (`torn`); a
  search beside an insert may miss an entry, and `get_notifier`, which searches
  twice, may then follow what is no node: the process is taken to end. After
  other undefined behaviour (an empty deque popped, a garbage pointer followed)
  the process ends or the session is out of step for good.
- *Session values.* `initialized` begins with either value, as the constructor
  leaves it out; `decode_hader` returns either where it returns nothing; Param's
  `allocated` may be zero or not.
- *sessionPool_.* The list only grows, at its end, and a node is linked in when it is
  complete: an iterator beside a `push_back` sees it or not.
- *SQLite.* A call of `sqlite3_exec` holds the connection: one step. INSERTs may fail.
  A rowid is a row's place in its table, as no row is ever deleted.
- *Sockets.* `async_write` sends at once what the socket takes; the bytes of two
  writes that are under way at once come mixed. What a local variable leaves to be
  sent later is taken to be lost, and what is written into `source_` meanwhile to be
  sent.
- *Data.* Users, sockets and tables are model values; times are left out.
  A user id that reads as a number would be stored as one in `part.tableKey` and
  could be taken for a table: `Store` keeps ids and keys apart. `user_name` is empty
  before a login (`Store.Senders`): requests are not refused for that.

## 3. Runs

Deadlock is checked in `store_threads`. Elsewhere the system may stop: the process
is down, or clients have used up their bounded requests.

| Run | Instance | Shows |
|---|---|---|
| `mailbox_serial` | one io thread, two sessions, two logins each, two INSERTs | `NoLostNotice`: the order insert, ring, queue, clear loses no ring; `Delivers`: the refinement of `Courier` |
| `mailbox_live` | two threads, two sessions, one login each, one INSERT | `BackedNotice`, `OneMailbox`; `RaisedIsPolled` under the fairness of section 5 |
| `mailbox_races` | two threads on one session, two logins, two INSERTs, `initialized` of either value | `OnlyRacesLose` names the steps that can lose a ring; `ForgetsByBox`: the refinement of `LooseCourier`, which says what is lost with it |
| `mailbox_invite` | one thread, two sessions | a disagreement, section 4 |
| `session` | three requests of any kind, sent before or after the answers, bodies empty or of two parts, a client that leaves anywhere | `OneChain`, `InStep`, `AnswersInOrder`, `HarmHasCause`; `NeverStuck`, no state in which session and client wait for each other, and `HandlersRunOut`, no handler that runs in vain; with fairness `Served`, `GoneIsNoticed`; `LivesOnOrGoesDown`: the refinement of `Chain` |
| `server` | three threads, up to three sessions, two polls queued, failed accepts | `OneAcceptor`, `OneRun`, and with fairness `Polled`, `Welcomed`; `LivesOnce`: the refinement of `Chain` by each session |
| `source` | a buffer and a socket of four, records of 3 and 5, bodies of 0, 2 and 6, three requests | `InBounds`, `AnswersIntact`, `TextsWhole` |
| `store_threads` | two threads, two INSERTing requests, GetMsg of a user in two tables | `KeyIsOwn`, `FirstTableWhole`, `AnsweredAgain` |
| `store_participants`, `store_text` | the same database | disagreements, section 4 |
| `delivery` | two threads, one session, two tables, two requests that insert | `FirstTableArrives`: who asks upon a notice gets what it was about, of the first of its tables |
| `delivery_tables` | the same with one thread | a disagreement, section 4 |

`mailbox_serial`, `session`, `server`, `source` and `store_threads` check the type
invariants too.

Bounds. *Two threads* are enough for each race named in section 2, since each is
between two accesses; the theorems hold for any number. *Two users and sessions*:
one to ring and one to be rung, or two sessions of one user. *Two logins of a
session* replace the array under a poll; two sessions with one login each make
the second array of a user. *Two INSERTs*: one ring before and one after a clear, or
one create_table and one INSERT between it and its key. *One session* in `delivery`:
a client may send messages into its own tables, so it rings itself, while the other
thread polls. *Three requests*: one before the request of interest, and one after it
already on the wire. *Sizes of `source`*: below, at and above the buffer, before and
after it has doubled, and answers larger than what the socket takes. *Queue bound* of
`Server` (`MaxPosted`): a sweeper waits where the program's would let the queue grow;
at two, polls of different sessions are queued together and a third waits. The
database of `MCStore` and `MCDelivery` has a user in two tables, because GetMsg treats
the first of them unlike the others.

## 4. Four disagreements, and what else the models show

`mailbox_invite`: participants of a new table are told that an invite has come
("Invite Requested", `src/hqery.h:56`; "Invite Request Renewed",
`src/session.cpp:89`), but GetIvt has none for them. RequestInvite itself stores the
empty id: its target is read into a pBuffer whose `next_input_point` stays 0.

`store_participants`: `create_table` puts user and key into `part` the other way
round from what `PartDsc` describes (`src/hqery.h:142`). No participant of a new table
is found by `get_dining_members` or `get_table`.

`store_text`: the callback of `get_new_message_in_table` takes the text that follows
`msOut` from `argv[0]` (`src/query.cpp:175`), which is the table's key; the message is
`argv[2]` by `MsDsc` (`src/hqery.h:140`).

`delivery_tables`: `get_new_message` overwrites `lastCheck` between the user's tables
with the rowid of the last INSERT into any table (`src/query.cpp:193`). A message in
the second of a user's tables is announced ("Message Arrived", `src/hqery.h:53`) and
left out of the answer to the GetMsg that follows, with one thread and nothing else
going on.

The properties also bound, by their exceptions, what the code does not promise:
- two polls of a session at once, or a ring between a poll's notice and its clear,
  lose notices (`OnlyRacesLose`; `NoLostNotice` holds for one thread only). What is
  lost with it is bounded by `LooseCourier`: the rings of the one flag, of the poll's
  own session, that no notice covers, and of the queue what came into it since the
  overlapping push_back began; the next ring of the flag recalls what was forgotten;
- a user's second session is never notified (`OneMailbox`);
- after GetMsg a session may have two reads under way or pop an empty queue (the
  properties of `Session` say "until the first GetMsg");
- the `task_end` of GetMsg's write resets `source_` under the next request: its text is
  stored empty, its rows go out in part (`late` in `TextsWhole` and `AnswersIntact`);
- a client that asks before it has got the answer to another request may get answers
  mixed with what came after (`eager` in `AnswersIntact`);
- a client that leaves within a body ends the server, and a command before the login
  or GetIvt and GetConnection may (`HarmHasCause`);
- as many slow clients as threads stop everything (`Starved` in `Polled`);
- another thread's INSERT makes create_table answer a wrong key (`raced` in
  `KeyIsOwn`), and GetMsg may leave out messages of all tables but the first;
- `InBounds` excludes records bigger than the buffer takes itself to be. As `nsrc`
  makes `source_` take itself to be as small as the last body, the row of a
  GetMsg that follows a short body is such a record.

## 5. Fairness

`Mailbox`: a handler that was begun runs on (weak fairness of each thread's
`Advance`), and each session's poll gets its turn (strong fairness of `PollStart`:
whether it is enabled depends on a free thread, again and again). `Server` is where
the latter comes from: weak fairness of the threads, the FIFO queue of the io_service
and the endless loop of the sweepers give `Polled`, as long as one thread is not in a
synchronous read. The sweepers have strong fairness there only because of the bound on
the queue, at which they are disabled now and then. `Session`: a handler that is
ready runs. No client has to send, answer or leave, and an end to a
synchronous read is never assumed.

## 6. What is proved

All with TLAPS, for every value of the constants that satisfies the assumptions
named in the modules (which TLC evaluates for its instances). Every safety
invariant that a passing run checks is proved, and so are the action properties
and the refinements of `Courier`, `LooseCourier` and `Chain`.

| Module | Theorems | Properties |
|---|---|---|
| `MailboxProofs` | `TypeCorrect`, `NoticesAreBacked`, `MailboxIsOne`, `OnlyRacesLoseRings` | `TypeOK`, `BackedNotice`, `OneMailbox`, `OnlyRacesLose` |
| `CourierProofs` | `OneThreadLosesNothing`, `MailboxDelivers` | `NoLostNotice`, `Delivers`; both assume one thread |
| | `MailboxForgetsByBox` | `ForgetsByBox`, for any number of threads |
| `ServerProofs` | `ServerIsTyped`, `AcceptorNeverStops`, `SessionRunsOnce`, `SessionsLiveOnce` | `TypeOK`, `OneAcceptor`, `OneRun`, `LivesOnce` |
| `SessionProofs` | `SessionIsTyped`, `HandlersFormOneChain`, `StreamsAgree`, `HarmIsCaused`, `AnswersComeInOrder`, `SessionNeverStuck`, `HandlersComeToAnEnd`, `SessionLivesAsServerHasIt` | `TypeOK`, `OneChain`, `InStep`, `HarmHasCause`, `AnswersInOrder`, `NeverStuck`, `HandlersRunOut`, `LivesOnOrGoesDown` |
| `PBufferProofs` | `NothingPastTheBuffer`, `AnswerIsWhole` | `InBounds` |
| `SourceProofs` | `SourceIsTyped`, `SourceInBounds`, `TextsAreWhole`, `PatientClientsAreAnswered` | `TypeOK`, `InBounds`, `TextsWhole`, `AnswersIntact` |
| `StoreProofs` | `StoreIsTyped`, `OwnKeyIsAnswered`, `FirstTableIsWhole`, `AnswersComeAgain` | `TypeOK`, `KeyIsOwn`, `FirstTableWhole`, `AnsweredAgain` |
| `DeliveryProofs` | `NoticesAreAnswered` | `FirstTableArrives` |

*Mailbox.* `BackedNotice` is not inductive: between a request's INSERT and its rings,
what backs them is known only to the thread that notifies, and between a flag's test
and its clear only to the poll. The inductive invariant `IInv` therefore adds to
`TypeOK`
- `ArraysOK`: sessions hold arrays of their own, the map files them by user;
- `TasksOK`: what a login, a handler that notifies and a poll hold is what they need:
  the searched user's entry is not in what the search passed, the users still to be
  told are among the row's receivers, the flag a poll holds is backed, and so on;
- `FlagsOK`, `NoticesOK`: flags and notices are backed, and belong to the array of
  the map unless inserts overlapped (`torn`);
- `RungOK`: the rings on record are of executed INSERTs.

There is one lemma per action that the invariant leans on and one (`InvLocal`) for
the steps that only change a thread's own task. `OnlyRacesLoseRings` goes through
the steps: all but `PollStore` and `PollClear` take nothing away (`QuietSteps`), and
these two do so only in the ways `LossIsARace` lists.

*Courier.* With one thread neither race can happen (`NoRace`), given what the thread's
task holds (`SerialInv`: the queue a push_back has found is the queue, the flag a poll
has seen is raised until it clears it, the notice it clears upon is queued). So no
ring leaves the record, and each step of `Mailbox` is a step of `Courier` or leaves
its variables alone: an INSERT is `Keep`, a renew of a flag `Ring`, the end of a
push_back `Tell`.

*LooseCourier.* Any number of threads. `LooseInv` adds to `IInv` that two handlers never
ring for the same row (`RingersOK`, so that each ring is a new one), that a flag is raised
or answered only if somebody was rung by it (`HeldAreRung`), and that who is polled has an
array (`PolledOK`). A ring is forgotten when its flag is neither raised nor being answered
(`Held`) and no notice covers it (`ForgottenAre`). So all that a step can do is seen in what
it does to `Held` and to the queues: one lemma per kind of step says that (`QuietTask` to
`ClearTask`), and the simulation follows. The end of a push_back is `Tell`, a clear is
`Settle`, and a push_back's beginning is `Find`.

*Server.* `IInv` follows what leads to the next accept through the queue, the threads
and the io_service (`ChainOK`: it is in one of three places, which tell how many of the
sessions made are in the pool), and each session from its accept to its handler
(`SessionOK`). The counts in the properties follow from the places being one.

*Chain.* For `Server`, the pool tells when a session's accept is over (`PoolGrows`), a
session for which nothing goes on is quiet for good (`QuietStays`), and only the thread in
a synchronous read leaves it (`ReaderMoves`). For `Session`, a handler that reads a body
is the only one (`AtBody`), what it reads belongs to the body, and no handler of a
session that is over can run (`FromReading`, `FromOver`). So a session
goes through the same stages, by the same moves, in both modules. `LivesOnce` states the refinement for all sessions
in one action formula, which is the form TLC checks.

*Session.* While no GetMsg has ended its task twice, the chain is at one of six points
(`AtHeader`, `AtStruct`, `AtIdPw`, `AtBody`, `AtWrite`, `Over`), each of which says what
is waited for, what is in the queue and how many units of the stream belong to the
request in hand; and the stream, on the wire and still to be sent, is well formed
(`Formed`). `HarmIsCaused` uses that every handler begins at one of the points. For `AnswersInOrder`
the requests are numbered (`Asks`, `AsksFor`): at each point, what was answered is the
beginning of what is owed, and what is owed beyond it are, in their order, the request in
hand and those of the stream (`Ordered`). `NeverStuck` and `HandlersRunOut` are the two
halves of `Served` that can be proved: at each point something can go on, and what goes on
uses up what there is to do (`Work`); that it does go on is the fairness TLC assumes.

*PBuffer, Source.* `AnswerIsWhole`: the buffers of `response_req_get_new_ivt` and
`response_req_get_new_conc`, made with 256 bytes, hold answers of any length if no
row or name is longer than 256. `Source` uses its buffer as `PBuffer` does, or leaves
it alone (`StepUses`), so what is proved of `PBuffer` holds of it. A client that waits
has one write under way at most, the last (`WritesInOrder`, `Patient`).

*Store.* The invariant says of a create_table under way that its row is where its
INSERT has left it, and of a get_new_message that what it has selected is of the user's
tables and has all of the first one that was there when it began. The tables only
grow and no check list changes (`Grows`), so what was true of a row stays true.

*Delivery.* The theorem uses the invariants of both parts, instantiated, and adds what
relates them: for each INSERT that `Mailbox` counts, the message `Store` has for it;
for each notice, that it is about INSERTs that are done (`UptoOK` of `MailboxProofs`);
and for each GetMsg under way, that the notices it was sent upon are about no message
later than it selects up to (`Reached`). What `Delivery` does is a step of each part, or
leaves it alone.

Only model-checked: liveness (`RaisedIsPolled`, `Served`, `GoneIsNoticed`, `Polled`,
`Welcomed`), which is out of the prover's reach under fairness.

## 7. Done and left

Modelled: every operation of the notification path, the session's chain, the
server, the queries and the buffers that a running server calls, their composition
in `Delivery`, and the abstract `Courier`, `LooseCourier` and `Chain`. What could still be added:

- larger instances of `delivery`: a second session with a second user would let one
  client ring another while both ask, and a third INSERT would let it come between;
  the theorem covers them, the run only checks one session;
- `Session` and `Source` composed: one stream of requests for both, and the two chains
  that read at once after a GetMsg, of which `Session` only says that they exist.

## 8. Not modelled

- `cle.h` is the client's side and not compiled into the server (it includes a
  `Pack.hpp` that the repository has not); the models take the client to be anything
  that sends well-formed requests and leaves at will.
- `sqlite3.h`, four fifths of the lines of the source tree, is vendored: SQLite is
  modelled by how Qr uses it. The binary `qserv`, `dbt.db`, the makefile, and
  the older copy of the session in `src/1` are no part of the program's logic.
- `notifier` (`nof.cpp`), the pool functions nothing calls (`add_thread_to_io`,
  `notify_abort_connection`), `read_packet`, `decode_any_case`,
  `insert_participation`, `find_user`, the rest of `Param` and other functions without
  a caller are left out, as are `request.h` and the empty files.
- `check_user_password` is a read of a table that the server never writes: its answer
  is a choice in `Session`, and a login in `Mailbox` is one with the right password.
- The sizes of ids and passwords below the level of whole parts of a body (they are
  read as one signed char each), the bytes of messages, the text of logs.
- Memory: session objects, arrays and entries of the pool are never freed, and the
  io queue grows where the sweepers are faster than the threads. `Server` bounds both.
