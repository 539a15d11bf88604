# Hermes, the invasion and their web server: a TLA+ model

The repository simulates countries that plan, build and trade (Hermes), and an
invasion that attacks them between rounds of trading (AlienInvasion, the
program's main). A small C program, `civetwebapp.c`, shows the invasion's log in
a browser; it is built on CivetWeb, an embedded HTTP server whose source the
repository carries and compiles. This directory holds a model of the three: TLA+
modules translated from the source, TLC configurations that check them on small
instances, and proofs, checked by TLAPS, that the safety properties of the
trading system, of the invasion, of the server's threads, and of six parts of
the server whose calls have to end hold for all values of the constants, and that
those threads implement an abstract dispatcher.

## The system

| Part | Source | State | Operations |
|---|---|---|---|
| Resources, transforms | `Hermes/Resources/Resource.java`, `Hermes/Transforms/*` | an amount of each of eight resources | three transforms; two reductions (`Country.Reduce_*`) |
| Status, planner | `Hermes/Resources/Status.java`, `Country.CalculateStatus`, `GenerateNode` | none: a function of the holdings | needs, deficits, surpluses; what to build, ask for, offer |
| Country thread | `Hermes/Country.java` (`run`, `GenerateNode`, `AssignNewValues`) | holdings, node count, entries of the current trade, timer | post, wait, use, give up, withdraw |
| Entry | `Hermes/Trade/Entry.java` | owner, offer, need, given, taken, success | set once: given, taken, success |
| Trade queue | an `ArrayBlockingQueue` of 100 entries | the entries | `add`, `put`, `take`, `remove`, `clear`, iterate |
| Trade manager | `Hermes/Trade/Manager.java` | entry in hand, best offer, idle count, shutdown flag | take, scan, settle, put back, time out |
| Invasion driver | `AlienInvasion.java` (`BeginInvasion`, `Run_Sequence`) | countries left, country attacked, aliens | start threads, signal, join, attack, shut down |
| Attack rules, die | `AlienInvasion.java` (`ExecuteAttack`, `CalculateModifier`, `GetInvasionSize`), `Dice/TwentySidedDie.java` | none | percentages lost by either side |
| Files, logs | `Country.schedule`, `exportStatus` | files | read once; written between attacks |
| Test drivers | `TestRunner.java`, `Test1..5.java`, `GenerateTest.java`, `DieTest.java` | - | mains |
| Log viewer | `civetwebapp.c` | `strtok`'s one static state | a page that reads the log |
| Server threads | `civetweb.c`: `mg_start2` to `mg_stop`, `master_thread_run`, `produce_socket`, `consume_socket`, `worker_thread_run` | threads, a ring of sockets, stop flag | start with every failure, accept, queue, serve, stop |
| Handler registry | `civetweb.c`: `mg_set_handler_type`, `get_request_handler`, `handle_request` | a list of counted entries | set, replace, remove, look up, call, release |
| Connection | `civetweb.c`: `process_new_connection`, `get_request`, `mg_read` | a buffer with its lengths, chunk state | read a request, its body; keep or close |
| Document root | `civetweb.c`: `handle_static_file_request`, `put_file`, `delete_file`, `mkcol`, `mg_store_body`; `response.inl` | the file system | get, head, put, delete, make a directory |
| Forms | `handle_form.inl` | a buffer over a body, a file being written | query, url-encoded, multipart |
| WebSocket | `civetweb.c`: `read_websocket`, `mg_websocket_write_exec`, the client | a buffer, a lock, ping count | frames both ways, ping, close |
| CGI, timers | `civetweb.c`: `handle_cgi_request`, `abort_cgi_process`; `timer.inl` | processes, pipes, a reference count, timers | start, feed, read, abort |
| Functions on texts | `civetweb.c`: `remove_dot_segments`, `match_prefix`, `mg_url_decode`, ... | none | paths, patterns, lists, forms, cookies |
| Heads of messages | `civetweb.c`: `get_http_header_len`, `parse_http_request`, `parse_http_response`, `get_message` | none | where a head ends, its words, headers, framing |
| Options that are lists | `civetweb.c`: `set_ports_option`, `check_acl`, `set_throttle` | listening sockets | ports, access list, speeds |
| Pages | `civetweb.c`: `send_ssi_file`, `handle_directory_request` | none | includes, listings |
| Routing | `civetweb.c`: `interpret_uri`, `handle_request`, `get_authorization`, redirects, domains | the domain of a connection | which function answers whom |
| Error answers | `civetweb.c`: `mg_send_http_error_impl`; `response.inl` | how far a response has come | callback, page, text |
| Bytes of a connection | `civetweb.c`: `push_inner`, `push_all`, `pull_inner`, `mg_write`, `mg_send_chunk` | throttle, clock | write, read |
| Texts about the server | `civetweb.c`: `mg_get_system_info`, `mg_get_context_info`, `mg_get_connection_info` | none | JSON in a bounded buffer |
| Clients | `civetweb.c`: `connect_socket`, `mg_connect_client`, `mg_download`, `mg_connect_websocket_client` | socket, TLS context, a thread | connect, use, close |
| Library, TLS set-up, domains | `civetweb.c`: `mg_init_library`, `initialize_openssl`, `init_ssl_ctx`, `mg_start_domain2`, `refresh_trust` | counts of users, contexts | load, set up, handshake, free |
| HPACK, HTTP/2 | `mod_http2.inl`, `response.inl` | a table of headers per connection, buffered headers | read frames, call the handler, answer |
| Credentials | `civetweb.c`: `parse_auth_header`, `read_auth_file`, `check_password`, base64 | none | who a request is from |
| Password files | `civetweb.c`: `modify_passwords_file`, `send_authorization_request` | a file, its temporary copy, nonces | change, challenge, answer |
| CGI processes and variables | `civetweb.c`: `spawn_process`, `addenv`, `prepare_cgi_environment` | descriptors of the process, a block of texts | pipe, fork, exec, close |
| Logs | `civetweb.c`: `log_access`, `mg_cry_internal_impl` | two files, `localtime`'s struct | write a line |
| Stand-alone program | `main.c` | an array of options | configuration file, command line, client mode |

Every country is a thread, the manager is a thread, and the driver is a thread.
They share one queue and the entries in it, the flags `BEGIN` and `shutdown_m`,
and nothing else: a country's holdings are written by its own thread, and by
the driver's attack after all country threads have been joined.

What is hard here:

- the manager takes an entry out of the queue to look at it, so for a while its
  owner can neither find nor remove it;
- the manager settles a trade in five accesses (two amounts each, two flags,
  a removal) while both owners poll, time out and withdraw;
- the scan's iterator is weakly consistent: it may return what was removed;
- the queue is bounded: `add` throws, `put` blocks;
- the driver clears the queue between rounds, but not the manager's hand;
- three different timeouts (200 ms of a trade, 10 s of the manager, 3 s of the
  driver's poll) race with settlements.

The invasion adds a die and rounding: percentages are cut to whole numbers, so
small populations and small invasions lose nothing; and trade goes on between
the attacks, one-sided trades included, so the list of countries the driver works from
grows stale.

In CivetWeb a master accepts connections and a fixed set of workers serves one
each. They share the queue of sockets, the list of handlers, the file system and
the stop flag; everything else belongs to one connection and one worker, except
that an application's thread may write to and close a websocket, and the timer
thread may abort a CGI process. Hard there:

- condition variables and a stop flag that is read outside the mutex;
- a handler that is called without the lock, held by a count only, while
  another thread waits to replace it;
- several requests in one buffer, whose lengths are changed by the functions that
  decode it, cut anywhere by the reads;
- answers that must be sent once on every path of failure; files that other
  requests replace between a look and an open;
- frames sent in two writes by two threads; closes from either side;
- a process, its pipes, its timer and its worker, any of which may end first; a
  fork copies whatever other requests have open at that moment;
- a table of headers that both ends count, one entry for one;
- a dozen steps to connect or to load a library, each of which may fail;
- files changed by writing a copy and renaming it, by several threads, and by a
  process that may die in between; a static struct that all threads share.

What makes each part correct:

- planner: a loop of transforms never runs out of stock; what is offered is
  held, what is asked for can be taken in; building makes the need go away;
- queue and manager: an entry is in one place and is not lost while its owner
  waits; it is settled at most once; both sides of a trade agree on it;
- countries: amounts never become negative; trade creates nothing; a trade is
  used, or given up, once;
- driver: each round ends; nothing of an earlier round is handled twice; the
  shutdown ends;
- attack rules: an attack only takes, the modifier fits the die, the verdict names
  the side that is left;
- server: accepted connections are served once, in order, by the workers; none
  waits while a worker sleeps; the stop ends; what is freed is not used;
- handlers: an entry is not changed under a request that uses it, and changes end;
- connection: requests and bodies are the client's, whatever the pieces and
  whatever the handler leaves unread;
- files: one answer for each request, and it is true: what it reports as stored
  is stored;
- forms, websockets: what the callbacks are given is what the client has sent;
- CGI: no process is left behind, its data are freed once, the client gets the
  output;
- texts, messages, options, pages, codes, credentials: paths stay below the root, what
  is encoded comes back, what is read is what was written, rules hold as they are
  written, a user has the password of the line that is for him;
- routing and errors: a URI is answered by the function it stands for, to those who may
  have it; a request has one head, and an error its page;
- bytes: what is sent is what was given, once and in order, in time and at the speed
  allowed;
- client, library, HTTP/2, CGI descriptors: what was taken is given back on every path;
- password files and logs: calls that do not overlap lose nothing but what a full disk does
  not take, a line is logged once, and what the log loses is told.

`PROJECT.json` lists the hazards line by line, with the properties that cover them.

## The modules of the simulation

    Planner ---+--- TradeQueue ---+--- Manager ---+
               |                  +--- Country ---+--- Hermes --- MCHermes
               |                                         |
               +--- PlannerProofs ---+--- Solo           |
               |                     +------------- HermesProofs
               |                     |
               +--- AlienInvasion ---+--- InvasionProofs
                           |
                       MCInvasion

- **Planner**, first part - a country's holdings as a record of eight amounts. Each
  transform, and the loop `for (it = 0; it < n; it++)` around it in closed form:
  once a call fails the stocks no longer change and all later calls fail, so the
  loop is its first `Smaller(n, cap)` calls. `LoopsAreCalls` checks the
  closed forms against the calls. `Cut` is `(long)(amount * modifier)` with the
  modifier a float made from a whole percentage.
- **Planner**, second part - `CalculateStatus` and the decisions of `GenerateNode`, as
  operators of the holdings. Exactly one of `Asks`, `Smelts`, `BuildsHouses`,
  `BuildsElectronics` and `Rests` holds.
- **Solo** - one country that follows its plan from any holdings, and what is proved of it.
- **TradeQueue** - the entries and the queue. `deal` and `success` are the
  fields of `Entry` that change. `scan` is what the manager's iterator will
  return: its head has been fetched already and survives a removal, the rest
  follows the queue. `batch` stands for the identity of an object: entries are
  compared by reference in the code.
- **Manager** - `Manager.run`, one action for each access to the queue or to an
  entry. The amounts of both sides of a settlement are one action: the owners
  read them only after seeing the success flag, which is set later and is an
  atomic.
- **Country** - the country threads, one action for each access to the queue
  or to an entry; computation in between belongs to the step before. A chain of
  recursive calls of `GenerateNode` is a loop at `pc = "node"`: each call ends
  in the next one or returns through all of them (`EndSchedule`).
- **Hermes** - the composition, with the driver, and the inductive invariants.
- **AlienInvasion** - the die: a roll, and `GetAttackScale` as a table of bands per
  modifier, of which each roll selects one. The driver's side in detail: size of the invasion, modifier,
  every case of `ExecuteAttack`, the next country, the verdict. The round of
  trading between two attacks is one step here, `Run_Sequence`: any number of countries
  may end it with other people and goods (`Crowds`, `Supplies`), and the sum of the people
  need not stay, since a trade that one side only carries out makes or loses some. What
  stays is that fewer than five people are never offered: while no country ever had five,
  nobody moves (`crowded`, `Peopled`). `Thou` and `TenThou` stand for 1000 and 10000.
- **MCHermes**, **MCInvasion** - worlds for the runs: `Seller`, `Buyer`, `Settler`, ... are
  holdings chosen for the trade they lead to.

| Model | Code |
|---|---|
| `mpc` of Manager | program points of `Manager.run` |
| `current`, `best`, `idle`, `shutdown` | `current`, `bestOffer`, `count_m`, `shutdown_m` |
| `pc[c]` of Country | program points of `run` and `GenerateNode` |
| `nodes[c]`, `left[c]` | the counter `i` of a schedule; schedules left of `schedules_m` |
| `trades[c]`, `todo[c]`, `timer[c]`, `passed[c]` | locals of `GenerateNode` |
| `applied`, `abandoned` | history only: entries whose result was used, and entries given up |
| `main`, `alive`, `next`, `round` | program points of `BeginInvasion`, `countries_m`, `next`, `count` |

Where the model is wider than the code: the driver may next attack any country
with people left (the code takes the first in its list), and an attack may take
any percentage of `Damages` (the code's rules give certain ones); so what is
shown holds of the code, too. Where it is narrower: amounts are
unbounded integers (the code's are 64 bits, and nothing multiplies them by more
than 5); `Cut` is exact for amounts below about 10^5, beyond which a float drops
further digits; `Inexact` recognises the finite binary ratios of amounts below
1024; interruption is left out, nothing interrupts a thread; the driver's
polling of `queue_m.size()` before it joins is left out, it changes nothing.
Initial holdings are not negative: the files hold none.

## The modules of CivetWeb

    Server --INSTANCE--> Dispatch          Server --- ServerProofs

    Handlers, Connection, Cgi, Client, Spawn, Websocket --INSTANCE-- Civet --- CivetProofs
                                                                       |            |
                                               Forms --INSTANCE-- MCCivet       INSTANCE
                                                                                    |
                                                Websocket ------------------ WebsocketProofs

    Files, Viewer, Transfer, Library, Http2, Passwords, Logs,
    Texts, Messages, Options, Pages, Requests, Infos, Hpack, Credentials,
    Standalone, Environment, Errors --INSTANCE-- MCContent

    Chars <- Texts, Messages, Options, Pages, Requests, Credentials, Environment, Errors, Standalone

What is modelled is the code for Linux as `src/build.sh` compiles it, with what can be
compiled in from the same source: websockets, CGI, timers, the loading of OpenSSL, and
HTTP/2. The parts below do not share state: a connection belongs to one worker, and
what a part needs of another (the text functions of Requests and Pages, the pattern
matching of Options) it takes as an operator, which MCContent gives it from `Texts`.

- **Dispatch** - the promise: connections are accepted, wait (a bounded number),
  are served in the order of acceptance by a bounded number of servers, and are
  dropped only after the server was told to close. No thread, queue or signal.
- **Server** - the threads. A region under `thread_mutex` is one step, ended early
  by `pthread_cond_wait`, which may also return for no reason; a read of
  `stop_flag` is a step of its own. The ring and its indices are the code's. The
  start has one action for each part of `mg_start2` that can fail, and what it
  leaves behind. It implements `Dispatch` (`ImplementsDispatch`, with the
  refinement mapping `phase`, `state`): a connection is pending while it is with the
  master or in the ring, busy while a worker holds it.
- **Handlers** - the list, its counts and marks, and the way of a request through
  `handle_request`: authorization, callback, files. A removed entry's memory may be
  used again. A request by HTTP/2 may leave without giving its entry back.
- **Connection** - one worker and one client that sends ahead, stops or hangs up.
  A header is two units, a chunk's size one; a body may look like anything.
- **Files** - several workers on one tree. A file is a sequence of units that know
  who stored them, so that a mixture can be told from a body.
- **Forms** - the three encodings, with a buffer smaller than the body, and
  callbacks that choose for each field.
- **Websocket** - both ends, each with a reader and an application. A length has
  digits to a small base, so that all three forms are short; `Shifts` are what is left of
  it when digits are taken away. Data longer than `Mem` needs memory, and there may be none.
  A write may be cut short (`Cuts`) by the time or an error while the other end still reads.
- **Cgi** - workers, programs, pipes of one unit, and the timer thread; each step of a
  request may fail, and the client's body may end early.
- **Texts** - functions from sequences of characters, compared with what the texts
  mean: a path with a stack of segments, a pattern with the set of lengths it can
  take, a form or cookie with the pairs it was made of.
- **Viewer** - the page of the log: stdio reads of a file that is truncated and
  written again, cut into lines by `strtok`.
- **Chars** - helpers on texts as sequences of characters.
- **Messages** - where the head of a message ends, the words of its first line, its
  headers, and what they say of its body; compared with the parts it was put together from.
- **Options** - lists of ports, opened one by one while any call may fail; access lists;
  speeds.
- **Pages** - server-side includes, nested, and directory listings with their order.
- **Requests** - `handle_request` for a URI no handler is registered for: redirect,
  decoding, `interpret_uri` with indexes, scripts and zipped copies, passwords, CORS,
  methods; and the domain a worker's connections are served for.
- **Errors** - the callback, the owner's pages and the server's own text, over a response
  that may have begun; each may meet another error.
- **Transfer** - the loops around `send`, `recv` and `poll` against a clock: timeouts,
  the stop, a client that goes away, the speed limit.
- **Infos** - the JSON texts, block by block, into a buffer of any length.
- **Client** - `mg_connect_client`, `mg_get_response`, `mg_download` and the websocket
  client with its thread; every step may fail, `held` is what must be given back.
- **Library** - users of the libraries and of the crypto, the TLS contexts of servers
  and domains, a handshake that chooses among them by name, and certificates that are
  read again.
- **Hpack** - the arrays of the Huffman code; the coding of texts and numbers, down to the
  bits.
- **Http2** - the table of the first 61 headers, a client with its table, the server with
  its own, the headers of each request, the handler's calls and the response; `heap` are the
  strings allocated. The server appends to its table; an entry of the client carries what it
  would mean if the table were numbered from its oldest header on.
- **Credentials** - the fields of an Authorization header, a password file with the files
  it includes, the response; base64. A hash is the text it was made of, so equal hashes
  are equal texts.
- **Passwords** - calls of `modify_passwords_file`, step by step, while requests read the
  file; the nonces with their mask and counter; a full disk, a crash and a restart.
- **Environment** - the block of a CGI program's variables, which moves when it grows, and
  the pointers into it.
- **Spawn** - which process holds which end of which pipe, from `pipe()` to the last
  `close`; `exec` closes what is marked.
- **Logs** - the access and the error log: one `fopen`, the lines' blocks, a full disk; the
  time of a line in `localtime`'s one struct.
- **Standalone** - `main.c`: where the configuration file is, its lines in a buffer that is
  not cleared, the options of the command line, absolute paths, what must exist, domains;
  the URL of the client mode.
- **Civet** - six parts in which somebody waits for somebody, whose calls must end, for any
  values of their constants. One of them runs (`part`), the others are `Idle`.
- **MCCivet**, **MCContent** - an instance of each of the twenty-five parts, one at a time,
  so that one run checks several. MCCivet gives the constants of Civet their values and adds
  one more part of that kind, Forms; MCContent has the eighteen that read, store, send and tell something, with the questions of those that
  answer one question. Their properties join those of the parts that are of a kind; each is
  stated and explained in its module.

| Model | Code |
|---|---|
| `squeue`, `sqHead`, `sqTail`, `stop` of Server | `ctx->squeue`, `sq_head`, `sq_tail`, `stop_flag` |
| `mpc`, `wpc`, `app` | program points of `master_thread_run`, `worker_thread_run`, `mg_start2` and `mg_stop` |
| `info`, `list` of Handlers | `struct mg_handler_info`, `dd.handlers` |
| `buf`, `requestLen`, `contentLen`, `consumed`, `isChunked` of Connection | fields of `mg_connection` |
| `fs`, `node` of Files | directory entries, inodes: an open file outlives its name |
| `fbuf`, `from`, `next` of Forms | `buf`, `hend`/`val`, the boundary found |
| `reader`, `app`, `lock` of Websocket | `read_websocket`, the caller of `mg_websocket_write`, `conn->mutex` |
| `proc`, `timers`, `timer` of Cgi | `references`, `ctx->timers`, `timer_thread_run` |
| `io`, `lastTime`, `lastBytes`, `clock` of Transfer | locals of the loops, `conn->last_throttle_time`, `conn->last_throttle_bytes`, the clock |
| `lib`, `server`, `cert` of Library | `mg_init_library_called`, `cryptolib_users`, the handles of the loaded libraries; the list of `mg_domain_context`; the file of `ssl_certificate` |
| `held`, `link`, `thread` of Client | what is allocated; the connection; `websocket_client_thread` |
| `table`, `fields`, `heap` of Http2 | `conn->http2.dyn_table`, `request_info.http_headers`, live strings |
| `disk`, `node`, `caller`, `run` of Passwords | names and inodes; program points of `modify_passwords_file`; `auth_nonce_mask`, `nonce_count`, `start_time` |
| `holds`, `marked` of Spawn | the descriptor table of each process, `FD_CLOEXEC` |
| `got`, `sent`, `fate`, `body`, `heads`, `wrote`, `theirs`, `sentBy`, `versions`, `overlap` | history, or the other end |

## The runs

One run for each question; `CHECK_DEADLOCK FALSE` throughout, since the
simulation, a connection, a form end, and a server may wait for ever for a client.

| Run | Instance | Shows |
|---|---|---|
| `solo` (Solo.cfg) | 18750 initial holdings | `TypeOK`, `BuildsSucceed`, `AsksAreSound`, `LoopsAreCalls`, `BuildsSettleTheNeed` |
| `trade` (MCHermes.cfg) | 2 countries, 8 worlds: one for each outcome of a scan, and two that fill a queue of 2; fair | `TypeOK`, `DealsBalance`, `NoDebt`, `NothingLost`, `OnePlace`, `TradeMakesNothing`, `RoundsEnd`, `TradesAreClosed` |
| `war` (MCWar.cfg) | 3 countries, one a bystander; 2 rounds and an attack that takes everything | `OffersAreOpen`, `TakenIsFresh`, `WholeInv` |
| `invasion` (MCInvasion.cfg) | 2 countries, 6 files, 5 sizes of a force | `ModifierFitsTheDie`, `BeginsWithPeople`, `VerdictIsRight`, `AttacksAreLosses`, `WornDown` |
| `server` (MCServer.cfg) | 2 workers, a queue of 2, 5 connections, every failure of the start | `TypeOK`, `ServesItsOwn`, `WorkConserving`, `FreedIsQuiet`, `ImplementsDispatch`, `EveryoneServed`, `StopEnds` |
| `civet` (MCCivet.cfg) | seven parts, see below; fair | `TypeOK`, `HandlersStay`, `InStep`, `FieldsAreTheClients`, `MessagesAreWhole`, `GivenBack`, `CallsEnd` |
| `content` (MCContent.cfg) | eighteen parts, see below | `FilesAreWhole`, `TransfersAreHonest`, `AnswersAreRight`, `RequestsAreServed`, `StoresAreWhole` |

Five runs end in a counterexample; each is a disagreement between the code and
what a comment, a message or a document says of it.

| Run | Says | Does |
|---|---|---|
| `failed_trade` | "Trade Failed for" (`Country.java:559`) | the manager settles while the owner's wait times out; the partner carries the trade out, the owner does not |
| `shutdown` | "shutdown the manager and the associated thread" (`AlienInvasion.java:147`) | the manager is blocked in `take()` on a queue emptied after `isEmpty()` |
| `stalemate` | "The program can run up to 3 hours" (`README.md:48`) | two people and a few aliens lose nobody to any percentage, whatever a fair die shows |
| `stop_hangs` | "let it signal sq_empty condvar to wake up the master" (`civetweb.c:18862`) | the last worker to leave signals, the master fills the queue and waits, the worker reads the stop flag: `mg_stop` never returns |
| `early_release` | "waits until a removing/updating handler becomes unused" (`civetweb.h:498`) | a request that its callback declined and whose file is refused gives its reference back twice |

The properties of `civet` and `content` are conjunctions, one conjunct for each part they
are about:

| Property | Of the parts |
|---|---|
| `TypeOK` | Handlers, Connection, Cgi, Client, Spawn, Websocket: types, and bounds of counts, lengths, places and lists |
| `HandlersStay` | Handlers `OneEntryEach`, `UnusedUnlessStray` |
| `InStep` | Connection `InStep`, `BodyIsTheClients`, `KeptIsComplete` |
| `FilesAreWhole` | Files `AnsweredOnce`, `PutIsWhole`, `GetIsWhole` |
| `TransfersAreHonest` | Transfer `TransfersAreHonest`, `CallsEndInTime`, `SpeedIsLimited` |
| `FieldsAreTheClients` | Forms `TypeOK`, `GotIsTheValue`, `NothingMissing`, `StoredIsTheValue` |
| `MessagesAreWhole` | Websocket `MessagesAreWhole` |
| `AnswersAreRight` | Texts `PathsAreClean`, `TextsMatch`, `ValuesSurvive`; Messages `MessagesAreRead`; Options `PortsAreSet`, `RulesHold`; Pages `TagsAreReplaced`, `ListingIsWhole`; Infos `InfosAreObjects`; Hpack `CodesAreRead`; Credentials `CredentialsAreRead`; Standalone `ProgramsDoAsTold` |
| `RequestsAreServed` | Requests `ScriptsAreRun`, `PasswordsAreAsked`, `RedirectsLead`, `DomainsAreServed`; Http2 `HeadersAreTheClients`, `ResponsesAreRead`, `RepliesAreOrdered`; Environment `EnvironmentIsWhole`, `ProgramsAreTold`; Errors `OneHeadEach`, `ErrorsAreAnswered`, `FramedOnce` |
| `StoresAreWhole` | Viewer `LonePagesAreWhole`; Passwords `PasswordsAreKept`, `RecordsSurvive`, `RequestsReadOneVersion`, `NoncesAreOfThisRun`; Logs `LinesAreLogged`, `LossesAreTold`, `DatesAreOfTheRequest`; Library `LibraryIsCounted`, `ServersAreFreed`, `HandshakesAreTrusted`; Http2 `StringsAreFreed` |
| `GivenBack` | Cgi `GivenBack`; Client `NothingIsLeft`, `ConnectionsAreWhole`; Spawn `DescriptorsGivenBack`, `StrangersAreEarly` |
| `CallsEnd` | Handlers, Connection, Forms, Websocket, Cgi, Client, Spawn: what is begun ends |

Each property of a passing run has mutated definitions (`\* Mutated:` in the
modules) under which the run finds it violated; those that are conjunctions have one
or more in each of their parts.

### Bounds

- Trading. The code's constants (`Capacity` 100, `Patience` 20, `IdleLimit` 100,
  `Depth` and `Frontier` 10, 12 countries) are far larger, but what they count is
  alike: a timeout is reached from any patience by the same step, a queue of two is
  full in the same way, and a race needs two owners and the manager. They differ
  from run to run so that full queues, timeouts before and after a settlement,
  and entries that survive from one node, schedule or round to the next occur.
  `war` takes 100 percent so that a country is destroyed in one attack; the other
  runs leave attacks out (`Damages = {}`), since no country runs while one
  happens; the proofs cover them.
- Invasion. `Crowds`, `Supplies` bound what a round of trading changes, `Sizes` the
  forces tried; `Thou` is 34 and `TenThou` 15 so that a siege is possible between
  small numbers. Populations reach 35, which covers every case of
  `ExecuteAttack` and every row of the table of losses.
- Server. `MaxConns` 5 is one more than two workers and a queue of two can hold, so
  that the master waits; `Size` 2 makes the ring wrap.
- Handlers. Two requests, two setters, two cells: enough for an update that waits
  under a request while the other adds. `UIntMax` 3 lets a count overflow;
  `MaxSets`, `MaxStray`, and `MaxLost` (references lost for one entry) end the behaviours.
- Connection. `BufSize` 4, reads of 1 and 3, a discard buffer of 2, four streams of
  up to three requests: a header, a chunk, a trailer is cut everywhere.
- Files. Two workers, a file with its zipped copy and a directory with its index;
  requests of each method, ranges inside, at and behind the end; `Nodes` bounds
  what is created, `GzipLimit` is 1.
- Forms. `Cap` 12 holds one part but not two; values contain beginnings of the
  boundary, and escapes at every distance from the end; `MaxSlow` bounds how often a
  read is late.
- Websocket. `Base` 2, `Inline` 2 make lengths 1, 3 and 4 take the three forms; `Room`
  14 is the longest header; `Mem` 3 is less than the longest message; `MaxPing` 0 lets one
  ping stay unanswered, `MaxSlow` bounds the timeouts; `Cuts`: a write of the server's
  application is cut before its data, or one of the client's reader after a unit of its header.
- Cgi. Pipes of one unit, a buffer of two, one timer for two workers; programs that
  write too early, too late, too much, only errors, or never end.
- Texts. All texts of up to 5 characters (paths), 4 (patterns and lists); all forms
  of up to two fields with every character that is escaped.
- Viewer. Two pages, a log of two or three fields written three times.
- Messages. Every combination of framing, line ends and up to three headers of sound
  messages, and one of each flaw; `MaxHeaders` is 3.
- Options. Up to three entries, each with what can be wrong with it, and each call failing
  once; networks of 0, 8 and 10 bits.
- Pages. All texts of up to 6 of the characters that make a tag, tags with each command and
  kind, includes that include themselves; a listing whose memory ends at each entry.
- Requests. A tree of fifteen names and seven configurations, all URIs of up to two segments;
  pairs of requests for the domains.
- Errors. Nine statuses, six sets of pages, seven ways of a callback, three stages of a response.
- Transfer. A socket that takes two units at a time; `Timeout` 3 ticks, `Second` 2, up to 8.
- Infos. Buffers of every length up to the longest text; a value that fills a block.
- Client. Two tries of a handshake, two reads of a response, two messages.
- Library. Four calls in a row, which is start, add a domain, a handshake and stop; machines
  with none, one or both libraries.
- Hpack. Every byte, all pairs of 14 sample bytes and all triples of three, whose codes have
  5 to 30 bits; numbers around the ends of all prefixes, with up to three more bytes.
- Http2. `DynTableSize` 3 and a client's size of 2: the table fills, is made smaller, and
  fills again within three frames; two headers in a request, one more than fits is sent.
- Credentials. Files of up to two lines of eight kinds, inclusion three deep (`Depth`).
- Passwords. Two calls of two threads, a crash at any step of them, after which none
  follows; one challenge of each of two runs, in the same second or in two. A file that
  begins with a line that is no record; a copy that is cut behind any part of any line.
- Environment. A block that begins with 9 units and grows several times, 14 variables, and
  allocations that fail at the first, second, third, fifth or sixth and seventh.
- Spawn. Two requests, one pipe for each of the three streams, three kinds of programs.
- Logs. Two workers, a line that fills a block of two, one that does not; room for three.
- Standalone. Files of up to two settings of twelve kinds, with each end of a line; three
  places the program may be called from.

### Fairness

Weak fairness of the driver, of the manager and of each country. The JVM schedules
every runnable thread and every `sleep` ends; `take` and `put` are each called by the
manager only, so nobody can overtake a waiting thread, and weak fairness is enough: a
blocked call is a disabled action. Nothing is assumed about the order of the
queue's waiters or about time. The die of the invasion is fair (`FairDie`): a roll
that is possible for ever is rolled. That is what a random number generator gives
with probability one, and `stalemate` shows that it does not help.

In CivetWeb, weak fairness of each thread of the server, of each worker and of the timer
thread: all are pthreads, and their waits end by a step of another thread. A CGI program
runs on, as processes do; the client's own websocket thread and the call that closes it, and
the processes and the timer of Spawn are fair for the same reasons. Clients, applications, callers of `mg_stop`, spurious wakeups
and timeouts are not fair: nobody has to send, close or call; an application only goes
on with a call it is in. `EveryoneServed` therefore needs no fairness of a
particular worker, and `CallsEnd` for a connection relies on what the code does at a
timeout (`NoMessage`, `ReadEnds`), which is always possible while nothing comes.

## The proofs

Each theorem holds for every value of the constants that meets the named assumptions,
which give the constants their types and which TLC evaluates in the runs.

### Plan and trade

For every finite set of countries, capacity, patience, depth, frontier, number of
schedules and of rounds, damages up to 100 percent and initial holdings in
`Holdings`, from `SoloAssumption`, `TradeQueueAssumption`, `ManagerAssumption`,
`CountryAssumption` and `HermesAssumption`:

| Theorem | Statement |
|---|---|
| `PlannerProofs!LoopsCanBeCarriedThrough`, `AskingIsSound`, `RestingIsSound`, `BuildingSettlesTheNeed` | facts about all holdings |
| `Solo!SoloTypeCorrect`, `SoloBuildsSucceed`, `SoloAsksAreSound`, `SoloLoopsAreCalls` | `Spec => []TypeOK`, `[]BuildsSucceed`, `[]AsksAreSound`, `[]LoopsAreCalls` |
| `Solo!SoloBuildsSettle` | `Spec => BuildsSettleTheNeed` |
| `HermesProofs!InvariantHolds` | `Spec => []IInv` |
| `HermesProofs!TypeCorrect` | `Spec => []TypeOK` |
| `HermesProofs!HandledIsNeverTaken` | `Spec => []TakenIsFresh` |
| `HermesProofs!SettledOnce` | `Spec => []OffersAreOpen` |
| `HermesProofs!TradesBalance` | `Spec => []DealsBalance` |
| `HermesProofs!NobodyInDebt` | `Spec => []NoDebt` |
| `HermesProofs!EntriesAreInOnePlace` | `Spec => []OnePlace` |
| `HermesProofs!NothingIsLost` | `Spec => []NothingLost` |
| `HermesProofs!UsedOnce` | `Spec => []UsedInv` |
| `HermesProofs!NothingIsMade` | `Spec => TradeMakesNothing` |
| `HermesProofs!WholeInvariantHolds` | `Spec => []WholeInv` |

None of the safety properties is inductive. That the manager
never settles an entry twice needs to know that whatever it can still reach (the
queue, the rest of the scan, its hand, its best offer) has not been matched, with
one exception: between a settlement and the removal, the best offer is both
matched and in the queue, and then the manager is `Settling` and looks at
nothing else (`ManagerInv`). That stays true when a country adds an entry because
new entries carry a batch number higher than any that has been filed
(`FiledInv`). That nobody gets into debt needs that a country still has what its
open entries offer, which holds because its thread does nothing else while it
waits (`CountryInv`), that a settled trade takes no more than was offered
(`DealsBalance`), and that attacks happen only when no country thread runs
(`MainInv`). A zombie, an entry its owner has given up, may well be matched; it
belongs to no `trades` set, so its owner never pays, and the proof does not care.
`NothingIsLost` adds `Marked`: the manager lets go of a settled entry only when its
flag is set.

`TradeMakesNothing` is about a sum: what all countries hold, plus what settled trades that
are not carried out yet will move. Three kinds of steps touch it. A settlement adds two
entries whose moves cancel out, since each gives what the other takes; an owner who uses a
result moves the same amounts from the second sum to the first; everything else touches
neither, or only what `Transform` and `Attack` are excepted for. The second
kind needs that no result is used twice (`UsedInv`). Countries must be finitely many for
the sum to mean anything, which `HermesAssumption` says. `WholeInv` joins the three
invariants; `war` checks it.

The closed forms of the transform loops are proved by an induction over the calls
(`SameSteps`). The library's induction rules cannot be used, as they are about an operator;
`LeastNatural` takes their place, the least element of a set of naturals, which the library
has for well-founded relations: the least call that would differ does not. In the same
way `AddersExist` and `AddersAgree` find what a sum over a finite set is, from the
community modules' definition, and `TotalRemove`, `TotalAdd`, `TotalChange`, `TotalNat`
how it changes.

The proof is layered. `PlannerProofs` has induction, sums, what the operations on lists do
to the set of their elements, and what the plan promises; `HermesProofs` has one lemma per
action of the manager and of a country, reduced by a frame lemma (`QuietStep`,
`QuietCountryStep`) to what the action touches, then adds the driver and concludes.

### The invasion

For every list of countries without repetitions, every content of the file, any
holdings and any numbers of people a round may leave, any size of the force, and any two
thresholds, from `InvasionAssumption`:

| Theorem | Statement |
|---|---|
| `InvasionProofs!InvasionInvariantHolds` | `Spec => []InvasionInv` |
| `InvasionProofs!ModifierFits` | `Spec => []ModifierFitsTheDie` |
| `InvasionProofs!BeginsRight` | `Spec => []BeginsWithPeople` |
| `InvasionProofs!VerdictHolds` | `Spec => []VerdictIsRight` |
| `InvasionProofs!AttacksAreKnown` | `Spec => AttacksAreLosses` |

The verdict is taken from what the driver remembers, the list of countries, and must be
true of the countries themselves. `InvasionInv` therefore says that whoever is not on the
list has nobody left, and that the country to attack is on it, although trade may have
moved its people away. The number of people is no invariant: one-sided trades make and lose
some. A round begins with people because the driver has counted them (`GetNextCountry` ends the
invasion otherwise), and the verdict is given before anybody trades again. When the aliens are
beaten, somebody is left: they are only beaten by a country with people (`AliensLast`), since
losses of up to 52 percent, rounded down, never take the last alien (`CutLeavesSome`), or there
never were any; that is only possible in a world of one person, whom no percentage kills
(`OneIsWhole`), and who stays alone, since only countries of five offer people. This is why the invariant
carries `aliens > 0 \/ (People(DOMAIN res) = 1 /\ ~crowded)`. The bounds of 52 and 35 percent are read
off the table of the die, row by row (`TableIsBounded`), and off the two rows that grow with
the modifier, for which the modifier's own bound is needed. `AttacksAreKnown` ties the two
models: Hermes lets an attack take any of `Damages`, and every outcome of `ExecuteAttack` is
such a loss with at most 35 percent, or everything.

### The server's threads

For any number of workers, any size of the ring, any number of connections and any failures
of the start, from `WorkersAssumption`, `SizeAssumption` and `ConnsAssumption`:

| Theorem | Statement |
|---|---|
| `ServerProofs!InvariantHolds` | `Spec => []IInv` |
| `ServerProofs!TypeCorrect` | `Spec => []TypeOK` |
| `ServerProofs!ServesOnlyItsOwn` | `Spec => []ServesItsOwn` |
| `ServerProofs!FreedMeansQuiet` | `Spec => []FreedIsQuiet` |
| `ServerProofs!WorkIsConserved` | `Spec => []WorkConserving` |
| `ServerProofs!ServerImplementsDispatch` | `Spec => ImplementsDispatch` |

The invariant has five parts: in which order threads begin and end (`LifeInv`); that the
master has the last connection it accepted (`MasterInv`); that the ring holds waiting
connections in the order of acceptance (`RingInv`); that what a worker has nobody else has
(`HoldInv`); and that every connection that waits is with one of them (`PlaceInv`). The
indices of the ring grow up to twice its size before both are reduced; `Slots` says what
their remainders are. `WorkConserving` needs little of it, that threads start once: a produced connection
wakes a waiting worker or finds none, a worker that falls asleep has found the ring empty,
and so there are always as many workers awake as connections in the ring; the proof counts
both. The refinement takes the last step: `Where(c)` computes the abstract state of a
connection from its place, each action moves one connection or none (`OneMoves`,
`NoneMoves`), and what Dispatch demands of a move is what the invariant knows of the
place: that the head of the ring is the earliest that waits, and that no more than `Size`
wait while the master has none (`RingIsBounded`).

### Six parts of CivetWeb

For any number of threads, requests, calls, programs, streams and messages, any sizes of
buffers, pipes, and counters, from `HandlersAssumption`, `ConnectionAssumption`,
`CgiAssumption`, `ClientAssumption`, `SpawnAssumption` and `WebsocketAssumption`, which
`PartsAssumption` of Civet joins:

| Theorem | Statement |
|---|---|
| `CivetProofs!HandlersSafe` | `H!Spec => [](H!TypeOK /\ H!HandlersStay)` |
| `CivetProofs!ConnectionSafe` | `K!Spec => [](K!TypeOK /\ K!InStep /\ K!BodyIsTheClients) /\ [][K!KeptIsComplete]` |
| `CivetProofs!CgiSafe` | `G!Spec => [](G!TypeOK /\ G!GivenBack)` |
| `CivetProofs!ClientSafe` | `C!Spec => [](C!TypeOK /\ C!GivenBack)` |
| `CivetProofs!SpawnSafe` | `S!Spec => [](S!TypeOK /\ S!GivenBack)` |
| `WebsocketProofs!WebsocketSafe` | `WebsocketAssumption => (Spec => [](TypeOK /\ ((\A e \in Ends : Whole(e)) => MessagesAreWhole)))`, of Websocket |
| `CivetProofs!PartsInvariantHolds` | `Spec => []PartsInv`, the six invariants together |
| `CivetProofs!TypeCorrect` | `Spec => []TypeOK` |
| `CivetProofs!HandlersAreStable` | `Spec => []HandlersStay` |
| `CivetProofs!EverythingGivenBack` | `Spec => []GivenBack` |
| `CivetProofs!MessagesArrive` | `Spec => []((part = "websocket" => Uncut) => MessagesAreWhole)` |
| `CivetProofs!ConnectionsStayInStep` | `Spec => InStep` |

What is assumed. Handlers: finitely many worker threads, fewer than an unsigned int counts;
an entry's address is not NULL. Client: a handshake is tried at least once. Spawn: names are
told apart. Cgi: a program does what a program can do. Connection: a client sends sound
requests, one after the other and in any framing, the wrong one included, and may stop or hang up
anywhere (`Sound`); a stream that breaks off a request and goes on with another is outside,
and outside the model, whose `Streams` are requests. `Sound` speaks of a stream by the unit
that may come next (`Framing`, `Content`), since what it tells apart is where a header, a
chunk or a trailer may begin. Websocket: the length of a message has at most eight digits, as
many as a header has room for, and applications leave pings and pongs to the library when it
has to do with them (`PingPong`), since it does not give those to the callback.

Six invariants, each of which says where something is:

- `HandlersInv`. A count is only right while no reference was given back twice (`stray` = 0,
  the case `early_release` shows), and then it is the number of requests that hold the entry
  (`Counted`); a setter that waits for zero therefore changes nothing under a request.
  That the list holds one entry for a type and URI does not depend on it (`ListedOnce`).
- `ConnInv`. There is a place `q` in the stream such that the buffer, the socket and what
  the client has not sent yet are three pieces of the stream from there (`Lies`), the request
  in the buffer is the one of number `handled + 1`, and what lies behind what was
  consumed may come there (`ContentIs`): content of the body, the end of a chunk, the next
  size, or the next header. The reads and the moves of the buffer leave it; `q` changes when a
  request is closed, whose header, body and trailer are then all behind it.
- `CgiInv`. The references to a process's data are those of its request and of its timer
  (`RefsAre`), so the one that takes the last frees them, whichever it is; a timer is in
  the list, or in the hand of the timer thread, once. What the program has written is in the
  buffer, the pipe, or the reply (`BodyIs`). The conjunct about the reply needs that the
  program has ended when the request ends without being cut.
- `ClientInv`. Each of the seven resources is held exactly from the step that takes it to
  the one that gives it back (`HeldAt`), which needs to know which steps belong to which call, and
  when the websocket's thread lives (`StepsOfCall`).
- `SpawnInv`. What a program holds of the pipes of another request follows from where that
  request was at the fork (`Stranger`); until `exec` also what is marked to be closed.

- `SocketHolds`: the types always, and `SocketInv` as long as no write was cut (`Quiet`). What is on the way to an end is what its reader has in hand, what is in the
  network, and what the other end's application has still to write of a message whose header
  is sent, one behind the other (`Coming`). This is a chain of whole frames (`Carried`): after what is
  left of the frame that has begun (`Ahead`), the next message that was not yet given, then the one
  after it, and so on to the last one sent, with pings and pongs anywhere between two
  messages. A chain is not defined by recursion, which could not be proved about, but by the
  places of its frames: there is a set of them, with the message each has come to, that
  contains the first and with each place that where the next frame begins (`Chain`). That it stays one is what the mutex is for: between a header and its
  data nobody else writes, which `Local` says by who holds it. It does not matter into which
  pieces the network cuts the chain, as a piece only moves from one part of it to the next
  (`Rejoined`). What `read_websocket` finds at the beginning of the buffer is the header of the first
  frame, all of it or a part that it knows to be too short (`FrameIs`), for each of the three forms of
  a length (`DigitsAreRead`) and with or without a mask (`UnmaskIs`); a message that is
  given is therefore the next one (`Gotten`). `Refused` and `Unasked` are about the handshake.
  A cut write breaks the chain for good; that what was given before it was right, the other
  half of `MessagesAreWhole`, is only checked.

The invariants are combined by `part`: a step of Civet is one of the part that runs, and
leaves the others as they are. CivetProofs takes the facts about `SocketHolds` from an instance
of WebsocketProofs, whose definitions are those of the instance of Websocket in Civet
(`SocketSupposes`, `SocketBegins`, `SocketMoves`, `SocketMeans`).

### Only model-checked

- Liveness: `RoundsEnd`, `TradesAreClosed`, `WornDown`, `EveryoneServed`, `StopEnds`,
  `CallsEnd`. It rests on fairness and `ENABLED`, which the prover does not have.
- What the callbacks of a websocket were given before a write was cut (`MessagesAreWhole`).
- Forms (`FieldsAreTheClients`), and the parts of `content`
  (`FilesAreWhole`, `TransfersAreHonest`, `AnswersAreRight`, `RequestsAreServed`, `StoresAreWhole`).
  The modules that take texts apart (`Texts`, `Messages`, `Options`, `Pages`, `Requests`,
  `Errors`, `Hpack`, `Credentials`, `Standalone`, ...) are written with recursive operators,
  which the prover cannot use; MCContent instantiates them, so a theorem could only be
  about one of its parts, not about its properties.

## Observations

Seen while modelling; each is what the code does, and is modelled that way unless said
otherwise. They have no run of their own. Where a property holds only outside of one of
these cases, its condition says so.

Simulation:
- `Manager.java:89`: an entry withdrawn while the manager holds it is put back into the
  queue; its owner is gone. Trading tolerates these (`NothingLost`, `TakenIsFresh`).
- `Manager.java:188-191`: the branch "the need of the trading country is more than we
  have to give, and they have less than what we need" is reached with offers that suffice.
- `Country.java:386`, `:971`: 5 people with 1 house need houses and plan none.
- `AlienInvasion.java:330-334`: the loop has no braces, so the amount compared is the last
  resource's; `:342`: an empty `else` takes the next statement; `:398`: the bounds
  of the random size collapse for one or two people; `TwentySidedDie.java:532` repeats
  the row above it.

Server threads: when the start fails after `set_ports_option` the listening sockets stay
open; the result of creating the master is not looked at; sockets that wait when the
server stops are freed without being closed.

Handlers: authorization handlers are not counted (`civetweb.h:613` says they are used
like the others); an update, unlike a removal, sets no mark and may starve; a request by
HTTP/2 that is sent away to HTTP/1 (`civetweb.c:14286`) does not give its handler back, and who
removes that handler later waits for ever.

Connection: the 413 answer at `civetweb.c:17713` cannot be reached.

Files:
- a PUT that expects 100-continue gets no final answer: its "100 Continue" counts as the
  response, and a later head is refused; one with a range is answered 200, not 206;
- `put_file`'s answer 414 cannot be reached by a request: the path has been cut to the length
  of `put_dir`'s buffer before (the model has it for `mg_store_body`, which is called with any);
- a PUT whose body is cut off by a timeout or the stop is answered as a success;
- a partial PUT opens the file with "w" and loses what it does not send; a wrong
  Expect header empties the file;
- `remove_directory` returns the inverse of what its caller expects: 500 after a
  successful removal;
- `mg_fopen` resets `is_gzipped`, so the answer 416 cannot be reached; a range that
  ends at the size is one byte too long, one that begins behind it has a negative length;
- PUT and DELETE of a directory with an index file act on the index file; `mkdir` of two
  requests at once fails one of them; `mg_store_body` takes a read error for the end.

Forms: an incomplete multipart body returns -1 with the file still open; a url-encoded
value that is stored is stored undecoded; a timeout is taken for the end of a url-encoded
body; an abort by `field_get` within a long part may go on; an escape cut by the end of the body is
never given up, which is why only well-formed bodies are modelled.

WebSocket: a client's PING and PONG are not masked; `MG_MAX_UNANSWERED_PING` of 5 allows
six; the rest of a frame is awaited without limit; fewer than 14 free bytes behind the
request can make a frame's header unreadable, and the connection is closed; after a write that
was cut short the lock is released and nothing is closed, so the next frame is read as the rest
of the cut one, and the callback may get a message nobody has sent.

CGI: `abort_cgi_process` takes a program that has exited with 0 for one that runs, and kills
a process number already reaped, which the comment at `civetweb.c:11233` rules out;
a timer that is refused (`MAX_TIMERS`) leaves its reference counted; the stop drops the
timers, and then waits for a worker that may wait for a program for ever; a program that
exits before it has read its input is answered 500; output cut by an abort looks complete; a
body that is cut by a timeout or the stop is given to the program as if it were whole; a request
whose environment cannot be prepared gets no answer (`civetweb.c:11297`).

Texts: `match_prefix` loses an alternative that matches nothing ("*|b"); `header_has_option`
takes any beginning of an option for it, and not "gzip;q=1"; an absolute URI without a port
whose path has a colon is refused; `mg_get_var2` compares names as they were sent.

Viewer: `strtok` keeps its place in one variable for all workers, so pages served
together cut each other's lines; the log is written in place; the handler is set after
the server has started; `mg_stop` is never reached.

Messages: an empty line before a request makes `read_message` take its four bytes for the
head, while `parse_http_request` skips them (`civetweb.c:10602`); a response without a
reason takes its first header for one, or is refused; a folded line ends the list of
headers silently, and those beyond 64 are dropped, Content-Length too; a TAB makes a
message malformed although `parse_http_headers` skips them; "12x" is a length of 12.

Options: when memory ends at the second array `set_ports_option` frees the first and keeps its
pointer (not modelled, like numbers above 255 in an address and octal ports); a blank
after a speed makes its entry ignored; a network whose host bits are set matches nobody.

Pages: the depth of 10 is counted twice for each include, so five can be nested; a tag
longer than the buffer drops the rest of the file.

Transfer: a limited `mg_write` can send twice its limit within one second, and leaves what
a later part has sent partly out of what it returns.

Requests: `local_uri` is read at the length the URI had before it was decoded
(`civetweb.c:14443`; nondeterministic in the model); `conn->dom_ctx` is set when a
worker starts (`:18860`) and kept, so a request that names no domain, or an unknown one,
is served for the one an earlier request has named; `mg_construct_local_link` ignores its
`define_uri`; a directory whose name matches the pattern of scripts is run; a
password file that cannot be opened protects nothing; a script of which only a zipped
copy exists is sent as it is; index scripts are looked for up to the root of the file system.

Errors: a static error page is sent with the status 200 (`:9928`), and obeys a Range header;
an error after a head was sent appends its text; over a head that was begun but not sent,
the handler's headers stay; a status out of range gives a body without a head.

Client: `SSL_CTX_free` is called when the mutex fails even without TLS; the mutex is not
destroyed when TLS fails; two failures leave no text; closing from the websocket's callback
joins the thread with itself (outside the contract, and the model).

Library: `initialize_openssl` counts a user even when libssl cannot be loaded, and nothing
counts servers down; `free_context` never frees added domains; a failed `mg_start_domain2` leaks
its options; `refresh_trust` notes the time before it has read the certificate; ALPN compares
one character too few.

Infos: a buffer of four holds "\n}\n" without its "{"; up to three hold "{" or nothing; the
object of the user ends in a comma; a value longer than a block is cut within its quotes;
the connection is read without a lock.

HTTP/2: a code longer than its text is OR-ed into memory that is not zeroed; a code of 127
bytes or more is not written, so its header has no value; entry 16 of the table has no value,
and a header that refers to it ends the connection; the six settings are all sent with id 1;
entries are appended at the end of the table and its size counts entries (the RFC: newest
first, octets), nothing is evicted, and a full table ends the connection; a handler that only speaks
HTTP/1 is reset, and then a final DATA frame follows; HEADERS without END_HEADERS are
handled at once; strings of a connection with a bad primer, and the copy of `local_uri`,
are not freed. `HeadersAreTheClients` is stated for a client that numbers the table as the code
does, from the oldest header on, and for one of RFC 7541 where the two agree: in the 61 headers
both know, and in a table of at most one.

Credentials: a backslash in a user's name stays in the name; a header without a uri is
accepted, because the list of what is hashed ends early; an included file that refuses
leaves the decision to later lines, a line of the file itself does not.

Password files: all calls write the same `file.tmp`, and two that overlap can lose the
file; between `remove` and `rename` there is none, and a request for the directory is not
asked for a password; a process that dies there leaves only `file.tmp`, and
the next call (which the model leaves out) begins with an empty file. The results of `fprintf`
and `fclose` are ignored: on a full disk a cut copy replaces the file, and the call returns 1.
Lines that are no records, comments and included files, are lost at the first change.

Stand-alone program: a last line with a name and no newline takes what the line before has
left in the buffer for its value, and the first line what was on the stack; options that
are lists are appended, not overridden (`main.c:938` says overridden); `realpath` of what is not
there gives the path up to the first part that is missing; a line longer than the buffer is
two lines; the table of options names the fourth CGI pattern "cgi2_pattern"
(`civetweb.c:2115`), so it cannot be set; `hide_tray` accepts anything.

CGI processes: a child that is forked between another request's `pipe()` and
`set_close_on_exec` holds that request's ends, too (`StrangersAreEarly` says no later one
does); two programs that read to the end then wait for each other until a timer aborts one.
Headers "a-b" and "a_b" become one variable; variables of the owner come last, and are dropped
silently when there are too many; a URI that ends in "/" with a program in no directory
gives no SCRIPT_NAME.

Logs: `localtime`'s struct is shared, so a line can have another request's time, or fields of
two; lines longer than a block can mix in the error log; a line that is told as lost may have
been completed by `fclose`; what the error log loses is not told.


## Not modelled, and what comes next

- The test drivers run the threads of the simulation with fewer steps. Reading and
  writing files and logs is I/O; the maps of `Node`s are only logged.
- TLS: the handshake and the record layer are a library's; `mod_mbedtls.inl`,
  `wolfssl_extras.inl` and `openssl_dl.inl` are calls into it or tables of its names. Library has
  what CivetWeb does around them.
- Lua and Duktape (`mod_lua.inl`, `mod_duktape.inl`) decide in an interpreter what happens.
- WebDAV's properties and its ten locks; `lastModified` and the other dates of files; the
  conditional requests besides `unchanged`; compression on the fly (`mod_zlib.inl`).
- `CivetServer.cpp` wraps the calls of Handlers, Infos and Server; the examples, the unit and the
  fuzz tests use the library and were read for what they expect of it.
- Of `main.c`: the Windows service and tray, the prompt of the password option, signals.
- `md5.inl`, `sha1.inl`, `sha1` of the websocket handshake: pure algorithms over 32-bit words.
- HTTP/2 has no flow control, priorities or CONTINUATION in the code; the bytes of a frame's
  head are left out.
- **Exchange**: an abstract specification of trading (post, settle a pair of
  entries at once, use, give up), with `Hermes` shown to implement it.
- Proofs of Forms, and of `RecordsSurvive` of the password files.
