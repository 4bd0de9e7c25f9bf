# A TLA+ model of the Backendify HTTP facade server

Backendify is an asynchronous C++ server (Boost.Asio, Boost.Beast). It answers
`GET /company?id=..&country_iso=..` by asking the backend of the country,
translates the two formats of the backends into one, and caches the result.
The repository also has a prototype backend, `BackendServers/BackendApi.cpp`,
with the HTTP server of `BackendServers/httplib.h`. This directory models both
programs in TLA+, checks the models with TLC and proves their safety properties,
all but one, with TLAPS. Paths below are relative to the repository's `src/`,
the ones under `BackendServers/` to the repository.

## Inventory

| Component | State | Operations | What makes it correct |
|---|---|---|---|
| `core/HttpServerSession` - one client connection | request, response queue, `write_in_progress_`, `current_write_op_completed_`, diagnostic timer, finish callback | run, on_read, handle_request, send_response, do_write, on_write, timer handler, do_close, stop | one operation at a time; answers in order, one each; a connection never gets stuck; stop() ends it |
| `core/Backendify` - the service | active client sessions, and through its members the cache and the breaker | processCompanyRequest, processStatusRequest, completion handler, cancel_active_backend_calls | the query is read as written; one answer per request, the right one, fresh; no call to a backend that cools off; nothing lost |
| `core/AsyncHttpClientSession` - one backend call | resolver, socket, timer, response, callback | run, on_resolve, on_connect, on_write, on_read, on_timeout, cancel | calls back exactly once; ends in bounded time; can be cancelled |
| `core/CircuitBreaker` | end of the cool-off per backend | isTripped, trip | a cool-off is respected |
| `cache/InMemoryCache` | entries, LRU list, LRU map | set, get, exists, remove, clear | the containers agree; bounded; LRU; no stale hit |
| `cache/RedisCache` | the connection | the same | never a wrong hit, whatever happens to the connection |
| `core/BeastHttpServer` | active sessions, acceptor | accept, on_session_finish, stop | it knows every connection that is to be stopped |
| `main.cpp` | I/O threads, work guard, signals, heartbeat | start, signal handler, join | the threads serve until a signal, and a signal ends the program |
| `utils/Utils.hpp` | none | dates, URLs, arguments, configuration, urlDecode | total on its documented inputs |
| `config`, `models` | configuration | the derived limits | an invalid entry never damages a valid one |
| `metrics`, `third_party/UDPSender.hpp` | batches, sender thread | send, queueMessage, destructor | nothing lost, repeated or overtaken; the destructor returns |
| `logging` | a stream | | |
| `BackendServers/BackendApi.cpp` | its arguments | four routes | |
| the server of `BackendServers/httplib.h` | listening socket, job queue, workers, a stream per connection | listen, accept, ThreadPool, keep_alive, process_request, stop | every connection is served and closed once; answers belong to their requests; ranges lie within the content; forms do not depend on how they are cut into reads |

How they interact: the listener creates a session per connection; the session
gives its request and a callback to the service; the service answers at once or
starts a backend call, whose completion calls the session back *on the strand
of the backend connection*. All handlers run on one `io_context` served by
several threads, so handlers of different strands run at the same time. The
signal handler stops sessions and calls from whichever thread it runs on. The
metrics are sent from all these threads through one sender with a thread of its
own. The prototype backend has one accepting thread and a pool of workers; a
worker keeps a connection until it is closed.

What is hard here: handlers of two strands that share a session's members; a
timer that races the completion it guards; cancellation at an arbitrary point
of a chain; exceptions in a completion handler; a cache shared by concurrent
requests; a breaker that is tested some time before the call it admits; a
connection accepted while the server stops; a queue that two threads exchange;
lost wake-ups of a pool; a body left unread on a connection that is kept; a
parser that sees its input in pieces. `PROJECT.json` lists the hazards line by
line.

## Modules

| Module | Models | |
|---|---|---|
| `HttpServerSession` | a client connection | `HttpServerSessionProofs` has its theorems |
| `AsyncHttpClientSession` | backend calls | `AsyncHttpClientSessionProofs` has its theorems |
| `BackendCall` | what a caller may rely on in a backend call | abstract; implemented by `AsyncHttpClientSession`, used by `Backendify` |
| `InMemoryCache`, `RedisCache` | the two caches | their theorems are in `ServerCacheProofs` |
| `CacheInterface` | what a caller may rely on in a cache | abstract; implemented by both caches, used by `Backendify` |
| `ServerCache` | the choice between them | composes the two caches; `ServerCacheProofs` has the theorems |
| `CompanyRequest` | the parsing of the query | pure operators |
| `CompanyResponse` | what becomes of a backend's answer | pure operators |
| `CompanyHandling` | one query read and one answer handled | composes the two and compares both with their meaning; `BackendifyProofs` has its theorems |
| `CircuitBreaker` | the breaker | extended by `Backendify` |
| `Backendify` | concurrent requests through cache, SLA limit, breaker and backend call | composes the store, call, breaker and response; `MCBackendify` has its instances, `BackendifyProofs` its theorems |
| `Configuration` | arguments, configuration file, derived limits | pure operators, extended by `FrontendServer` |
| `FrontendServer` | main, the listener and the threads of the `io_context` | `MCFrontendServer` has its inputs, `FrontendServerProofs` its theorems |
| `UDPSender` | the metrics | `MCUDPSender` has its constants, `UDPSenderProofs` its theorems |
| `HttplibServer` | listening, thread pool and stop() of the prototype backend | `HttplibProofs` has its theorems |
| `HttplibRequest` | one connection of the prototype backend | composes the next three; `MCHttplibRequest` has its requests, `HttplibProofs` its theorems |
| `BackendApi`, `HttplibRanges`, `MultipartFormDataParser` | routes and arguments, byte ranges, forms | pure operators |
| `HttplibSettings` | the limit of the keep-alive loop | shared by `HttplibServer` and `HttplibRequest` |
| `SequenceLemmas` | nothing: facts about numbers and sequences | used by five of the proof modules |

`Mutant_X` is a plausible wrong version of the definition `X` that follows it.
No specification uses one; each shows that a property can fail.

### HttpServerSession

The variables are the members of the class and the asynchronous operations in
flight (`read`, `write`, `timers`, the callback held by the service, the place
reached in a `do_write`). An operation goes from *pending* to its result when
the kernel decides, and its handler runs later; handlers that are ready run in
any order. `on_write` and `handle_request` are split by outcome into one action
each. `do_write` is split where another thread can intervene: between the test
of `is_open()` and the write. `stop()` is split between the flag and the close.
A request is its version and its `Connection` header; a response is the number
of its request and its keep-alive. `received` and `wire` are history.

### AsyncHttpClientSession and BackendCall

One action per handler, one per way an operation can end. `on_timeout` keeps
the code's condition: it acts on a code that is neither success nor
`operation_aborted`, and the wait of a timer ends with one of these two.
`cancel()` may come at any time, before `run()` included, since Backendify
records a session before it runs it.

`BackendCall` has two steps, start and finish. The mapping takes `op` to idle,
running and done, and the history of the callback to the outcome.

### InMemoryCache, RedisCache, ServerCache and CacheInterface

Each operation holds the mutex and is one action. In `InMemoryCache` `get` and
`exists` read the clock twice, at `now` and at a later `t`, and `lru_map_` is
the set of its keys. In `RedisCache` an operation is one command on the one
connection: it is executed and answered, fails with an error reply, or the
connection fails during it, before or after Redis executed it; no command gets
through after that, since `connect()` runs only in the constructor. The Redis
server is external: it expires and evicts entries, restarts, and is written by
other servers.

`CacheInterface` is a store with expiry that may forget entries to make room
(and, if `Lossy`, miss any). Its state shows the last operation with its
arguments (`asked`) and its reply, and `asked` changes with every operation, so a
step of a cache can be explained only by the same operation on the same key: a
`get` that misses a live entry, or returns the value of another key, is no step
of the store. `InMemoryCache` implements it with `Lossy` false, `RedisCache` with
`Lossy` true, so `Backendify` is checked against a lossy store.

### CompanyRequest

The loop over the query is a fold over its characters. An escape is one
character, `%26`, which decodes to a separator: it must not act as one.

### CompanyResponse

Texts are the classes of texts the code tells apart: dates in the past and in
the future, the second before the epoch, a date without its `Z`, other texts,
missing members, members that are no strings. A function that the source leaves
undefined (an uninitialised `suffix` is read for a date without `Z`) returns the
set of results a build may give. A reply of status 0 is an exception that
leaves the handler.

### Backendify

A request runs on one thread until it is answered or its call is started; the
steps are separated where it takes a lock or reads the clock. Ids and countries
are sequences of characters because the cache key is their concatenation. A
company is whose it is, which backend told so and when. `io_threads` counts the
threads left: an exception in a completion ends one. `barrier` is
history. The null and `https` branches of `callBackendApi` are never
reached (the caller has the backend; `parseUrl` rejects `https`), nor is the
catch block of `processCompanyRequest`.

### Configuration and FrontendServer

A line of the file or an argument is reduced to what the conversions see of it.
The map of arguments is read in the order of its keys: a key is a country and
its place among all spellings of countries.
An int has `IntLimit` as its largest value, and the product of hours and 3600
wraps around there.

`FrontendServer` follows `main` from its arguments to its return. `thread` says
for each thread of the `io_context`, the main thread being 0, which handler it
runs and where; a handler is split where it takes or holds `sessions_mutex_`
and where another thread can see what it has done. A session is reduced to what
the listener sees: it waits for its socket or for a backend, is ready, runs, and
finishes, or is lost because its handler threw, which also ends the thread.
`ioc.stop()` lets the handlers that run finish and leaves the others where they
are.

### UDPSender

`queueMessage` takes two steps. It locks only if there is a batching thread;
without one, two callers in it at once are a data race, after which the queue
may lose messages (`raced`). A batch is the sequence of its messages, which
have nothing but a length. A size is a `uint64_t` (`SizeModulus`): where the
`reserve` of a new batch throws out of `queueMessage`, which is `noexcept`, the
program ends (`queueMessage_terminates`). The client is destroyed once, although
`getInstance` makes a second owner. `accepted` and `datagrams` are history.

### HttplibServer

One action per step of the accepting thread and of a worker. A condition
variable wakes only who waits; `notify_one` chooses one of them. `keep_alive`
and the handling of a request end in any way, since their waits are bounded by
timeouts. `stop()` may be called at any time by another thread, although
`BackendApi.cpp` never does. `closes` is history.

### HttplibRequest, HttplibRanges, MultipartFormDataParser, BackendApi

The stream is a sequence of tokens: request line, headers, blank line, bytes,
chunk sizes. A reader takes what comes next for what it expects, so the rest of
an unread body is taken for a request line. A `SocketStream` lives for one
request and takes with it what it has read ahead (`held`). The client sends a
request when the one before was answered, may stop in the middle of one, and
may go away. The parser takes a body in the pieces in which it arrives.
`replies` are the final answers; the `100 Continue` of a request that expects
one is counted apart (`continues`), since it answers nothing. A position of a
range beyond `LLONG_MAX` and a trailer line beyond the limit on headers are
refused, as `std::stoll` and `read_content_chunked` do.

## Runs

Passing:

* `session` - up to three requests on a connection, response limit 1 (the
  smallest; the queue never reaches it). Three requests are enough for a timer
  of the first write to survive into the third request.
* `client` - two calls that do not interact; a second one shows that a step
  touches one call only. `ResponsiveCallsEnd` assumes, within the property, that
  a backend answers or closes the connection.
* `company` - every class of answers with every error code, the answers of the
  prototype backend and malformed ones among them, and every query of up to six
  characters out of a letter, `=`, `&`, `+` and `%26`: enough for two parameters
  with one character each for key and value, an empty key, an empty value and an
  escape.
* `cache` - in memory, three keys for two places, two values, two times to live,
  time 0..3, so that eviction, update, expiry within and between operations all
  happen; in Redis, two keys, with and without a time to live, and a value that
  is no JSON.
* `service` - two spellings of one country: shared key and backend, a throwing
  answer, shutdown at any time, time 0..4 with SLA 1, cool-off 1, TTL 2. Three
  threads, so that one is left after both completions threw.
* `service_liveness` - one thread and four requests: one id in two countries, a
  missing parameter and an unknown country; SLA 0, and SLA misses answered with
  504 rather than dropped.
* `server` - two connections, two I/O threads and main, configuration files of
  up to two lines and up to two arguments. Two connections are enough for one to
  be accepted while the other is stopped; three threads for a stop, an accept
  and a finishing session at the same time. The files name the level `SETUP`, the
  arguments repeat keys and spellings, and a URL ends in a lone `?` or has a
  path. `IntLimit` is 2^20 - 1, which the
  product of hours and 3600 exceeds and the queue limit does not.
* `metrics` - two callers, four messages of length 1 or 2, batch sizes -257, at
  which `reserve` throws, -1, 0 and 2, intervals negative, 0 and 1000, an
  unusable endpoint and host. Four messages fill a batch beyond its size, open a
  second one and leave one for the time after an exchange.
* `backend_server` - three connections, two workers, at most one job queued: a
  connection is refused while both workers are busy. Keep-alive is 2.
* `backend_request` - every framing with every method, every early error, ranges
  and forms, and pairs of requests; at most 2 files, headers of 4 bytes, forms
  of 2 bytes, 4 ranges, positions up to 6, so that each limit is met and passed.
  Forms come with a length and in chunks, and are cut at every byte.

Violations, each a place where the code does not do what a comment or a
document of the repository says (`findings` in `PROJECT.json` quotes it):

* `client_timeout` - the timeout of a backend call has no effect.
* `service_lost` - a bad date loses the request and an I/O thread. Deadlock is
  not checked in this run: with its threads gone the server does stop.

## What else the models show

Properties are stated so that they hold of the code. These are the behaviours
around which they are stated, or which the actions show although no run asks
for them:

* Client connection: the handler of a timer that expired while its write
  completed closes the socket under the next write. A dropped request with
  `Connection: close` keeps the connection, as `keep_alive()` is asked of a
  request that was moved from. `request_received_time_` is taken when the read
  is started, so an idle keep-alive connection uses up the SLA of its next
  request.
* Backend call: `cancel()` has no effect while the name is resolved; no socket
  is open yet, and `on_resolve` opens one. `ClosedSocketEndsCall` therefore
  speaks of the later operations only. Completed calls stay in
  `active_client_sessions_` until the program ends.
* Answers: `CODE_DESIGN.md:108` promises 502 for an answer that cannot be
  parsed. JSON that is no object, or with a name or second member that is no
  string, becomes a company with what was read before it - no name, or only the
  name - and active, is sent with status 200 and is cached;
  `FailuresKeepTheirStatus` states this as it is. A connection that the backend
  closes without an answer is an empty 200, answered with 502, and does not trip
  the breaker. A date without its `Z` may be accepted or not.
  1969-12-31T23:59:59Z converts to the `time_t` -1, which `isUTCTimeInFuture`
  takes for a failure and throws; `WellFormedIsFaithful` leaves this date out.
  The cached text keeps its `active` flag when the end date passes.
* The cache key `id:country` is the same for (`x:F`, `US`) and (`x`, `F:US`), and
  the cache is asked before the country is looked up. `AnswerIsForRequest` is
  checked for country codes without a colon.
* Query: a second `=` in a parameter renames its key; `id=5&id` empties `id`,
  `id=5&id=` keeps 5. `QueryIsParsed` states what holds of all others.
* Redis: after the first failure of the connection every `get` misses for the
  rest of the run. `%s` cuts a key at a NUL character.
* The breaker is tested once: a backend that is tripped between the test and the
  call is still called. A call recorded after the shutdown has copied the list of
  calls is not cancelled.
* Configuration: `stringToLogLevel` throws on the level `SETUP`, which
  `backendify.config`, `README.md` and `CODE_DESIGN.md` list as available, and
  the start fails; `ConfigurationIsLastValid` counts it among the unknown
  levels. An argument with an unusable URL replaces an earlier one with the same
  key, so the country has no backend; it does not replace one with another
  spelling. The key read is `metrics_send_interval`; the line
  `metrics_send_interval_in_millis=1000` of `backendify.config` has no effect. A
  URL with a path is rejected because `regex_match` asks for the whole URL; a
  lone `/`, `?` or `#` is accepted. Hours times 3600 wraps around, which damages
  no setting but its own.
* Shutdown: a connection accepted while `stop()` runs is never stopped, and a
  heartbeat that has expired arms its timer again; only `ioc.stop()` ends the
  program. If the constructor of the listener throws, the joinable threads are
  destroyed and the program is terminated.
* Metrics: what is queued after the last exchange is lost with the destructor;
  a sender with an unusable host, or without an interval, queues and never
  sends, and its callers race on the queue; `m_errorMessage` is written without
  a lock. With a `metrics_batch_size` below -256 the first message terminates the
  program. `StatsDClient::getInstance` and `ConsoleLogger::getInstance` make
  second owners of one object.
* Prototype backend: requests sent before the answer to the one before are lost
  with what the `SocketStream` has read ahead. The chunked body of a `DELETE` is
  not read and is taken for the next request. For a URI that is too long the
  headers are read twice. A suffix range longer than the content is refused with
  416. A form whose first boundary is cut by the first read, or whose epilogue
  comes in a later read, is rejected. The limit on the headers of a part is
  looked at when the parser enters the headers and not for each of them: a long
  second header is accepted in one piece and refused if a read ends before it,
  and a header of exactly the limit is refused if a read ends between its CR and
  its LF. `MultipartIndependentOfReads` leaves these forms out (`HeadersFit`).

## Fairness

Ready handlers run, since threads are in `ioc.run()`. In `HttpServerSession`
reads and writes end at the latest with the 30 s deadline of the stream;
nothing is assumed of the client, of the service or of a signal. In
`AsyncHttpClientSession` the resolver and the kernel's connection attempt end,
and the small request fits the send buffer; a backend that has accepted the
request owes nothing. In `Backendify` a running thread goes on;
`ResponsiveSpec` adds that calls complete, which `ResponsiveCallsEnd` shows of
the session for backends that answer or close.

In `FrontendServer` main and a thread in a handler go on and a thread leaves a
stopped context; the signal handler, once ready, is taken as long as threads
keep taking handlers (strong fairness), because the context serves its queue in
order. Nothing is assumed of clients, backends and the operator. In `UDPSender`
threads go on, and the mutex is given to the batching thread if it is free again
and again. In `HttplibServer` threads go on, because the read, write and
keep-alive timeouts bound every single wait for a client, and `accept` fails
once its socket is closed. A timeout bounds each read and not their number
(`stream_line_reader::getline` reads byte by byte): that a request ends is an
assumption on its client, since one that sends a byte every few seconds keeps a
worker for as long as it likes. In `FrontendServer` a handler that runs ends,
which assumes that Redis answers or closes: `redisCommand` has no timeout.

## Proofs

Every theorem is of the form `Spec => []P`, `Spec => [][A]_vars` or a refinement,
for every value of the constants that the named assumptions allow. TLC
evaluates these assumptions in the runs of the module. None of the properties is
inductive by itself.

**`HttpServerSessionProofs`**, for every number of requests and every positive
queue limit (`LimitsArePositive` below shows that `AppConfig` computes one):
`TypeOK`, `OneActivity`, `QueueNeverSheds`, `AnsweredInOrder` and
`TimerClosesOnlyDuringWrite`. The invariant adds what the activity says of the
rest of the state: while reading or waiting, the queue is empty and no write is
in progress; while preparing or writing, it holds exactly the response to the
last request; outside a write the flag keeps every timer handler from acting;
while a request is unanswered, all that is on the wire is older.

**`AsyncHttpClientSessionProofs`**, for every set of calls and answers:
`ClientTypeOK`, `CompletesExactlyOnce` and the refinement of `BackendCall`. The
invariant adds that only a read meets the end of the stream, so no other
handler passes that code to the callback.

**`BackendifyProofs`**, for every finite set of requests, any texts for ids and
countries, any backends, answers and times (`BackendifyAssumption` gives the
constants their types): `TypeOK`, `AnsweredAtMostOnce`, `CoolOffRespected`,
`AnswersAreFresh` and `CancelReachesEveryCall`. The invariant adds that a request
past the lookup has a backend, that until a request asks the breaker, its
backend is tripped at least up to its `barrier`, and after that the barrier has
passed, that an entry of the store expires at the
latest a `Ttl` after its company was received, and that every call that runs is
recorded in `active_client_sessions_`, which is why the shutdown reaches it.
`AnswerIsForRequest` is proved under the hypothesis `ColonFree`, that no country
code holds a colon: then the last colon of a key is the one that was put in, so
equal keys mean the same id and country, and what the store holds under a key is
the company asked for. Without the hypothesis it is false, as said above.

The same module has the theorems of `CompanyHandling`, which need no assumption:
`FailuresKeepTheirStatus`, with what malformed JSON becomes, and
`WellFormedIsFaithful` for every class of answers,
and `QueryIsParsed` for queries of any length over any characters. The first two
are case distinctions over the classes, one lemma per reader of a date and per
format. The third is an induction over the characters. Its invariant says that
after n characters the loop is in the piece that starts behind the last `&`;
that `current_param` is what was read of its key or, after its `=`, of its value,
with the key decoded; and that of the pieces before it exactly those with an `=`
and a key have been stored. Decoding keeps the number of characters, so a key is
empty after decoding only if it was before; the keys of a usual query are
different, so that no later piece overwrites an earlier one.

**`ServerCacheProofs`**, for every set of keys and values, every size, time to
live and time: `TypeOK`, `ContainersAgree`, `SizeBounded` and
`LeastRecentlyUsedGoesFirst` of the in-memory cache, and that both caches
implement `CacheInterface`. The invariant adds that the list has no key twice
and that the key just used is its head. The central lemmas say what erasing a
key from the list leaves, which elements stay, how often and in which order
(`ErasedProperties`), and what the eviction loop cuts off (`KeptProperties`); a
purge of expired entries followed by an operation is one step of the store. For
Redis each outcome of a command - executed and answered, executed and lost, not
executed - is shown to be a step of the lossy store with the same operation and
arguments.

**`FrontendServerProofs`**, for any number of threads and any finite set of
connections: `TypeOK`, `SessionsAreRegistered` and `ThreadsServeUntilShutdown`.
The invariant adds that the connection a thread works on is in the state that
fits its handler, that no other thread works on it, and that a session about to
be run has been registered. For `ThreadsServeUntilShutdown` it adds how far the
shutdown is: as long as the signal handler has not released the work guard, the
context is not stopped and has work, so a thread leaves it only by an exception;
each exception ends one thread and loses one connection, and neither comes back
(`ExceptionCounts`, `LostForGood`).

`ConfigurationIsLastValid` is proved for every file, every list of arguments and
every number of processors: by induction over the lines, after n of them a
setting is what its last valid line among them asks for (`LineAsks`); by
induction over the places of the keys, a country has the backend of the last
usable one so far among the arguments that are the last with their key
(`ArgumentsCount`). The reference multiplies hours without wrapping and asks for
the product only where it is an int. `InputsAssumption` gives the inputs their
types, says that a key determines its place, and that the queue limit is no
larger than an int for the number of processors of the machine (322 thousand of
them for 32 bits).

**`UDPSenderProofs`**, for any callers, messages, lengths, batch sizes and
intervals: `MessagesAreConserved`, `BatchesAreFull`, the type invariant, and
`QueueIsLocked`, the safety part of `SenderMakesProgress`. The invariant adds that
a caller in `queueMessage` holds the lock if there is a batching thread, that the
staged queue is empty outside the sending loop while the thread lives, and that
all queued messages have a length.

**`HttplibProofs`**, for any connections, workers and limits: `TypeOK` and
`ConnectionsClosedOnce`. The invariant says that an open connection is in exactly
one place - with the listener, among the jobs, or with a worker - and that no
worker is left when `listen` returns.

The same module has the theorems of `HttplibRequest`, for any sequences of
requests, any contents and chunks, any cut of the stream into reads and any
limits. `HttplibRequestAssumption` says that requests and arguments have their
types and that the bytes of a content are told apart from the lines of a
request; `HttplibRangesAssumption` and `HttplibSettingsAssumption` that the limits
on ranges and on requests of a connection are positive, as their definitions
are (1024 and 100), and that `LLONG_MAX` is a number.

* `RangesWithinContent`. By induction over the ranges, as long as `range_error`
  has found no error every range so far lies within the content once resolved,
  and a single range is refused only if it does not
  (`RangeError`); resolved ranges select the positions RFC 9110 gives them
  (`ResolvedPositions`). The invariant adds the types, that the request being
  read is one of the client's, and that no more request lines are in the stream
  than requests were sent.
* `AnswersMatchRequests`. The invariant (`InStep`, `Awaited`) says what the stream
  holds in each phase of the reading: behind the bytes the phase still takes it
  goes on as the rest of the request does, as far as the client has sent it
  (`Behind`). So every line that is read is the line the reader expects, nothing
  is left of the request where an orderly answer is written, and the next request
  line is that of the next request. It holds as long as the answers were orderly:
  after any other the rest of a request may be taken for a request, as said
  above.

**`SequenceLemmas`** has what these proofs share: what `Front`, `Last`, `Append`
and `FlattenSeq` do to each other, and induction and definition by recursion
over numbers. The library's induction theorems take a predicate as a parameter,
which cannot be instantiated here; `SetInduction` and `Recursion` take a set and
a function instead. This is why sums, filters and loops over sequences are
recursive functions in the modules that are proved about.

Only model-checked:

* All liveness: `WriteResolves`, `StopEndsSession`, `ClosedSocketEndsCall`,
  `ResponsiveCallsEnd`, `EveryRequestEnds`, `SignalEndsServer`, the progress
  part of `SenderMakesProgress`, `PoolMakesProgress`. The prover does not handle
  fairness.
* `MultipartIndependentOfReads`: that a loop over the whole body and the same loop
  over its pieces find the same files is a statement about what a search and a
  loop compute for every body and every cut, and its provisos are about the whole
  body while the parser sees what is left of it. It is the one safety property
  without a theorem. The run goes through all cuts of 14 bodies into reads, and of
  one that comes in two chunks.

## Not modelled

* Logging: output behind a mutex that guards only the stream.
* The JSON library: not part of the repository; `value()` and `dump()` are
  external operators of `CompanyResponse`.
* The client, TLS, compression, file serving and content providers of
  `httplib.h`: no program of the repository uses them.
* Tests.
* Wording and layout of bodies and log messages, and the metrics counters.
