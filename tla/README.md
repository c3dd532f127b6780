# schwaby in TLA+

schwaby is a Python client of Charles Schwab's trading API: an HTTP client with
OAuth tokens kept in a file, builders for orders, helpers that read what comes
back, and `StreamClient`, a client of the streaming websocket. This directory
models those parts of it whose correctness is more than the wording of a request:
which coroutine runs when, what arrives late, what is cancelled between two
awaits, what a crash leaves behind, and what becomes of a value on its way
through several steps.

`PROJECT.json` lists the components, the runs, the hazards with the property that
covers each, the findings, the theorems, a mutant for every property, and the
source lines behind every definition. Source paths below are under
`src/schwaby/`.

Contents: 1 inventory, 2 the stream, 3 tokens and logins, 4 values, 5 runs,
6 findings, 7 proofs, 8 what is not modelled.

## 1. Inventory

| component | source | state | operations | what makes it correct | modules |
|---|---|---|---|---|---|
| Stream requests and reading | `streaming.py` 644–1713, 2064–2385 | socket, request counter, pending slot, request lock, read lock, frames set aside, queued reports | `login`, `logout`, `close`, the requests, `handle_message` | one outstanding request; nobody blocks for ever; every frame goes to exactly one place, in order; an answer reaches its own request; a rejection is heard once; nothing survives its session | `StreamClient`, `FairLock` |
| Stream dispatch | `streaming.py` 498–526, 1715–2062 | handlers per service, error handlers, running handler tasks | `add_*_handler`, `add_error_handler`, dispatch of `data` and `notify` | a failing handler stops neither the others nor the loop, and its failure is told | `StreamDispatch` |
| Failure reports | `streaming.py` 1190–1347, 1387–1451 | a counter per kind, names already reported, bounded queue | `_absorb`, `_report_new_shape`, the drains | the first of a kind and of a name is heard, a flood is not and silences nothing else | `StreamDispatch` |
| Services, fields, relabelling, view | `streaming.py` 41–150, 1649–1713, 2390–4154 | fields and types already named | the subscribe, add, unsubscribe and view methods, `relabel_message` | a request names the instrument and the fields it was given, a value is passed on under its own name at every depth, new fields are named once | `StreamServices` |
| Token file | `auth.py` 48–180 | the file and temporary files beside it | write, sweep | a reader finds the old or the new token whole; a sweep takes the stale and nothing in use | `TokenFile`, `AtomicToken` |
| Token metadata and session | `auth.py` 181–460, 531–706; `client/base.py` 100–330 | token of the session, of the metadata, of the store; time of the login | building a client, refresh, refusal, write callback, `token_age` | a token that can be renewed is renewed, once; the store follows the session; the age is that of the login; errors say what happened | `TokenSession` |
| Login flows, `easy_client` | `auth.py` 708–1644 | redirect server process, callback port, queue of received URLs, OAuth state | the `client_from_*` flows, `easy_client` | a redirect of another attempt is not used; server and port are given up on every path | `LoginFlow` |
| HTTP client | `client/*.py` | the session | about 40 requests | parameters only | – |
| Order utilities | `utils.py` 155–1035 | problems already warned about | `find_account_hash`, `extract_order_id`, `execution_totals`, the exceptions | the right account, no live order unheard, exact totals | `OrderDesk`, `OrderFills` |
| Decoders | `contrib/util.py` | keys already named | `decode_decimal`, `parse_message_data`, the JSON decoder | the number the venue meant, or an error | `ActivityFeed` |
| Log redaction | `_redact.py`, `debug.py` | registry of secrets (bounded), compiled pattern, filters; recorded lines | `register`, `redact`, `before_cut`, filters, bug report | no registered secret is read, also across a cut, in a late record or in a frame | `LogRedaction`, `BugReport` |
| Order builders and templates | `orders/*.py` | the order being built | setters, `build`, composing helpers, option symbols, templates | what is sent is what was asked for; a template opens and closes what its name says | `OptionSymbols`, `OrderBuilder`, `OrderTemplates` |
| Tools, tests, docs | `../tools`, `../tests`, `../docs` | – | – | read as the statement of what the code promises | – |

Interactions:

* Application tasks call coroutines of one `StreamClient`. All run on one event
  loop: a task runs alone from one `await` to the next, so shared state changes
  only at awaits, and what was read before an await can be stale after it.
* `handle_message` and a waiting request compete for the read lock. Whoever reads
  a frame routes it: an answer goes to the pending request's future, a frame that
  a request read for others to the overflow queue, which `handle_message` empties
  before it reads the socket, and from there to the handlers of its services.
* What fails on the way (a rejection behind an answer, an element that cannot be
  used, a handler that raises) becomes a report. It is told to the error handlers
  at once, or queued while locks are held and drained later by whoever comes
  first: `handle_message` or the end of a request.
* `login` fetches the streamer's address through the HTTP client, closes the
  previous socket, opens a new one, clears the queues and sends a LOGIN request.
  `logout` is a request followed by `close`.
* A login exchanges the code of a redirect for a token, writes it through the
  token write function, and builds the session. The session refreshes its token
  inside any request and calls the same write function, which updates the
  metadata and the file. Several processes may share the file, and several
  programs the callback port.
* Every token, account number and hash that is met is registered with the
  redaction of the logs.

What is hard to test: interleavings of several requesting tasks, a reader and a
task that logs in or closes; cancellation and a deadline at any await; answers
late, batched, out of order or missing; frames nobody can parse; a connection lost
at any time; writers in several processes, a crash between two system calls, a
write that raises after the refresh; redirects of another login, another
program's server on the port; and sequences of legal calls after which a value,
an order or a log says something nobody meant. `PROJECT.json` "hazards" has each
at its line.

## 2. The stream

**`FairLock`** — `asyncio.Lock` as a sequence of tasks: the head holds the lock,
the rest wait in order. `Join` is `acquire()`, `Leave` is `release()` or a
cancelled `acquire()`. Releasing hands the lock to the next waiter, which in
asyncio it does by waking it; a task that calls `acquire()` between the release
and that wake-up queues behind the waiters, so the order is the same.

**`StreamClient`** — the coroutines that use the socket. A task is one application
task; an action is what it does from one await to the next.

| state | code |
|---|---|
| `socket`, `conn`, `wire`, `sent` | `_socket`; the connections and the frames under way |
| `nextId`, `pending`, `future` | `_request_id`; `_pending_request`: its id and its future |
| `readQ`, `reqQ` | `_read_lock`, `_request_lock` |
| `overflow`, `reports`, `absorbed` | `_overflow_items`, `_pending_reports`, one counter of `_absorbed_kinds` |
| `flagged` | exceptions marked `_schwab_reported` |
| `pc`, `op`, `req`, `at`, `hand` | where a task is suspended, and the coroutine's local variables |
| `asked`, `verdict` | the venue: requests it received, its answers |
| `outcome`, `taken`, `consumed`, `claimed`, `told`, `lost`, `cancels` | history, read by properties and never by a guard (except the bound on cancellations) |

| actions | code |
|---|---|
| `CallRequest`, `StartSend`, `Transmit`, `SendReturns`, `SendFails` | `_service_op`, `_make_request`, `_request_response`, `_send` |
| `Resolved`, `BecomeReader`, `RequestReads`, `Timeout`, `RecvFails` | `_await_response` |
| `CallHandle`, `TakeNext`, `HandleReads`, `ReportOrphan` | `handle_message`, `_receive`, `_read_and_route` |
| `ReportUnparsable`, `UnparsableTold`, `DrainOne`, `Drained`, `HandlerRaises`, `OrphanHandlerRaises` | `_report_unparsable`, `_drain_pending_reports`, error handlers, and one that raises a BaseException |
| `CallLogin`, `PreviousClosed`, `Connected`, `ConnectFails`, `CallClose`, `Closed` | `login`, `_init_from_preferences`, `close`, `logout`, `async with` |
| `Cancel` | `task.cancel()` at every await that can be cancelled |
| `VenueAnswers`, `VenueBatches`, `VenueSends`, `Disconnect` | the venue and the network (external) |

Abstractions, and why they lose nothing the properties look at:

* Request ids count from 1 and sessions are numbered, so that 0 can mean "none".
  The code's ids are never reset either.
* A response is the request id it names (0: not readable) and whether it accepts,
  rejects, or names another service or command; a frame is a list of at most two
  responses, data, or text that does not parse. The branches of `_read_and_route`,
  `_validate_response` and `_iter_responses` distinguish nothing else, except a
  malformed element, which is absorbed and skipped, and a response without a code.
* Getting a frame out of `recv()`, routing it and releasing the read lock is one
  action: there is no await between them in `handle_message`, nor, from Python
  3.12 on, inside `wait_for`; before, `wait_for` takes one more turn of the loop,
  during which the lock is still held.
* The steps between two drained reports, or from a result to the drain, are
  separate actions although the code has no await there if there is nothing to
  report. That only adds interleavings.
* `Connected` waits until every other task has done what it could do: opening a
  connection takes many turns of the loop and a runnable task takes one.
* The HTTP call at the start of `login` changes no state of the stream.
* A cancelled or failing `close()` of a socket leaves the connection closed.
  Reporting the failure after `logout` is left out.
* A data frame is handed on in the step that reads it; what becomes of it is
  `StreamDispatch`'s subject.

`Serial` (TRUE in every run): tasks do not overlap `login`, `logout` and `close` with
one another; they do overlap them with requests and `handle_message`. The
documentation shows no other use, and the overlaps it excludes have a known
cost: a second `login` overwrites the first socket, which is never closed, and a
`close` during `connect()` finds nothing to close. With `Serial = FALSE`,
`ArrivalOrder` fails. The lock theorems and `OwnAnswerCorrect` do not assume it.

`MCStreamClient` holds what the venue may send unasked, and `LoggedIn`, the state
after a first `login()` returned, from which most runs start: `Spec` reaches it
(request 1 is LOGIN and frame 1 its answer), and starting there spares the
states of a first login that no other task can join. `MCStream` puts four scenes
beside each other, one to a behaviour (see section 5).

**`StreamDispatch`** — from a frame in `handle_message` to the handlers, and from a
failure to the error handlers. The loop is explicit: `loop` says which actor holds
it, and only what awaits gives it up (a coroutine error handler, the wait for a
frame, the end of a call).

| state | code |
|---|---|
| `open`, `epoch` | whether `_socket` is set; how often the session was cleared |
| `kinds`, `shapes`, `queue` | `_absorbed_kinds`, `_reported_shapes`, `_pending_reports` |
| `handlers`, `errors` | `_handlers`, `_error_handlers` |
| `reader`, `request`, `telling` | the local variables of the one `handle_message` call, of each request that drains, and of `_report_error` in each |
| `tasks`, `held` | coroutine handlers that run; `_handler_tasks` |
| the rest | history |

| actions | code |
|---|---|
| `AddHandler`, `AddErrorHandler` | `_add_handler` behind each `add_*_handler`, `add_error_handler` |
| `CallHandle`, `Drained`, `NotOpen`, `Read`, `ReadLost`, `FrameDone`, `Return` | `handle_message` |
| `AbsorbItem`, `SkipItem`, `ReportRejection`, `DispatchAbsorbs`, `StartDispatch`, `EndDispatch` | the loops over `response`, `data` and `notify` |
| `RelabelFails`, `HandlerReturns`, `HandlerRaises`, `HandlerExits`, `HandlerIsCoroutine` | `_dispatch_to_handlers` |
| `TaskEnds`, `TaskFails` | the done-callback of a handler task |
| `TellOne`, `Told`, `TellExits`, `DrainOne` | `_report_error`, `_drain_pending_reports` |
| `FindBehind` (`QueueRejection` or `AbsorbBehind`), in `ReadAnswer` and `RequestReads`; `RequestEnds` | a rejection, or an element that cannot be used, behind the answer to a request: read by `handle_message` or by the request, which drains at its end |
| `Close`, `Login` | anybody on the loop clearing the session, an error handler included |

What a handler does is a choice of its outcomes, and what is registered, it may
register from inside its own call (`UserCode`). Any number of requests may be in
their drain at once, outside every lock. `StreamClient`'s locks and routing are left
to that module, so a frame simply arrives.

**`StreamServices`** — the fourteen services, each with the fields of its requests,
the table its handler relabels with, the operations it has and the shape of its
handler. `SubsOrAdd`, `View` and `Unsubs` make a request from a list of fields
the caller keeps and passes again; `Deliver`, `DeliverBook` and `DeliverActivity`
relabel a message and name what is unknown: an item, a book with the levels of
both sides and the quotes in each level, an account activity with its type. A book
with a level that lacks its quotes is absorbed half way, with what is unknown up to
there named. What a request sends is modelled as it is: only `VIEW` removes duplicates
(`streaming.py` 1640 sorts), an empty list goes out without SYMBOL (2891), and a
generator is used up by the search for it. A field is its number in its table; its
meaning is left out.

## 3. Tokens and logins

**`AtomicToken`** — what the token file promises, with nothing of how: a register
on a medium that can lose power. `value` is what a reader gets, `safe` what a
reader would get after a power loss, `call` the writes in progress. A write takes
effect in one instant or not at all (`Put`, `Abandon`), and one that returned
survives a power loss (`Ack` only after `Keep`) where a directory can be flushed.

**`TokenFile`** — the steps of `__write_token_file` and of the sweep, by several
processes in one directory, with an exception or a `SIGKILL` between any two of
them and a power loss at any time. It implements `AtomicToken`.

| state | code |
|---|---|
| `dir`, `content`, `mtime` | the directory, the bytes of its files, their modification times |
| `saved`, `synced` | the directory on the medium; the files whose bytes are |
| `nextInode` | the name `mkstemp` gives out next |
| `clock` | `time.time()`; a file server's clock is `Skew` behind |
| `writer` | per process: where it is, `tmp_path`, `names`, `cutoff`, the file it found too old |

| actions | code |
|---|---|
| `Begin`, `Dump`, `Flush`, `Fsync`, `Replace`, `SyncDir`, `SkipSync` | `__write_token_file` up to the sweep |
| `Fail` | any exception: the `except BaseException` clause, or none in the sweep |
| `List`, `Aim`, `Look`, `Unlink`, `Return` | `__sweep_stale_token_temp_files` |
| `Kill`, `Writeback`, `PowerLoss`, `Tick` | the operating system and the clock (external) |

Abstractions: a temporary file, its inode and the token in it are one number, in
the order the files were made (the random names of `mkstemp` are taken never to
recur). A rename and an unlink are atomic; that one is on the medium, and the
bytes before it, is promised only to who called `fsync`; after a power loss a file
that was not flushed holds any part of what was written, also under its new name.
`os.chmod` and `os.replace` are one step, and so are the handler's `unlink` and the
`raise`: what can come between them comes before or after both just as well. An
`unlink` of the sweep that fails although the file is there ("not ours to
delete") is left out, as are permissions and symbolic links.

**`TokenSession`** — the life of a token in one process. Its store is the register
of `AtomicToken`, so the two levels of the token file compose: what `TokenFile` is
shown to implement is what `TokenSession` builds on.

| state | code |
|---|---|
| `value`, `safe`, `call` | the store: the variables of `AtomicToken` |
| `proc` | whether the process is down, up, or between a login's exchange and its first write |
| `session`, `meta` | the token of the authlib session; `TokenMetadata` |
| `refreshQ`, `task` | authlib's refresh lock (external); each task's request |
| `clock`, `issued`, `granted`, `dead`, `logins` | time and the token endpoint (external) |
| `warned`, `torn` | history: what a caller was told, and whether the last write failed |

| actions | code |
|---|---|
| `Build` | `client_from_access_functions`, `_stored_token_for_session`, `from_loaded_token`, `_expiry_needs_refreshing_first` |
| `Exchange`, `LoginStored`, `LoginWriteRaises` | `client_from_received_url` after its checks |
| `Call`, `Check`, `Send`, `Cancel` | a request of `client/base.py` |
| `Denied`, `EndpointFails`, `Renewed` | the answer of the endpoint: `_refuse_unusable_token_response`, `TokenRefreshError` |
| `WriteReturns`, `WriteRaises` | `wrapped_token_write_func` around the caller's function |
| `StoreStep`, `Crash`, `PowerLoss`, `Tick` | the store, and the world |

A token is its number, the login it comes from, and what of its expiry, type and
refresh token the code tells apart. The synchronous client is the case of one task.

**`LoginFlow`** — `easy_client`'s choice between the stored token and a login, the
login flow with its redirect server in a child process, the manual flow, and the
exchange. Programs log in one attempt after another; several share the callback
port with strangers, and a browser may finish any login late, twice or never.

| state | code |
|---|---|
| `pc`, `attempt`, `result`, `received` | the local variables of `client_from_login_flow` and its callers |
| `holding` | the `callback_socket` a program keeps bound between its attempts |
| `child`, `queue` | the server process and the queue it puts URLs in |
| `stored` | what `easy_client` finds |
| `port`, `backlog` | who has the callback port; connections waiting on a socket the caller holds |
| `opened`, `air`, `sent` | authorization URLs and redirects under way (external) |
| `answered`, `presented`, `strayed` | history: who answered a login's probe, whose code was shown, which redirects reached another server |

| actions | code |
|---|---|
| `StartLogin`, `StartManual`, `EasyClient` | the entries of the flows |
| `ServerUp`, `ServerDown`, `ServeBacklog`, `Arrive` | the child: `__run_client_from_login_flow_server` |
| `SeeExited`, `StartupExpires`, `Probe`, `OpenBrowser` | waiting for one's own server on the status path |
| `TakeRedirect`, `CallbackTimeout`, `Paste`, `Interrupt` | waiting for the redirect |
| `Check`, `Exchanged`, `ExchangeFails`, `Store` | `client_from_received_url` |
| `Stop` | `callback_server()` on every way out |
| `Stranger`, `SendRedirect`, `Ages` | the machine, the browser, the years (external) |

A login knows of its server only that something answered the status path with 200
(`Welcome`): its own server does, so does that of any other program of this library,
and so does a stranger that answers every path (`"catchall"`). Other strangers answer
with an error or accept and never answer. A deadline is an action that may happen
whenever its wait has begun; a killed server serves nothing more. Checks of arguments and the printed text are left out.

## 4. Values

These modules are small state machines around pure code: a caller that calls
again and again, and an environment that sends everything the code was and was
not written for. Each property compares with a definition of its own, not with the
code's.

**`OrderDesk`** — a caller that finds an account's hash (`LookUp`), places orders
(accepted, refused or answered oddly by the venue), reads the order's id
(`Extract`), lets the exception cross a process border (`Move`) and handles it in
one of its `except` clauses (`Handle`).

**`OrderFills`** — `execution_totals` of an order that is being filled, cancelled
and annotated; a decimal is an integer count of tenths, and the two decimal
contexts are modelled by what they refuse and how they round.

**`OptionSymbols`** — `OptionSymbol` both ways. Texts are sequences of characters,
because the property is about digits that move from one field to the next.

**`OrderBuilder`** — every call of `OrderBuilder` with values of every type, `build`
over children kept by reference, `one_cancels_other` and `first_triggers_second`. A
child is a builder, a dict, or something that is neither and is refused;
`first_triggers_second` has set TRIGGER by then, and keeps it. A value is its type and
what of it the checks tell apart.

**`OrderTemplates`** — the templates of `equities.py` and `options.py`: a caller opens
positions and closes each with the template of the same name; the venue fills
every order whole.

**`ActivityFeed`** — `decode_decimal` on what a venue may make of an amount (both
layouts, members missing, renamed, added or out of range), `parse_message_data`
and the decoder's repair of escapes.

**`LogRedaction`** — the registry with its limits, the pattern compiled when next
needed, the filters, records that are rendered when somebody reads them, cuts and
frames. Texts are sequences of characters, because the property is about where
one value ends; every step under the registry's lock is one action.

**`BugReport`** — `debug.py`: lines recorded as they are, values collected from
responses, and a report written at exit in which they are replaced, one string after
the other. Lines, values and labels are sequences of characters, and a placeholder is
text like the rest: a later string is searched for in it too.

The `MC` module of each holds the values TLC uses.

## 5. Runs

A run asks one question. Where a component is asked about in several settings, or
a question is asked of several components, they are **scenes** of one run: a
variable `scene`, chosen at the start and never changed, says which instance of
which module takes the steps, and the others stay as they start. Scenes share
no transition, so a run of several scenes says what separate runs would.

| run | scenes and bounds | question |
|---|---|---|
| `stream_routing` | `odd`: 2 callers, 1 reader, 3 requests, 3 frames, 1 cancellation, unparsable and unreadable frames, ids never issued, room for 1 report. `routing`: 4 frames, batches and data, room for 2 | locks, slot, right answers, every rejection heard, once |
| `stream_sessions` | `sessions`: login, subs, logout, close over 2 connections, 2 callers and a reader, 1 cancellation. `relogin`: 1 caller at a time, unreadable responses whose reports are queued | messages in order, and nothing of the first session handled or told in the second |
| `ends` | `session`, `login`, `dispatch`, `deadline`, `answers`, each under its module's fairness. `login`: 2 attempts of a program that binds its port or keeps a socket, 1 redirect, every kind of stranger. `dispatch`: 1 request beside `handle_message` | whatever is begun ends, and logins spend their own code and send no redirect past their own server |
| `token` | `three`: 2 processes, 3 writes, any clock. `stall`: 2 writes that stall up to the limit, 3 seconds | the token file at every instant, as a register, and its sweep |
| `session` | `odd`, `tasks` of `TokenSession`: every odd store and answer with 1 task; 2 tasks, failing writes, crashes, power losses | what is kept, what is raised, and who refreshes |
| `dispatch` | `handlers`, `errors`, `drains` (2 requests and `handle_message` on one queue), `flood`, `names` of `StreamDispatch` | who hears what, and how often |
| `values` | `lookup`, `orders`, `fills`, `symbols`, `fields`, `times`, `tied`, `dicts`, `trades`, `asking`, `hearing`, `amounts`, `records`, `loggers`, `frames`, `report` | what is read and made is what was meant |
| `reader_cancelled`, `live_answer_second`, `claimed_then_cancelled`, `frame_of_replaced`, `name_unheard` | the least instance of each | the five findings of section 6 |

`CHECK_DEADLOCK FALSE` stands where the program may rightly stop: when nobody
calls anything and the venue is quiet, with a reader parked in `recv()`, it does
nothing; and the bounds end every behaviour. `dispatch`, `token` and
`name_unheard` check deadlock.

### What the properties say

Stream:

* `ReadLockDiscipline`, `SlotDiscipline`: the locks are held and awaited by
  exactly the tasks whose program counter says so; the slot is filled exactly
  while the request lock's holder waits and names its request. A task that
  timed out or was cancelled in the turn in which its `acquire()` succeeded is
  where this could fail.
* `ArrivalOrder`: `handle_message` receives, then still has to receive, frames in
  the venue's order, and every frame read is handled, set aside or consumed, in
  exactly one of the three.
* `OwnAnswer`, `NotOvertaken`: a request ends only on its own answer, and while it
  waits its answer is not set aside or reported as an orphan.
* `RejectionHeard`, `ToldOnce`: "losing the raise is right; losing the news is
  not". A rejection read on the live connection is with its waiter, held, told,
  or lost to a limit the documentation states or with a reader that ends while it
  tells (cancelled, or by an error handler's BaseException); never told twice.
* `QueuedReportsFresh`: a report queued in one session is not told in the next.
* `EveryHandlerHears`: every handler of a service is called once per message, in
  the order of arrival and registration, whatever the others do.
* `FailureTold`: every failure of a handler, in the call or in its task, reaches
  every error handler, past those that raise.
* `DrainsOnce`: `handle_message` and any number of requests drain one queue and no
  report is told twice; a `close()` out of an error handler ends the call quietly.
* `NewsHeard`: of every kind of failure something is reported, of every rejection,
  and, until the session is cleared, of every new name, through any flood.
* `FieldsAreRight`: a request asks for the fields it was given and SYMBOL, whatever
  earlier calls did to the caller's list, and a `VIEW` for each once; a handler finds
  each value under the name of its field, in account activity and in the sides,
  levels and quotes of a book too, and nothing is lost; and what is new is named
  once. What the code does with an empty list, a generator and a field given twice to
  a subscription is excepted by name (section 6).

Tokens and logins:

* `TokenWhole`: whoever opens the token file, now or after a power loss, finds a
  whole token. It takes all of: the temporary file, its flush to the medium
  before the rename, and the rename.
* `Atomic`: `TokenFile` implements `AtomicToken`. A write that raises has had no
  effect or its whole effect; which, its caller cannot tell (an exception after
  the rename is raised all the same), and the register says so.
* `TempKept`: no write loses its file to another process's sweep, provided no
  write leaves its file alone for longer than `MaxAge - Skew`: the "margin" of
  `TOKEN_TEMP_FILE_MAX_AGE` and its remark on network mounts, made exact.
* `StaleCleared`: what a sweep passed over is gone, or was not too old.
* `OwnCode`: a login shows the endpoint only the code of its own redirect.
* `NotSpent`: a late redirect of another login that names its state does not end
  this one, neither as an attack nor, if it carries an error or no code, as a refusal.
* `PortInHand`: the redirect of a login that waits reaches another server only if,
  before the browser opened, another server had answered the status path with 200;
  and a program between logins has no server, and no hold on the port but the socket
  it keeps. That a stranger that answers so is sent the redirect is what the comment
  at `auth.py` 695 says, and the property keeps it.
* `TokensServe`: while its refresh token is of use a session can act on its
  expiry, nothing unusable is kept, and what was stored can be loaded.
* `CreatedIsLogin`: the age of a token counts from its login.
* `MetaFollowsStore`: metadata and session hold what is stored, except after a
  write that failed, and then until the next that returns.
* `ErrorsAreTrue`: `refresh_token_invalid` is never contradicted by a later success,
  and `endpoint_answered` says exactly that.
* `RefreshDiscipline`: of two requests that find the token expired one refreshes.

Values:

* `CallerKnows`: a hash found is that of the account; "not found" is sure; each
  problem is warned about once; an order the caller knows is live, and every live
  order is known or was looked for; a rejection carries the venue's reasons; an
  exception survives its copy.
* `TotalsAreTrue`: totals are those of the fills, the average within half of its
  last digit, a refusal for cause.
* `SymbolsSaySame`: an option and its symbol say the same, whichever was first.
* `OrdersAsAsked`: what is sent holds, in every field and child, what the caller or a
  helper it called last said, also after calls that were refused, and the ties of the
  last helper that refused nothing.
* `TradesAsNamed`: closing leaves nothing held, a spread has the attitude and the
  sign of price its name gives it.
* `ReadAsMeant`: no wrong number, and every amount of the known layouts is read.
* `NothingRegisteredRead`: the registry keeps the last of each label, and whoever
  reads a record, a cut or a frame reads none of them.
* `ReportIsSafe`: a bug report holds no hidden value that replacing can keep out (one
  that is not empty and stands in no placeholder itself), whichever line or response
  came first, leaves a line without any as it was, and tells two values apart.

Liveness (`ends`):

* `CallsEnd`, `AnsweredCallsEnd`: with a response timeout every call ends; without
  one, every request the venue has answered.
* `Delivered`: what is queued for error handlers is told or cleared, though
  `handle_message` may sit in `recv()` for ever.
* `RequestsEnd`, `LoginsEnd`: requests that share a refresh end, logins that have a
  server end.

### Bounds

Stream: three requests are one that is abandoned, one that is outstanding when
the late answer comes, and one behind it; two callers and a reader give every
pair of readers the code has and a third task in the queue; four frames let a
request set frames aside on both sides of its answer. A queue of one or two
reports overflows. Two connections show what passes from one session to the
next; with three nothing new is shared. One cancellation meets every await,
because every interleaving before it is explored. `SYMMETRY` over callers is used
in the two safety runs only. In `dispatch` a frame has at most two messages for
two handlers where handlers matter, ten malformed elements where the power of
ten matters, and more names than the first three reports.

Tokens: three writes are one whose process died, one in progress and one whose
sweep meets both. In `three` the clock is skewed so that every file looks too old:
the register must hold even then. In `stall`, `MaxStall + Skew = MaxAge`, the
boundary of the proviso of `TempKept`: with one second more the run fails, and so
it does if the code compared with `<=`. Two tokens and one login per process let a
refresh follow a login and a restart follow a refresh. Two attempts and one redirect
let the redirect of the first meet the second, on a socket kept between them or on
the port bound again; more redirects and programs are the theorems' (section 7).

Values: widths are scaled down with the constants that depend on them (a symbol of
two root characters and three strike digits, members of three bits, two decimal
digits, limits of two), so that every boundary is a few values away; inputs are all
edits of one character, all types for each kind of field, all lists up to three. The
setters of a builder touch one field each, so two kinds of field at a time (`fields`,
`times`) are enough.

### Fairness

asyncio runs a task whose awaited future is done, timers fire, and a socket
operation ends; httpx2's timeout bounds an answer of the endpoint. So each task's
own steps are weakly fair (`FairSpec` of `StreamClient`, `LiveSpec` of the others).
Strong fairness is asked once, of who tells reports in `StreamDispatch`: two actors
alternate on one loop, and asyncio's queue of ready callbacks is first in, first
out. Nothing is assumed of the application (calls and cancellations), of
strangers, of browsers, or of the venue, which may never answer. That a send ends
under backpressure is an assumption; the code has no deadline there (see hazards).

Every property of a passing run has a mutant in `PROJECT.json`: a plausible slip in
one definition (`..._KeepsSlot`, `..._WrongEnd`, ...) which that run finds. The
mutant operators stand just before the definition they distort.

## 6. Findings

1. `reader_cancelled` — `handle_message` fails the pending request on every
   `BaseException` of its read, its own cancellation included. Cancelling a task
   parked in `recv()` makes an unrelated `*_subs()` raise `CancelledError` though
   its connection is open. The comment (`streaming.py` 2120) justifies it by "a
   reply that can no longer arrive".
2. `live_answer_second` — only the first response of a frame is looked at. If the
   venue batches the late answer first and the live one second, the live
   rejection is reported as one of an abandoned request while its caller waits
   for the timeout. `docs/streaming.rst` 359 says a second response "cannot be an
   answer to anything you are waiting on", and at 363 that the framing cannot be
   predicted. The other runs have `LiveFirst`, the order the code expects.
3. `claimed_then_cancelled` — a waiter cancelled between the routing of its
   rejection and its own resumption: neither raised nor reported, although
   "Element 0 went to the waiter, so it is accounted for" (`streaming.py` 1120).
4. `frame_of_replaced` — `handle_message` reports the late rejections of a frame
   one await at a time; a `login()` in between replaces the connection and the
   rest is reported against the new session, which `docs/streaming.rst` 389
   excludes.
5. `name_unheard` — a new name counts as told when its report is queued.
   `close()` and `login()` clear the queue but not the set of names, so a name
   first seen in the last frames of a connection may reach no error handler,
   although `streaming.py` 1750 promises that every distinct name does.

Met while modelling, and kept in the models as the code has them, without a run
of their own:

* `auth.py` 1007: any 200 on the status path is taken for one's own server. Every
  login of this library serves that path, and a server that answers every path with
  200 does so too: a login started while one of them has the port goes on to open the
  browser if its own server has not exited yet, and the redirect goes there. The
  comment at 695–704 says so; `PortInHand` claims no more than what is left.
* `streaming.py` 2891: the level one methods append SYMBOL to the caller's object:
  a tuple without SYMBOL raises, and a list of numbers passed to a second service
  holds a member of the first one's table. The docstrings ask for an iterable.
  An empty list is sent as it is, a request for no field, without SYMBOL.
* `streaming.py` 1640: `_service_op` sorts the fields and keeps duplicates, so
  `level_one_equity_subs(fields=[7, 3, 7])` asks for 7 twice; only `VIEW` makes a set.
* `orders/options.py` 46: an expiration of five digits is accepted: `24111` becomes
  1 November 2024, where the docstring asks for six.
* `orders/common.py` 423: `first_triggers_second` overwrites the strategy of an order
  `one_cancels_other` made, and what is built no longer cancels. It does so before
  `add_child_order_strategy` (`generic.py` 807) looks at the second order: one that is
  refused leaves a TRIGGER order without a child.
* `debug.py` 42: strings are replaced one after the other, over text that holds the
  placeholders of earlier ones. A value such as `1`, a letter of REDACTED or part of a
  label is replaced inside them, and stands in the report again with the placeholder
  of a later one; an empty value puts its placeholder between all characters. The
  docstring calls this a best effort.
* `orders/equities.py` 25: a template skips a price argument that is `None`, where
  the setter refuses it, so a stop order may be made without its price.

## 7. Proofs

TLC checks small instances; the theorems of `PROJECT.json` hold for every set of
tasks or processes and every bound, from the named assumptions of the modules and
no others. Each component's proofs are in the module of its name with `Proofs`.
Liveness is out of the prover's reach and stays with TLC.

### The stream

`OpsAssumption`, `VenueAssumption` and `BoundsAssumption` say that the bounds are
positive and that the venue sends well-formed values; what it sends unasked names
no request the client can make.

`StreamClientProofs` — `TypeCorrect`, `ReadLockCorrect`, `SlotCorrect`, with
overlapping logins and closes, from `Invariance`: `IInv`, the conjunction of the
three with `LocalInv`, is inductive. `LocalInv` is needed because the disciplines
speak of program counters only: that a task waiting for the answer is not
`handle_message` (so `WantsSlot` can tell the two readers apart), that a task in
`recv()` has a session, that a task about to report has a frame in hand.
The argument goes through what a step does to a lock instead of through each
action. `ReadEffect` and `SlotEffect` list the four and five ways in which a step may
treat them (kept, joined, left, left and joined again; kept, joined, filled,
emptied, quit), `ReadStep` and `SlotStep` show once that each way keeps the
discipline, with the lemmas of `FairLockProofs` about `Join` and `Leave`, and
`Assemble` says what is left to show of an action. Then there is one lemma per
action, and `StepIInv` combines them.

Its second part proves `OwnAnswerCorrect`, with overlapping logins and closes too.
`OwnAnswer` speaks of what was told; `Truth` adds what will be: the first response
of every frame on a wire or set aside is what the venue decided about a request
that was made (`FramesHonest`), so is what the open future holds
(`FutureTruthful`), and no request has a number that is still to be given out
(`NumbersKnown`), so that a response which names a number of the future is
never an answer to it. `IInv` is used once, and there it matters: the slot names
the request of the task that empties it. A step that reads no frame, gives out
no number and tells no answer is `Quiet`, and `QuietStep` deals with all of them.

Its third part proves `ArrivalOrderCorrect` and `QueuedReportsCorrect`, for callers
that do not overlap logins and closes (`Serial`); the run with `Serial = FALSE`
fails, so they need it. `SessionInvariance` has the invariant: at most one
connection is open, it is the socket's or one a task is closing, and one task
opens the next (`Place`); a wire holds the last frames that were sent on it, by
number (`WireInv`); what is set aside, in a task's hand or about to be read
belongs to the socket's session, and what was handled, set aside and consumed
together are the numbers read so far, each once and in order (`Ordered` in
`QueueInv`). The lemmas `OrderedAside`, `OrderedHandled`, `OrderedConsumed`,
`OrderedTaken` and `OrderedRouted` are the five places a frame can go; no action
needs more than one of them.

Its fourth part proves `NotOvertakenCorrect`, with overlapping logins and closes too,
under `LiveFirst`, which finding 2 shows to be needed. Requests leave in the order
of their numbers: the queue of the slot is sorted by them, and whoever waits for the
slot has a number above every one that was sent (`Turns`). The venue answers only
what it was asked (`AnswersAsked`), each request once and a frame's newest first
(`FromVenue`). A frame that is not the waiter's holds the waiter's answer only behind
a newer one, and nothing newer than the waiter's was sent. `Apart` adds to
`NotOvertaken` the frames whose rejections a task is reporting.

Its last part proves `ToldOnceCorrect` and `RejectionHeardCorrect`, with overlapping
logins and closes and with batches in any order: neither `Serial` nor `LiveFirst` is
assumed. Neither property is inductive: a rejection told once may be told again if it
is also still queued, and one that is not on the wire may have been lost anywhere. The
news of a rejection passes the places wire, set aside, orphan in a task's hand, report
queue, claimed by its waiter, told. `Single` says that no place has it twice, `OneHome`
that no two places have it, and none before the venue decides; `Heard` that one of them
has it once it was decided in this session, unless a documented limit dropped it
(`lost`). A step that reads a frame takes its news out of the wire or of what is set
aside (`Drawn`) and `Moves` it into one of the other places; one that tells takes it out
of the hand or of the queue (`Spoken`); every other step leaves it where it is
(`PlainNews`) or ends the session. `Reached` is why a new session needs no argument: no
request was sent on a connection that was never opened. `FirstTold` is the same for
frames that do not parse, which are marked when they are told.

### Dispatch and reports

`DispatchAssumption` says of which shape the frames are and that handlers belong to
services. `StreamDispatchProofs` — `Dispatched`, `FailuresTold`, `Drains` and
`NewsOfRoom`, for any handlers, error handlers, services and frames, any bounds of
the queue and any number of logins, exits and cancellations. Their actors meet in
any order: who reads, any number of requests that drain as well, one task per handler
that is a coroutine, and error handlers that close, log in or register others.

`DispatchInv` is the invariant of the first three. Of the reports (`IdsInv`): each
is queued or with one actor, and the queue is in the order they were made; so
whoever takes the head takes what nobody else has or had. `HeardInv` then says that
who was told a report stands before the error handler that is told it next, and
`TellInv` that everyone before that one was told; handlers only join at the end, so
both survive a registration in the middle of a telling. Of the calls (`CallsInv`):
a call that was made lies behind the place where the reader is (`Behind`), a call
that is owed lies at it with its handler still to come (`Ahead`). `Before`, the
order of arrival and of registration, follows from `Behind`, and when the reader
leaves an item nothing is owed. `QuietInv` knows who closed while the queue was
drained. As with the stream, most actions are no concern of most parts:
`ReportSteps` and `ReaderSteps` list the few ways in which a step treats the
reports and the reader, and each part of the invariant is shown of those ways.

`NewsOfRoom` has a hypothesis, `[]HasRoom`: the queue never fills. It is what the
property is worth, not a convenience. `_pending_reports` is bounded and drops its
oldest, and a flood of rejections can push a first report out before anybody drains;
then `NewsHeard` is false. The run `dispatch` has the queue the code needs for
its bounds, the theorem says that room is all it needs.

### The token file

For any processes and bounds, any age limit, stall and skew, with directories that
can be flushed or not (`BoundsAssumption`, `AgeAssumption`, `SyncAssumption`):
`WholeCorrect`, `AtomicCorrect` (the refinement of `AtomicToken`), `StaleCorrect` for
any clock skew, and `TempCorrect`, assuming `MaxStall + Skew <= MaxAge`.

`TokenWhole` is not inductive. The invariant `Inv` adds who owns what: every inode
that is mentioned was given out (`Known`), so a new temporary file is nobody
else's; the file of a write in progress is the token in no directory, and no other
writer's (`Own`); it is whole and flushed where the program counter says so
(`Filled`); and the token in both directories is whole, flushed, and so survives
whatever a power loss picks (`Whole`). `KeptRight` says that a process whose
directory can surely be flushed has flushed it once it sweeps. `RegisterStep`
then maps each action to a step of the register or a stutter, under `Inv`. For
the sweep, `Seen` follows the loop over `names`, with `Touched`: what is touched
after a look only gets younger against a fixed cutoff. `Fresh` bounds the age of
a file in progress, and `Aimed` keeps each cutoff at least `MaxAge` behind the
clock, so that the two never meet.

A step that changes several fields of one writer is written
`![w] = [@ EXCEPT !.pc = ..., !.kept = ...]`: with two field paths into one index
(`![w].pc = ..., ![w].kept = ...`) the prover's SMT encoding loses one of them,
and a proof would not be of the definition.

### Logins and sessions

`LoginFlowProofs` — `OwnCodes`, `LateRedirects` and `CallbackPort`, for any finite set
of programs, any of which may keep a socket, any strangers, and any number of attempts
and redirects, with servers that die in time or not (`LoginAssumption`; the names of
other owners of the port are names of no program). `LoginInv` adds to the three: a login
has no result while it runs and a program between logins no server (`PhaseInv`); what a
login with a server takes up names its own state or none (`ReceivedInv`), which is what
makes a mismatch of states the mark of a redirect without one; and a program has the
port only while its child serves or its socket is kept, and for as long as its login
waits if its own child answered the probe (`PortInv`). So a redirect that strays passed
a login whose probe somebody else had answered: another program, or a server that
answers everything. Nothing is assumed of who answers a probe.

`TokenSessionProofs` — `ClientsWorkOn`, `AgeCountsFromLogin`, `MetadataFollow`,
`ErrorsTell`, `OneRefreshes` and `RegisterUsed`, for any tasks, stores a user may hand over
(`StoresAssumption`: none of them issued here), answers (`OffersAssumption`), clocks,
crashes and power losses, with stores that flush and stores that do not. `TokenInv` has
a part for each place where a token can be. What is stored, stored safely or about to
be stored was issued, is dated by its login, and is usable if this library wrote it
(`Sound`); so a power loss, whichever store it leaves, and a restart after it bring
back nothing worse. What the session and the metadata hold is usable too, and they are
of one login (`ClientInv`), so a renewed token that could not be written may be dated by
the metadata of the one before. `WriteInv` says of a write in progress whose token it
is, which is why a cancelled or failed one leaves either the old or the new token.
`QueueInv` ties the refresh lock to the program counters, by the lemmas of
`FairLockProofs`.

`ErrorsTell` speaks of the future: no request called after `refresh_token_invalid`
succeeds on that client. What is said stays true because of `Hopeless`: the token has
expired and nothing can renew it, or it is of a type authlib does not send and has no
refresh token. Every way of raising the final error establishes it, and no step of the
same client undoes it: time only passes, a refresh token the endpoint called invalid
stays so, and no task is in the middle of a refresh that could succeed, because only one
refreshes at a time and that one is the one that was refused.

`RegisterUsed` joins the two halves of the token's life: each step of a client is, of the
store, a step of `AtomicToken` or none, and `AtomicCorrect` says that the token file
implements that register. So what is proved of the sessions of one process needs no more
of the file than what is proved of the file; several processes that share one may
overwrite each other's tokens, which neither claims to prevent.

### Accounts and orders

`OrderDeskProofs` — `CallersKnow`, for any accounts, account lists and error bodies, and
any number of lookups, orders, copies and handlers in between. It assumes that no two
accounts share a hash (`HashIsInjective`) and that a hash is none of the names the model
uses for there being none (`HashesAreHashes`); that a number and a hash in one entry of
the venue's lists are of one account (`ListingsAreTrue`: an entry may lack either or hold
what cannot be read, and an account may be listed twice); that error bodies are of the
shape `_describe_error` reads (`BodiesAreAnswers`); and that the limit on details is a
number (`DetailLimitAssumption`).
What a lookup returns follows from the list alone (`FoundIn`, which needs the cardinality
of the entries that name the account). The rest is an invariant, `DeskInv`
(`DeskInvariance`): the answer in hand is of an order at the venue or says there is none,
and the exception in hand is the one that answer calls for (`RaisedForAnswer`), which is
what is left of it once it was copied to another process. So an exception that says the
order is live tells the truth wherever it is caught, and a live order is heard of: its id
is with the caller or in the answer in hand, its location was looked at, or a broad
`except` took the exception that names it. An odd entry is warned about once because `reported` holds all that was
warned about, and no warning stands twice (`Warned`).

`OrderBuilderProofs` — `OrdersSentAsAsked`, for any finite set of builders, any fields,
values and quantities of the types of Python that the checks tell apart, and lists of any
length (`CallerAssumption`, which TLC evaluates for the scenes of `values`). The property
speaks of the moment of `build` and needs an invariant of all the calls before, `BuilderInv`:
a field holds what was last said there as `_build_object` will send it or, if it was
checked, as the venue takes it (`FieldRight`); a list that is made is not empty; and a pair
that `first_triggers_second` tied is still tied (`Kept`) unless a setter, a clear or another
helper undid it, which is what `pairs` keeps count of. A call that is refused leaves both
as they are but for `first_triggers_second`, which has said TRIGGER (`said`) and tied
nothing. The order sent is a tree, and the
builders under it may be shared. `Within` (who is reached) and `Objects` (what is built)
are functions recursive in the depth; `SetInduction` gives induction over
the numbers from `WFMin` and `NatLessThanWellFounded`, with a set in place of a predicate,
and `WithinSteps`, `ObjectsSteps` and `LevelsSteps` show with it that the functions exist
and what each step of them is. `AtDepth` says that a builder at depth k stands under k
others and is none of them, so that no tree is deeper than there are builders: what is
built is complete, and `LevelsShown` compares it with what was asked level by level.

### Only model-checked

Liveness, in all modules (`ends`): the prover has no rule for `ENABLED`. `NewsHeard`
where the queue is as long as the run makes it, by the run; where it overflows, it does
not hold. `OrdersAsAsked` of `MCValues` asks in its scenes, of four settings of the
constants, what is proved of `OrderBuilder` for all of them.
The other values (`TotalsAreTrue`, `SymbolsSaySame`, `FieldsAreRight`, `ReadAsMeant`,
`NothingRegisteredRead`, `ReportIsSafe`, `TradesAsNamed`): decimals, texts and replaced
texts are folds over sequences, of which `@@`, `SelectSeq` and `SortSeq` cannot be
unfolded by the prover, and induction over a sequence takes an operator as a parameter.

## 8. Not modelled

* The HTTP client's requests: one call, one request, no state but the session's.
* Tools, tests and documentation, which are not part of the program.
* In the stream: overlapping `login`, `logout` and `close` (`Serial`; what they cost
  is in section 2); a venue that stops reading, so that a send never ends;
  responses that are not mappings and the other kinds of malformed items inside
  `StreamClient`, which `StreamDispatch` has; an error handler that calls a
  subscription of the same client; Python before 3.12, where `wait_for` takes one
  more turn of the loop.
* Of the token file: permissions, symbolic links, a directory removed meanwhile.
* Of logins: the checks of arguments and callback URLs, TLS certificates, the
  printed text.
* Of the logs: pickling a record, `stack_info`, stack levels; the wording of every
  log line and exception, except where a property is about what may be read.
* Of the values: subclasses of built-in types, objects that lie about their class,
  strikes with more digits than a symbol has.
