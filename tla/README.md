# Verification of mtdd_server

TLA+ models of `mtdd_server`, the TLC runs that check them
on small instances, and TLAPS proofs of the central invariants for every size.
Paths below are relative to the repository.

## The system

`mtdd_server` is one gRPC process in front of one PostgreSQL shard. Its handler
threads share everything below.

| Part | State | Operations | Talks to |
|------|-------|------------|----------|
| Connection pool (`src/pg/connection_manager.cpp`) | `idle_`, `in_use_`, `params_`, `pool_size_`, `mutex_`, `cv_` | `Configure`, `Connect`, `Acquire`, `Release` | libpq |
| Session store (`src/pg/session_store.cpp`) | `sessions_`, `max_sessions_` | `GetOrCreate` | libpq |
| Streaming query (`src/pg/streaming_query.cpp`) | connection, cursor and transaction flags of one stream | `Open`, `Fetch`, `Close`, `Abort` | pool, sessions, PostgreSQL |
| Shard service (`src/service/mtdd_shard_service.cpp`) | `connect_params_`, `executor_` | `Connect`, `QueryStream`, `Disconnect` | all of the above, health |
| Notify registry (`src/notify/registry.cpp`, `channel_key.cpp`) | `subscriptions_`, `client_keys_`, `watchers_` | `Subscribe`, `Unsubscribe`, `UnsubscribeAll`, `Publish`, `RegisterWatch`, `UnregisterWatch` | `ServerWriter` of each Watch |
| Notify service (`src/service/mtdd_notify_service.cpp`) | the Watch handlers | one handler per RPC | registry |
| Health monitor (`src/health/pg_health_monitor.cpp`) | probe thread, serving statuses | `OnConnectSuccess`, `OnConnectFailure`, probe loop | gRPC health, libpq |
| Result codec (`src/codec/raw_batch_encoder.cpp`, `query_meta.cpp`) | none | `EncodeRawPgBatch`, `BuildSchemaMeta`, `BuildCommandTrailer` | the loop of `QueryStream` |
| Life cycle (`src/main.cpp`) | `g_server`, `g_health_monitor`, `g_unix_listen` | startup, signal, exit | everything |
| Unix socket listener (`src/unix/unix_socket.cpp`) | `prepared_`, `finalized_`; the socket file and its directories | `Prepare`, `Finalize`, `Abort`, cleanup | other instances, through the file system |
| Configuration (`src/config.cpp`) | `ServerConfig` | `LoadConfigFromEnv` | the environment |

What makes it hard: locks are released in the middle of operations (a connection is
opened while its slot is only reserved; `Publish` writes after it unlocked); the
condition variable is shared by borrowers of two kinds of resource; `params_` is read
without its lock; a stream is several critical sections on a connection that other
streams may share; every statement may fail, every client may leave, every backend may
die; PostgreSQL's transaction state outlives the stream that made it; and the socket file
outlives the process that made it, while other processes look at it by name.

## Modules

| Module | What it is |
|--------|------------|
| `ConnectionManager` | The pool and the Connect RPC. One action per critical section of `mutex_`. |
| `ConnectionManagerProofs` | Seven invariants of the pool, proved. |
| `ShardService` | Extends `ConnectionManager` with QueryStream, StreamingQuery, SessionStore and PostgreSQL's side of a connection. |
| `ConnectionLife` | What the server promises about its connections to PostgreSQL, without mutexes, slots and statements; `ShardService` refines it. |
| `ShardServiceProofs` | Its types, the slots of the pool, the size of the store, the owners of connections, the pool's invariants with the query path around it, and the connection budget, proved. |
| `ShardLinksProofs` | What libpq and the store know of a connection a stream uses, and the refinement of `ConnectionLife`, proved. |
| `ShardTransactionProofs` | Cursors, transactions, what goes back to the pool, and what a failed Open costs, proved. |
| `PubSub` | What the notify coordinator promises: two relations and an audience per Publish. |
| `NotifyRegistry` | The registry, the Watch handlers and the publishers; refines `PubSub`. |
| `NotifyRegistryProofs` | Its invariants and the refinement, proved. |
| `Lifecycle` | The process (`main.cpp`) and the health monitor: startup, Connect's effect on health, probe thread, signal, drain, exit. |
| `LifecycleProofs` | Four of its invariants, proved. |
| `RawBatch` | The payload of a row chunk, byte by byte, and the reader the format implies. |
| `ResultProtocol` | What the client of QueryStream may rely on: which chunks, in which order. |
| `ResultStream` | One QueryStream after Open: fetch, cut into chunks, write, leave; refines `ResultProtocol`. |
| `ResultStreamProofs` | Its invariants, the refinement, and that payloads and streams read back, proved. |
| `Config` | `LoadConfigFromEnv` and its parsers, as operators. |
| `UnixSocket` | Several processes on one socket path, from LoadConfigFromEnv to exit or crash. |
| `UnixSocketProofs` | Three of its invariants, proved. |
| `MC...` | Small instances for TLC. |

### ConnectionManager

A thread's `pc` says where it is: `"out"`, inside the Connect RPC (`"warming"` opens a
connection, `"storing"` is about to set `connect_params_`), or inside Acquire
(`"acquire"` before the predicate, `"waiting"` on `cv_`, `"woken"` released but not yet
holding the mutex, `"creating"` with a reserved slot), or `"holding"`. `notify_one` picks
any sleeping thread; wakeups may be spurious. `params_` is read outside the mutex, so an
opening thread collects in `seen` every value `params_` had meanwhile and may end up with
any mixture of their fields (`Mix`). `opened` and `healthy` are libpq's view of a
connection.

### ShardService and ConnectionLife

Each stream goes through the labels of `rpc`: `open` (AcquireConnection), `begin`,
`declare`, `exec`, `loop`, `closing`, `ending`, `releasing`; `drop` is the failed
OpenCursor that returns without ReleaseConnection, and `relock` the handler that waits
for a mutex it holds. A statement is a kind: `rows` (what IsTupleStreamingSql accepts,
run through a cursor), `write`, and the client's own `begin` and `end`. PostgreSQL is
external: per connection a transaction state, the set of open cursors, and whether the
client began the transaction. A FETCH that returns rows changes none of this, so the loop
is its last FETCH. `leaked` and `shared` are history.

`ConnectionLife` knows of each connection where it is: closed, idle in the pool, lent to a
stream, pinned to a session, or left to the streams of a session the store gave up. Its
actions are the edges between these places. The mapping reads the place off `idle_`, the
streams' connections and `sessions_`. What the pool opened is never pinned, what was pinned
never gets into the pool, credentials stay with a connection until it is closed, and only the
last who has it closes it.

Disconnect acknowledges and changes nothing. Requests that fail validation return before
any state changes. Neither is a step.

### NotifyRegistry and PubSub

Names are sequences of tokens because `ChannelKey` glues two of them with a colon.
A stream is the address of a Watch handler's `ServerWriter`: free, registered, cancelled,
unregistered, free again. Publish copies its targets in one step (the lock) and then
writes to them one by one, each Write a start and an end. A Write is undefined when the
handler returned before it ended or when two publishers write to one writer; then it may
return either result, have either effect, or end the process. `raced` records these.

`PubSub` knows subscriptions as pairs of client and topic, watches as pairs of client and
stream, an audience fixed at one instant per Publish, and deliveries inside it. The
mapping reads the pairs off `subscriptions_` and `watchers_`, the audience off the copied
targets and the deliveries off the defined writes.

### Lifecycle

`mpc` is main, `spc` the signal handler (which runs on the main thread, inside Wait), `hpc` a
Connect handler, `tpc` the probe thread (`"none"`: `probe_thread_` is not joinable), `halt` the
Stop of the signal handler and of main. The monitor has no lock but the one of `params_`:
SetServing is a step per service, and testing `probe_thread_`, storing `stop_` and assigning the
thread are three steps. Assigning it while it is joinable calls `std::terminate`, and two racing
assignments may lose a handle: both are `crashed`, after which the model stops. A probe, like
the pool's Connect, finds PostgreSQL up or down (`pgUp`, which changes at any time); Connect
may also fail with PostgreSQL up, on its own credentials. gRPC is external: it accepts calls
from BuildAndStart on, reports the overall service SERVING until told otherwise, and its
Shutdown waits for running handlers without a deadline. `probed`, `overlapped` and `overtaken`
are history. A startup that fails ends the model.

### ResultStream, ResultProtocol and RawBatch

`ShardService` has the connection's side of a stream and forgets the rows; `ResultStream` is the
other half: one handler, `pc` at each place of the loop of QueryStream where it may leave.
A chunk is a kind and the range of rows it carries; its payload is `EncodeRawPgBatch` of them.
PGresults are numbered, so that clearing one too few or too many shows. A statement runs through a
cursor, or at once with rows, with a count or with nothing. The client may cancel between any
two steps; then a Write may fail or still succeed. FETCH may fail, and encoding may
throw. PQnfields, PQntuples, PQgetlength and the configured sizes are ints (`INT_MAX`). The reader
of a payload (`DecodedRows`) is not in the repository: it is what the format implies and uses the
bytes only. Close's COMMIT may fail, which nobody looks at. `ResultProtocol` sees the chunks and the
size of the result only; the mapping is the identity on chunks.

### UnixSocket and Config

Processes (an instance started by mistake, a restart) share an environment, the directories
down to the socket and the path. `node` is what the path names: nothing, something that is no
socket, or the socket of a process. `pc` follows main through `EnsureDirectory` (`level` is
the depth of its recursion), `RemoveStaleSocketFile` (look, probe, unlink), the bind and
listen of BuildAndStart, `FinalizeListen` (chmod, verify), serving, and the ways out. gRPC
is external: its bind may replace a socket that is in the way or fail, and closing the listener may
remove the socket file or not. The kernel lets a connect through when somebody listens and the
owner may write to the file.

`Config` works on texts: a number is a sign, digits and whether something follows them, and
`strtol` saturates at the width of a long; a path is a sequence of slashes and names. A parser
returns the set of what it may return, empty when it throws. The widths are constants because TLC
counts in 32 bits; the run uses 22 and 28 bits for 32 and 64.

## Runs

| Run | Checks | Result |
|-----|--------|--------|
| `pool` | Types, slot accounting, exclusive ownership, the real capacity bound, a wakeup for every free slot and idle connection, agreeing credentials, and that every Acquire returns | holds, 121,119 states |
| `shard_safety` | Types, what failed Opens cost (slots, hanging handlers), pinned connections apart from the pool, clean idle connections, intact cursors, the limit on sessions and on open connections, that a client's transaction is ended by the client only, refinement of `ConnectionLife` | holds, 221,501 states |
| `shard_answers` | Streams return when DECLARE does not fail and no backend dies | holds, 100,255 states |
| `declare_deadlock` | Every QueryStream returns (docs/OPERATIONS.md:74, :176) | violated: a rejected DECLARE locks the connection's mutex twice |
| `slot_leak` | The same, with a lost backend instead of a rejected DECLARE | violated: the failed BEGIN leaves the slot taken |
| `notify` | Types, the two indexes inverse, live writers only, an undisturbed Publish reaches all who stayed and counts them right, refinement of `PubSub` | holds, 33,002 states |
| `notify_count` | Publish returns the number of streams that accepted (src/notify/registry.h:20) | violated: Write on a writer whose Watch returned |
| `process` | Types, no SERVING before a probe, nothing alive when the server is freed, no double assignment of the thread without overlapping Connects, health settles on PostgreSQL's state, a signalled process exits | holds, 120,181 states |
| `result_stream` | The rows the client decodes are those of the result, counts are right, COMMIT and ROLLBACK agree with the last chunk, PGresults are cleared, the stream ends, refinement of `ResultProtocol` | holds, 28,034 states |
| `cursor_format` | Rows are sent as binary cells (docs/OPERATIONS.md:67, proto/mtdd.proto:74) | violated: FETCH of a cursor returns text |
| `unix_socket` | An instance that listened undisturbed keeps its socket, an exit leaves none, settings are the numbers written, a restart after the others ended comes to serve | holds, 123,634 states |
| `shutdown_race` | After a signal the process exits (docs/OPERATIONS.md:176) | violated: a Connect clears `stop_` between Stop's store and its join |

`DrainsAndExits` in `process` names the two ways not to exit: a Watch whose client never
leaves, and the race of `shutdown_race`.

Some properties say less than one would like, because the code does:

- `CapacityBound`: each further Connect RPC may raise the pool above `MTDD_POOL_SIZE` by one,
  since Connect pushes to `idle_` without looking at it (README.md:46 calls it the pool size).
- `ConnectionBudget`: the settings do not bound the connections alone. Each Connect RPC adds one, and a
  stream in a session whose entry was replaced keeps the old connection until it ends.
- `DamageBounded` is about clients that send BEGIN with a session_id only. A lost backend may cost
  the pool a slot for good, and a rejected DECLARE the handler (`slot_leak`, `declare_deadlock`);
  it says that nothing else does.
- `TrailerCounts` excepts a cursor without columns (`SELECT FROM t`): only its first FETCH is counted.
- `ServingNeedsProbe` begins when main has got past AttachServer. From BuildAndStart until
  AttachServer's SetServing the server answers and gRPC's health service has its own default:
  the overall service is SERVING, with `MTDD_HEALTH_REQUIRE_PG` on and PostgreSQL never probed.
  README.md:136 ("gRPC health starts `NOT_SERVING` until the first successful `Connect` probes
  PostgreSQL") and docs/OPERATIONS.md:180 do not admit this window.
- `PublishHonest` is about a Publish none of whose Writes was undefined.
- `AcquireReturns` is checked for the finitely many Acquires of its run. `notify_one` favours nobody,
  so an endless stream of barging borrowers could keep one asleep.
- `UnsharedQueriesAnswered` is checked without rejected DECLAREs and lost backends, which hang a
  stream (`declare_deadlock`, `slot_leak`).
- `CommitFollowsTrailer` allows a lost COMMIT after the TRAILER: `exec_error` is not read after Close.
  A TRAILER that was written need not have reached a client that cancelled meanwhile.
- `ResultsCleared` allows the early returns of the loop to leave the last result.
- `UndisturbedServes` is about a process that listened while no other was between its look at the
  path and its exit. Two that start together may unlink each other's socket, and an Abort
  removes whatever socket the path names. It also needs a `MTDD_UNIX_SOCKET_MODE` its owner may
  write with: with `0440` the probe's connect is refused and a live socket is taken for stale
  (docs/OPERATIONS.md:128 "Detects live sockets").
- `ExitLeavesNoFile` is about an unlink that succeeds. CleanupListen only logs one that fails
  (src/unix/unix_socket.cpp:214-217) and leaves the file; the model has no failing unlink there.
- `SettingsAsWritten` is about numbers that fit an `int`; larger ones wrap after the test
  for a positive number.

### Bounds

- `pool`: three threads on a pool of one slot, so that one holds, one sleeps and one
  barges; two credentials that differ in both fields, two Connect RPCs (overlapping or
  not), three Acquires, three connections.
- `shard_*`: two handlers, a pool of one slot, up to three streams. `shard_safety` has two
  session ids under a limit of one, every kind of rejected statement and one lost backend;
  two streams may share a session. Plain writes run without a session there: in one they go
  through the labels of the client's BEGIN. With them too the run holds, on 289,975 states. One set of credentials: those are `pool`'s business.
- `notify`: two clients, two topics (one with two spellings: the empty scope is the global
  one), a channel whose name has a colon, two writer addresses that are reused, one publisher.
  The state space is finite without a bound on the number of operations. Two publishers whose
  Writes meet on one writer are in the model and in the proofs, and beyond this run's size.
- `process`: two handlers and one Watch, with and without `MTDD_HEALTH_REQUIRE_PG`, and two events in
  any mixture: Connects, which may overlap, and changes of PostgreSQL (`MaxEvents`). With three events
  the run holds too, on 1,051,712 states. `shutdown_race` needs one Connect.
- `result_stream`: results with no, one and two columns and up to five rows, with cells that
  are NULL, empty and longer; fetch and batch sizes below, at and above the number of rows, and
  the values that mean the default.
- `unix_socket`: three processes (two that overlap and one that restarts), one crash or failed
  start, two directories above the socket that are there, missing, unusable or files, four
  environments that are accepted and sixteen that are not.
- Deadlock is not checked: with the bounds on RPCs used up the system may rest, and a
  server without requests rests too. Handlers that are stuck are found by the liveness
  properties.

Symmetry is used in safety runs only, over threads, connections, sessions, clients and
writers, which no definition tells apart.

### Fairness

`pool` assumes that a thread inside Acquire that is not asleep goes on and that borrowers
release. `shard_answers`, `declare_deadlock` and `slot_leak` assume that a handler whose
next step is possible takes it: the scheduler runs it, PostgreSQL answers each statement
(with `MTDD_STATEMENT_TIMEOUT_MS=0` this is up to PostgreSQL), connects end within
`connect_timeout`. No RPC, cancellation, lost backend or spurious wakeup is ever forced.
The weak fairness of a blocked lock is enough because nobody holds the mutexes across
steps, except the self-deadlock, which blocks for good.

`process` and `shutdown_race` assume that every thread that can go on does, and that a sleeping
probe thread wakes. Nothing forces RPCs, signals, the end of a Watch, or PostgreSQL.

`result_stream` assumes that the handler runs on: PostgreSQL answers, and Write returns because the
client reads or its call is cancelled. `unix_socket` assumes that the main thread of a started
process runs; nobody has to start, signal or crash one.

## Proofs

All theorems are for arbitrary sets of threads and sessions (finite), connections, clients, names,
writers, publishers and processes, any pool size, any result and any fetch and batch size;
assumptions on constants are `ConstantsAssumption`, `ShardAssumption`, `NotifyAssumption`,
`LifecycleAssumption`, `ResultAssumption`, `ConfigAssumption` and `UnixAssumption`.

Pool. `TypeInv` adds to `TypeOK` the call order: what a thread holds, reads and requests
at each label. On top of it:

- `SlotsAccounted` is inductive with `TypeInv`: each action moves at most one thread in or
  out of the set of slot owners.
- `CapacityBounded` needs nothing more: only Connect raises the sum past the bound, and it
  raises the bound.
- `NoLostWakeup` and `NoStrandedIdle` are proved together with slot accounting: a notification
  either releases a thread or finds nobody asleep, and a woken thread uses up at most
  what it was released for.
- `OwnershipExclusive` needs that a thread holds a connection exactly at `"holding"`, and two
  lemmas on sequences without repetition.
- `CredentialsConsistent` needs that at most one Connect runs while the history is clean, and that
  `params_` is then its request.

Query path. Five invariants, each inductive relative to the one before it:

- `HandlerInv`: types, the call order of the pool, and `Places`: what a handler holds at each
  label of `rpc` and `pc`. Its proof sorts the steps into five kinds (pool, store, stream, loss
  of a backend, stuttering) that the later proofs reuse. `SlotsOwned` and
  `SessionStoreBounded` rest on it alone: a step moves at most one handler in or out of the
  slot owners, and GetOrCreate is the only step that adds an entry.
- `OwnedInv`: no two of pool, pooled streams and sessions own the same connection (`Owners`,
  which has `PinnedApart` as a part). The hard steps are those of GetOrCreate and
  ReleaseConnection, which close a connection only if nobody else refers to it.
- `LinkedInv`: an open connection that libpq marks bad has lost its backend, a healthy pinned
  one is in the store, two streams on one connection are in `shared` (`Links`).
- `TxnInv`: `CursorIntact` and `Transactions`: a connection that is not open is fresh, a
  transaction the client began is INTRANS or INERROR, and a stream with
  `started_local_txn_` set is at a label that still ends it and is not inside a transaction of
  the client. Each stream step changes `pg` of its own connection only; `LinkedInv` says
  that another stream on it is recorded in `shared`.
- `CleanInv`: `IdleClean` and `PooledClean`: a pooled stream gets a fresh connection, and at
  each label up to Release either has a local transaction to end or leaves a fresh or bad
  connection. This one, `PoolLendsClean` and `ClientTransactionsPreserved` assume
  `"begin" \notin PooledSql`: a BEGIN sent without a session_id goes back to the pool with its
  transaction open. The run `shard_safety` has the same restriction.

On top of these:

- The pool's own invariants hold with the query path around it: `PoolBoundedInService`,
  `NoLostWakeupInService`, `CredentialsAgreeInService`. A step of the
  service is a step of the pool, or leaves its slots, wakeups and credentials alone, except the
  OpenCursor that drops a connection: it takes an owner and leaves the slot, so `leaked` counts as
  taken.
- `PinnedCredentialsWhole`: a pooled connection may be opened with a mixture of two clients'
  credentials while Connects overlap (`Mix`); a pinned one may not, because GetOrCreate gets a copy
  of `connect_params_` made under `state_mutex_`. The proof needs that `connect_params_` and every
  copy of it on its way are requests of clients (`SuppliedCopies`).
- `ConnectionsBudgeted`: an open connection has an owner (`OwnedInv`), so the open ones are the
  idle, the lent, the pinned and the stranded; each set is counted against its bound.
- `ServiceImplementsConnectionLife`: the place of each connection is a function of its owners, which
  `OwnedInv` keeps apart. Pool steps map to Warm, Lend, GiveBack and Discard, the store's steps to
  Repin and Finish; a GetOrCreate that replaces an entry closes the old connection only if no
  stream runs in it. Everything that only sends statements is a stutter.
- `DamageOfFailedOpens`: `Drops` says that leaked slots and connections whose backend is gone are
  together no more than the backends lost; a pooled stream that drops its connection found it in
  the second set, since `CleanInv` makes BEGIN succeed on a live one. `BegunInv` says that a stream
  at DECLARE is in a transaction, so only a rejected SELECT, a lost backend or a shared session
  brings it to `relock`. Under the same assumption on `PooledSql`.

Most leaves of these three modules are first-order and go to Zenon (`USE Zenon`); the others
cite SMT.

Registry. `RegistryInv` (types, inverse indexes, live writers) is inductive; `PublishInv`
says that a publisher's writes to do, doing and done are disjoint parts of its copy, and
that an idle publisher has none; `HonestInv` relates the count and the debts to them. The
refinement `RegistryImplementsPubSub` uses them and `TopicsHaveTheirOwnKey`: the glued keys
are injective when no scope contains a colon (`ScopesPlain`). Without that assumption it
is false: scope `a` with channel `b:c` and scope `a:b` with channel `c` share a key.
`UnsubscribeAll` is where the inverse indexes are needed: it cleans `subscriptions_` through
`client_keys_`.

Process. `TeardownInv` says which places of the code are inside SetServing, that Shutdown has
outlasted every handler before main's Stop, and that after it no thread is left and nobody can
start one; `SafeTeardown` follows. `OverlapInv`: until two handlers overlap, at most one is
between test and assignment, and `probe_thread_` is still free. `ServingInv` follows the overall
status through AttachServer and says that nobody is about to write SERVING without a probe.

Result stream. `ResultInv` adds to the properties what the loop knows at each label:
`Accounting` (rows counted are rows sent, and the cursor stands where the last result ends),
`Announced` (the first chunk is the SCHEMA and comes with the first rows), `InHand` (the
rows of the result in hand), `Leaving` (which labels can have written a TRAILER
or an ERROR). The refinement `ResultRefines` maps SendBatch and SendEmptySchema to
SendRows, the two trailers to SendTrailer, and everything else to an ERROR or a stutter.

What the client reads. `PayloadReadsBack`: DecodedRows of EncodeRawPgBatch is the range of rows
that went in, for all rows, columns and cells of bytes that ints can count. It rests on what
`Flatten` does (`FlattenAt`: where each part ends up), what AppendU32 writes and ReadU32 reads
(`U32Value`, `AppendU32Form`), what a cell's bytes say (`CellForm`, `CellRead`), that the reader
finds the beginning of every cell (`PayloadCells`), and on the arithmetic of column-major indexes
(`CellIndex`, `IndexCell`). The library's induction theorems cannot be instantiated by the provers,
so these inductions are over sets of naturals: `SetInduction` says that a set with 0 that is closed
under successor is Nat, from the well-foundedness of `<`. `RowsAreReadBack` lifts this to the
stream: `ReadInv` says that the rows decoded so far are the first n of the result, n being what
the chunks say while the stream goes on and all of them before a TRAILER. Its step goes by the
actions of `ResultProtocol` (`ChunksAllowed`, the step of the refinement) and needs in addition
that no batch is larger than `wire_batch_rows` (`BatchBound`) and that a further chunk is read
after the others (`FlattenAppend`). Not in it: the argument of `out.reserve`, which is computed as
an int and would overflow for a batch of 2^28 cells.

Unix socket. `UnixInv` relates the flags of ScopedListen to the label (`Flags`), says that a
process that is past its cleanup does not own the file (`Owned`), and that while an undisturbed
process runs, every other one is before its unlink or has ended (`Undisturbed`): a later
starter can only look, find the socket alive, and throw without `prepared_`. The types and the
bounds on `level` (`OnTheWay`) need an argument of their own only while EnsureDirectory runs;
`PastDirectories` settles them for every later step.

Only model-checked: `SettingsAsWritten` (a fold over digits compared with powers of two whose
exponents are constants) and every liveness property: temporal reasoning under fairness is outside
what the prover does here.

## Not modelled

A second signal, and the handlers of a process whose startup failed with the server running: their
effects are undefined. FlexBuffers encoding, command tags, error texts and logging: texts with no
state behind them. `QueryExecutor::Execute`, `CloseAll`, `Adopt` and `SessionStore::Size` are
never called by the server. Requests that fail validation (host index, result format, lengths of
texts and names) return before any state is touched and are no steps. The Windows branches.
