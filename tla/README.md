# TLA+ models of sqld

These modules model the concurrent and stateful parts of `sqld` in this
repository: the throttled connection factory, batch lowering, the
per-database config store, the Hrana WebSocket session (with its cursor
fetch loop), the HTTP dump stream and
the process's `main` (startup, the dump command and CTRL-C shutdown), and
the `bottomless-cli` backup tool. Each module is translated from the Rust source. `PROJECT.json` maps
every definition to the lines it models. Run the checks from this directory:

    tlc -workers 2 -config <cfg> <module>

## The system and its parts

| Part | Source | State | Operations | Module |
|---|---|---|---|---|
| Batch lowering | `connection/mod.rs` 38-124 | the Program's steps and conditions; the connection's transaction state | `make_batch_program`, `execute_batch`, `execute_batch_or_rollback`, `rollback` | `BatchProgram` |
| Throttled connection factory | `connection/mod.rs` 161-264 | semaphore permits and their FIFO wait queue; the `waiters` counter; the `TOTAL_RESPONSE_SIZE` gauge | `create` (sample, guard, cap check, acquire, re-sample, second acquire, factory call), the drop of `TrackedConnection` | `Throttler`, refining `AdmissionControl` |
| Config store | `connection/config.rs` | `config.json`, `config.json~`, the `Mutex<Arc<DatabaseConfig>>` | `load`, `store`, `get` | `ConfigStore` |
| Hrana session | `hrana/ws/session.rs` | `streams`, `sqls`, `cursors`, the version; one worker task per stream, each with an 8-slot job channel and a `Stream {db, cursor_hnd}` | the initial hello, the request handlers of `handle_request`, `stream_spawn`, `stream_respond` | `Session`, `FetchCursor` |
| Dump stream | `http/dump.rs` | the blocking export task, the 8 KiB duplex pipe, the fused reader, the `JoinHandle` | `handle_dump`, `DumpStream::poll_next` | `DumpStream` |
| sqld process | `main.rs` | the options given, where `main` is, the dump file, the CTRL-C task, the server's wait on `shutdown` | `Cli::parse`, the dump branch and `perform_dump`, `print_welcome_message`, the `make_*_config` steps, `build_server`'s CTRL-C loop, `server.start()` | `ServerMain` |
| Server configuration | `config.rs` | none of interest | `DbConfig::validate_extensions` reads `trusted.lst` and checks each extension's sha256 | `ServerConfig` (in the `programs` run) |
| Backup CLI | `bottomless-cli/src/main.rs` | the command line, the `LIBSQL_BOTTOMLESS_*` variables, `options`, the database path | `Cli::parse`, `run()` (export, `detect_db`, `strip_prefix`, `Replicator::new`, the subcommand), `main` | `BottomlessCli` |

### How the parts interact

- **Connections.** A Hrana stream's first job calls the throttled factory's
  `create()`. The connection's permit is released when the last `Arc` of
  the connection is dropped. The worker's `Stream` holds one. Each
  `OpenCursor` gives the cursor task, spawned on the session's `JoinSet`, a
  clone (session.rs:329-332), which the task keeps until it ends. So the
  permit can outlive both the `Stream` and the cursor handle.
- **Blocking dispatcher.** The dispatcher handles one request at a time. It
  awaits `job_tx.send` when a stream's mailbox is full. So a worker blocked in
  `create()` can stall the whole session.
- **Batches on a connection.** Batches run on a connection through
  `execute_batch*`. The transaction state persists between calls.
- **Blocking config store.** The config store is called from admin handlers
  with blocking file operations. Nothing in the code serialises two
  `store()` callers.

### What makes the code hard to test

Hold-and-wait of permits, timeouts racing grants, and a bounded mailbox
blocking the dispatcher are all interleavings. Crashes can cut the
write/rename/swap sequence of the config store. A JoinHandle can be pending
while the reader has already ended. A client can disconnect while the
exporter is blocked on a full pipe. Each of these is listed with its source
line under `hazards` in `PROJECT.json`.

- **Shutdown.** `build_server` spawns a task that turns each CTRL-C into
  `Notify::notify_waiters()`. The `Notify` goes into the `Server`
  (main.rs:478). We assume that `Server::start` waits on
  `shutdown.notified()` once it has set itself up. `Server::start` is in
  `lib.rs`, which is not in this tree, and spec.md says nothing about
  shutdown. So this is an assumption about code we cannot read.

## Modules

### `Throttler` (with `MCThrottler`)

Each task is one concurrent caller of `create()`. Its `pc` walks through the
code's await points:

1. `Enter` samples the gauge and does `fetch_add`.
2. `CheckWaiters` reloads the counter and either bails out or enqueues.
3. `Grant` is the FIFO tokio semaphore serving its head waiter.
4. `Resample` reads the gauge again and may enqueue for `units` more.
5. `TimeoutAcquire` covers either acquisition. It drops the held permit and
   the guard.
6. `FactoryOk` or `FactoryErr`.
7. `DropConnection`.

`ChangeGauge` stands for result builders elsewhere in the process. The
gauge's values (sizes 0, 3 and 5 against a maximum of 8) give all three
costs, 1, 4 and 16. The bounds are 32 permits, a waiters cap of 3 and three
tasks, so two 16-unit holders can exhaust the pool and the cap is reached.

The same module maps the implementation onto `AdmissionControl`, an abstract
specification of what `create()` promises. A call is idle, waiting or
connected; a waiting call takes batches of units from a fixed pool, then
returns with a connection that holds units, or with nothing. A connection
gives all its units back when dropped. Every call that starts returns (weak
fairness on giving up). The mapping is `Admission == INSTANCE
AdmissionControl WITH status <- AbstractStatus, held <- held`:
- `Grant` is `Take`;
- a timeout, a rejection or a factory error is `GiveUp`;
- `FactoryOk` is `Connect`;
- `DropConnection` is `Release`;
- the re-sample, the enqueue and the gauge are stutters.

### `BatchProgram`

A Program is a sequence of `[stmt, cond]` steps. Conditions are the code's
`Cond` tree, evaluated by the RECURSIVE `EvalCond`. The executor and the
engine are not in this tree and are modelled from the spec; they are marked
`spec_modelled` in the map:

- a step whose condition holds runs, with any outcome the engine allows for
  BEGIN, COMMIT, ROLLBACK or a write in the current transaction state;
- any other step is skipped.

`ExecuteBatchOrRollback` appends the `Not(Ok(last))` rollback tail and keeps
`take(batch_len)` results. All batches of length 1 to 3 over the four
statement kinds are enumerated.

### `ConfigStore` (with `MCConfigStore`)

The file system is modelled as paths bound to inodes:

- `fs::write` is `OpenTmp` (create and truncate, leaving the file torn)
  followed by `WriteTmp`, or by `WriteTmpFails`;
- a descriptor follows its inode across a rename;
- `Crash` can happen between any two steps, and `Load` restarts the process.

The ghost variables `acked` and `lost` record the configs that may
legitimately be on disk.

### `Session` (with `MCSession`)

The dispatcher actions are one per request handler: `OpenStream`,
`CloseStream`, `DbRequest`, `StoreSql`, `CloseSql`, `OpenCursor`,
`CloseCursor` and `FetchCursor`.

- **Checks.** A request that fails a check (`bail!`) changes nothing and is a
  stutter, so each action's guard is the checks it passes.
- **Sending.** `Send` is `stream_respond`. When the mailbox is full, the
  dispatcher records a `pending` job and handles nothing else until
  `DeliverPending`.
- **Workers.** Workers are tracked by slot, because a closed stream's worker
  outlives its id. They `Recv` jobs in FIFO order and run them: `RunOpen`,
  `OpenFails` and `OpenTimesOut` for the open job, `RunPlain`,
  `RunOpenCursor` and `RunCloseCursor`. A worker does `Exit` after its sender
  is dropped and its mailbox is drained, and so drops its `Stream`.
- **Cursor tasks.** When a cursor handle is dropped (`Detach`), its task is
  detached: by the close_cursor job, by a handle replaced by open_cursor, or
  by `Exit` with a cursor attached. The task keeps its clone of the
  connection (`ctask`) until `CursorTaskEnds`. The permit goes back when the
  last holder lets go: `Exit` if no cursor task holds a clone, otherwise
  `CursorTaskEnds` after the `Stream` is gone. A slot is a worker together
  with the cursor tasks it started. So a slot is reused only when both are
  gone, and the other slot meanwhile opens streams that must wait for the
  permit. `cursor.rs` is not in this tree. That a detached task ends at all
  is modelled from the spec, which gives the connection's permit a single
  owner that must release it on every path.
- **Bounds.** Two stream ids, one cursor id, two SQL ids, two worker slots, a
  mailbox of 1 (2 in `session_no_timeout`), a SQL cap of 1, one connection
  permit, protocol version 3. These bounds reach the case where a dead
  worker's cursor task holds the only permit while the dispatcher is
  blocked on the other stream's full mailbox.

### `FetchCursor`

The drain loop of the `FetchCursor` job is the RECURSIVE operator
`FetchLoop`:
- it continues while fewer than `max_count` entries were taken and fewer
  than `max_response_size / 8` bytes;
- it ends with `done` when the cursor returns None;
- it fails when the cursor fails.

`cursor.rs` is not in this tree. The cursor is any sequence of up to three
entries of sizes 1 and 3, failing at any position or not at all. A client
keeps fetching with `max_count` 0, 1 or 2 until it sees `done` or an error.

### `ServerMain`

`main` is a sequence of steps, one action each:
1. `Parse` (clap's `conflicts_with` and `requires` are `ParseOk`);
2. on the dump branch, `DumpCheck`, `OpenOut` (`create_new`) and
   `RunExport`;
3. otherwise `Welcome`, `DbConfig`, `UserApi`, `AdminApi`, `RpcServer`,
   `RpcClient`, and then `SpawnAndStart`.

A step that touches the environment may fail nondeterministically, and the
error records its cause. The command line is any set of the twelve options
that change control flow.

Around the steps:
- The CTRL-C task installs tokio's handler on its first poll
  (`ListenSignal`). `Notify` wakes the server only if it is already
  waiting.
- `Press` is the user. Before the handler is installed, a CTRL-C kills the
  process. A CTRL-C while the task is between two `ctrl_c()` calls is lost.
- `ServerWait`, `ServerFails` and `ServerStop` are `Server::start`. They are
  modelled from the spec, since `lib.rs` is not in this tree.

### `ServerConfig`

`DbConfig::validate_extensions` is a pure function of three things: whether
`--extensions-path` was given, the text of `trusted.lst` (or a read error),
and the sha256 of each file on disk (or a `try_digest` error). A line is
abstracted to whether it was the empty string (which `lines().filter`
drops) and its whitespace-separated tokens; tokens are model values. The
`for` loop is the recursive operator `CheckLines`, which ends with `Err` at
the first line that `?` or `ensure!` rejects.

`ExtensionListChecked` compares it, over every `trusted.lst` of up to three
lines from two digests and two files and every disk, with `TrustedExtensions`.
That reference is written from the option's help text: load exactly the listed
extensions, in order, when each has its listed digest, and refuse to start
otherwise. `ServerMain` states it as an invariant of the states in which
`Server::start` has received the `DbConfig`, and the `programs` run checks it.

### `BottomlessCli` and `Programs`

`run()` of the backup tool is one action per step:
1. `ParseArgs` is `Cli::parse` with the subcommands' `conflicts_with`.
2. `ExportEnv` exports a given `-e`/`-b` to `LIBSQL_BOTTOMLESS_*`, or reads
   a missing one back into `options`, and always exports the namespace.
3. `ResolveDatabase` takes `-d`, or asks `detect_db` with an S3 client on
   `options`. When nothing is found it prints a hint and returns `Ok`.
4. `BuildPath` is `strip_prefix("ns-").unwrap()` and the path concatenation.
5. `NewReplicator` is `Replicator::new`.
6. `RunCommand` is the match on the subcommand.

Strings are sequences of tokens, so `strip_prefix` and `+` do what they do.
A command line is a subcommand with the options present or absent; dates,
limits and uuids only matter by being there. Every `?` may fail. The ghosts
`detected` and `opened` record where `detect_db` looked and where the
Replicator works. `detect_db` and the Replicator are in
`replicator_extras.rs`, which is not in this tree: they are modelled from
the spec. The Replicator reads its location from the environment and falls
back to the bucket `bottomless`.

`Programs` puts the two executables side by side. Its initial state starts
either `sqld` (all of `ServerMain`) or `bottomless-cli` (all of
`BottomlessCli`), and the other's variables keep the values of a process
that never started. The state space is the sum of the two (93,888 + 5,373),
and `ServerMain`'s fairness is restated for the steps of `sqld`.

### `DumpStream`

The export task writes numbered chunks into a pipe of `PipeCap` chunks, and
its writer is dropped when it returns. The `poll_next` branches are:

- `PollChunk`: yield a buffered chunk;
- `PollEnd`: the reader ended, and `poll_next` recurses into the JoinHandle;
- `PollTerminated`: a later wake-up polls the JoinHandle again.

`ClientGone` drops the body, and `Served` is the end of the request. The
bounds are four chunks and a pipe of two, so the writer does block.

## Runs

| Run | Expect | What it shows |
|---|---|---|
| `throttler` | pass | `PermitsConserved`: every permit is free or held by exactly one task. `WaitersCounted` and `WaitersCapped`: the counter equals the calls inside `create()`, and fewer than the cap pass the check. `CreateReturns`: with a timeout, every call returns. `AdmissionRefined`: the implementation refines `AdmissionControl`. |
| `throttler_no_timeout` | violation | Without a timeout, two calls under pressure hold 4 and 16 permits, and each waits for 16 more with 12 free: `CreateReturns` fails. |
| `batch_program` | pass | `ShortCircuit`: a step runs exactly when all earlier steps were Ok. `FailedBatchRolledBack`: a failed `execute_batch_or_rollback` leaves no transaction open and returns one result per statement. |
| `config_store` | pass | One writer with crashes: `config.json` is always an acknowledged or renamed-in config, never a torn file (`DiskPrevOrNew`). |
| `config_torn` | violation | Two writers: a rename publishes an inode the other writer just truncated. |
| `session` | pass | Checks the properties below. |
| `session_no_timeout` | violation | Without a factory timeout, the dispatcher is blocked on s1's full mailbox. s1's worker waits for the permit that s2's connection holds, and only a request the dispatcher cannot take would free it. |
| `fetch_cursor` | pass | `FetchWithinBudget`: a reply is the next run of cursor entries, at most `max_count` of them, over the byte budget only with its last entry, and short only when the budget is reached, the cursor is done, or it failed. `FetchDrains`: a client that keeps fetching sees `done` or the error. |
| `programs` | pass | `StartupFailsOnlyOnEnvironment`: no command line that clap accepts reaches the banner's `unreachable!()` or a "tls is enabled but ... file is missing" error. `SqldShutsDownEventually`: a user who keeps pressing CTRL-C sees sqld end. `ExtensionListChecked`: `validate_extensions` accepts a `trusted.lst` exactly when every listed extension is well formed and has its digest; one bad or whitespace-only line rejects the whole list. `ReplicatorSeesDetectedTarget`: the Replicator works on the endpoint, bucket and namespace where `detect_db` found the database, for every mix of flags, shell variables and defaults. The mutant that keeps `-b` in `options` without exporting it breaks this. `PanicsOnlyOnNamespace`: the backup tool panics only at the namespace's `unwrap`, because `conflicts_with` keeps rm away from its `unreachable!()`. |
| `server_lost_signal` | violation | One CTRL-C, handled while `Server::start` is still setting up, is logged as "shutting down gracefully". But `notify_waiters` wakes nobody, and the server then waits forever (`AnnouncedShutdownHappens`). |
| `bottomless_noop_exit` | violation | `ExitsZeroOnlyWhenDone`: `run()` prints a hint and returns `Ok(())` when `detect_db` finds no database (main.rs:121-124), and when rm has neither `--generation` nor `--older-than`. So the tool exits with status 0 having done nothing, where the spec says it exits nonzero on error. |
| `dump_stream` | pass | `EndMeansComplete`: a clean end means a successful export and every chunk in order; a failure ends in an error. `DumpFinishes`: the export task completes even after a disconnect. |

The properties of the `session` run are:

- `CursorTablesAgree`: the cursor tables agree, so the `assert_eq!`s cannot
  fire;
- `WorkerAgreesOnCursor`: a caught-up worker holds a cursor exactly when the
  tables say so;
- `PermitsConserved`: every permit is free or held by one connection, which a
  live worker's `Stream` or a detached cursor task still holds. The mutant
  whose last cursor task ends without returning the permit breaks it;
- `DispatchProgress`: a blocked send is eventually delivered;
- `StreamReleasesConnection`: once the client closes a stream, its worker
  and every cursor task holding a clone eventually drop the connection, and
  the permit is returned. This holds whatever jobs were still queued,
  whether a cursor was attached or closed, and whether the permit wait timed
  out. It rests on `CursorTaskEnds` being weakly fair. The mutant whose
  worker waits for its cursor to be closed before it ends breaks it, because
  `CloseStream` removes the cursor id and no `CloseCursor` can follow.

Every property of a passing run has a mutant in `PROJECT.json`: a plausible
bug in a mapped definition, which TLC finds violating that property.

## Fairness

Weak fairness is put on the steps the tokio runtime drives once they are
enabled: semaphore grants, timers, woken tasks, channel receives, the
blocking pool and hyper polling the body. It is not put on the client's
requests, on the gauge, or on the lifetime of a connection. The exception is
`SpecDrop`, which assumes that connections are eventually dropped. This shows
that the `throttler_no_timeout` deadlock does not depend on a connection
being held forever.

Three more assumptions are about the user:
- `FetchCursor` assumes the client keeps fetching with a positive
  `max_count`.
- `ServerMain`'s `SpecInsist`, and `ProgramsFairness` for `sqld`, assume
  the user keeps pressing CTRL-C until the process is gone. The violation run `server_lost_signal` drops this
  assumption.
- `Session` assumes that a detached cursor task eventually ends. `cursor.rs`
  is not in this tree; once its handle is gone, nothing reads what the task
  produces.

## Not modelled, and the plan for later work

These parts are not modelled:

- `config.rs`'s `get_auth` and `RpcClientConfig::configure`: their work is
  in `auth.rs` and tonic, which are not in this tree.
- `replicator_extras.rs` (`detect_db`, `Replicator`) and the bottomless
  library, which are not in this tree: modelled from the spec inside
  `BottomlessCli`.
- The values of `main.rs`'s options, and its logging setup.
- The libSQL engine and `program.rs`, which are not in this tree: modelled
  from the spec inside `BatchProgram`.
- `cursor.rs` and `lib.rs`, which are not in this tree: the cursor is a
  sequence of entry sizes and a task that ends after its handle is dropped,
  and `Server::start` is assumed to be a set-up phase followed by a wait on
  `notified()`.
- The repeated hello. It only re-sets `session.authenticated`, which each
  job copies by value into its `'static` closure when the request is
  handled. No interleaving can change the identity a queued job runs under,
  so there is nothing to check.
- Cleanup after a failed `sqld dump --path`. `create_new` refuses an
  existing file, and a failed `export_dump` leaves the partial file behind,
  so a rerun fails until it is removed. Neither the spec nor a comment says
  what should happen, so no property is stated.

Some observations have no run of their own:

- **The backup tool's exits.** `bottomless-cli` with `--namespace` but
  without the `ns-` prefix panics at the `strip_prefix` `unwrap()`
  (main.rs:128). The model reaches that panic, and `PanicsOnlyOnNamespace`
  allows only this one.

- **`store()` and memory.** Two concurrent `store()` calls can also leave
  `get()` disagreeing with the file, because the rename and the swap are
  not under one lock. `config_torn` already shows the missing serialisation
  through the file itself. This is not checked separately.
- **The second permit batch.** A connection's second batch of permits is
  the full re-sampled cost on top of the first (up to 32 permits), where
  the spec's wording suggests a top-up to 16.
- **The zero fetch budget.** A `max_response_size` below 8 makes the fetch
  budget 0, and `FetchDrains` then fails.
- **Cursor identity.** An open cursor keeps the identity captured when it
  was opened across a repeated hello. The spec's "preserving cursor state"
  allows this.

Planned next, most important first:

1. Compose `Session` with `Throttler` (INSTANCE), so that stream opens use
   the two-phase acquisition and the timeout.
2. Runs of `Session` with protocol versions 1 and 2, to exercise the version
   gates.
3. Session teardown, where the JoinSet aborts workers and cursors.
