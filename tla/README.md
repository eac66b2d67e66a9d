# LocateAnything: a TLA+ model of the streaming service

Specifications, TLC configurations and TLAPS proofs for the service in `src/`: a Rust
WebSocket frontend (`rust_server/`), a Python worker with one GPU (`worker/`), the container
entrypoint that supervises both, a reference client and the scripts around them.

## Inventory

| Component | Code | State it keeps | Operations | Hard behaviour | Module |
|---|---|---|---|---|---|
| WebSocket handler | `ws.rs` `handle_ws`, `process_binary`, `send_close` | where the task is; one worker connection; ping and idle timers | connect, read, gate, infer, send, close | replies in step with requests, sends that block, shutdown between two awaits, half-open peers | `LaStream`, `WsTimers`, `FramePath` |
| Worker connection | `ipc.rs` `WorkerConn` | one framed Unix socket, no sequence numbers | connect, infer, control | EOF behind a last reply; a body that drifted from the schema | `LaStream`, `FramePath` |
| Boot, routes, shutdown | `main.rs`, `state.rs`, `config.rs` | `Notify`, listener | wait_for_socket, health/info/capabilities, notify_waiters, 5 s drain | a notification without a permit, two processes that boot at once | `Supervisor`, `LaStream` |
| Worker | `la_worker.py` | `WorkerApp.lock`, one task per connection, threads of `to_thread` | handle_connection, _infer, SIGTERM drain, hard exit | lock order, orphan threads, timeout against late result, exit while others wait | `LaStream`, `FrameInference`, `Supervisor` |
| Supervision | `container/entrypoint.sh` | two pids, first exit code | wait -n, forward_signal, TERM, 5 s, KILL | who ends first, which code is reported | `Supervisor`, `LaStream` |
| Engine and A.3 mapping | `inference.py`, `prompts.py` | model on the GPU, patched classes | __init__, run | patches that outlive an engine; geometry to boxes / points / abstained / deviation | `EngineBoot`, `FrameInference` |
| Parser | `parsing.py` | none | parse_boxes, parse_points, count_malformed, has_abstention | overlapping lazy patterns | `AnswerParser` |
| Prompt compilation | `prompt_validator.rs`, `protocol.rs`, `prompts.py` | none | compile, validate_slot; builders, classifier, point_phrase | two programs, one string, no ambiguity | `PromptSlots` |
| Image gates | `ws.rs`, `jpeg.rs`, `pixel_token_math.py` | none | dimension and patch limits | agreement of the edge with the worker at boundaries | `ImageGates` |
| Boot checks, calibration | `validate_startup.py`, `calibration.py` | none | pass or exit | files that change between two checks | `EngineBoot` |
| Reference client | `examples/reference_client.py` | bounded queue, stop event, backoff counter | capture, send, receive, reconnect | a blocking queue between threads and tasks | `ReferenceClient` |
| Smoke tests | `scripts/04_*`, `05_*`, `scripts/lib/` | records of the frames sent | send, measure, judge | a verdict over concurrent clients | `ConcurrencySmoke` |
| Tiling | `tiling.py` | none | plan, map back, NMS | coverage, overlap | not modelled |
| Lifecycle scripts | `setup.sh`, `uninstall.sh`, `scripts/` | files, image, container | download and resume, build, start, remove | partial failures, a dead Docker daemon | not modelled |
| Image definition, host checks | `Dockerfile`, `00_validate_host.sh`, `versions.sh` | none | build, compare versions | | not modelled |

How they interact: a client sends binary messages on a WebSocket; its `handle_ws` task takes
one, gates it, writes it to its own Unix socket, waits for one reply and sends it as a text
message, then takes the next. The worker has one `handle_connection` task per socket; all of
them take turns on `WorkerApp.lock` around `asyncio.to_thread(engine.run)`. A timeout or CUDA
OOM is answered with a typed error and ends the worker process; `wait -n` in the entrypoint
then ends the frontend and the container, and Docker restarts it.

What makes each component correct:

* handler and worker connection: reply n answers message n; nothing follows a Close; every
  frame is settled; no refused body gets out; the typed error precedes the Close; a peer that
  answers is kept and one that has vanished is noticed.
* worker: one inference at a time, in order of arrival; every inference ends, or the worker does.
* supervision: the end of one process ends the container, and its status names the cause;
  shutdown says goodbye to clients.
* boot: no listener before a worker that answers; an engine that serves runs as it was trained,
  and a boot is refused only for a reason.
* prompts: client text never changes what is asked for; both languages build the same string.
* gates: what the edge accepts, the worker accepts unchanged.
* parser and mapping: exactly one outcome per answer; no geometry is lost without being counted.
* client: no frame lost or reordered while connected; no thread or task that waits for ever.
* smoke test: no fault passes as OK, and no sound service is accused.

## Modules

| Module | What it is |
|---|---|
| `LaStream` | the streaming pipeline: clients, `handle_ws`, the Unix sockets, `handle_connection`, the lock, the engine's threads, the two processes and the entrypoint |
| `StopAndWait` | what a client may rely on: one message, one reply about it, then the next; what each Close code says of the message at hand |
| `WsTimers` | the same handler in time: Ping interval, idle timeout, a peer that stalls or vanishes |
| `Supervisor` | one container from start to exit, in ticks |
| `PromptSlots` | the typed request, the compiled prompt, and the way back |
| `ImageGates` | the gates of both sides and the resize plan, by dimensions |
| `AnswerParser` | `parsing.py` as operators on sequences of symbols |
| `FrameInference` | one request in the worker; extends `AnswerParser` and `ImageGates` |
| `FramePath` | a frame from the client's bytes to the reply; composes `FrameInference` with an instance of `PromptSlots` |
| `EngineBoot` | from the first preflight check to an engine that may serve |
| `ReferenceClient` | the reference client over several reconnects |
| `ConcurrencySmoke` | the concurrency probe and its verdict, against a service that may misbehave |
| `MC...` | the instances for TLC |
| `LaStreamProofs`, `FrameInferenceProofs`, `FramePathProofs`, `WsTimersProofs`, `SupervisorProofs`, `EngineBootProofs`, `ReferenceClientProofs`, `ConcurrencySmokeProofs` | the TLAPS proofs |

### `LaStream`: state and actions against the code

A connection `c` stands for one WebSocket with its `handle_ws` task, its Unix socket and its
`handle_connection` task; a new WebSocket is another element of `Conns`. The frame `<<c, n>>`
is the n-th binary message of `c`, and also its frame_id.

| Variable | Code |
|---|---|
| `peer`, `sent` | the client (external): open, no longer reading, gone; how much it has sent |
| `rust`, `cur`, `out`, `replies`, `close` | the await at which `handle_ws` stands, the message it is at, the reply it is sending, what it has sent, the Close code |
| `toPy`, `toRs` | the two directions of the Unix socket |
| `py`, `req`, `result` | the await at which `handle_connection` stands, the request, what `to_thread` returned |
| `holder`, `queue`, `engine` | `WorkerApp.lock`, its waiters, the threads inside `engine.run` |
| `worker`, `server`, `sup` | the two processes and the entrypoint |

Each action is the code between two awaits. On the Rust side: `ConnectWorker`, then the arms
of the `select!` (`ShutdownClose`, `ReadBinary`, `ReadEnd`), the three outcomes of
`process_binary` (`FatalFraming`, `PerFrame`, `Pending`), the two ends of `infer`
(`InferReply`, `InferEof`) and of the send (`SendReply`, `SendFail`). On the Python side:
`TakeRequest` (two frames read and `async with self.lock` reached), `GrantLock`,
`EngineReturn` (a thread ends), `Respond`, `FatalInference` with `HardExit`, `ReadEof`; SIGTERM is
`StopListening` and `DrainedExit`. The entrypoint is `ChildEnded` and `Kill`, `main.rs` at
shutdown is `NotifyWaiters` and `ServerExit`. Faults from outside: `Stall`, `Leave`,
`DockerStop`, `ServerCrash`, `WorkerCrash`.

Choices worth knowing when reading it next to the code:

* `asyncio.Lock.acquire` takes a free lock at once only when nobody waits; otherwise the
  released lock goes to the oldest waiter when that task runs. `TakeRequest` and `GrantLock`
  are these two paths.
* `write_frame` does not yield on a healthy transport, so `Respond`, and the error and
  `os._exit` of `FatalInference`, are one step. On a transport that is already closing
  `drain()` yields once before the `ConnectionError`; the lock is free by then, so another
  inference may start beside the orphan until `HardExit`. That needs a dead frontend (a task
  whose `handle_ws` is gone can only be running then), which is why `GpuExclusive` is stated
  for a living one.
* The timer of `wait_for` may go off in any running state, also when the result has just come
  in; both orders are behaviours.
* A `drift` body stands for a worker bug: any body `ipc::infer` cannot deserialize.
* `ReadEnd` may be taken of any client, as `ws.rs:125` returns on every receive error; only for
  a client that has left is it certain (`Owed`).
* A send to a client that no longer reads blocks for ever, for replies and Close frames alike:
  `stalled` means that the socket buffer is full.
* `NotifyWaiters` wakes tasks in `reading` only: `notify_waiters` stores no permit and each
  turn of the `select!` makes a new `notified()` future.
* `WorkerGone` empties `toPy` (unread requests are lost with the process) and leaves `toRs`
  (what was written is still read before EOF).
* `ServerExit` waits until no task is connecting, processing or notified: 5 s are enough for
  every step that does not wait for the worker or the client. `Kill` may come at any moment
  after the entrypoint has sent SIGTERM.

### `StopAndWait`: what it promises

Four functions of the connection and five actions; no worker, lock or process. `LaStream`
implements it (`ServesClients`) under the mapping `taken <- cur`, `answers <- replies`,
`code <- close` and `phase <- Phase` (new, open or ended, from the state of the `handle_ws`
task). `Take` needs every earlier message answered; `Answer` needs a message at hand and adds a
reply that carries its frame_id and speaks of its image; Close(1001) is said only between two
messages, Close(1008) only of the message at hand, Close(1011) of the message at hand or
before the first. So a client that gets Close(1001) knows that no message was taken and left
unanswered, and one that gets 1008 or 1011 knows that at most its oldest unanswered message
was. A connection may also end without a Close frame (`Abandon`), many at once when their
process ends.
Left out of `LaStream`: the content of frames (the outcome of a frame's gates is one of three,
chosen freely; `FramePath` has the gates), text messages and Pings from the client (they only
refresh a timer; `WsTimers` has the timer), and the control requests of the HTTP routes, which
use a connection of their own and never take the lock. The JPEG limit of the container stays
below the 16 MiB limit of the socket's framing (`ipc.rs:49`), so that limit is not modelled.

### `WsTimers`: the select! loop in time

One connection, in ticks. `phase` is the await at which the handler stands, `timer` the
`tokio::time::timeout` of this turn, `due` and `sincePing` the `interval`, `outbox` what the
peer's socket holds, `broken` what the kernel has found out. `StartPing` and `Ping` are the
first arm (the second part waits for room in the socket), `ReadMessage` and `ReadEnds` the
arm with the timeout, `Reply` the return from `process_binary`. The select! is biased, so
`Readable` needs a Ping that is not due. `Turn`, the end of an arm, makes a new timeout: this
is what `ws.rs:122` does, and why `IdleIsClosed` fails while `HalfOpenIsNoticed` holds (through
the Pings that fill the socket or break it). `Tick` passes only when the handler has to wait;
`Missed` is `MissedTickBehavior::Skip`. `silence` and `burst` are history for the properties.

### `Supervisor`: the container

`bash`, `worker` and `frontend` are three processes, `term` the SIGTERMs that are on their way,
`clock` what each timer has left (the probe of `wait_for_socket`, the frontend's 5 s flush, the
ten half seconds of the entrypoint). A worker that has got SIGTERM first waits for its
connections (`wait_closed`), with the inferences on them, also those that begin now (`Infer`);
when the last is gone the lock is free, so that its 60 s and the executor's threads take no time
and `Drained` needs no clock of its own. It is certain only once the frontend has ended. `socket` is the file: it may be
left from an earlier container (`stale`). `Trap` interrupts `wait -n`, so that the code of a
stopped container is 143; `ChildEnded` takes the status of a child that has ended, either one
when both have; `Exit` kills what is left after the grace and reports what `wait -n` returned. A process without a handler yet
dies of SIGTERM (`WorkerTerm`, `FrontendTerm`).

### `FramePath`, `FrameInference`, `PromptSlots`, `ImageGates`, `AnswerParser`: one frame

`FramePath` follows one frame; `stage` is where it is, `phase` where its image is. At the
frontend: `CompileRequest` (step 4 of `process_binary`), `CheckPayload` (step 5), `MeasureImage`
or `MeasuringPanics` (step 6), `GateAtEdge` (step 7), `Forward` (`WorkerConn::infer`, which
sends the wire name of the template as `prompt_task`). At the worker: `Route`
(`handle_connection`), `CheckFrame` (`_infer`), `RefuseFrame`, `DecodeImage`, `GateImage`,
`PlanImage` (the head of `run`), `Emit` and `EndGeneration` (`model.generate`), `MapAnswer` (the
A.3 mapping), `BuildReply`. A frame may also start at the Unix socket (`BypassInit`) with any
header: the worker checks again what the frontend has checked, and
`OnlyGoodFramesAreAnswered` is about that second layer too.

Text (`PromptSlots`) is a sequence of pieces, each a class of characters the code tells apart:
a letter, blank, comma, period, control character, combining accent, and the two halves of
`</c>`, so that a separator can come into being at a seam. An answer (`AnswerParser`) is a
sequence of the symbols the regular expressions are made of. Their lazy and overlapping
matches are modelled by what they find: `Closer` is where `.*?</box>` stops, `RunEnd` how far a
ref-run reaches, `AnyBoxRE` and `PointRE` skip what an earlier match has swallowed. The
properties compare this with a reading of the answer that knows no expression (`Openers`,
`ClosedBlocks`, `RunOf`). Dimensions (`ImageGates`) are numbers; a pixel of an answer is kept
in thousandths, so that `round(c / 1000 * W, 2)` is exact up to its last decimal.

The edge and the worker read the EXIF orientation with two libraries; `Decode` lets the worker
swap the sides or not, whatever the edge did.

### `EngineBoot`: the boot of the engine

`world` is what the boot finds (environment, GPU, templates, flash-attn, the dispatch table,
the shape of the encoder, the configuration, copies of the LLM module the patch was not
written for), `files` the model directory, which may change until the engine has loaded it; a change between
the second hashing and the end of `Load` is kept apart, because nothing looks for it.
`ServesAsTrained` says of the files that they are the pinned ones or have changed in that window.
`ValidateEnv` to `ValidateTemplates` are `run_all`; `Recheck` to `PatchVit` are `__init__` in
order. `Load` takes any outcome that the comments of `inference.py` name for
`from_pretrained`: an override kept, put back or cascaded, for each block by itself, and live
layers of any imported copy or of a foreign class. `Reboot` runs `__init__` once more in the
same process, on classes that are patched already.

### `ReferenceClient`

A run is one turn of the loop of `main_async`. Per run: the connection, the queue, the event,
the capture thread, the coroutine `sender` with its call in the executor, and `receiver`. The
default executor has `PoolSize` threads for all runs: `TakeThread` starts a submitted `q.get` when
one is free, and `Encode` needs one too. `UnexpectedReply` is a reply that is no object or lacks a
field, over which `receiver` raises on an open connection. Threads and coroutines of earlier runs stay, because the code does not
wait for them (`t.join` has a timeout, `gather` cancels nothing). `GatherEnds`, `Joined` and
`Decide` are the end of a run, the counting of its outcome and the pause; delays are in half
seconds, because the pause after a normal close is half of the option. `ExitProcess` waits for
the executor's threads, as `asyncio.run` does, and not for the daemon threads.

### `ConcurrencySmoke`

The clients (`_run_one_client`) and the verdict (`run`) are modelled; the service is the
environment: it serves in order of arrival and takes between `MinService` and `MaxService` ticks
per frame, and up to `MaxFaults` times it loses a reply, answers an error or on the wrong
WebSocket, closes one, or refuses one. `faults` records what it did, so that the verdict can
be compared with the truth.

## Runs

| Run | Distinct states | Instance | What it asks |
|---|---|---|---|
| `stream_safety` | 1,394,109 | 2 connections, 2 frames each, all faults, symmetry | `IInv`, `GpuExclusive`, `Correlated`, `OneOutstanding`, `TypedErrorFirst`, `CloseIsLast`, and `ServesClients`: the service implements `StopAndWait` |
| `stream_queue` | 394,845 | 3 connections, 2 frames each, no outside faults, symmetry | `FirstComeFirstServed` with two tasks in the queue and a third that returns |
| `stream_live` | 253,665 | 2 connections, 1 frame each, all faults, fairness | `FrameSettled`, `InferenceBounded` |
| `frame_path` | 4,442,720 | answers of up to 6 symbols, phrases of up to 4 pieces, lists of up to 3 categories, every header at the socket, 24 boundaries for each side, limit 8000 | what the parser keeps and counts (`NothingVanishes`, `LabelsComeFromTheirRun`, `GeometryInImage`, `ProbeSeesEveryBlock`), who is answered and who is blamed (`OnlyGoodFramesAreAnswered`, `FrontendVouches`), the gates (`EdgeDecides`, `NeverDownscaled`, `TokensWithinAdvertised`), the prompt (`RequestRecoverable`, `BuildersAgree`, `ClassifiedAsSent`) |
| `client` | 90,960 | 3 runs, 2 of them connected, one executor thread, queue of 1, exclusive source that may fail, fairness | `NothingLeftBehind`, `GivesUpWhenPersistent`, `BackoffNeverShrinks`, `StoppedThreadEnds`, `ExecutorThreadComesBack` |
| `engine_boot` | 74,033 | 2 copies, 2 blocks, 3 faults, 2 engines, files that change before and after the second hashing | `ServesAsTrained`, `WrappedOnce`, `AllOrNothing`, `RefusesOnlyWithCause` |
| `supervisor` | 20,761 | grace 3, flush 3, probe 4 ticks, 2 inferences of up to 5, fairness | `NoListenerBeforeModel`, `ExitNamesTheCause`, `OneDeathEndsAll`, `ServesOrEnds` |
| `ws_timers` | 5,277 | Ping 2, timeout 8 ticks, frames of up to 5, fairness | `KeepsWhoAnswers`, `NoPingBurst`, `HalfOpenIsNoticed` |
| `smoke` | 1,648,580 | 3 clients, 2 frames each, 2 faults | `EveryFaultIsReported`, `NoFalseAlarm` |
| `goodbye` | violated | 2 connections, 1 frame each | `state.rs:9` "Every WebSocket handler watches it and, on notification, sends a graceful Close(1001)" |
| `client_hangs` | violated | 2 runs, 2 executor threads, a source that may not open | `reference_client.py:278` "failures aborts loudly" |
| `idle_closed` | violated | Ping 1, timeout 4 ticks | `ws.rs:56` "If no WebSocket message (data OR pong) arrives for this long, the connection is considered dead and closed" |

### Bounds, and why they are enough

* `LaStream`: `Conns` and `MaxFrames` only. Two connections make every conflict over the lock,
  the worker and the shutdown; two frames let a late or doubled reply hit the next frame of
  the same connection; three connections put two tasks in the lock's queue.
* `FramePath`: at most one of request, payload and size is unusual, headers vary only for frames
  that come past the frontend, with an image of ordinary size, and such frames get the usual
  answer. The checks of the code are made one after the other and each looks at one of these,
  so two unusual things show no more than the first of them. The engine fails only before
  the first symbol, since no part of an abandoned answer reaches the reply. Six symbols are a
  labelled block and half of another, in every order, or two blocks; an unclosed block before
  a ref and a block needs six. Four pieces hold a whole separator between two others. The
  sizes are those on both sides of every comparison (14, 28, 32, 2240, 7168 and 25600 patches),
  with the limit at 8000, where the gates on patches decide; the theorems of
  `FrameInferenceProofs` hold for every size and every limit. A list that is too long has names of
  one piece.
* `ReferenceClient`: three runs, so that two failures in a row can be followed by a third or
  by a success; two of them connect, so that the thread of an old run meets a new one. The pool
  has one thread where the code has `min(32, cpus + 4)`: the leaked `q.get` of one run is enough
  to stop the next, where it takes that many in the code; `client_hangs` has room for both. The
  queue of one is full after the first frame; the theorems hold for every pool and queue.
* `EngineBoot`: three things wrong at once, two copies (one patched, one not), two blocks (one
  departs from the override, one does not), a second engine. A change of hashed files after the
  second hashing is one value (`changed_after`): what such files make of the model is not modelled,
  only that they may not be readable (`ReadFails`) and that the boot goes on with them.
* `Supervisor` and `WsTimers`: ticks keep the order of the constants, which is all the code
  depends on: an inference outlasts the grace; a frame outlasts two Pings. `Room` bounds the socket, and two frames are enough to fill it.
* `ConcurrencySmoke`: three clients, because two never wait for the lock at the same time while
  a third is served; a timeout that only a lost reply exceeds. With the defaults
  (two clients, one second apart) the fairness check compares clients that hardly ever meet.

`CHECK_DEADLOCK FALSE` stands where the modelled thing ends: a frame that is answered, a boot
that is over, a client or container that has exited, a closed connection, a verdict; and in
`stream_queue`, where a service whose clients have sent everything may rest.

### Fairness, and why the code justifies it

* `LaStream`: weak fairness of each `handle_ws` (`Owed`: it need not return over a receive error
  of a client that is there) and each `handle_connection` task, and of `GrantLock`, because tokio and asyncio run every ready task. A running inference always has
  `FatalInference` enabled, so that of `handle_connection` contains the 600 s timer. `ChildEnded`,
  `NotifyWaiters` and `Kill` are a returning `wait`, a signal handler and a 5 s loop. Nothing is
  assumed of clients, of `engine.run` (it may never return), of crashes, of the worker's
  graceful exit or of `ServerExit`. A send to a stalled client is not enabled, so nothing is
  assumed of it either; `FrameSettled` exempts exactly that client.
* `WsTimers`: the handler is polled, time passes, and the kernel gives up on a peer that
  acknowledges nothing. No peer has to do anything.
* `Supervisor`: time passes, signals arrive, timers that are up are noticed, and the entrypoint
  runs. The boot of the worker may hang for ever, and nothing has to die.
* `ReferenceClient`: every thread and coroutine that can go on does, and a live server drains
  what is sent. The executor serves its calls in order of arrival, so that one gets a thread if
  threads come back again and again (the only strong fairness of the project). Nothing makes a
  connection close or a reply unexpected.

Every property has a mutant: next to the definition it perverts stands a faulty variant, such
as a timeout that does not end the worker (`FatalInferenceSurvives`), a shutdown that cancels
a task at any await (`NotifyWaitersAnywhere`), a probe that looks at the socket file only
(`ProbeFileOnly`), gates on the raw sides (`EdgeRefusalOnRawSize`), or a separator that is
looked for in no slot (`ValidSlotAnySeparator`). With the variant in the place of the
definition TLC finds the property violated. No specification uses a variant.

## Where the code and its documents differ

Shown by a run:

* **Goodbye** (`goodbye`). `notify_waiters()` (`main.rs:108`) reaches only tasks that are waiting
  on `notified()` at that moment. A handler that is connecting to the worker, waiting for a
  reply or sending one is not told, and is dropped after 5 s without Close(1001).
* **A client that does not end** (`client_hangs`). A source that does not open returns before
  the `try` whose `finally` queues the sentinel (`reference_client.py:137`); the executor thread of
  `sender` stays in `q.get`, and `asyncio.run`, which joins the default executor, never returns.
* **The idle timeout** (`idle_closed`). Every arm of the select! drops the timeout, and the Ping
  every 15 s is such an arm; the 60 s are never reached (theorem `TimeoutIsDead`).

Met while modelling and not stated as runs:

* `OPERATIONS.md:152` and `CLIENT_PROTOCOL.md:467` have the typed fatal error followed at once by
  Close(1011). After the error the handler returns to its select!, which does not watch the
  Unix socket; the entrypoint then stops the frontend, and the client gets Close(1001). Only a
  client that has another frame on its way gets 1011.
* `CLIENT_PROTOCOL.md:124` "To abandon in-flight work, close the WebSocket": the inference runs to
  completion (`la_worker.py:509`). In the model `Leave` changes nothing in the worker.
* `parsing.py:98` says of the run expression that it "terminates at the next <ref>"; the lazy
  `<box>.*?</box>` crosses a ref when a block is not closed (`Tidy` is the case where it does
  not, and `LabelsComeFromTheirRun` holds there).
* `inference.py:1033` says that the truncation flag is the signal for an open final block. It is
  `not answer.endswith("<|im_end|>")` (`:1630`), so that a model that opens a block and closes its
  turn leaves no signal. `NothingVanishes` therefore counts blocks that were closed.
* `la_worker.py:535` calls every ValueError of `run` a client-image problem. An unknown
  `prompt_task` and a point prompt that does not start with its prefix are ValueErrors too;
  neither can come from the frontend (`FrontendVouches`). But a ValueError of the chat template,
  the processor, `model.generate` or the tokenizer is also answered `invalid_image`, for any image
  (`EngineFails`): a good frame that the frontend forwards can be laid at the client's door.
* `inference.py:1073` calls the window between the second hashing and `from_pretrained`
  sub-millisecond. The tokenizer, the processor and the configuration are loaded in between, and
  the weights take seconds to read (`changed_after`).
* `ws.rs:445` says that the gates on patches protect future raises of the dimension limit, and
  `la_worker.py:195` advertises 6400 tokens whatever the limit is. The gate rounds down to 14, the
  grid up to 28: 2226 x 2241 passes and makes 6480 tokens. `TokensWithinAdvertised` holds within
  the advertised dimensions.
* `reference_client.py:144` leaves the reconnect after the end of the source to the main loop,
  but `gather` waits for `receiver` (`:266`), which reads until the server closes.
* `reference_client.py:12` promises a clean reconnect; a capture thread that waits for room in
  the queue of a closed connection keeps the camera open (`StoppedThreadEnds` names the case: the
  closed connection has ended its sender, or the executor has no thread for it).
* `reference_client.py:219` says that the executor keeps the loop responsive; each `q.get` of a
  source that did not open keeps a thread of the default executor, and when they are used up
  (`PoolIsLost`) no later connection sends anything.
* `reference_client.py:370` calls the option the initial delay; after a normal close the pause
  is half of it (`:333`).
* `la_worker.py:716` announces a drain of up to 60 s; the entrypoint kills after 5 s
  (`entrypoint.sh:62`).
* `concurrency_smoke_client.py:172` reports a reply with another frame_id as leakage between
  clients; after a timeout it can be the client's own late reply.

## Proofs

Proved for every value of the constants that satisfies the named assumptions of the modules:

| Module | Theorems |
|---|---|
| `LaStreamProofs` | `Invariance` (`IInv`), `TypeCorrect`, `Correlation`, `GpuExclusion`, `SingleOutstanding`, `Egress`, `TypedErrorBeforeClose`, `CloseFinal`, `ArrivalOrder`; `Refinement`: `Spec => ServesClients` |
| `FrameInferenceProofs` | `TypeCorrect`, `SameImageAlways`, `EdgeAlwaysDecides`, `AlwaysNativeResolution`, `GatesDormant`, `TokensAsAdvertised` |
| `FramePathProofs` | `Invariance` (`PathInv`), `GoodFramesOnly`, `FrontendAlwaysVouches`; `AnswerMapped` (`AnswerInv`), `EveryBlockAccounted`, `ProbeIsRight`, `LabelsAreTheirRuns`, `GeometryAlwaysInImage`; `SlotsAlways` (`SlotInv`), `RequestAlwaysRecoverable`, `BuildersAlwaysAgree`, `AlwaysClassifiedAsSent` |
| `WsTimersProofs` | `TypeCorrect`, `TimeoutIsDead`, `OnePingAtATime`, `LivePeersAreKept` |
| `SupervisorProofs` | `TypeCorrect`, `ListenerAfterModel`, `StatusOfTheCause` |
| `EngineBootProofs` | `Invariance` (`BootInv`), `TypeCorrect`, `KnownGood`, `OneWrapping`, `AllCopiesOrNone`, `EveryRefusalHasACause` |
| `ReferenceClientProofs` | `Invariance` (`ClientInv`), `TypeCorrect`, `SenderTakesAll`, `PersistentFailure`, `PausesNeverShrink` |
| `ConcurrencySmokeProofs` | `Invariance` (`SmokeInv`), `NothingPassed`, `NobodyAccused` |

Every invariant and every action property that a passing run checks is stated by one of these
theorems. Two of them have hypotheses beyond the modules' assumptions or need one that is worth
knowing: `NobodyAccused` assumes `RoomForAll` (below), and the theorems about answers use
`VocabulariesAssumption`, that a coordinate the model writes is a natural number (the
expressions of `parsing.py` match digits only).

### `LaStreamProofs`

The argument. `Correlated` alone is not inductive: that a reply belongs to the current message
depends on where it came from. `IInv` follows the frame along its way. `FrontOf`: a busy
`handle_ws` is at message `Len(replies) + 1`, and what it is about to send is about that
message. `UdsOf`: while the frontend lives, the socket and the worker hold something for a
connection only if its task is in `infer`, they hold it once, and it is the current frame.
`TaskOf`: a serving task knows its request, and its result is about it. `LockInv`: the holder of
the lock is the running task, the waiters are queued once, and every thread works for a task
that runs or is about to end the process. `TasksNeedServer` and `TaskPerOpen` tie tasks to the
frontend process and to clients. When the frontend is dead the worker may go on with stale
requests; `UdsOf` then claims only that an unread request is the current frame, which is enough because no
task is left to read an answer.

`GpuExclusive` follows: two threads would work for two running tasks, and both would hold the
lock. `OneOutstanding` reads off `UdsOf`. The proof of a step has one lemma per action; actions
of `handle_ws` share `FrontStep` (nothing changes outside one connection) and `EndStep` (a task
ends that owes nothing to its socket), those of the worker share `TaskStep` and
`WorkerGoneInv`, the ends of the frontend share `ServerDownInv`. `TypedErrorFirst` and
`CloseIsLast` need the further invariant `CloseInv` (after a Close frame the task is over, and
after Close(1011) its socket is empty); `FirstComeFirstServed` needs no invariant.

`Refinement`: the initial state maps to the initial state, and each step to a step or a
stutter: `Open` to `Begin`, `ReadBinary` to `Take`, `SendReply` to `Answer`, every action that
calls `CloseWith` to `Close` (`CloseStep`), the ends without a Close frame to `Abandon`
(`AbandonStep` for one task, `DroppedTasks` for a process), all else to a stutter. `FrontOf`
supplies the guards of the abstract actions: that a notified task has answered everything,
that a busy one has exactly one message at hand, that a connecting one has taken none.

### `FrameInferenceProofs`: the image

`SameImage` is the inductive invariant: up to its orientation everybody speaks of the image
that was sent, what is past the edge has passed its gates, and the plan is that of the decoded
image. The rest is arithmetic in lemmas: the gates are symmetric in the sides
(`GatesSymmetric`), what passes those on patches is far below PIL's decompression bomb
(`NoBomb`), and rounding up to 28 adds at most 27 (`GridBound`). They hold for every value of
`LA_MAX_IMAGE_DIM`; `GatesDormant` is what the comments of `ws.rs` and `inference.py` say of 2240.

### `FrameInferenceProofs`: the answer

Four lemmas say of any sequence of symbols, of any length, what the four invariants about the
answer claim once it is mapped.

`NothingVanishesWhenMapped` is a counting argument. The matches of the three exact expressions
and those of `any_box_re` that are none of them are disjoint (`PointsAreBlocks`), so what the
mapping keeps and what it drops add up to all that was counted (`MappedCounts`). Each closed
block is counted under a match of its own (`EachCounted`): the block itself if it is of an exact
form, else the first opening tag that the same closing tag would close (`FirstOfBlock`); two
blocks cannot share one, because an exact form shares its closing tag with nothing behind it
(`SimpleStandsAlone`). In a tidy answer nothing else is counted (`OnlyThoseCounted`).
`ProbeSeesWhenMapped` uses the same correspondence.

`GeometryWhenMapped` is arithmetic about clamping, swapping and the division by 1000.

`LabelsWhenMapped` needs what the parser's recursive functions compute. A definition
`f[n \in S] == ...` says nothing until some function is known to satisfy it;
`RecursionExists` proves that one does whenever each value depends on one of lower rank. Facts
about every position are then shown by a least or greatest counterexample (`LeastNat`,
`GreatestNat`), which is how an induction is written where the induction theorems cannot be
used. `RunIsOfRef` and `RefHasRun` say which runs the scan finds; in a tidy answer a block lies
in exactly one of them (`OneRun`, `CoveredHasRun`).

### `FramePathProofs`

`FramePathProofs` carries this through the whole path. `PathInv` has four parts: what is known
of the prompt at the frontend (a point prompt starts with the words `point_phrase` looks for,
`PointPromptRecognised`), of the header (past the frontend it names a known task and carries the
client's image), what has been checked by the time a stage is reached, and that a reply is the
last step. `GoodFramesOnly` reads off the third part when `BuildReply` is taken.
`FrontendAlwaysVouches` looks at each check of the worker, from the header to the label of a
point, on a frame with a good image that the frontend has forwarded: the header is sound and of
one frame (`ChecksPass`), the gates and the plan cannot refuse (`NothingToRefuse`, from
`SameImage`), the task is known, the prompt can be taken apart. It does not say that such a frame
is never called invalid: once the model's stage has begun, a ValueError of a library is
(`EngineFails`), and the property leaves exactly that stage out. `ImageStep` shows that to the image every
step of the path is one of `ImageGates`, so that its lemmas apply. `AnswerInv` (the answer is
made of the vocabularies' symbols, and the result is its mapping) brings in the lemmas about
the answer.

`SlotInv` says that an accepted frame carries the prompt of a valid request, and its header the
phrase taken from it. Three facts about every valid request, of any length and number of
slots, give the three invariants about prompts. `SlotsRecovered`: `JoinedParts` finds each slot
and each separator at its place in the joined text, and the cut, read piece by piece, cannot
cut inside a slot (`CutReadsSlot`, because the validator has refused slots that contain the
separator) and does cut behind it (`CutReadsSeparator`); a slot that ends with the first half of
a separator is safe, because the separator begins with that half again. `BuildersBuild`: what
Python strips and drops is nothing of a valid slot (`StripIsIdentity`, `CleanedIsIdentity`).
`ClassifiedRight`: the first words tell the prefixes apart, except two that differ in the third.

### `WsTimersProofs`

`TimerOutlastsInterval`: the timeout has as much left as the next Ping is away, because both
start no later than the turn; hence it is never zero when a message could be read, if the Ping
is no slower than the timeout. `OneDuePing`: at most one tick of the interval is kept.
`EndsOnlyWithoutPeer`: the connection is broken, closed or ended only when the peer is not there.

### `SupervisorProofs`

`ListenerInv`: a socket file that accepts was bound by this container's worker, so that a
frontend that has connected to one serves a worker that has booted. `FirstStatusKept`: without a
docker stop nobody has been sent SIGTERM before a child has ended, so the first one ended with
a failure of its own, and its status is kept while the other is drained or killed: what is reported is a failure a
process came to by itself (`OwnFailures`), not how the other one took the signals.

### `EngineBootProofs`

`BootInv` says what each phase knows: of the world and the files (`ChecksPassed`), of the
configuration (`Configured`) and the model (`ModelKnown`), of the encoder's patch (`VitKnown`) and
of the copies of the LLM module (`LlmKnown`): a strange copy is never tagged, and a first
engine that refuses over one has tagged none. `RefusesOnlyWithCause` is part of the invariant:
each refusal is traced to the fault it saw (`FaultFound`), also in a second engine, which does
not repeat the checks of `run_all`.

### `ReferenceClientProofs`

`SentinelIsLast` and `NothingAfterSentinel` follow the sentinel through the queue into the
executor thread; `SenderTakesAll` is the second of them. For the count of failures,
`ErrorsCounted` says that `consecutive_errors` is the length of the streak that ends with the
last counted run, `NoStreakYet` that no earlier streak has reached the limit, and `RunsAreOver`
that a run that is counted has a closed connection. `PausesNeverShrink` needs
`DelayCounted` (the last pause is that of the streak as it was decided on) and that powers of
two grow, which the provers do not know: `PowersGrow` gets it from the number of subsets of a
set.

### `ConcurrencySmokeProofs`

`SmokeInv`: a frame that waits or runs is one of its client's, and a client waits once
(`QueueInv`); nothing is from the future (`FrameInv`); while nothing speaks against a client, at
most its current frame is at the service (`CleanInv`). `NothingPassed` rests on `Doomed(c)`: a
client whose records, or what can still reach it, already make the verdict a failure. A fault
makes some client doomed at once (`FaultDooms`), and no step gives the client back what it has
lost (`StaysDoomed`), so no verdict after it is OK.

`NobodyAccused` follows a service without a fault (`QuietInv`): each client is served in turn, and
the age of its frame, what is left at the GPU and the queue before it never exceed `Longest`, a
full queue of the longest services; so no wait ends by its timeout, and every median lies
between the shortest service and `Longest` (`MedianInRange`). The hypothesis `RoomForAll` says
that the timeout is longer than `Longest` and the fairness ratio no smaller than `Longest` over
the shortest service. It is no formality: without it an unlucky order of arrivals can make the
medians of a sound service differ by more than the ratio. The defaults of the script (two
clients, ratio 5, 120 s) satisfy it when no frame takes longer than 2.5 times the shortest, and
less than a minute. The `smoke` run has a tighter
ratio (3, where `RoomForAll` would ask for 6) and finds that its send times leave no such order.

### Only model-checked

* The liveness properties (`FrameSettled`, `InferenceBounded`, `HalfOpenIsNoticed`,
  `OneDeathEndsAll`, `ServesOrEnds`, `StoppedThreadEnds`, `ExecutorThreadComesBack`): fairness and
  ENABLED are outside the prover's reach.
* The violated statements: what refutes them is TLC's counterexample.
* The models themselves: that the definitions compute what the code computes is by reading, and
  the instances only show that they are not vacuous.

## Not modelled

* **Tiling** (`tiling.py`): a pure function that nothing in the service, the client or the
  scripts calls.
* **Lifecycle scripts** (`setup.sh`, `uninstall.sh`, `01` to `03`): sequences of commands whose
  state is Docker's and the host's file system. What a failed step leaves behind is decided
  there, so that a model would be of those and not of this code. The open hazard is
  `uninstall.sh:20`: a removal that is skipped because the daemon is down.
* **Image definition and host validation**: build-time input and version pins.
* **HTTP status routes** (`/health`, capabilities, info) and the control requests behind them: one
  request, one reply, on a connection of their own; nothing in the code acts on the answer,
  which may be stale when it arrives. `Route` has their one reply, without content.
* **GPU numerics, the image processor, the tokenizer, model loading**: `Load` and `Emit` choose
  freely what they may produce. Calibration is modelled by what its probe accepts
  (`ProbeSeesEveryBlock`).
* **Malformed framing on the Unix socket** (a length over 16 MiB, a truncated frame): only the two
  processes write there, both through one function each.
* **A shutdown during a blocked Ping**: `LaStream` has the shutdown and no Pings, `WsTimers` the
  Pings and no shutdown. The notification is lost there as it is during a blocked reply, which
  `goodbye` shows.
* **An open final block under a closed turn**: the code gives no signal of it (see above), so
  there is no property that could hold; the parser's model does have such answers.
* **The order in the executor's queue**: which of two waiting calls gets a free thread is left
  open; `TakeThread` takes any. A call that starts in the moment between the decision to exit and
  the cancellation of its coroutine is left out.
* `smoke_ws_client.py` and `04_smoke_test.sh`: one request and its reply.
* The cap of 16384 characters on a compiled prompt: ten slots of 200 do not reach it.

## Left to do

1. A refinement of `LaStream`'s processes by `Supervisor`, which would carry `ExitNamesTheCause`
   and `OneDeathEndsAll` over to the pipeline; until then the two agree by their actions only
   (`ChildEnded`, `Kill` and `Exit`, `NotifyWaiters` and `FrontendTerm`).
2. The same for `WsTimers` and the handler of `LaStream`.
