# A verification development for r4dx

r4dx is an LLM inference engine for AMD GPUs with an OpenAI-style HTTP server. Its numerics are
tested against reference outputs; what this project is about is the part tests hardly reach: two
GPUs that reduce through host memory without locks, a facade that drives two rank threads and
recovers the group after failures, a prompt cache that decides what the model's state is believed
to be, a batch executor shared by request threads, a two-stage prefill pipeline, the hybrid that
moves a sequence's state between the pipeline and the tensor-parallel shards, and the path a reply
takes from the decode loop to a client that may leave.

Paths below are relative to the repository, whose root is `src/` here; the implementation is in
`src/src/`. `PROJECT.json` has the line-by-line map from definitions to code, the hazards, the runs,
the mutants, the findings and the theorems.

Check a run with `tlc -workers 2 -config MCX.cfg MCX` and the proofs of a component with
`tlapm XProofs.tla` (`CommunicatorProofs` for `HostExchange` and `TpMailbox`).

## 1. Inventory

How the parts stack: an HTTP thread parses a request and pushes it into a bounded queue; the engine's
worker (or, with `--batch N`, one of N request threads) pops it, renders and tokenizes it, decides with
`PrefixState` how much of the model's state can be kept, calls the model (`Reset`, checkpoint,
`Prefill`, decode) and streams the reply through a sink. The model behind that interface is a single
`Model`, a tensor-parallel facade `TpModel` (two rank threads, one GPU each), a pipelined `PpModel`
(stage A feeds stage B during a prefill), or the hybrid of the two.

### Tensor parallelism

| part | state | operations | how it interacts, what is hard | what makes it correct |
|---|---|---|---|---|
| Host exchange, `core/tp_host_exchange.hpp` | an arrive word, a call counter and two payload slots per rank; an abort flag | `AllGatherFor`, `Barrier`, `Abort`, `Reset` | rank threads poll each other's words; slots are unlocked, protected by call parity only; time-outs race late arrivals; an abort leaves counters apart | a call that returns has every rank's payload of the same call; no slot is rewritten while read; every call ends |
| Device all-reduce, `kernels/src/r4dx_tp_kernels.hip`, `model/tp/tp_comm_host_mailbox.cpp` | per lane a sequence counter in each GPU, flags, two mailbox slots, ABORT words, a sticky word | kernel (entry, push, flag, spin, reduce), `AllReduce`, `CheckHealthy`, `Abort`, `SeqAdvance` | two GPUs race through pinned memory; sequence numbers wrap at 2^32; a failed block leaves a partial sum | only words of the same call are added; a failure is never reported as success; streams drain |
| Group recovery, `model/tp/tp_group.cpp` | sequence base, mailbox | reset, rebase, recover | three resets that must agree | a recovered group never looks like a protocol violation |
| Facade and rank workers, `model/tp_model.cpp`, `model/tp/tp_rank_worker.h` | `state_` (ready, needs recovery, fatal), per rank its command, error and heartbeat, the mutex and condition variable it sleeps on | collective and plain commands, `Reset`/recover, watchdog, destructor | one rank fails and the other does not; a HIP call may hang for ever | a ready group is clean; success is whole; a busy worker is never posted to, a posted command never slept through; nothing is freed under a running kernel; every call ends |

### Server

| part | state | operations | how it interacts, what is hard | what makes it correct |
|---|---|---|---|---|
| Prefix reuse, `server/prefix_state.h` | fed tokens and image keys, checkpoint prefix | `Plan`, `Commit`, `Invalidate`, `Clear` | equal tokens are not equal state (pictures), GDN state cannot be rewound | what it claims is what the model holds |
| Sliding rings, `model/gemma_model.cpp`, `attention/sliding_ring.hpp`, `vision/gemma_vision.cpp` `PlanPrefillChunks`; the drafter's ring, `model/dflash_draft.cpp` | per sliding layer a ring of rows, its copy at the checkpoint; the drafter's ring, frontier and lower bound | `Prefill`, `PrefillMultimodal`, `VerifyWindow`, checkpoint, restore; `InjectFeatures`, `Rewind` | rows are overwritten in place by later rows, rejected drafts and restores; a picture is attended to both ways and must not be cut | every query reads the rows of its own window |
| Request worker, `server/engine.cpp` `RunRequest`; speculative rounds, `model/mtp_round.hpp`; sequence state, `model/model.cpp` | the current request; KV and GDN, checkpoint | plan, restore or reset, split prefill, save checkpoint, plain and speculative decode loops, commit, catch | a model call may fail halfway; rounds commit more than is shown | the reply is computed on exactly the prompt sent; a failure costs one request |
| Batched serving, `server/batch_executor.h`, `server/batch_port.h`, `model/batch_plan.h` | job and row queues, decoding set, turn, the primary lock, slots | `Run`, `StepAsync`, `Join`, `Leave`, `Stop`, `Loop`; import, decode, release | N request threads share one model and one thread; every call may fail with a lock, a row or a slot in hand | a slot holds its own request's prompt; everything is given back; jobs and steps take turns; requests and shutdown end |
| Queue and shutdown, `server/request_queue.h`, `Engine::Shutdown` | bounded queue, closed flag | `TryPush`, `Pop`, `Close` | close races submit and pop | bounded; a closed server ends |
| Sinks, `server/response_sink.cpp`; HTTP side, `server/http_server.cpp` `ServeStream` | the bounded chunk queue, closed and cancelled flags, the buffered reply | `OnStart`, `OnToken`, `OnToolCalls`, `OnDone`, `OnError`, `Next`, `Cancel`, `Wait` | the worker pushes into a full queue while the client disconnects; every finished stream is cancelled too | a served client has a whole stream; the log tells real cancellations; nobody waits for ever |
| Streaming text: stop search and router in `engine.cpp`, `reasoning_splitter.cpp`, `tool_stream_gate.cpp`, `tool_call_parser.cpp`, `StreamDecoder` | accumulated text, watermarks, holds of the decoder, the splitter and the gate | `EmitToken`, `Forward`, `FlushGated`, splitter and gate `Push` / `Finish`, parse, remainder | five incremental recognisers in a row, tokens cut tags anywhere, what is out cannot be taken back | the deltas add up to the answer, reasoning and calls of the whole text |

### Pipeline

| part | state | operations | how it interacts, what is hard | what makes it correct |
|---|---|---|---|---|
| `PpModel`, `model/pp_model.cpp` | `state_`, split, checkpoint | `Prefill`, decode, checkpoint, `Reset`, `SetSplit`, destructor | a worker thread for stage A, joined with a watchdog; errors race to the facade | stage B ends as one model would; the root cause is reported; every call ends |
| Channel and mirror tracker, `model/pp_channel.h`, `model/pp_sync.h` | ring counters, bulk hand-off, poison; how far stage A's KV and GDN are good | acquire, publish, release, poison, reset; `BOnly`, `AfterPipelined` | ring limits, time-outs, leftovers of an earlier call; KV travels in whole blocks | the tracker never vouches for a stale mirror |
| Stage runners, `model/pp_stage_runner.cpp`, `pp_stage_real.cpp` | staging buffers, the side stream | stage A and B loops, sync-back, GDN export and import | the import lands while the last chunk computes | the import has landed before the state is used |
| Hybrid facade, `model/tp_model_hybrid.cpp`, `hybrid_dispatch.h`, `hybrid_sync.h`, `reshard_plan.h`, `dflash_tail_plan.h` | the shards, two stage mirrors, one drafter's state (MTP rows and seed, or the DFlash window), the tracker | dispatch, warm gather, two-stage prefill, scatter and adoption, tail injection; every TP call lowers the tracker | both stages mirror state the shards keep changing; whole blocks travel; drafters see only a tail | the shards end as if they had run the prompt alone; no stale mirror is trusted; the drafters see what they would have seen |
| One hybrid call, `HybridMain` / `HybridExec`, `hybrid_ring.h` | two rings of pinned slots, a gate, the stage channel, an armed capture | lockstep export and import, stage loops, gate, poison, drain | two threads with different batch counts, no barrier between phases, asynchronous copies, errors, hangs and time-outs | the rings deliver each batch once and in order; no circular wait; a failed call leaves nothing behind |

Everything else (layers and kernels, GEMM tuning, containers and loading, sharding, the converter,
tokenizer and templates, image and audio front ends, argument and JSON parsing, the CLI, the remaining
model families) is listed in `PROJECT.json` with the reason it is left out: numerics, one-time I/O or pure
functions, with no state that two actors or two calls share.

## 2. Modules

Every module keeps the source's names. A definition whose comment starts with "mutant" is a plausible
mistake in the definition that follows it; no specification uses it.

**`HostExchange`** (any number of ranks). `AllGatherFor` is split at every shared access: `Enter`
(`++gen`), `Write` (the slot), `Publish` (the release store of `arrive`), then the wait loop
(`CheckAbort`, `ScanDone`/`ScanMissing`, `WaitTimesOut`, which happens only after a failed scan and so may
be stale), and `Copy`, one peer at a time. `Abort` may happen at any moment, `Reset` when all ranks
are out, as its callers ensure. `input` is a ghost: what each rank passed to its calls.
**`Gather`** is what all this promises: a whole call in one step, which gathers everybody's payload of
the call's number or fails and says why. `HostExchange` maps to it (`Inside`, `Got`, `Implements`). Its
specification is `ExchangeSpec`, its invariants carry the same prefix where `TpMailbox` has the plain name,
because one module proves both.

**`TpMailbox`** (two GPUs). One lane is one (channel, block); each lane of a launch is a process.
A chunk's word is the call it belongs to, so adding the wrong data is visible. `Modulus` replaces
2^32 and comparisons are signed differences, as in the kernel. The host's part: `Launch` (in stream
order), `CheckHealthy`, `HostAbort`, `Finish`, and `Recover` with `SeqAdvance` and the new base.
It models two ranks because the kernel does.

**`TpModel`** composes the two from above: the facade, two rank closures and two devices. The
all-gather and the all-reduce appear through their results only: `Gathered`, `GatherAborted`,
`GatherTimeout` are the outcomes of `Gather`, `ArDone`, `ArAborted`, `ArTimeout` those of
`TpMailbox`. A wait that runs out of time is two steps, the last look (`GatherLate`, `ArLate`) and the
failure: the peer may arrive, and even finish its command, in between. `Throw` is any other exception a closure can meet; `Stall` is the facade's watchdog.
The hand-off to a worker is opened up: a rank that has nothing to do spins, then checks `posted_` with
`mu_` held (`CheckPosted`) and blocks (`Block`); `Post` waits for `mu_` and notifies afterwards, outside
it (`Notify`).

**`PrefixReuse`** is the worker loop: `Submit` plans, `ContinueFed` / `RestoreCheckpoint` /
`ResetModel` take the three ways into a prompt, `Prefill` / `SaveCheckpoint` / `PrefillTail` the split
prefill, a chunk at a time (`off` is how far the running call is; `FeedPrompt` is one turn of
`PrefillMultimodal`'s loop, and a failure may come between two), `DecodeStep` the plain loops, `FirstToken` / `DecodeRound` the speculative ones, `Finish` the
commit, `FailHost` / `FailModel` the catch (the second with the model's state half changed: `Junk`).
The model's KV and GDN are the histories they consumed, with the piece of a picture at a placeholder.
`load` is how the model was loaded: `Model` or `GemmaModel`, with no drafter, the MTP head or DFlash, and
its prefill chunk. `GemmaModel` has no recurrent state but rings (`sliding`), which a checkpoint copies
(`ckptSliding`); its calls go through `KvRings`. `draft` is the DFlash drafter's ring.

**`KvRings`** has those rings as operators: a write (`Put`: a slot keeps the last row that falls into it),
what a query sees, where `PlanPrefillChunks` cuts next (`ChunkEnd`) and `BuildKlimitExt`, a chunk
(`Computed`: its rows are written, then each attends), and the drafter's `InjectFeatures` and `Rewind`. A slot holds a position and a row; a row that
attended to anything but its own window is computed as `Junk`, and so is what follows it, so
`PromptIsExact` and `ClaimsAreTrue` speak of the windows too. `Reset` leaves the rings as they are; the
model calls what an earlier sequence left there `Junk`.

**`BatchServing`** has a request thread per slot, the executor thread, the HTTP side and the
caller of `Stop`. A critical section of the executor's mutex is one step; the model's calls happen
between critical sections. A model call may return, throw, or, under TP, break the group; `Refused`
actions are calls on a group that is not ready.

**`PpModel`** has stage A's worker, stage B on the facade's thread, B's side stream (`AuxLand`) and the
facade with its state machine. Content is the history it was computed from; `Bad` is anything else.
A call's tokens are marked by the call, so two histories are equal only when they should be.
Time-outs and HIP errors may occur at any point where the code can meet them; stage A's device may
stop for good. The correctness claims about contents (`BIsExact`, `MirrorIsTrue`,
`NoProtocolError`) are made while both stages are attached at the same split (`Aligned`): a
`SetSplit` that fails halfway rolls `split_` back but not the stages, and neither its handler nor
`Reset` attaches them again. That case is listed as a hazard and not claimed to be safe (only tests
call `SetSplit`).

**`HybridModel`** takes a call of the hybrid facade as one step and looks at contents: the shards
(split into stage A's and stage B's layers), the two stage mirrors, the MTP rows and seed, the
checkpoint, `TpMasterTracker`, and the drafters' store. A KV row, a GDN state or a seed is the history it
was computed from; `Junk` is anything else, and whatever is computed from a wrong input is `Junk`. A
pipelined `Prefill` is `Decide`, `HybridReadSync`, `Gathered`, `Pipelined`, `Scattered`, `AfterPipelined`
in the code's order; `TpForward` is a TP prefill or a decode step. `drafter` is chosen at the start:
`Model::Load` refuses MTP together with DFlash, so an instance has the MTP rows and seed or the DFlash
store, never both. A round of `k` drafts writes the KV rows of all its candidates (`Verified`). `MtpRound`
besides writes what `MtpHead::Draft` writes (`Drafted`): the MTP row of the last position from the seed, the
next ones from the head's own hidden state, and the seed from the last row it keeps; `DflashRound`
feeds the drafters and touches no MTP state. `drafted` is a ghost, the MTP rows whose next token was an
accepted draft, which nothing writes again while they are below the position; `alone` is another, the
drafters' store had every prefill been a TP prefill.

**`HybridCall`** opens one pipelined call: the two threads of `HybridMain` at the granularity of
`RunLockstep`'s export, import, publish and consume, the stage channel as counters, the gate, the armed
tail capture, `PoisonAll` object by object, and the handler's drain. Asynchronous copies are intervals:
a slot is being written from the enqueue to the sync of its stream. `Fault` is one device error or one
hang anywhere. **`ReshardTransfer`** is what the rings promise, two FIFO transfers of bounded depth, and
`HybridCall` is checked to implement it (`Implements`, with the mapping from ring slots to batches under
way).

**`StreamText`** has the text algorithms as operators over sequences of characters; **`ResponseStream`**
has the worker's decode loop over them, the sinks, the HTTP thread and the client. A token is a short
text out of the request's vocabulary. The worker is inside a sink call while `out` still has chunks to
push. The properties compare with `Reply`, `ReasoningOf` and `AnswerOf`, which cut the whole text at once.

**`TpModelProofs`**, **`PrefixReuseProofs`**, **`BatchServingProofs`**, **`PpModelProofs`**,
**`HybridModelProofs`**, **`HybridCallProofs`** and **`ResponseStreamProofs`** each extend the module they
are named for and hold its theorems; **`CommunicatorProofs`** does so for the two communicators,
`HostExchange` and `TpMailbox`. The inductive invariant they are about, `IInv` (`ExchangeIInv`; in
`ResponseStream` also `TextInv`), is at the end of the component's own module, where TLC can evaluate it.
The `MC*` modules only give the constants their values.

## 3. Runs

Each passing run's properties are listed in `PROJECT.json`, each with a mutant of the code that breaks it.

| run | instance | shows |
|---|---|---|
| `host_exchange` | 2 ranks, 3 calls each between resets, an empty payload and two of the same size (so ranks can diverge and a stale payload shows), fair | `GatherIsExact`, `NoSlotRace`, and with the clock `EveryCallReturns`, although a peer may never call |
| `tp_mailbox` | 1 lane, 2 words, 4 calls a run, 2 runs (1 recovery), numbers modulo 16 from 14, gap 4, fair | `ReduceIsExact`, `NoProtocolViolation`, `NoSilentPartial`, `StreamsDrain` |
| `tp_model` | 2 ranks, 2 chunks a command, 2 commands between recoveries, 1 recovery, fair | `ReadyIsClean`, `SuccessIsWhole`, `TeardownIsQuiet`, `NoLostWakeUp`, `EveryCallEnds` |
| `tp_model_wake` | 1 command | violated: `ThrowWakesPeer` (finding 1) |
| `prefix_reuse` | `Model` and `GemmaModel` with each drafter, prefill chunks of 1 and 2, windows of 2 in rings of 4, a drafter ring of 3; all prompts up to 3 tokens (4 around a picture), pictures spanning 1 and 2 placeholders, context of 6, replies up to 3, 1 draft token, any number of requests | `PromptIsExact`, `ReplyIsFed`, `NoInheritedFailure`, `ClaimsAreTrue` |
| `batch_serving` | TP, 2 slots, 2 requests, the executor stopped at any moment, fair | `SlotIsOwn`, `GivenBack`, `Alternation`, `StepIsLegal`, `RequestsEnd`, `ShutdownEnds` |
| `pp_model` | 6 positions in blocks of 2, 2 ring slots, chunks of 1 row, 3 feeding calls, 1 HIP error, fair | `BIsExact`, `MirrorIsTrue`, `NoProtocolError`, `RootCauseReported`, `EveryCallEnds` |
| `pp_stall` | 4 positions, 2 calls, splits 1 and 2 | violated: `StallIsFatal` (finding 2) |
| `hybrid_model` | either drafter, rounds of up to 2 drafts, 8 positions in blocks of 2, stages of 6 rows, gathers of up to 2 rows, drafter window 3 in slices of 2, 5 calls | `ShardsAreExact`, `MirrorsAreTrue`, `DraftStoreIsFull` |
| `hybrid_call` | rings of 2 slots, 0, 1 or 3 batches per card and phase, 2 chunks over 1 channel slot, 1 fault, fair | `PhasesAreWhole`, `SomeoneMoves`, `LeavesNothing`, `Implements` (refinement), `EveryThreadEnds` |
| `response_stream` | 13 requests, 3-character tags, up to 4 tokens that cut them anywhere, a queue of 1, look-back of 1, fair | `ReceivedIsExact`, `NoOpenerShown`, `StreamIsWhole`, `CancelIsReal`, `EveryoneEnds` |
| `stream_opener` | the same instance | violated: `StreamEqualsBuffered` (finding 3) |

The types (`TypeOK`) are not among the checked properties of the runs; they are proved, by themselves or
as a conjunct of `IInv`, for each of the nine modules that are proved about (`Shapes` where `IInv`
needs more than `TypeOK` says).

### Why the bounds are enough

- *Host exchange, mailbox.* Slots alternate with the low bit of the call number, so anything that can
  go wrong needs calls n, n + 1 and n + 2: three calls reuse a slot. Four calls from base 14 modulo 16
  wrap the number in the first run, and the recovery with its gap lands beyond the wrap. `HostExchange`
  is also proved for every number of ranks and calls.
- *TpModel.* Two chunks let one rank be in the gather of the second while the other is still in the
  first, the only drift the gather allows; two commands and a recovery let a later command meet what a
  failed one left.
- *PrefixReuse.* Three tokens hold a text token before and after a picture, or two pictures; a picture
  of two placeholders can be split by the one-token-early checkpoint. There is no bound on the number of
  requests: the state space closes. The ring is as small as `RingAssumption` allows, window plus the longest
  picture, and the context of six wraps it, in a prefill, in a round with rejected drafts and after a
  restore; the longest picture is cut by a chunk of two unless the plan moves the cut, and is longer than a
  chunk of one. The drafter's ring of three wraps within a reply, so that a restore drops rows which had
  already overwritten the ones before them (what `Rewind`'s lower bound is for).
- *BatchServing.* Two slots exclude each other and share a step, and a request can prefill between the
  other's rows. One row is one complete wait for a step; one of the two requests decodes two, so that a
  waiting job could be passed twice.
- *PpModel.* Six positions and blocks of two let a call begin inside a block and cover another; two
  slots with up to six chunks make stage A wait for the ring; three calls allow pipelined, B-alone,
  pipelined again, which is what a stale mirror needs. The passing run re-attaches at the same split
  (`MaxSplit = 1`); moving to another split is exercised by `pp_stall` only, because the
  second split multiplies the state space of the passing run.
- *HybridModel.* Blocks of two rows and stages of six in a context of eight make calls start inside a
  block, at a boundary (where the MTP row before it is in another block), outgrow the stages and outrun the
  gather budget; five calls are a pipelined prefill, something that makes a mirror stale, another prefill
  and a second round of both. A window of three fed in slices of two puts the tail's start off the window.
  Two drafts are the fewest with an accepted one in the middle (a row of the head's own content) and at the
  end (a row nobody writes).
- *HybridCall.* Two slots are the smallest rings that work, and with three batches the slot numbers wrap
  inside a phase; the counts 0, 1 and 3 in every combination make one card run ahead, have nothing to do,
  or cross into the next phase first.
- *ResponseStream.* Three-character tags have proper prefixes of one and two characters; the vocabularies
  contain each half, the false start (`<<c`), tags glued to text before and after, and the first byte
  of a two-byte character. A look-back of one with two-character stop strings lets one straddle two tokens.
  A queue of one chunk is full after the first push. `NPos` (1000) only has to exceed every text's length.

Deadlock is checked except where the system really may stop: `tp_mailbox*` (a host need not launch
another call), `tp_model*` (destroyed, exited, or hung in HIP with a bound reached), `hybrid_model` (a
fatal group, or the bound on calls), `hybrid_call` (the call is over, or a thread hangs; `SomeoneMoves`
states what must not happen before), and `response_stream` (the request is over; `EveryoneEnds` looks for
what hangs). `BatchServing` and `PpModel` have
a final self-loop (`Done`, `Stopped`) for the state in which everything has ended, so that other
deadlocks are found.

### Fairness

- `HostExchange`: weak fairness of each rank's own steps (a thread runs), and strong fairness of giving
  up: the wait loop reads a clock on each turn, so it cannot find "not yet" for ever.
- `TpMailbox`: weak fairness of each resident block, and strong fairness of the slow path's exit, which
  reads the GPU's clock. Nothing makes a host launch.
- `TpModel`: weak fairness of each rank's host steps, of its device and of the facade. None of the points
  inside a HIP call: they may hang, and the watchdog has to end the call.
- `BatchServing`: weak fairness of each request thread, of the executor's loop and of the caller of
  `Stop`, who calls it at least when all request threads have exited (`Engine::Shutdown` joins first).
  No fairness of arrivals, closes, failures or an early stop. The enabling conditions are spelled out, as
  for `ResponseStream` below: `ThreadReady`, `LoopReady`, `StopReady`.
- `PpModel`: weak fairness of stage A's host steps, of stage B, of the facade and of copies landing on
  B's side stream; none of stage A's device.

- `HybridCall`: weak fairness of each thread that is not hung, and of each time-out: every wait is a
  `wait_for` with the step's limit. No fairness of faults.
- `ResponseStream`: weak fairness of the HTTP thread (a write ends, by the socket's time-out if the client
  does not read) and of the worker. The worker's is written out as "infinitely often it cannot move, or
  infinitely often it does", with its enabling condition `WorkerReady` spelled out, because evaluating
  ENABLED of a step that runs the whole text pipeline is slow. Nothing makes a client leave or stay.

`PrefixReuse` and `HybridModel` have no liveness property: one thread, and no waits at that level.

## 4. Findings

The three violations are differences between a document and the code. Each is quoted with its lines in
`PROJECT.json`.

1. `tp_model_wake`: `docs/tp.md` says a closure that throws anything calls `Abort`, so a peer in
   `HostAllGather` wakes. The catch skips `Abort` when its error is a `TpAbortedError`, also when that
   came from an ABORT word a kernel set, which does not poison the exchange. The peer waits out its own
   time-out. The call still ends (`EveryCallEnds`) and fails.
2. `pp_stall`: `docs/pp-prefill.md` says a stalled stage A is `kFatal`. `SetSplit`'s catch overwrites that
   with `kNeedsRecovery`, and the next `Reset` is let through.
3. `stream_opener`: `docs/server.md` says the streamed content is byte-identical to the non-streamed one.
   With tools offered and a model that opens its own reasoning span, a generation that ends inside the
   opener is forwarded raw into the sink's splitter, which releases it at the end, and is delivered a second
   time as the content still owed. And when a tool call's opener shares a prefix with the reasoning opener,
   its first characters, forwarded raw likewise, come out as content behind the calls. `ReceivedIsExact`
   excludes exactly the states in which text was forwarded that the gate never released
   (`OpenerForwarded`). A second way, with any reasoning span: when the answer begins with a tool call, the
   splitter has seen no answer text yet and drops the blank lines at the start of what is still owed, which
   the non-streamed content keeps; `ContentIsExact` says so (`SpanLeads`).

Smaller things met while modelling, which no run is spent on:

- The MTP cache is not "extended by every accepted token, exactly like any other decoder layer"
  (`docs/mtp.md:75-77`). A round writes the MTP rows `pos - 1` to `pos + k - 2`, from the second on out of the
  head's own hidden state (`mtp_head.cpp:254-303`), and nothing primes those of accepted drafts again.
  `docs/mtp.md:107-112` puts the next round's first row at `base_pos_old + num_committed - 1`, "exactly the
  first position a partial rejection left holding stale" data; the code starts at `pos - 1`, which is one
  further (`base_pos_old + num_committed`), so after a full acceptance row `base_pos_old + k` is written by
  nobody and keeps what it held. Only what the head attends to while it drafts is affected, so the
  acceptance rate and no output. `ShardsAreExact` excepts exactly these rows (`drafted`): it is false with
  the exception dropped, or narrowed to either kind.
- With a token budget of zero the speculative branches still emit one token (`engine.cpp:1094-1105`,
  `1160-1171`), the plain loops none; the comment at 1113-1114 says the sequences are the same.
- Under TP a failed prefill leaves the group in `kNeedsRecovery`, so the next row of every decoding request
  is refused as well; `docs/batch-decode.md:206-207` says it fails only its request.
- A stop string completed across a token's end, with tools and streaming: the bytes the gate still held
  are released by the last `FlushGated` (`engine.cpp:1345`) although they are past the stop; and
  without tools the decoder's held bytes are forwarded after a matched stop (1335-1340). `ContentIsExact`
  allows both.
- `HybridMain`'s handler syncs the stage's stream and then the rank's in one try block
  (`tp_model_hybrid.cpp:736-742`): if the first throws, the second is skipped and copies may outlive the
  command. `LeavesNothing` exempts a thread whose sync failed (`dirty`).

## 5. Proofs

Nine modules are proved about. Each theorem holds for every value of the constants that satisfies
the assumptions the component's module names (`World >= 1`, rings of at least two slots, blocks that divide
the context, and so on): any number of ranks, slots, requests, calls, faults. The bounds on calls and
faults are such constants, so nothing is assumed of how long a run is. Of the safety invariants the runs
check, all are theorems but `ReceivedIsExact` of `ResponseStream`.

| module | proved of every behaviour | conjuncts `IInv` adds |
|---|---|---|
| `CommunicatorProofs`, `HostExchange` | `GatherIsExact`, `NoSlotRace`, `ExchangeTypeOK`; `Implements`, the refinement of `Gather` | `ArriveTrails`, `PeersArrived`, `OneCallAhead`, `SlotsHoldInputs`, `CopiedSoFar`, `SizesMatch`, `GatheredByGen` |
| `CommunicatorProofs`, `TpMailbox` | `ReduceIsExact`, `NoProtocolViolation`, `NoSilentPartial`, `TypeOK` | `Reported`, `Lockstep` (`Numbered`, `Answered`, `Delivered`) |
| `TpModelProofs` | `ReadyIsClean`, `SuccessIsWhole`, `TeardownIsQuiet`, `NoLostWakeUp`, `TypeOK` | `PointsOfKind`, `KindsOfCall`, `IdleWhenPosting`, `SyncDrains`, `StickyAborts`, `CleanOutside`, `GroupInStep`, `PartialIsSticky`, `SuccessStays` |
| `PrefixReuseProofs` | `PromptIsExact`, `ClaimsAreTrue`, `ReplyIsFed`, `NoInheritedFailure`, `TypeOK` | `LocalsOK`, `PrefixOK`, `SequenceOK`, `CheckpointOK`, `ReplyOK`, `FailureOK` |
| `BatchServingProofs` | `SlotIsOwn`, `GivenBack`, `StepIsLegal`, `Alternation`, `TypeOK` | `Owned`, `Locked`, `SlotsHold`, `Turns` |
| `PpModelProofs` | `BIsExact`, `MirrorIsTrue`, `NoProtocolError`, `RootCauseReported` | `Phases`, `Causes`, `Counts`, `Headers`, `Copies`, `Exact`, `Between` |
| `HybridModelProofs` | `ShardsAreExact`, `MirrorsAreTrue`, `DraftStoreIsFull`, `TypeOK` | `Fronts`, `CkptIsTrue` |
| `HybridCallProofs` | `PhasesAreWhole`, `SomeoneMoves`, `LeavesNothing`; `Implements`, the refinement of `ReshardTransfer` | `RingsHold`, `Position`, `Copies`, `Stages`, `Failures` |
| `ResponseStreamProofs` | `StreamIsWhole`, `CancelIsReal`, `NoOpenerShown` | `CloseIsCause`, `Lined`; in `TextInv`: `Texts`, `Located`, `StopIn`, `Begun`, `GatedIn`, `FinishedIn`, `FedAll`, `ForwardedIn`, `Sunk`, `Carried` |

Each follows from the module's `Spec => []IInv` (`InvHolds`, in `CommunicatorProofs` `ExchangeInvHolds` and
`MailboxInvHolds`, in `PrefixReuseProofs` `InductiveInvariant`; `NoOpenerShown` also from `TextInvHolds`).
What the invariants are for:

- **`HostExchange`.** `GatherIsExact` says nothing of a call in progress. `PeersArrived`: a rank past its
  wait saw every peer arrive at its latest call. `OneCallAhead`: no rank's counter is more than one above
  what a peer has published, because to begin another call it must first have left the wait of the previous
  one; this is why two slots are enough. `SlotsHoldInputs`: the two slots hold the payloads of the latest
  two calls, so the call a peer copies is one of them. The heart is `CopySource`: while a rank copies, each
  peer's slot of that parity is the input of the rank's own call. The refinement takes the last step of a
  call for the whole gather; `SizesMatch` makes it one of equal sizes, and `CopySource` makes a divergence
  one of payloads really passed to the same call, not of a slot on its way to the next. TLC checked
  `Implements` on two ranks with three calls and on three ranks with two.
- **`TpMailbox`.** The same idea a level below, with counters that wrap. No variable says how many calls a
  block has flagged to its peer, so `IInv` asserts that there is such a count (`\E pushed`) with which
  everything agrees: sequence numbers and flags modulo `Modulus` (`Numbered`), a block moves on only after
  its peer's flag (`Answered`), the last two flagged calls lie whole in the two slots (`Delivered`). The
  two ranks are never more than a call apart, so of the modulus only that it is a multiple of four
  matters: the low bit and the sign of a difference are right across the wrap.
- **`TpModel`.** `ReadyIsClean` speaks of a facade between calls; `GroupInStep` carries it through one. Two
  ranks that have neither failed nor been poisoned are equally far from where both started, so when both
  pass they are level; a reduction that failed leaves its rank's sticky word (`PartialIsSticky`), which the
  final health check meets before the call can succeed.
- **`PrefixReuse`.** At every point of a request the model is that of a sequence which consumed a known
  history and nothing else (`SequenceOK`: a part of the prompt, `Consumed`, then what was decoded), the saved
  state is that of a known prefix of it (`CheckpointOK`), and between requests both are what `PrefixState`
  says. For `GemmaModel` "consumed" includes the rings: the last window of rows before the frontier is in its
  slots (`RingHolds`). That this is enough, and stays so, is the ring's geometry: a write of a chunk that fits
  overwrites no row that a query of the chunk reads (`WriteHolds`, `RowIsExact`), a picture lies in one chunk
  (`BlocksAreSound`, `ChunkIsWhole`), so every row computed is the row itself (`FeedIsExact`, `RoundIsExact`);
  the rows of rejected drafts lie past the frontier, in slots whose old rows no window reaches any more. A
  restore puts back an older ring whole, and the drafter, which is not copied, keeps one row more than it
  reads (`DraftKeeps`), which is what `Rewind`'s lower bound rests on (`RewindKeeps`). That equal tokens and
  image keys are equal history is `TailContent`; `CommitContent` is its converse for what a request leaves.
  `DisplayedIsPrefix` and `RoundReply` carry `ReplyIsFed` through a round whose display stops early; only the
  last round may stop, hence `ReplyOK` at `"decode"`.
- **`BatchServing`.** Whatever the executor holds (queued, taken or in progress) is one request of a thread
  waiting for just that (`Owned`); only then can be said what the lock (`Locked`) and the model's slots
  (`SlotsHold`) are at each point of a thread. `Turns` says whose turn it is after one passed the other.
- **`PpModel`.** Through a call: the ring's counters say where both stages are (`Counts`), a slot between
  its filling and its release is the chunk of its number (`Headers`), stage A's rows up to where stage B is
  are B's and its hand-off is what B imports (`Copies`), and both are on the one history (`Exact`), as long as
  neither failed. A poison has a cause that is no poison (`Causes`), hence `RootCauseReported`.
- **`HybridModel`.** A call is one step, and the three properties need each other: what the stages compute is
  right because the warm gather leaves them with the history (`GatheredFacts`: a row is in a gathered block
  or the tracker vouches for it), and the shards are right after the scatter of whole blocks because the
  rows of those blocks below the call were gathered from them or are theirs still (`ScatteredFacts`, with
  the MTP block of row `p0 - 1`). Of the MTP head a round must leave one row right, that of the last
  position (`DraftedFacts`); the rows of its accepted drafts join the excepted ones (`MtpRoundStep`). `Fronts`: the store that is fed tails and the one that is fed whole prompts
  begin and end at the same row (`TailIsEnough`, `InjectBoth`, `RewindBoth`), which is stronger than equal
  windows and survives gaps and rewinds.
- **`HybridCall`.** A card's point in its own program says exactly what it published and consumed
  (`Position`), which makes the phases' boundaries and the copies under way (`Copies`) functions of it.
  `SomeoneMoves` compares the two positions: of two waiting cards one waits for something the other has done.
  The refinement maps the batches between `consumed` and `published` to the transfer's channel; each step
  maps to `Send`, `Receive` or a stutter, and the initial states to initial states.
- **`ResponseStream`.** What the client has, what the HTTP thread is writing, what the queue holds and what
  the worker has yet to push are one line of chunks in the API's order, and the worker's place bounds how
  far along the line is (`Lined`); it is claimed only while the client is there (`CloseIsCause`). Texts are
  opaque there; `NoOpenerShown` needs them, and has an invariant of its own, `TextInv`. It says of the three
  recognisers what makes them incremental: fed piece by piece they are where one feed of the whole text
  would put them (`Located`, `GatedIn`, `Sunk`), and of the worker's watermarks that the answer begins at one
  place (`Begun`) and that nothing of it is handed on before the gate let it through (`ForwardedIn`). That a
  step keeps this is `LocatorResumes`, `GateResumes` and `SplitterResumes`, for every pair of texts. Then
  what the client has (`Carried`) is a part of the answer that ends where the gate stopped, and the gate
  stops before an opener, even one that only later text completes (`GateIsSafe`). The assumptions are that
  a closing tag does not begin inside its opening tag, and that no generation is as long as `npos`
  (`TextFits`). None of the recognisers is recursive; the joined texts of a list of chunks are
  (`FlattenSeq`), and what the proof needs of them is proved by the least counterexample. TLC checked
  `TextInv` on the 13 requests of the run before it was proved.

The proofs are laid out alike: facts about numbers, sequences and sets; facts about the module's operators;
one lemma per action, or per conjunct and group of actions that touch it alike; `InvHolds`; the theorems.
TLC checked each `IInv` as an invariant of the component's instance before it was proved.

Only model-checked:

- all liveness (`EveryCallReturns`, `StreamsDrain`, `EveryCallEnds`, `RequestsEnd`, `ShutdownEnds`,
  `EveryThreadEnds`, `EveryoneEnds`): the prover has no fairness or ENABLED reasoning;
- `ReceivedIsExact`: it compares with the calls that the recursive function `ParseToolCalls` cuts out of a
  text. The library's induction theorems cannot be instantiated with this prover, and the arguments by
  least counterexample that carry `FlattenSeq` are not extended to it;
- the three violations, which are counterexamples.

## 6. Plan

Done, in the order of importance: `HostExchange` with `Gather`, `TpMailbox`, `TpModel`, `PrefixReuse`, `BatchServing`,
`PpModel`; then, in the order the hazards asked for, `HybridModel` (tracker, dispatch, gather, scatter,
tail), `HybridCall` with `ReshardTransfer`, `StreamText` and `ResponseStream`, the condition-variable
hand-off of the rank workers inside `TpModel`, and `KvRings` with `GemmaModel` inside `PrefixReuse`; and the
proofs of section 5.

What is left, should the project go on: `ReceivedIsExact` as a theorem; the enabling conditions spelled out
for fairness (`ThreadReady`, `WorkerReady`) against the actions they stand for, as far as they can be
stated without ENABLED; the exit and join of the rank threads; and a run of the two-lane instance of
`TpMailbox` (`CallLanes`), which the module supports and the proofs cover.

## 7. Left out of the modelled parts

- bf16 arithmetic, layers, launch geometry: a word or a state is what it was computed from.
- Weak memory: a release store and the acquire load that reads it are modelled as steps in one order;
  plain accesses between them are separate steps. The mailbox's protocol relies on its release stores
  and acquire loads for exactly that.
- Statistics, heartbeats as numbers (a watchdog may fire whenever a wait can be long), fault injection,
  log texts.
- Loading and construction: each module begins with a constructed, ready object.
- `TpModel`'s watchdog decides and poisons the group in one step (`Stall`); in the code a HIP call may return
  between the two, in a call that fails in any case.
- `PrefixReuse` leaves out rendering, tokenizing, tool-call gating and the sinks; a host-side exception
  (`FailHost`) may come at any point where these run.
- `PpModel` leaves out the DFlash feature columns, image rows, batch calls and the digests of
  `R4DX_PP_VERIFY`.
- `HybridModel` leaves out the bytes of a copy (heads, pitches, conv history against recurrent state), mrope,
  and that the two ranks hold halves: their agreement is `TpModel`'s subject. Which tokens a drafter proposes
  and how many are accepted is any choice; what the excepted MTP rows hold is not claimed. `HybridCall` takes the number
  of batches of a phase as given and the stage prefill as chunks through a channel, which `PpModel` opens up.
- `ResponseStream` leaves out JSON, the log's other fields, and the dialects' argument grammars.

### Not modelled, and why

About nine tenths of the implementation is code a state model says nothing about: GPU kernels, layers and
GEMM tuning, the converter and container formats, the vision and audio towers, tokenizer tables and
templates, argument and JSON parsing. They are numerics, one-time I/O or pure functions over strings; the
repository tests them against reference outputs. Of the model families, `Model` and `GemmaModel` are
modelled, whose sequence states differ. LFM2, Qwen3.5-MoE and qwen4exp have the state of `Model` again (rows by
position and a recurrent state), Llama its positional half; a copy per family, or of `TpModel` per
tensor-parallel facade, would repeat the modules here with other names and
no new interleaving. So the map covers a small share of all lines, and nearly all of the code in which two
actors, or two calls, share state.
