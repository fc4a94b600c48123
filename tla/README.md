# A verification of litMoE

litMoE serves local mixture-of-experts models: a FastAPI gateway owns one native
inference server (llama.cpp, WARP, DwarfStar or sglang-kt) at a time and relays
OpenAI and Anthropic calls to it. This directory models that system in TLA+,
checks it with TLC on small instances and proves most of its safety properties
with TLAPS for every size.

## 1. Inventory

| Component | Source | State it keeps | Operations | What makes it correct |
|---|---|---|---|---|
| Runtime | `litmoe/runtime.py` | selected model, engine handle, state (stopped, loading, ready, draining, failed), `closing`, `switching`, `queue_depth`, an `asyncio.Lock` | `acquire`, `switch`, `shutdown`, `status`, `_start`, `_stop`; `Lease.close`; `LeasedStream` | one engine process at a time, one caller at a time, answered by the model it asked for; the lock always comes back; the queue is bounded; the published state is true |
| Gateway | `litmoe/server.py` 216-509, 610-631 | none beyond the runtime's; the open upstream connections | lifespan (initial load, warm-up, exit), `_proxy`, `_forward`, `_start_engine`, stream relay | every lease is closed exactly once, with the right verdict on whether the engine may still be working |
| Engine processes | `litmoe/engines/*.py` | the `Popen` handle, the port, `<model>.pid` | `start`, `stop`, `wait_ready`, `_record_pid`, `_clear_pid`, `_resolve_binary` | a process that runs is owned by somebody; its PID file names it |
| Acknowledged cancellation | `litmoe/engines/dwarfstar.py`, `patches/dwarfstar-serving.patch` | in the server: its backlog, threads, queue and slot | `wait_ready`'s capability check, `wait_idle`, `GET /v1/litmoe/status` | a released lease leaves no work inside the engine |
| Translation | `litmoe/server.py` 571-607, 634-932 | per stream: the open content block, its index, the block of each tool call | requests, answers and event streams from one API to the other | a well-formed Messages event stream that carries the whole answer |
| Context and memory | `litmoe/server.py` 37-186, `litmoe/models.py`, `engines/warp_context.py`, `cli/install.py` 1261-1311 | `n_ctx` of a model | choose quants and models for a machine, fit a context to it, RAM verdict | the largest that fits, stable when applied again, and what was chosen for a machine starts on it |
| Ports | `litmoe/server.py` 175-213 | none | `allocate_engine_ports` | distinct, in range, not the gateway's |
| Configuration | `litmoe/config.py`, `server.py` 511-563, `cli/install.py` 1212-1258, `cli/main.py` 147-203 | `models.yaml` | load, validate, install an entry, initialise, write corrections back | no entry is lost; a correction changes its own model's bad value only; names are unique |
| `litmoe stop` | `litmoe/cli/main.py` 303-366 | the PID files | signal the process groups named there | only litmoe's own engines are signalled |
| Model installer | `litmoe/cli/warp_models.py` | lock file, staging and output directories | fetch, convert, validate, resume | one install of a model at a time; an output is complete or resumable |
| Runtime installers | `litmoe/cli/install.py` | the installed checkout and its launcher | build in a stage, cut over, roll back; run a stage under signals; unpack or build llama.cpp and remove older releases | the installation and its launcher always match; what is installed is what a gateway starts; nothing keeps running after Ctrl-C |
| Platform probes, benchmark, downloads, CLI printing | `platform_utils.py`, `benchmark.py`, `cli/` | none | probes, transfers, printing | not modelled: no behaviour of their own |

How they interact. Each HTTP call is an asyncio task. `_proxy` calls
`Runtime.acquire`, forwards the payload to the engine, and hands the lease to a
`LeasedStream` (which closes it in the response's task) or closes it itself.
`POST /v1/runtime/model` is a task in `Runtime.switch`. The lifespan runs the
initial load as a task beside the server and ends with `Runtime.shutdown`. All of
them share one `asyncio.Lock`; blocking work (creating a process, signalling and
waiting for it) runs in worker threads no cancellation reaches; engines are
processes that may exit by themselves at any time.

What is hard: several tasks between any two awaits of another; cancellations
that race with threads; clients that leave while queued, during a load, before,
during and after a stream; an upstream connection that fails while the engine goes
on computing; stops that fail; the lifespan ending in the middle of a load. The
installers add crashes between renames, signals and stale files; `models.yaml` and
the PID files have several writers and no lock; a native server goes on working
behind a closed socket. Every hazard is listed at its line in `PROJECT.json`, with the properties that watch over it.

## 2. Modules

| Module | Role |
|---|---|
| `Runtime` | the runtime, the gateway's calls into it, the lock, the tasks and the processes: state, one action per step, `Spec`, `FairSpec` |
| `RuntimeProperties` | its type and safety invariants, action properties, liveness, the refinement mapping, and what the documentation says where the code differs |
| `ResidentService` | the abstract service the runtime implements: one live process, one served caller, answered by the model it asked for |
| `MCRuntime` and `*.cfg` | instances for TLC |
| `RuntimeProofs` | the theorems about `Runtime`: the lock, the ownership of engines, what follows from them, and the refinement |
| `AnthropicStream` | the generator that turns an OpenAI completion stream into Messages events, from one yield to the next |
| `MessagesStream` | the event protocol a Messages client expects, which `AnthropicStream` implements |
| `Conversation` | extends `AnthropicStream`: the client that assembles the events, the same answer translated as a whole, and the next request |
| `MCConversation`, `StreamProofs` | an instance for TLC; the theorems about `AnthropicStream` and `Conversation` |
| `Quiescence` | a gateway's lease and polls against the backlog, threads, queue and slot of a patched ds4-server |
| `EnginePids` | PID files, processes, `Engine.stop` in threads, `litmoe stop` |
| `ModelsFile` | `models.yaml` and its writers |
| `Sizing` | the arithmetic of memory, contexts, quants and recommendations, as operators |
| `EngineStart` | extends `Sizing`: an entry from its installation to a running engine, with the searches for a port and for WARP's context |
| `WarpInstall` | several runs of one model install: process snapshots, lock, ledger, stages, signals |
| `MCWarpInstall`, `InstallProofs` | an instance for TLC; the theorems about `WarpInstall` |
| `RuntimeCutover` | how a built runtime takes the place of the installed one, with its rollback |
| `Installation` | what that promises, without renames and backups: replaced, put back, reported, given up |
| `LlamaInstall` | the llama.cpp installer, from a release or from source, beside a gateway that resolves and launches the binary |
| `MCRuntimeCutover`, `MCQuiescence`, `MCEnginePids`, `MCModelsFile`, `MCEngineStart`, `MCLlamaInstall` | instances for TLC |
| `CutoverProofs`, `QuiescenceProofs`, `PidProofs`, `FileProofs`, `EngineProofs` | the theorems about `RuntimeCutover` and `LlamaInstall`, `Quiescence`, `EnginePids`, `ModelsFile`, and about `Sizing` with `EngineStart` |

### How `Runtime` corresponds to the code

Each asyncio task is an element of `Task`: one per `Request` and `Switcher` (a
caller that may come back), `Startup` (the lifespan's `initial_load`) and
`Shutdown` (its exit path). `pc[t]` is the await the task is suspended at, and an
action is the code from one await to the next. The program counters and their
awaits are:

| `pc` | await |
|---|---|
| `reserved`, `queued` | `while_connected(wait_for(take_lock()))`, before and after its task reached `lock.acquire()`; `queued` also `async with lock` of a switch, the warm-up and the shutdown |
| `admitted` | the request's own task has not resumed since `take_lock` got the lock (runtime.py:279-288) |
| `probing` | `request.is_disconnected()` (290) |
| `spawning`, `recovering` | the `start_engine` thread, before and after a cancellation (210, 215) |
| `readying` | `wait_ready` (217) |
| `aborting`, `reaping` | `_stop` inside `_start`'s except clause, after a failure and after a cancellation (226) |
| `loaded` | a reload has finished, the status check follows (295) |
| `leased`, `forwarding` | `_forward` before and during the upstream call |
| `streaming`, `chat` | the response is relayed; `chat` is the accepted WARP chat stream, whose `restart_on_abandon` is cleared (server.py:439) |
| `quiescing`, `resetting` | `wait_idle` and `_stop` in `Lease.close` |
| `stopping` | `_stop` in a switch and in the shutdown |
| `warming` | the warm-up call |

`asyncio.Lock` is modelled by what it does: `release()` frees the lock and
schedules the first waiter, which takes it when its task next runs, and a newcomer
queues behind. `holder` is an auxiliary: asyncio keeps a flag, and its `locked()`
is `holder # NoTask`. The processes live in `live`; `native` is the work inside
each, tagged with what became of its caller (`active`, `left`, `severed`,
`warmup`), which the gateway cannot see and the properties are about. `spawned` is
a process whose creating thread has not returned its handle.

Abstractions. Texts of errors, the generation number, the runtime id, the
payload and the HTTP status codes are left out. A `_stop` cancelled while its
thread goes on is `AbortFails` followed by the process' `Exits`. A queue timeout and
a client that disconnects while queued have the same effect and are one action,
`LeaveQueue`. The initial load's task runs before uvicorn accepts a request, so
`Init` has it holding the lock. A process handle is reused only after its process
has exited, so that a finite `Proc` stands for unboundedly many starts. Each
engine's cancellation mode (`Runtime._cancellation_mode`) is a constant function
of its model. The operators named `F_...` are faulty variants: each shows a mistake
in the code that the property named with it in `PROJECT.json` reveals.

### How `AnthropicStream` corresponds to the code

The generator's variables are its own (`block_open`, `block_index`, `block_type`,
`tool_blocks`); `pos` is the yield it is suspended at, or `next` before the next
part or chunk. `parts` is what is left of the lines that were read. One line is a
delta with some reasoning, some text and some tool-call fragments, and a chunk has
any number of complete lines; the generator's decisions depend only on the
sequence of these parts, so a chunk is a sequence of parts in any order, which
contains every real one. `blocks` records what each block was opened for, and `wire` is
the last event, a delta with its piece: all that the client can see. A part without a payload yields
no delta. The client can leave, or a malformed chunk raise,
at any position (`Leave`); upstream fails where a chunk is awaited (`Fail`).

Left out: the splitting of bytes into lines, token counts and the stop reason. Assumed of upstream (`UpstreamOrder`, the comment at
server.py:883): a fragment of a tool call that is already known directly follows
another fragment of the same call.

### How `Conversation` corresponds to the code

A text is a sequence of pieces, each a position in what upstream said: a
piece lost, repeated or moved shows. The pieces are numbered when a chunk is read (`Hear`), which is what
`said` records; `shown` is what a client assembles from the events alone (`See` reads `wire` and
nothing of the generator), so a delta that is not yielded is in `said` and not in `shown`. `FromOpenAI` is `_openai_to_anthropic`, `Assistant` and
`User` the two branches of `_anthropic_to_openai`; `Reply` is the client's next message,
which starts with the results of the calls, in any order, as the Messages API demands.
Joined texts are the sequence of their parts. Two facts the properties leave room
for: a text that reasoning interrupts comes back joined with a newline upstream did
not write (`AnswerReturns` wants one text only if reasoning, text and calls come in
stages), and an empty answer has an empty text block as a whole and none as a stream.
Left out: ids (those the gateway makes up, `toolu_litmoe_N`, recur from one turn to the
next), token counts, the stop reason, the system prompt, `tools` and `tool_choice`.

### How `Quiescence` corresponds to the code

`lease` is the gateway's side: `calling` while a response is relayed, `closing` and
`polling` in `wait_idle` (dwarfstar.py:140-161), `stopping` in `Runtime._stop`. `Leave` is any
end of the relay, because `Lease.close` asks an engine with acknowledged cancellation in
every case (runtime.py:68-79). The server is external but for what the patch adds: `Take`
marks the slot in the critical section that takes the job (`dequeue`), `Idle` unmarks it
after the housekeeping, `Counts` is `send_litmoe_status`. Of the rest it is assumed only that
connections are accepted in their order and that a thread is in `clients` from its acceptance
to its end; a thread may leave its job behind, queued or running, at any time, and
the server may stall or exit. `Build` lets another server be installed; `wait_ready` turns it
away. A stop succeeds here: one that does not is in `Runtime`.

### How `EnginePids` corresponds to the code

A PID is an engine's once; after it was reaped another program may get it (`Reused`).
`file[m]` is `<m>.pid`: absent, empty (opened by `write_text`), or a number. `stopper[t]` is
`Engine.stop` in a worker thread, which goes on when its task is cancelled (`CancelStop`).
`cli` is `litmoe stop`, file by file, from the number it read to `killpg` to `unlink`.
`recorded`, `survived`, `orphaned`, `contested`, `told` and `found` are auxiliaries: the causes the
properties allow. (`LeftoversAreExpected` does not need `contested`: a file that names a process
that is gone belongs to one that was orphaned, whoever wrote over it.) Left out: the patterns of `--all` beyond signalling all engines.

### How `ModelsFile` corresponds to the code

Every writer reads the file (`Read`), opens it with mode "w", which empties it (`Open`), and
writes (`Dump`); only the text of a writer that is alone in between is sure to parse
(`torn`). An entry is its id, context, WARP policy and names; other fields are copied. A name may be another
model's id, and `Valid` is `_unique_ids` (config.py:116): no label, id or alias, of one entry is another's.
`memory[g]` is what a gateway loaded, changed by `_fix_context` and `_prepare_context` before
the file is. `Fit` stands for `compute_memory_aware_ctx`, whose stability (`FitIsStable`) is what
`EngineStart`'s `ContextFits` shows. `due`, `damaged` and `stale` are auxiliaries: the entries last
written, whether two writers overlapped or one died with the file empty, and the
models installed since a gateway loaded them. `clashes` is the fourth: the models that took a name in use when they
were installed, which `add_model_to_config` does not look for (finding 7). A file a gateway is
started with is one `load_config` accepts; what commands write need not be.

### How `Sizing` and `EngineStart` correspond to the code

Contexts are counted in 1024 tokens and memory in twentieths of a GB, so that the code's
percentages are whole numbers. Each operator of `Sizing` is one function (`FitContext`,
`MemoryAware`, `Verdict`, `ChooseQuant`, `ChooseCtx`, `Recommended`, `Picks`). `EngineStart` runs them over
the life of an entry: installed, initialised or written by a user, moved to another
machine, checked, corrected, given a port and, for WARP, planned. `TryPort` and `Halve`
are one iteration each of `allocate_engine_ports` and `fit_native_context`; other programs take and
release ports between iterations. WARP's planner is any monotone function of the
context (`PlansGrow`), as the docstring of `fit_native_context` assumes.

`sorted` by speed is an order chosen for the whole run (`BySpeed`), ties in any order. `LargestCtx` bounds the contexts of users and of
the catalog, so that the largest one that fits exists; it is 128 in the runs.

Edges of the code the properties allow: the port search raises at 65535 even if that
port was just found free; `fit_context` is not monotone (weights too large give up to
32768 tokens, weights that barely fit give 8192); the floor of 8192 is above a smaller
native context; another program may take a port between the probe and the
engine's bind, and would then answer `/health`.

### How `LlamaInstall` corresponds to the code

Each directory is absent, empty, `bare` (llama-server is there, some of its files are not), `raw`
(complete, on a Mac, with its library paths not yet rewritten) or whole, and goes through these as `rmtree`, `tar`, the moves of "flatten" and the copies of a source
build change it file by file. `Resolved` is `_resolve_binary`: the release with the greatest
name, the source build, the PATH. A gateway's start is `Resolve`, on a Mac `Renew` (the files of the tree are copied
over themselves and the launcher is removed, llamacpp.py:139-150), and `Launch`; `StartFails` ends one in between.
`BreakOff` ends a run at any step, an error or a kill.

`StartsTheInstalled` says what a gateway resolves and starts while others install: the release installed last
(`LastKnown`), whole, until an install is `Displacing` it. That begins early. As soon as the directory of a
release with a greater name has a llama-server, llamacpp.py:62-64 resolves it, while install.py:797-822 is still
unpacking it; and install.py:797 removes a tree before it installs the same release again. In these two
windows, and while older trees are being removed, a gateway may start an incomplete tree.

`overlap`, `stuck`, `dirty` and `latest` are auxiliaries. What the properties leave out besides, because the
code does not give it: two installs at once, an older tree that `rmtree(ignore_errors=True)`
could not remove and whose name is greater, and a source build beside releases, which
`_resolve_binary` hides behind them.

### How `WarpInstall` corresponds to the code

Each `Installer` is a process that runs `litmoe install` for the same model; `pc`
is what it does next, in the order of the code: the snapshot of the command and
that of `install_model` (`look`, `look again`), the free disk and
whether the source is complete (`prepare`), the ledger read and, where it lists a shard twice, written
(`dedupe`, `rewrite`), the lock file read (`read lock`),
truncated (`open lock`) and written (`write lock`), a stage started and waited for
(`start`, `run`), terminated by a signal's handler (`terminate`), the lock read
again, removed (`unlock`, `unlink`), the container validated (`leave`). `lock` is
the file: absent, empty or the number of a run. `group` is what is alive of the
process group of a run's stage: its `leader` (bash with the script) and a `worker`,
the process that handles one shard, which stands for all of them. `ledger` counts
the lines each shard has in `.download-state`, and `have` is which shards were downloaded. The upstream scripts are
external: workers append to the ledger, leaders end well if it has as many lines as
there are shards (the docstring at warp_models.py:104-111).

Nothing keeps one run out of another's steps: each reading, judgement and writing of the lock and of the ledger is an
action of its own. `other` are the runs of another user: `os.kill` raises
PermissionError for them, which warp_models.py:87-88 takes for a dead owner, so that their lock is stale to
the rest and the rest's to them. A snapshot sees a stage only by a worker (its command names a path of the plan), and
sees none where `ps` or `/proc` fails (157-165, 187-188). A run may be killed anywhere, and leave an
empty ledger if it was writing it; of an interrupted stage only the leader is waited for, so that a worker may outlast the run
(install.py:236-262).

So two stages can be at work at once (finding 6). Three auxiliaries say by which causes, and `OneStage` that there is no
other: `contested` are the runs that judged the lock while another was changing it, with that other, and those whose lock
was taken for stale because its owner is another user's; `unseen` has `<<i, j>>` if `j` had a stage when `i` looked and went
on, or started one after that; `disturbed` are the runs that had found the ledger clean before another run changed it.
Left out: reuse of PIDs (a stale lock refuses installs while another program has its number,
warp_models.py:89), several workers at a time, what is checked in a container, the reclaiming of source shards.

### How `RuntimeCutover` corresponds to the code

`shared` is what the installed tree and the launcher hold, `stage` the paths of the
run's stage directory, both by the run that built the content. Each `os.replace` is
one action, with the errors the operating system gives (`Possible`), an error or an
interrupt at every position (`Mishaps` of them in a run), and a kill (`Kills`), which
undoes nothing. The rollback looks at the paths in the code's order. `warp` chooses between
`install_warp` and `install_dwarfstar`, which has no launcher and only restores.
`before` is an auxiliary: what the paths held when the run looked. `Current` is what there is of a
path, in its place or else in a backup; `Saved` what a backup has of one that was replaced; and
`Reported` that some run said it had installed, or found, the runtime: with these `RuntimeCutover` implements
`Installation`.

`Together` lets runs overlap; the passing run has it FALSE, because nothing in the code
makes them safe then (finding 5). `Escaping` is about `install_dwarfstar` alone (section 4).
Left out: the clone and the build (`Build` is their success; before it nothing shared is
touched), an interrupt inside `shutil.rmtree` and at the entry of `pop_all`.

## 3. Runs

The runs of `Runtime` have `CHECK_DEADLOCK FALSE` because a gateway that has shut
down takes no more steps, that of `Conversation` because a turn ends, those of the
installers, of `ModelsFile`, of `EnginePids` and of `Quiescence` because the commands, numbers,
calls and starts they have are used up.

| Run | Instance | Shows |
|---|---|---|
| `runtime` | 3 requests, 2 switches, three models, one of each cancellation mode, queue of 1, about 700,000 states up to symmetry | types; lock, tasks and FIFO agree; one owned process; leases are current; the published state is true; the queue bound is exact; nothing after shutdown; a free, ready engine is quiet; a leased engine stays; `Runtime` implements `ResidentService`: callers are served one by one, each by the model it asked for |
| `liveness` | 2 returning requests, 1 switch, a WARP and a cooperative model, about 88,000 states | leases, switches and the shutdown end, and a queued request gets its turn although nobody gives up |
| `stream` | 2 tool calls, chunks of up to 3 parts, answers of up to 5, about 150,000 states | the events are those of `MessagesStream`, cut anywhere; what a client assembles from them is all that upstream sent, each piece once and in its place; a streamed answer is the whole one; upstream gets its answer back and each result right after the calls |
| `quiescence` | 3 calls, 3 polls in a wait, 3 starts, 2 builds, about 67,000 states | a free lease means an engine with nothing to do; never work of two calls inside; the wait ends |
| `engine_pids` | 1 gateway, 2 models, 2 engines, 2 threads, `litmoe stop`, numbers reused, about 2.1 million states | a running engine is named by its file, or has one of the listed causes; what is left behind is expected; `litmoe stop` reaches every engine whose file it found |
| `models_file` | 1 gateway, 2 commands with a job each, 2 models of which one may have the other's id as a name, about 1.6 million states | a file that parses has each model and alias once, and load_config refuses it only after an install over a name in use; nothing is lost unless writers overlap or die in between; only bad values change |
| `engine_start` | 5 models of the catalog and one it does not know, 13 machines, 4 ports, 3 planners, about 189,000 states | the best quant and models that fit; the first free port; the largest context that fits, for llama.cpp and for WARP, and a correction that is stable; both searches end |
| `llama_install` | 2 processes with 2 installs each, 2 releases or a build, a gateway that starts at any time, a Mac or not, about 4.9 million states | what a run installed is whole and used; until an install displaces it a gateway resolves and starts the release installed last, whole |
| `warp_install` | 2 runs, of one user or of two, 2 shards, ledgers with up to 2 lines for a shard, about 1.25 million states | two stages run at once for the listed causes only; a run that ends leaves no script; an install that ends well has all shards, unless another run wrote the ledger meanwhile |
| `cutover` | 3 runs of `install_warp` or of `install_dwarfstar`, 2 mishaps in each, kills, about 536,000 states | it implements `Installation` (what was there is given up only after a new runtime was reported, and what was reported stays); all or nothing; what a failed rollback retains is complete |
| `vio_severed` | 2 requests, a model without acknowledged cancellation | finding 1 |
| `vio_refused` | the instance of `engine_start` | finding 2 |

Bounds, and why they are enough. Three requests are the fewest for the bound of one waiting
place (two admissions) to turn one away while another holds the lease. Two switches give the nesting that
`switching` exists for. Three models, one of each cancellation mode, give every
mismatch between asked, selected and loaded. The state space of `Runtime` is finite without any bound in the guards: callers
return to `idle`, and process handles are reused. In `stream` three parts to a chunk
are enough for any two kinds and a return to the first; five parts in an answer are one of each
kind and one more. In `warp_install` two runs are enough to race for the lock and the ledger, to overlap with a stage unseen, and for one to meet what
a killed one left of its stage, its lock and its ledger; two shards are the fewest for a ledger that lists one twice and not the other.
In `cutover` two mishaps in a run are one that starts the rollback and one that ends
it, and a third run meets what two failed or killed ones left. In `quiescence` three polls
are one that finds the call in the backlog, one that finds it running and one that
finds nothing; three calls and starts let a reset come between two calls of the next
process. In `engine_pids` two engines of one model are the fewest for a late stop to meet
the next one's file; an instance with two gateways (7.7 million states) was checked
once. In `models_file` three writers give every overlap of two and one more that
reads the result. The machines of `engine_start` reach each case of `fit_context` and of
the verdict, its 64 to 128 blocks several levels of the planner's search.
In `llama_install` a second run of each process finds what its first one and the other's left, and
two releases are an older and a greater name.

Symmetry is used over requests and switches in `runtime`, over runs and shards in `warp_install`, over
the commands in `models_file`, the installs in `llama_install`, and over models, numbers and threads in
`engine_pids`: no property and no operator distinguishes them. The liveness runs use
none.

Fairness (`Runtime!Fairness`). The event loop runs a task that can run; a
worker thread returns (signals and waits have timeouts of 15 and 5 seconds,
`wait_ready` has `ready_timeout`); an upstream call ends (httpx has read timeouts)
and so does `wait_idle` (10 seconds). Weak fairness is enough, because the lock's
FIFO wakes one waiter and keeps it enabled. No client is obliged to call or to leave, no
operator to switch, no process to exit, the lifespan not to end: those actions
are unfair, and `LeaveQueue` is excluded from the fair steps so that liveness does not
rest on the queue timeout. `EngineStart` has weak fairness of the iterations of its two
loops, which wait for nobody. `Quiescence` has it of giving up after ten seconds and of the stop, and
of nothing the server does.

Not every formula worth stating has a run of its own. `SwitchingIsExact`, `OnlySwitchSelects`,
`RuntimeNeverLost`, `StreamInv` and `LockedWhileStaging` are proved (section 5) and hold in the instances above,
as does the type invariant `TypeOK` of each module; only `Runtime`'s is listed in a run.

## 4. Findings

Where the code differs from what it or its documentation says. The first two have
a run that TLC ends with the counterexample.

1. `SeveredWorkIsStopped` (runtime.py:123). After an in-band upstream error the
   lease of an engine without acknowledged cancellation is released without a restart.
2. `EachFitsSeparately` (server.py:495). `litmoe init` says of the models it chose for a machine
   that "each fits separately" (main.py:200). The check before a start reckons with the context that
   fills the memory, and adds 6 GB of headroom: it refuses some of them on that
   machine. With the catalog's numbers: gemma-4-26b-a4b and qwen3.6-35b-a3b on 32 GB
   (Linux), nemotron on 48 GB, minimax-m2.7 on 192 GB.

The others are stated by properties that no run checks; the change of a passing run's .cfg in
the last column (with the property in place of the others) gives the counterexample.

| | What happens | Property | Change |
|---|---|---|---|
| 3 | server.py:502-506: if `start()` raises after `Popen` and the clean-up `stop()` raises as well, no one keeps the handle, and the next load starts a second process; docs/ARCHITECTURE.md:201-202 "stop failures retain ownership and prevent another engine from starting" | `OneOwnedProcess` | `MCRuntime.cfg`: `Model = {one}`, `Proc = {p1, p2}`, `ModelOf <- TwoOfOne`, `Cancellation <- OnlyRestart`, `CleanupCanFail = TRUE` |
| 4 | runtime.py:228: a client that leaves during the reload it caused leaves the state at failed, from which no request reloads; docs/plans/2026-09-29-interactive-serving.md:41 "reload only for a subsequent request or explicit switch" | `LeavingReloadKeepsReloadable` | as 3, with `CleanupCanFail = FALSE` |
| 5 | install.py:625-632: of two runs that install the runtime for the first time the second fails to publish, and its rollback takes away what the first has published and reports as installed; README.md:150-151 "A second install of the same model is refused while one is running" | `RuntimeNeverLost` | `Cutover.cfg`: `Together = TRUE`, `Mishaps = 0`, `Kills = FALSE` |
| 6 | warp_models.py:224-234: two runs read the lock before either has written it; 87-88: the lock of another user's run is taken for stale; 175-217: a stage that outlived a killed run, or that `ps` did not show, is not seen; README.md:150-151 "A second install of the same model is refused while one is running", docs/ARCHITECTURE.md:87 says the same | `SecondIsRefused` (`OneStage` says that there is no other cause) | `WarpInstall.cfg` |
| 7 | install.py:1230-1254: the id of a model that is installed may be another's alias, and the alias it gets another's id: config.py:116 checks `[m.id, *m.aliases]` and refuses the file at every later load | `FileAccepted` (`FileValid` says that nothing else has this effect) | `ModelsFile.cfg` |
| 8 | server.py:537: a gateway corrects the entry it loaded, and overwrites a context that `litmoe install` has set since; server.py:511-521 corrects only values that are stale or do not fit | `OnlyBadValuesEverChange` | `ModelsFile.cfg` |
| 9 | main.py:324: after a gateway was killed its file stays, and `litmoe stop` signals whoever has the number by then; base.py:22-24 says it only touches litmoe's own engines | `NeverTouchesOthers` | `EnginePids.cfg` |

One more assumption of a passing run is worth a reader's notice; set to TRUE in
its .cfg, it gives a counterexample. `Escaping` (install.py:487-494): an interrupt in the handler
of another, before its inner `try`, lets the clean-up of `install_dwarfstar` remove the
previous runtime, against `AllOrNothing` and `RuntimeNeverLost` (`Recoverable` still holds). Beyond the properties:
`QueueDepthIsExact` allows one admission more than `max_queue_size`, as runtime.py:272
does for the request that finds the lock free; a context that a user chose and a gateway cut below `MIN_SANE_CTX` is taken
for one that was never chosen at the next start, and is set anew (server.py:529-531): `ContextFits`
promises stability for it only if the model's own context costs a GB more than `MIN_SANE_CTX`
(`Ample`), as that of every GGUF entry of the catalog does; and a run killed between the tree and its
launcher leaves a tree that later runs take for a complete installation.

## 5. Proofs

Each theorem is for any finite sets of processes, requests, models and so on that satisfy the ASSUMEs
of its module. A proof module begins with its inductive invariant, as named conjuncts, and has one lemma
for each action that disturbs it. TLC has checked each inductive invariant on the run's instance before.

- `RuntimeProofs`. `LockSafe`: `LockInv` is inductive by itself, a duplicate-free
  FIFO that holds exactly the queued tasks and a holder that is exactly the task in
  `Holding`. `OwnershipSafe`: `LeaseIsCurrent` and `OneOwnedProcess` are not
  inductive, because that a granted engine is of the asked model needs what holds between
  the awaits of a start, a switch and a reload. `Coherent` (in `RuntimeProperties`) says it:
  the targets of the tasks, what a start may rely on at each of its awaits, what
  each state says of the handle, what an open lease says of it. `Ownership ==
  LockInv /\ Types /\ Coherent` is inductive: the lock makes all those tasks
  exclusive, so that each step has one task to consider. `LeaseSafe` follows;
  `OneProcess` adds `ProcessesOwned` and assumes `CleanupCanFail = FALSE` (finding 3).
  `EscapeSafe` says what is left without that assumption: a process loses its owner only in the step in
  which the clean-up of a failed start raises, and of those with an owner one at most is alive.
- `FairQueue`, there too, is what a fair lock owes its waiters at each step: whoever waits moves up and never back, and a
  free lock goes to the first, so that a task at place n is passed n - 1 times at most. It follows from `LockInv`
  and `Turn`, the four things a step can do to the lock.
- Also there, `SelectionSafe` and `LeasedSafe` (action properties) and
  `ShutdownSafe` (strengthened by `AfterShutdown`: who may hold the lock once the
  initial load has been joined) from `Ownership`; `QueueSafe` and `SwitchingSafe` by counting
  (every step moves at most one task, and moves the counter with it), from which
  `TypeSafe` gets that the counters stay natural; `StateSafe` adds that draining
  implies an unfinished switch (`DrainsForASwitch`). `EngineQuietSafe` is `ReadyEngineIsQuiet`;
  its `QuietInv` follows each kind of work inside an engine (of a caller that waits, of one that left, of
  a connection that broke, of the warm-up) from the call that begins it to what ends it: by the
  engine's mode a stop, a confirmation, or the engine itself.
  `ServiceImplemented` is the refinement of `ResidentService`, with `ServiceInv` (ownership,
  processes, the shutdown) and `CleanupCanFail = FALSE`: each step of `Runtime` is one of the service's or a
  stutter. `Wish`, the target of the caller that has the lease, makes a grant by an engine of another model
  no step of the service; `CurrentLeases` says that no caller's target changes while it is served.
- `StreamProofs`. `StreamSafe` (`StreamInv` is inductive: the generator's variables agree
  with the blocks, its position with the next part, and upstream keeps its order) and
  `StreamImplements`, the refinement of `MessagesStream`: each action but `Read`, `Eof` and a
  `Delta` without arguments is one action of the protocol, those are stutters. Its
  heart is that a fragment of a known tool call is for the block that is open.
- Also there, of `Conversation`, `NothingIsDropped`, `StreamIsWhole`, `AnswerComesBack` and `ResultsComeFirst`,
  from `TurnInv`. `NothingIsDropped` is about the events alone: `shown` is a function of what was on `wire`, `said` of what was read, and
  that they agree needs that every part with a payload was yielded, to the right index, before the next one is taken. None of the four is inductive: that a delta goes to the last block says
  nothing of where the earlier ones went. `Traced` does: there is a map from what upstream said to the client's
  blocks that never goes back, and each block holds, in order, the pieces that map to it. With
  `Separate` (neighbours differ in kind, a call has one block) it determines what `Bodies`, `Calls` and
  `Message` come to: `EnumeratesConcat` and `OrderedUnique` say that a set of positions has one order,
  and that the order of a set is the orders of its parts, one after the other; `FlattenIs` says it of the
  library's recursive `FlattenSeq`. `StreamIsWhole` then is that thinking, text and calls are three such parts.
  `ResultsComeFirst` shows of the fold in `User` that results followed by anything else become a message each
  and one for the rest (`UserIs`), and that an order of the kinds of calls has every call (`EveryCallAnswered`).
- `InstallProofs`, which assumes nothing of how runs interleave and end. `OneStage` is not inductive: it says nothing of a
  run that is about to start a stage beside another's. `InstallInv` adds four things. `Exclusive`: of the runs from `open lock` to the
  removal of the lock, one that is not `contested` is named by the lock, and no other is reading or changing it (`Undisputed`).
  `Attended`: a stage has a run that waits for it, or one that was killed, or is what an interrupted run left. `Unaware`: who has
  looked and went on did not see the stages there are now. `Functional`: types. `InstallSafe` is that it is inductive;
  `StagesExclude` and `NoOrphans` follow, and `StageIsLocked`: the lock names every run at a stage that is not contested, so
  two of them are not both at one.
  Only the steps on the lock can disturb `Exclusive` (`LockLeft`, `LockWritten`), only those of a stage `Attended` (`StageMoves`).
  `InstalledIsFetched` is `FinishedMeansFetched`, about a count: upstream takes a download for complete
  when the ledger has as many lines as there are shards. `FetchInv` says that the ledger of a run that is not `disturbed` lists a shard
  once at most, from its cleaning to the end of its download, and only shards that are there; that such a sum then is the number of shards listed is shown for ledgers
  of any size.
- `QuiescenceProofs`. `QuietSafe`: `Quiescent` is not inductive, because a free lease is the end of a
  wait. `QuiescenceInv` says what the backlog may hold in each phase of the lease (the
  call, then a poll), where the call may be (in the backlog, with a thread, queued or in the slot, never in
  two), and of a reply with two zeros that nothing is. That a server accepts connections in their order
  is what it rests on. `NobodyCalls` only says that the value for no call is none.
- `PidProofs`. `TrackedSafe`, `LeftoversSafe` and `StopSafe`, from `PidInv`. `StopReachesAll` needs that the
  command's file still names the engine it found when it comes to it: any two engines of a model that
  could touch its file are both contested (`Apart`), so that the file of another one changes only in
  its own start and stop and by the command (`Recording`, `Clearing`, `Commanding`).
- `CutoverProofs`. `NeverLost`, `NothingInBetween` and `HandRecovery`, from `CutoverInv`, assuming
  `Together` FALSE (`Assumed`; finding 5, section 4) and, the first two, that the run is of `install_warp` or
  `Escaping` is FALSE (`Orderly`; section 4). `Placed` says where the two
  paths are at each position of a run: where they were, moved to the backup, or replaced.
  A run that finds no runtime in its place has to know that a killed one before it has it in its
  backup (`Elsewhere`); without that, `RuntimeNeverLost` is not inductive.
- Also there, `CutoverImplements`: each step of a cutover or of its rollback, whatever fails or is killed, is one of
  `Installation`'s or a stutter. The renames that count are those that put a new tree or launcher in place or move
  it out again; with the backups in the mapping, the others move what there is. `UpgradeInv` is what it needs besides `CutoverInv`: a
  backup holds only what an earlier version installed (`BackupsOld`), a new launcher has its new tree
  (`LauncherFollows`), a run works only where none has installed and a rollback that ends well leaves no backup
  (`Fresh`), and once a run has reported nobody works but that run's clean-up (`Settled`). Without `Settled` a later run
  could put back what was reported.
- Also there, of `LlamaInstall`, `ReleaseIsUsed` and `StartsSafe` (an action property), from `LlamaInv`. `InstalledIsUsed` says only what is there when
  no run is at work; the run that comes next has to find it so, and leave it: `OwnTree` says how far a run that
  is alone has come with its directory, `LatestUsed` that the last release is whole and
  has no other beside it, and `LatestKept` that it stays so, and what a gateway chose, until it is displaced.
- `FileProofs`. `FileSafe`, of which `ValidSafe` is what concerns the file: every text that is read, held or written is `Sound` (each model once, no alias
  twice) whatever the writers do to each other, and an alias that is another's id has one of the two in `clashes`, as of the file so of every
  copy (`AllClear`). `LosesNothing` and `CorrectionsSafe` (an action property), from `FileInv`.
  `NothingLost` is not inductive: while the file is empty it is the copy in its writer's hands that is what
  is due (`OneAtATime`). `OnlyBadValuesChange` compares a correction with what is due when it is
  written, and the gateway decided from what it has in memory, perhaps after corrections that
  never reached the file: `Knows` says what the two still have in common. What an addition and a
  correction make of a file (`AddedIs`, `CorrectedIs`) is shown for files of any length.
- `EngineProofs`. `PortSafe`: the ports before the one to try are those found in use and the
  gateway's. `PlanSafe`: `Narrowed` is the invariant of the binary search, a largest context known
  to fit and a least known not to, for any planner that `PlansGrow`; it needs that each
  iteration halves a whole number of blocks. `FitSafe`: `FitIsWanted` shows that `fit_context`'s arithmetic
  is what the docstring says, `FitStable` that it changes nothing the second time, and `LifeInv`
  follows who set the context last. `SearchesAdvance` (`Advances`) is that an iteration of the port search leaves one
  port less and one of WARP's search at most half of the contexts, and that no other step sets them back. `ChoicesSafe`: `BySpeedSorts` and
  `RecommendedIs` say what the sort, the cut to three and the default at the head leave. `StartInv` is the four
  together.

What is true of finite sets and of sequences of any size (a greatest element, an order, a sum, what a fold or a
recursion of the library returns) would be an induction over data, which the library's theorems cannot be instantiated
for. Two lemmas do it in a first-order way: `Least` (a set of natural numbers that has an element has a least one,
taken of the sizes of the counterexamples) and `Every` (a set that has 0 and every successor is `Nat`, taken of
the sizes for which the statement holds).

The attempts changed three statements. `ContextFits` was too strong for
a short context that a user chose (section 4, beyond the properties); `LeftoversAreExpected` was weaker than
what holds; and `BySpeed` fixed an order among equals that the code's `sorted` gets from its input and
no property needs. `Conversation` and its proofs write a selection from a sequence as the order of a
set of positions (`At`), where the library's `SelectSeq` is recursive.

Model-checked only:

- liveness (`SearchesEnd`, `WaitEnds`, `LeaseEnds`, `SwitchEnds`, `AdmissionEnds`, `ShutdownEnds` and the others of
  the runs): it needs ENABLED and fairness, which TLAPS cannot reason about here. What each step contributes to
  it is proved where it is not plain: `FairQueue` for `AdmissionEnds` and `SwitchEnds`, `SearchesAdvance` for `SearchesEnd`;
- the two properties that the code violates (section 4), and those of the table there, for which TLC has counterexamples.

## 6. Plan

Modelled, checked and proved: every module of section 2. What a next step could add is an abstract specification of
a run's stage with the causes of finding 6 as its steps, which `WarpInstall` would implement.
`LlamaInstall` cannot implement `Installation`: it unpacks in place, so that what it replaces is gone before the new
one is whole.

Not modelled:

- `platform_utils.py` and WARP's own `plan_memory`: probes of a machine and of a container; their results are
  constants of `Sizing` and `EngineStart`.
- `download_model` and the ktransformers installer: transfers by huggingface_hub and pip, after which
  files are looked for; a file left from an earlier split of the same repository may be
  taken for the first shard (install.py:1202).
- command lines and environments of engines, authentication, routes that only read, printing,
  `benchmark.py`: text and pure input and output.
- the patch's changes to request parsing, and the native servers themselves.
