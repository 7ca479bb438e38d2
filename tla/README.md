# Verification of DeepSeek-V4-Flash-Vision on one DGX Spark

TLA+ modules, TLC configurations and TLAPS proofs for the scripts and services of
this repository. Paths below are relative to `src/`. `PROJECT.json` lists the
components, the runs, the mutants, the source lines behind every definition, the
hazards and the theorems; this file explains them.

    tlc -workers 2 -config Launch_kills.cfg MCLaunch      # one run
    tlapm LaunchProofs.tla                                # one module of proofs

Contents: 1 the system, 2 the modules, 3 the runs, 4 the proofs, 5 what was
found, 6 limits, 7 plan.

---

## 1. The system

The repository serves a 256-expert vision model from one machine with 128 GB of
shared memory. A pack of quantized weights is downloaded, and on one of the
routes converted or coalesced; an engine (vLLM with files of the repository
mounted over it) serves it from a container; a proxy in front of the engine masks
a few words; a watcher stops the container before the machine runs out of memory.

### 1.1 Components, their state, operations and what makes them correct

**Modelled**

| Component | State | Operations | Correct when |
|---|---|---|---|
| Pack conversion: `scripts/convert.sh`, `tools/convert_vision_pack.py`, `make_config.py`, `build_dspark_draft.py`, `add_vision_tensors.py`, `make_vision_config.py`, `use_vision.sh`, `verify_tp1.py` | the output directory: payload files with `.sha256` sidecars, three live JSON files (config, index, manifest), their `.text` and `.vision` copies, the bitrates, the draft directory | six steps, each skipped when its marker exists; two scripts run by hand | a marker is ahead of what it stands for only where a kill fell on `convert.sh:45-47`; a rerun after a kill finishes; the text view survives; success leaves one set of copies live, and one view without such a kill |
| Serving: `start.sh` lines 73-102, `scripts/stop.sh`, `scripts/ramwatch.sh` | container, helper processes, pid files, ramwatch's counter | start, stop, wait, sample | no helper is lost but by a kill between `&` and `echo $!`, the engine is watched, a dip does not kill it, low memory does |
| bad_words proxy: `scripts/badwords_proxy.py` | one handler thread per client connection with an upstream connection of its own | read, `_inject`, `urlopen`, relay in blocks, end | every completion is masked, everything else untouched; a truncated answer never looks whole; every request ends; the engine's slot is freed |
| TP coalescing: `coalesce_rank_sliced_exl3.py` and its stage of `entrypoint-256k.sh` | the downloaded pack, the target directory, a pool of worker processes | download, carry files over, combine families, write the JSON files, sidecars and the manifest, verify | a manifest means a whole pack of one revision that verifies; a family that is complete is never done again |
| Image blocks: `mm_preprocess.py`, `dsv4_mm_compat.py` | the request being expanded | resize turn by turn, build the block, plan, splice with the compressor's pad | a block fits its budget and has the length everybody computed; each item is written once, in order and aligned |
| Chat encoding: `deepseek_v4_encoding.py` | none: a function | merge, sort, drop, render | results follow calls, turns close, a context is a prefix of the prompt, images stay with what was said of them |

**In part**

| Component | Modelled | Left out |
|---|---|---|
| Launch: `start.sh` lines 33-76, the preflight of `scripts/serve.sh` | both routes to `docker run` | the download (external), mounts and environment (data) |
| Kalibrated chain: `scripts/kalibrated/*.sh` | setup, chain, converter, switch, resumed chain, splices, puller, boot, watchdog | `make_aplus_pack.sh`, the steps inside the boot ladder |
| GPU model runner: `gpu_model_runner.py` | the persistent batch under asynchronous scheduling: states, rows, inputs, drafts, corrections, the encoder cache | attention metadata, CUDA-graph capture, the layout of the KV cache, pooling, LoRA, pipeline ranks |
| Vision wrapper: `vl_model.py`, `model.py`'s loader | the stream of tensors, the two passes, the child and its finalization | the tensor code of the towers, the rows of embeddings |
| Expert routing with `bias_vl` (router files) | `fused_topk_bias` with sqrtsoftplus scores and `dsv4_topk` | the softmax, sigmoid and ROCm paths, which route no image |
| EXL3 runtime: `exl3.py` | the configuration of a rank-sliced checkpoint, the layers built from it, the experts' slabs, preparation, the cache of runtimes, dispatch | dense EXL3 layers, checkpoints with a record of every tensor |
| MoE kernels and planner: `w4a16/kernel.py`, `fused_moe/_impl.py`, `prepare.py`, `intrinsics.py` | the choice of tiles, planned launches, the launch cache, a batch's lookup; of the fused kernel the stages, the schedules, the split along K, the grid barrier, the workspace, the ring of copies of the K loop | arithmetic, other exchanges in shared memory, the hybrid kernel's tiers, other layouts and kernels |
| Draft build: `build_dspark_draft.py` | step 3 of the conversion | which experts it keeps |
| Container entrypoints | the coalescing stage, and the engine that loads, serves or exits | the draft build and selftest of the entrypoint, argument lists |

**Not modelled.** Registration and configuration (`config/model.py`,
`registry.py`, ...): whole upstream files with a few table entries added, no
state that changes. The model definition (`nvidia/model.py`, `attention.py`,
`common/vision.py`), the image-patch kernels and the draft network: their results are
floating-point numbers, which a discrete model cannot check; what is
discrete in them (weight names, the loader) is in `VisionWeights`. Probes and benchmarks
(`scripts/*_probe.py`, `scripts/bench/`): clients that print a report.
Pack and decode checks (most of `tools/`): one-shot comparisons; the one that
the conversion runs, `verify_tp1.py`, is in `PackConversion`.

Most lines of the tree are of these kinds. Most of `kernel.py`, `_impl.py` and
`intrinsics.py` is arithmetic of a GPU, and `gpu_model_runner.py` is
an upstream file most of whose paths this image never takes; so the modules translate
a small share of all lines, and nearly all of the control written in scripts.

### 1.2 How the components interact

    setup.sh, chain_aplus.sh, switch.sh --> [ spliced files + sidecars ] --> pull_aplus.sh
                                                                                  |
    start.sh --> download.sh | hf download --> [ pack on disk ] <-- boot_aplus.sh <'
       |--> convert.sh --> tools/* ---------> [ output directory ]
       |--> stop.sh   (container, .run/*.pid)
       |--> serve.sh  --> docker run --> [ entrypoint: coalesce_rank_sliced_exl3.py ]
       |                                  `--> engine (:ENGINE_PORT)
       |--> ramwatch.sh  --> docker ps / docker kill
       `--> badwords_proxy.py (:PORT) <--> clients,  --> engine

    engine:  chat encoding --> image blocks and plan --> prompt
             checkpoint --> weights --> runtimes and launches --> captured graphs
             scheduler (one step ahead) --> model runner --> layers: routing --> experts

Outside the engine nothing is called back. The components share files (markers, pid files, logs), a
process table, a port and the container's state; each reads what another may
have left half done, in this run or in an earlier one. That is where the hard
behaviours are: a kill between two writes, a marker that outlives what it marks,
a helper whose pid is not recorded yet, two sockets behind one `except`. Inside
the engine the hard part is agreement at a distance: a length computed three
times, an order of messages two functions must keep alike, tokens fed from rows
their request has left, scratch shared through a cache key, a launch planned in one
file and looked up in another, a tile whose parts several CTAs sum in turns that each of
them worked out alone.

---

## 2. The modules

| Module | Models | Extends |
|---|---|---|
| `PackCommit` | abstract: what a conversion promises | - |
| `PackConversion` | the conversion, command by command | - |
| `Launch` | `start.sh` on the MixedK route around the conversion | `PackConversion` |
| `HubLaunch` | `start.sh` on the downloaded route | - |
| `ServingStack` | start, stop, ramwatch, helpers | - |
| `BadWordsProxy` | the proxy's handler threads | - |
| `ImageBlock`, `PromptPlan`, `ChatEncoding` | pure: the block, the planner, the chat | - |
| `ImagePrompt` | a chat with images from messages to tokens | the three above |
| `RunnerBatch` | the runner's persistent batch and the scheduler it follows | - |
| `ExpertRouting` | pure: the choice of experts | - |
| `Exl3Config` | pure: the configuration of a rank-sliced checkpoint and what it is refused for | - |
| `VisionWeights` | configuration and loading of a checkpoint | `ExpertRouting`, `Exl3Config` |
| `MoeLaunches` | pure: tiles, launch keys, planned launches | - |
| `Exl3Runtimes` | the engine from its weights to its requests | `VisionWeights`, `MoeLaunches` |
| `KLoop` | pure: the ring of asynchronous copies of a CTA's K loop | - |
| `FusedMoeKernel` | the CTAs of the fused expert kernel, launch after launch | `KLoop` |
| `Coalesce` | the entrypoint's first boot; implements `PackCommit` | - |
| `KalibratedChain` | the scripts on the pod and on the Spark | - |
| `MCLaunch`, `MCServing`, `MCProxy`, `MCImage`, `MCRunner`, `MCEngine`, `MCKernel`, `MCCoalesce`, `MCKalibrated` | values for TLC | the module they are named for |
| `LaunchProofs`, `ServingProofs` (with the proxy), `ImagePromptProofs`, `RunnerProofs`, `EngineProofs`, `FusedMoeKernelProofs`, `CoalesceProofs`, `KalibratedProofs` | theorems | see section 4 |

Operators named `X_Something` beside an operator `X` are slips a programmer could
make there: with one in place of `X`, TLC finds a property violated. They show
that each property really depends on the code.

### 2.1 PackConversion and PackCommit

`pc` is the command the one running script is at; the names of `Commands` are the
commands of `convert.sh` and `use_vision.sh` and the writes of the Python tools.
Each command is an action built from a few shapes (`Skip`, `Write`, `Copy`,
`CopyOnce`, `Fail`, `Killed`), because the code is built from a few shapes:
`[ -f dst ] || cp src dst`, `open(f, "w")`, `os.replace`.

* *Disk.* A payload file is its data and its sidecar: `data[p]` becomes "ok" in one
  step because the code writes `.tmp` and renames; `side[p]` may be left "torn"
  because the code writes it in place. A JSON file is "absent", "torn", "text" or
  "vision": that is all its readers tell apart. `NumParts` stands for the expert
  layers and carried groups; one further payload file holds the vision tensors.
* *Kills.* `Crash` is a kill before a command, the second disjunct of `Write` and
  `WriteSide` a kill inside one. A kill loses nothing that `write()` has handed to
  the kernel. `KillPoints`, `MaxCrashes` and `TornWrites` bound the kills.
* *Users.* `RunConvert`, `UseVisionOn`, `UseVisionOff` and `RemoveDraft` are the
  things a user does between runs.
* *set -e.* A command that fails ends the run with "failed" (`Fail`).

`PackCommit` is the promise: payload files are stored one at a time and never
lost; a view is published once, after all it names is stored. `ImplementsCommit`
maps the disk onto it: stored is a whole file with its sidecar; the text view is
published by the manifest, the vision view by the index that names its file.

### 2.2 Launch and HubLaunch

`Launch` adds `start.sh` around `convert.sh`. `Start` tests the two files that
stand for a finished conversion, or calls `convert.sh`; `Convert` lets the
conversion take a step; `Converted` is `|| die`; `Stop` is `stop.sh`, which
removes the old container before the new one is checked; `Serve` is the preflight
and `docker run`. `engine` remembers the pack as it was at `docker run`: weights
are read later, but nothing changes them while `start.sh` runs, and the properties
speak of what the tests let through. With `UseByHand` the user also runs
`convert.sh` and `use_vision.sh` by hand between starts.

`HubLaunch` is the default route, where the pack is served as downloaded: `have` is
the set of files on disk, `hf download` fetches one whole file after the other and
may stop in between.

### 2.3 ServingStack

`at` is the step of `start.sh` or `stop.sh`; one of them runs at a time. Processes
live in a table `proc` over small process ids that count up from 1 and start again
at a reboot; the pid files outlive the reboot. `Fork` and `WritePid` are two steps, as in
the code. `Poll` is one turn of the wait loop with everything that can end it,
the failing pipeline of line 94 included, and `Report` has that of line 99. `Watch` is one turn of ramwatch's loop,
with `Count` and `TooLow` as its arithmetic; `seen` is a history variable (the
samples under the floor since the last one over it), and so is `lost`, the helpers whose start was killed
between `&` and `echo $!`. Docker (`EngineLogs`,
`EngineServes`, `EngineFails` with one restart, `EngineCannotBind` for a port a lost proxy holds), the memory, other processes and
the reboot are external.

### 2.4 BadWordsProxy

Its specification is `ProxySpec`, from `ProxyInit` and `ProxyNext`, so that the theorems about the
serving stack and its proxy can stand in one module. One handler thread per connection, `pc[c]`. `Forward` is everything from the read of the
body to the call of `urlopen`, with `Inject` inside; `Refuse`, `NoAnswer` are the two
ways it fails; `Begin` writes the headers, `Flush` one block, `Terminate` the last
chunk. `ReadReturns`, `AtEnd` and `ReadFails` are what `http.client`'s `read(8192)` does
for each framing and each way of losing the upstream connection: it blocks until
the block is full or the response is over; a response of known length that is
closed early ends like a whole one; a chunked one raises. `Broken`, `Swallowed`
and `WriteFails` are the exceptions by where the code lets them go. The engine
answers one request at a time (`MAX_NUM_SEQS=1`) and may go down; its open
connections then end closed or reset (`Cuts`). A first write to a client that
hung up may still succeed, as TCP has it. A body without `Content-Length` is not
read (`ReadBody`, `After`).

The behaviour of `http.client`, `http.server` and bash was checked by experiment: server-sent events
stay in the proxy until 8192 bytes or the end are there; a truncated response with
a length ends in a regular last chunk; an upstream closed within a chunked response closes the
client's connection and loses the partial block; a reset returns from the handler
without a word; an engine that closes before the headers gets the client a closed
connection and no 502; a 502 closes the connection; and in bash, an assignment
from a pipeline whose `grep` matches nothing exits the script with status 1 under
`set -Eeuo pipefail`.

### 2.5 ImageBlock, PromptPlan, ChatEncoding and ImagePrompt

`ImageBlock` is the arithmetic of `mm_preprocess.py`: `SolveResizeRatio`, the three
lengths of a block (`GridTokens`, `TypesSize`, `BlockLen`), its cell types and the
permutation of the aligner's rows (by a recursion over the places of the body, which drops the ones without a row as `perm[perm >= 0]` does), the pad before it. Where the code computes in
floating point, an operator gives the *set* of results: `Floors` allows the
neighbour below an exact quotient, `Sides` that below an exact root, and `MaybeFlat`, `MaxW` and
`MaxH` the widths and heights that `solve_resize_ratio` finds a little below a whole number (1080 x 520
at a budget of 380 is one; the run has two such sizes). 30000 sizes and budgets, thousands of them exact, gave no
result of the Python function that is not in `SolveResizeRatio`.

`PromptPlan` is one turn of the planner of `dsv4_mm_compat.py`: items with equal
alternatives wait in one queue; the first item with a match gives the turn its mode; the
insertions of that turn are all applied, of the replacements only the earliest. `Sorted` is the
`sort` that ends the turn.

`ChatEncoding` is `encode_messages` with what it calls, down to the order of tokens: an image is its
placeholder, a call and its result are numbered, wording is one token. Its operators keep the names
of the functions (`MergeToolMessages`, `SortToolResults`, `DropThinkingMessages`,
`RenderMessage`). As in the code, a result whose id no call has ranks with the
first call, and new messages are merged alone but sorted by the calls of the context before them.

`ImagePrompt` runs a request through all three: `Load`, `Shrink` (one turn of
`safe_resize`), `Build`, `Plan`, `PlanTurn`, `Splice`. That the images of a chat are
collected in the order of its messages is external (vLLM's chat parser).

The operators of `ChatEncoding` were compared with the Python functions on 400
random conversations, those of `MoeLaunches` on 150 shapes, without a difference.

### 2.6 RunnerBatch

Each of the scheduler's steps is one `Output`: which requests are new, resumed,
cached or finished, with how many tokens and drafts. `Plans` and `After` are the
scheduler as the runner uses it, exactly one step ahead, counting every draft as
accepted. `Execute` is `execute_model` from `_update_states` (`States`, `Rows`,
`Known`, `Correction`) to the inputs (`InputIds`, `GpuComputed`, `DiscardMask`,
`CacheMiss`); `SampleTokens` is sampling, bookkeeping and the proposal of drafts.
A token is the record of whose it is (`Real`, `Draft`, `Zero`, `Unknown`), so that a
row fed with another request's token, an older life's token or a stale draft is seen.
A request id may come back after it was aborted, in the same step. `InputBatch`, outside the repository,
is modelled from the runner's use of it; its `remove_request` also forgets the
request in `prev_req_id_to_index`. The counts are copied to the CPU while the correction of the last step may
or may not have run on the GPU: `CountsRead` is what the copy may give, either count. `Truth` is what the rows' states
should be, computed from the scheduler alone. The lag of `num_tokens_no_spec` is not modelled.

### 2.7 Exl3Config, ExpertRouting, VisionWeights, MoeLaunches and Exl3Runtimes

`Exl3Config` is what `exl3.py` reads before it sees a tensor: the metadata in `config.json`
(`BadMetadata`), the description of the carried FP8 tensors (`BadBase`), the map of bitrates in
a third file (`BadBitrates`, with the overlay's entries that stand for three bits), and what a layer
is refused for when it is built (`Uncreatable`). Each predicate is the conjunction of the checks
that raise. `MadeByMakeConfig` is what `make_config.py` writes at the other end.

`VisionWeights` checks the configuration (`MaybeUpdateConfig`), builds the layers (`CreateWeights`),
and reads a checkpoint tensor by tensor in any file order. The first
pass streams language tensors to the child, whose loader finalizes when its group
ends, and holds the tower back; the second loads what was held back. `Refused`
is every check of the slabs; `ProcessWeights` prepares a layer's slabs by bitrate
(a layer of both bitrates is mixed) or stops the load, after the checks of codebook markers and
shapes (`Validated`). A tensor stands for the three
projections of one expert with their fields; its bits stand for the shape of its
trellis, its mark for the markers beside it. One carried tensor (layer 0) stands for all language
weights that are no expert's: it has a module only where the configuration has their format.

`ExpertRouting` gives a row its experts on each path: `TopkSoftplusSqrt`, the second
selection of `RerouteImageTokens` for image ids, hash layers. One row stands for a batch, as
rows do not depend on each other; a choice is a set, as the kernels break ties as
they like.

`MoeLaunches` is the planner: `CandidateTileFits` with registers and shared memory,
`SelectTile`, `LaunchKey`, `PlannedLaunches` (what a plan compiles in advance) and
`RunLaunch` (what a batch looks up). Scale tables are per expert, the key of the top-k sum does not
depend on the rows, and the packing of routes (`host.py`) is external.

`Exl3Runtimes` puts them together: `ProcessWeights` and the model's hook, then the
phases "profile", "estimate", "capture", "serve", a forward pass visiting the layers in
`Order`. `Layer` finds or plans the runtime of a layer (`RuntimeKey`), picks the path by rows
(decode, prefill, parity) and looks its launch up. While a graph is captured
nothing may be planned or compiled. Whether the estimate of graph memory runs is
left open (`gpu_worker` is external). The draft model's own load is the constant `DraftPlan`.

### 2.8 FusedMoeKernel and KLoop

What `kernel.py` does between the CTAs of a launch. `Waves`, `Iters`, `Slices`, `TailTiles`,
`LockSlot`, `Pieces` are the schedule of `_run_persistent_gemm`, which every CTA computes
for itself: whole tiles in full waves, a tail cut into equal stretches of K, and for each
piece of a tile its slice number, the number of slices and the lock word. `Body` is
`_moe_body`: the stages between two barriers, by the variant of the kernel. A CTA
goes through its pieces, passing over those of experts elsewhere and of the ragged end of the last
wave (`FromLive`): it computes one (`Multiply`), waits for its turn and merges (`TakeTurn`), passes the
turn on or gives the lock word back (`PublishTurn`), stores (`StoreTile`, which in the
decode variant adds to the token's output); a strided stage is one step (`Stride`).
The barrier is one action per access to its two words: `LoadSense`, `Arrive`,
`ResetCount`, `ReleaseSense`, `Pass`. `Launch` starts the next kernel of the stream on the same
workspace, with any content in its buffers.

A cell of a buffer is a unit of the strided stages or a tile; its content is the set of
what was summed into it, or "wrong" when an input was not whole (`Whole`) or a K tile
missing or counted twice (`Plus`). FC1 and FC2 share a cache, as in `run_w4a16_moe`. A CTA stands for
its warps; routes and padding are blocks, some of them of experts
that are not on the rank. The pairing of routes at block 8 and the collection of maxima for
calibration are left out, as is the size of the scratch, which `host.py` (not in the
repository) computes.

Which K tiles `Multiply` really multiplies comes from `KLoop`. `Loop(n)` is what the CTA issues
over n tiles, each at its place in the program: copies into a stage of the ring, ends of groups, waits,
`sync_threads`, loads of fragments (`_prefetch_initial_tiles`, `_prefetch_lookahead_tile`,
`_load_next_fragment_bundle`, `_run_mma_pipeline`). A load finds a tile only if every
order of the warps between two synchronisations and every time of arrival of the copies lets it
(`Finds`): the tile's copy was waited for and the warps met since, and no other copy to that stage may be under
way. The sums the warps exchange after the loop lie over the ring (`sh_red_off = sh_b_off`), hence
`Quiet`. A fragment stands for a step of the inner loop; every tile of the tables has two. The
M8-pair variant of the loop issues the same.

`InOrder` is an assumption on the GPU: what a CTA stored is seen by others before its later
atomics are. Section 5.2 says what holds without it.

### 2.9 Coalesce

A file of the target is the set of slices it was made of, each with the revision it
came from. `Download`, `Carry`, `Submit`, then the pool: `Take`, `Save` (to
`.partial`), `Rename`, `Collect`; `WorkerFails` and `Raise` are the exception of a
future, and `Exit` waits for what was already handed to a worker, which finishes (were it not
to wait, the workers would end with the container, so that no property is about the wait).
`Combined`, `WriteJson`, `CopySidecar`, `WriteManifest`, `Verify` end the boot. `Crash` kills
it anywhere; `ChangeRevision` is an operator who names another revision
over the files of the first (`moved`): sizes and names agree, so files are kept,
and only the properties that speak of one revision are then given up. `ImplementsCommit`
maps it onto the `PackCommit` of section 2.1, with one view.

### 2.10 KalibratedChain

Scripts on two machines, each with a program counter, reading each other's log lines and
files: `build` (setup), `chain` (first and resumed), `conv` with its checkpoint
`ckpt`, `splicer` (the child of the chain and the orphan a killed chain leaves),
`switch`, `pull`, `boot`. The chain's loop has a head, where alone it looks for the
converter, and a body. `told` is whether `chain.log` has a line that the puller
takes for an end; `SwitchTells` is whether the operator's `switch.sh` writes into
that log. A faulty pull leaves "bad", a file with the right size and a
wrong content. The puller can be killed at every line (`PullKilled`) and started
again; `unchecked` is a history variable, the files whose puller was killed
between the copy and the checksum (`pull_aplus.sh:17-19`). Assumptions: the converter swaps checkpoints atomically
and `splice_qt.py` writes the file before its sidecar and refuses a truncated layer, and of two splices of
one layer the last to end leaves it whole (all external); a process
told to stop is gone before the next poll of its killer ends (`BeingStopped`); an ssh
that fails reads as "not there yet"; the download line works like the build line.

---

## 3. The runs

Eleven runs pass; one shows that the code does not do what a text of the repository
says. Section 5.2 has further disagreements that can be reproduced by a change of
constants.

| Run | Question | Size |
|---|---|---|
| `launch_kills` | what do the files on disk always mean, whatever is killed and run again by hand; what is the engine never started on | 2 parts, 3 kills anywhere, torn writes, every script by hand |
| `launch_resume` | does `start.sh`, run again after a kill in steps 1-3, finish and serve the whole vision view | 2 parts, 2 kills |
| `serving_stack` | do helpers, pid files and container stay in step | 2 starts with any options, killed anywhere, stops by hand, 1 failure or reboot, 1 foreign process |
| `proxy_bodies` | what reaches the engine, and what does a 502 mean | 1 client, 10 kinds of request, 2 requests, both framings and cuts, 3 events |
| `proxy_relay` | does every request end, does a stream that looks whole be whole, is the slot freed | 2 clients, 1 request each, 2 events, 1 failure of the engine |
| `image_prompt` | does every image land, whole and aligned, where it was said | the repository's limits; 121 sizes at 2 ratios; 6 prompts with 25 pairs of sizes; chats of 1 to 3 turns |
| `runner_batch` | is every step fed the tokens of its requests at their positions | 2 requests, 3 submissions or preemptions, 2 drafts a step, 1 image |
| `engine_load` | does an engine come up on a good checkpoint only, plan before it captures, and share no scratch | 3 target layers, a draft, 8 checkpoints, 29 configurations, 13 environments |
| `kernel_launches` | do the CTAs of a launch agree on who computes what and when, and leave the workspace as they found it | 3 CTAs, 6 plans, 3 launches in any order of plans |
| `coalesce_boot` | what does the manifest mean, and does the container end up serving | 2 ranks, 3 families, 2 workers, 2 revisions, 2 kills, 1 failing worker |
| `kalibrated_run` | is what is booted whole, are splices behind the converter, do the scripts end | 4 layers, 2 promoted, 1 failure, 2 runs of the puller, the first killed anywhere |
| `hub_present_but_partial` | violation: section 5.1 | 3 shards, 2 interrupts |

What the properties say:

* `launch_kills`: `MarkersFollowPayload` (the manifest and the indexes are never
  ahead of the payload; the vision index, which `convert.sh:44` tests and copies
  before the tensors exist, is ahead of the vision view only while lines 45 to 47
  run or after a kill there, which the history variable `cut` records),
  `TextCopiesStayText` (`use_vision.sh off` always has
  something to go back to), `SuccessLeavesOneView` (the live files are one set of
  copies; they are one view where readable and `~cut`: after a kill at 45 to 47 the
  vision copies are themselves a mixture, and a success leaves it, section 5.2),
  `EngineStartsSound` (what the
  preflight guarantees), `ImplementsCommit` (the refinement).
* `launch_resume`: `EngineHasWholePack`, and the liveness property
  `StartReachesServing`.
* `serving_stack`: `StopLeavesNothing` (after `stop.sh` the only helpers that can run are
  `lost` ones), `DipNeverKills`, `ReadyProxyIsOurs` (with the same exception),
  `LowMemoryEndsEngine`, `StartEnds` (the scripts end; a wait whose log has a line to show
  ends at the report, on a container that is gone, or by a kill. A wait without such a
  line is aborted by line 94 while the engine loads: `WaitEndsInVerdict`, section 5.2).
* `proxy_bodies`: `Masked`, `OthersVerbatim`, `RefusedNeverRan`. `proxy_relay`:
  `CompleteIsWhole`, `EveryRequestEnds`, `HangUpFreesEngine`.
* `image_prompt`: `BlockInv` (the lengths agree, every row of the aligner is used
  once, the block fits its budget, no group of the compressor mixes image and text),
  `PromptIsExpanded` (each item written once, in order, nothing else changed),
  `ChatInv` (results follow calls, turns close, contexts are prefixes, and by
  `EachPlaceholderItsImage` an image is shown where it was said), `ResizeEnds`.
* `runner_batch`: `BatchInv` (rows, states and scheduler agree on requests, outputs, blocks),
  `InputsInv` (tokens, positions, corrected counts and discarded samples are the
  true ones, and by `NothingRaised` no encoder output is missed and no row without a request).
* `engine_load`: `LoadInv` (what is finalized is whole, only towers are held back, a
  served model has every expert in its codebook, prepared at the bitrate the pack declares), `RuntimesInv` (two runtimes have no
  arena in common, a batch fits the one it runs in, target and draft never share, and the
  measured pass runs on launches its plan compiled),
  `RoutingInv` (an image id is routed by `bias_vl` on every path, and the paths agree),
  `SteadyAfterProfile` (nothing is planned later), `ComesUp`.
* `kernel_launches`: `PhasesApart` (no CTA is in a stage before all others have finished
  the one before), `LaunchComputes` (a launch that ended has in every tile of an expert that is
  here the sum of all its K tiles, each once, of whole inputs; lock words and counter are 0
  again; a turn is one CTA's), `EveryLaunchEnds`.
* `coalesce_boot`: `ManifestIsTrue`, `NeverRedone` (a family that is there is neither computed
  nor written over), `EndsServing`, `ImplementsCommit`.
* `kalibrated_run`: `BootOnWhole` (what is booted is whole, but for the files of `unchecked`), `SpliceBehind`, `BoundedLoss` (the resumed converter
  starts at or after the place of the stopped one), `SparkSettles` (puller and watchdog come to rest).

### 3.1 Bounds, and why they are enough

* `NumParts = 2`. The converter's loop treats every part alike and reads only the part
  it is at; two parts have a first, a last and a step from one to the next. The
  theorems of section 4 hold for every number.
* `VERIFY=0` in `launch_kills`, so that success there does not lean on the last
  check of `convert.sh`; `VERIFY=1`, the default, in `launch_resume`.
* Kills: three in `launch_kills`. Each marker is read by a later run, so two kills
  already give a run that reads what a killed run left, and is killed itself; the
  third leaves such a pair for one more rerun. The proofs have no bound.
* `serving_stack`: two starts are needed for anything that survives from one start
  to the next; one failure or reboot and one foreign process
  are the least that reuses a pid. The samples of ramwatch are not bounded: its
  counter goes back to 0 or ends the process at 3.
* Proxy: `Block = 2` and two or three events have a full block, a partial block and
  a block with one event over. One client has no rival for the engine's slot, two
  have; a third would wait as the second does. Two requests
  are needed to see what a kept connection carries over (`proxy_bodies`).
* Image: the constants are the repository's own (patch 14, downsample 3, 384
  tokens, 147456 pixels), with sizes around every boundary of the
  arithmetic. Two images have an order; six prompts have fewer, as many and more
  placeholders than images. `ChatsAllowed` says which chats are meant (section 4), and
  `MCImage` asserts it of those of the run. There are chats of more than three turns in the theorem only.
* Runner: two requests change places in the batch; `MaxLen = 5` gives a prompt of
  2, a full step of drafts after it and a step that starts from partly accepted drafts;
  three events allow "submit, preempt, resubmit". A step may change the state of one
  request (`Planned`) beside those that just run. The requests are
  interchangeable, hence the symmetry; no liveness is checked there.
* Engine: three layers have the two bitrates and the mixed case; the draft has the
  plan of the first, so that only the key can keep their scratch apart. `ExactUpTo
  = 2` stands for 32. The rows 1..4 lie on both sides of every window of the thirteen
  environments. Shape, SM count and shared memory are the real ones (4096, 2048, top-6;
  48 SMs, 101376 bytes). Each of `Refusals` differs from a good configuration in one field, so that
  it is one check that stops it; `Orphans` pass every check of the configuration and leave a tensor without
  a module. `Uniform` and `Overlaid` are the two other ways a pack may give its bitrates.
* Kernel: three CTAs are the least among which a tile has a first, a middle and a last slice.
  The six plans have tails smaller and larger than the grid, a full wave before a tail, a CTA that
  ends one tile and begins the next, and each variant of `Body` that this model's kernels
  use. Three launches put every plan between every other two. What three CTAs cannot show of the
  schedule is swept: `SchedulesConsistent` evaluates `Consistent` (the pieces of a tile cut it
  whole, take every turn once, the end of K first, and
  meet at one lock word that no other tile uses) for 1-14 tiles of 1-7 K tiles on up to 12 CTAs.
  One plan has K loops of 9 and 6 tiles, which go round the ring of four; `KLoopWhole` sweeps 1-12.
* Coalesce: three families over two workers have one that waits. Two kills: a boot
  that reads what a killed boot left, and is killed itself.
* Kalibrated: four layers with two promoted ones that have a layer before, between and behind
  the resume point; one failing step anywhere; two runs of the puller, as what the first
  left when it gave up, ended or was killed is what the second finds. The last run is not
  killed: nothing comes after it.

Runs that are narrower than the code, because the wider run is violated:
`launch_resume` (kills in steps 1-3 and whole writes), `proxy_relay` (chunked
responses, closed and not reset), `kalibrated_run` (`SwitchTells`), `kernel_launches` (`InOrder`),
`image_prompt` (`ChatsAllowed`: no chat in which results come in another order than their calls and a turn shows
an image, no context that a developer ends, no two answers in a row). Section 5.2 says what happens outside.

Deadlock is checked except in `coalesce_boot`, where serving goes on for ever once
the kills are used up, `kalibrated_run`, where every script comes to its end, and
`kernel_launches`, where the launches do: there a CTA that is stuck violates `EveryLaunchEnds`.
`Rest` in `BadWordsProxy` and `ImagePrompt` is the state in which everything of the
bound was done.

### 3.2 Fairness, and why the code justifies it

* `Launch`: weak fairness of the running script and of `start.sh` (a process that is not
  blocked is scheduled; no command of theirs waits for another), strong fairness
  of `Again`: the user starts again as long as no engine runs. That is the
  premise of "run it again", and kills are bounded.
* `ServingStack`: weak fairness of the script, of ramwatch's loop, and of an engine's load
  (a load that is not failed ends). No fairness of failures, memory, users.
* `BadWordsProxy`: weak fairness of every handler thread. `ProxySpec` adds the engine:
  it emits and finishes what it admitted, and admits a queued request if its slot
  is free again and again (vLLM's queue is first come, first served). No fairness for
  clients. `StreamSpec` leaves the engine's out, for the property that speaks of pauses.
* `ImagePrompt`, `Exl3Runtimes`: weak fairness of the whole, a function call and a process that
  goes on by itself.
* `Coalesce`: weak fairness of the boot's work; a stopped container is started
  again (`--restart on-failure`, or the operator). None of kills, failures or a
  moved revision.
* `KalibratedChain`: weak fairness of each script. None for the operator's switch and pull, nor
  for a converter that dies.
* `FusedMoeKernel`: weak fairness of every CTA. The launch is cooperative (`kernel.py:5847-5852`), so
  all its CTAs are resident and go on whatever the others do. None for the next launch.
* `RunnerBatch`: none.

---

## 4. The proofs

All for every value of the constants that the named assumptions allow (types, and
numbers that are not zero). Some theorems assume more, in their own statement or as the hypothesis
given in the table: the kills or the framing they exclude, for `RuntimesAreSafe` the shape
and GPU that choose the pinned tiles, for the three of `ImagePromptProofs` the size of the budget and,
for the last of them, chats in which `ChatsAllowed` holds.

| Theorem | Says |
|---|---|
| `LaunchProofs!TypeCorrect` | `Spec => []TypeOK` |
| `!CommitRecord` | `Spec => []ManifestIsCommitRecord` |
| `!NoDanglingIndex` | `Spec => []IndexNeverDangles` |
| `!ImplementsPackCommit` | `Spec => ImplementsCommit`: the refinement of `PackCommit` |
| `!TextCopiesAreSafe` | `Spec => []TextCopiesStayText` |
| `!ManifestAfterIndex` | `Spec => []ManifestFollowsIndex` |
| `!MarkersAreTrue` | `Spec => []MarkersFollowPayload` |
| `!SuccessIsOneView` | `Spec => []SuccessLeavesOneView` |
| `!LaunchImplementsConversion` | `LSpec => Spec`: all of the above under `start.sh` |
| `!StartedOnTextPayload`, `!StartedOnVisionConfig`, `!StartedSound` | `LSpec => []EngineStartsSound` and its parts |
| `!StartedOnWholePack` | with `UseByHand = FALSE` and no kill at `on_index`: `LSpec => []EngineHasWholePack` |
| `ServingProofs!TypeCorrect` | `Spec => []TypeOK` |
| `!NothingIsLeft` | `Spec => StopLeavesNothing` |
| `!DipsAreSpared` | `Spec => DipNeverKills` |
| `!ReadyIsOurs` | `Spec => ReadyProxyIsOurs` |
| `!WatcherStays` | `Spec => []EngineIsWatched` |
| `!ProxyTypeCorrect` | `ProxySpec => []ProxyTypeOK` |
| `!EngineSeesMask` | `ProxySpec => []Masked` |
| `!RestIsUntouched` | `ProxySpec => []OthersVerbatim` |
| `!RefusalIsSafeToRetry` | `ProxySpec => []RefusedNeverRan` |
| `!NoTruncatedEnd` | with `Framings = {"chunked"}`: `ProxySpec => []CompleteIsWhole` |
| `ImagePromptProofs!BlocksLieWell` | with `SizesAllowed`: `Spec => []BlockInv` |
| `!PromptsAreExpanded` | with `SizesAllowed`: `Spec => []PromptIsExpanded` |
| `!ChatsAreTrue` | with `SizesAllowed` and `ChatsAllowed`: `Spec => []ChatInv` |
| `EngineProofs!MadeIsAccepted` | `MadeByMakeConfig(c, ...) => ~Misconfigured(c) /\ ~Uncreatable(c, n)` |
| `!LoadsWhole` | `Spec => []LoadInv` |
| `!ServesWhole`, `!OnlyTowerWaits` | its two parts, `ServesWholeModel` and `HeldBackIsTower` |
| `!FinalizesWhole` | `Spec => FinalizedWhole` |
| `!ScratchIsApart`, `!ScratchHoldsRows` | `Spec => []ArenasApart`, `Spec => []ArenaFits` |
| `!ProfiledIsSteady` | `Spec => SteadyAfterProfile` |
| `!RoutesByKind` | `Spec => []RoutingInv` |
| `!RuntimesAreSafe` | with `PinnedIsChosen`: `Spec => []RuntimesInv` |
| `RunnerProofs!RunnerIsSafe` | `Spec => []RunnerInv`, the inductive invariant |
| `!BatchIsTheScheduler` | `Spec => []BatchInv` |
| `!InputsAreTrue` | `Spec => []InputsInv` |
| `FusedMoeKernelProofs!BarrierSeparates` | `Spec => []PhasesApart` |
| `!SchedulesAreConsistent` | `\A p \in Plans, w \in Gemms : Consistent(p, w)` |
| `!LoopMultiplies` | `Multiplied(n) = 0 .. n - 1` for every number `n` of K tiles |
| `!LaunchesCompute` | with `InOrder`: `Spec => []LaunchComputes` |
| `CoalesceProofs!TypeCorrect` | `Spec => []TypeOK` |
| `!ManifestIsCommit`, `!ManifestStaysTrue`, `!PackIsOneRevision` | the parts of `ManifestIsTrue` |
| `!ManifestTellsTrue` | `Spec => []ManifestIsTrue` |
| `!ReusedFamiliesStay` | `Spec => NeverRedone` |
| `!CoalesceImplementsCommit` | `Spec => ImplementsCommit` |
| `KalibratedProofs!InvariantsHold`, `!TypeCorrect` | the inductive invariant and its types |
| `!BootIsOnWhole` | `Spec => []BootOnWhole` |
| `!SplicesStayBehind` | `Spec => []SpliceBehind` |
| `!SwitchRedoesNothing` | `Spec => BoundedLoss` |

**The conversion** (`IndInv`). `ManifestIsCommitRecord` alone is not inductive: the
step that writes the manifest knows nothing of the files. `StepOneOrder` says what
step 1 has written before each of its commands, and that the manifest is absent
there; `SidecarAfterData` makes the pair a file with its sidecar; `StepFourOrder`
says that while the vision tensors are added the vision index is still the text
one, with no sidecar of the vision file beside a missing index, so that extending it publishes a stored
file; `CopiesFollowOriginals` carries the facts through `use_vision.sh`. The
refinement maps the last write of a sidecar to `Store`, the write of the manifest
and of the vision index to `Publish`, everything else to a stutter
(`QuietStutters`); `StepImplementsCommit` has one case per command.

**The views** (`ViewInv`). To see that the text copies stay text one has to know
that they are already there whenever a live file is in the vision view
(`VisionAfterText`), since `CopyOnce` is then a skip; `SwitchOrder` says what
`use_vision.sh` has switched before each copy, which gives one set of copies at the
end. That the set is of one view takes `VisionMarkerIsTrue`, whose induction needs that
the copies of step 4 are there before they are read (`CopiesBeforeTensors`): only a kill or
a torn copy ends lines 45 to 47 early.

**The launch** (`EngineInv`). Every step of `LNext` is a step of `Next` or leaves
`vars` alone; the engine is started on a pack with a manifest, and `IndInv` says
what a manifest is worth. That it is started on the whole vision view, with the draft of the text
view, takes `WholeInv`: `start.sh` runs `convert.sh` only while the manifest or the draft is missing, so the
draft, made once the manifest is there, is what a later launch goes by (`OncePastDraft`), and a vision
config is the live one only with the vision index live too or about to be (`IndexBeforeConfig`). A kill at
the copy of the index is the one between those two, and `use_vision.sh` run by hand undoes both:
the theorem excludes them, and the runs show what then happens.

**The serving stack** (`Inv`). `Recorded`: a helper that runs is the one its pid
file names, or was forked a moment ago. It is not inductive without
`RoomForHelpers` (`stop.sh` has emptied the pid files that `start.sh` goes on to write,
else a second helper would hide the first), nor that without `IdsLeft` (a fresh
pid is nobody's). `WatchedSinceFork` and `CountsSeen` carry the watcher and its
counter. A start may be killed anywhere: a helper that no pid file names is then in `lost`.

**The proxy** (`ProxyInv`). `UpstreamOfRequest`: outside of a request the upstream connection
is closed and a request not yet forwarded has not reached the engine, which is what makes
a 502 safe; `EventsFlow`: received ≤ relayed ≤ written ≤ total, equal at the ends;
`ViewOfHandler` ties what the client sees to where its handler is. Lemmas on
`Inject` and `Outgoing` carry `Masked` and `OthersVerbatim`. `CompleteIsWhole`
holds only for chunked responses, and the theorem's assumption says so.

**Images and prompts** (`PromptInv`). `BlocksLieWell` and `PromptsAreExpanded` hold for images of any size, any number of them,
and prompts of any length. Most of the work is in lemmas about the operators. `ResizeFits`: for a budget `m >= 6`,
whatever `solve_resize_ratio` returns in floating point has rows and columns and takes at most `m + 2` tokens; it rests on
products of the sizes (`WidthKeepsHeight`, `HeightFits` and their like) which the prover does not find by
itself. Since a budget is one less than the last, and an image that still has too many tokens had a budget of `Limit - 2` at
least, the loop ends after three turns at most, above the sizes its assertion refuses: this is `SizesInv`. It needs
`SizesAllowed`, a cell of three patches or more on a side and `vision_max_n_token >= 11`; the configuration has 3 and 384.
`BlockLengths` and `BlockAligns` are the equal lengths and the alignment of a block of any size, behind any text.
`PermIsWhole` says that the permutation takes each row of the aligner once: a slot and its place in the body determine each
other (`SlotOfPlace`, `PlaceOfSlot`). `TurnOfImages` is a turn of the planner when every item is an image: the next
image at the next placeholder, or nothing. `PlanInv` collects the turns, `SpliceInv` says that what is written so far is the
expanded prompt up to the last update, and that each range still holds its block; what lies between two updates has no placeholder
(`ExpandedText`), what lies behind the last has none that an image is left for. `RequestAssumption` gives requests their types, and TLC
evaluates it for those of the run. The recursions of `Perm` and `Expanded` are followed by
induction over their length, by way of the least place where they would fail (`InductionTo`).

**What the prompt says** (`ChatsAreTrue`). `ChatInv` is about one call of a function, so the induction is not over steps but over
messages, and again goes through `InductionTo`: `FlatTo` and `MergeTo` are the partial results of `FlattenSeq` and of the merging, and what
holds of each of them holds of the last. The argument follows `encode_messages` from call to call.

1. *Merging.* `Spot` and `BlockOf` say in which merged message, and as which of its blocks, message `i` ends up.
   Spots do not go down, messages of one spot follow each other (`SpotsGrow`, `ResultsTogether`), and no other
   message has that block (`MergedAre`).
2. *Sorting.* The last calls before a spot are those before the message it came from, also across the border of the context,
   although there `context + messages` mixes messages that are merged with some that are not (`CallsAtSpot`,
   `CallsOfContext`). The sort is stable and keeps every block: `SortSlot` is where a block goes (`SortKeeps`), which takes the
   counting of ranks in a finite order (`RanksAreAll`).
3. *The context.* Context and messages merged apart are the two merged together, unless one ends and the other begins with a user or
   a tool (`MergeApart`, `WholeAgrees`).
4. *Dropping.* What is rendered is what was there with some developers left out (`Thinned`, `DropThins`), and
   the first message rendered is the first behind the context (`FullIsThinned`): this is the count of `deepseek_v4_encoding.py:555`,
   which is right only for contexts in which the last word is not a developer's.
5. *Rendering.* The prompt shows its pieces in order, each once, with only special tokens between (`Shows`, `PromptShows`); hence
   every word of the chat has its place (`PieceAt`, `MessagesAreSaid`).

The four parts of `ChatInv` follow. Results of a turn are blocks of one message, sorted by their calls (`ResultsAreSaidInOrder`). The
prompt behind a context is an end of the prompt of both (`PromptIsSuffix`), since rendering a message needs only the one before, the one
after and the last user. For turns, `MarksOf` is the list of marks a message leaves; two that follow each other in the prompt
are neighbours in one list, or the last and the first of two with none between (`MarksAreNext`), and `AnswerFits` and `TurnsFollow`
go through the cases. Images keep their order from the messages to the prompt (`PlaceholdersGrow`), so that the `k`-th placeholder
is that of image `k`, which is where the planner puts it.

What is assumed of a chat is `ChatsAllowed`, and each conjunct is used:

| Hypothesis | Needed by | Without it |
|---|---|---|
| `WordsAreWords`: no text contains a special token | `ResultsFollowCalls`, `TurnsClose` | a text may open and close turns as it likes |
| `ResultsTell`: a result begins with a word no other message has | `ResultsFollowCalls` | the property could not tell two equal results apart |
| `DevelopersAreAnswered`: no developer has the last word of a context | all four parts, by way of `FullIsThinned` | the first message behind the context may not be rendered (section 5.2) |
| `TurnsAlternate`: of the messages rendered, one asks and one answers | `TurnsClose` | two answers in a row: the second ends a turn that nobody opened |
| `ImagesComeInOrder`: results of a turn with images come in the order of the calls | `EachPlaceholderItsImage` | the images change places (`AnswersCross`) |

`TurnsAlternate` speaks of the messages after merging and dropping, as the code does: dropping may take a developer from between two
assistants, and no condition on the chat as it was sent is as simple and says as much.

**The engine** (`LoadingInv`, `RunInv`). `ServesWholeModel` speaks of an engine that is up; each phase
of the load has to carry what it knows to the next. `StreamInv` says that what was delivered is
exactly the language part of what was read, so that at the end of the stream it is the whole, the only
moment the child finalizes (`FinalizesWhole`). A prepared layer had all its experts (`PreparedWhole`), from
the bitrates it was built with, and `BitratesAreDeclared` leads those back to the pack through
every check of `Exl3Config`. An expert's payload is a witness that its layer is EXL3's, else the loader would
have refused it (`Placed`): this is how the wrong range of layers in the metadata is noticed.
For the runtimes, `CacheInv` ties a runtime to its key, of which `ArenasApart` is a consequence, and `KernelFits`
the rows of a batch to the arena of its path. `SteadyAfterProfile` needs `ProfileInv`: what one eager pass
at the largest batch did not refuse leaves the windows of every smaller batch without a gap
(`ProfiledRefusesNone`). `LaunchInv` adds to it that what was compiled in the profile is just what the plans listed, and
that each of those plans compiles. `ProfileCompilesNothing` then says that the launches of the largest batch
are among the planned ones although plan and launch compute their keys from different numbers of rows: under
`PinnedIsChosen` the shared memory leaves room for one block per multiprocessor with each of the three
large tiles (`OneBlock`), so that the pinned tile, first in the list, is chosen whatever the rows (`FirstTileTaken`).
For a shape that does not take the pinned tiles this is not proved; the run checks the real one.
`RoutingInv` follows the kernel slot by slot (`IsTaken`): of the experts left one is beaten by none
(`LowestBestIsThere`), each slot takes a new one, and what was taken scores no less than what was left, with
a sentinel score below every real one for the experts of the other kind.
The assumptions are those a TLC run evaluates: experts are numbered from 1, and
metadata the engine accepts name at least one of its layers.

**The batch** (`RunnerInv`). `BatchInv` says nothing of the GPU and `InputsInv` only of the step
launched, while what a step is fed comes from the step before: sampled tokens and drafts that never left the
GPU, found again through `prev_req_id_to_index`, and counts corrected after the launch. `AtRest` says for
each request what the GPU holds in the row `prevIndex` gives (`OnGpu`) and that a request without such a row has
nothing outstanding (`NotOnGpu`): its tokens are known to the CPU and the scheduler counts no draft of it. The
scheduler runs ahead by the drafts it takes as accepted (`got`, `rej`); `OnGpu` relates its count to the GPU's and
the runner's. `InFlight` says the same of the step launched and not yet sampled. The proof goes through
`Execute` in the code's order: the plan (`PlanIsAsked`), the requests and rows after it, the
corrected counts under either order of the copy and the correction, the tokens gathered for every position. Requests, images,
`NumSpec`, prompts and the length of the schedule are arbitrary. The offsets of the rows are partial
sums (`Ends`), defined by recursion; what is needed of them is shown from the least place where it fails (`SmallestOfSet`), in place
of an induction theorem.

**The kernel** (`BarrierInv`). `PhasesApart` says nothing of the counter. By `CountIsArrived` it
is the number of CTAs that wait with the present sense, unless one of them is closing the
barrier; by `CloserIsLast` all others wait while it does, so that nobody arrives between
the reset and the release; `SenseIsFresh` says that the barrier cannot open
between a CTA's look at the sense and its arrival. `OneRound` counts a CTA that has not yet noticed the open barrier as
past it, and is what is left of the stages. Launches of other grids follow on the same words,
which is why the invariant speaks of every plan. That part is about control and does not need `InOrder`.

`LaunchComputes` is proved on top of it (`KernelInv`). `StageInv` says that what a CTA has left of a stage is an end
of its pieces that begins with a live one. A slice is then done, at one of its places, or neither (`IsDone`,
`IsAt`), and every step does one slice at most (`AdvancesOne`, `ComesAlong`). `TurnInv`: the slices of a tile take
their turns in order, and a lock word is not zero exactly while a slice is due that has not passed its turn on (`LockIsDue`), so
that all of them are zero when a launch ends and the next one may reuse them. `SumInv`: the scratch row holds the sum up to the
last slice that took its turn (`SumTo`), and the accumulators theirs. `MemInv` says what the stages that are done
for a CTA have left in the buffers: FC1's tiles count while no CTA is past the activation, since later stages
overwrite them (`Fc1Stored`), and an output of the decode variant is the sum of the tiles stored so far (`Summed`).
`InputsMade` draws from it what a stage reads.

It rests on two facts of arithmetic, which TLC evaluates for bounded sizes (the `ASSUME`s of `MCKernel`) and which are
proved for all. `SchedulesAreConsistent`: CTA `c` meets tile `j` of the tail just when it lies between `FirstCTA` and
`LastCTA` of that tile (`MeetsIs`); `SliceIs` gives what it then computes in closed form, so that the slices of a tile tell
its K tiles apart (`EachKIsOnce`), and the lock word is the tile's own number or that of its last CTA, which is the last of
no other tile (`LastIsOfOne`). `LoopMultiplies`: the places of copies, marks and loads in what the loop issues are
known (`LoopIs`, `CopiesOf`, `MarksOf`, `LoadsOf`), so that the copy of a K tile has settled when its load comes
(`CopySettles`) and the next copy into that stage comes after it (`LoadFinds`). `InOrder` is left as a hypothesis.

**Coalescing** (`IndInv`). `PoolInItsPhases`: no job is in a worker's hands outside of
the two phases of the pool, which is why nothing changes
under `WriteJson` and after it; `WrittenBefore` says what each phase has behind it;
`ManifestIsLast`, `AllRanks` and `SlicesAreRevision` are then what a manifest stands for;
`ComputesMissing` is what `NeverRedone` rests on. The
refinement maps a file's arrival under its final name to `Store`, the manifest to `Publish`.

**The Kalibrated chain** (`PodInv`, `PullInv`). On the pod: a spliced file is behind the
place of a converter that runs or will be resumed (`SplicesBehind`), which survives the
switch because the chain is stopped at a checkpoint it really wrote (`StoppedAtCheckpoint`).
On the Spark: a file of the right size that is bad is still to be compared, or its
`MISMATCH` is in the log, or its sidecar is missing, or its puller was killed before it compared
it (`BadIsRemembered`); a run fetches again what has no sidecar (`FetchesMissing`); so a log whose runs are clean names whole files but for those (`CleanRunIsWhole`),
and the boot reads just that (`BootReadClean`).

**Only model-checked.** Liveness under fairness (`StartReachesServing`, `StartEnds`,
`LowMemoryEndsEngine`, `EveryRequestEnds`, `HangUpFreesEngine`, `ResizeEnds`,
`ComesUp`, `EveryLaunchEnds`, `EndsServing`, `SparkSettles`) is out of the prover's reach. Every invariant and every action
property that a passing run checks is stated by a theorem; that the code gives a slot, a thread or a container back in the end is not.

---

## 5. What was found

### 5.1 A disagreement with a text of the repository

| Run | What happens |
|---|---|
| `hub_present_but_partial` | the two small files `start.sh:46` tests may be there long before the shards; an interrupted download is served as it is. |

### 5.2 What the runs leave out

Each of these can be reproduced by naming the property in the .cfg and changing the
constants given; the properties are in the modules.

| Property | In | With | What happens |
|---|---|---|---|
| `StartReachesServing` | `Launch_resume` | `TornWrites = TRUE` | a half-written sidecar is parsed by every rerun, which raises |
| `StartReachesServing` | `Launch_resume` | `KillPoints <- StepFour` | `start.sh` takes the conversion for finished, and `serve.sh` refuses the text config, at every further start. `convert.sh` by hand does not mend it if the kill came between the vision file and its index |
| `SuccessIsVision` | `Launch_resume` | `KillPoints <- StepFour`, `MaxCrashes = 1`, `UseByHand = TRUE` | `convert.sh:44` makes the copy that marks the tensors as added before it adds them; the rerun skips them, passes `verify_tp1.py` and exits 0, with a vision config over a text index and manifest: the case `cut` takes out of `VisionMarkerIsTrue` and `OneView` |
| `EngineHasWholePack` | `Launch_resume` | `KillPoints <- StepFive` | killed inside `use_vision.sh on`, the next start serves a vision config over a text index |
| `StopLeavesNothing`, `ReadyProxyIsOurs` with `lost` taken out of the formulas | `Serving_stack` | as it is | a helper whose pid was never written is found by no later `stop.sh`; a lost proxy holds PORT, and the next start with a proxy of its own reports ready on it |
| `WaitEndsInVerdict` | `Serving_stack` | as it is | the first turn of the wait loop that finds no matching log line ends `start.sh` with status 1 and no message (`start.sh:94`), against "cold load ~2 min; the FIRST boot also compiles ~10 min" (line 89); a log without the two lines of line 99 ends it the same way after "ready" |
| `StopSparesOthers` | `Serving_stack` | as it is | pid files outlive a reboot; `stop.sh` kills whatever has the pid now |
| `CompleteIsWhole` | `Proxy_relay` | `Framings = {"chunked", "length"}` | a truncated response of known length ends like a whole one |
| `EveryRequestEnds` | `Proxy_relay` | `Cuts = {"fin", "rst"}` | a reset of the engine's connection is caught as the client's (`badwords_proxy.py:80`): no last chunk, and the client waits |
| `TokenByToken` | `Proxy_relay` | `StreamSpec`, `Requests <- JustPlain` | `read(8192)` holds an event until the block is full (`badwords_proxy.py:74`), against "still arrive token by token" |
| `EachPlaceholderItsImage` | `Image_prompt` | `Requests <- AnswersCross` | results of two tool calls that arrive in the other order are sorted by call (`deepseek_v4_encoding.py:484`), the placeholders in their text with them, and the images are not: each result gets the other's image, against the comment at :200-202, "matched to the placeholders by order" |
| `DummyIsLargest` | `Image_prompt` | as it is | an image of another shape gives the vision tower more patches than the one its memory is profiled with |
| `EveryShapeServed` | `Engine_load` | as it is | without prefill runtimes, batches over `maxM` have no path and the engine refuses them while it starts |
| `RunsPlannedLaunch` | `Engine_load` | as it is | see below |
| `LaunchComputes` | `Kernel_launches` | `InOrder = FALSE` | a CTA may read a cell before another's store of it arrives, see below |
| `BootAlwaysWhole` (`BootOnWhole` without `unchecked`) | `Kalibrated_run` | as it is | the puller is killed between its `rsync` of a file that is being spliced again (`pull_aplus.sh:17`) and the checksum (line 19): the log has no `MISMATCH`, the next run takes the file by its size (line 11) and says it is done, and `boot_aplus.sh` boots it |
| `WaitsForTheBuild` | `Kalibrated_run` | as it is | the chain reads "exit 0" of the build before the import check's line follows, and fails on it (`chain_aplus.sh:24`, `setup.sh:15`) |
| `PullerSettles` | `Kalibrated_run` | `SwitchTells = FALSE` | nobody writes the line the puller waits for |

`RunsPlannedLaunch`: a decode plan compiles its launches with the tiles (64, 256) that
`exl3.py:1604` pins, but the bound pass gives no launch, and the batch chooses
(128, 128) at route block 8: the launches compiled in advance are never run and the
first use of each batch size compiles another, in the eager warm-up. That is at odds with `fused_moe/_impl.py`
lines 6580-6583 and 6265-6271. Prefill at block 64 agrees; blocks 16 and 32 choose (64, 128). `ProfileCompilesNothing` holds
all the same, as the profile pass runs at the prefill's size.

`InOrder`: the comment at `kernel.py:6061-6062` has the grid barrier make "all zero stores globally visible
before the first FC2 atomic". The arrival is `atom.global.add.s32` without a fence
(`intrinsics.py:1479`), a relaxed operation for PTX; only the last CTA fences (`threadfence`, and the
release of the sense), which orders its own stores and what it has observed. The stores of the other CTAs
are ordered before the barrier opens by the machine, not by the code: a fence before the arrival would do.
Between the slices of a tile the code does release and acquire.

Further observations, from the same reading:

* A draft removed after a finished conversion is rebuilt from the live index, which is
  then the vision view (`draft = "vision"`), against `docs/CONVERSION.md:45`.
* `convert.sh` run again by hand and killed after step 2 leaves the text config
  live: `start.sh` is refused until `use_vision.sh on`.
* `docker kill` by ramwatch counts as a stop by the user: `on-failure` does not
  restart the container, which is what ramwatch wants.
* `VLLM_EXL3_TRELLIS_BLOCK_M=16` cannot start on this shape: no register count was
  measured for its tiles. Without warm-ups before capture, the first capture of a size compiles
  and fails (`w4a16/kernel.py:8672`); with them it does not.
* The parity path passes the bitrates 3, 3, 3 to `exl3_moe`
  (`exl3.py`, around 2380-2410): with `VLLM_EXL3_TRELLIS_MIN_M` above 1 it would decode 2-bit
  slabs as 3-bit ones. The error text at `exl3.py:1657` still says K3-K6.
* Missing vision tensors are not noticed by the loader of this repository.
* The chat encoding: a message whose content is a list is never flattened
  (`flatten_content_blocks` has no caller); a task of a user message that is merged into preceding
  results is lost; a developer's message with an image, before the last user, is dropped while its
  image stays; a developer at the end of a context is counted and then dropped,
  so that `DevelopersAreAnswered` excludes it; in thinking mode, a developer dropped from between two answers leaves them in a row, the second with
  no turn opened before it, which `TurnsAlternate` excludes; merging also drops the tools of a user's message and the task of a tool's. `README.md:180` of the repository says that images in
  tool calls were not tested.
* Kalibrated: `switch.sh` takes the removal of the checkpoint directory at the end for a checkpoint and
  kills a chain in its last splices; a splice that fails once, and then succeeds,
  makes the puller give up; a pull log that is not appended to loses the `MISMATCH` line the boot needs.
* Coalescing over the files of another revision gives a mix that verifies.

---

## 6. Limits

* The kernel's model takes stores to arrive in order (`InOrder`), a strided stage to be one step of a
  CTA, and the threads of a CTA to be one.
* A kill of a process, not a loss of power: written data is not lost, renames are
  not reordered.
* One `start.sh` at a time, one boot at a time, one pipeline rank.
* A turn of ramwatch's loop is atomic, and a helper is gone when `stop.sh` has
  sent its signal.
* Process ids count up; a wrap-around of the kernel's counter is represented by the
  reboot, which also reuses ids.
* In `proxy_relay` and the proofs of the proxy, the engine's events stand for bytes; that an event is split
  over two blocks is not modelled, and does not matter to what is stated.
* Chats with `wo_eos` answers, or with results whose content is a list (non-text parts then become
  "[Unsupported ...]", `deepseek_v4_encoding.py:296-303`), are not modelled.
* The assertion of `solve_resize_ratio` is decided exactly; a rounding could only change it at a budget of 7 or less.
* Chats outside `ChatsAllowed` (section 4): what the code makes of them is in section 5.2 where it was met, and else open.
* The contents of tensors, indexes and configs are not modelled beyond the view,
  revision, rank or bitrate they have; that a tool or a kernel computes the right
  numbers is not a claim here. Leftovers named `.partial` are never read and are left out.
* The replay of a captured graph is no step; a launch stands for its key. The text of
  dummy inputs, tokenization and pixels stay out.
* The scheduler, `InputBatch`, docker, `hf`, ssh, the converter of the pod and
  `http.client` are external: modelled from what the repository's code relies on.
* Under the dummy loader, EXL3 always refuses; the engine model has it as one way a load ends.

---

## 7. Plan

1. **Abstract specifications** that `BadWordsProxy` (a relay) and `RunnerBatch` (a request table) implement.
2. **More of the runner**: n-gram drafts and pipeline ranks, if the image comes to use them.
