# A TLA+ development of ZEVM

ZEVM (`src/`, Zig) is an Ethereum node that runs in one of two modes.
**Trusted** mode is a writable development node: a transaction pool, mining by
hand, automatically or by a timer, time controls, snapshots, an optional fork
backend, and an Engine API for an external consensus client.  **Light** mode is
a read-only node anchored in beacon chain light-client updates.  Both are
reached through one JSON-RPC listener.

Around the node stand JavaScript tools: the npm package that binds it to
Node.js and the scripts that release it, a smoke test against Hive, an audit of
what blocks a release, and the worker that serves the documentation.

The modules in this directory model the parts of the repository whose
correctness depends on the order of events rather than on bytes.  TLC checks
them on small instances; TLAPS proves the central invariants for every value of
the constants.

## 1. Inventory

| Component | State | Operations | Hard behaviour | What makes it correct |
|---|---|---|---|---|
| Transaction pool, `txpool.zig` | stored transactions in insertion order, base nonce per sender | add, replace, removeByHash, removeMined, clear, setNonce, getReady, pendingNonce | several walks over the same list must agree; nonces at their maximum | one transaction per slot; the ready list executes in order; mining strands nothing |
| Trusted runtime, `node/runtime.zig` | chain, account state, pool, mining configuration, time overrides, fee state, snapshots | submit, mine, timer tick, set time/interval/mode/nonce, snapshot, revert, reset | a mining call of several blocks fails between any two steps; cached copies of nonces, fee and override | later blocks have later timestamps; state, pool and chain agree; a revert restores one moment |
| Interval thread, `node/runtime.zig` | thread handle, stop flag, mutex | start, stop and join, sleep, poll for the mutex, tick | a request joins the thread while it holds the mutex the thread needs; one flag for all threads | one thread; no tick at a replaced cadence; no deadlock |
| HTTP listener, `rpc/server.zig` | slots, list of active connections, stop flag | accept, register, spawn, read, respond, unregister, stop | stop races with accept, register and the end of connection threads | slots are conserved; stop returns, to a quiet server |
| RPC dispatch, `rpc/dispatch_wiring.zig`, `rpc/dispatcher.zig` | handler table, one mutex | route, gate by mode, batch | order of a batch; notifications | every request runs alone on the runtime |
| Block builder and transaction processor | state journal, gas counters, receipts | execute, skip, seal, revert | undo in the middle of a block; gas and blob limits | a block holds valid transactions only, or nothing changed |
| Engine API, `node/runtime.zig` | import state, payload jobs, invalid payloads, canonical chain | newPayload, forkchoiceUpdated, getPayload, ancestor import | reorganisation in steps, a cached state for the wrong parent | head, state and indexes name one chain |
| Replay of history | one cached state with number and hash | read state at a block | cache invalidation | a read sees the state of the block it names |
| Light sync, `consensus_sync.zig`, `consensus_verifier.zig`, `node/runtime.zig` | store of headers and committees, status, safe and retained heads, thread | bootstrap, sync, advance, status, read heads, stop | network work outside the mutex, put back under it; an endpoint that fails, is behind or never answers; committees that change with the period | heads are of one moment and never go back; an endpoint that follows the chain is never refused |
| RPC filters | positions in block, log and pending lists | create, poll, remove | lists rewritten by revert, reset and reorganisation | every event once |
| Fork backend | pending requests, remote cache | read through, serve | a read fails or has to wait | state unchanged by a failed read |
| Configuration, CLI, genesis | none after startup | load, merge, validate | precedence | |
| Encoding, proofs, simulation, import, C bindings | none of their own | pure functions over bytes | | |
| Hive smoke script, `tools/hive_rpc_compat_smoke.js` | a client directory in the Hive checkout, children, their output | claim the directory, build, simulate, judge, clean up | two runs share the directory; signals and kills at any step; a full pipe | nothing of others is touched, nothing is left, only passed tests pass |
| Launch preflight, `tools/macos_launch_policy_preflight.js` | temporary directory, probe, timer | compile, start, wait, judge | the timer races the probe and signals | it ends, and passes only what launched |
| Release audit, `tools/release_blocker_audit.js` | list of failures | git, map, manifest, evidence, markers, preflight | missing commands and files; a child that dies | the verdict names exactly the blockers |
| npm scripts, `npm/zevm/scripts/` | build output, package directories, registry | stage, publish | npm fails between twelve uploads; leftovers of earlier releases | a published package has all its platforms, of one run |
| JavaScript bindings, `npm/zevm/src/index.js`, `native/zevm_napi.c` | loaded addon, handle of each object, memory behind it | load, create, call, close, finalize | close, a failing constructor and the garbage collector's finalizer free the same memory | memory is freed once |
| Docs worker, `cloudflare/zevm-docs-worker/` | none | route | two routers that spell pages differently | a page is found, and redirects end |

The components call each other like this: the listener hands a request to
`dispatchMethod`, which takes `runtime_mutex` for the whole handler; the handler
calls the runtime, the runtime the pool and the builder.  The interval thread
takes the same mutex to mine.  `stop()` and `deinit` are called on a thread that
holds no mutex.  Of the tools, the audit runs the preflight as a child, the npm
scripts fill the registry from which a user's `index.js` gets its addon, and the
worker passes requests on to Cloudflare Assets; the Hive script stands alone.

## 2. Modules

| Module | Models | Stands on |
|---|---|---|
| `PoolOps` | what the pool's methods do to a set of entries: slots, replacement, pending entries, base nonces | |
| `PoolSpec` | the abstract pool: a set with one entry per slot | `PoolOps` |
| `TxPool` | `TransactionPool` with its storage order; every changing method an action, every reading one an operator; refines `PoolSpec` | `PoolOps` |
| `TxPoolProofs` | proofs about `TxPool` | |
| `DevChain` | the abstract chain: valid blocks are appended, or the chain is cut back | |
| `NodeRuntime` | submission, `mineBlocks` step by step, timer tick, controls, snapshot, revert, reset; refines `DevChain` | `PoolOps` |
| `NodeRuntimeProofs` | proofs about `NodeRuntime` | |
| `IntervalTimer` | the timer thread against the requests that stop and replace it | |
| `IntervalTimerProofs` | proofs about `IntervalTimer` | |
| `RpcServer` | accept thread, connection threads and `stop()` | |
| `RpcServerProofs` | proofs about `RpcServer` | |
| `EngineApi` | payload import, forkchoice, canonical chain, historical reads and their caches, next to local mining and snapshots | |
| `EngineApiProofs` | proofs about `EngineApi` | |
| `HiveSmoke` | runs of the Hive smoke script on one checkout | |
| `HiveSmokeProofs` | proofs about `HiveSmoke` | |
| `LaunchPreflight` | the preflight: probe, timer, signals | |
| `ReleaseAudit` | the audit, with the preflight as its child | `LaunchPreflight` |
| `LightStore` | the light client store: verification of an update, and what it changes | |
| `LightSync` | startup thread, requests and stop of light mode against a beacon endpoint | `LightStore` |
| `LightSyncProofs` | proofs about `LightSync` | |
| `PlatformPackages` | the table of platforms the npm scripts and `index.js` share | |
| `NpmRelease` | staging and publishing over build output, package directories and registry | `PlatformPackages` |
| `NativeAddon` | `index.js`: which addon is loaded, and the life of its objects; `zevm_napi.c`: what its functions make, use and free | `PlatformPackages` |
| `NpmPackage` | a release and a user who installs and uses what it publishes | `NpmRelease`, `NativeAddon` |
| `DocsRouter` | the docs worker between a browser and Cloudflare Assets | |
| `ReleaseProofs` | proofs about `NpmPackage`, `ReleaseAudit` and `DocsRouter` | |
| `MC*` | instances for TLC | |

### How state and actions correspond

*Pool.* `txs` is `transactions.items`; `base` is `sender_nonces`, an absent
entry reading as 0, as in `baseNonce`.  An *envelope* stands for the encoded
transaction and its sender, an *entry* for the stored `PooledTransaction`: the
envelope with the priority fee it was stored with, which `eth_sendTransaction`
leaves at 0.  `Hash` maps two unsigned envelopes that differ in the sender alone
to one value, as Keccak over the unsigned encoding does.  `MaxNonce` stands for
the largest `u64`.

*Runtime.* A request runs under `runtime_mutex`, so it is one action, with one
exception: mining.  `mineBlocks` can fail inside a block, and what it has done
until then is visible afterwards, so a mining call is a `job` that goes through
`BeginBlock`, `IncludeTx` or `SkipTx` for each ready transaction, `SealBlock`,
and `BuildFails` at any point of a build.  Other actions wait for `Idle`.
Balances, gas and fees only decide whether a transaction with the right nonce is
included, so `SkipTx` is always allowed; the clock plus `time_offset` is an
arbitrary value each time it is read, so `zevm_increaseTime` and `zevm_setTime`
need no action.  `feeHead` is the chain length `base_fee` was computed for.

*Timer.* `request.phase` follows a request through `stopIntervalMiningTimer`
(`Stop`, `Join`), the change of configuration (`Apply`) and
`startIntervalMiningTimer` (`Start`); `timer[t].at` follows
`intervalMiningLoop`.  `lockRuntimeUntilIntervalStop` polls, so `TryLock` has a
disjunct for the stop flag.

*Listener.* One action per step between which another thread can run:
`waitForConnectionSlot`, `accept`, the second look at the flag,
`registerConnection`, the spawn; for a connection, reading, answering,
unregistering and freeing (the order of the deferred calls); for `stop()`, its
five statements.

*Engine API.* `store[b]` is the branch that ends in block `b`, which the code
finds by walking `parent_hash`.  A state is the sequence of blocks executed to
get it, so that `state = store[HeadHash]` says that the state manager holds the
head's state, and two states with the same root are the same sequence.
`canonical` is the number index of the block store with `setCanonicalHead` of
the blockchain library as the code relies on it; `head` is
`head_block_number`.  `importState` and `replayCache` are the two caches with
their labels.  One `engine_newPayload` call is a `job`: the walk to a stored
ancestor (`FetchAncestor`, `FetchFails`, `FetchDone`), then one import for each
fetched block, oldest first.  Forkchoice is one action, with `ForkchoiceFails`
for its error path.  A block mined here may hold the transaction of an
impersonated sender (`Unsigned`); no sender can be recovered from it, so no
replay gets past it.  `snapshots` are the runtime's entries by the id the client
knows, `saved` the states the state manager keeps by the id it handed out
(`stateId`); that ids count up from the same number in every manager, and that a
revert drops the later ones, is how the code uses the library, and only snapshots
hand them out here.  A forkchoice to another branch brings a new manager without
states (`NewManager`) and leaves the entries (`Orphaned`).  `mixed` is not in the
code: it records that a revert took the state from another manager than the entry's.

*Light mode.* A header is its slot and a sync committee the period it signs in;
an update says which committee signed it and how many of its members did.  `store`
is `engine.store` of the runtime, `copy` that of the engine on the startup
thread's stack.  Under the mutex the code can only be interrupted at a call to the
endpoint, and without it anywhere, so each call is a step: in a request (`job`, from
`AdvanceFinality` on) the mutex is held over all of them, which is why
`TakeSnapshot`, `Commit` and `StartupFails` wait for `job = "none"`.  `retained`
is `retained_heads` by number.  The beacon chain is chosen at the start and seen as
far as the clock (`now`) is, or up to `Behind` slots less; what an endpoint offers for
a period is the best update by the rule of the consensus specification.  At any call
it may fall `silent` (`FallSilent`), and then that call never ends, since `httpGet`
sets no timeout.
The startup sync fetches the updates of all periods in one step; the code asks for
128 periods, some 145 days, at a time.
`heard` and `excused` are not in the code: they record when a sync was last
completed and whether there has been a reason to fail.

*Hive script.* Everything up to the first child is synchronous: no signal is seen
there, but another process can run between any two file operations and a kill
can fall there, so each file operation is a step (`Look` to `PutFile`).  A recursive
`rmSync` counts as one.  `dir` is
the client directory with its maker, `cleanups` the calls of `cleanupClientDir`
that an exit still has ahead: a handled signal calls it in the handler and again
on exit.  Hive's output is a sequence of chunks into two pipes; `log` is what the
variable `output` shows of the line with the counts.

*Audit and preflight.* What the audit looks at is a set of facts about the
checkout, `Check` adds those a check finds, `Throw` ends it at a file that is not
there.  `spawnSync` is the step `"child"`, which waits for the preflight to have
exited or died.  In the preflight each event of the loop (`ProbeEnds`,
`TimerFires`, `SeeExit`, `HandleSignal`) is an action, as they are seen in any
order.

*npm.* `built`, `staged`, `local` and `registry` are the places that keep addons
between runs; a publishing run stages first.  `UploadedUnnoticed` is npm failing
after the registry took the package, `Break` a failure or an interruption
anywhere.  npm and the registry are external: they do what the code needs of them.
In `NativeAddon` a method is one step, as JavaScript has one thread.  `wrapper` is
the memory of the C struct an object's handle points to, `pointer` its one field and
`native` the client or node that points to: `Create`, `CreateFails` (with what each
failure has made and frees), `Destroy`, `Finalize` and `Answer` are the functions of
`native/zevm_napi.c`, the last with the refusals of `get_handle`, which
`execution_handle` does not make.  `Finalize` may come whenever nothing refers to the
handle any more; when, is the garbage collector's choice.  Strings and responses that
a C function makes and frees before it returns are left out.  Objects share nothing,
so one is enough for TLC, and the proof has any number.

*Docs.* `Fetch` is the worker's `fetch`; `Assets` is Cloudflare's default
`html_handling`, which is not part of the repository and is modelled from its
documented behaviour as the worker relies on it.  `Browse` is one request and its
answer.

### Mutants

Next to some definitions stand *mutants*: the same operator with a plausible
bug (a dropped guard, a missing reset, an early return without its clean-up).
They belong to no specification.  Each property of each passing run has one that
breaks it, listed in `PROJECT.json`, which shows that the property can fail.

## 3. Runs

| Run | Configuration | Shows |
|---|---|---|
| `pool` | `MCTxPool.cfg` | two senders, nonces 0..2, eleven offers that replace, tie or regress, four stored at most. Every walk over the list agrees; the list implements `PoolSpec` |
| `mining` | `Mining.cfg` | two senders, calls of one and two blocks, from automine to manual, failures, one live snapshot, reset, two blocks above genesis. Nonces match the chain, the pool matches the nonces, a block sees all that is executable and takes only what it mines, the chain implements `DevChain` |
| `timing` | `Timing.cfg` | empty blocks; overrides 1 and 4, intervals 0 and 2, block times 0 and 3, calls of one and two blocks, manual and interval mode, two live snapshots. Timestamps increase and follow the precedence; snapshots are nested prefixes |
| `timer` | `MCIntervalTimer.cfg` | two thread identities, two block times, thread creation may fail. One thread, current ticks, configuration and thread agree, no deadlock |
| `server` | `MCRpcServer.cfg` | three clients, two slots, two requests each. Slots are conserved, `stop()` returns and returns to a quiet server, a waiting client is reached |
| `engine` | `EngineApi.cfg` | a payload on genesis, one with the same transaction on a local block, an invalid child of that; two local blocks, a signed and an unsigned transaction, a snapshot of genesis and one above it, with a reorganisation between them. Head, chain, state, log index, caches, finality and pool stay on one branch; a payload is held invalid only for a reason |
| `hive` | `MCHiveSmoke.cfg` | two runs on one checkout, together or in turn, pipes of one chunk, every report, signals and kills. What others made is kept, nothing generated stays, a pass is earned, runs end |
| `audit` | `MCReleaseAudit.cfg` | every pair of blocking facts, every set of options, one missing command or file, the preflight with its timer, signals and a probe that hangs. The verdict names exactly the blockers; both processes end |
| `npm` | `MCNpmPackage.cfg` | two platforms, two versions, three runs of the scripts, four machines, one object. A published package is complete and of one run, it loads, memory is freed once |
| `docs` | `MCDocsRouter.cfg` | every path of up to three segments out of twelve, with and without a slash, GET and POST. Pages are found, redirects end |
| `light` | `MCLightSync.cfg` | three periods of six slots, five chains (finality one slot behind, or stalling at the start of a period; one of three signing at the end of a period or around it), two checkpoints, two times of start, an endpoint that fails, is two slots behind or falls silent, a stop. Committees match, heads agree and never go back, every error has a cause, startup and stop end unless the endpoint is silent |
| `stale_payload` | `StalePayload.cfg` | the same blocks and one payload job: a payload under construction, executed on another head: ends with a counterexample (section 4) |

The bounds make the interesting cases happen: two senders are needed for order
and shared hashes, three nonces for a gap and for the maximum; a call of two
blocks is the shortest that can fail after sealing one, two snapshots the fewest
that nest; two thread identities are the old thread and its successor; three
clients for two slots make one wait; two local blocks beside a payload make two
branches that reorganise in both directions, and a payload whose
transaction the local block below it has already executed is an invalid block with
a descendant.  Two Hive runs are the fewest that take the
directory from each other, and with a pipe of one chunk both writer and reader
have to wait; two facts are the fewest that could hide one another; two of the
eleven platforms (the builder's and another), two versions and three runs give a
failed release, its retry and the next version; three segments are the prefix, a
directory and a page.  Three periods are two rotations, the second with a committee
learned in the first; six slots are the fewest in which the finalized header of a
period can be reported, its update be fetched and a request be missed
(`MaxIdle` is at most `(PeriodLength - MaxLag - 2) / 2`); a committee of three
tells no majority, a majority and all apart; an endpoint two slots behind is
behind the finalized slot.  `MaxPool`, `MaxBlocks`, `MaxSnapshot`,
`MaxSnapshotHead`, `MaxReplay` and `MaxRequests` only cut off histories.
`MaxAncestors` is 2 for the code's 512, and no walk of the instance is that long;
walks fail there because an ancestor cannot be had.  `MaxJobs` of `EngineApi` is 0 in `engine`:
no invariant checked there looks at a payload job, and nothing but getPayload
reads one.  `Finality` holds one payload, on one of the branches.  `Bounded`, the constraint of
`engine`, allows two local blocks and a snapshot or one and two, and one of the safe
and the finalized hash at a time; at that length it leaves out these hashes and the
replay cache, on which chain, state and pool do not depend, and which shorter
histories check.  Two snapshots with a reorganisation between them are the fewest whose
state ids coincide.
`CHECK_DEADLOCK FALSE` is said where the system stops by design: at a bound,
after shutdown, when no client is left, when a script has ended.

*Which inputs a property is stated for.*  `StateMatchesLedger` and
`PoolTracksState` (the halves of `NoncesAgree`) and `ImplementsDevChain` speak of histories without
`zevm_setNonce`, which rewrites an account by decree; `SealTakesOnlyMined` and
`PoolTracksState` of signed envelopes; `FeeMatchesHead` of calls that do not
fail; `TimestampFollowsPrecedence` of calls other than automining.
`NothingAboveHead` and `CachedReadIsExact` (the halves of `CanonicalReadsAreExact`)
of stores whose blocks all replay (`StoreReplays`).  What `ChainIsOne`,
`NothingAboveHead` and `PoolHasNoExecuted` say of the account state holds unless it is
`mixed`; that head, canonical numbers and logs agree is claimed of those histories too.
`TimerMatchesConfig` excludes a request that failed because the system refused
the thread, which leaves the configuration set with no timer.
`EndsClean` excludes runs that were killed, `InstalledLoads` machines without a
package or whose report hides a glibc, `RedirectsEnd` paths that spell out the
name `index`.  `ErrorHasCause` excludes a failed call, an endpoint that was behind,
a checkpoint refused for its age, a stop, and more than `MaxIdle` slots since the
last sync that came to its end; an excuse stands from then on.  Section 4 says what happens otherwise.

### Fairness

`NodeRuntime` and `EngineApi` assume none.  `IntervalTimer` assumes weak fairness of the request in
progress and of each thread; not that a thread polling for the mutex gets it.
`RpcServer` assumes that each thread goes on and that a read ends, by data, by
the client or by the read timeout; clients need not do anything.  The wake-up
connection of `stop()` is assumed to succeed (`unblockAccept` ignores a
failure).
`HiveSmoke` assumes that a run goes on and that its children end (weak fairness
of a run's own steps); no signal or kill has to come, and Hive writes only while
its pipe has room.  `ReleaseAudit` assumes that audit and preflight go on and
that an armed timer fires; not that the probe ever ends.  `DocsRouter` assumes that
every request is answered and every redirect followed.  `LightSync` assumes that
startup thread, request and the join in `deinit` go on while they do not wait for an
answer; not that a call to the beacon endpoint ends, which `SyncSettles` names as the
one thing that keeps startup and stop waiting; nor that anybody asks, nor that the
clock moves.

## 4. Where the code and its documents part

This one has a run that TLC ends with a counterexample.

| Run | What happens |
|---|---|
| `stale_payload` | getPayload executes a payload on the live state after another head became canonical; its state root is not that of a block on the parent it names |

More were met while modelling.  Those of the node:

- an accepted transaction below the base fee makes automine seal an empty block
  (`json-rpc-contract.md:1010`: "empty blocks: not produced by automine trigger");
- a call of two blocks that fails in the second reinstates an override that the
  first has used and passed (`json-rpc-contract.md:1042`: "one-shot override (must
  be greater than parent)"); mining is refused from then on;
- `zevm_setNonce` leaves the pool's base nonce, so a pooled transaction at the new
  nonce is overlooked (`json-rpc-contract.md:1002`: "includes executable pending
  transactions in canonical order");
- two impersonated senders who send the same unsigned call share a hash, and
  mining one removes the other from the pool (`json-rpc-contract.md:1003`:
  "non-executable queued transactions remain pending");
- a connection thread unregisters before it closes its stream and frees its
  context, so `stop()` may return first (`prd.md:605`: it "waits for active
  handlers before listener deinit returns");
- automining is `mineBlocks(1, 0)` and does not look at
  `zevm_setBlockTimestampInterval` (`json-rpc-contract.md:1044`), which is why
  `TimestampFollowsPrecedence` is stated for other calls;
- `base_fee` is written back after the last block of a call (`runtime.zig:1271`),
  so a call that fails after sealing a block leaves the fee of the older head,
  which `validateHeader` refuses (`block_builder.zig:421`); `FeeMatchesHead` is
  stated for calls that do not fail;
- `clearSnapshots` (`runtime.zig:2524`) restarts the snapshot ids at 1, so after
  `zevm_reset` an old id names a new snapshot, where `json-rpc-contract.md:966`
  has the reset invalidate it;
- `setMiningConfig` and `revertToSnapshot` store an interval configuration before
  the thread is created and keep it when the system refuses the thread
  (`json-rpc-contract.md:1019`);
- the accept thread may register a connection after `stop()` shut the sockets,
  and `stop()` then waits for that client or its read timeout (`prd.md:605`);
- a forkchoice refused because a block on its branch does not replay leaves the
  canonical numbers it wrote above the head (`runtime.zig:2294`), and the block
  tag `latest` resolves to the highest number;
- an extension of the replay cache that fails half-way leaves the cached state
  ahead of its label (`runtime.zig:1963`), and a later read at that label gets it;
- a forkchoice to a branch that does not extend the head replaces the state manager
  (`runtime.zig:2302-2311`) and keeps the snapshots, whose state ids the new manager
  does not know.  `zevm_revert` to one of them then answers `false`, or, once the new
  manager has handed out the same id, brings back the old chain, logs and pool beside
  a state of the new branch (snapshot, mine, forkchoice back to genesis and again to
  the mined block, snapshot, revert to the first), where `json-rpc-contract.md:954` has
  the two calls "capture and restore" chain and state together.  This is `mixed`.

Those of light mode:

- the beacon client has no timeout (`beacon_api.zig:208`).  An endpoint that takes a call
  of the startup sync and never answers leaves the status `syncing`, and `deinit` waits for
  the thread for ever; one that does so to a request holds the mutex, and all other
  requests, for ever.  The comment at `runtime.zig:887` says that the sync
  "short-circuits at the next step boundary instead of starting further blocking network
  work"; the flag is read before the whole sync and after it only (lines 914 and 934), so
  even with an endpoint that answers all its calls are made first;
- a checkpoint that is too old under `strictCheckpointAge`, and any failure of the calls
  that establish age and network, are found by the startup thread when the listener may
  be open, and only set the status to `err` (`runtime.zig:896`), where `prd.md:539-563`
  has the program fail before it opens the listener;
- an advance whose second call fails keeps what the first applied, so
  `zevm_lightSyncStatus` may report a `finalizedSlot` above its `safeSlot`
  (`prd.md:662` requires `finalizedSlot <= safeSlot`); its status is `err`
  then, and `ReadsAgree` is stated for `synced`;
- a request only refreshes a node that is ready (`runtime.zig:1013`), so a node that
  went to `err` stays there until it is started again: after one failed
  call, after one answer from an endpoint behind the finalized slot, or after
  nobody asked it from one committee period into another, for which `advance` asks
  for no updates of the period in between;
- `json-rpc-contract.md:172` accepts every number of the retained window; only numbers
  that were a head when a request refreshed the node are on record
  (`runtime.zig:260`);
- `processLightClientStoreForceUpdate`, with which the consensus specification gets
  over a period without finality, is called by nothing.

Those of the tools:

- `stage-artifacts.cjs` skips a platform that was not built and leaves the addon an
  earlier run staged; `publish-all.cjs` only asks whether the file exists
  (line 41) and publishes it under the new version, where `README.md:69` says that
  "Publication fails before uploading anything if a platform is missing.";

- the audit reads `tools/hive_rpc_compat_smoke.ts` and runs
  `tools/macos_launch_policy_preflight.ts`; both are `.js` files in the
  repository, so on this commit it throws before its verdict and can never report
  a clean checkout;
- without `rg` the audit looks for no markers and says nothing of it; it accepts
  `--allow-partial-external` and does nothing with it;
- a Hive run killed between making the client directory and writing the marker
  leaves a directory that every later run refuses; a hangup has no handler and
  counts as a kill;
- two Hive runs at a time take the directory from each other: one of them fails,
  though both clean up;
- a chunk of the other stream that parts the line with the counts makes a passing
  simulation a failed run (never the reverse, `PassIsEarned`);
- `.git` as a directory is not handled when the revision of `execution-apis` is
  resolved: reading it as a file throws;
- the preflight exits on a signal and leaves its probe running;
- a release that failed between two uploads cannot be completed under the same
  version, because npm refuses the packages already there and the script stops at
  the first refusal;
- a stale addon may lack the functions `index.js` calls (`"old"` of `NativeAddon`);
- a Linux whose process report does not name its glibc looks for the musl package;
- a path with a segment `index` without extension, such as `/docs/index`, is sent
  to and fro between worker and assets: one adds the slash the other takes away.

## 5. Proofs

All are invariance arguments, checked leaf by leaf.  A theorem assumes what its
module and the modules below it assume of their constants; where it assumes more,
this is said here and in its statement.  The additional hypotheses are those of
"Which inputs a property is stated for" in section 3, and each is that of the run
that checks the same property.

Every component's types are proved as well (`TypeCorrect` in each module, and
`NpmTypesHold`, `AuditTypeCorrect` and `RouterTypeCorrect` in `ReleaseProofs`).
Where the other proofs do not already carry them, they needed something besides:
`PackagesHaveAddons` (a platform package is published with an addon inside, or what
`index.js` loads would have no type), `CleanupsAhead` (a smoke run that is at its
cleanup still owes one), and for `EngineApi` that a replay that stops half-way has
run a beginning of the branch (`RunPrefixIsPart`), for which a first block that does
not run has to exist.

`TxPoolProofs` proves, for any senders, nonces, offers and pool size, that the
stored sequence implements `PoolSpec` (`PoolImplementsSpec`), that no two stored
transactions have one slot, and `PendingSurvivesMining`.  The invariant is small
(types, and slots that differ at different positions); the work is in what the
list operations do to the set of entries: `IndexFinds` (a search finds the slot
iff it is taken), `RemovedFirst` (removing the first of one hash removes one
entry), `KeepKeeps` (removing many by hash leaves the others in storage order).
`KeepKeeps` counts positions; that every rank up to the number of positions is
taken (`EveryRankIsTaken`) and that a loop's first match exists (`LeastNatural`)
come from the well-foundedness of the naturals.  `Keep` is written by rank and
not with `SelectSeq`, whose recursion no prover here can open.

`ReadyListStaysRight` is about three walks over that list: `getReady`, which
concatenates a run per sender; `isPending`, entry by entry; and `pendingNonce`.  Each
is shown to be about the same nonces, those from a sender's base nonce up to the
first that is not taken (`PendingNoncesRun`): they are what is pending of the sender
(`PendingByNonce`), and the run that its one group head starts
(`OneHeadPerSender`, `RunsExecute`).  The list is `FlattenSeq` of the runs, a
recursive function of the community modules; `FlattenAppends` says that it appends
them one after the other, and `RunIsEmitted` that one more run adds all entries of a
sender not seen before, in order.  Both are inductions over the number of runs, made
with a set of naturals: one that has 0 and with each number the next is `Nat`
(`AllNaturals`), which needs no operator for a parameter.

`NodeRuntimeProofs` proves `TypeOK`, `TimestampsIncrease` and
`SnapshotsArePrefixes`, then what the other runs check of the runtime.

- `TimestampsIncrease` and `SnapshotsArePrefixes` are not inductive.  A sealed block
  takes the clock of its job, so the invariant adds `ClockAboveHead`: while a call is
  in progress its clock is above the head.  It is established where a call starts (an
  override is refused unless it is above the head, everything else is above by
  construction), kept by `BeginBlock` because a later block adds `interval - 1` only
  for a positive interval, and restored by `SealBlock`, which moves the clock one past
  the new head.  A revert replaces the chain by a snapshot's, so increasing
  timestamps have to be claimed of snapshots too, and nesting of snapshots among
  themselves, not only on the chain.
- `RuntimeImplementsDevChain` and `StateFollowsLedger` need `LedgerInv`: the state a
  block started from (`Committed`, the checkpoint while one is built) is what the
  sealed blocks give, and the block in the making executes on it.  Counting a
  sender's transactions over a chain is an inclusion of finite sets
  (`ExecutedByAppend` and its neighbours).  Without `zevm_setNonce`.
- `NoncesAlwaysAgree` and `ExecutablesAreReady` add `PoolInv`: one entry per slot and
  none below its sender's nonce, here and in every snapshot, and a block covers the
  nonces between checkpoint and state, so that taking it out of the pool moves the
  base nonces exactly to the new state.  Without `zevm_setNonce`, and with signed
  envelopes, since the removal goes by hash.
- `SealingTakesOnlyMined` needs that a block is built from entries of the pool
  (`SealInv`), for signed envelopes.
- `FeeFollowsHead` (calls do not fail) needs the fee of a block in the making;
  `PrecedenceIsFollowed` (no automining) needs `DueInv`, which says that the clock of
  a call is the due one at each of its steps, not only at its seal.

The largest mined nonce (`CHOOSE` in `BaseAfterMined`) exists by well-foundedness of
the naturals.

`IntervalTimerProofs` proves `OneTimer`, `TickIsCurrent` and `TimerMatchesConfig`.
The strengthening: the configuration is only written while no handle is held, a
thread past the lock holds the mutex, a thread about to mine was checked against the
configuration; and, for the last, the owned thread has not left its loop, is not
asked to and has the configured block time unless a request is waiting for its end
(`OwnedThreadRuns`).

`RpcServerProofs` proves `SlotsBalance` and `StoppedIsQuiet`, for any clients and
any number of slots.  The account of slots alone is not inductive: that a released
slot was held needs that the active list is exactly the running threads and the
connection about to get one (`ActiveIsRunning`), and this that a client waits in one
place only, once in the backlog or with the accept thread (`WaitingIsUnique`,
`AcceptedIsQueued`).  A quiet stop needs the order of `stop()` (`StopOrder`): it
waits for the list to be empty after the accept thread, the one that adds to it, is
gone.

`EngineApiProofs` proves all that `engine` checks, assuming of the payloads that none
descends from itself, as their hashes cannot.  The invariant says of the present
moment and of each that a snapshot brings back (`Sound`) that every stored branch
passes through stored blocks whose branches are its beginnings, that some stored
block is the head of all of chain, indexes and finality, and of the state, and that the
pool holds nothing the state has executed, both unless the state is `mixed`.  What a
snapshot would bring back is put together from its entry and from the state manager's
state of that id (`Restored`).  `ManagerSound` says that the state id of an entry that
is not `mixed` is one the present manager handed out, so that a new snapshot, which
gives an id its meaning, cannot change what such an entry brings back
(`SnapshotMoments`); for the `mixed` ones the state does not count (`SoundFollows`).
The other parts: the import state is that of the block it is labelled with (`CacheSound`, without which a good
payload could be held invalid), the blocks still to import are distinct and
neither stored nor invalid (`JobSound`), and an invalid payload has its reason
in a stored or an invalid parent.  That a state extended by the new blocks is
the state rebuilt from genesis is `AncestorIsPrefix`.
`CanonicalReadsStayExact` has an invariant of its own on top (`ReadInv`).  Its two
halves speak of canonical blocks, but a forkchoice can make any stored branch
canonical, and a revert brings back an old chain with a cache made since, so it says
of the cache that it is exact for the block it names, canonical or not
(`ReplayExact`), and of snapshots that they too show nothing above their head
(`Tidy`).  That a forkchoice of signed blocks always gets to its end
(`StoredRuns`) rests on `BranchesDisjoint`: no transaction occurs twice on a stored
branch.

`ReleaseProofs` proves `ReleasedByOneRun`, `InstalledLoads` and
`ClosedStaysClosed`, for any platforms, versions and machines.  The first needs
that what the loop still has to upload and what the present run has uploaded make
up all platforms (`UploadedSoFar`), that a script is only at its steps
(`ScriptAtStep`) and that no local addon is left from the second step on
(`NoLocalAddon`); the main package then comes after all others, of one run.
`LoadFinds` says that an installation of such a registry offers exactly one addon,
the machine's.  For the objects, `ObjectSound` says that a wrapper that is not freed
points to nothing that is, whoever freed: an open object has wrapper and client, a
closed or half-made one has no client, and one never made has said nothing.  Each
step is of one object (`OneObject`); that the finalizer frees nothing twice follows
from the pointer that `light_shutdown` and `node_destroy` set to NULL.

It also proves `VerdictIsRight` of the audit, for any sets of facts, arguments and
missing commands, and `PagesAreFound` of the docs worker.  The audit's invariant says
that what has been reported so far is exactly what the checks done so far report
(`NothingLost`, by `ReportedBy`), that the preflight is not started before its turn
(`PreflightWaits`) and exits with 0 only when the probe was greeted (`PreflightTells`),
and that a verdict follows from both (`VerdictGiven`): the child goes on after an
interrupted audit, and its timer and signals may come at any of its steps.

For the docs worker the invariant is one sentence: wherever a browser has been sent,
the URL it is at means the files its first URL meant (`RouterInv`).  Every answer is
then right for the path it is given to (`FetchIsRight`), case by case over the
worker's branches and over those of the assets (`AtSlashIsRight`, `AtNameIsRight`).
This is proved for any build and any set of paths that satisfy `RouterAssumption`,
which says what the worker relies on: pages are the `index.html` of a directory
(Astro's format `directory`, the default that `astro.config.mjs` keeps) except the
404 page, files have an extension, no page is among the exported assets
(`_astro`, `pagefind`) and nothing is at `/docs` of the build, and no directory
with a page is named as a file or a page would be.  Without the last of these two
spellings could name one page and the redirects would no longer agree.

`HiveSmokeProofs` proves `ForeignKept`, `EndsClean` and `PassIsEarned`, for any
number of runs.  A directory of somebody else has no marker and no run at work in
it (`Kept`); a generated one is being written, or carries the marker while some
run will still look for it (`Owned`), whichever run made it and whichever
rewrites it.  The verdict rests on `Sound`: no Hive is looked at outside its
step, a Hive that reports an error or no counts has written and will write noise
only (`Silent`), and a run judges what it has read to the end (`Drained`).

`LightSyncProofs` proves `CommitteesMatch`, `ReadsAgree` and `NeverBackwards`, for
any chains, committee sizes, period lengths and endpoints any number of slots
behind.  The store is `Sound`: its committees are those of the finalized header's
period and the one after it, and its finalized slot is not above its optimistic
one.  That `Apply` keeps this is `ApplySound`, which rests on what verification
established (`UpdatePeriods`: the attested, and so the finalized, slot is at most one
period on) and on periods growing with slots (`PeriodMonotone`, the one place that
needs division).  `LightInv` adds that updates still to verify are of the endpoint's
making, that the status stays `syncing` until the startup thread is done, so that
its commit can replace nothing newer, and that a request only advances a store that
is synced.  `NeverBackwards` follows step by step, because `Seen` and `Finalize`
raise their slots only.

It also proves `ErrorHasCause`, of constants that are `Favourable`: a period is long
enough for two waits of `MaxIdle` slots between its first `MaxLag` slots and its last
two (`AskedInTime`; with 8192 slots to a period and finality some 64 behind, that is
a request every 13 hours), only blocks of its first `MaxLag` slots and of its last may
lack signers (`ChainsAreWell`), and the node does not start at slot 1, where the
checkpoint would be the head itself.  `MCLightSync` assumes it of its constants, so that the run
is an instance of the theorem.  The invariant `HealthInv` is about what is known of
committees when a sync was last heard to end, at `heard`: without the next committee
that was at most `MaxLag` slots into the period of the finalized header, with it as
many into the next period (`Knows`), give or take `MaxIdle` at the step of a request
that is to make up for it.  A call no more than `MaxIdle` slots later then falls into
a period whose committee is in the store (`InTime`, `NewestVerifies`).  The steps
keep it because from slot `MaxLag` of a period on the best update that the endpoint has
for it is settled and signed by most, exists, and is unique (`BestIsSettled`,
`BestExists`, `BestIsOne`).  A finality call that could not rotate is early in its
period (`FinalityKept`), and so is a call for the next committee that taught nothing
(`CommitteeKept`).  Of the startup thread it says that what is left to verify are
the updates of the periods from some `q` on, of which the copy has the committee
(`Verified`, `NextToVerify`).

Every safety property that a run checks, invariant, action property or refinement,
is proved.  Only model-checked is liveness (`RequestReturns`, `StopReturns`,
`WaitingClientIsReached`, `RunEnds`, `AuditEnds`, `RedirectsEnd`, `SyncSettles`),
since the prover has no ENABLED and no fairness; and of course the property of
`stale_payload`, which is false.

The assumptions of the constants are `PoolAssumption` and its like in the module of
each component; they are distinctness of model values and ranges of bounds, with
these exceptions, which say something of the world: `EngineAssumption` (no payload
descends from itself), `BeaconAssumption` (finality never goes back and is at most
`MaxLag` slots behind), `ReleaseAssumption` (the machine that publishes is one of the
platforms), `OverrideAssumption` (the
addon that `ZEVM_NATIVE_PATH` names is one of some platform), `AuditAssumption`
(a checkout's facts are among those the audit asks for) and `RouterAssumption` above.

## 6. Not modelled

Cryptography, encodings, the EVM and the state trie come from libraries that are
not part of the repository, and appear as what the code uses of them.  Running
out of memory is left out everywhere.  EIP-7702 authorizations, which raise the
nonce of an account that sends nothing, are left out of `NodeRuntime`, and so is
blob gas.  `LightSync` leaves out `best_valid_update` and `last_checkpoint`, which
nothing else depends on, heads that a reorganisation of the beacon chain orphans, and the
proofs of light reads, where hashes decide.  The RPC filters would need the
contents of the block, log and pending lists they have positions in, and batches
and mode gating are routing.
Of the JavaScript, `astro.config.mjs`, `content.config.js` and `alchemy.run.js`
only declare, and the smoke tests of the npm package call the addon once from
top to bottom.
`PROJECT.json` lists each component with its status.

## 7. What could follow

1. RPC filters: positions against lists that revert, reset and reorganisation
   rewrite.
2. Base fee and blob fee from block to block against the header rule, gas and blob
   limits of a block.
3. Batches, notifications and gating by mode; precedence of configuration sources.

Theorems worth proving next come with these parts; of what is modelled, only the
liveness properties have no proof.
