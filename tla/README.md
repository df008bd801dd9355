# Formal model of the epoch synchronizer and the slot page

This directory holds TLA+ models, TLC configurations and TLAPS proofs for two
parts of the explorer:
- The epoch synchronizer of `src/indexer/synchronizer.go`. It walks the chain
  epoch by epoch, fetches and caches blocks, and persists each epoch with its
  sync cursor in one database transaction.
- The slot page handler `Slot` of `src/handlers/slot.go`. It reads a slot or
  a block root from the URL, looks the block up at the node and in the
  database (orphaned blocks), and renders the slot page.

The two do not call each other. The handler reads what the indexer and the
node hold; in the models both sides are fixed sets of blocks.

## The system

| Part | Code | What it does |
|---|---|---|
| Sync Orchestrator | `startSync`, `runSync`, `checkKillChan`, `isEpochAhead` (synchronizer.go 35-135) | Starts and stops the one worker goroutine. Paces the loop with a cooldown, retries after errors, and contains panics with `recover`. |
| Epoch Step + Block Cache | `syncEpoch` (137-257) | Skips epochs already synced. Fetches duties, then the headers and blocks of this epoch and the next (the lookahead), then validator stats. Computes the target root, persists blocks, votes and cursor in one transaction, and evicts the epoch's own slots from the cache. |
| Vote Aggregator | `aggregateEpochVotes` (not under src/) | A pure computation over the cache. |
| Collaborators | RPC client, database, finality oracle | Every call may fail transiently. |
| Slot page | `handlers/slot.go` | HTTP read path: parses a slot or root, looks up the block, falls back to orphaned blocks, and fills page data. |

How the threads interact:
- Any number of goroutines may call `startSync`.
- `stateMutex` guards `running` and `currentEpoch`.
- `runMutex` is held by a worker for its whole run, so a caller waits on it for the old worker to finish.
- A caller that finds `running` sends on the unbuffered `killChan`. The send blocks until the worker receives it in `checkKillChan`, and the caller still holds `stateMutex` while it waits.
- The worker checks for a kill without blocking after the duties fetch (line 151), after each header (169), and around the stats fetch (185, 202). It waits for a kill with a timeout in the cooldown (105).

## Modules

- **`Synchronizer.tla`** is the model of synchronizer.go.
  - **State:**
    - `running`, `currentEpoch`, `cache` (the keys of `cachedBlocks`), `cachedSlot` and `slot` are the Go fields and loop variable.
    - `stateMutex` and `runMutex` hold the owner: a caller, `Worker` or `NoOwner`.
    - `cpc` and `wpc` are the callers' and the worker's program counters.
    - `stored` and `cursor` are the database: the blocks and target root per epoch, and `indexer.syncstate`.
    - `finalized` is the chain's finalized epoch.
    - `stopSeen` and `syncFrom` are history variables.
  - **The chain:** a constant set `Blocks` of slots that carry a block. A block's root is its slot, and its parent root is the previous block's slot.
  - **Actions:** there is one action per stretch of code between two points where a thread blocks or where another thread's step matters:
    - `StartSync`, `UnlockAfterKill`, `LockRun` and `Launch` are the stretches of startSync.
    - `RunSyncStart`, `CheckSynced`, `Assignments*`, the five fetch-loop outcomes (`FetchSlotsDone`, `SkipCachedSlot`, `SkipEmptySlot`, `SlotKilled`, `CacheBlock`), `Stats*`, `Persist`, `ReadFinalized`, `Advance`, `Cooldown*` and `Exit` are the worker's stretches.
    - `SyncEpochError` is every error return of syncEpoch together with the 10 s backoff.
    - `Panic` is the recover barrier.
    - `Finalize` is the chain finalizing another epoch.
  - **Receiving a kill:** `ReceiveKill` moves a caller blocked in the send forward, in the same step as the worker's receive. That makes it a rendezvous.
  - **Mutants:** operators named `...AtLoopEnd`, `...EvictsLookahead`, `...SkipsCursor`, `...Advances` and `...KeepsEpoch` (`SyncStateOutsideTx`, `RunSyncStartKeepsCachedSlot`, `PersistParentTarget`, and, in SlotPage, `ParseUnbounded`, `CheckOrphanedByRootOnly` and `RenderFinalizedStrict`) are mutants. Each is a plausible bug in the definition that follows it. They show that the checked properties can fail.
  - **Ambiguous commit:** `CommitAppliedError` is a commit that is applied but returns an error (line 245). The epoch and cursor are stored, but the cache is not evicted and the loop backs off and retries.
  - **Database and cache properties:**
    - `CursorNamesStoredEpoch`: the cursor in `indexer.syncstate` always names an epoch whose data is stored.
    - `LookaheadCached`: `cachedSlot` is never stale. From the start of an epoch's syncEpoch to its persist, and in the cooldown before a retry, every block from the epoch's first slot up to `cachedSlot` is in the cache. So the skip at line 159 never drops a block, whatever errors, kills, faults and restarts (the reset at line 80) happened before.
  - **Refinement:** `Abstract` instantiates `EpochSync` with `head <- currentEpoch` and `Chain <- ChainRecord` (what the chain has for each epoch). `ImplementsEpochSync == Abstract!Spec`.
- **`EpochSync.tla`** is the abstract specification of what the synchronizer promises, without threads, locks, the kill channel or the cache:
  - `Restart(e)`: a start moves the head to any start epoch.
  - `Store`: the head epoch is written as the chain has it, together with the cursor, in one step.
  - `Advance`: the head moves on by one, and only past a stored epoch.
  - In the refinement, `Launch` (with no worker running) is a `Restart`, and `Persist` and `CommitAppliedError` are `Store`s. `Advance` is an `Advance`. Every other step is a stutter.
- **`MCSynchronizer.tla`** is the TLC instance. It has two callers, 2 slots per epoch and epochs 0..2, and blocks at slots {0,1,3,4,7}:
  - Epoch 0 starts with a block.
  - Epoch 1 has an empty first slot, so its target root is the parent of slot 3.
  - Epoch 2 starts with a block, and its lookahead (slots 6 and 7) holds one block.
- **`SlotPage.tla`** models one request to the `Slot` handler (slot.go 23-147).
  - **Request:** the URL segment is abstracted to what parsing makes of it: a 64-digit hex root (of a canonical block, an orphaned block or no block), a decimal number from -2 to 2^31, or neither.
  - **Collaborators:** the node serves the canonical blocks and any call may fail. The database holds every block, orphaned ones included.
  - **State:** `blockSlot`, `rootHash`, `blockData` and `err` are the handler's locals, `finalizedSlot` is the finalized head's slot, and `page` is the rendered page.
  - **Actions:** there is one action per stretch of the handler:
    - `Parse` covers lines 43-56, including the 2^31 bound.
    - `Lookup` is the finalized-head and block lookups (58-66).
    - `CheckOrphaned` is the orphaned fallback (68-78). It takes the root of a database block at the slot, or keeps the empty root set at line 47.
    - `Render` covers 80-139: the not-found, error or slot page, the status, and the uint64 neighbours `(slot ± 1) % SlotModulus`.
  - **Refinement:** `Query` instantiates `SlotQuery` with `request <- req`, `failed <- err`, `head <- finalizedSlot` and `answer <- page`. `ImplementsSlotQuery == Query!QuerySpec`.
  - **Not modelled:** `getSlotPageBlockData` (149-364) only copies RPC payload fields into page data.
- **`SlotQuery.tla`** is the abstract specification of what the slot page promises for one request:
  - The node is an environment. Before the page is written it answers (`NodeAnswers`) with a failure (`failed`) or with a finalized head (`head`), possibly more than once.
  - The page is then written once (`Answer`), and it is fixed by the request and that answer:
  - A request that is neither a root nor a slot number below 2^31 gets the not-found page.
  - After a failure, any other request gets the error page, and only then.
  - Otherwise, a known root gets its block's page and an unknown root gets not-found. A slot number gets the page of its canonical block, or else of one of its orphaned blocks, or else a missed-slot page. A negative number gets not-found.
  - A page carries the slot, its uint64 neighbours, and whether the reported head is at or past it.
  - `Lookup` is a `NodeAnswers` step. `Parse` (when it does not refuse the request) and `CheckOrphaned` are stutters. `Render`, and a refusing `Parse`, are its `Answer`.
  - So a handler that showed the error page without a failed call, or computed `EpochFinalized` from anything but the reported head, would not implement it.
- **`MCSlotPage.tla`** is its instance. Slots are 0..3:
  - a canonical block in slot 0;
  - an orphaned block alone in slot 1;
  - a canonical and an orphaned block in slot 2;
  - an empty slot 3.

  2^31 is scaled to 4 and 2^64 to 8.
- **`SynchronizerProofs.tla`**, **`SynchronizerDbProofs.tla`** and **`SlotPageProofs.tla`** hold the TLAPS proofs.

## Runs

The synchronizer runs use the MCSynchronizer constants above. `MaxStarts` and `MaxPanics` bound the number of startSync calls and faults. `Finalize` is bounded by `MaxEpoch`.

| Run (cfg) | Bounds | Checks | Result |
|---|---|---|---|
| single_run (MCSingleRun) | 1 start from epoch 1 or 2, no fault, deadlock checked | TypeOK, StoredEpochMatchesChain, NoSkippedEpoch | pass, 851 states |
| restart (MCRestart) | 2 starts, 1 fault | same, and CursorNamesStoredEpoch, LookaheadCached, ImplementsEpochSync | pass, 29431 states |
| catch_up (MCCatchUp) | 1 start from epoch 0, 1 or 2, ReliableSpec | SyncCatchesUp | pass, 1336 states |
| slot_page (MCSlotPage) | every request class, every node failure | SlotPageTypeOK, PageShowsRequestedBlock, ImplementsSlotQuery | pass, 290 states |
| slot_neighbours (MCSlotNeighbours) | same | NeighboursAdjacent | violated: slot 0's previous slot is 2^64-1 |
| genesis_epoch | start at epoch 0 | StoredEpochMatchesChain | violated: slot 0 is never fetched |
| cursor_back | 2 starts | CursorMonotonic | violated: the cursor moves back |
| stale_cache | 2 starts | CacheHoldsOnlyUnconsumed | violated: the skip path does not evict |
| stop_ignored | 2 starts | StopIsHonoured | violated: a kill inside syncEpoch does not stop the loop |
| fault_running | 1 fault | RunningMeansWorker | violated: a panic leaves `running` true |
| ahead_direction | 1 start | IsEpochAheadAsSpecified | violated: the comparison is reversed |
| start_hang | 2 starts, FairSpec | StartSyncReturns | violated: startSync can block forever |

Why these bounds are enough:
- Two slots per epoch already separate a first slot from a later one, so the target-root fallback is exercised.
- Three epochs give a current epoch, a lookahead and one more epoch to carry the lookahead into.
- Two starts are enough for a kill, for a restart to a lower or higher epoch, and for a second caller queuing on `runMutex`.
- One fault reaches the recover path.

The runs that check deadlock stop only in `Quiescent`: all calls are made and have returned, no worker is left, and finality is at its bound.

Fairness (`FairSpec`):
- Callers and the worker get weak fairness, because goroutines that can run are eventually scheduled.
- Fetches and the persist get strong fairness of their successful outcomes. The errors are transient, so a retried call eventually succeeds.
- The chain gets no fairness.

`SyncCatchesUp` says that a worker, once started, gets past the finalized epoch and goes idle. It fails under FairSpec. Each single call eventually succeeds, but an error can fall on a different call in every attempt, and an epoch is retried from its first call (line 89). `ReliableSpec` adds that, from some point on, no call of syncEpoch fails (`<>[][~(SyncEpochError \/ CommitAppliedError)]_vars`), meaning the node and the database recover. Under it the property holds. This is the assumption an operator makes of a node that comes back.

The slot page runs check no deadlock. A request ends once its page is rendered.

Even under this fairness, `StartSyncReturns` fails. In the counterexample, a caller sits in the send holding `stateMutex`, while the worker waits for `stateMutex` at line 92.

The findings in PROJECT.json list each violation with the code line and what the spec says instead.

## Proofs

The proofs are in `SynchronizerProofs.tla`, `SynchronizerDbProofs.tla` and `SlotPageProofs.tla`, checked by `tlapm`.

- **`TypeCorrect`** proves `Spec => []TypeOK`, for all constants satisfying `ConstAssumption` and `BlocksAssumption`.
  - TypeOK alone is not inductive. It is proved with `TypeInv = TypeOK /\ EpochInRange`, where EpochInRange says that a worker inside its loop works on an epoch in `0..MaxEpoch`.
  - Supporting lemmas: the greatest of a bounded set of naturals exists (through `WellFoundedInduction`), and `ParentRoot`, `TargetRoot` and the fetch bounds stay within their types.
- **`StoredEpochsCorrect`** proves `Spec => []StoredEpochMatchesChain` under the assumption `0 \notin StartEpochs`. The genesis_epoch run shows that epoch 0 is a real counterexample.
  - The inductive invariant `IInv` adds six conjuncts to TypeInv:
    - `WorkerHasRun`: a live worker means `running` is set and the epoch is not 0.
    - `CallerHasEpoch`: a caller inside startSync holds an epoch of `StartEpochs`.
    - `CacheSound`: the cache holds only blocks.
    - `CacheComplete`: every block from `CacheFloor` up to `cachedSlot` is cached. `CacheFloor` is the current epoch's first slot, or the next epoch's first slot once the current one is persisted.
    - `FetchLoopComplete`: inside the fetch loop, every block from the epoch's first slot up to `slot` is cached.
    - `FetchLoopDone`: after the loop, `cachedSlot` is the loop's last slot.
  - Together these give `PersistedBlocks`: at `Persist` the cache agrees with the chain on the epoch's slots. `TargetRootLocal` then gives the right target root.
  - The invariant is needed because the cache and `cachedSlot` are carried across epochs, errors, kills and runs, which is exactly what the property depends on.
  - `RunSyncStart` keeps `CacheComplete` only because `cachedSlot = 0` lies below the first slot of any epoch other than 0.
  - IInv was checked with TLC on the restart bounds before it was proved.
- **`CachedSlotNeverStale`** proves `Spec => []LookaheadCached` under `0 \notin StartEpochs`, from the same IInv. Where the fetch loop may read `cachedSlot`, `CacheFloor` is the epoch's first slot, so `CacheComplete` is the property. A start at epoch 0 violates it, for the same reason as genesis_epoch: `cachedSlot = 0` claims slot 0 is cached.

- **`NoEpochSkipped`** proves `Spec => []NoSkippedEpoch`.
  - The invariant `SkipInv` adds `AdvanceAfterDone` to TypeInv: between the end of syncEpoch and the advance, the current epoch is synced in this run.
  - `MarkerAssumption` says that `NoData` is not an epoch record. With it, a persisted epoch is shown to count as synced.
- **`Refinement`** proves `Spec => ImplementsEpochSync` under `0 \notin StartEpochs`.
  - `RefinementStep` shows that every step, under `IInv /\ SkipInv`, is an `EpochSync` step or a stutter.
  - A `Persist` or `CommitAppliedError` stores `ChainRecord[currentEpoch]`, because `PersistedBlocks` and `TargetRootLocal` give exactly the chain's record.
  - An `Advance` moves past an epoch that `SkipInv` knows is synced, so `stored` is not `NoData` there.
  - A `Launch` with no worker is a restart to the caller's epoch.
- **`CursorStored`** (SynchronizerDbProofs) proves `Spec => []CursorNamesStoredEpoch` for all constants, genesis starts included.
  - The lemma `DbSteps` classifies every step. A step either leaves `stored` and `cursor` alone, or it is `Persist` or `CommitAppliedError`. Both of those write `PersistedRecord` (never `NoData`, by `MarkerAssumption`) to the current epoch and set the cursor to that epoch, in one step, as the transaction of lines 227-247 does.
  - The inductive invariant is just `TypeInv /\ CursorNamesStoredEpoch`, because no step removes an epoch's data.
- **`RequestedBlockShown`** (SlotPageProofs) proves `Spec => []PageShowsRequestedBlock` for every chain and bound.
  - The property speaks only of the page, which is written in the last step, so the invariant `IInv` says what each step leaves in the handler's locals:
    - `Accepted`: past parsing, a request is a root (with `blockSlot = -1`), or a number below 2^31 held in `blockSlot`.
    - After the lookup, `blockData` is what the node answers (`LookedUp`).
    - After the fallback, it is the requested block if there is one (`Resolved`).
  - `CanonicalAtFacts` is what `GetSlotDetailsBySlot` returns, given that a slot has at most one canonical block (`SlotPageAssumption`).
  - IInv was checked with TLC on MCSlotPage before it was proved.
- **`SlotPageTypeCorrect`** (SlotPageProofs) proves `Spec => []SlotPageTypeOK`, from the same IInv.
- **`SlotRefinement`** (SlotPageProofs) proves `Spec => ImplementsSlotQuery` for every chain and bound.
  - `QueryStep` shows that every step, under IInv, is a `SlotQuery` step or a stutter:
    - A `Parse` that refuses the request writes the not-found page, which is the only answer to junk or to a number of at least 2^31.
    - `Lookup` is `NodeAnswers`: the page is still unwritten, `err'` is a Boolean and `finalizedSlot'` a head.
    - `CheckOrphaned` leaves the request, `err`, `finalizedSlot` and the page alone.
    - `Render` writes the answer for the request, `err` and `finalizedSlot`. With `err` it writes the error page, the only answer after a failure. Not-found is written only when there is no block: for an unknown root, or for a negative number. Otherwise `RenderedPage` shows the page is `PageOf` the block and slot it shows.
  - For this, `Resolved` in IInv was strengthened: when the slot has a canonical block, `blockData` is that block. The strengthened IInv was checked with TLC before it was proved.
  - The page shows the block that `SlotQuery` names: the requested root, or a member of `ShownAt(n)`.

What stays with TLC only:
- Liveness (`StartSyncReturns`, `SyncCatchesUp`) and anything involving `ENABLED`. These are out of reach of the prover.
- The violation runs, which are counterexamples, not theorems.

## Not modelled

- RPC payloads, votes, the aggregator's arithmetic, logging and the HTTP layer. They are abstracted to which slots hold blocks.
- `getSlotPageBlockData`, the proposer lookup and the templates of the slot page. These are field copies and presentation.
- The data race on `running = false` (line 116). The write is modelled as atomic.
- Chain reorgs of the unfinalized lookahead (hazard at line 177). The chain is a constant, so a lookahead block cached before a reorg is never replaced.
- The finalized head read at line 91 before `stateMutex`. It is its own step, so it can race in the runs, but no property states the extra iteration it may cause as wrong.
