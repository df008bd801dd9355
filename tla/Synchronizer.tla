---------------------------- MODULE Synchronizer ----------------------------
(***************************************************************************)
(* The epoch synchronizer of src/indexer/synchronizer.go.                  *)
(*                                                                         *)
(* Threads: the callers of startSync (a set Callers) and the one worker    *)
(* goroutine runSync.  Shared state: the running flag and currentEpoch     *)
(* (guarded by stateMutex, except the worker's final running = false),     *)
(* runMutex (held by a worker for its whole run), the unbuffered killChan *)
(* (a send blocks until the worker receives in checkKillChan), the block   *)
(* cache (worker only) and the database (stored epochs and the syncstate  *)
(* cursor).  The chain is a fixed set of slots that carry a block; a      *)
(* block's root is named by its slot, its parent root by the slot of the  *)
(* previous block.  Every RPC and database call may fail transiently.     *)
(***************************************************************************)
EXTENDS Naturals

CONSTANTS
    Callers,        \* threads that call startSync
    SlotsPerEpoch,  \* utils.Config.Chain.Config.SlotsPerEpoch
    MaxEpoch,       \* highest epoch the chain finalizes in a behaviour
    StartEpochs,    \* epochs startSync is called with
    Blocks,         \* slots that hold a block on the chain
    MaxStarts,      \* number of startSync calls in a behaviour
    MaxPanics,      \* number of runtime faults inside runSync
    Worker,         \* the worker goroutine, as a mutex owner
    NoOwner,        \* an unlocked mutex
    NoRoot,         \* the empty target root (nil slice)
    NoData          \* an epoch with nothing stored

ASSUME ConstAssumption ==
    /\ SlotsPerEpoch \in Nat \ {0}
    /\ MaxEpoch \in Nat
    /\ StartEpochs \subseteq 0..MaxEpoch
    /\ MaxStarts \in Nat
    /\ MaxPanics \in Nat
    /\ Worker \notin Callers
    /\ NoOwner \notin Callers \cup {Worker}

Epochs == 0..MaxEpoch
\* The fetch loop of epoch e reads the slots of e and of e + 1.
Slots == 0..((MaxEpoch + 2) * SlotsPerEpoch - 1)

ASSUME BlocksAssumption == Blocks \subseteq Slots

FirstSlot(e) == e * SlotsPerEpoch
EpochSlots(e) == FirstSlot(e)..(FirstSlot(e) + SlotsPerEpoch - 1)

\* The least element of a non-empty set of slots.
LeastSlot(S) == CHOOSE s \in S : \A t \in S : s <= t

\* The parent root of the block at slot s: the previous block on the chain.
ParentRoot(s) ==
    LET before == {b \in Blocks : b < s}
    IN  IF before = {} THEN NoRoot
        ELSE CHOOSE b \in before : \A t \in before : t <= b

\* The target root syncEpoch computes from the blocks in `cached` for epoch
\* e: the root of the epoch's first block if it sits in the first slot,
\* else that block's parent root, and NoRoot if the epoch has no block.
TargetRoot(cached, e) ==
    LET inEpoch == cached \cap EpochSlots(e)
    IN  IF inEpoch = {} THEN NoRoot
        ELSE IF LeastSlot(inEpoch) = FirstSlot(e) THEN FirstSlot(e)
        ELSE ParentRoot(LeastSlot(inEpoch))

Roots == Slots \cup {NoRoot}
EpochRecord == [blocks : SUBSET Slots, target : Roots]

\* NoData and NoRoot are markers, not records or slots.
ASSUME MarkerAssumption == NoData \notin EpochRecord /\ NoRoot \notin Slots

CallerPcs == {"idle", "send", "unlock", "waitRun", "launch"}
WorkerPcs == {"idle", "start", "checkSynced", "fetchAssignments",
              "fetchSlots", "fetchStats", "persist", "readFinal",
              "advance", "cooldown", "exit"}
\* The points of runSync's loop body, where the recover barrier applies.
LoopPcs == WorkerPcs \ {"idle", "start", "exit"}

VARIABLES
    running,       \* sync.running
    currentEpoch,  \* sync.currentEpoch
    stateMutex,    \* owner of sync.stateMutex
    runMutex,      \* owner of sync.runMutex
    cpc,           \* program counter of each startSync caller
    startEpoch,    \* startEpoch argument of each caller's call
    starts,        \* startSync calls made so far
    wpc,           \* program counter of the worker goroutine
    cache,         \* keys of sync.cachedBlocks
    cachedSlot,    \* sync.cachedSlot
    slot,          \* loop variable of the fetch loop in syncEpoch
    finalSeen,     \* finalizedEpoch read at line 91
    panics,        \* faults caught by the recover barrier so far
    stopSeen,      \* the run has received a kill (history)
    syncFrom,      \* epoch the current run started from (history)
    finalized,     \* the chain's finalized epoch (environment)
    stored,        \* per epoch, what the database holds for it
    cursor         \* the indexer.syncstate epoch in the database

callerVars == <<cpc, startEpoch, starts>>
workerVars == <<wpc, cache, cachedSlot, slot, finalSeen, panics, stopSeen>>
dbVars == <<stored, cursor>>
vars == <<running, currentEpoch, stateMutex, runMutex, callerVars,
          workerVars, syncFrom, finalized, dbVars>>

\* db.IsEpochSynchronized
Synced == {e \in Epochs : stored[e] # NoData}

Init ==
    /\ running = FALSE
    /\ currentEpoch = 0
    /\ stateMutex = NoOwner
    /\ runMutex = NoOwner
    /\ cpc = [c \in Callers |-> "idle"]
    /\ startEpoch = [c \in Callers |-> 0]
    /\ starts = 0
    /\ wpc = "idle"
    /\ cache = {}
    /\ cachedSlot = 0
    /\ slot = 0
    /\ finalSeen = 0
    /\ panics = 0
    /\ stopSeen = FALSE
    /\ syncFrom = 0
    /\ finalized \in Epochs
    /\ stored = [e \in Epochs |-> NoData]
    /\ cursor = NoData

-----------------------------------------------------------------------------
(* checkKillChan: the worker takes the value a blocked startSync sends.    *)

KillPending == \E c \in Callers : cpc[c] = "send"

ReceiveKill ==
    \E c \in Callers : /\ cpc[c] = "send"
                       /\ cpc' = [cpc EXCEPT ![c] = "unlock"]

-----------------------------------------------------------------------------
(* startSync(startEpoch), one action per stretch between blocking points. *)

\* Lines 47-53: lock stateMutex; if running, send on killChan (blocking,
\* with stateMutex held); otherwise unlock and go on to runMutex.
StartSync(c, e) ==
    /\ cpc[c] = "idle"
    /\ starts < MaxStarts
    /\ stateMutex = NoOwner
    /\ startEpoch' = [startEpoch EXCEPT ![c] = e]
    /\ starts' = starts + 1
    /\ IF running
         THEN cpc' = [cpc EXCEPT ![c] = "send"] /\ stateMutex' = c
         ELSE cpc' = [cpc EXCEPT ![c] = "waitRun"] /\ UNCHANGED stateMutex
    /\ UNCHANGED <<running, currentEpoch, runMutex, workerVars, syncFrom,
                   finalized, dbVars>>

\* Line 51: the send has been received; unlock stateMutex.
UnlockAfterKill(c) ==
    /\ cpc[c] = "unlock"
    /\ stateMutex' = NoOwner
    /\ cpc' = [cpc EXCEPT ![c] = "waitRun"]
    /\ UNCHANGED <<running, currentEpoch, runMutex, startEpoch, starts,
                   workerVars, syncFrom, finalized, dbVars>>

\* Lines 53-54: wait for the running worker to release runMutex.
LockRun(c) ==
    /\ cpc[c] = "waitRun"
    /\ runMutex = NoOwner
    /\ runMutex' = c
    /\ cpc' = [cpc EXCEPT ![c] = "launch"]
    /\ UNCHANGED <<running, currentEpoch, stateMutex, startEpoch, starts,
                   workerVars, syncFrom, finalized, dbVars>>

\* Lines 57-66: under stateMutex, refuse if running, else set currentEpoch
\* and running and spawn runSync; the deferred unlocks release both mutexes.
Launch(c) ==
    /\ cpc[c] = "launch"
    /\ stateMutex = NoOwner
    /\ cpc' = [cpc EXCEPT ![c] = "idle"]
    /\ runMutex' = NoOwner
    /\ IF running
         THEN UNCHANGED <<currentEpoch, wpc, syncFrom>>
         ELSE /\ currentEpoch' = startEpoch[c]
              /\ syncFrom' = startEpoch[c]
              /\ wpc' = "start"
    /\ running' = TRUE
    /\ UNCHANGED <<stateMutex, startEpoch, starts, cache, cachedSlot, slot,
                   finalSeen, panics, stopSeen, finalized, dbVars>>

\* Lines 35-44: isEpochAhead(epoch), read under stateMutex.
IsEpochAhead(e) == running /\ currentEpoch < e

-----------------------------------------------------------------------------
(* runSync and syncEpoch.  Each action ends where the worker may block or  *)
(* where another thread's step can change what it does next.  An RPC or   *)
(* database error, and the 10 second sleep after it, lead to "cooldown". *)

wLocal == <<cache, cachedSlot, slot, finalSeen, panics, stopSeen>>
wShared == <<running, currentEpoch, stateMutex, runMutex, startEpoch, starts,
             syncFrom, finalized>>

\* Mutant of RunSyncStart: cachedSlot is not reset with the cache.
RunSyncStartKeepsCachedSlot ==
    /\ wpc = "start"
    /\ runMutex = NoOwner
    /\ runMutex' = Worker
    /\ cache' = {}
    /\ stopSeen' = FALSE
    /\ wpc' = "checkSynced"
    /\ UNCHANGED <<running, currentEpoch, stateMutex, callerVars, slot,
                   finalSeen, panics, syncFrom, finalized, dbVars, cachedSlot>>

\* Lines 76-80: take runMutex, reset the cache and cachedSlot.
RunSyncStart ==
    /\ wpc = "start"
    /\ runMutex = NoOwner
    /\ runMutex' = Worker
    /\ cache' = {}
    /\ cachedSlot' = 0
    /\ stopSeen' = FALSE
    /\ wpc' = "checkSynced"
    /\ UNCHANGED <<running, currentEpoch, stateMutex, callerVars, slot,
                   finalSeen, panics, syncFrom, finalized, dbVars>>

\* Lines 138-140: an epoch already in the database counts as done.
CheckSynced ==
    /\ wpc = "checkSynced"
    /\ wpc' = IF currentEpoch \in Synced THEN "readFinal"
                                         ELSE "fetchAssignments"
    /\ UNCHANGED <<cpc, wLocal, wShared, dbVars>>

\* Lines 142-153: the duties are loaded and the kill check at line 151
\* takes a pending kill: syncEpoch returns not-done.
AssignmentsKilled ==
    /\ wpc = "fetchAssignments"
    /\ ReceiveKill
    /\ stopSeen' = TRUE
    /\ wpc' = "cooldown"
    /\ UNCHANGED <<cache, cachedSlot, slot, finalSeen, panics, wShared, dbVars>>

\* Lines 142-158: the duties are loaded, no kill is pending, and the fetch
\* loop starts at the epoch's first slot.
AssignmentsLoaded ==
    /\ wpc = "fetchAssignments"
    /\ ~KillPending
    /\ slot' = FirstSlot(currentEpoch)
    /\ wpc' = "fetchSlots"
    /\ UNCHANGED <<cpc, cache, cachedSlot, finalSeen, panics, stopSeen,
                   wShared, dbVars>>

LastFetchSlot == FirstSlot(currentEpoch) + 2 * SlotsPerEpoch - 1

\* Lines 156-183: the fetch loop over the slots of this and the next
\* epoch, one action per way an iteration that does not fail can go.

\* Mutant of FetchSlotsDone: cachedSlot set to the loop variable after the
\* loop (lastSlot + 1) instead of lastSlot.
FetchSlotsDoneAtLoopEnd ==
    /\ wpc = "fetchSlots"
    /\ slot > LastFetchSlot
    /\ cachedSlot' = slot
    /\ wpc' = "fetchStats"
    /\ UNCHANGED <<cpc, cache, slot, finalSeen, panics, stopSeen, wShared,
                   dbVars>>

\* Line 183: the loop is over; cachedSlot becomes its last slot.
FetchSlotsDone ==
    /\ wpc = "fetchSlots"
    /\ slot > LastFetchSlot
    /\ cachedSlot' = LastFetchSlot
    /\ wpc' = "fetchStats"
    /\ UNCHANGED <<cpc, cache, slot, finalSeen, panics, stopSeen, wShared,
                   dbVars>>

\* Lines 159-161: a slot up to cachedSlot counts as fetched already.
SkipCachedSlot ==
    /\ wpc = "fetchSlots"
    /\ slot <= LastFetchSlot
    /\ cachedSlot >= slot
    /\ slot' = slot + 1
    /\ UNCHANGED <<cpc, wpc, cache, cachedSlot, finalSeen, panics, stopSeen,
                   wShared, dbVars>>

\* Lines 162-168: no header for the slot: an empty slot, skipped.
SkipEmptySlot ==
    /\ wpc = "fetchSlots"
    /\ slot <= LastFetchSlot
    /\ cachedSlot < slot
    /\ slot \notin Blocks
    /\ slot' = slot + 1
    /\ UNCHANGED <<cpc, wpc, cache, cachedSlot, finalSeen, panics, stopSeen,
                   wShared, dbVars>>

\* Lines 162-171: a header, then the kill check takes a pending kill.
SlotKilled ==
    /\ wpc = "fetchSlots"
    /\ slot <= LastFetchSlot
    /\ cachedSlot < slot
    /\ slot \in Blocks
    /\ ReceiveKill
    /\ stopSeen' = TRUE
    /\ wpc' = "cooldown"
    /\ UNCHANGED <<cache, cachedSlot, slot, finalSeen, panics, wShared, dbVars>>

\* Lines 162-181: header and block body loaded and put into the cache.
CacheBlock ==
    /\ wpc = "fetchSlots"
    /\ slot <= LastFetchSlot
    /\ cachedSlot < slot
    /\ slot \in Blocks
    /\ ~KillPending
    /\ cache' = cache \cup {slot}
    /\ slot' = slot + 1
    /\ UNCHANGED <<cpc, wpc, cachedSlot, finalSeen, panics, stopSeen, wShared,
                   dbVars>>

\* Lines 185-187 or 202-204: a kill check takes a pending kill.
StatsKilled ==
    /\ wpc = "fetchStats"
    /\ ReceiveKill
    /\ stopSeen' = TRUE
    /\ wpc' = "cooldown"
    /\ UNCHANGED <<cache, cachedSlot, slot, finalSeen, panics, wShared, dbVars>>

\* Lines 185-204: validator stats loaded, no kill pending.
StatsLoaded ==
    /\ wpc = "fetchStats"
    /\ ~KillPending
    /\ wpc' = "persist"
    /\ UNCHANGED <<cpc, cache, cachedSlot, slot, finalSeen, panics, stopSeen,
                   wShared, dbVars>>

\* Mutant of Persist: the eviction also drops the lookahead epoch's blocks
\* while cachedSlot still says they are cached.
PersistEvictsLookahead ==
    /\ wpc = "persist"
    /\ stored' = [stored EXCEPT ![currentEpoch] =
                    [blocks |-> cache \cap EpochSlots(currentEpoch),
                     target |-> TargetRoot(cache, currentEpoch)]]
    /\ cursor' = currentEpoch
    /\ cache' = cache \ (EpochSlots(currentEpoch) \cup EpochSlots(currentEpoch + 1))
    /\ wpc' = "readFinal"
    /\ UNCHANGED <<cpc, cachedSlot, slot, finalSeen, panics, stopSeen, wShared>>

\* Mutant of Persist: the syncstate update (lines 237-243) is left out of
\* the transaction, so the cursor is not written with the epoch.
PersistSkipsCursor ==
    /\ wpc = "persist"
    /\ stored' = [stored EXCEPT ![currentEpoch] =
                    [blocks |-> cache \cap EpochSlots(currentEpoch),
                     target |-> TargetRoot(cache, currentEpoch)]]
    /\ cache' = cache \ EpochSlots(currentEpoch)
    /\ wpc' = "readFinal"
    /\ UNCHANGED <<cpc, cachedSlot, slot, finalSeen, panics, stopSeen, wShared,
                   cursor>>

\* Mutant of Persist: the first-slot case of line 217 dropped, so an epoch
\* whose first slot holds a block is stored with that block's parent as
\* its target root.
PersistParentTarget ==
    /\ wpc = "persist"
    /\ stored' = [stored EXCEPT ![currentEpoch] =
                    [blocks |-> cache \cap EpochSlots(currentEpoch),
                     target |-> LET inEpoch == cache \cap EpochSlots(currentEpoch)
                                IN  IF inEpoch = {} THEN NoRoot
                                    ELSE ParentRoot(LeastSlot(inEpoch))]]
    /\ cursor' = currentEpoch
    /\ cache' = cache \ EpochSlots(currentEpoch)
    /\ wpc' = "readFinal"
    /\ UNCHANGED <<cpc, cachedSlot, slot, finalSeen, panics, stopSeen, wShared>>

\* Lines 207-256: compute the target root from the cache, write the epoch's
\* blocks and votes and the syncstate cursor in one transaction and commit
\* it; then evict the epoch's own slots from the cache.
Persist ==
    /\ wpc = "persist"
    /\ stored' = [stored EXCEPT ![currentEpoch] =
                    [blocks |-> cache \cap EpochSlots(currentEpoch),
                     target |-> TargetRoot(cache, currentEpoch)]]
    /\ cursor' = currentEpoch
    /\ cache' = cache \ EpochSlots(currentEpoch)
    /\ wpc' = "readFinal"
    /\ UNCHANGED <<cpc, cachedSlot, slot, finalSeen, panics, stopSeen, wShared>>

\* Lines 245-246: Commit reports an error although the database applied
\* the transaction (the connection failed after the commit reached it).
\* syncEpoch returns not-done with the error, without evicting the cache,
\* and runSync backs off and retries the epoch.
CommitAppliedError ==
    /\ wpc = "persist"
    /\ stored' = [stored EXCEPT ![currentEpoch] =
                    [blocks |-> cache \cap EpochSlots(currentEpoch),
                     target |-> TargetRoot(cache, currentEpoch)]]
    /\ cursor' = currentEpoch
    /\ wpc' = "cooldown"
    /\ UNCHANGED <<cpc, wLocal, wShared>>

\* Mutant of SyncEpochError: runSync treats a failed epoch as done and
\* advances past it.
SyncEpochErrorAdvances ==
    /\ \/ wpc \in {"fetchAssignments", "persist"}
       \/ wpc = "fetchSlots" /\ slot <= LastFetchSlot /\ cachedSlot < slot
       \/ wpc = "fetchStats" /\ ~KillPending
    /\ wpc' = "readFinal"
    /\ UNCHANGED <<cpc, wLocal, wShared, dbVars>>

\* A call of syncEpoch fails and returns an error, runSync sleeps 10 s and
\* goes to the cooldown wait: the duties RPC fails or returns nil (146),
\* a header or block RPC fails (163, 173), the validator stats are nil
\* (199, after the kill check at 185), or one of Beginx, persistEpochData,
\* SetExplorerState or Commit fails and the transaction is rolled back
\* (227-246).  Nothing the worker keeps changes.
\* Mutant: indexer.syncstate written outside the transaction, so it is
\* kept when the persist fails.
SyncStateOutsideTx ==
    /\ \/ wpc \in {"fetchAssignments", "persist"}
       \/ wpc = "fetchSlots" /\ slot <= LastFetchSlot /\ cachedSlot < slot
       \/ wpc = "fetchStats" /\ ~KillPending
    /\ cursor' = IF wpc = "persist" THEN currentEpoch ELSE cursor
    /\ wpc' = "cooldown"
    /\ UNCHANGED <<cpc, wLocal, wShared, stored>>

SyncEpochError ==
    /\ \/ wpc \in {"fetchAssignments", "persist"}
       \/ wpc = "fetchSlots" /\ slot <= LastFetchSlot /\ cachedSlot < slot
       \/ wpc = "fetchStats" /\ ~KillPending
    /\ wpc' = "cooldown"
    /\ UNCHANGED <<cpc, wLocal, wShared, dbVars>>

\* Line 91: read the finalized head before taking stateMutex.
ReadFinalized ==
    /\ wpc = "readFinal"
    /\ finalSeen' = finalized
    /\ wpc' = "advance"
    /\ UNCHANGED <<cpc, cache, cachedSlot, slot, panics, stopSeen, wShared,
                   dbVars>>

\* Mutant of Advance: the incremented epoch is not written back to
\* sync.currentEpoch, so the next iteration syncs the same epoch again.
AdvanceKeepsEpoch ==
    /\ wpc = "advance"
    /\ stateMutex = NoOwner
    /\ wpc' = IF currentEpoch + 1 > finalSeen THEN "exit" ELSE "cooldown"
    /\ UNCHANGED <<running, currentEpoch, stateMutex, runMutex, callerVars,
                   wLocal, syncFrom, finalized, dbVars>>

\* Lines 92-99: advance currentEpoch under stateMutex; stop once it passes
\* the finalized epoch read before.
Advance ==
    /\ wpc = "advance"
    /\ stateMutex = NoOwner
    /\ currentEpoch' = currentEpoch + 1
    /\ wpc' = IF currentEpoch + 1 > finalSeen THEN "exit" ELSE "cooldown"
    /\ UNCHANGED <<running, stateMutex, runMutex, callerVars, wLocal,
                   syncFrom, finalized, dbVars>>

\* Line 105: a kill arrives during the cooldown wait; leave the loop.
CooldownKilled ==
    /\ wpc = "cooldown"
    /\ ReceiveKill
    /\ stopSeen' = TRUE
    /\ wpc' = "exit"
    /\ UNCHANGED <<cache, cachedSlot, slot, finalSeen, panics, wShared, dbVars>>

\* Line 105: the cooldown timer fires with no kill pending; next iteration.
CooldownElapsed ==
    /\ wpc = "cooldown"
    /\ ~KillPending
    /\ wpc' = "checkSynced"
    /\ UNCHANGED <<cpc, cache, cachedSlot, slot, finalSeen, panics, stopSeen,
                   wShared, dbVars>>

\* Lines 110-117 and the deferred unlock: clear running (without taking
\* stateMutex) and release runMutex.
Exit ==
    /\ wpc = "exit"
    /\ running' = FALSE
    /\ runMutex' = NoOwner
    /\ wpc' = "idle"
    /\ UNCHANGED <<currentEpoch, stateMutex, callerVars, wLocal, syncFrom,
                   finalized, dbVars>>

\* Lines 70-77: a runtime fault in the loop body unwinds to the recover
\* barrier; the deferred unlock releases runMutex, line 116 is skipped.
Panic ==
    /\ wpc \in LoopPcs
    /\ panics < MaxPanics
    /\ panics' = panics + 1
    /\ runMutex' = NoOwner
    /\ wpc' = "idle"
    /\ UNCHANGED <<running, currentEpoch, stateMutex, callerVars, cache,
                   cachedSlot, slot, finalSeen, stopSeen, syncFrom, finalized,
                   dbVars>>

-----------------------------------------------------------------------------
(* The environment: the chain finalizes further epochs.                    *)

Finalize ==
    /\ finalized < MaxEpoch
    /\ finalized' = finalized + 1
    /\ UNCHANGED <<running, currentEpoch, stateMutex, runMutex, callerVars,
                   workerVars, syncFrom, dbVars>>

\* All startSync calls made and returned, and no worker left: nothing more
\* happens in the program, which is not a deadlock.
Quiescent ==
    /\ starts = MaxStarts
    /\ \A c \in Callers : cpc[c] = "idle"
    /\ wpc = "idle"
    /\ finalized = MaxEpoch
    /\ UNCHANGED vars

CallerStep(c) ==
    \/ \E e \in StartEpochs : StartSync(c, e)
    \/ UnlockAfterKill(c)
    \/ LockRun(c)
    \/ Launch(c)

\* The steps of syncEpoch that get an answer from the node and the database.
FetchAssignments == AssignmentsKilled \/ AssignmentsLoaded
FetchSlot ==
    FetchSlotsDone \/ SkipCachedSlot \/ SkipEmptySlot \/ SlotKilled \/ CacheBlock
FetchStats == StatsKilled \/ StatsLoaded

WorkerStep ==
    \/ RunSyncStart \/ CheckSynced \/ FetchAssignments \/ FetchSlot
    \/ FetchStats \/ Persist \/ CommitAppliedError \/ SyncEpochError
    \/ ReadFinalized \/ Advance
    \/ CooldownKilled \/ CooldownElapsed \/ Exit

Next ==
    \/ \E c \in Callers : CallerStep(c)
    \/ WorkerStep
    \/ Panic
    \/ Finalize
    \/ Quiescent

Spec == Init /\ [][Next]_vars

\* Every thread that can step eventually does.  RPC and database errors are
\* transient: a fetch or a commit that keeps being retried eventually
\* succeeds (strong fairness of the successful outcomes).  The chain is
\* not required to finalize further epochs.
FairSpec ==
    /\ Spec
    /\ \A c \in Callers : WF_vars(CallerStep(c))
    /\ WF_vars(WorkerStep)
    /\ SF_vars(FetchAssignments) /\ SF_vars(FetchSlot)
    /\ SF_vars(FetchStats) /\ SF_vars(Persist)

\* FairSpec, and the node and the database eventually stop failing: from
\* some point on no call of syncEpoch returns an error.  Retrying an epoch
\* from scratch (line 89) only completes once one whole attempt succeeds,
\* which strong fairness of each single call does not give.
ReliableSpec == FairSpec /\ <>[][~(SyncEpochError \/ CommitAppliedError)]_vars

-----------------------------------------------------------------------------
TypeOK ==
    /\ running \in BOOLEAN
    /\ currentEpoch \in 0..(MaxEpoch + 1)
    /\ stateMutex \in Callers \cup {Worker, NoOwner}
    /\ runMutex \in Callers \cup {Worker, NoOwner}
    /\ cpc \in [Callers -> CallerPcs]
    /\ startEpoch \in [Callers -> Epochs]
    /\ starts \in 0..MaxStarts
    /\ wpc \in WorkerPcs
    /\ cache \subseteq Slots
    /\ cachedSlot \in Slots
    /\ slot \in Nat
    /\ finalSeen \in Epochs
    /\ panics \in 0..MaxPanics
    /\ stopSeen \in BOOLEAN
    /\ syncFrom \in Epochs
    /\ finalized \in Epochs
    /\ stored \in [Epochs -> EpochRecord \cup {NoData}]
    /\ cursor \in Epochs \cup {NoData}

-----------------------------------------------------------------------------
(* Safety properties.                                                      *)

\* What the database holds for a synchronized epoch is what the chain has:
\* every block of the epoch's own slots, and the target root the epoch's
\* blocks determine.  It depends on the block cache carried between
\* epochs (the lookahead kept at line 250, cachedSlot set at line 183 and
\* reset at line 80) holding every block of the epoch when it is persisted.
StoredEpochMatchesChain ==
    \A e \in Synced :
        stored[e] = [blocks |-> Blocks \cap EpochSlots(e),
                     target |-> TargetRoot(Blocks, e)]

\* No epoch is lost: every epoch from the one the current run started at up
\* to the one it is working on is in the database.  runSync advances
\* currentEpoch only after syncEpoch returned done (lines 89-95).
NoSkippedEpoch ==
    \A e \in Epochs : syncFrom <= e /\ e < currentEpoch => e \in Synced

\* The cursor names an epoch the database holds: indexer.syncstate is
\* written in the transaction that persists the epoch (lines 227-247), so
\* no error of persistEpochData, SetExplorerState or the commit, and no
\* retry or restart, leaves the cursor on an epoch that is not stored.
CursorNamesStoredEpoch ==
    cursor # NoData => cursor \in Synced

\* cachedSlot is never stale: from the start of an epoch's syncEpoch to
\* its persist, and in the cooldown that retries it, every block from the
\* epoch's first slot up to cachedSlot is in the cache, so no block the
\* fetch loop skips as already cached (line 159) is missing.  cachedSlot
\* is set to the loop's last slot at line 183, kept across epochs, errors,
\* kills and faults, and reset at line 80 when a run starts.
LookaheadCached ==
    wpc \in LoopPcs \ {"readFinal", "advance"} =>
        \A s \in Blocks :
            FirstSlot(currentEpoch) <= s /\ s <= cachedSlot => s \in cache

\* The database cursor never moves back: the spec's SyncCursor is
\* monotonically non-decreasing.  syncEpoch writes the epoch it persisted
\* (line 238), whatever the cursor already was.
CursorMonotonic ==
    [][cursor # NoData => cursor' # NoData /\ cursor' >= cursor]_cursor

\* When syncEpoch returns done, the cache holds only slots of later epochs
\* (the spec: the Epoch Step leaves only unconsumed entries).  The skip at
\* lines 138-140 returns done without evicting anything.
CacheHoldsOnlyUnconsumed ==
    wpc = "readFinal" => \A s \in cache : s >= FirstSlot(currentEpoch + 1)

\* A run that has taken a stop signal leaves its loop without another
\* epoch attempt (the spec: a signal received at a non-cooldown point
\* exits the loop).  runSync ignores the not-done, nil-error result of the
\* checks at lines 151, 169, 185 and 202 and waits for a second signal.
StopIsHonoured ==
    stopSeen => wpc \in {"exit", "idle"}

\* running is set exactly while a worker exists (the spec: a fault caught
\* at the top level clears the running flag).  The recover barrier at
\* lines 70-74 returns before line 116 clears it.
RunningMeansWorker ==
    running => wpc # "idle"

\* isEpochAhead answers what the spec's IsAheadOf promises: true iff a
\* worker is running and its current epoch exceeds the given epoch.
IsEpochAheadAsSpecified ==
    \A e \in Epochs : IsEpochAhead(e) = (running /\ currentEpoch > e)

-----------------------------------------------------------------------------
(* Refinement of the abstract engine EpochSync.                            *)

\* What the chain has for each epoch: its blocks and its target root.
ChainRecord ==
    [e \in Epochs |-> [blocks |-> Blocks \cap EpochSlots(e),
                       target |-> TargetRoot(Blocks, e)]]

Abstract == INSTANCE EpochSync WITH head <- currentEpoch, Chain <- ChainRecord

\* The synchronizer implements the abstract engine: with currentEpoch as
\* the head, every step of startSync, runSync and syncEpoch is a restart,
\* an atomic store of the chain's data with the cursor, an advance past a
\* stored epoch, or no change to them.
ImplementsEpochSync == Abstract!Spec

-----------------------------------------------------------------------------
(* Liveness.                                                               *)

\* A run catches up and stops: once runSync is launched, the worker
\* eventually leaves with currentEpoch past the finalized epoch it last
\* read (lines 91-98), retrying failed epochs (lines 100-103) until they
\* succeed and skipping synced ones (line 138).
SyncCatchesUp ==
    wpc = "start" ~> (wpc = "idle" /\ currentEpoch > finalSeen)

\* Every startSync call returns: a stop request is received and the old
\* worker releases runMutex.  The request is sent while stateMutex is held
\* (lines 47-51), which the worker needs at line 92, and it is sent to a
\* worker that may already have left its loop (lines 96-116).
StartSyncReturns ==
    \A c \in Callers : cpc[c] # "idle" ~> cpc[c] = "idle"

=============================================================================
