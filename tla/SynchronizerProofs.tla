------------------------- MODULE SynchronizerProofs -------------------------
(***************************************************************************)
(* Proofs about the synchronizer model, for every value of the constants  *)
(* that satisfies ConstAssumption and BlocksAssumption.                   *)
(***************************************************************************)
EXTENDS Synchronizer, WellFoundedInduction, TLAPS

-----------------------------------------------------------------------------
(* Lemmas on the operators the model is built from.                       *)

\* A non-empty set of naturals has an element nothing in it is below.
LEMMA NatHasLeast ==
    ASSUME NEW S \in SUBSET Nat, S # {}
    PROVE  \E m \in S : \A t \in S : ~(t < m)
<1> DEFINE R == OpToRel(<, Nat)
<1>1. PICK x \in S : \A y \in S : ~(<<y, x>> \in R)
    BY NatLessThanWellFounded, WFMin
<1>2. ASSUME NEW y \in S, y < x PROVE <<y, x>> \in R
    <2>1. <<y, x>> \in Nat \X Nat BY <1>2
    <2>2. <<y, x>>[1] < <<y, x>>[2] BY <1>2
    <2>3. QED BY <2>1, <2>2, Zenon DEF OpToRel, R
<1>3. QED BY <1>1, <1>2, Zenon

\* A non-empty set of naturals below a bound has a greatest element.
LEMMA BoundedNatHasGreatest ==
    ASSUME NEW K \in Nat, NEW S \in SUBSET (0..K), S # {}
    PROVE  \E m \in S : \A t \in S : t <= m
<1> DEFINE T == {K - x : x \in S}
<1>1. T \subseteq Nat BY Z3
<1>2. T # {} OBVIOUS
<1>3. PICK y \in T : \A t \in T : ~(t < y) BY <1>1, <1>2, NatHasLeast
<1>4. PICK m \in S : y = K - m BY <1>3
<1>5. ASSUME NEW t \in S PROVE t <= m
    <2>1. K - t \in T OBVIOUS
    <2>2. ~(K - t < K - m) BY <2>1, <1>3, <1>4
    <2>3. QED BY <2>2
<1>6. QED BY <1>5

\* The parent root of a block is a block of the chain or NoRoot.
LEMMA ParentRootType ==
    ASSUME NEW s
    PROVE  ParentRoot(s) \in Blocks \cup {NoRoot}
<1> DEFINE before == {b \in Blocks : b < s}
<1>1. CASE before = {} BY <1>1 DEF ParentRoot
<1>2. CASE before # {}
    <2>1. (MaxEpoch + 2) * SlotsPerEpoch - 1 \in Nat
        BY ConstAssumption
    <2>2. before \subseteq 0..((MaxEpoch + 2) * SlotsPerEpoch - 1)
        BY BlocksAssumption DEF Slots
    <2>3. \E m \in before : \A t \in before : t <= m
        BY <2>1, <2>2, <1>2, BoundedNatHasGreatest
    <2>4. QED BY <2>3, <1>2 DEF ParentRoot
<1>3. QED BY <1>1, <1>2

\* The last slot the fetch loop of an epoch reads is a slot of the model.
LEMMA LastFetchSlotType ==
    ASSUME NEW e \in Epochs
    PROVE  /\ FirstSlot(e) \in Slots
           /\ FirstSlot(e) + 2 * SlotsPerEpoch - 1 \in Slots
<1>1. e * SlotsPerEpoch <= MaxEpoch * SlotsPerEpoch
    BY ConstAssumption DEF Epochs
<1>2. QED BY <1>1, ConstAssumption DEF Epochs, Slots, FirstSlot

\* TargetRoot yields a root of the model.
LEMMA TargetRootType ==
    ASSUME NEW cached \in SUBSET Slots, NEW e \in Epochs
    PROVE  TargetRoot(cached, e) \in Roots
<1>1. CASE cached \cap EpochSlots(e) = {} BY <1>1 DEF TargetRoot, Roots
<1>2. CASE cached \cap EpochSlots(e) # {}
    <2>2. FirstSlot(e) \in Slots BY LastFetchSlotType
    <2>3. ParentRoot(LeastSlot(cached \cap EpochSlots(e))) \in Roots
        BY ParentRootType, BlocksAssumption DEF Roots
    <2>4. QED BY <1>2, <2>2, <2>3 DEF TargetRoot, Roots
<1>3. QED BY <1>1, <1>2

-----------------------------------------------------------------------------
(* Type correctness.                                                       *)

\* While a worker is between its start and its exit it works on an epoch
\* of the model: Advance moves past the finalized epoch only to exit.
EpochInRange == wpc \notin {"idle", "exit"} => currentEpoch \in Epochs

TypeInv == TypeOK /\ EpochInRange

LEMMA TypeInit == Init => TypeInv
<1>1. 0 \in Slots BY LastFetchSlotType, ConstAssumption DEF FirstSlot, Epochs
<1>2. 0 \in Epochs BY ConstAssumption DEF Epochs
<1> SUFFICES ASSUME Init PROVE TypeInv OBVIOUS
<1>3. /\ cpc \in [Callers -> CallerPcs]
      /\ startEpoch \in [Callers -> Epochs]
      /\ stored \in [Epochs -> EpochRecord \cup {NoData}]
    BY <1>2 DEF Init, CallerPcs
<1>5. running \in BOOLEAN /\ stopSeen \in BOOLEAN BY DEF Init
<1>4. /\ currentEpoch \in 0..(MaxEpoch + 1)
      /\ stateMutex \in Callers \cup {Worker, NoOwner}
      /\ runMutex \in Callers \cup {Worker, NoOwner}
      /\ starts \in 0..MaxStarts /\ panics \in 0..MaxPanics
      /\ wpc \in WorkerPcs
      /\ cache \subseteq Slots /\ cachedSlot \in Slots /\ slot \in Nat
      /\ finalSeen \in Epochs /\ syncFrom \in Epochs /\ finalized \in Epochs
      /\ cursor \in Epochs \cup {NoData}
    BY <1>1, <1>2, ConstAssumption DEF Init, WorkerPcs
<1>6. TypeOK BY <1>3, <1>4, <1>5 DEF TypeOK
<1>7. QED BY <1>6 DEF Init, TypeInv, EpochInRange

LEMMA TypeStep == TypeInv /\ [Next]_vars => TypeInv'
<1> SUFFICES ASSUME TypeInv, [Next]_vars PROVE TypeInv'
    OBVIOUS
<1> USE ConstAssumption DEF TypeInv, TypeOK, EpochInRange, Slots, Epochs
<1>1. ASSUME NEW c \in Callers, NEW e \in StartEpochs, StartSync(c, e)
      PROVE  TypeInv'
    BY <1>1, SMTT(30) DEF StartSync, CallerPcs, workerVars, dbVars, Epochs
<1>2. ASSUME NEW c \in Callers, UnlockAfterKill(c) PROVE TypeInv'
    BY <1>2 DEF UnlockAfterKill, CallerPcs, workerVars, dbVars
<1>3. ASSUME NEW c \in Callers, LockRun(c) PROVE TypeInv'
    BY <1>3 DEF LockRun, CallerPcs, workerVars, dbVars
<1>4. ASSUME NEW c \in Callers, Launch(c) PROVE TypeInv'
    BY <1>4, SMTT(30) DEF Launch, CallerPcs, WorkerPcs, dbVars, Epochs
<1>5. CASE RunSyncStart
    <2>1. 0 \in Slots BY LastFetchSlotType, ConstAssumption DEF FirstSlot, Epochs
    <2>2. QED BY <1>5, <2>1 DEF RunSyncStart, WorkerPcs, callerVars, dbVars
<1>6. CASE CheckSynced
    BY <1>6 DEF CheckSynced, WorkerPcs, wLocal, wShared, dbVars
<1>7. CASE AssignmentsKilled
    BY <1>7 DEF AssignmentsKilled, ReceiveKill, CallerPcs, WorkerPcs, wShared,
                dbVars
<1>8. CASE AssignmentsLoaded
    <2>1. FirstSlot(currentEpoch) \in Slots
        BY <1>8, LastFetchSlotType DEF AssignmentsLoaded
    <2>2. QED BY <1>8, <2>1 DEF AssignmentsLoaded, WorkerPcs, wShared, dbVars
<1>20. CASE FetchSlotsDone
    <2>1. LastFetchSlot \in Slots
        BY <1>20, LastFetchSlotType DEF FetchSlotsDone, LastFetchSlot
    <2>2. QED BY <1>20, <2>1 DEF FetchSlotsDone, WorkerPcs, wShared, dbVars
<1>21. CASE SkipCachedSlot
    BY <1>21 DEF SkipCachedSlot, wShared, dbVars
<1>22. CASE SkipEmptySlot
    BY <1>22 DEF SkipEmptySlot, wShared, dbVars
<1>23. CASE SlotKilled
    BY <1>23 DEF SlotKilled, ReceiveKill, CallerPcs, WorkerPcs, wShared, dbVars
<1>24. CASE CacheBlock
    BY <1>24, BlocksAssumption DEF CacheBlock, wShared, dbVars
<1>9. CASE StatsKilled
    BY <1>9 DEF StatsKilled, ReceiveKill, CallerPcs, WorkerPcs, wShared, dbVars
<1>25. CASE StatsLoaded
    BY <1>25 DEF StatsLoaded, WorkerPcs, wShared, dbVars
<1>10. CASE Persist
    <2>1. currentEpoch \in Epochs BY <1>10 DEF Persist
    <2>2. TargetRoot(cache, currentEpoch) \in Roots
        BY <2>1, TargetRootType
    <2>3. [blocks |-> cache \cap EpochSlots(currentEpoch),
           target |-> TargetRoot(cache, currentEpoch)] \in EpochRecord
        BY <2>2 DEF EpochRecord
    <2>4. QED BY <1>10, <2>1, <2>3 DEF Persist, WorkerPcs, wShared
<1>27. CASE CommitAppliedError
    <2>1. currentEpoch \in Epochs BY <1>27 DEF CommitAppliedError
    <2>2. TargetRoot(cache, currentEpoch) \in Roots
        BY <2>1, TargetRootType
    <2>3. [blocks |-> cache \cap EpochSlots(currentEpoch),
           target |-> TargetRoot(cache, currentEpoch)] \in EpochRecord
        BY <2>2 DEF EpochRecord
    <2>4. QED BY <1>27, <2>1, <2>3 DEF CommitAppliedError, WorkerPcs, wLocal,
                 wShared
<1>11. CASE SyncEpochError
    BY <1>11 DEF SyncEpochError, WorkerPcs, wLocal, wShared, dbVars
<1>12. CASE ReadFinalized
    BY <1>12 DEF ReadFinalized, WorkerPcs, wShared, dbVars
<1>13. CASE Advance
    BY <1>13 DEF Advance, WorkerPcs, callerVars, wLocal, dbVars, Epochs
<1>14. CASE CooldownKilled
    BY <1>14 DEF CooldownKilled, ReceiveKill, CallerPcs, WorkerPcs, wShared,
                 dbVars
<1>26. CASE CooldownElapsed
    BY <1>26 DEF CooldownElapsed, WorkerPcs, wShared, dbVars
<1>15. CASE Exit
    BY <1>15 DEF Exit, WorkerPcs, callerVars, wLocal, dbVars
<1>16. CASE Panic
    BY <1>16 DEF Panic, WorkerPcs, LoopPcs, callerVars, dbVars
<1>17. CASE Finalize
    BY <1>17 DEF Finalize, callerVars, workerVars, dbVars, Epochs
<1>18. CASE Quiescent \/ UNCHANGED vars
    BY <1>18 DEF Quiescent, vars, callerVars, workerVars, dbVars
<1>19. QED
    BY <1>1, <1>2, <1>3, <1>4, <1>5, <1>6, <1>7, <1>8, <1>9, <1>10, <1>11,
       <1>12, <1>13, <1>14, <1>15, <1>16, <1>17, <1>18, <1>20, <1>21, <1>22,
       <1>23, <1>24, <1>25, <1>26, <1>27
    DEF Next, CallerStep, WorkerStep, FetchAssignments, FetchSlot, FetchStats

\* The model is well typed in every reachable state.
THEOREM TypeCorrect == Spec => []TypeOK
<1>1. Init => TypeInv BY TypeInit
<1>2. TypeInv /\ [Next]_vars => TypeInv' BY TypeStep
<1>3. TypeInv => TypeOK BY DEF TypeInv
<1>4. QED BY <1>1, <1>2, <1>3, PTL DEF Spec

-----------------------------------------------------------------------------
(* The stored epochs match the chain.                                     *)
(*                                                                         *)
(* StoredEpochMatchesChain is not inductive: it rests on the block cache  *)
(* holding every block of the epoch being persisted.  The worker keeps    *)
(* that cache across epochs: the lookahead epoch stays in it after the    *)
(* eviction at line 250, and cachedSlot (line 183) says how far it has    *)
(* been filled.  The strengthening states, for a worker inside its loop:  *)
(* the cache holds only blocks; every block from the first slot of the   *)
(* current epoch (of the next one, once the current one is persisted) up *)
(* to cachedSlot is cached; inside the fetch loop every block from the   *)
(* epoch's first slot up to the loop variable is cached; once the loop is *)
(* over cachedSlot is its last slot.  It needs the worker to start at an *)
(* epoch other than 0: cachedSlot starts at 0 (line 80), which the check  *)
(* at line 159 reads as "slot 0 is cached".                              *)

\* The lowest slot from which the cache is complete up to cachedSlot.
CacheFloor ==
    IF wpc \in {"readFinal", "advance"}
      THEN FirstSlot(currentEpoch) + SlotsPerEpoch
      ELSE FirstSlot(currentEpoch)

CacheSound == cache \subseteq Blocks

CacheComplete ==
    wpc \in LoopPcs =>
        \A s \in Blocks : CacheFloor <= s /\ s <= cachedSlot => s \in cache

FetchLoopComplete ==
    wpc = "fetchSlots" =>
        /\ FirstSlot(currentEpoch) <= slot
        /\ \A s \in Blocks : FirstSlot(currentEpoch) <= s /\ s < slot
                                => s \in cache

FetchLoopDone ==
    wpc \in {"fetchStats", "persist"} => cachedSlot = LastFetchSlot

WorkerHasRun == wpc # "idle" => running /\ currentEpoch # 0

\* A caller inside startSync holds the epoch it was called with.
CallerHasEpoch == \A c \in Callers : cpc[c] # "idle" => startEpoch[c] \in StartEpochs

Strengthening ==
    /\ WorkerHasRun
    /\ CallerHasEpoch
    /\ CacheSound
    /\ CacheComplete
    /\ FetchLoopComplete
    /\ FetchLoopDone
    /\ StoredEpochMatchesChain

IInv == TypeInv /\ Strengthening

\* Slot arithmetic: the next epoch starts SlotsPerEpoch slots later, and
\* every epoch but 0 starts after slot 0.
LEMMA FirstSlotFacts ==
    ASSUME NEW e \in Nat
    PROVE  /\ FirstSlot(e + 1) = FirstSlot(e) + SlotsPerEpoch
           /\ FirstSlot(e) \in Nat
           /\ e # 0 => FirstSlot(e) >= 1
<1>1. (e + 1) * SlotsPerEpoch = e * SlotsPerEpoch + SlotsPerEpoch
    BY ConstAssumption
<1>2. e # 0 => e * SlotsPerEpoch >= 1 * SlotsPerEpoch
    BY ConstAssumption
<1>3. QED BY <1>1, <1>2, ConstAssumption DEF FirstSlot

\* The target root depends on the cached blocks only through the blocks of
\* the epoch itself.
LEMMA TargetRootLocal ==
    ASSUME NEW A, NEW B, NEW e,
           A \cap EpochSlots(e) = B \cap EpochSlots(e)
    PROVE  TargetRoot(A, e) = TargetRoot(B, e)
BY DEF TargetRoot

LEMMA IInvInit ==
    ASSUME 0 \notin StartEpochs
    PROVE  Init => IInv
<1> SUFFICES ASSUME Init PROVE IInv OBVIOUS
<1>1. TypeInv BY TypeInit
<1>2. Synced = {} BY DEF Init, Synced
<1>3. QED BY <1>1, <1>2 DEF Init, IInv, Strengthening, WorkerHasRun, CallerHasEpoch,
                            CacheSound, CacheComplete, FetchLoopComplete,
                            FetchLoopDone, StoredEpochMatchesChain, LoopPcs,
                            WorkerPcs

\* The epoch the worker has persisted holds every block of its slots: the
\* cache holds only blocks and, once the fetch loop is over, every block
\* from the epoch's first slot to the end of the lookahead.
LEMMA PersistedBlocks ==
    ASSUME IInv, wpc = "persist"
    PROVE  cache \cap EpochSlots(currentEpoch) = Blocks \cap EpochSlots(currentEpoch)
<1> USE ConstAssumption DEF IInv, Strengthening, TypeInv, TypeOK, EpochInRange,
                            Epochs, Slots
<1>1. currentEpoch \in Nat OBVIOUS
<1>2. FirstSlot(currentEpoch) \in Nat BY <1>1, FirstSlotFacts
<1>3. cachedSlot = FirstSlot(currentEpoch) + 2 * SlotsPerEpoch - 1
    BY DEF FetchLoopDone, LastFetchSlot
<1>4. ASSUME NEW s \in Blocks \cap EpochSlots(currentEpoch) PROVE s \in cache
    <2>1. FirstSlot(currentEpoch) <= s /\ s <= cachedSlot
        BY <1>2, <1>3, <1>4 DEF EpochSlots
    <2>2. QED BY <2>1 DEF CacheComplete, CacheFloor, LoopPcs, WorkerPcs
<1>5. QED BY <1>4 DEF CacheSound

\* A step that leaves the worker and the database alone, and keeps every
\* caller's epoch, keeps the strengthening.
LEMMA WorkerSideUnchanged ==
    ASSUME Strengthening, CallerHasEpoch',
           UNCHANGED <<running, currentEpoch, wpc, cache, cachedSlot, slot,
                       stored>>
    PROVE  Strengthening'
BY DEF Strengthening, WorkerHasRun, CacheSound, CacheComplete,
       FetchLoopComplete, FetchLoopDone, StoredEpochMatchesChain, Synced,
       CacheFloor, LastFetchSlot

LEMMA IInvStep ==
    ASSUME 0 \notin StartEpochs
    PROVE  IInv /\ [Next]_vars => IInv'
<1> SUFFICES ASSUME IInv, [Next]_vars PROVE IInv' OBVIOUS
<1>0. TypeInv' BY TypeStep DEF IInv
<1> SUFFICES Strengthening' BY <1>0 DEF IInv
\* The typing facts the steps below use, without the Boolean ones.
<1>T. /\ currentEpoch \in Nat
      /\ wpc \notin {"idle", "exit"} => currentEpoch \in 0..MaxEpoch
      /\ cachedSlot \in Nat /\ slot \in Nat /\ cache \subseteq Nat
      /\ stored \in [0..MaxEpoch -> EpochRecord \cup {NoData}]
      /\ cpc \in [Callers -> CallerPcs] /\ startEpoch \in [Callers -> Epochs]
    BY ConstAssumption DEF IInv, TypeInv, TypeOK, EpochInRange, Slots, Epochs
<1>F. /\ FirstSlot(currentEpoch) \in Nat
      /\ FirstSlot(currentEpoch + 1) = FirstSlot(currentEpoch) + SlotsPerEpoch
      /\ currentEpoch # 0 => FirstSlot(currentEpoch) >= 1
    BY <1>T, FirstSlotFacts
<1> USE <1>T, <1>F, ConstAssumption DEF Epochs
<1> USE DEF IInv, Strengthening
<1>1. ASSUME NEW c \in Callers, NEW e \in StartEpochs, StartSync(c, e)
      PROVE  Strengthening'
    <2>1. CallerHasEpoch'
        <3>1. startEpoch' = [startEpoch EXCEPT ![c] = e] BY <1>1 DEF StartSync
        <3>2. cpc' = [cpc EXCEPT ![c] = "send"] \/ cpc' = [cpc EXCEPT ![c] = "waitRun"]
            BY <1>1 DEF StartSync
        <3>3. QED BY <3>1, <3>2 DEF CallerHasEpoch
    <2>2. QED BY <1>1, <2>1, WorkerSideUnchanged DEF StartSync, workerVars, dbVars
<1>2. ASSUME NEW c \in Callers, UnlockAfterKill(c) PROVE Strengthening'
    <2>1. CallerHasEpoch' BY <1>2 DEF UnlockAfterKill, CallerHasEpoch
    <2>2. QED BY <1>2, <2>1, WorkerSideUnchanged
              DEF UnlockAfterKill, workerVars, dbVars
<1>3. ASSUME NEW c \in Callers, LockRun(c) PROVE Strengthening'
    <2>1. CallerHasEpoch' BY <1>3 DEF LockRun, CallerHasEpoch
    <2>2. QED BY <1>3, <2>1, WorkerSideUnchanged DEF LockRun, workerVars, dbVars
<1>4. ASSUME NEW c \in Callers, Launch(c) PROVE Strengthening'
    <2>1. CASE running
        BY <1>4, <2>1 DEF Launch, dbVars, WorkerHasRun,
           CallerHasEpoch, CacheSound, CacheComplete, FetchLoopComplete,
           FetchLoopDone, StoredEpochMatchesChain, Synced, CacheFloor,
           LastFetchSlot
    <2>2. CASE ~running
        <3>1. wpc = "idle" /\ wpc' = "start" /\ currentEpoch' # 0
            BY <1>4, <2>2 DEF Launch, WorkerHasRun, CallerHasEpoch
        <3>2. QED BY <1>4, <2>2, <3>1 DEF Launch, dbVars, WorkerHasRun,
           CallerHasEpoch, CacheSound, CacheComplete, FetchLoopComplete,
           FetchLoopDone, StoredEpochMatchesChain, Synced, LoopPcs, WorkerPcs
    <2>5. QED BY <2>1, <2>2
<1>5. CASE RunSyncStart
    <2>1. currentEpoch \in Nat /\ currentEpoch # 0
        BY <1>5 DEF RunSyncStart, WorkerHasRun
    <2>2. FirstSlot(currentEpoch) >= 1 BY <2>1, FirstSlotFacts
    <2>3. QED BY <1>5, <2>2 DEF RunSyncStart, callerVars, dbVars, WorkerHasRun,
           CallerHasEpoch, CacheSound, CacheComplete, FetchLoopComplete,
           FetchLoopDone, StoredEpochMatchesChain, Synced, CacheFloor
<1>6. CASE CheckSynced
    <2>1. FirstSlot(currentEpoch) \in Nat BY <1>6, FirstSlotFacts DEF CheckSynced
    <2>2. QED BY <1>6, <2>1 DEF CheckSynced, wLocal, wShared, dbVars,
           WorkerHasRun, CallerHasEpoch, CacheSound, CacheComplete,
           FetchLoopComplete, FetchLoopDone, StoredEpochMatchesChain, Synced,
           CacheFloor, LoopPcs, WorkerPcs
<1>7. CASE AssignmentsKilled
    BY <1>7 DEF AssignmentsKilled, ReceiveKill, wShared, dbVars,
       WorkerHasRun, CallerHasEpoch, CacheSound, CacheComplete,
       FetchLoopComplete, FetchLoopDone, StoredEpochMatchesChain, Synced,
       CacheFloor, LoopPcs, WorkerPcs
<1>8. CASE AssignmentsLoaded
    BY <1>8 DEF AssignmentsLoaded, wShared, dbVars,
       WorkerHasRun, CallerHasEpoch, CacheSound, CacheComplete,
       FetchLoopComplete, FetchLoopDone, StoredEpochMatchesChain, Synced,
       CacheFloor, LoopPcs, WorkerPcs
<1>9. CASE FetchSlotsDone
    BY <1>9 DEF FetchSlotsDone, wShared, dbVars, LastFetchSlot,
       WorkerHasRun, CallerHasEpoch, CacheSound, CacheComplete,
       FetchLoopComplete, FetchLoopDone, StoredEpochMatchesChain, Synced,
       CacheFloor, LoopPcs, WorkerPcs
<1>10. CASE SkipCachedSlot
    BY <1>10 DEF SkipCachedSlot, wShared, dbVars,
       WorkerHasRun, CallerHasEpoch, CacheSound, CacheComplete,
       FetchLoopComplete, FetchLoopDone, StoredEpochMatchesChain, Synced,
       CacheFloor, LoopPcs, WorkerPcs
<1>11. CASE SkipEmptySlot
    BY <1>11 DEF SkipEmptySlot, wShared, dbVars,
       WorkerHasRun, CallerHasEpoch, CacheSound, CacheComplete,
       FetchLoopComplete, FetchLoopDone, StoredEpochMatchesChain, Synced,
       CacheFloor, LoopPcs, WorkerPcs
<1>12. CASE SlotKilled
    BY <1>12 DEF SlotKilled, ReceiveKill, wShared, dbVars,
       WorkerHasRun, CallerHasEpoch, CacheSound, CacheComplete,
       FetchLoopComplete, FetchLoopDone, StoredEpochMatchesChain, Synced,
       CacheFloor, LoopPcs, WorkerPcs
<1>13. CASE CacheBlock
    BY <1>13 DEF CacheBlock, wShared, dbVars,
       WorkerHasRun, CallerHasEpoch, CacheSound, CacheComplete,
       FetchLoopComplete, FetchLoopDone, StoredEpochMatchesChain, Synced,
       CacheFloor, LoopPcs, WorkerPcs
<1>14. CASE StatsKilled
    BY <1>14 DEF StatsKilled, ReceiveKill, wShared, dbVars,
       WorkerHasRun, CallerHasEpoch, CacheSound, CacheComplete,
       FetchLoopComplete, FetchLoopDone, StoredEpochMatchesChain, Synced,
       CacheFloor, LoopPcs, WorkerPcs
<1>15. CASE StatsLoaded
    BY <1>15 DEF StatsLoaded, wShared, dbVars, LastFetchSlot,
       WorkerHasRun, CallerHasEpoch, CacheSound, CacheComplete,
       FetchLoopComplete, FetchLoopDone, StoredEpochMatchesChain, Synced,
       CacheFloor, LoopPcs, WorkerPcs
<1>16. CASE Persist
    <2>1. currentEpoch \in Epochs BY <1>16 DEF Persist
    <2>2. cache \cap EpochSlots(currentEpoch) = Blocks \cap EpochSlots(currentEpoch)
        BY <1>16, PersistedBlocks DEF Persist
    <2>3. TargetRoot(cache, currentEpoch) = TargetRoot(Blocks, currentEpoch)
        BY <2>2, TargetRootLocal
    <2>4. StoredEpochMatchesChain'
        BY <1>16, <2>1, <2>2, <2>3 DEF Persist, StoredEpochMatchesChain, Synced
    <2>5. FirstSlot(currentEpoch) \in Nat BY <2>1, FirstSlotFacts
    <2>6. CacheComplete'
        <3>1. CacheFloor' = FirstSlot(currentEpoch) + SlotsPerEpoch
            BY <1>16 DEF Persist, wShared, CacheFloor
        <3>2. SUFFICES ASSUME NEW s \in Blocks, CacheFloor' <= s, s <= cachedSlot'
                       PROVE  s \in cache'
            BY DEF CacheComplete
        <3>3. s \in cache
            BY <1>16, <2>5, <3>1, <3>2, BlocksAssumption
            DEF Persist, CacheComplete, CacheFloor, LoopPcs, WorkerPcs, Slots
        <3>4. s \notin EpochSlots(currentEpoch)
            BY <2>5, <3>1, <3>2 DEF EpochSlots
        <3>5. QED BY <1>16, <3>3, <3>4 DEF Persist
    <2>7. QED BY <1>16, <2>4, <2>6 DEF Persist, wShared,
           WorkerHasRun, CallerHasEpoch, CacheSound,
           FetchLoopComplete, FetchLoopDone
<1>27. CASE CommitAppliedError
    <2>1. currentEpoch \in Epochs BY <1>27 DEF CommitAppliedError
    <2>2. cache \cap EpochSlots(currentEpoch) = Blocks \cap EpochSlots(currentEpoch)
        BY <1>27, PersistedBlocks DEF CommitAppliedError
    <2>3. TargetRoot(cache, currentEpoch) = TargetRoot(Blocks, currentEpoch)
        BY <2>2, TargetRootLocal
    <2>4. StoredEpochMatchesChain'
        BY <1>27, <2>1, <2>2, <2>3 DEF CommitAppliedError, StoredEpochMatchesChain,
           Synced
    <2>5. QED BY <1>27, <2>4 DEF CommitAppliedError, wLocal, wShared,
           WorkerHasRun, CallerHasEpoch, CacheSound, CacheComplete,
           FetchLoopComplete, FetchLoopDone, CacheFloor, LoopPcs, WorkerPcs
<1>17. CASE SyncEpochError
    BY <1>17 DEF SyncEpochError, wLocal, wShared, dbVars,
       WorkerHasRun, CallerHasEpoch, CacheSound, CacheComplete,
       FetchLoopComplete, FetchLoopDone, StoredEpochMatchesChain, Synced,
       CacheFloor, LoopPcs, WorkerPcs
<1>18. CASE ReadFinalized
    BY <1>18 DEF ReadFinalized, wShared, dbVars,
       WorkerHasRun, CallerHasEpoch, CacheSound, CacheComplete,
       FetchLoopComplete, FetchLoopDone, StoredEpochMatchesChain, Synced,
       CacheFloor, LoopPcs, WorkerPcs
<1>19. CASE Advance
    <2>1. currentEpoch \in Nat BY <1>19 DEF Advance
    <2>2. FirstSlot(currentEpoch + 1) = FirstSlot(currentEpoch) + SlotsPerEpoch
        BY <2>1, FirstSlotFacts
    <2>3. QED BY <1>19, <2>2 DEF Advance, callerVars, wLocal, dbVars,
           WorkerHasRun, CallerHasEpoch, CacheSound, CacheComplete,
           FetchLoopComplete, FetchLoopDone, StoredEpochMatchesChain, Synced,
           CacheFloor, LoopPcs, WorkerPcs
<1>20. CASE CooldownKilled
    BY <1>20 DEF CooldownKilled, ReceiveKill, wShared, dbVars,
       WorkerHasRun, CallerHasEpoch, CacheSound, CacheComplete,
       FetchLoopComplete, FetchLoopDone, StoredEpochMatchesChain, Synced,
       CacheFloor, LoopPcs, WorkerPcs
<1>21. CASE CooldownElapsed
    BY <1>21 DEF CooldownElapsed, wShared, dbVars,
       WorkerHasRun, CallerHasEpoch, CacheSound, CacheComplete,
       FetchLoopComplete, FetchLoopDone, StoredEpochMatchesChain, Synced,
       CacheFloor, LoopPcs, WorkerPcs
<1>22. CASE Exit
    BY <1>22 DEF Exit, callerVars, wLocal, dbVars,
       WorkerHasRun, CallerHasEpoch, CacheSound, CacheComplete,
       FetchLoopComplete, FetchLoopDone, StoredEpochMatchesChain, Synced,
       CacheFloor, LoopPcs, WorkerPcs
<1>23. CASE Panic
    BY <1>23 DEF Panic, callerVars, dbVars,
       WorkerHasRun, CallerHasEpoch, CacheSound, CacheComplete,
       FetchLoopComplete, FetchLoopDone, StoredEpochMatchesChain, Synced,
       CacheFloor, LoopPcs, WorkerPcs
<1>24. CASE Finalize
    BY <1>24 DEF Finalize, callerVars, workerVars, dbVars,
       WorkerHasRun, CallerHasEpoch, CacheSound, CacheComplete,
       FetchLoopComplete, FetchLoopDone, StoredEpochMatchesChain, Synced,
       CacheFloor, LastFetchSlot
<1>25. CASE Quiescent \/ UNCHANGED vars
    BY <1>25 DEF Quiescent, vars, callerVars, workerVars, dbVars,
       WorkerHasRun, CallerHasEpoch, CacheSound, CacheComplete,
       FetchLoopComplete, FetchLoopDone, StoredEpochMatchesChain, Synced,
       CacheFloor, LastFetchSlot
<1>26. QED
    BY <1>1, <1>2, <1>3, <1>4, <1>5, <1>6, <1>7, <1>8, <1>9, <1>10, <1>11,
       <1>12, <1>13, <1>14, <1>15, <1>16, <1>17, <1>18, <1>19, <1>20, <1>21,
       <1>22, <1>23, <1>24, <1>25, <1>27
    DEF Next, CallerStep, WorkerStep, FetchAssignments, FetchSlot, FetchStats

\* Every epoch the worker writes to the database holds exactly the blocks
\* of the chain in its slots and the target root they determine, for runs
\* started at epochs other than 0: the block cache kept across epochs,
\* cachedSlot and the eviction at line 250 never lose or invent a block.
THEOREM StoredEpochsCorrect ==
    ASSUME 0 \notin StartEpochs
    PROVE  Spec => []StoredEpochMatchesChain
<1>1. Init => IInv BY IInvInit
<1>2. IInv /\ [Next]_vars => IInv' BY IInvStep
<1>3. IInv => StoredEpochMatchesChain BY DEF IInv, Strengthening
<1>4. QED BY <1>1, <1>2, <1>3, PTL DEF Spec

\* For runs started at epochs other than 0, cachedSlot is never stale:
\* whatever errors, kills, faults and restarts happened, every block from
\* the current epoch's first slot up to cachedSlot is cached whenever the
\* fetch loop may read cachedSlot (line 159).  It is CacheComplete of IInv
\* at the points where CacheFloor is the epoch's first slot.
THEOREM CachedSlotNeverStale ==
    ASSUME 0 \notin StartEpochs
    PROVE  Spec => []LookaheadCached
<1>1. Init => IInv BY IInvInit
<1>2. IInv /\ [Next]_vars => IInv' BY IInvStep
<1>3. IInv => LookaheadCached
      BY DEF IInv, Strengthening, CacheComplete, CacheFloor, LookaheadCached
<1>4. QED BY <1>1, <1>2, <1>3, PTL DEF Spec

-----------------------------------------------------------------------------
(* No epoch is skipped.                                                    *)
(*                                                                         *)
(* runSync advances currentEpoch only after syncEpoch returned done, and  *)
(* done means the epoch is in the database: it was found there (line 138) *)
(* or committed (line 245).  Nothing is ever removed from the database.   *)

\* Once syncEpoch has returned done, the epoch is in the database.
AdvanceAfterDone == wpc \in {"readFinal", "advance"} => currentEpoch \in Synced

SkipInv == TypeInv /\ AdvanceAfterDone /\ NoSkippedEpoch

\* A step that leaves the worker's epoch, its position and the database
\* alone keeps SkipInv's two conjuncts.
LEMMA SkipFrame ==
    ASSUME AdvanceAfterDone, NoSkippedEpoch,
           UNCHANGED <<wpc, currentEpoch, syncFrom, stored>>
    PROVE  AdvanceAfterDone' /\ NoSkippedEpoch'
BY DEF AdvanceAfterDone, NoSkippedEpoch, Synced

LEMMA SkipInvInit == Init => SkipInv
<1> SUFFICES ASSUME Init PROVE SkipInv OBVIOUS
<1>1. TypeInv BY TypeInit
<1>2. AdvanceAfterDone
    <2>1. wpc = "idle" BY DEF Init
    <2>2. QED BY <2>1 DEF AdvanceAfterDone
<1>3. NoSkippedEpoch BY DEF Init, NoSkippedEpoch, Epochs
<1>4. QED BY <1>1, <1>2, <1>3 DEF SkipInv

LEMMA SkipInvStep == SkipInv /\ [Next]_vars => SkipInv'
<1> SUFFICES ASSUME SkipInv, [Next]_vars PROVE SkipInv' OBVIOUS
<1>0. TypeInv' BY TypeStep DEF SkipInv
<1> SUFFICES AdvanceAfterDone' /\ NoSkippedEpoch' BY <1>0 DEF SkipInv
<1>T. /\ currentEpoch \in Nat /\ syncFrom \in Nat
      /\ stored \in [0..MaxEpoch -> EpochRecord \cup {NoData}]
      /\ startEpoch \in [Callers -> 0..MaxEpoch]
    BY ConstAssumption DEF SkipInv, TypeInv, TypeOK, Epochs
<1> USE <1>T, ConstAssumption DEF SkipInv, Epochs
<1> DEFINE Frame == UNCHANGED <<wpc, currentEpoch, syncFrom, stored>>
<1>1. ASSUME NEW c \in Callers, NEW e \in StartEpochs, StartSync(c, e)
      PROVE  AdvanceAfterDone' /\ NoSkippedEpoch'
    BY <1>1, SkipFrame DEF StartSync, workerVars, dbVars
<1>2. ASSUME NEW c \in Callers, UnlockAfterKill(c)
      PROVE  AdvanceAfterDone' /\ NoSkippedEpoch'
    BY <1>2, SkipFrame DEF UnlockAfterKill, workerVars, dbVars
<1>3. ASSUME NEW c \in Callers, LockRun(c)
      PROVE  AdvanceAfterDone' /\ NoSkippedEpoch'
    BY <1>3, SkipFrame DEF LockRun, workerVars, dbVars
<1>4. ASSUME NEW c \in Callers, Launch(c)
      PROVE  AdvanceAfterDone' /\ NoSkippedEpoch'
    <2>1. CASE running
        <3>1. UNCHANGED <<wpc, currentEpoch, syncFrom, stored>>
            BY <1>4, <2>1 DEF Launch, dbVars
        <3>2. QED BY <3>1, SkipFrame
    <2>2. CASE ~running
        <3>1. currentEpoch' = syncFrom' /\ wpc' = "start"
            BY <1>4, <2>2 DEF Launch
        <3>2. currentEpoch' \in Nat BY <1>0 DEF TypeInv, TypeOK
        <3>3. QED BY <3>1, <3>2 DEF AdvanceAfterDone, NoSkippedEpoch
    <2>3. QED BY <2>1, <2>2
<1>5. CASE RunSyncStart
    BY <1>5 DEF RunSyncStart, dbVars, AdvanceAfterDone, NoSkippedEpoch, Synced
<1>6. CASE CheckSynced
    BY <1>6 DEF CheckSynced, wShared, dbVars, AdvanceAfterDone,
                NoSkippedEpoch, Synced
<1>7. CASE AssignmentsKilled
    BY <1>7 DEF AssignmentsKilled, wShared, dbVars, AdvanceAfterDone,
                NoSkippedEpoch, Synced
<1>8. CASE AssignmentsLoaded
    BY <1>8 DEF AssignmentsLoaded, wShared, dbVars, AdvanceAfterDone,
                NoSkippedEpoch, Synced
<1>9. CASE FetchSlotsDone
    BY <1>9 DEF FetchSlotsDone, wShared, dbVars, AdvanceAfterDone,
                NoSkippedEpoch, Synced
<1>10. CASE SkipCachedSlot
    BY <1>10, SkipFrame DEF SkipCachedSlot, wShared, dbVars
<1>11. CASE SkipEmptySlot
    BY <1>11, SkipFrame DEF SkipEmptySlot, wShared, dbVars
<1>12. CASE SlotKilled
    BY <1>12 DEF SlotKilled, wShared, dbVars, AdvanceAfterDone,
                 NoSkippedEpoch, Synced
<1>13. CASE CacheBlock
    BY <1>13, SkipFrame DEF CacheBlock, wShared, dbVars
<1>14. CASE StatsKilled
    BY <1>14 DEF StatsKilled, wShared, dbVars, AdvanceAfterDone,
                 NoSkippedEpoch, Synced
<1>15. CASE StatsLoaded
    BY <1>15 DEF StatsLoaded, wShared, dbVars, AdvanceAfterDone,
                 NoSkippedEpoch, Synced
<1>16. CASE Persist
    <2>1. currentEpoch \in 0..MaxEpoch
        BY <1>16 DEF Persist, SkipInv, TypeInv, EpochInRange
    <2>2. stored'[currentEpoch] # NoData
        <3>1. stored'[currentEpoch] \in EpochRecord
            <4>1. TargetRoot(cache, currentEpoch) \in Roots
                BY <2>1, TargetRootType DEF SkipInv, TypeInv, TypeOK, Slots
            <4>2. cache \cap EpochSlots(currentEpoch) \subseteq Slots
                BY DEF SkipInv, TypeInv, TypeOK
            <4>3. QED BY <1>16, <2>1, <4>1, <4>2 DEF Persist, EpochRecord
        <3>2. QED BY <3>1, MarkerAssumption
    <2>3. \A e \in 0..MaxEpoch : stored[e] # NoData => stored'[e] # NoData
        BY <1>16, <2>2 DEF Persist
    <2>4. QED BY <1>16, <2>1, <2>2, <2>3 DEF Persist, wShared,
                 AdvanceAfterDone, NoSkippedEpoch, Synced
<1>27. CASE CommitAppliedError
    <2>1. currentEpoch \in 0..MaxEpoch
        BY <1>27 DEF CommitAppliedError, SkipInv, TypeInv, EpochInRange
    <2>2. stored'[currentEpoch] # NoData
        <3>1. stored'[currentEpoch] \in EpochRecord
            <4>1. TargetRoot(cache, currentEpoch) \in Roots
                BY <2>1, TargetRootType DEF SkipInv, TypeInv, TypeOK, Slots
            <4>2. cache \cap EpochSlots(currentEpoch) \subseteq Slots
                BY DEF SkipInv, TypeInv, TypeOK
            <4>3. QED BY <1>27, <2>1, <4>1, <4>2 DEF CommitAppliedError,
                         EpochRecord
        <3>2. QED BY <3>1, MarkerAssumption
    <2>3. \A e \in 0..MaxEpoch : stored[e] # NoData => stored'[e] # NoData
        BY <1>27, <2>2 DEF CommitAppliedError
    <2>4. QED BY <1>27, <2>1, <2>2, <2>3 DEF CommitAppliedError, wShared,
                 AdvanceAfterDone, NoSkippedEpoch, Synced
<1>17. CASE SyncEpochError
    BY <1>17 DEF SyncEpochError, wLocal, wShared, dbVars, AdvanceAfterDone,
                 NoSkippedEpoch, Synced
<1>18. CASE ReadFinalized
    BY <1>18 DEF ReadFinalized, wShared, dbVars, AdvanceAfterDone,
                 NoSkippedEpoch, Synced
<1>19. CASE Advance
    BY <1>19 DEF Advance, dbVars, AdvanceAfterDone, NoSkippedEpoch, Synced
<1>20. CASE CooldownKilled
    BY <1>20 DEF CooldownKilled, wShared, dbVars, AdvanceAfterDone,
                 NoSkippedEpoch, Synced
<1>21. CASE CooldownElapsed
    BY <1>21 DEF CooldownElapsed, wShared, dbVars, AdvanceAfterDone,
                 NoSkippedEpoch, Synced
<1>22. CASE Exit
    BY <1>22 DEF Exit, dbVars, wLocal, AdvanceAfterDone, NoSkippedEpoch, Synced
<1>23. CASE Panic
    BY <1>23 DEF Panic, dbVars, AdvanceAfterDone, NoSkippedEpoch, Synced
<1>24. CASE Finalize
    BY <1>24, SkipFrame DEF Finalize, workerVars, dbVars
<1>25. CASE Quiescent \/ UNCHANGED vars
    BY <1>25, SkipFrame DEF Quiescent, vars, workerVars, dbVars
<1>26. QED
    BY <1>1, <1>2, <1>3, <1>4, <1>5, <1>6, <1>7, <1>8, <1>9, <1>10, <1>11,
       <1>12, <1>13, <1>14, <1>15, <1>16, <1>17, <1>18, <1>19, <1>20, <1>21,
       <1>22, <1>23, <1>24, <1>25, <1>27
    DEF Next, CallerStep, WorkerStep, FetchAssignments, FetchSlot, FetchStats

\* runSync never moves past an epoch that is not in the database: every
\* epoch from the one startSync launched the run at up to the worker's
\* current epoch is synchronized (lines 89-99 advance only on done).
THEOREM NoEpochSkipped == Spec => []NoSkippedEpoch
<1>1. Init => SkipInv BY SkipInvInit
<1>2. SkipInv /\ [Next]_vars => SkipInv' BY SkipInvStep
<1>3. SkipInv => NoSkippedEpoch BY DEF SkipInv
<1>4. QED BY <1>1, <1>2, <1>3, PTL DEF Spec

-----------------------------------------------------------------------------
(* The synchronizer implements EpochSync.                                  *)
(*                                                                         *)
(* Under the refinement mapping head = currentEpoch, Launch of a new run  *)
(* is Restart, Persist and a commit applied despite its error are Store, *)
(* Advance is Advance; every other step leaves currentEpoch, stored and   *)
(* cursor alone.  Store needs the cache                                   *)
(* to agree with the chain on the epoch (IInv, via PersistedBlocks),      *)
(* Advance needs the epoch stored (SkipInv), Restart needs the caller's   *)
(* epoch to be one of StartEpochs (IInv's CallerHasEpoch).                *)

\* A step that leaves the mapped variables alone is an abstract stutter.
LEMMA AbstractStutter ==
    ASSUME UNCHANGED <<currentEpoch, stored, cursor>>
    PROVE  [Abstract!Next]_Abstract!avars
BY DEF Abstract!avars

LEMMA RefinementStep ==
    ASSUME 0 \notin StartEpochs
    PROVE  IInv /\ SkipInv /\ [Next]_vars => [Abstract!Next]_Abstract!avars
<1> SUFFICES ASSUME IInv, SkipInv, [Next]_vars
             PROVE  [Abstract!Next]_Abstract!avars
    OBVIOUS
<1>1. CASE \E c \in Callers : Launch(c) /\ ~running
    <2>1. PICK c \in Callers : Launch(c) /\ ~running BY <1>1
    <2>2. startEpoch[c] \in StartEpochs
        BY <2>1 DEF Launch, IInv, Strengthening, CallerHasEpoch
    <2>3. Abstract!Restart(startEpoch[c])
        BY <2>1 DEF Launch, dbVars, Abstract!Restart
    <2>4. QED BY <2>2, <2>3 DEF Abstract!Next
<1>2. CASE Persist
    <2>1. currentEpoch \in Epochs
        BY <1>2 DEF Persist, IInv, TypeInv, EpochInRange
    <2>2. cache \cap EpochSlots(currentEpoch) = Blocks \cap EpochSlots(currentEpoch)
        BY <1>2, PersistedBlocks DEF Persist
    <2>3. TargetRoot(cache, currentEpoch) = TargetRoot(Blocks, currentEpoch)
        BY <2>2, TargetRootLocal
    <2>4. stored' = [stored EXCEPT ![currentEpoch] = ChainRecord[currentEpoch]]
        BY <1>2, <2>1, <2>2, <2>3 DEF Persist, ChainRecord
    <2>5. Abstract!Store
        BY <1>2, <2>1, <2>4 DEF Persist, wShared, Abstract!Store,
           Abstract!Epochs, Epochs
    <2>6. QED BY <2>5 DEF Abstract!Next
<1>6. CASE CommitAppliedError
    <2>1. currentEpoch \in Epochs
        BY <1>6 DEF CommitAppliedError, IInv, TypeInv, EpochInRange
    <2>2. cache \cap EpochSlots(currentEpoch) = Blocks \cap EpochSlots(currentEpoch)
        BY <1>6, PersistedBlocks DEF CommitAppliedError
    <2>3. TargetRoot(cache, currentEpoch) = TargetRoot(Blocks, currentEpoch)
        BY <2>2, TargetRootLocal
    <2>4. stored' = [stored EXCEPT ![currentEpoch] = ChainRecord[currentEpoch]]
        BY <1>6, <2>1, <2>2, <2>3 DEF CommitAppliedError, ChainRecord
    <2>5. Abstract!Store
        BY <1>6, <2>1, <2>4 DEF CommitAppliedError, wShared, Abstract!Store,
           Abstract!Epochs, Epochs
    <2>6. QED BY <2>5 DEF Abstract!Next
<1>3. CASE Advance
    <2>1. currentEpoch \in Synced BY <1>3 DEF Advance, SkipInv, AdvanceAfterDone
    <2>2. Abstract!Advance
        BY <1>3, <2>1 DEF Advance, dbVars, Synced, Abstract!Advance,
           Abstract!Epochs, Epochs
    <2>3. QED BY <2>2 DEF Abstract!Next
<1>4. CASE /\ ~(\E c \in Callers : Launch(c) /\ ~running)
           /\ ~Persist /\ ~CommitAppliedError /\ ~Advance
    <2>1. UNCHANGED <<currentEpoch, stored, cursor>>
        <3>1. ASSUME NEW c \in Callers, NEW e \in StartEpochs, StartSync(c, e)
              PROVE  UNCHANGED <<currentEpoch, stored, cursor>>
            BY <3>1 DEF StartSync, dbVars
        <3>2. ASSUME NEW c \in Callers, UnlockAfterKill(c)
              PROVE  UNCHANGED <<currentEpoch, stored, cursor>>
            BY <3>2 DEF UnlockAfterKill, dbVars
        <3>3. ASSUME NEW c \in Callers, LockRun(c)
              PROVE  UNCHANGED <<currentEpoch, stored, cursor>>
            BY <3>3 DEF LockRun, dbVars
        <3>4. ASSUME NEW c \in Callers, Launch(c), running
              PROVE  UNCHANGED <<currentEpoch, stored, cursor>>
            BY <3>4 DEF Launch, dbVars
        <3>5. ASSUME \/ RunSyncStart \/ CheckSynced \/ AssignmentsKilled
                     \/ AssignmentsLoaded \/ FetchSlotsDone \/ SkipCachedSlot
                     \/ SkipEmptySlot \/ SlotKilled \/ CacheBlock
                     \/ StatsKilled \/ StatsLoaded \/ SyncEpochError
                     \/ ReadFinalized \/ CooldownKilled \/ CooldownElapsed
                     \/ Exit \/ Panic \/ Finalize \/ Quiescent
              PROVE  UNCHANGED <<currentEpoch, stored, cursor>>
            BY <3>5 DEF RunSyncStart, CheckSynced, AssignmentsKilled,
               AssignmentsLoaded, FetchSlotsDone, SkipCachedSlot,
               SkipEmptySlot, SlotKilled, CacheBlock, StatsKilled,
               StatsLoaded, SyncEpochError, ReadFinalized, CooldownKilled,
               CooldownElapsed, Exit, Panic, Finalize, Quiescent, vars,
               wShared, dbVars, callerVars, workerVars
        <3>6. CASE UNCHANGED vars
            BY <3>6 DEF vars, dbVars
        <3>7. QED
            BY <1>4, <3>1, <3>2, <3>3, <3>4, <3>5, <3>6
            DEF Next, CallerStep, WorkerStep, FetchAssignments, FetchSlot,
                FetchStats
    <2>2. QED BY <2>1, AbstractStutter
<1>5. QED BY <1>1, <1>2, <1>3, <1>4, <1>6

\* The synchronizer, started at epochs other than 0, is a correct
\* implementation of the abstract engine EpochSync.
THEOREM Refinement ==
    ASSUME 0 \notin StartEpochs
    PROVE  Spec => ImplementsEpochSync
<1>1. Init => Abstract!Init
    BY DEF Init, Abstract!Init, Abstract!Epochs, Epochs
<1>2. Init => IInv /\ SkipInv BY IInvInit, SkipInvInit
<1>3. IInv /\ SkipInv /\ [Next]_vars => IInv' /\ SkipInv'
    BY IInvStep, SkipInvStep
<1>4. IInv /\ SkipInv /\ [Next]_vars => [Abstract!Next]_Abstract!avars
    BY RefinementStep
<1>5. QED BY <1>1, <1>2, <1>3, <1>4, PTL DEF Spec, ImplementsEpochSync,
             Abstract!Spec

=============================================================================
