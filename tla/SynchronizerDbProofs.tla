------------------------- MODULE SynchronizerDbProofs -------------------------
(***************************************************************************)
(* Proofs about what the synchronizer does to the database, for every     *)
(* value of the constants.  The lemma DbSteps classifies every step: it   *)
(* either leaves the database alone or stores the worker's epoch together *)
(* with the cursor (the transaction of lines 227-247).  The theorem       *)
(* follows from it and the type invariant TypeInv.                        *)
(***************************************************************************)
EXTENDS SynchronizerProofs

\* The record syncEpoch persists for its epoch (lines 207-247).
PersistedRecord ==
    [blocks |-> cache \cap EpochSlots(currentEpoch),
     target |-> TargetRoot(cache, currentEpoch)]

\* At the persist the epoch is one of the model's and the record written
\* for it is a record, never the marker of an unstored epoch.
LEMMA PersistedRecordFacts ==
    ASSUME TypeInv, wpc = "persist"
    PROVE  /\ currentEpoch \in Epochs
           /\ PersistedRecord \in EpochRecord
           /\ PersistedRecord # NoData
<1>1. currentEpoch \in Epochs
      BY DEF TypeInv, EpochInRange
<1>2. TargetRoot(cache, currentEpoch) \in Roots
      BY <1>1, TargetRootType DEF TypeInv, TypeOK, Slots, Epochs
<1>3. cache \cap EpochSlots(currentEpoch) \subseteq Slots
      BY DEF TypeInv, TypeOK
<1>4. PersistedRecord \in EpochRecord
      BY <1>2, <1>3 DEF PersistedRecord, EpochRecord
<1> QED BY <1>1, <1>4, MarkerAssumption

\* The database changes only in the transaction of syncEpoch, which writes
\* the worker's epoch and the cursor together (Persist, and the commit
\* that reports an error after it was applied).
LEMMA DbSteps ==
    ASSUME TypeInv, [Next]_vars
    PROVE  \/ UNCHANGED dbVars
           \/ /\ wpc = "persist"
              /\ stored' = [stored EXCEPT ![currentEpoch] = PersistedRecord]
              /\ cursor' = currentEpoch
<1>1. CASE Persist
      BY <1>1 DEF Persist, PersistedRecord
<1>2. CASE CommitAppliedError
      BY <1>2 DEF CommitAppliedError, PersistedRecord
<1>3. CASE ~Persist /\ ~CommitAppliedError
      BY <1>3 DEF Next, CallerStep, WorkerStep, FetchAssignments, FetchSlot,
          FetchStats, StartSync, UnlockAfterKill, LockRun, Launch,
          RunSyncStart, CheckSynced, AssignmentsKilled, AssignmentsLoaded,
          FetchSlotsDone, SkipCachedSlot, SkipEmptySlot, SlotKilled,
          CacheBlock, StatsKilled, StatsLoaded, SyncEpochError,
          ReadFinalized, Advance, CooldownKilled, CooldownElapsed, Exit,
          Panic, Finalize, Quiescent, vars, dbVars, wLocal, wShared
<1> QED BY <1>1, <1>2, <1>3

-----------------------------------------------------------------------------
DbInv == TypeInv /\ CursorNamesStoredEpoch

LEMMA DbInvStep == DbInv /\ [Next]_vars => DbInv'
<1> SUFFICES ASSUME DbInv, [Next]_vars PROVE DbInv'
    OBVIOUS
<1>1. TypeInv'
      BY TypeStep DEF DbInv
<1>2. stored \in [Epochs -> EpochRecord \cup {NoData}]
      BY DEF DbInv, TypeInv, TypeOK
<1>3. CASE UNCHANGED dbVars
      BY <1>1, <1>3 DEF DbInv, CursorNamesStoredEpoch, Synced, dbVars
<1>4. CASE /\ wpc = "persist"
           /\ stored' = [stored EXCEPT ![currentEpoch] = PersistedRecord]
           /\ cursor' = currentEpoch
  <2>1. currentEpoch \in Epochs /\ PersistedRecord # NoData
        BY <1>4, PersistedRecordFacts DEF DbInv
  <2>2. stored'[currentEpoch] # NoData
        BY <1>2, <1>4, <2>1
  <2> QED BY <1>1, <1>4, <2>1, <2>2 DEF DbInv, CursorNamesStoredEpoch, Synced
<1> QED BY <1>3, <1>4, DbSteps DEF DbInv

\* For every value of the constants, genesis starts included: the cursor
\* in indexer.syncstate always names an epoch whose data is stored, since
\* it is written only in the transaction that stores the epoch (lines
\* 227-247) and no step ever removes an epoch's data.
THEOREM CursorStored == Spec => []CursorNamesStoredEpoch
<1>1. Init => DbInv
      BY TypeInit DEF Init, DbInv, CursorNamesStoredEpoch
<1>2. DbInv /\ [Next]_vars => DbInv'
      BY DbInvStep
<1>3. DbInv => CursorNamesStoredEpoch
      BY DEF DbInv
<1> QED BY <1>1, <1>2, <1>3, PTL DEF Spec

=============================================================================
