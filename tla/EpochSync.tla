------------------------------ MODULE EpochSync ------------------------------
(***************************************************************************)
(* What the synchronization engine promises, without threads, locks, the  *)
(* kill channel, retries or the block cache.  There is a sync head (the   *)
(* epoch being worked on).  An operator start moves it anywhere in        *)
(* StartEpochs.  Storing the head epoch writes what the chain has for it  *)
(* together with the cursor, in one atomic step.  The head moves on by    *)
(* one only past an epoch that is stored.                                 *)
(***************************************************************************)
EXTENDS Naturals

CONSTANTS
    MaxEpoch,     \* highest epoch that can be stored
    StartEpochs,  \* epochs a start may name
    Chain,        \* Chain[e]: what the database must hold for epoch e
    NoData        \* an epoch with nothing stored

VARIABLES head, stored, cursor

avars == <<head, stored, cursor>>

Epochs == 0..MaxEpoch

Init ==
    /\ head = 0
    /\ stored = [e \in Epochs |-> NoData]
    /\ cursor = NoData

\* Start(fromEpoch): the head jumps to the requested epoch.
Restart(e) ==
    /\ head' = e
    /\ UNCHANGED <<stored, cursor>>

\* One Epoch Step commits the head epoch and the cursor together.
Store ==
    /\ head \in Epochs
    /\ stored' = [stored EXCEPT ![head] = Chain[head]]
    /\ cursor' = head
    /\ UNCHANGED head

\* The head advances only past a stored epoch.
Advance ==
    /\ head \in Epochs
    /\ stored[head] # NoData
    /\ head' = head + 1
    /\ UNCHANGED <<stored, cursor>>

Next == (\E e \in StartEpochs : Restart(e)) \/ Store \/ Advance

Spec == Init /\ [][Next]_avars

=============================================================================
