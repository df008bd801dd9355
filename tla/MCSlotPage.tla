----------------------------- MODULE MCSlotPage -----------------------------
(* Slot page instance: slots 0..3, a canonical block in slot 0, an        *)
(* orphaned one alone in slot 1, a canonical and an orphaned block in     *)
(* slot 2, and slot 3 empty.  2^31 is scaled to 4 and 2^64 to 8.          *)
EXTENDS SlotPage, TLC

CONSTANTS b0, b1, b2, b2o

MCBlockRoots == {b0, b1, b2, b2o}
MCCanonical == {b0, b2}
MCBlockSlot == (b0 :> 0) @@ (b1 :> 1) @@ (b2 :> 2) @@ (b2o :> 2)

=============================================================================
