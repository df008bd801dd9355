--------------------------- MODULE MCSynchronizer ---------------------------
(* Two callers, two slots per epoch, epochs 0..2 finalized, and a chain    *)
(* whose epoch 1 starts with an empty slot (its target root is the parent *)
(* of slot 3) and whose epoch 2 starts with a block.                      *)
EXTENDS Synchronizer, TLC

CONSTANTS c1, c2

MCCallers == {c1, c2}
MCBlocks == {0, 1, 3, 4, 7}
=============================================================================
