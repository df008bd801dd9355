------------------------------ MODULE SlotPage ------------------------------
(***************************************************************************)
(* The slot page handler Slot of src/handlers/slot.go, for one request.   *)
(* The URL segment is abstracted to what the parsing does with it: a      *)
(* 64-digit hex string (a block root, with or without 0x), a decimal     *)
(* number (possibly negative or too large), or neither.  The beacon node *)
(* and the database are collaborators whose answers are drawn from a     *)
(* fixed chain: canonical blocks the node serves, and every block,       *)
(* orphaned ones included, in the database.  Any node call may fail.     *)
(* Slots are uint64: arithmetic on them is modulo SlotModulus.           *)
(***************************************************************************)
EXTENDS Integers

CONSTANTS
    BlockRoots,    \* roots of all blocks the database knows
    Canonical,     \* roots of the canonical blocks, served by the node
    BlockSlot,     \* BlockSlot[r]: the slot of block r
    UnknownRoot,   \* a well-formed root no block has
    SlotLimit,     \* 2147483648: slot numbers from here on are refused
    SlotModulus,   \* 2^64: uint64 arithmetic wraps here
    NoBlock,       \* a nil block response
    EmptyRoot      \* []byte{}: the root of a request by slot number

ASSUME SlotPageAssumption ==
    /\ SlotLimit \in Nat \ {0}
    /\ SlotModulus \in Nat /\ SlotLimit < SlotModulus
    /\ Canonical \subseteq BlockRoots
    /\ BlockSlot \in [BlockRoots -> 0..(SlotLimit - 1)]
    /\ \A r, q \in Canonical : BlockSlot[r] = BlockSlot[q] => r = q
    /\ UnknownRoot \notin BlockRoots
    /\ NoBlock \notin BlockRoots \cup {UnknownRoot, EmptyRoot}
    /\ EmptyRoot \notin BlockRoots

Orphaned == BlockRoots \ Canonical

\* What the URL segment can be, as the parsing at lines 43-49 sees it.
Requests ==
    [kind : {"root"}, root : BlockRoots \cup {UnknownRoot}]
    \cup [kind : {"number"}, n : -2..SlotLimit]
    \cup [kind : {"junk"}]

Statuses == {"notFound", "error", "missed", "found", "orphaned"}

VARIABLES
    req,            \* the request
    pc,             \* the step of the handler
    blockSlot,      \* blockSlot
    rootHash,       \* blockRootHash
    blockData,      \* blockData: NoBlock or the root of the block
    err,            \* err of the node calls
    finalizedSlot,  \* the slot of the finalized head the node returned
    page            \* the rendered page, or NoBlock before rendering

vars == <<req, pc, blockSlot, rootHash, blockData, err, finalizedSlot, page>>

\* The canonical block at slot s as GetSlotDetailsBySlot returns it.
CanonicalAt(s) ==
    IF \E r \in Canonical : BlockSlot[r] = s
      THEN CHOOSE r \in Canonical : BlockSlot[r] = s
      ELSE NoBlock

Init ==
    /\ req \in Requests
    /\ pc = "parse"
    /\ blockSlot = -1
    /\ rootHash = NoBlock
    /\ blockData = NoBlock
    /\ err = FALSE
    /\ finalizedSlot = 0
    /\ page = NoBlock

\* Mutant: the 2^31 bound of line 49 dropped.
ParseUnbounded ==
    /\ pc = "parse"
    /\ IF req.kind = "root"
         THEN /\ rootHash' = req.root
              /\ pc' = "lookup"
              /\ UNCHANGED <<blockSlot, page>>
         ELSE /\ rootHash' = EmptyRoot
              /\ IF req.kind = "number"
                   THEN blockSlot' = req.n /\ pc' = "lookup" /\ UNCHANGED page
                   ELSE /\ page' = [status |-> "notFound"]
                        /\ pc' = "done"
                        /\ UNCHANGED blockSlot
    /\ UNCHANGED <<req, blockData, err, finalizedSlot>>

\* Lines 43-56: a 64-digit hex segment is a root; anything else is parsed
\* as a decimal slot number, refused when it does not parse or is at least
\* 2^31 (the not-found page).
Parse ==
    /\ pc = "parse"
    /\ IF req.kind = "root"
         THEN /\ rootHash' = req.root
              /\ pc' = "lookup"
              /\ UNCHANGED <<blockSlot, page>>
         ELSE /\ rootHash' = EmptyRoot
              /\ IF req.kind = "number" /\ req.n < SlotLimit
                   THEN blockSlot' = req.n /\ pc' = "lookup" /\ UNCHANGED page
                   ELSE /\ page' = [status |-> "notFound"]
                        /\ pc' = "done"
                        /\ UNCHANGED blockSlot
    /\ UNCHANGED <<req, blockData, err, finalizedSlot>>

\* Lines 58-66: fetch the finalized head, then the block by slot or root;
\* each call may fail.
Lookup ==
    /\ pc = "lookup"
    /\ \/ err' = TRUE /\ UNCHANGED <<blockData, finalizedSlot>>
       \/ /\ err' = FALSE
          /\ finalizedSlot' \in 0..(SlotLimit - 1)
          /\ blockData' = IF blockSlot > -1 THEN CanonicalAt(blockSlot)
                          ELSE IF rootHash \in Canonical THEN rootHash
                          ELSE NoBlock
       \/ /\ err' = TRUE
          /\ finalizedSlot' \in 0..(SlotLimit - 1)
          /\ UNCHANGED blockData
    /\ pc' = "orphaned"
    /\ UNCHANGED <<req, blockSlot, rootHash, page>>

\* Mutant: the database lookup of lines 70-75 left out, so a request by
\* number asks for the orphaned block with the empty root.
CheckOrphanedByRootOnly ==
    /\ pc = "orphaned"
    /\ IF blockData = NoBlock /\ ~err
         THEN blockData' = IF rootHash \in Orphaned THEN rootHash ELSE NoBlock
         ELSE UNCHANGED blockData
    /\ pc' = "render"
    /\ UNCHANGED <<req, blockSlot, rootHash, err, finalizedSlot, page>>

\* Lines 68-78: no block and no error: take the root of a database block
\* at the slot, if any, and ask for it as an orphaned block.  The root is
\* never nil here (EmptyRoot for a request by number).
CheckOrphaned ==
    /\ pc = "orphaned"
    /\ IF blockData = NoBlock /\ ~err
         THEN \E root \in
                IF blockSlot > -1 /\ \E r \in BlockRoots : BlockSlot[r] = blockSlot
                  THEN {r \in BlockRoots : BlockSlot[r] = blockSlot}
                  ELSE {rootHash} :
                /\ rootHash' = root
                /\ blockData' = IF root \in Orphaned THEN root ELSE NoBlock
         ELSE UNCHANGED <<rootHash, blockData>>
    /\ pc' = "render"
    /\ UNCHANGED <<req, blockSlot, err, finalizedSlot, page>>

\* Mutant: EpochFinalized compares with > (line 108), so the finalized
\* head's own slot is shown as not finalized.
RenderFinalizedStrict ==
    /\ pc = "render"
    /\ LET slot == IF blockData = NoBlock THEN blockSlot ELSE BlockSlot[blockData]
       IN  page' =
             IF blockData = NoBlock /\ ~err /\ ~(blockSlot > -1)
               THEN [status |-> "notFound"]
             ELSE IF err THEN [status |-> "error"]
             ELSE [status |-> IF blockData = NoBlock THEN "missed"
                              ELSE IF blockData \in Orphaned THEN "orphaned"
                              ELSE "found",
                   slot |-> slot,
                   block |-> blockData,
                   finalized |-> finalizedSlot > slot,
                   next |-> (slot + 1) % SlotModulus,
                   previous |-> (slot - 1) % SlotModulus]
    /\ pc' = "done"
    /\ UNCHANGED <<req, blockSlot, rootHash, blockData, err, finalizedSlot>>

\* Lines 80-126: the not-found or error page, or the slot page with the
\* slot, its finalization, its neighbours (uint64 slot + 1 and slot - 1)
\* and the status missed, orphaned or found.
Render ==
    /\ pc = "render"
    /\ LET slot == IF blockData = NoBlock THEN blockSlot ELSE BlockSlot[blockData]
       IN  page' =
             IF blockData = NoBlock /\ ~err /\ ~(blockSlot > -1)
               THEN [status |-> "notFound"]
             ELSE IF err THEN [status |-> "error"]
             ELSE [status |-> IF blockData = NoBlock THEN "missed"
                              ELSE IF blockData \in Orphaned THEN "orphaned"
                              ELSE "found",
                   slot |-> slot,
                   block |-> blockData,
                   finalized |-> finalizedSlot >= slot,
                   next |-> (slot + 1) % SlotModulus,
                   previous |-> (slot - 1) % SlotModulus]
    /\ pc' = "done"
    /\ UNCHANGED <<req, blockSlot, rootHash, blockData, err, finalizedSlot>>

\* A request ends when its page is rendered: pc = "done" has no step.
Next == Parse \/ Lookup \/ CheckOrphaned \/ Render

Spec == Init /\ [][Next]_vars

-----------------------------------------------------------------------------
SlotPageTypeOK ==
    /\ pc \in {"parse", "lookup", "orphaned", "render", "done"}
    /\ blockSlot \in -2..(SlotLimit - 1)
    /\ rootHash \in BlockRoots \cup {UnknownRoot, EmptyRoot, NoBlock}
    /\ blockData \in BlockRoots \cup {NoBlock}
    /\ err \in BOOLEAN
    /\ finalizedSlot \in 0..(SlotLimit - 1)
    /\ page = NoBlock \/ page.status \in Statuses

\* Whatever path the handler takes to it (by slot, by root, through the
\* database's orphaned blocks at lines 68-78), the page shows the block
\* the request names and the slot that block is in, and it reports a slot
\* as missed only when neither the node nor the database has a block in
\* it.
PageShowsRequestedBlock ==
    page # NoBlock /\ page.status \in {"missed", "found", "orphaned"} =>
        /\ req.kind = "number" => page.slot = req.n
        /\ req.kind = "root" => page.block = req.root
        /\ page.block # NoBlock => BlockSlot[page.block] = page.slot
        /\ page.status = "found" <=> page.block \in Canonical
        /\ page.status = "missed" <=>
               ~\E r \in BlockRoots : BlockSlot[r] = page.slot

\* The page's neighbour links are the slots before and after it: the
\* previous slot is below the slot (PreviousSlot = slot - 1, line 111).
NeighboursAdjacent ==
    page # NoBlock /\ page.status \in {"missed", "found", "orphaned"} =>
        page.previous < page.slot /\ page.slot < page.next


-----------------------------------------------------------------------------
(* Refinement of the one-step answer SlotQuery.                            *)

Query == INSTANCE SlotQuery
         WITH request <- req, failed <- err, head <- finalizedSlot,
              answer <- page

\* The handler implements SlotQuery: the lookups of lines 58-66 are the
\* node's answer (err, and the finalized head's slot), and the page is
\* the one SlotQuery fixes for the request and that answer: not-found for
\* what parsing refuses, the error page exactly when a node call failed,
\* otherwise the canonical block of a slot before an orphaned one (lines
\* 61-78), with its uint64 neighbours and EpochFinalized computed from
\* the reported head (line 108).
ImplementsSlotQuery == Query!QuerySpec

=============================================================================
