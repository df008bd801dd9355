--------------------------- MODULE SlotPageProofs ---------------------------
(***************************************************************************)
(* Proof that the slot page handler shows the block a request names, for  *)
(* every chain and every bound.  PageShowsRequestedBlock is not inductive *)
(* as it stands: it speaks of the page, which is written in the last step *)
(* from what the earlier steps left in blockSlot, blockRootHash and       *)
(* blockData.  IInv says what each of those holds at each step.           *)
(***************************************************************************)
EXTENDS SlotPage, TLAPS

\* Some block, canonical or orphaned, is in slot s.
SlotHasBlock(s) == \E r \in BlockRoots : BlockSlot[r] = s

\* What the node answers a successful lookup (lines 61-65).
LookedUp ==
    IF blockSlot > -1 THEN CanonicalAt(blockSlot)
    ELSE IF rootHash \in Canonical THEN rootHash ELSE NoBlock

\* A request that got past parsing (lines 43-56) names a root, or a slot
\* number below 2^31 held in blockSlot.
Accepted ==
    \/ req.kind = "root" /\ blockSlot = -1
    \/ req.kind = "number" /\ req.n < SlotLimit /\ blockSlot = req.n

\* After the orphaned fallback (lines 68-78) blockData is the block the
\* request names, if there is one.
Resolved ==
    /\ blockSlot > -1 =>
         /\ blockData = NoBlock <=> ~SlotHasBlock(blockSlot)
         /\ blockData # NoBlock => BlockSlot[blockData] = blockSlot
         /\ CanonicalAt(blockSlot) # NoBlock => blockData = CanonicalAt(blockSlot)
    /\ req.kind = "number" /\ ~(blockSlot > -1) => blockData = NoBlock
    /\ req.kind = "root" =>
         /\ blockData # NoBlock => blockData = req.root
         /\ req.root \in BlockRoots => blockData = req.root

IInv ==
    /\ SlotPageTypeOK
    /\ req \in Requests
    /\ pc = "parse" => blockSlot = -1
    /\ pc \in {"lookup", "orphaned", "render"} => Accepted
    /\ pc \in {"lookup", "orphaned"} =>
         rootHash = IF req.kind = "root" THEN req.root ELSE EmptyRoot
    /\ pc = "orphaned" /\ ~err => blockData = LookedUp
    /\ pc = "render" /\ ~err => Resolved
    /\ pc # "done" => page = NoBlock
    /\ PageShowsRequestedBlock

-----------------------------------------------------------------------------
\* GetSlotDetailsBySlot answers the one canonical block of the slot, or nil.
LEMMA CanonicalAtFacts ==
    ASSUME NEW s \in Int
    PROVE  /\ CanonicalAt(s) = NoBlock <=> ~\E r \in Canonical : BlockSlot[r] = s
           /\ CanonicalAt(s) # NoBlock =>
                 CanonicalAt(s) \in Canonical /\ BlockSlot[CanonicalAt(s)] = s
BY SlotPageAssumption DEF CanonicalAt

\* The handler starts in a state of IInv.
LEMMA SlotIInvInit == Init => IInv
<1> SUFFICES ASSUME Init PROVE IInv
    OBVIOUS
<1>1. SlotPageTypeOK
  <2>1. blockSlot \in -2..SlotLimit - 1 /\ finalizedSlot \in 0..SlotLimit - 1
        BY SlotPageAssumption DEF Init
  <2>2. err \in BOOLEAN
        BY Zenon DEF Init
  <2> QED BY <2>1, <2>2, Zenon DEF Init, SlotPageTypeOK
<1>2. PageShowsRequestedBlock
      BY DEF Init, PageShowsRequestedBlock
<1> QED BY <1>1, <1>2 DEF Init, IInv

\* Parsing (lines 43-56) keeps IInv.
LEMMA ParseStep == IInv /\ Parse => IInv'
<1> SUFFICES ASSUME IInv, Parse PROVE IInv'
    OBVIOUS
<1>1. CASE req.kind = "root"
      BY <1>1, SlotPageAssumption
      DEF Parse, IInv, SlotPageTypeOK, Accepted, PageShowsRequestedBlock, Requests
<1>2. CASE req.kind = "number" /\ req.n < SlotLimit
      BY <1>2, SlotPageAssumption
      DEF Parse, IInv, SlotPageTypeOK, Accepted, PageShowsRequestedBlock, Requests
<1>3. CASE ~(req.kind = "root") /\ ~(req.kind = "number" /\ req.n < SlotLimit)
      BY <1>3, SlotPageAssumption
      DEF Parse, IInv, SlotPageTypeOK, PageShowsRequestedBlock, Statuses
<1> QED BY <1>1, <1>2, <1>3

\* The node lookups (lines 58-66) keep IInv.
LEMMA LookupStep == IInv /\ Lookup => IInv'
<1> SUFFICES ASSUME IInv, Lookup PROVE IInv'
    OBVIOUS
<1>1. blockSlot \in Int
      BY DEF IInv, SlotPageTypeOK
<1>2. LookedUp \in BlockRoots \cup {NoBlock}
      BY <1>1, CanonicalAtFacts, SlotPageAssumption DEF LookedUp
<1> QED BY <1>2, SlotPageAssumption
        DEF Lookup, IInv, SlotPageTypeOK, Accepted, LookedUp, PageShowsRequestedBlock

\* The orphaned-block fallback (lines 68-78) establishes Resolved.
LEMMA CheckOrphanedStep == IInv /\ CheckOrphaned => IInv'
<1> SUFFICES ASSUME IInv, CheckOrphaned PROVE IInv'
    OBVIOUS
<1>1. /\ blockSlot \in Int /\ Accepted /\ pc = "orphaned" /\ req \in Requests
      /\ rootHash = IF req.kind = "root" THEN req.root ELSE EmptyRoot
      /\ ~err => blockData = LookedUp
      /\ page = NoBlock
      BY DEF IInv, SlotPageTypeOK, CheckOrphaned
<1>2. /\ pc' = "render" /\ req' = req /\ blockSlot' = blockSlot /\ err' = err
      /\ finalizedSlot' = finalizedSlot /\ page' = page
      BY DEF CheckOrphaned
<1>3. ASSUME blockData = NoBlock /\ ~err
      PROVE  /\ rootHash' \in BlockRoots \cup {UnknownRoot, EmptyRoot, NoBlock}
             /\ blockData' \in BlockRoots \cup {NoBlock}
             /\ ~err' => Resolved'
  <2>1. PICK root \in IF blockSlot > -1 /\ SlotHasBlock(blockSlot)
                        THEN {r \in BlockRoots : BlockSlot[r] = blockSlot}
                        ELSE {rootHash} :
          /\ rootHash' = root
          /\ blockData' = IF root \in Orphaned THEN root ELSE NoBlock
        BY <1>3 DEF CheckOrphaned, SlotHasBlock
  <2>2. CASE blockSlot > -1
    <3>1. ~\E r \in Canonical : BlockSlot[r] = blockSlot
          BY <1>1, <1>3, <2>2, CanonicalAtFacts DEF LookedUp
    <3>2. req.kind = "number" /\ rootHash = EmptyRoot
          BY <1>1, <2>2 DEF Accepted
    <3>3. rootHash' \in BlockRoots \cup {UnknownRoot, EmptyRoot, NoBlock}
          /\ blockData' \in BlockRoots \cup {NoBlock}
          BY <2>1, <3>2, SlotPageAssumption DEF Orphaned
    <3>4. CanonicalAt(blockSlot) = NoBlock
          BY <1>1, <3>1, CanonicalAtFacts
    <3>5. Resolved'
          BY <1>2, <2>1, <2>2, <3>1, <3>2, <3>4, SlotPageAssumption
          DEF Resolved, SlotHasBlock, Orphaned
    <3> QED BY <1>2, <3>3, <3>5
  <2>3. CASE ~(blockSlot > -1)
    <3>1. root = rootHash
          BY <2>1, <2>3
    <3>2. req.kind = "root" => ~(req.root \in Canonical)
      <4> SUFFICES ASSUME req.kind = "root" PROVE ~(req.root \in Canonical)
          OBVIOUS
      <4>1. rootHash = req.root /\ req.root # NoBlock
            BY <1>1, SlotPageAssumption DEF Requests
      <4> QED BY <1>1, <1>3, <2>3, <4>1 DEF LookedUp
    <3>3. rootHash' \in BlockRoots \cup {UnknownRoot, EmptyRoot, NoBlock}
          /\ blockData' \in BlockRoots \cup {NoBlock}
          BY <1>1, <2>1, <3>1, SlotPageAssumption DEF Orphaned, Requests
    <3>4. Resolved'
          BY <1>1, <1>2, <2>1, <2>3, <3>1, <3>2, SlotPageAssumption
          DEF Resolved, Orphaned
    <3> QED BY <1>2, <3>3, <3>4
  <2> QED BY <2>2, <2>3
<1>4. ASSUME ~(blockData = NoBlock /\ ~err)
      PROVE  /\ rootHash' \in BlockRoots \cup {UnknownRoot, EmptyRoot, NoBlock}
             /\ blockData' \in BlockRoots \cup {NoBlock}
             /\ ~err' => Resolved'
  <2>1. rootHash' = rootHash /\ blockData' = blockData
        BY <1>4 DEF CheckOrphaned
  <2>2. ~err => Resolved'
    <3> SUFFICES ASSUME ~err PROVE Resolved'
        OBVIOUS
    <3>1. blockData # NoBlock /\ blockData = LookedUp
          BY <1>1, <1>4
    <3>2. CASE blockSlot > -1
          BY <1>1, <1>2, <2>1, <3>1, <3>2, CanonicalAtFacts, SlotPageAssumption
          DEF Resolved, LookedUp, SlotHasBlock, Accepted
    <3>3. CASE ~(blockSlot > -1)
          BY <1>1, <1>2, <2>1, <3>1, <3>3, SlotPageAssumption
          DEF Resolved, LookedUp, Accepted
    <3> QED BY <3>2, <3>3
  <2> QED BY <1>1, <1>2, <2>1, <2>2 DEF IInv, SlotPageTypeOK
<1>5. /\ rootHash' \in BlockRoots \cup {UnknownRoot, EmptyRoot, NoBlock}
      /\ blockData' \in BlockRoots \cup {NoBlock}
      /\ ~err' => Resolved'
  <2>1. CASE blockData = NoBlock /\ ~err
        BY <1>3, <2>1
  <2>2. CASE ~(blockData = NoBlock /\ ~err)
        BY <1>4, <2>2
  <2> QED BY <2>1, <2>2
<1>6. SlotPageTypeOK'
      BY <1>2, <1>5 DEF IInv, SlotPageTypeOK
<1>7. Accepted'
      BY <1>1, <1>2 DEF Accepted
<1>8. PageShowsRequestedBlock'
      BY <1>1, <1>2 DEF PageShowsRequestedBlock
<1> QED BY <1>1, <1>2, <1>5, <1>6, <1>7, <1>8 DEF IInv

\* Rendering (lines 80-126) writes a page that shows the requested block.
LEMMA RenderStep == IInv /\ Render => IInv'
<1> SUFFICES ASSUME IInv, Render PROVE IInv'
    OBVIOUS
<1>1. /\ blockSlot \in Int /\ Accepted /\ pc = "render" /\ req \in Requests
      /\ blockData \in BlockRoots \cup {NoBlock}
      /\ ~err => Resolved
      BY DEF IInv, SlotPageTypeOK, Render
<1>2. /\ pc' = "done" /\ req' = req /\ blockSlot' = blockSlot /\ err' = err
      /\ finalizedSlot' = finalizedSlot /\ rootHash' = rootHash
      /\ blockData' = blockData
      BY DEF Render
<1>3. CASE blockData = NoBlock /\ ~err /\ ~(blockSlot > -1)
      BY <1>3, <1>2 DEF Render, IInv, SlotPageTypeOK, PageShowsRequestedBlock, Statuses
<1>4. CASE err
      BY <1>4, <1>2 DEF Render, IInv, SlotPageTypeOK, PageShowsRequestedBlock, Statuses
<1>5. CASE ~err /\ ~(blockData = NoBlock /\ ~(blockSlot > -1))
  <2> DEFINE slot == IF blockData = NoBlock THEN blockSlot ELSE BlockSlot[blockData]
  <2>1. page' = [status |-> IF blockData = NoBlock THEN "missed"
                            ELSE IF blockData \in Orphaned THEN "orphaned"
                            ELSE "found",
                 slot |-> slot,
                 block |-> blockData,
                 finalized |-> finalizedSlot >= slot,
                 next |-> (slot + 1) % SlotModulus,
                 previous |-> (slot - 1) % SlotModulus]
        BY <1>5 DEF Render
  <2>2. Resolved
        BY <1>1, <1>5
  <2>3. req.kind = "number" => page'.slot = req.n
        BY <1>1, <1>5, <2>1, <2>2 DEF Accepted, Resolved
  <2>4. req.kind = "root" => page'.block = req.root
        BY <1>1, <1>5, <2>1, <2>2 DEF Accepted, Resolved
  <2>5. page'.block # NoBlock => BlockSlot[page'.block] = page'.slot
        BY <2>1
  <2>6. page'.status = "found" <=> page'.block \in Canonical
        BY <1>1, <2>1, SlotPageAssumption DEF Orphaned
  <2>7. page'.status = "missed" <=> ~SlotHasBlock(page'.slot)
        BY <1>1, <1>5, <2>1, <2>2, SlotPageAssumption DEF Resolved, SlotHasBlock
  <2>8. PageShowsRequestedBlock'
        BY <1>2, <2>3, <2>4, <2>5, <2>6, <2>7 DEF PageShowsRequestedBlock, SlotHasBlock
  <2>9. SlotPageTypeOK'
        BY <1>1, <1>2, <2>1 DEF IInv, SlotPageTypeOK, Statuses
  <2> QED BY <1>1, <1>2, <2>8, <2>9 DEF IInv
<1> QED BY <1>3, <1>4, <1>5

\* Every step of the handler, and a stutter, keeps IInv.
LEMMA SlotIInvStep == IInv /\ [Next]_vars => IInv'
<1> SUFFICES ASSUME IInv, [Next]_vars PROVE IInv'
    OBVIOUS
<1>1. CASE UNCHANGED vars
      BY <1>1 DEF vars, IInv, SlotPageTypeOK, Accepted, LookedUp, Resolved,
                  PageShowsRequestedBlock, SlotHasBlock
<1> QED BY <1>1, ParseStep, LookupStep, CheckOrphanedStep, RenderStep DEF Next

-----------------------------------------------------------------------------
\* For every chain and every bound: whichever way the Slot handler reaches a
\* slot page (by slot number, by root, or through the database's orphaned
\* blocks with the root of lines 70-77), the page shows the requested block
\* and its slot, and calls a slot missed only when no block is in it.
THEOREM RequestedBlockShown == Spec => []PageShowsRequestedBlock
<1>1. Init => IInv
      BY SlotIInvInit
<1>2. IInv /\ [Next]_vars => IInv'
      BY SlotIInvStep
<1>3. IInv => PageShowsRequestedBlock
      BY DEF IInv
<1> QED BY <1>1, <1>2, <1>3, PTL DEF Spec

\* For every chain and bound, every state of the handler is well typed:
\* blockSlot stays between -2 and 2^31 - 1 (the bound of line 49), and
\* the roots and the page are of their kinds.
THEOREM SlotPageTypeCorrect == Spec => []SlotPageTypeOK
<1>1. IInv => SlotPageTypeOK
      BY DEF IInv
<1> QED BY <1>1, SlotIInvInit, SlotIInvStep, PTL DEF Spec

-----------------------------------------------------------------------------
(* Refinement of SlotQuery.                                                *)

\* The page Render writes, for a slot page, is SlotQuery's page of the
\* block and slot it shows.
LEMMA RenderedPage ==
    ASSUME IInv, Render, ~err, ~(blockData = NoBlock /\ ~(blockSlot > -1))
    PROVE  LET slot == IF blockData = NoBlock THEN blockSlot ELSE BlockSlot[blockData]
           IN  page' = Query!PageOf(blockData, slot, finalizedSlot)
<1>1. blockData \in BlockRoots \cup {NoBlock}
      BY DEF IInv, SlotPageTypeOK
<1>2. blockData # NoBlock => (blockData \in Orphaned <=> ~(blockData \in Canonical))
      BY <1>1, SlotPageAssumption DEF Orphaned
<1> QED BY <1>2 DEF Render, Query!PageOf

\* Every step of the handler is a step of SlotQuery or leaves the
\* request, the node's answer and the page alone: the lookups are the
\* node's answer, Render (and a Parse that refuses) writes the page.
LEMMA QueryStep == IInv /\ [Next]_vars => [Query!QueryNext]_Query!qvars
<1> SUFFICES ASSUME IInv, [Next]_vars PROVE [Query!QueryNext]_Query!qvars
    OBVIOUS
<1>0. /\ req \in Requests /\ blockSlot \in Int /\ err \in BOOLEAN
      /\ finalizedSlot \in 0..(SlotLimit - 1)
      /\ pc # "done" => page = NoBlock
      /\ blockData \in BlockRoots \cup {NoBlock}
      BY DEF IInv, SlotPageTypeOK
<1>1. CASE Parse
  <2>1. CASE page' = page
        BY <1>1, <2>1 DEF Parse, Query!qvars
  <2>2. CASE page' # page
    <3>1. /\ page' = Query!NotFound /\ pc = "parse"
          /\ UNCHANGED <<req, err, finalizedSlot>>
          /\ req.kind # "root" /\ ~(req.kind = "number" /\ req.n < SlotLimit)
          BY <1>1, <2>2 DEF Parse, Query!NotFound
    <3>2. req.kind = "junk" \/ (req.kind = "number" /\ req.n >= SlotLimit)
          BY <1>0, <3>1, SlotPageAssumption DEF Requests
    <3>3. page' \in Query!Answers(req, err, finalizedSlot)
          BY <3>2, <3>1 DEF Query!Answers
    <3> QED BY <1>0, <3>1, <3>3 DEF Query!Answer, Query!QueryNext
  <2> QED BY <2>1, <2>2
<1>2. CASE Lookup
  <2>1. err' \in BOOLEAN /\ finalizedSlot' \in Query!Heads
        BY <1>0, <1>2 DEF Lookup, Query!Heads
  <2>2. page = NoBlock /\ UNCHANGED <<req, page>>
        BY <1>0, <1>2 DEF Lookup
  <2> QED BY <2>1, <2>2 DEF Query!NodeAnswers, Query!QueryNext
<1>3. CASE CheckOrphaned
      BY <1>3 DEF CheckOrphaned, Query!qvars
<1>4. CASE Render
  <2>0. /\ pc = "render" /\ page = NoBlock /\ Accepted
        /\ UNCHANGED <<req, err, finalizedSlot>>
        /\ ~err => Resolved
        BY <1>0, <1>4 DEF Render, IInv
  <2>1. ~(req.kind = "junk" \/ (req.kind = "number" /\ req.n >= SlotLimit))
        BY <1>0, <2>0, SlotPageAssumption DEF Accepted, Requests
  <2>2. page' \in Query!Answers(req, err, finalizedSlot)
    <3>1. CASE err
          BY <1>4, <2>1, <3>1 DEF Render, Query!Answers
    <3>2. CASE ~err /\ blockData = NoBlock /\ ~(blockSlot > -1)
      <4>1. page' = Query!NotFound
            BY <1>4, <3>2 DEF Render, Query!NotFound
      <4>2. req.kind = "root" => ~(req.root \in BlockRoots)
            BY <2>0, <3>2, SlotPageAssumption DEF Resolved
      <4>3. req.kind = "number" => req.n < 0
            BY <1>0, <2>0, <3>2 DEF Accepted
      <4>4. Query!NotFound \in Query!Answers(req, err, finalizedSlot)
            BY <1>0, <2>1, <3>2, <4>2, <4>3 DEF Query!Answers, Requests
      <4> QED BY <4>1, <4>4
    <3>3. CASE ~err /\ ~(blockData = NoBlock /\ ~(blockSlot > -1))
      <4>1. page' = Query!PageOf(blockData,
                      IF blockData = NoBlock THEN blockSlot ELSE BlockSlot[blockData],
                      finalizedSlot)
            BY <1>4, <3>3, RenderedPage
      <4>2. CASE req.kind = "root"
        <5>1. blockSlot = -1
              BY <2>0, <4>2 DEF Accepted
        <5>2. blockData = req.root /\ req.root \in BlockRoots
              BY <1>0, <2>0, <3>3, <4>2, <5>1 DEF Resolved
        <5>3. page' = Query!PageOf(req.root, BlockSlot[req.root], finalizedSlot)
              BY <4>1, <5>2, SlotPageAssumption
        <5>4. Query!Answers(req, err, finalizedSlot) =
                {Query!PageOf(req.root, BlockSlot[req.root], finalizedSlot)}
              BY <3>3, <4>2, <5>2 DEF Query!Answers
        <5> QED BY <5>3, <5>4
      <4>3. CASE req.kind = "number"
        <5>1. blockSlot = req.n /\ req.n \in 0..(SlotLimit - 1)
              BY <1>0, <2>0, <3>3, <4>3, SlotPageAssumption DEF Accepted, Resolved
        <5>2. blockData \in Query!ShownAt(req.n)
          <6>1. CASE CanonicalAt(req.n) # NoBlock
                BY <2>0, <3>3, <5>1, <6>1, CanonicalAtFacts
                DEF Resolved, Query!ShownAt
          <6>2. CASE CanonicalAt(req.n) = NoBlock
            <7>1. ~\E b \in Canonical : BlockSlot[b] = req.n
                  BY <5>1, <6>2, CanonicalAtFacts
            <7>2. blockData # NoBlock => blockData \in BlockRoots /\ BlockSlot[blockData] = req.n
                  BY <1>0, <2>0, <3>3, <5>1 DEF Resolved
            <7>3. blockData = NoBlock => ~SlotHasBlock(req.n)
                  BY <2>0, <3>3, <5>1 DEF Resolved
            <7> QED BY <7>1, <7>2, <7>3 DEF Query!ShownAt, SlotHasBlock
          <6> QED BY <6>1, <6>2
        <5>3. (IF blockData = NoBlock THEN blockSlot ELSE BlockSlot[blockData]) = req.n
              BY <2>0, <3>3, <5>1 DEF Resolved
        <5>4. Query!Answers(req, err, finalizedSlot) =
                {Query!PageOf(b, req.n, finalizedSlot) : b \in Query!ShownAt(req.n)}
          <6>1. ~(req.n >= SlotLimit) /\ ~(req.n < 0) /\ req.kind # "junk"
                BY <4>3, <5>1, SlotPageAssumption
          <6> QED BY <3>3, <4>3, <6>1, Zenon DEF Query!Answers
        <5> QED BY <4>1, <5>2, <5>3, <5>4
      <4> QED BY <2>1, <4>2, <4>3, <1>0 DEF Requests
    <3> QED BY <3>1, <3>2, <3>3
  <2> QED BY <2>0, <2>2 DEF Query!Answer, Query!QueryNext
<1>5. CASE UNCHANGED vars
      BY <1>5 DEF vars, Query!qvars
<1> QED BY <1>1, <1>2, <1>3, <1>4, <1>5 DEF Next

\* For every chain and bound, the Slot handler implements SlotQuery: the
\* lookups of lines 58-66 are the node's answer, and the page is the one
\* that answer and the request fix: not-found for what parsing refuses,
\* the error page exactly when a node call failed, otherwise the page of
\* the canonical block of the slot, else an orphaned one, else a missed
\* slot, with EpochFinalized taken from the reported head and neighbours
\* slot + 1 and slot - 1 modulo 2^64.
THEOREM SlotRefinement == Spec => ImplementsSlotQuery
<1>1. Init => Query!QueryInit
  <2> SUFFICES ASSUME Init PROVE Query!QueryInit
      OBVIOUS
  <2>1. finalizedSlot \in Query!Heads
        BY SlotPageAssumption DEF Init, Query!Heads
  <2>2. err \in BOOLEAN
        BY Zenon DEF Init
  <2> QED BY <2>1, <2>2 DEF Init, Query!QueryInit, Requests, Query!QueryRequests
<1>2. IInv /\ [Next]_vars => [Query!QueryNext]_Query!qvars
      BY QueryStep
<1> QED BY <1>1, <1>2, SlotIInvInit, SlotIInvStep, PTL
        DEF Spec, ImplementsSlotQuery, Query!QuerySpec

=============================================================================
