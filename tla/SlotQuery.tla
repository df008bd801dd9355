------------------------------ MODULE SlotQuery ------------------------------
(***************************************************************************)
(* What the slot page promises for one request.  The beacon node is an    *)
(* environment: before the page is written it answers, once or again,     *)
(* with a failure or with a finalized head (NodeAnswers).  The page is   *)
(* then fixed by the request and that answer: a request that is neither  *)
(* a root nor a slot number below 2^31 gets the not-found page; after a  *)
(* failure any other request gets the error page; otherwise a root gets  *)
(* its block's page or not-found, and a slot gets the page of its        *)
(* canonical block, else of one of its orphaned blocks, else a missed    *)
(* slot.  A page carries the slot's uint64 neighbours and whether the    *)
(* finalized head the node reported is at or past it.                    *)
(***************************************************************************)
EXTENDS Integers

CONSTANTS BlockRoots, Canonical, BlockSlot, UnknownRoot, SlotLimit,
          SlotModulus, NoBlock

VARIABLES request, failed, head, answer

qvars == <<request, failed, head, answer>>

QueryRequests ==
    [kind : {"root"}, root : BlockRoots \cup {UnknownRoot}]
    \cup [kind : {"number"}, n : -2..SlotLimit]
    \cup [kind : {"junk"}]

Heads == 0..(SlotLimit - 1)

NotFound == [status |-> "notFound"]

\* The page of slot s showing block b (NoBlock: none), for a finalized
\* head at slot fs.
PageOf(b, s, fs) ==
    [status |-> IF b = NoBlock THEN "missed"
                ELSE IF b \in Canonical THEN "found" ELSE "orphaned",
     slot |-> s,
     block |-> b,
     finalized |-> fs >= s,
     next |-> (s + 1) % SlotModulus,
     previous |-> (s - 1) % SlotModulus]

\* The blocks a page of slot s may show.
ShownAt(s) ==
    LET canonical == {b \in Canonical : BlockSlot[b] = s}
        any == {b \in BlockRoots : BlockSlot[b] = s}
    IN  IF canonical # {} THEN canonical
        ELSE IF any # {} THEN any
        ELSE {NoBlock}

\* The correct answers to request r when the node failed (fail) or
\* reported the finalized head fs.
Answers(r, fail, fs) ==
    IF r.kind = "junk" \/ (r.kind = "number" /\ r.n >= SlotLimit)
      THEN {NotFound}
    ELSE IF fail THEN {[status |-> "error"]}
    ELSE IF r.kind = "root"
      THEN IF r.root \in BlockRoots
             THEN {PageOf(r.root, BlockSlot[r.root], fs)}
             ELSE {NotFound}
    ELSE IF r.n < 0 THEN {NotFound}
    ELSE {PageOf(b, r.n, fs) : b \in ShownAt(r.n)}

QueryInit ==
    /\ request \in QueryRequests
    /\ failed \in BOOLEAN
    /\ head \in Heads
    /\ answer = NoBlock

\* The node answers the handler's calls, before the page is written.
NodeAnswers ==
    /\ answer = NoBlock
    /\ failed' \in BOOLEAN
    /\ head' \in Heads
    /\ UNCHANGED <<request, answer>>

\* The page is written, once, from the request and the node's answer.
Answer ==
    /\ answer = NoBlock
    /\ answer' \in Answers(request, failed, head)
    /\ UNCHANGED <<request, failed, head>>

QueryNext == NodeAnswers \/ Answer

QuerySpec == QueryInit /\ [][QueryNext]_qvars

=============================================================================
