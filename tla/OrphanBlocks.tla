---------------------------- MODULE OrphanBlocks ----------------------------
(***************************************************************************)
(* ProcessBlock() in main.cpp: blocks that arrive before their predecessor   *)
(* wait in mapOrphanBlocks and are taken up by the work queue of the block   *)
(* they wait for; setStakeSeen and setStakeSeenOrphan limit how many blocks  *)
(* may use the same stake.  All of it holds cs_main: vWorkQueue is empty      *)
(* between two calls.                                                        *)
(***************************************************************************)
EXTENDS BlockTree, FiniteSets

CONSTANT Cases      \* what may be given of the blocks

\* LoadBlockIndex() puts the genesis block into the index without ProcessBlock().
ASSUME CasesAssumption ==
    \A c \in Cases : Genesis \notin c.Malformed \cup c.Refused

VARIABLES
    given,                  \* one of Cases
    mapBlockIndex,
    mapOrphanBlocks,        \* the orphan blocks, by their hash
    mapOrphanBlocksByPrev,  \* the orphan blocks, each with its hashPrevBlock as key
    setStakeSeen,
    setStakeSeenOrphan,
    vWorkQueue,             \* the blocks whose orphans are still to be taken up
    received                \* history: the blocks ProcessBlock() was called with

vars == <<given, mapBlockIndex, mapOrphanBlocks, mapOrphanBlocksByPrev, setStakeSeen,
          setStakeSeenOrphan, vWorkQueue, received>>

Stake == given.Stake            \* [Block -> GetProofOfStake(), or NULL for proof-of-work]
Malformed == given.Malformed    \* the blocks CheckBlock() or the check of minimum work refuses
Refused == given.Refused        \* the blocks AcceptBlock() refuses without storing them
BadBlock == given.BadBlock      \* the blocks ConnectBlock() refuses
Pending == given.Pending        \* hashPendingCheckpoint, or NULL

IsProofOfStake(b) == Stake[b] # NULL
HasOrphan(h) == \E x \in mapOrphanBlocksByPrev : x[1] = h

\* WantedByOrphan(): the predecessor of the first block of b's orphan chain
WantedByOrphan(b) ==
    CHOOSE w \in Chain(b) \ {b} :
        /\ w \notin mapOrphanBlocks
        /\ \A a \in Chain(b) \ {b} : Len(a) > Len(w) => a \in mapOrphanBlocks

WantedByPendingSyncCheckpoint(b) ==
    /\ Pending # NULL
    /\ b = Pending \/ (Pending \in mapOrphanBlocks /\ b = WantedByOrphan(Pending))

\* "Duplicate stake allowed only when there is orphan child block"
DuplicateStake(seen, b) ==
    /\ IsProofOfStake(b) /\ Stake[b] \in seen
    /\ ~HasOrphan(b)
    /\ ~WantedByPendingSyncCheckpoint(b)

\* AcceptBlock() stores these of the blocks in B, whose predecessors are in the index.
Stored(B) == B \ Refused

\* For which of the blocks in B AcceptBlock() returns true: AddToBlockIndex() fails
\* for a block it has stored when SetBestChain() has tried its chain in vain.
AcceptOutcomes(B) ==
    LET Tried == {b \in Stored(B) : Chain(b) \cap BadBlock # {}}
    IN  {Stored(B) \ F : F \in SUBSET Tried}

StakesOf(B) == {Stake[b] : b \in {x \in B : IsProofOfStake(x)}}

Init ==
    /\ given \in Cases
    /\ mapBlockIndex = {Genesis}
    /\ mapOrphanBlocks = {} /\ mapOrphanBlocksByPrev = {}
    /\ setStakeSeen = {} /\ setStakeSeenOrphan = {}
    /\ vWorkQueue = <<>>
    /\ received = {}

\* The checks ProcessBlock() starts with
Admitted(b) ==
    /\ vWorkQueue = <<>>
    /\ b \notin mapBlockIndex \cup mapOrphanBlocks
    /\ ~DuplicateStake(setStakeSeen, b)
    /\ b \notin Malformed

\* ProcessBlock() of a block it refuses
ProcessRefused(b) ==
    /\ vWorkQueue = <<>>
    /\ \/ ~Admitted(b)
       \/ pprev(b) \notin mapBlockIndex /\ DuplicateStake(setStakeSeenOrphan, b)
    /\ received' = received \cup {b}
    /\ UNCHANGED <<mapBlockIndex, mapOrphanBlocks, mapOrphanBlocksByPrev, setStakeSeen,
                   setStakeSeenOrphan, vWorkQueue>>

\* "shunt it off to holding area"
Shunt(b) ==
    /\ mapOrphanBlocks' = mapOrphanBlocks \cup {b}
    /\ mapOrphanBlocksByPrev' = mapOrphanBlocksByPrev \cup {<<pprev(b), b>>}

\* ProcessBlock() of a block whose predecessor is missing
ProcessOrphan(b) ==
    /\ Admitted(b)
    /\ pprev(b) \notin mapBlockIndex
    /\ ~DuplicateStake(setStakeSeenOrphan, b)
    /\ setStakeSeenOrphan' = setStakeSeenOrphan \cup StakesOf({b})
    /\ Shunt(b)
    /\ received' = received \cup {b}
    /\ UNCHANGED <<mapBlockIndex, setStakeSeen, vWorkQueue>>

\* ProcessBlock() of a block whose predecessor is there, up to the work queue
ProcessBlock(b) ==
    /\ Admitted(b)
    /\ pprev(b) \in mapBlockIndex
    /\ mapBlockIndex' = mapBlockIndex \cup Stored({b})
    /\ setStakeSeen' = setStakeSeen \cup StakesOf(Stored({b}))
    /\ \E accepted \in AcceptOutcomes({b}) :
          vWorkQueue' = IF b \in accepted THEN <<b>> ELSE <<>>
    /\ received' = received \cup {b}
    /\ UNCHANGED <<mapOrphanBlocks, mapOrphanBlocksByPrev, setStakeSeenOrphan>>

\* Mutant: what was accepted from the holding area is not queued itself.
QueueAfterNothing(accepted) == Tail(vWorkQueue)

\* vWorkQueue.push_back() of what was accepted.  The order has no effect.
QueueAfter(accepted) ==
    Tail(vWorkQueue) \o (CHOOSE s \in [1..Cardinality(accepted) -> accepted] :
                            \A b \in accepted : \E i \in DOMAIN s : s[i] = b)

\* Mutant: the blocks are deleted, the multimap keeps them.
ForgetByHashOnly(h, orphans) ==
    /\ mapOrphanBlocks' = mapOrphanBlocks \ orphans
    /\ UNCHANGED mapOrphanBlocksByPrev

\* The orphans of h are deleted, those that were not accepted too.
Forget(h, orphans) ==
    /\ mapOrphanBlocks' = mapOrphanBlocks \ orphans
    /\ mapOrphanBlocksByPrev' = {x \in mapOrphanBlocksByPrev : x[1] # h}

\* setStakeSeenOrphan.erase() of every orphan that was taken up
Unmark(orphans) == setStakeSeenOrphan \ StakesOf(orphans)

\* "Recursively process any orphan blocks that depended on this one"
ProcessDependents ==
    /\ vWorkQueue # <<>>
    /\ LET hashPrev == Head(vWorkQueue)
           orphans == {x[2] : x \in {y \in mapOrphanBlocksByPrev : y[1] = hashPrev}}
       IN  /\ mapBlockIndex' = mapBlockIndex \cup Stored(orphans)
           /\ setStakeSeen' = setStakeSeen \cup StakesOf(Stored(orphans))
           /\ \E accepted \in AcceptOutcomes(orphans) : vWorkQueue' = QueueAfter(accepted)
           /\ setStakeSeenOrphan' = Unmark(orphans)
           /\ Forget(hashPrev, orphans)
    /\ UNCHANGED received

Step ==
    \/ \E b \in Block \ {Genesis} :
          \/ ProcessRefused(b)
          \/ ProcessOrphan(b)
          \/ ProcessBlock(b)
    \/ ProcessDependents

Next == Step /\ UNCHANGED given

Spec == Init /\ [][Next]_vars

-----------------------------------------------------------------------------
(* Properties *)

\* The two maps hold the same orphans, each under its predecessor: no pointer of
\* mapOrphanBlocksByPrev is left to a deleted block.  No orphan is in the index.
OrphanMapsAgree ==
    /\ mapOrphanBlocksByPrev = {<<pprev(b), b>> : b \in mapOrphanBlocks}
    /\ mapOrphanBlocks \cap mapBlockIndex = {}

\* No two blocks share a stake.
OwnStakes == \A a, b \in Block : a # b => Stake[a] = NULL \/ Stake[a] # Stake[b]

\* The stakes of the orphans, and no others, are marked.
StakesOfOrphansSeen == OwnStakes => setStakeSeenOrphan = StakesOf(mapOrphanBlocks)

\* An orphan is recorded in all places or in none: both maps and the set of stakes.
OrphansRecorded == OrphanMapsAgree /\ StakesOfOrphansSeen

\* Between two calls an orphan waits for a block the node does not have: what
\* WantedByOrphan() asks a peer for is neither in the index nor an orphan
\* ("shunt it off to holding area until we get it").  When blocks do not connect it
\* does not hold: AcceptBlock() can return false for a block that is in the index.
OrphansWait ==
    BadBlock = {} /\ vWorkQueue = <<>> =>
        \A b \in mapOrphanBlocks : WantedByOrphan(b) \notin mapBlockIndex \cup mapOrphanBlocks

\* In whatever order blocks arrive, and whatever is refused in between, the index ends
\* up with those that came with all their ancestors.
OrderIrrelevant ==
    OwnStakes /\ BadBlock = {} /\ vWorkQueue = <<>> =>
        mapBlockIndex = {b \in Block : /\ Chain(b) \subseteq received \cup {Genesis}
                                       /\ Chain(b) \cap (Malformed \cup Refused) = {}}

\* No block is stranded: whatever the order, what can be connected is in the index, and what
\* is held back waits for a block that is not there.
NothingStranded == OrphansWait /\ OrderIrrelevant

\* "Duplicate stake allowed only when there is orphan child block": a block is put
\* with the orphans only if it has an orphan child, a pending checkpoint wants it, or
\* no orphan has its stake.
LimitedDuplicity ==
    [][\A b \in mapOrphanBlocks' \ mapOrphanBlocks :
        \/ ~IsProofOfStake(b) \/ HasOrphan(b) \/ WantedByPendingSyncCheckpoint(b)
        \/ \A a \in mapOrphanBlocks : Stake[a] # Stake[b]]_vars
=============================================================================
