----------------------------- MODULE BlockTree ------------------------------
(***************************************************************************)
(* The blocks a node can meet.  A block's hash commits to its predecessor's *)
(* hash (CBlock::hashPrevBlock), hence to all its ancestors, so a block is  *)
(* represented by the sequence of block labels that leads from the genesis  *)
(* block to it: pprev is the sequence without its last label, nHeight its   *)
(* length minus one.                                                        *)
(***************************************************************************)
EXTENDS Naturals, Sequences

CONSTANTS
    Block,          \* the blocks, a prefix-closed set of label sequences
    Genesis,        \* the genesis block
    nChainTrust,    \* [Block -> Nat], the sum of GetBlockTrust() up to a block
    NULL            \* no block (a null CBlockIndex*, or hash 0)

\* CBlockIndex::pprev of a block that is not the genesis block
pprev(b) == SubSeq(b, 1, Len(b) - 1)

\* a is b or an ancestor of b: walking pprev from b leads to a.
IsAncestor(a, b) ==
    /\ Len(a) <= Len(b)
    /\ \A i \in 1..Len(a) : a[i] = b[i]

\* The blocks from the genesis block to b
Chain(b) == {a \in Block : IsAncestor(a, b)}

\* The block after a on the way from a to its descendant b
StepTowards(a, b) == SubSeq(b, 1, Len(a) + 1)

\* The labels the blocks are made of
Label == UNION {{b[i] : i \in 1..Len(b)} : b \in Block}

ASSUME BlockAssumption ==
    /\ Block \subseteq Seq(Label)
    /\ \A b \in Block : Len(b) > 0 /\ b[1] = Genesis[1]
    /\ \A b \in Block : \A n \in 1..Len(b) : SubSeq(b, 1, n) \in Block
    /\ Genesis \in Block /\ Len(Genesis) = 1
    /\ NULL \notin Block

\* GetBlockTrust() of an accepted block is positive: CheckProofOfWork() and the
\* stake kernel check refuse a target of zero.
ASSUME TrustAssumption ==
    /\ nChainTrust \in [Block -> Nat]
    /\ \A b \in Block : \A a \in Chain(b) \ {b} : nChainTrust[a] < nChainTrust[b]
=============================================================================
