------------------------------- MODULE Ledger -------------------------------
(***************************************************************************)
(* What a node's chain state promises to the rest of the program and to the *)
(* next start of the process: a growing set of known blocks, and a best     *)
(* block that changes in single steps, each to a known block of greater     *)
(* trust all of whose chain is valid.                                       *)
(***************************************************************************)
EXTENDS BlockTree

CONSTANT ValidBlock

VARIABLES
    known,      \* the blocks the node has accepted
    best        \* the end of its best chain

Init ==
    /\ known = {Genesis}
    /\ best = Genesis

\* The node comes to know a block whose predecessor it knows.
Learn(b) ==
    /\ b \notin known
    /\ b # Genesis /\ pprev(b) \in known
    /\ known' = known \cup {b}
    /\ UNCHANGED best

\* The node moves its best chain.
Advance(b) ==
    /\ b \in known
    /\ nChainTrust[b] > nChainTrust[best]
    /\ Chain(b) \subseteq ValidBlock
    /\ best' = b
    /\ UNCHANGED known

Next == \E b \in Block : Learn(b) \/ Advance(b)

Spec == Init /\ [][Next]_<<known, best>>
=============================================================================
