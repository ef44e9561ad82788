-------------------------- MODULE BestChainProofs ---------------------------
(***************************************************************************)
(* The chain state of a node is consistent at every moment, on disk as in   *)
(* memory, for every block tree and every assignment of trust, as long as   *)
(* the loop over the further blocks in SetBestChain() never breaks off; and  *)
(* it breaks off only when the process was interrupted before and a block   *)
(* does not connect.                                                        *)
(***************************************************************************)
EXTENDS BestChain, BlockTreeProofs

\* The links along the chain that ends in t
LinksTo(t) ==
    [b \in Block |-> IF b \in Chain(t) \ {t} THEN StepTowards(b, t) ELSE NULL]

\* b is known to be on no chain that connects.
Refused(b) == ~(Chain(b) \subseteq ValidBlock) /\ nChainTrust[b] <= nBestInvalidTrust

\* The inductive invariant.  Its last conjunct is the reason why SetBestChain() is
\* never left with further blocks to connect in a run without interruptions.
Inv ==
    /\ TypeOK
    /\ dskIndex = mapBlockIndex
    /\ dskBest \in dskIndex /\ dskWalletBest \in dskIndex
    /\ \A b \in dskIndex : Chain(b) \subseteq dskIndex
    /\ dskConnected = Chain(dskBest)
    /\ Chain(dskBest) \subseteq ValidBlock
    /\ dskNext = LinksTo(dskBest)
    /\ pnext = LinksTo(dskBest)
    /\ pc = "idle" => pindexBest = dskBest /\ pindexNew = NULL
    /\ pc = "setbest" => /\ pindexBest = dskBest
                         /\ pindexNew \in dskIndex \ {Genesis}
                         /\ nChainTrust[pindexNew] > nChainTrust[dskBest]
    /\ pc = "secondary" => /\ pindexTip = dskBest
                           /\ pindexNew \in dskIndex
                           /\ pindexTip \in Chain(pindexNew)
                           /\ crashes = 0 => pindexTip = pindexNew
    /\ crashes = 0 =>
          \A b \in dskIndex \ {pindexNew} :
             nChainTrust[b] > nChainTrust[dskBest] => Refused(b)

-----------------------------------------------------------------------------
(* The links after a reorganisation *)

\* Unlinking what is disconnected and linking what is connected leads from the
\* links along one chain to the links along the other.
LEMMA RelinkLinksTo ==
  ASSUME NEW x \in Block, NEW y \in Block
  PROVE  Relink(LinksTo(x), Chain(x) \ Chain(y), Chain(y) \ Chain(x)) = LinksTo(y)
<1> DEFINE D == Chain(x) \ Chain(y)
           C == Chain(y) \ Chain(x)
           R == Relink(LinksTo(x), D, C)
<1>1. \A c \in Chain(y) : c # Genesis =>
          pprev(c) \in Chain(y) \ {y} /\ c = StepTowards(pprev(c), y)
  BY StepUnique
<1>2. \A d \in Chain(x) : d # Genesis =>
          pprev(d) \in Chain(x) \ {x} /\ d = StepTowards(pprev(d), x)
  BY StepUnique
<1>3. ASSUME NEW b \in Block
      PROVE  R[b] = LinksTo(y)[b]
  <2> DEFINE s == StepTowards(b, y)
             t == StepTowards(b, x)
  <2>0. /\ LinksTo(x)[b] = IF b \in Chain(x) \ {x} THEN t ELSE NULL
        /\ LinksTo(y)[b] = IF b \in Chain(y) \ {y} THEN s ELSE NULL
    BY DEF LinksTo
  <2>1. R[b] = IF \E c \in C : c # Genesis /\ pprev(c) = b
               THEN CHOOSE c \in C : c # Genesis /\ pprev(c) = b
               ELSE IF \E d \in D : d # Genesis /\ pprev(d) = b
               THEN NULL
               ELSE LinksTo(x)[b]
    BY DEF Relink
  <2> HIDE DEF R
  <2>2. CASE b \in Chain(y) \ {y}
    <3>1. s \in Chain(y) /\ s # Genesis /\ pprev(s) = b
      BY <2>2, StepFacts
    <3>2. \A c \in C : c # Genesis /\ pprev(c) = b => c = s
      BY <1>1
    <3> HIDE DEF s
    <3>3. CASE s \notin Chain(x)
      <4>1. s \in C
        BY <3>1, <3>3
      <4>2. (CHOOSE c \in C : c # Genesis /\ pprev(c) = b) = s
        BY <3>1, <3>2, <4>1
      <4> QED BY <2>0, <2>1, <2>2, <3>1, <4>1, <4>2
    <3>4. CASE s \in Chain(x)
      <4>1. b \in Chain(x) \ {x} /\ s = t
        BY <1>2, <3>1, <3>4
      <4>2. ~ \E c \in C : c # Genesis /\ pprev(c) = b
        BY <3>2, <3>4
      <4>3. ~ \E d \in D : d # Genesis /\ pprev(d) = b
        BY <1>2, <3>1, <4>1
      <4> QED BY <2>0, <2>1, <2>2, <4>1, <4>2, <4>3
    <3> QED BY <3>3, <3>4
  <2>3. CASE b \notin Chain(y) \ {y}
    <3>1. ~ \E c \in C : c # Genesis /\ pprev(c) = b
      BY <1>1, <2>3
    <3>2. CASE \E d \in D : d # Genesis /\ pprev(d) = b
      BY <2>0, <2>1, <2>3, <3>1, <3>2
    <3>3. CASE ~ \E d \in D : d # Genesis /\ pprev(d) = b
      <4>1. b \notin Chain(x) \ {x}
        <5> SUFFICES ASSUME b \in Chain(x) \ {x} PROVE FALSE
          OBVIOUS
        <5>1. t \in Chain(x) /\ t # Genesis /\ pprev(t) = b
          BY StepFacts
        <5>2. t \in Chain(y)
          BY <3>3, <5>1
        <5> QED BY <1>1, <2>3, <5>1, <5>2
      <4> QED BY <2>0, <2>1, <2>3, <3>1, <3>3, <4>1
    <3> QED BY <3>2, <3>3
  <2> QED BY <2>2, <2>3
<1>4. R = [b \in Block |-> R[b]] /\ LinksTo(y) = [b \in Block |-> LinksTo(y)[b]]
  BY DEF Relink, LinksTo
<1> HIDE DEF R
<1>5. R = LinksTo(y)
  BY <1>3, <1>4
<1> QED BY <1>5 DEF R

\* The same for the records on disk, when memory and disk agree before.
LEMMA RelinkOnDiskLinksTo ==
  ASSUME NEW x \in Block, NEW y \in Block,
         pnext = LinksTo(x), dskNext = LinksTo(x)
  PROVE  /\ Relink(pnext, Chain(x) \ Chain(y), Chain(y) \ Chain(x)) = LinksTo(y)
         /\ RelinkOnDisk(Chain(x) \ Chain(y), Chain(y) \ Chain(x)) = LinksTo(y)
<1> DEFINE C == Chain(y) \ Chain(x)
<1>1. [b \in Block |-> IF b \in C THEN pnext[b] ELSE dskNext[b]] = LinksTo(x)
  BY DEF LinksTo
<1> QED BY <1>1, RelinkLinksTo DEF RelinkOnDisk

\* Connecting one block on top of its predecessor.
LEMMA ConnectOne ==
  ASSUME NEW x \in Block, NEW y \in Block, y # Genesis, pprev(y) = x,
         pnext = LinksTo(x), dskNext = LinksTo(x)
  PROVE  /\ Relink(pnext, {}, {y}) = LinksTo(y)
         /\ RelinkOnDisk({}, {y}) = LinksTo(y)
         /\ Chain(x) \cup {y} = Chain(y)
<1>1. Chain(y) = Chain(x) \cup {y} /\ y \notin Chain(x)
  BY ChainOfPrev
<1>2. Chain(x) \ Chain(y) = {} /\ Chain(y) \ Chain(x) = {y}
  BY <1>1
<1> QED BY <1>1, <1>2, RelinkOnDiskLinksTo

\* LinksTo has the type of pnext.
LEMMA LinksToType ==
  ASSUME NEW x \in Block
  PROVE  LinksTo(x) \in [Block -> Block \cup {NULL}]
<1>1. \A b \in Chain(x) \ {x} : StepTowards(b, x) \in Block
  BY StepFacts
<1> QED BY <1>1 DEF LinksTo

-----------------------------------------------------------------------------
(* The invariant is inductive *)

LEMMA InitInv == Init => Inv
<1> SUFFICES ASSUME Init PROVE Inv
  OBVIOUS
<1> USE BlockAssumption, TrustAssumption, ValidAssumption, CrashAssumption
<1>1. Chain(Genesis) = {Genesis}
  <2>1. ASSUME NEW a \in Chain(Genesis) PROVE a = Genesis
    <3>1. a \in Block /\ Len(a) \in Nat /\ Len(a) <= 1 /\ (a # Genesis => Len(a) < 1)
      BY <2>1, AncestorLen DEF Chain
    <3>2. Len(a) > 0
      BY <3>1
    <3> QED BY <3>1, <3>2
  <2> QED BY <2>1, ChainFacts
<1>2. LinksTo(Genesis) = [b \in Block |-> NULL]
  BY <1>1 DEF LinksTo
<1>3. TypeOK
  BY DEF Init, TypeOK
<1> QED BY <1>1, <1>2, <1>3 DEF Init, Inv

LEMMA AddToBlockIndexInv ==
  ASSUME Inv, NEW b \in Block, AddToBlockIndex(b)
  PROVE  Inv'
<1> USE BlockAssumption, TrustAssumption, ValidAssumption, CrashAssumption
<1>1. /\ TypeOK /\ pc = "idle" /\ pindexBest = dskBest /\ pindexNew = NULL
      /\ b \notin dskIndex /\ b # Genesis /\ pprev(b) \in dskIndex
      /\ dskIndex' = dskIndex \cup {b} /\ mapBlockIndex' = dskIndex'
      /\ dskBest' = dskBest /\ pindexBest' = pindexBest
      /\ dskConnected' = dskConnected
  BY DEF Inv, AddToBlockIndex, WriteBlockIndex, IsNewBest
<1>2. Chain(b) \subseteq dskIndex'
  BY <1>1, ChainOfPrev DEF Inv
<1>3. pnext' = LinksTo(dskBest') /\ dskNext' = LinksTo(dskBest')
  <2>1. b \notin Chain(dskBest)
    BY <1>1 DEF Inv
  <2>2. [LinksTo(dskBest) EXCEPT ![b] = NULL] = LinksTo(dskBest)
    BY <2>1 DEF LinksTo
  <2> QED BY <1>1, <2>2 DEF Inv, AddToBlockIndex, WriteBlockIndex, IsNewBest
<1>4. TypeOK'
  BY <1>1 DEF TypeOK, AddToBlockIndex, WriteBlockIndex, IsNewBest
<1>5. /\ pc' = "idle" => pindexNew' = NULL /\ ~(nChainTrust[b] > nChainTrust[dskBest])
      /\ pc' = "setbest" => pindexNew' = b /\ nChainTrust[b] > nChainTrust[dskBest]
      /\ pc' \in {"idle", "setbest"}
  BY <1>1 DEF AddToBlockIndex, WriteBlockIndex, IsNewBest
<1>6. ASSUME crashes = 0, NEW x \in dskIndex' \ {pindexNew'},
             nChainTrust[x] > nChainTrust[dskBest']
      PROVE  Refused(x)'
  <2>1. x \in dskIndex
    BY <1>1, <1>5, <1>6
  <2>2. x # NULL
    BY <1>1, <2>1 DEF TypeOK
  <2> QED BY <1>1, <1>6, <2>1, <2>2 DEF Inv, Refused, AddToBlockIndex
<1>7. /\ dskBest' \in dskIndex' /\ dskWalletBest' \in dskIndex'
      /\ \A x \in dskIndex' : Chain(x) \subseteq dskIndex'
      /\ dskConnected' = Chain(dskBest')
      /\ Chain(dskBest') \subseteq ValidBlock
  BY <1>1, <1>2 DEF Inv, AddToBlockIndex, WriteBlockIndex, IsNewBest
<1>8. UNCHANGED <<dskBest, pindexBest, crashes>>
  BY DEF AddToBlockIndex
<1> QED BY <1>1, <1>3, <1>4, <1>5, <1>6, <1>7, <1>8 DEF Inv

\* What SetBestChainInner() leaves behind when it connects b to the chain on disk.
LEMMA SetBestChainInnerInv ==
  ASSUME Inv, NEW b \in dskIndex, b # Genesis, pprev(b) = dskBest,
         SetBestChainInner(b)
  PROVE  /\ b \in ValidBlock
         /\ dskConnected' = Chain(b) /\ Chain(b) \subseteq ValidBlock
         /\ dskBest' = b
         /\ pnext' = LinksTo(b) /\ dskNext' = LinksTo(b)
         /\ dskIndex' = dskIndex /\ mapBlockIndex' = mapBlockIndex
         /\ nBestInvalidTrust' = nBestInvalidTrust
         /\ nChainTrust[b] > nChainTrust[dskBest]
<1>1. b \in Block /\ dskBest \in Block
  BY DEF Inv, TypeOK
<1>2. ConnectOutcomes(b) = {b \in ValidBlock}
  BY DEF Inv, ConnectOutcomes
<1>3. b \in ValidBlock
  BY <1>2 DEF SetBestChainInner
<1>4. /\ Relink(pnext, {}, {b}) = LinksTo(b)
      /\ RelinkOnDisk({}, {b}) = LinksTo(b)
      /\ Chain(dskBest) \cup {b} = Chain(b)
  BY <1>1, ConnectOne DEF Inv
<1>5. nChainTrust[b] > nChainTrust[dskBest]
  <2>1. dskBest \in Chain(b) \ {b}
    BY <1>1, ChainOfPrev
  <2>2. nChainTrust[dskBest] \in Nat /\ nChainTrust[b] \in Nat
    BY <1>1, TrustAssumption
  <2> QED BY <1>1, <2>1, <2>2, TrustAssumption
<1> QED BY <1>3, <1>4, <1>5 DEF Inv, SetBestChainInner

\* A failed ConnectBlock() is the block's own fault.
LEMMA SetBestChainInnerFailsInv ==
  ASSUME Inv, NEW b \in dskIndex, b # Genesis, pprev(b) = dskBest,
         SetBestChainInnerFails(b)
  PROVE  b \notin ValidBlock
<1>1. ConnectOutcomes(b) = {b \in ValidBlock}
  BY DEF Inv, ConnectOutcomes
<1> QED BY <1>1 DEF SetBestChainInnerFails

\* InvalidChainFound() only raises nBestInvalidTrust, and at least to b's trust.
LEMMA InvalidChainFoundRaises ==
  ASSUME TypeOK, NEW b \in Block, InvalidChainFound(b)
  PROVE  /\ nBestInvalidTrust' \in Nat
         /\ nBestInvalidTrust' >= nBestInvalidTrust
         /\ nBestInvalidTrust' >= nChainTrust[b]
<1>1. nChainTrust[b] \in Nat /\ nBestInvalidTrust \in Nat
  BY TrustAssumption DEF TypeOK
<1> QED BY <1>1 DEF InvalidChainFound

LEMMA ExtendBestChainInv ==
  ASSUME Inv, ExtendBestChain
  PROVE  Inv'
<1> USE BlockAssumption, TrustAssumption, ValidAssumption, CrashAssumption
<1>1. /\ TypeOK /\ pindexBest = dskBest /\ pprev(pindexNew) = dskBest
      /\ pindexNew \in dskIndex \ {Genesis} /\ pindexNew \in Block
      /\ nChainTrust[pindexNew] > nChainTrust[dskBest]
      /\ nChainTrust[pindexNew] \in Nat /\ nChainTrust[dskBest] \in Nat
      /\ dskIndex \subseteq Block
  BY DEF Inv, TypeOK, ExtendBestChain
<1>2. CASE SetBestChainInner(pindexNew) /\ NewBestBlock /\ UNCHANGED stale
  <2>1. /\ dskConnected' = Chain(pindexNew) /\ Chain(pindexNew) \subseteq ValidBlock
        /\ dskBest' = pindexNew
        /\ pnext' = LinksTo(pindexNew) /\ dskNext' = LinksTo(pindexNew)
        /\ dskIndex' = dskIndex /\ mapBlockIndex' = mapBlockIndex
        /\ nBestInvalidTrust' = nBestInvalidTrust
    BY <1>1, <1>2, SetBestChainInnerInv
  <2>2. /\ pindexBest' = pindexNew /\ pc' = "idle" /\ pindexNew' = NULL
        /\ pindexTip' = NULL /\ dskWalletBest' \in {dskWalletBest, pindexNew}
        /\ crashes' = crashes /\ stale' = stale
    BY <1>2 DEF NewBestBlock, UpdateWalletBest
  <2>3. TypeOK'
    BY <1>1, <2>1, <2>2, LinksToType, ChainFacts DEF TypeOK
  <2>4. ASSUME crashes = 0, NEW x \in dskIndex, nChainTrust[x] > nChainTrust[pindexNew]
        PROVE  Refused(x)'
    <3>1. x # pindexNew /\ nChainTrust[x] \in Nat
      BY <1>1, <2>4
    <3>2. nChainTrust[x] > nChainTrust[dskBest]
      BY <1>1, <2>4, <3>1
    <3>3. Refused(x)
      BY <2>4, <3>1, <3>2 DEF Inv
    <3> QED BY <2>1, <3>3 DEF Refused
  <2> QED BY <1>1, <2>1, <2>2, <2>3, <2>4 DEF Inv
<1>3. CASE SetBestChainInnerFails(pindexNew) /\ ReturnError
  <2>1. pindexNew \notin ValidBlock
    BY <1>1, <1>3, SetBestChainInnerFailsInv
  <2>2. ~(Chain(pindexNew) \subseteq ValidBlock)
    BY <1>1, <2>1, ChainFacts
  <2>3. /\ nBestInvalidTrust' \in Nat /\ nBestInvalidTrust \in Nat
        /\ nBestInvalidTrust' >= nBestInvalidTrust
        /\ nBestInvalidTrust' >= nChainTrust[pindexNew]
    BY <1>1, <1>3, InvalidChainFoundRaises DEF SetBestChainInnerFails, TypeOK
  <2>4. /\ UNCHANGED <<mapBlockIndex, pnext, dskIndex, dskNext, dskBest, dskConnected>>
        /\ UNCHANGED <<pindexBest, pindexTip, dskWalletBest, crashes, stale>>
        /\ pc' = "idle" /\ pindexNew' = NULL
    BY <1>3 DEF SetBestChainInnerFails, ReturnError, disk
  <2>5. TypeOK'
    BY <1>1, <2>3, <2>4 DEF TypeOK
  <2>6. ASSUME crashes = 0, NEW x \in dskIndex, nChainTrust[x] > nChainTrust[dskBest]
        PROVE  Refused(x)'
    <3>1. CASE x = pindexNew
      BY <2>2, <2>3, <3>1 DEF Refused
    <3>2. CASE x # pindexNew
      <4>1. Refused(x) /\ nChainTrust[x] \in Nat
        BY <1>1, <2>6, <3>2 DEF Inv
      <4> QED BY <2>3, <4>1 DEF Refused
    <3> QED BY <3>1, <3>2
  <2> QED BY <1>1, <2>4, <2>5, <2>6 DEF Inv
<1> QED BY <1>2, <1>3 DEF ExtendBestChain

\* The block Reorganize() goes to: indexed, heavier than the best block, and the new
\* block itself unless it is a block that was indexed before.
LEMMA IntermediateFacts ==
  ASSUME Inv, pc = "setbest", NEW b \in Block, IsIntermediate(b, pindexNew)
  PROVE  /\ b \in dskIndex
         /\ b \in Chain(pindexNew) /\ Chain(b) \subseteq Chain(pindexNew)
         /\ nChainTrust[b] > nChainTrust[dskBest]
         /\ ReorganizeOutcomes(b) = {Chain(b) \subseteq ValidBlock}
<1>1. /\ pindexBest = dskBest /\ pindexNew \in dskIndex /\ pindexNew \in Block
      /\ nChainTrust[pindexNew] > nChainTrust[dskBest]
  BY DEF Inv, TypeOK
<1>2. b \in Chain(pindexNew)
  BY DEF IsIntermediate
<1>3. b \in dskIndex
  BY <1>1, <1>2 DEF Inv
<1>4. nChainTrust[b] > nChainTrust[dskBest]
  BY <1>1 DEF IsIntermediate
<1>5. Chain(b) \subseteq Chain(pindexNew)
  BY <1>1, <1>2, ChainFacts
<1>6. (Chain(b) \ Chain(dskBest) \subseteq ValidBlock) <=> (Chain(b) \subseteq ValidBlock)
  BY DEF Inv
<1>7. ReorganizeOutcomes(b) = {Chain(b) \ Chain(dskBest) \subseteq ValidBlock}
  BY <1>1 DEF Inv, ReorganizeOutcomes
<1>8. {Chain(b) \ Chain(dskBest) \subseteq ValidBlock} = {Chain(b) \subseteq ValidBlock}
  BY <1>6
<1> QED BY <1>2, <1>3, <1>4, <1>5, <1>7, <1>8

LEMMA ReorganizeInv ==
  ASSUME Inv, Reorganize
  PROVE  Inv' /\ nChainTrust[dskBest'] > nChainTrust[dskBest]
<1> USE BlockAssumption, TrustAssumption, ValidAssumption, CrashAssumption
<1>1. PICK b \in Block :
         /\ IsIntermediate(b, pindexNew)
         /\ TRUE \in ReorganizeOutcomes(b)
         /\ dskConnected' = (dskConnected \ (Chain(pindexBest) \ Chain(b)))
                               \cup (Chain(b) \ Chain(pindexBest))
         /\ dskNext' = RelinkOnDisk(Chain(pindexBest) \ Chain(b), Chain(b) \ Chain(pindexBest))
         /\ pnext' = Relink(pnext, Chain(pindexBest) \ Chain(b), Chain(b) \ Chain(pindexBest))
         /\ dskBest' = b /\ pindexTip' = b
  BY DEF Reorganize
<1>2. /\ TypeOK /\ pc = "setbest" /\ pindexBest = dskBest
      /\ pindexNew \in dskIndex /\ dskIndex \subseteq Block /\ dskBest \in Block
      /\ nChainTrust[dskBest] \in Nat /\ nChainTrust[b] \in Nat
      /\ pc' = "secondary"
      /\ UNCHANGED <<mapBlockIndex, pindexBest, dskIndex, pindexNew,
                     nBestInvalidTrust, dskWalletBest, crashes, stale>>
  BY DEF Inv, TypeOK, Reorganize
<1>3. /\ b \in dskIndex /\ b \in Chain(pindexNew)
      /\ nChainTrust[b] > nChainTrust[dskBest]
      /\ Chain(b) \subseteq ValidBlock
  BY <1>1, <1>2, IntermediateFacts
<1>4. dskConnected' = Chain(b)
  BY <1>1, <1>2 DEF Inv
<1>5. dskNext' = LinksTo(b) /\ pnext' = LinksTo(b)
  BY <1>1, <1>2, RelinkOnDiskLinksTo DEF Inv
<1>6. TypeOK'
  <2>1. LinksTo(b) \in [Block -> Block \cup {NULL}] /\ Chain(b) \subseteq Block
    BY LinksToType, ChainFacts
  <2>2. dskBest' \in Block /\ pindexTip' \in Block
    BY <1>1
  <2> QED BY <1>2, <1>4, <1>5, <2>1, <2>2 DEF TypeOK
<1>7. crashes = 0 => b = pindexNew
  <2> SUFFICES ASSUME crashes = 0, b # pindexNew PROVE FALSE
    OBVIOUS
  <2> QED BY <1>3 DEF Inv, Refused
<1>8. ASSUME crashes = 0, NEW x \in dskIndex \ {pindexNew},
             nChainTrust[x] > nChainTrust[b]
      PROVE  Refused(x)'
  <2>1. nChainTrust[x] \in Nat
    BY <1>2
  <2>2. nChainTrust[x] > nChainTrust[dskBest]
    BY <1>2, <1>3, <1>8, <2>1
  <2>3. Refused(x)
    BY <1>8, <2>2 DEF Inv
  <2> QED BY <1>2, <2>3 DEF Refused
<1>9. dskBest' = b /\ pindexTip' = b
  BY <1>1
<1>10. Inv'
  BY <1>2, <1>3, <1>4, <1>5, <1>6, <1>7, <1>8, <1>9 DEF Inv
<1> QED BY <1>3, <1>9, <1>10

LEMMA ReorganizeFailsInv ==
  ASSUME Inv, ReorganizeFails
  PROVE  Inv'
<1> USE BlockAssumption, TrustAssumption, ValidAssumption, CrashAssumption
<1>1. PICK b \in Block : /\ IsIntermediate(b, pindexNew)
                         /\ FALSE \in ReorganizeOutcomes(b)
  BY DEF ReorganizeFails
<1>2. /\ TypeOK /\ pc = "setbest" /\ pindexBest = dskBest
      /\ pindexNew \in dskIndex /\ pindexNew \in Block /\ dskIndex \subseteq Block
  BY DEF Inv, TypeOK, ReorganizeFails
<1>3. ~(Chain(pindexNew) \subseteq ValidBlock)
  BY <1>1, <1>2, IntermediateFacts
<1>4. /\ nBestInvalidTrust' \in Nat /\ nBestInvalidTrust \in Nat
      /\ nBestInvalidTrust' >= nBestInvalidTrust
      /\ nBestInvalidTrust' >= nChainTrust[pindexNew]
  BY <1>2, InvalidChainFoundRaises DEF ReorganizeFails, TypeOK
<1>5. /\ UNCHANGED <<mapBlockIndex, pnext, dskIndex, dskNext, dskBest, dskConnected>>
      /\ UNCHANGED <<pindexBest, pindexTip, dskWalletBest, crashes, stale>>
      /\ pc' = "idle" /\ pindexNew' = NULL
  BY DEF ReorganizeFails, ReturnError, disk
<1>6. TypeOK'
  BY <1>2, <1>4, <1>5 DEF TypeOK
<1>7. ASSUME crashes = 0, NEW x \in dskIndex, nChainTrust[x] > nChainTrust[dskBest]
      PROVE  Refused(x)'
  <2>1. nChainTrust[x] \in Nat
    BY <1>2
  <2>2. CASE x = pindexNew
    BY <1>3, <1>4, <2>1, <2>2 DEF Refused
  <2>3. CASE x # pindexNew
    <3>1. Refused(x)
      BY <1>7, <2>3 DEF Inv
    <3> QED BY <1>4, <2>1, <3>1 DEF Refused
  <2> QED BY <2>2, <2>3
<1> QED BY <1>2, <1>5, <1>6, <1>7 DEF Inv

\* The loop over the further blocks, when it does not break off.
LEMMA ConnectSecondaryInv ==
  ASSUME Inv, ConnectSecondary, stale' = {}
  PROVE  Inv' /\ nChainTrust[dskBest'] > nChainTrust[dskBest]
<1> USE BlockAssumption, TrustAssumption, ValidAssumption, CrashAssumption
<1> DEFINE b == StepTowards(pindexTip, pindexNew)
<1>1. /\ TypeOK /\ pc = "secondary" /\ pindexTip = dskBest /\ pindexTip # pindexNew
      /\ pindexNew \in dskIndex /\ pindexNew \in Block /\ dskIndex \subseteq Block
      /\ pindexTip \in Chain(pindexNew) /\ crashes # 0
  BY DEF Inv, TypeOK, ConnectSecondary
<1>2. /\ b \in Chain(pindexNew) /\ b \in Block /\ b # Genesis /\ pprev(b) = dskBest
  BY <1>1, StepFacts
<1>3. /\ SetBestChainInner(b) /\ pindexTip' = b
      /\ UNCHANGED <<pindexBest, pc, pindexNew, dskWalletBest, crashes, stale>>
  BY DEF ConnectSecondary
<1> HIDE DEF b
<1>4. b \in dskIndex
  BY <1>1, <1>2 DEF Inv
<1>5. /\ dskConnected' = Chain(b) /\ Chain(b) \subseteq ValidBlock
      /\ dskBest' = b
      /\ pnext' = LinksTo(b) /\ dskNext' = LinksTo(b)
      /\ dskIndex' = dskIndex /\ mapBlockIndex' = mapBlockIndex
      /\ nBestInvalidTrust' = nBestInvalidTrust
      /\ nChainTrust[b] > nChainTrust[dskBest]
  BY <1>2, <1>3, <1>4, SetBestChainInnerInv
<1>6. TypeOK'
  <2>1. LinksTo(b) \in [Block -> Block \cup {NULL}] /\ Chain(b) \subseteq Block
    BY <1>2, LinksToType, ChainFacts
  <2> QED BY <1>1, <1>2, <1>3, <1>5, <2>1 DEF TypeOK
<1>7. Inv'
  BY <1>1, <1>2, <1>3, <1>4, <1>5, <1>6 DEF Inv
<1> QED BY <1>5, <1>7

LEMMA FinishSecondaryInv ==
  ASSUME Inv, FinishSecondary
  PROVE  Inv'
<1> USE BlockAssumption
<1>1. /\ TypeOK /\ pindexNew = dskBest /\ pindexNew \in dskIndex /\ pindexNew \in Block
      /\ dskIndex \subseteq Block
  BY DEF Inv, TypeOK, FinishSecondary
<1>2. /\ UNCHANGED <<mapBlockIndex, pnext, dskIndex, dskNext, dskBest, dskConnected>>
      /\ UNCHANGED <<nBestInvalidTrust, crashes, stale>>
      /\ pindexBest' = pindexNew /\ pc' = "idle" /\ pindexNew' = NULL
      /\ pindexTip' = NULL /\ dskWalletBest' \in {dskWalletBest, pindexNew}
  BY DEF FinishSecondary, NewBestBlock, UpdateWalletBest, disk
<1>3. TypeOK'
  BY <1>1, <1>2 DEF TypeOK
<1>4. ASSUME crashes = 0, NEW x \in dskIndex, nChainTrust[x] > nChainTrust[dskBest]
      PROVE  Refused(x)'
  <2>1. x # pindexNew /\ nChainTrust[dskBest] \in Nat
    BY <1>1, <1>4, TrustAssumption
  <2>2. Refused(x)
    BY <1>4, <2>1 DEF Inv
  <2> QED BY <1>2, <2>2 DEF Refused
<1> QED BY <1>1, <1>2, <1>3, <1>4 DEF Inv

LEMMA RestartInv ==
  ASSUME Inv, Restart
  PROVE  Inv'
<1> USE CrashAssumption
<1>1. /\ TypeOK /\ crashes' # 0
      /\ crashes' \in 0..MaxCrashes
  BY DEF Inv, TypeOK, Restart
<1>2. /\ UNCHANGED <<dskIndex, dskNext, dskBest, dskConnected>>
      /\ UNCHANGED <<nBestInvalidTrust, dskWalletBest, stale>>
      /\ mapBlockIndex' = dskIndex /\ pnext' = dskNext /\ pindexBest' = dskBest
      /\ pc' = "idle" /\ pindexNew' = NULL /\ pindexTip' = NULL
  BY DEF Restart, disk
<1>3. TypeOK'
  BY <1>1, <1>2 DEF TypeOK
<1> QED BY <1>1, <1>2, <1>3 DEF Inv

LEMMA NextInv ==
  ASSUME Inv, [Next]_vars, stale' = {}
  PROVE  Inv'
<1>1. CASE UNCHANGED vars
  <2>1. UNCHANGED <<mapBlockIndex, pnext, pindexBest, dskIndex, dskNext, dskBest,
                    dskConnected, pc, pindexNew, pindexTip, nBestInvalidTrust,
                    dskWalletBest, crashes, stale>>
    BY <1>1 DEF vars, memory, disk, control
  <2> QED BY <2>1 DEF Inv, TypeOK, Refused
<1>2. ASSUME NEW b \in Block, AddToBlockIndex(b)
      PROVE  Inv'
  BY <1>2, AddToBlockIndexInv
<1>3. CASE SetBestChain
  BY <1>3, ExtendBestChainInv, ReorganizeInv, ReorganizeFailsInv,
     ConnectSecondaryInv, FinishSecondaryInv DEF SetBestChain
<1>4. CASE Restart
  BY <1>4, RestartInv
<1> QED BY <1>1, <1>2, <1>3, <1>4 DEF Next

-----------------------------------------------------------------------------
(* What holds whatever is interrupted and whatever fails to connect *)

\* The inductive invariant that is left when memory may run ahead of the disk.
WeakInv ==
    /\ TypeOK
    /\ dskIndex = mapBlockIndex
    /\ dskBest \in dskIndex /\ dskWalletBest \in dskIndex /\ pindexBest \in dskIndex
    /\ \A b \in dskIndex : Chain(b) \subseteq dskIndex
    /\ \A b \in Block : /\ pnext[b] \in dskIndex \cup {NULL}
                       /\ dskNext[b] \in dskIndex \cup {NULL}
    /\ pc # "secondary" => nChainTrust[dskBest] <= nChainTrust[pindexBest]
    /\ pc = "setbest" => /\ pindexNew \in dskIndex \ {Genesis}
                         /\ nChainTrust[pindexNew] > nChainTrust[pindexBest]
    /\ pc = "secondary" => /\ pindexTip = dskBest
                           /\ pindexNew \in dskIndex
                           /\ pindexTip \in Chain(pindexNew)

\* Relinking leads to blocks that were linked to before or are connected.
LEMMA RelinkRange ==
  ASSUME NEW next, NEW D, NEW C, NEW b \in Block
  PROVE  /\ Relink(next, D, C)[b] \in C \cup {NULL, next[b]}
         /\ Relink(next, D, C) = [x \in Block |-> Relink(next, D, C)[x]]
<1>1. (\E c \in C : c # Genesis /\ pprev(c) = b)
         => (CHOOSE c \in C : c # Genesis /\ pprev(c) = b) \in C
  OBVIOUS
<1> QED BY <1>1 DEF Relink

\* So the links keep their type and stay inside the index.
LEMMA RelinkTyped ==
  ASSUME WeakInv, NEW D, NEW C \in SUBSET dskIndex
  PROVE  /\ Relink(pnext, D, C) \in [Block -> Block \cup {NULL}]
         /\ RelinkOnDisk(D, C) \in [Block -> Block \cup {NULL}]
         /\ \A b \in Block : /\ Relink(pnext, D, C)[b] \in dskIndex \cup {NULL}
                            /\ RelinkOnDisk(D, C)[b] \in dskIndex \cup {NULL}
<1> DEFINE m == [b \in Block |-> IF b \in C THEN pnext[b] ELSE dskNext[b]]
           P == Relink(pnext, D, C)
           Q == Relink(m, D, C)
<1>1. dskIndex \subseteq Block /\ \A b \in Block : m[b] \in dskIndex \cup {NULL}
  BY DEF WeakInv, TypeOK
<1>2. \A b \in Block : /\ P[b] \in C \cup {NULL, pnext[b]}
                      /\ Q[b] \in C \cup {NULL, m[b]}
  BY RelinkRange
<1>3. P = [b \in Block |-> P[b]] /\ Q = [b \in Block |-> Q[b]]
  BY DEF Relink
<1>4. Q = RelinkOnDisk(D, C)
  BY DEF RelinkOnDisk
<1> HIDE DEF m, P, Q
<1>5. \A b \in Block : P[b] \in dskIndex \cup {NULL} /\ Q[b] \in dskIndex \cup {NULL}
  BY <1>1, <1>2 DEF WeakInv
<1>6. P \in [Block -> Block \cup {NULL}] /\ Q \in [Block -> Block \cup {NULL}]
  BY <1>1, <1>3, <1>5
<1> QED BY <1>4, <1>5, <1>6 DEF P

\* One SetBestChainInner() on top of a block of the new chain.
LEMMA WeakConnect ==
  ASSUME WeakInv, NEW b \in dskIndex, SetBestChainInner(b)
  PROVE  /\ pnext' \in [Block -> Block \cup {NULL}]
         /\ dskNext' \in [Block -> Block \cup {NULL}]
         /\ \A x \in Block : /\ pnext'[x] \in dskIndex \cup {NULL}
                            /\ dskNext'[x] \in dskIndex \cup {NULL}
         /\ dskConnected' \subseteq Block
         /\ dskBest' = b
         /\ UNCHANGED <<mapBlockIndex, dskIndex, nBestInvalidTrust>>
<1>1. {b} \in SUBSET dskIndex /\ dskIndex \subseteq Block /\ dskConnected \subseteq Block
  BY DEF WeakInv, TypeOK
<1>2. pnext' = Relink(pnext, {}, {b}) /\ dskNext' = RelinkOnDisk({}, {b})
  BY DEF SetBestChainInner
<1>3. dskConnected' \subseteq Block
  BY <1>1 DEF SetBestChainInner
<1> QED BY <1>1, <1>2, <1>3, RelinkTyped DEF SetBestChainInner

\* Each step keeps the weak invariant and moves hashBestChain to greater trust only.
LEMMA WeakStep ==
  ASSUME WeakInv, [Next]_vars
  PROVE  /\ WeakInv'
         /\ dskBest' # dskBest => nChainTrust[dskBest'] > nChainTrust[dskBest]
<1> USE BlockAssumption, TrustAssumption, ValidAssumption, CrashAssumption
<1>0. /\ TypeOK /\ dskIndex \subseteq Block /\ dskIndex = mapBlockIndex
      /\ dskBest \in Block /\ pindexBest \in Block
      /\ \A x \in Block : nChainTrust[x] \in Nat
  BY DEF WeakInv, TypeOK
<1>1. CASE UNCHANGED vars
  <2>1. UNCHANGED <<mapBlockIndex, pnext, pindexBest, dskIndex, dskNext, dskBest,
                    dskConnected, pc, pindexNew, pindexTip, nBestInvalidTrust,
                    dskWalletBest, crashes, stale>>
    BY <1>1 DEF vars, memory, disk, control
  <2> QED BY <2>1 DEF WeakInv, TypeOK
<1>2. ASSUME NEW b \in Block, AddToBlockIndex(b)
      PROVE  WeakInv' /\ dskBest' = dskBest
  <2>1. /\ pc = "idle" /\ b # Genesis /\ pprev(b) \in dskIndex
        /\ dskIndex' = dskIndex \cup {b} /\ mapBlockIndex' = dskIndex'
        /\ UNCHANGED <<dskBest, pindexBest, dskConnected, pindexTip,
                       nBestInvalidTrust, dskWalletBest, crashes, stale>>
        /\ pnext' = [pnext EXCEPT ![b] = NULL]
        /\ dskNext' = [dskNext EXCEPT ![b] = NULL]
    BY <1>0, <1>2 DEF AddToBlockIndex, WriteBlockIndex, IsNewBest
  <2>2. \A x \in dskIndex' : Chain(x) \subseteq dskIndex'
    BY <1>2, <2>1, ChainOfPrev DEF WeakInv
  <2>3. \/ pc' = "idle" /\ pindexNew' = pindexNew
        \/ /\ pc' = "setbest" /\ pindexNew' = b
           /\ nChainTrust[b] > nChainTrust[pindexBest]
    BY <1>2, <2>1 DEF AddToBlockIndex, WriteBlockIndex, IsNewBest
  <2>4. TypeOK'
    BY <1>0, <1>2, <2>1, <2>3 DEF TypeOK
  <2>5. \A x \in Block : /\ pnext'[x] \in dskIndex' \cup {NULL}
                        /\ dskNext'[x] \in dskIndex' \cup {NULL}
    BY <1>0, <2>1 DEF WeakInv, TypeOK
  <2> QED BY <1>2, <2>1, <2>2, <2>3, <2>4, <2>5 DEF WeakInv
<1>3. CASE ExtendBestChain
  <2>1. /\ pc = "setbest" /\ pindexNew \in dskIndex \ {Genesis} /\ pindexNew \in Block
        /\ nChainTrust[pindexNew] > nChainTrust[pindexBest]
        /\ nChainTrust[dskBest] <= nChainTrust[pindexBest]
    BY <1>0, <1>3 DEF WeakInv, ExtendBestChain
  <2>2. nChainTrust[pindexNew] > nChainTrust[dskBest]
    BY <1>0, <2>1
  <2>3. CASE SetBestChainInner(pindexNew) /\ NewBestBlock /\ UNCHANGED stale
    <3>1. /\ pindexBest' = pindexNew /\ pc' = "idle" /\ pindexNew' = NULL
          /\ pindexTip' = NULL /\ dskWalletBest' \in {dskWalletBest, pindexNew}
          /\ crashes' = crashes /\ stale' = stale
      BY <2>3 DEF NewBestBlock, UpdateWalletBest
    <3>2. /\ pnext' \in [Block -> Block \cup {NULL}]
          /\ dskNext' \in [Block -> Block \cup {NULL}]
          /\ \A x \in Block : /\ pnext'[x] \in dskIndex \cup {NULL}
                             /\ dskNext'[x] \in dskIndex \cup {NULL}
          /\ dskConnected' \subseteq Block
          /\ dskBest' = pindexNew
          /\ UNCHANGED <<mapBlockIndex, dskIndex, nBestInvalidTrust>>
      BY <2>1, <2>3, WeakConnect
    <3>3. TypeOK'
      BY <1>0, <2>1, <3>1, <3>2 DEF TypeOK
    <3> QED BY <1>0, <2>1, <2>2, <3>1, <3>2, <3>3 DEF WeakInv
  <2>4. CASE SetBestChainInnerFails(pindexNew) /\ ReturnError
    <3>1. /\ UNCHANGED <<mapBlockIndex, pnext, dskIndex, dskNext, dskBest, dskConnected>>
          /\ UNCHANGED <<pindexBest, pindexTip, dskWalletBest, crashes, stale>>
          /\ pc' = "idle" /\ pindexNew' = NULL
      BY <2>4 DEF SetBestChainInnerFails, ReturnError, disk
    <3>2. nBestInvalidTrust' \in Nat
      BY <1>0, <2>1, <2>4, InvalidChainFoundRaises DEF SetBestChainInnerFails
    <3>3. TypeOK'
      BY <1>0, <3>1, <3>2 DEF TypeOK
    <3> QED BY <1>0, <2>1, <3>1, <3>3 DEF WeakInv
  <2> QED BY <1>3, <2>3, <2>4 DEF ExtendBestChain
<1>4. CASE Reorganize
  <2>1. PICK b \in Block :
           /\ IsIntermediate(b, pindexNew)
           /\ dskConnected' = (dskConnected \ (Chain(pindexBest) \ Chain(b)))
                                 \cup (Chain(b) \ Chain(pindexBest))
           /\ dskNext' = RelinkOnDisk(Chain(pindexBest) \ Chain(b), Chain(b) \ Chain(pindexBest))
           /\ pnext' = Relink(pnext, Chain(pindexBest) \ Chain(b), Chain(b) \ Chain(pindexBest))
           /\ dskBest' = b /\ pindexTip' = b
    BY <1>4 DEF Reorganize
  <2>2. /\ pc = "setbest" /\ pc' = "secondary"
        /\ UNCHANGED <<mapBlockIndex, pindexBest, dskIndex, pindexNew,
                       nBestInvalidTrust, dskWalletBest, crashes, stale>>
        /\ pindexNew \in dskIndex
        /\ nChainTrust[pindexNew] > nChainTrust[pindexBest]
        /\ nChainTrust[dskBest] <= nChainTrust[pindexBest]
    BY <1>4 DEF WeakInv, Reorganize
  <2>3. /\ b \in Chain(pindexNew) /\ nChainTrust[b] > nChainTrust[pindexBest]
    BY <2>1, <2>2 DEF IsIntermediate
  <2>4. nChainTrust[b] > nChainTrust[dskBest]
    BY <1>0, <2>2, <2>3
  <2>5. b \in dskIndex /\ Chain(b) \subseteq dskIndex
    BY <2>2, <2>3 DEF WeakInv
  <2>6. Chain(b) \ Chain(pindexBest) \in SUBSET dskIndex
    BY <2>5
  <2>7. /\ pnext' \in [Block -> Block \cup {NULL}]
        /\ dskNext' \in [Block -> Block \cup {NULL}]
        /\ \A x \in Block : /\ pnext'[x] \in dskIndex \cup {NULL}
                           /\ dskNext'[x] \in dskIndex \cup {NULL}
    BY <2>1, <2>6, RelinkTyped
  <2>8. dskConnected' \subseteq Block
    BY <1>0, <2>1, <2>6 DEF TypeOK
  <2>9. TypeOK'
    BY <1>0, <2>1, <2>2, <2>7, <2>8 DEF TypeOK
  <2> QED BY <1>0, <2>1, <2>2, <2>3, <2>4, <2>5, <2>7, <2>9 DEF WeakInv
<1>5. CASE ReorganizeFails
  <2>1. /\ UNCHANGED <<mapBlockIndex, pnext, dskIndex, dskNext, dskBest, dskConnected>>
        /\ UNCHANGED <<pindexBest, pindexTip, dskWalletBest, crashes, stale>>
        /\ pc = "setbest" /\ pc' = "idle" /\ pindexNew' = NULL
    BY <1>5 DEF ReorganizeFails, ReturnError, disk
  <2>2. nBestInvalidTrust' \in Nat
    BY <1>0, <1>5, <2>1, InvalidChainFoundRaises DEF ReorganizeFails, WeakInv
  <2>3. TypeOK'
    BY <1>0, <2>1, <2>2 DEF TypeOK
  <2> QED BY <2>1, <2>3 DEF WeakInv
<1>6. CASE ConnectSecondary
  <2> DEFINE b == StepTowards(pindexTip, pindexNew)
  <2>1. /\ pc = "secondary" /\ pindexTip # pindexNew /\ pindexTip = dskBest
        /\ pindexNew \in dskIndex /\ pindexNew \in Block /\ pindexTip \in Chain(pindexNew)
    BY <1>0, <1>6 DEF WeakInv, ConnectSecondary
  <2>2. b \in Chain(pindexNew) /\ b \in Block /\ b # Genesis /\ pprev(b) = dskBest
    BY <2>1, StepFacts
  <2>3. \/ /\ SetBestChainInner(b) /\ pindexTip' = b
           /\ UNCHANGED <<pindexBest, pc, pindexNew, dskWalletBest, crashes, stale>>
        \/ SetBestChainInnerFails(b) /\ NewBestBlock /\ stale' = stale \cup {pindexNew}
    BY <1>6 DEF ConnectSecondary
  <2> HIDE DEF b
  <2>4. b \in dskIndex
    BY <2>1, <2>2 DEF WeakInv
  <2>5. CASE /\ SetBestChainInner(b) /\ pindexTip' = b
             /\ UNCHANGED <<pindexBest, pc, pindexNew, dskWalletBest, crashes, stale>>
    <3>1. nChainTrust[b] > nChainTrust[dskBest]
      <4>1. dskBest \in Chain(b) \ {b}
        BY <2>2, ChainOfPrev
      <4> QED BY <1>0, <2>2, <4>1
    <3>2. /\ pnext' \in [Block -> Block \cup {NULL}]
          /\ dskNext' \in [Block -> Block \cup {NULL}]
          /\ \A x \in Block : /\ pnext'[x] \in dskIndex \cup {NULL}
                             /\ dskNext'[x] \in dskIndex \cup {NULL}
          /\ dskConnected' \subseteq Block
          /\ dskBest' = b
          /\ UNCHANGED <<mapBlockIndex, dskIndex, nBestInvalidTrust>>
      BY <2>4, <2>5, WeakConnect
    <3>3. TypeOK'
      BY <1>0, <2>2, <2>5, <3>2 DEF TypeOK
    <3> QED BY <2>1, <2>2, <2>4, <2>5, <3>1, <3>2, <3>3 DEF WeakInv
  <2>6. CASE SetBestChainInnerFails(b) /\ NewBestBlock /\ stale' = stale \cup {pindexNew}
    <3>1. /\ UNCHANGED <<mapBlockIndex, pnext, dskIndex, dskNext, dskBest, dskConnected>>
          /\ pindexBest' = pindexNew /\ pc' = "idle" /\ pindexNew' = NULL
          /\ pindexTip' = NULL /\ dskWalletBest' \in {dskWalletBest, pindexNew}
          /\ crashes' = crashes /\ stale' = stale \cup {pindexNew}
      BY <2>6 DEF SetBestChainInnerFails, NewBestBlock, UpdateWalletBest, disk
    <3>2. nBestInvalidTrust' \in Nat
      BY <1>0, <2>2, <2>6, InvalidChainFoundRaises DEF SetBestChainInnerFails
    <3>3. TypeOK'
      BY <1>0, <2>1, <3>1, <3>2 DEF TypeOK
    <3>4. nChainTrust[dskBest] <= nChainTrust[pindexNew]
      BY <1>0, <2>1
    <3> QED BY <2>1, <3>1, <3>3, <3>4 DEF WeakInv
  <2> QED BY <2>3, <2>5, <2>6
<1>7. CASE FinishSecondary
  <2>1. /\ UNCHANGED <<mapBlockIndex, pnext, dskIndex, dskNext, dskBest, dskConnected>>
        /\ pindexBest' = pindexNew /\ pc' = "idle" /\ pindexNew' = NULL
        /\ pindexTip' = NULL /\ dskWalletBest' \in {dskWalletBest, pindexNew}
        /\ UNCHANGED <<nBestInvalidTrust, crashes, stale>>
        /\ pindexNew = dskBest
    BY <1>7 DEF FinishSecondary, NewBestBlock, UpdateWalletBest, disk, WeakInv
  <2>2. TypeOK'
    BY <1>0, <2>1 DEF TypeOK
  <2> QED BY <1>0, <2>1, <2>2 DEF WeakInv
<1>8. CASE Restart
  <2>1. /\ UNCHANGED <<dskIndex, dskNext, dskBest, dskConnected>>
        /\ UNCHANGED <<nBestInvalidTrust, dskWalletBest, stale>>
        /\ mapBlockIndex' = dskIndex /\ pnext' = dskNext /\ pindexBest' = dskBest
        /\ pc' = "idle" /\ pindexNew' = NULL /\ pindexTip' = NULL
        /\ crashes' \in 0..MaxCrashes
    BY <1>0, <1>8 DEF Restart, disk, TypeOK
  <2>2. TypeOK'
    BY <1>0, <2>1 DEF TypeOK
  <2> QED BY <1>0, <2>1, <2>2 DEF WeakInv
<1> QED BY <1>1, <1>2, <1>3, <1>4, <1>5, <1>6, <1>7, <1>8 DEF Next, SetBestChain

-----------------------------------------------------------------------------
(* The two invariants together *)

\* Memory may be ahead of the disk only when the process was interrupted before and
\* some block does not connect.
FullInv ==
    /\ WeakInv
    /\ stale = {} => Inv
    /\ stale # {} => crashes > 0 /\ ValidBlock # Block

\* What the loop finds when it breaks off for the first time.
LEMMA BreakFacts ==
  ASSUME Inv, ConnectSecondary, stale = {}, stale' # {}
  PROVE  crashes' > 0 /\ ValidBlock # Block
<1> DEFINE b == StepTowards(pindexTip, pindexNew)
<1>1. /\ TypeOK /\ pindexTip = dskBest /\ pindexTip # pindexNew
      /\ pindexNew \in dskIndex /\ pindexNew \in Block
      /\ pindexTip \in Chain(pindexNew) /\ crashes # 0
  BY DEF Inv, TypeOK, ConnectSecondary
<1>2. /\ b \in Chain(pindexNew) /\ b \in Block /\ b # Genesis /\ pprev(b) = dskBest
  BY <1>1, StepFacts
<1>3. SetBestChainInnerFails(b) /\ crashes' = crashes
  BY DEF ConnectSecondary, NewBestBlock
<1> HIDE DEF b
<1>4. b \in dskIndex
  BY <1>1, <1>2 DEF Inv
<1>5. b \notin ValidBlock
  BY <1>2, <1>3, <1>4, SetBestChainInnerFailsInv
<1>6. crashes \in Nat
  BY <1>1, CrashAssumption DEF TypeOK
<1> QED BY <1>1, <1>2, <1>3, <1>5, <1>6

\* Restarts are counted up, and only the loop over the further blocks adds to stale.
LEMMA HistoryGrows ==
  ASSUME TypeOK, [Next]_vars
  PROVE  /\ crashes' \in {crashes, crashes + 1}
         /\ (ConnectSecondary /\ stale \subseteq stale') \/ stale' = stale
<1>1. CASE UNCHANGED vars
  BY <1>1 DEF vars
<1>2. ASSUME NEW b \in Block, AddToBlockIndex(b)
      PROVE  crashes' = crashes /\ stale' = stale
  BY <1>2 DEF AddToBlockIndex
<1>3. CASE ExtendBestChain
  BY <1>3 DEF ExtendBestChain, NewBestBlock, ReturnError
<1>4. CASE Reorganize
  BY <1>4 DEF Reorganize
<1>5. CASE ReorganizeFails
  BY <1>5 DEF ReorganizeFails, ReturnError
<1>6. CASE ConnectSecondary
  BY <1>6 DEF ConnectSecondary, NewBestBlock
<1>7. CASE FinishSecondary
  BY <1>7 DEF FinishSecondary, NewBestBlock
<1>8. CASE Restart
  BY <1>8 DEF Restart
<1> QED BY <1>1, <1>2, <1>3, <1>4, <1>5, <1>6, <1>7, <1>8 DEF Next, SetBestChain

LEMMA Invariance == Spec => []FullInv
<1>1. Init => FullInv
  <2> SUFFICES ASSUME Init PROVE FullInv
    OBVIOUS
  <2>1. Inv
    BY InitInv
  <2>2. WeakInv
    BY <2>1, BlockAssumption, TrustAssumption DEF Init, Inv, WeakInv
  <2> QED BY <2>1, <2>2 DEF Init, FullInv
<1>2. FullInv /\ [Next]_vars => FullInv'
  <2> SUFFICES ASSUME FullInv, [Next]_vars PROVE FullInv'
    OBVIOUS
  <2>1. WeakInv' /\ TypeOK
    BY WeakStep DEF FullInv, WeakInv
  <2>2. /\ crashes' \in {crashes, crashes + 1}
        /\ (ConnectSecondary /\ stale \subseteq stale') \/ stale' = stale
    BY <2>1, HistoryGrows
  <2>3. ASSUME stale' = {} PROVE Inv'
    <3>1. stale = {}
      BY <2>2, <2>3
    <3> QED BY <2>3, <3>1, NextInv DEF FullInv
  <2>4. ASSUME stale' # {} PROVE crashes' > 0 /\ ValidBlock # Block
    <3>1. CASE stale = {}
      BY <2>2, <2>4, <3>1, BreakFacts DEF FullInv
    <3>2. CASE stale # {}
      <4>1. crashes \in Nat
        BY <2>1, CrashAssumption DEF TypeOK
      <4> QED BY <2>2, <3>2, <4>1 DEF FullInv
    <3> QED BY <3>1, <3>2
  <2> QED BY <2>1, <2>3, <2>4 DEF FullInv
<1> QED BY <1>1, <1>2, PTL DEF Spec

-----------------------------------------------------------------------------
(* What follows *)

\* What the weak invariant says of the records on disk.
LEMMA WeakInvLoads ==
  ASSUME WeakInv
  PROVE  DiskLoads
<1> SUFFICES ASSUME NEW b \in dskIndex
             PROVE  /\ b # Genesis => pprev(b) \in dskIndex
                    /\ dskNext[b] \in dskIndex \cup {NULL}
  BY DEF WeakInv, DiskLoads
<1>1. b \in Block
  BY DEF WeakInv, TypeOK
<1>2. b # Genesis => pprev(b) \in Chain(b)
  BY <1>1, ChainOfPrev
<1> QED BY <1>1, <1>2 DEF WeakInv

\* What the invariant says of pnext and hashNext.
LEMMA InvImpliesConsistent ==
  ASSUME Inv
  PROVE  BestChainCommitted /\ MainChainMarked /\ DiskDescribesOneChain
<1>1. /\ dskBest \in Block /\ dskBest \in dskIndex /\ dskIndex \subseteq Block
      /\ dskNext = LinksTo(dskBest) /\ pnext = LinksTo(dskBest)
      /\ Chain(dskBest) \subseteq dskIndex
  BY DEF Inv, TypeOK
<1>2. \A b \in Block : LinksTo(dskBest)[b] = IF b \in Chain(dskBest) \ {dskBest}
                                           THEN StepTowards(b, dskBest) ELSE NULL
  BY DEF LinksTo
<1>3. \A b \in Chain(dskBest) \ {dskBest} : StepTowards(b, dskBest) \in Chain(dskBest)
  BY <1>1, StepFacts
<1>4. NULL \notin Chain(dskBest)
  BY BlockAssumption DEF Chain
<1>5. BestChainCommitted
  BY DEF Inv, BestChainCommitted
<1>6. MainChainMarked
  <2> SUFFICES ASSUME pc = "idle", NEW b \in dskIndex
               PROVE  IsInMainChain(b) <=> b \in Chain(dskBest)
    BY DEF Inv, MainChainMarked
  <2>1. pindexBest = dskBest /\ b \in Block /\ dskBest \in Chain(dskBest)
    BY <1>1, ChainFacts DEF Inv
  <2> QED BY <1>1, <1>2, <1>3, <1>4, <2>1 DEF IsInMainChain
<1>7. DiskDescribesOneChain
  BY <1>1, <1>2 DEF Inv, DiskDescribesOneChain
<1> QED BY <1>5, <1>6, <1>7

\* The chain state is consistent unless the loop over the further blocks has broken
\* off: between calls of SetBestChain() memory and disk agree and IsInMainChain()
\* marks the best chain; at every moment the disk describes one chain of connected
\* blocks, wherever the process ends.
THEOREM ChainStateConsistent ==
  Spec => [](TypeOK /\ CommittedUnlessStale /\ LinksMarkBestChain)
<1>1. FullInv => /\ TypeOK /\ CommittedUnlessStale /\ MainChainMarked
                 /\ DiskDescribesOneChain
  <2> SUFFICES ASSUME FullInv
               PROVE  /\ TypeOK /\ CommittedUnlessStale /\ MainChainMarked
                      /\ DiskDescribesOneChain
    OBVIOUS
  <2>1. TypeOK
    BY DEF FullInv, WeakInv
  <2>2. CASE stale = {}
    BY <2>1, <2>2, InvImpliesConsistent DEF FullInv, CommittedUnlessStale
  <2>3. CASE stale # {}
    BY <2>1, <2>3 DEF CommittedUnlessStale, MainChainMarked, DiskDescribesOneChain
  <2> QED BY <2>2, <2>3
<1>2. FullInv => TypeOK /\ CommittedUnlessStale /\ LinksMarkBestChain
  BY <1>1 DEF LinksMarkBestChain
<1> QED BY <1>2, Invariance, PTL

\* The loop over the further blocks breaks off only in a node that was interrupted
\* before: without interruptions SetBestChain() has no further blocks to connect.
\* Nor does it break off when every block connects.
THEOREM BreaksOnlyAfterRestart ==
  Spec => [](StaleOnlyAfterRestart /\ (stale # {} => ValidBlock # Block))
<1>1. FullInv => StaleOnlyAfterRestart /\ (stale # {} => ValidBlock # Block)
  BY DEF FullInv, StaleOnlyAfterRestart
<1> QED BY <1>1, Invariance, PTL

\* A node that is not interrupted follows the heaviest chain that connects, and
\* nBestInvalidTrust accounts for every heavier block it does not follow.
THEOREM FollowsHeaviestChain == Spec => []HeaviestValid
<1>1. FullInv => HeaviestValid
  <2> SUFFICES ASSUME FullInv, pc = "idle", crashes = 0, NEW b \in mapBlockIndex,
                      nChainTrust[b] > nChainTrust[pindexBest]
               PROVE  Refused(b)
    BY DEF HeaviestValid, Refused
  <2>0. Inv
    BY DEF FullInv
  <2>1. /\ pindexBest = dskBest /\ b \in dskIndex \ {pindexNew}
    BY <2>0, BlockAssumption DEF Inv, TypeOK
  <2> QED BY <2>0, <2>1 DEF Inv
<1> QED BY <1>1, Invariance, PTL

-----------------------------------------------------------------------------
(* The disk implements the abstract ledger *)

\* Every step changes the disk as a step of the ledger does, or leaves it alone.
LEMMA StepRefinesLedger ==
  ASSUME Inv, [Next]_vars, stale' = {}
  PROVE  [L!Next]_<<dskIndex, dskBest>>
<1> USE BlockAssumption
<1>0. /\ dskBest \in Block /\ dskIndex \subseteq Block /\ dskIndex = mapBlockIndex
  BY DEF Inv, TypeOK
<1>1. CASE UNCHANGED vars
  BY <1>1 DEF vars, disk
<1>2. ASSUME NEW b \in Block, AddToBlockIndex(b)
      PROVE  L!Learn(b)
  BY <1>0, <1>2 DEF AddToBlockIndex, WriteBlockIndex, L!Learn, L!pprev, pprev
<1>3. ASSUME dskBest' \in dskIndex, dskIndex' = dskIndex, Inv',
             nChainTrust[dskBest'] > nChainTrust[dskBest]
      PROVE  L!Next
  <2>1. L!Chain(dskBest') = Chain(dskBest')
    BY DEF L!Chain, Chain, L!IsAncestor, IsAncestor
  <2>2. Chain(dskBest') \subseteq ValidBlock
    BY <1>3 DEF Inv
  <2>3. L!Advance(dskBest') /\ dskBest' \in Block
    BY <1>0, <1>3, <2>1, <2>2 DEF L!Advance
  <2> QED BY <2>3 DEF L!Next
<1>4. CASE ExtendBestChain
  <2>1. /\ pindexNew \in dskIndex /\ pindexNew # Genesis /\ pprev(pindexNew) = dskBest
    BY <1>4 DEF Inv, ExtendBestChain
  <2>2. CASE SetBestChainInner(pindexNew)
    BY <1>3, <1>4, <2>1, <2>2, SetBestChainInnerInv, ExtendBestChainInv
  <2>3. CASE SetBestChainInnerFails(pindexNew)
    BY <2>3 DEF SetBestChainInnerFails, disk
  <2> QED BY <1>4, <2>2, <2>3 DEF ExtendBestChain
<1>5. CASE Reorganize
  <2>1. dskBest' \in dskIndex' /\ dskIndex' = dskIndex
    BY <1>5, ReorganizeInv DEF Inv, Reorganize
  <2> QED BY <1>3, <1>5, <2>1, ReorganizeInv
<1>6. CASE ReorganizeFails
  BY <1>6 DEF ReorganizeFails, disk
<1>7. CASE ConnectSecondary
  <2>1. dskBest' \in dskIndex' /\ dskIndex' = dskIndex
    BY <1>7, ConnectSecondaryInv
       DEF Inv, ConnectSecondary, SetBestChainInner, SetBestChainInnerFails, disk
  <2> QED BY <1>3, <1>7, <2>1, ConnectSecondaryInv
<1>8. CASE FinishSecondary
  BY <1>8 DEF FinishSecondary, disk
<1>9. CASE Restart
  BY <1>9 DEF Restart, disk
<1> QED BY <1>1, <1>2, <1>4, <1>5, <1>6, <1>7, <1>8, <1>9
        DEF Next, SetBestChain, L!Next

\* SetBestChain(), with its several transactions and the points where the process
\* may end, implements the abstract ledger.
THEOREM ImplementsLedger == Spec => RefinesLedger
<1>1. Init => L!Init
  BY DEF Init, L!Init
<1>2. FullInv /\ [Next]_vars => [stale' = {} => [L!Next]_<<dskIndex, dskBest>>]_vars
  <2> SUFFICES ASSUME FullInv, [Next]_vars, stale' = {}
               PROVE  [L!Next]_<<dskIndex, dskBest>>
    OBVIOUS
  <2>1. TypeOK
    BY DEF FullInv, WeakInv
  <2>2. stale = {}
    BY <2>1, HistoryGrows
  <2> QED BY <2>2, StepRefinesLedger DEF FullInv
<1> QED BY <1>1, <1>2, Invariance, PTL DEF Spec, RefinesLedger

\* Whatever is interrupted and whatever does not connect, a restarted node can load
\* its block index, and hashBestChain on disk moves to greater trust only.
THEOREM DiskAlwaysLoads == Spec => []DiskLoads /\ TrustGrows
<1>1. FullInv /\ [Next]_vars =>
         [dskBest' # dskBest => nChainTrust[dskBest'] > nChainTrust[dskBest]]_vars
  BY WeakStep DEF FullInv
<1>2. FullInv => DiskLoads
  BY WeakInvLoads DEF FullInv
<1> QED BY <1>1, <1>2, Invariance, PTL DEF Spec, TrustGrows
=============================================================================
