------------------------ MODULE SyncCheckpointProofs ------------------------
(***************************************************************************)
(* The sync-checkpoint is always an accepted block, is replaced by its       *)
(* descendants only, has only descendants added to the index, and lies on    *)
(* the best chain: for every block tree, every set of hardened and of signed *)
(* checkpoints, and however often the node stops.                            *)
(***************************************************************************)
EXTENDS SyncCheckpoint, BlockTreeProofs

\* What is on the disk; a block of the index has its ancestors there.
Disk ==
    /\ dskIndex \subseteq Block
    /\ \A b \in dskIndex : Chain(b) \subseteq dskIndex
    /\ dskBest \in dskIndex /\ dskSync \in dskIndex

\* Memory agrees with the disk, and about the best block too as long as no block
\* was taken for best that was not connected.
Memory ==
    pc # "down" =>
        /\ mapBlockIndex = dskIndex
        /\ hashSyncCheckpoint = dskSync
        /\ pindexBest \in dskIndex
        /\ stale = {} => pindexBest = dskBest

\* The start with a new master key
Start ==
    /\ pc \in {"down", "key", "reset", "write hardened", "idle", "new best", "pending", "write"}
    /\ pc \notin {"down", "key"} => dskPubKey = "new"
    /\ dskPubKey # "new" => signer = "old"
    /\ pc \in {"key", "reset"} => signer = "old" /\ pindexBest = dskBest
    /\ pc = "write hardened" => /\ signer = "old"
                                /\ dskBest \in Chain(pindexBest)
                                /\ dskBest = pindexBest \/ dskBest # Genesis

\* What is carried from one commit to the next descends from the checkpoint.
Underway ==
    /\ pc = "new best" => pindexNew \in dskIndex /\ dskSync \in Chain(pindexNew)
    /\ pc = "write" => /\ hashCheckpoint \in dskIndex
                       /\ dskSync \in Chain(hashCheckpoint)
                       /\ stale = {} => hashCheckpoint \in Chain(pindexBest)

\* The best chain on disk goes through the checkpoint on disk.
OnBestChain == signer = "new" /\ stale = {} => dskSync \in Chain(dskBest)

\* The inductive invariant
Inv == Disk /\ Memory /\ Start /\ Underway /\ OnBestChain

-----------------------------------------------------------------------------
\* Walking pprev from b to the height of a and finding a means that b descends from a.
LEMMA TraceBackFinds ==
  ASSUME NEW a \in Block, NEW b \in Block, Len(a) <= Len(b), TraceBack(b, a) = a
  PROVE  a \in Chain(b)
<1>1. Len(a) \in Nat /\ Len(b) \in Nat /\ Len(a) > 0
  BY BlockAssumption, LenProperties
<1>2. Len(a) \in 1..Len(b)
  BY <1>1
<1>3. \A i \in 1..Len(a) : SubSeq(b, 1, Len(a))[i] = b[i]
  BY <1>2, Prefix
<1> QED BY <1>1, <1>3 DEF TraceBack, Chain, IsAncestor

\* A checkpoint ValidateSyncCheckpoint() lets pass descends from the current one.
LEMMA ValidDescends ==
  ASSUME Disk, mapBlockIndex = dskIndex, hashSyncCheckpoint = dskSync,
         NEW h, ValidateSyncCheckpoint(h)
  PROVE  h \in dskIndex /\ dskSync \in Chain(h)
<1>1. h \in dskIndex /\ h \in Block /\ dskSync \in Block
  BY DEF Disk, ValidateSyncCheckpoint
<1>2. Len(h) \in Nat /\ Len(dskSync) \in Nat
  BY <1>1, BlockAssumption, LenProperties
<1>3. Len(dskSync) <= Len(h) /\ TraceBack(h, dskSync) = dskSync
  BY <1>2 DEF ValidateSyncCheckpoint, Conflicting
<1> QED BY <1>1, <1>3, TraceBackFinds

\* A new block CheckSync() lets pass descends from the current checkpoint.
LEMMA NewDescends ==
  ASSUME Disk, mapBlockIndex = dskIndex, hashSyncCheckpoint = dskSync,
         NEW b \in Block \ {Genesis}, b \notin mapBlockIndex, CheckSync(b)
  PROVE  dskSync \in Chain(b)
<1>1. dskSync \in Block /\ pprev(b) \in Block /\ Len(pprev(b)) = Len(b) - 1
  BY PrevFacts DEF Disk
<1>2. Len(b) \in Nat /\ Len(dskSync) \in Nat
  BY <1>1, BlockAssumption, LenProperties
<1>3. Len(b) > Len(dskSync)
  BY <1>2 DEF CheckSync, Disk
<1>4. TraceBack(pprev(b), dskSync) = dskSync
  BY <1>3 DEF CheckSync
<1>5. dskSync \in Chain(pprev(b))
  BY <1>1, <1>2, <1>3, <1>4, TraceBackFinds
<1> QED BY <1>5, ChainOfPrev

\* No block has less trust than the genesis block.
LEMMA GenesisTrust ==
  ASSUME NEW b \in Block
  PROVE  nChainTrust[Genesis] <= nChainTrust[b] /\ nChainTrust[b] \in Nat /\ nChainTrust[Genesis] \in Nat
BY ChainFacts, TrustAssumption, BlockAssumption

\* Reorganize() has an intermediate block to lead to.
LEMMA IntermediateFacts ==
  ASSUME NEW n \in Block \ {Genesis}, pindexBest \in Block
  PROVE  Intermediate(n) \in Chain(n) \ {Genesis}
<1> DEFINE P(i) == /\ nChainTrust[pprev(i)] <= nChainTrust[pindexBest]
                   /\ \A a \in Chain(n) : Len(a) > Len(i) =>
                         nChainTrust[pprev(a)] > nChainTrust[pindexBest]
           I == {i \in Chain(n) \ {Genesis} : nChainTrust[pprev(i)] <= nChainTrust[pindexBest]}
<1>1. StepTowards(Genesis, n) \in I
  BY ChainFacts, StepFacts, GenesisTrust
<1>2. I \in SUBSET Chain(n) /\ I # {}
  BY <1>1
<1>3. PICK i \in I : \A x \in I : Len(x) <= Len(i)
  <2> HIDE DEF I
  <2> QED BY <1>2, LowestHighest
<1>4. P(i)
  <2> SUFFICES ASSUME NEW a \in Chain(n), Len(a) > Len(i)
               PROVE  nChainTrust[pprev(a)] > nChainTrust[pindexBest]
    BY <1>3
  <2>1. i \in Block /\ i # Genesis /\ a \in Block
    BY <1>3, ChainFacts
  <2>2. Len(i) \in Nat /\ Len(a) \in Nat /\ Len(i) > 1
    BY <2>1, PrevFacts, AncestorLen
  <2>3. a # Genesis /\ a \notin I
    <3>1. a # Genesis
      <4>1. Len(Genesis) = 1
        BY BlockAssumption
      <4>2. Len(a) # 1
        <5>1. \A m, l \in Nat : m > l /\ l > 1 => m # 1
          OBVIOUS
        <5> QED BY <2>2, <5>1
      <4> QED BY <4>1, <4>2
    <3>2. ~(Len(a) <= Len(i))
      BY <2>2
    <3> HIDE DEF I
    <3> QED BY <1>3, <3>1, <3>2
  <2>4. pprev(a) \in Block
    BY <2>1, <2>3, PrevFacts
  <2>5. nChainTrust[pprev(a)] \in Nat /\ nChainTrust[pindexBest] \in Nat
    BY <2>4, TrustAssumption
  <2> QED BY <2>3, <2>5
<1>5. \E x \in Chain(n) \ {Genesis} : P(x)
  <2> HIDE DEF P
  <2> QED BY <1>3, <1>4
<1>6. Intermediate(n) = CHOOSE x \in Chain(n) \ {Genesis} : P(x)
  BY DEF Intermediate
<1> HIDE DEF P
<1> QED BY <1>5, <1>6

\* Where there is a valid block above the genesis block, the last valid one is above it.
LEMMA LastValidFacts ==
  ASSUME NEW n \in Block, NEW k \in Chain(n), Valid(k), k # Genesis
  PROVE  LastValid(n) \in Chain(n) \ {Genesis}
<1> DEFINE P(v) == Valid(v) /\ \A a \in Chain(n) : Len(a) > Len(v) => ~Valid(a)
           V == {v \in Chain(n) : Valid(v)}
           l == LastValid(n)
<1>1. V \in SUBSET Chain(n) /\ V # {}
  OBVIOUS
<1>2. PICK v \in V : \A x \in V : Len(x) <= Len(v)
  <2> HIDE DEF V
  <2> QED BY <1>1, LowestHighest
<1>3. P(v)
  BY <1>2, AncestorLen
<1>4. \E x \in Chain(n) : P(x)
  <2> HIDE DEF P
  <2> QED BY <1>2, <1>3
<1>5. l = CHOOSE x \in Chain(n) : P(x)
  BY DEF LastValid
<1>6. l \in Chain(n) /\ P(l)
  <2> HIDE DEF P, l
  <2> QED BY <1>4, <1>5
<1>7. Len(l) \in Nat /\ Len(k) \in Nat /\ ~(Len(k) > Len(l))
  BY <1>6, AncestorLen
<1>8. Len(k) > 1
  BY ChainFacts, PrevFacts
<1> HIDE DEF l
<1>9. l # Genesis
  BY <1>7, <1>8, BlockAssumption
<1> QED BY <1>6, <1>9 DEF l

\* The block SetBestChain() leaves the disk at is n or an ancestor of it.
LEMMA OutcomeFacts ==
  ASSUME NEW n \in Block \ {Genesis}, pindexBest \in Block,
         NEW d \in SetBestChainOutcomes(n), d # NULL
  PROVE  /\ d \in Chain(n)
         /\ pindexBest = dskBest => d # Genesis
<1>1. CASE pindexBest # dskBest
  BY <1>1 DEF SetBestChainOutcomes
<1>2. CASE pindexBest = dskBest
  <2> DEFINE k == IF pprev(n) = pindexBest THEN n ELSE Intermediate(n)
  <2>1. k \in Chain(n) \ {Genesis}
    BY IntermediateFacts, ChainFacts
  <2>2. Valid(k) /\ d = LastValid(n)
    BY <1>2 DEF SetBestChainOutcomes
  <2> HIDE DEF k
  <2> QED BY <2>1, <2>2, LastValidFacts
<1> QED BY <1>1, <1>2

-----------------------------------------------------------------------------
\* The disk an earlier version of the program has left
LEMMA InitInv ==
  ASSUME Init
  PROVE  Inv
<1>1. PICK x \in Block : dskIndex = Chain(dskBest) \cup Chain(x)
  BY DEF Init
<1>2. dskBest \in Block /\ dskSync \in Chain(dskBest)
  BY DEF Init
<1>3. Disk
  <2>1. dskIndex \subseteq Block /\ dskBest \in dskIndex
    BY <1>1, <1>2, ChainFacts
  <2>2. \A b \in dskIndex : Chain(b) \subseteq dskIndex
    BY <1>1, <1>2, ChainFacts
  <2> QED BY <1>1, <1>2, <2>1, <2>2 DEF Disk
<1> QED BY <1>3 DEF Init, Inv, Memory, Start, Underway, OnBestChain

\* The node starts.
LEMMA LoadStep ==
  ASSUME Inv, LoadBlockIndex
  PROVE  Inv'
<1>1. Disk'
  BY DEF LoadBlockIndex, Inv, Disk
<1>2. Memory' /\ Start' /\ Underway'
  BY DEF LoadBlockIndex, Inv, Disk, Memory, Start, Underway
<1>3. OnBestChain'
  BY DEF LoadBlockIndex, Inv, OnBestChain
<1> QED BY <1>1, <1>2, <1>3 DEF Inv

\* The new master key is written.
LEMMA KeyStep ==
  ASSUME Inv, WriteCheckpointPubKey
  PROVE  Inv'
<1> USE DEF WriteCheckpointPubKey, memory, Inv
<1>1. Disk' /\ Memory'
  BY DEF Disk, Memory
<1>2. Start' /\ Underway' /\ OnBestChain'
  BY DEF Start, Underway, OnBestChain
<1> QED BY <1>1, <1>2

\* The last hardened checkpoint is brought into the main chain.
LEMMA ResetStep ==
  ASSUME Inv, ResetSyncCheckpoint
  PROVE  Inv'
<1> DEFINE h == Last(Hardened)
<1>1. /\ pc = "reset" /\ pc' = "write hardened"
      /\ dskIndex' = dskIndex /\ mapBlockIndex' = mapBlockIndex /\ dskSync' = dskSync
      /\ hashSyncCheckpoint' = hashSyncCheckpoint /\ signer' = signer /\ dskPubKey' = dskPubKey
  BY DEF ResetSyncCheckpoint
<1>2. /\ mapBlockIndex = dskIndex /\ pindexBest = dskBest /\ signer = "old"
      /\ pindexBest \in Block
  BY <1>1 DEF Inv, Memory, Start, Disk
<1>3. CASE KeepBestChain
  <2>1. Disk' /\ Memory'
    BY <1>1, <1>3 DEF KeepBestChain, Inv, Disk, Memory
  <2>2. dskBest \in Chain(dskBest)
    BY <1>2, ChainFacts
  <2>3. Start' /\ Underway' /\ OnBestChain'
    BY <1>1, <1>2, <1>3, <2>2 DEF KeepBestChain, Inv, Start, Underway, OnBestChain
  <2> QED BY <2>1, <2>3 DEF Inv
<1>4. ASSUME h \in mapBlockIndex, ~IsInMainChain(h),
             NEW d \in SetBestChainOutcomes(h), NewBestChain(h, d)
      PROVE  Inv'
  <2>1. h \in Block /\ h # Genesis
    <3>1. Genesis \in Chain(dskBest)
      BY <1>2, ChainFacts
    <3> QED BY <1>2, <1>4, <3>1 DEF IsInMainChain, MainChain, Inv, Disk
  <2>2. d \in Chain(h) /\ d # Genesis
    BY <1>2, <1>4, <2>1, OutcomeFacts DEF NewBestChain
  <2>3. pindexBest' = h /\ dskBest' = d /\ stale' = stale \cup ({h} \ {d})
    BY <1>4 DEF NewBestChain
  <2> HIDE DEF h
  <2>4. Disk'
    BY <1>1, <1>2, <1>4, <2>2, <2>3 DEF Inv, Disk
  <2>5. Memory'
    BY <1>1, <1>2, <1>4, <2>3 DEF Inv, Memory
  <2>6. Start' /\ Underway' /\ OnBestChain'
    BY <1>1, <1>2, <2>2, <2>3 DEF Inv, Start, Underway, OnBestChain
  <2> QED BY <2>4, <2>5, <2>6 DEF Inv
<1> QED BY <1>3, <1>4 DEF ResetSyncCheckpoint

\* The checkpoint is reset to the last hardened one of the main chain.
LEMMA HardenedStep ==
  ASSUME Inv, WriteHardened
  PROVE  Inv'
<1> DEFINE H == {h \in Hardened : IsInMainChain(h)}
           P(h) == \A k \in H : Len(k) <= Len(h)
           s == Last(H)
<1>1. /\ pc = "write hardened" /\ pc' = "idle" /\ dskSync' = s /\ hashSyncCheckpoint' = s
      /\ UNCHANGED <<mapBlockIndex, pindexBest, dskIndex, dskBest, dskPubKey, stale>>
  BY DEF WriteHardened
<1>2. /\ pindexBest \in dskIndex /\ pindexBest \in Block /\ dskBest \in Chain(pindexBest)
      /\ dskBest = pindexBest \/ dskBest # Genesis
      /\ dskPubKey = "new"
  BY <1>1 DEF Inv, Memory, Start, Disk
<1>3. H \in SUBSET Chain(pindexBest)
  BY <1>2, ChainFacts DEF IsInMainChain, MainChain
<1>4. Genesis \in H
  <2>1. Genesis \in Chain(dskBest)
    BY <1>2, ChainFacts
  <2> QED BY <1>2, <2>1, HardenedAssumption DEF IsInMainChain, MainChain
<1>5. \E h \in H : P(h)
  <2> HIDE DEF H
  <2> QED BY <1>2, <1>3, <1>4, LowestHighest
<1>6. s \in H
  <2>1. s = CHOOSE h \in H : P(h)
    BY DEF Last
  <2> HIDE DEF P, H, s
  <2> QED BY <1>5, <2>1
<1>7. s \in Chain(pindexBest)
  BY <1>3, <1>6
<1> HIDE DEF s
<1>8. Disk' /\ Memory'
  BY <1>1, <1>2, <1>7 DEF Inv, Disk, Memory
<1>9. Start' /\ Underway'
  BY <1>1, <1>2 DEF Start, Underway
<1>10. OnBestChain'
  BY <1>1, <1>7 DEF Inv, Memory, OnBestChain
<1> QED BY <1>8, <1>9, <1>10 DEF Inv

\* The node goes down, of itself or because it stops.
LEMMA DownStep ==
  ASSUME Inv, ResetFails \/ Crash
  PROVE  Inv'
<1>1. pc' = "down" /\ UNCHANGED <<dskIndex, dskBest, dskSync, dskPubKey, signer, stale>>
  BY DEF ResetFails, Crash
<1>2. Disk' /\ Memory'
  BY <1>1 DEF Inv, Disk, Memory
<1>3. Start' /\ Underway' /\ OnBestChain'
  BY <1>1 DEF Inv, Start, Underway, OnBestChain
<1> QED BY <1>2, <1>3 DEF Inv

\* A block is stored.
LEMMA AcceptStep ==
  ASSUME Inv, NEW b \in Block \ {Genesis}, AcceptBlock(b)
  PROVE  Inv'
<1>1. /\ pc = "idle" /\ pc' = "new best" /\ pindexNew' = b
      /\ b \notin mapBlockIndex /\ pprev(b) \in mapBlockIndex /\ CheckSync(b)
      /\ mapBlockIndex' = mapBlockIndex \cup {b} /\ dskIndex' = dskIndex \cup {b}
      /\ UNCHANGED <<pindexBest, hashSyncCheckpoint, dskBest, dskSync, dskPubKey, signer, stale>>
  BY DEF AcceptBlock, WriteBlockIndex
<1>2. /\ mapBlockIndex = dskIndex /\ hashSyncCheckpoint = dskSync
      /\ pindexBest \in dskIndex /\ (stale = {} => pindexBest = dskBest)
  BY <1>1 DEF Inv, Memory
<1>3. dskSync \in Chain(b)
  BY <1>1, <1>2, NewDescends DEF Inv
<1>4. Disk'
  <2>1. Chain(b) \subseteq dskIndex \cup {b}
    <3>1. Chain(pprev(b)) \subseteq dskIndex
      BY <1>1, <1>2 DEF Inv, Disk
    <3>2. Chain(b) = Chain(pprev(b)) \cup {b}
      BY ChainOfPrev
    <3> QED BY <3>1, <3>2
  <2> QED BY <1>1, <2>1 DEF Inv, Disk
<1>5. Memory'
  BY <1>1, <1>2 DEF Memory
<1>6. Start' /\ Underway' /\ OnBestChain'
  BY <1>1, <1>3 DEF Inv, Start, Underway, OnBestChain
<1> QED BY <1>4, <1>5, <1>6 DEF Inv

\* Taking a descendant of the checkpoint for best, with all else but the place in the
\* program and the checkpoint underway as it was.
LEMMA NewBestKeeps ==
  ASSUME Inv, pc \in {"idle", "new best", "pending"}, pc' \in {"idle", "pending", "write"},
         UNCHANGED <<mapBlockIndex, dskIndex, hashSyncCheckpoint, dskSync, dskPubKey, signer>>,
         \/ KeepBestChain
         \/ \E n \in dskIndex \ {Genesis} :
               /\ dskSync \in Chain(n)
               /\ \E d \in SetBestChainOutcomes(n) : NewBestChain(n, d)
  PROVE  Disk' /\ Memory' /\ Start' /\ OnBestChain'
<1>1. pindexBest \in dskIndex /\ pindexBest \in Block /\ dskPubKey = "new"
  BY DEF Inv, Memory, Start, Disk
<1>2. Start'
  BY <1>1 DEF Start
<1>3. CASE KeepBestChain
  BY <1>2, <1>3 DEF KeepBestChain, Inv, Disk, Memory, OnBestChain
<1>4. ASSUME NEW n \in dskIndex \ {Genesis}, dskSync \in Chain(n),
             NEW d \in SetBestChainOutcomes(n), NewBestChain(n, d)
      PROVE  Disk' /\ Memory' /\ OnBestChain'
  <2>1. pindexBest' = n /\ dskBest' = d /\ stale' = stale \cup ({n} \ {d}) /\ d # NULL
    BY <1>4 DEF NewBestChain
  <2>2. n \in Block /\ d \in Chain(n)
    BY <1>1, <1>4, <2>1, OutcomeFacts DEF Inv, Disk
  <2>3. Disk'
    BY <2>1, <2>2 DEF Inv, Disk
  <2>4. Memory'
    BY <1>4, <2>1 DEF Inv, Memory
  <2>5. OnBestChain'
    BY <1>4, <2>1 DEF OnBestChain
  <2> QED BY <2>3, <2>4, <2>5
<1> QED BY <1>2, <1>3, <1>4

\* The rest of AddToBlockIndex()
LEMMA NewBestStep ==
  ASSUME Inv, NewBest
  PROVE  Inv'
<1>1. /\ pc = "new best" /\ pc' \in {"idle", "pending"}
      /\ UNCHANGED <<mapBlockIndex, dskIndex, hashSyncCheckpoint, dskSync, dskPubKey, signer>>
  BY DEF NewBest
<1>2. pindexNew \in dskIndex /\ pindexNew \in Block /\ dskSync \in Chain(pindexNew)
  BY <1>1 DEF Inv, Underway, Disk
<1>3. \/ KeepBestChain
      \/ \E n \in dskIndex \ {Genesis} :
            /\ dskSync \in Chain(n)
            /\ \E d \in SetBestChainOutcomes(n) : NewBestChain(n, d)
  <2>1. CASE nChainTrust[pindexNew] <= nChainTrust[pindexBest]
    BY <2>1 DEF NewBest
  <2>2. CASE ~(nChainTrust[pindexNew] <= nChainTrust[pindexBest])
    <3>1. pindexBest \in Block
      BY <1>1 DEF Inv, Memory, Disk
    <3>2. pindexNew # Genesis
      BY <2>2, <3>1, GenesisTrust
    <3>3. KeepBestChain \/ \E d \in SetBestChainOutcomes(pindexNew) : NewBestChain(pindexNew, d)
      BY <2>2 DEF NewBest
    <3> QED BY <1>2, <3>2, <3>3
  <2> QED BY <2>1, <2>2
<1>4. Disk' /\ Memory' /\ Start' /\ OnBestChain'
  BY <1>1, <1>3, NewBestKeeps
<1>5. Underway'
  BY <1>1 DEF Underway
<1> QED BY <1>4, <1>5 DEF Inv

\* A checkpoint that descends from the current one is brought into the main chain.
LEMMA AdoptStep ==
  ASSUME Inv, pc \in {"idle", "pending"},
         UNCHANGED <<mapBlockIndex, dskIndex, hashSyncCheckpoint, dskSync, dskPubKey, signer>>,
         NEW h, ValidateSyncCheckpoint(h), Adopt(h)
  PROVE  Inv'
<1>1. /\ mapBlockIndex = dskIndex /\ hashSyncCheckpoint = dskSync
      /\ pindexBest \in dskIndex /\ (stale = {} => pindexBest = dskBest)
  BY DEF Inv, Memory
<1>2. h \in dskIndex /\ h \in Block /\ dskSync \in Chain(h) /\ dskSync \in Block
  BY <1>1, ValidDescends DEF Inv, Disk
<1>3. h # Genesis
  <2>1. Len(h) > Len(dskSync) /\ Len(dskSync) > 0 /\ Len(dskSync) \in Nat /\ Len(h) \in Nat
    BY <1>1, <1>2, BlockAssumption, LenProperties DEF ValidateSyncCheckpoint
  <2>2. Len(h) # 1
    <3>1. \A m, l \in Nat : m > l /\ l > 0 => m # 1
      OBVIOUS
    <3> QED BY <2>1, <3>1
  <2>3. Len(Genesis) = 1
    BY BlockAssumption
  <2> QED BY <2>2, <2>3
<1>4. pc' \in {"idle", "write"}
  BY DEF Adopt
<1>5. KeepBestChain \/ \E d \in SetBestChainOutcomes(h) : NewBestChain(h, d)
  BY DEF Adopt
<1>6. Disk' /\ Memory' /\ Start' /\ OnBestChain'
  BY <1>2, <1>3, <1>4, <1>5, NewBestKeeps
<1>7. Underway'
  <2> SUFFICES ASSUME pc' = "write"
               PROVE  /\ hashCheckpoint' = h
                      /\ stale' = {} => h \in Chain(pindexBest')
    <3>1. pc' # "new best"
      BY <1>4
    <3>2. Chain(hashCheckpoint)' = Chain(hashCheckpoint') /\ Chain(pindexBest)' = Chain(pindexBest')
      BY DEF Chain, IsAncestor
    <3> QED BY <1>2, <3>1, <3>2 DEF Underway
  <2>1. CASE IsInMainChain(h)
    <3>1. hashCheckpoint' = h /\ pindexBest' = pindexBest /\ stale' = stale
      BY <2>1 DEF Adopt, KeepBestChain
    <3>2. pindexBest \in Chain(pindexBest)
      BY <1>1, ChainFacts DEF Inv, Disk
    <3> QED BY <1>1, <2>1, <3>1, <3>2 DEF IsInMainChain, MainChain
  <2>2. CASE ~IsInMainChain(h)
    <3>1. hashCheckpoint' = h /\ pindexBest' = h
      BY <2>2 DEF Adopt, NewBestChain
    <3> QED BY <1>2, <3>1, ChainFacts
  <2> QED BY <2>1, <2>2
<1> QED BY <1>6, <1>7 DEF Inv

\* A checkpoint is looked at, the pending one or one that comes.
LEMMA CheckpointStep ==
  ASSUME Inv, AcceptPendingSyncCheckpoint \/ \E h \in Signed : ProcessSyncCheckpoint(h)
  PROVE  Inv'
<1>1. /\ pc \in {"idle", "pending"}
      /\ UNCHANGED <<mapBlockIndex, dskIndex, hashSyncCheckpoint, dskSync, dskPubKey, signer>>
      /\ \/ \E h : ValidateSyncCheckpoint(h) /\ Adopt(h)
         \/ pc' = "idle" /\ KeepBestChain
  BY DEF AcceptPendingSyncCheckpoint, ProcessSyncCheckpoint
<1>2. CASE \E h : ValidateSyncCheckpoint(h) /\ Adopt(h)
  BY <1>1, <1>2, AdoptStep
<1>3. CASE pc' = "idle" /\ KeepBestChain
  <2>1. Disk' /\ Memory' /\ Start' /\ OnBestChain'
    BY <1>1, <1>3, NewBestKeeps
  <2> QED BY <1>3, <2>1 DEF Inv, Underway
<1> QED BY <1>1, <1>2, <1>3

\* The checkpoint is written.
LEMMA WriteStep ==
  ASSUME Inv, WriteSyncCheckpoint
  PROVE  Inv'
<1>1. /\ pc = "write" /\ pc' = "idle"
      /\ dskSync' = hashCheckpoint /\ hashSyncCheckpoint' = hashCheckpoint
      /\ UNCHANGED <<mapBlockIndex, pindexBest, dskIndex, dskBest, dskPubKey, stale>>
  BY DEF WriteSyncCheckpoint
<1>2. /\ hashCheckpoint \in dskIndex /\ dskPubKey = "new"
      /\ (stale = {} => hashCheckpoint \in Chain(pindexBest))
  BY <1>1 DEF Inv, Underway, Start
<1>3. Disk' /\ Memory'
  BY <1>1, <1>2 DEF Inv, Disk, Memory
<1>4. Start' /\ Underway'
  BY <1>1, <1>2 DEF Start, Underway
<1>5. OnBestChain'
  BY <1>1, <1>2 DEF Inv, Memory, OnBestChain
<1> QED BY <1>3, <1>4, <1>5 DEF Inv

\* Every step keeps the invariant.
LEMMA StepInv ==
  ASSUME Inv, [Next]_vars
  PROVE  Inv'
<1>1. CASE Step
  BY <1>1, LoadStep, KeyStep, ResetStep, HardenedStep, DownStep, AcceptStep, NewBestStep,
     CheckpointStep, WriteStep DEF Step
<1>2. CASE UNCHANGED vars
  BY <1>2 DEF vars, memory, Inv, Disk, Memory, Start, Underway, OnBestChain
<1> QED BY <1>1, <1>2 DEF Next

\* The invariant holds at every moment.
LEMMA SpecInv == Spec => []Inv
<1>1. Init => Inv
  BY InitInv
<1>2. Inv /\ [Next]_vars => Inv'
  BY StepInv
<1> QED BY <1>1, <1>2, PTL DEF Spec

-----------------------------------------------------------------------------
\* "sync-checkpoint should always be accepted block", in memory and on the disk, and
\* the best chain goes through it once this version has adopted one and as long as no
\* block was taken for best that was not connected.
THEOREM CheckpointOnBestChain == Spec => []CheckpointOnChain
<1>1. Inv => CheckpointOnChain
  BY DEF CheckpointOnChain, Inv, Disk, Memory, OnBestChain, SyncCheckpointAccepted, BestChainHasCheckpoint
<1> QED BY <1>1, SpecInv, PTL

\* Once the node is running WriteSyncCheckpoint() replaces the checkpoint on the disk
\* by a descendant of it only.
THEOREM CheckpointMovesForward == Spec => CheckpointAdvances
<1>1. ASSUME Inv, [Next]_vars
      PROVE  [pc # "write hardened" => dskSync \in Chain(dskSync')]_vars
  <2> SUFFICES ASSUME pc # "write hardened", Step
               PROVE  dskSync \in Chain(dskSync')
    BY <1>1 DEF Next
  <2>1. CASE WriteSyncCheckpoint
    BY <1>1, <2>1 DEF WriteSyncCheckpoint, Inv, Underway
  <2>2. CASE ~WriteSyncCheckpoint
    <3>1. dskSync' = dskSync
      BY <2>2 DEF Step, LoadBlockIndex, WriteCheckpointPubKey, ResetSyncCheckpoint, WriteHardened,
         ResetFails, AcceptBlock, NewBest, AcceptPendingSyncCheckpoint, ProcessSyncCheckpoint, Crash
    <3> QED BY <1>1, <3>1, ChainFacts DEF Inv, Disk
  <2> QED BY <2>1, <2>2
<1> QED BY <1>1, SpecInv, PTL DEF Spec, CheckpointAdvances

\* AcceptBlock() adds to the stored index only descendants of the checkpoint.
THEOREM OnlyDescendantsStored == Spec => StoredBlocksDescend
<1>1. ASSUME Inv, [Next]_vars
      PROVE  [\A b \in dskIndex' \ dskIndex : hashSyncCheckpoint \in Chain(b)]_vars
  <2> SUFFICES ASSUME Step, NEW x \in dskIndex' \ dskIndex
               PROVE  hashSyncCheckpoint \in Chain(x)
    BY <1>1 DEF Next
  <2>1. PICK b \in Block \ {Genesis} : AcceptBlock(b)
    BY DEF Step, LoadBlockIndex, WriteCheckpointPubKey, ResetSyncCheckpoint, WriteHardened,
       ResetFails, NewBest, AcceptPendingSyncCheckpoint, ProcessSyncCheckpoint,
       WriteSyncCheckpoint, Crash
  <2>2. x = b /\ b \notin mapBlockIndex /\ CheckSync(b) /\ pc = "idle"
    BY <2>1 DEF AcceptBlock, WriteBlockIndex
  <2>3. mapBlockIndex = dskIndex /\ hashSyncCheckpoint = dskSync
    BY <1>1, <2>2 DEF Inv, Memory
  <2> QED BY <1>1, <2>2, <2>3, NewDescends DEF Inv
<1> QED BY <1>1, SpecInv, PTL DEF Spec, StoredBlocksDescend

\* The checkpoint binds: it moves forward only, and what is stored descends from it.
THEOREM CheckpointIsBinding == Spec => CheckpointBinds
BY CheckpointMovesForward, OnlyDescendantsStored, PTL DEF CheckpointBinds
=============================================================================
