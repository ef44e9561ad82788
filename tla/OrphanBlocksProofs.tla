------------------------- MODULE OrphanBlocksProofs -------------------------
(***************************************************************************)
(* ProcessBlock() keeps its two orphan maps in step, loses no orphan and,   *)
(* in whatever order blocks come, ends up with the same index: for every    *)
(* block tree, every assignment of stakes and every set of refused blocks.  *)
(***************************************************************************)
EXTENDS OrphanBlocks, BlockTreeProofs, FiniteSetTheorems

\* The blocks whose orphans are still to be taken up
Queued == {vWorkQueue[i] : i \in 1..Len(vWorkQueue)}

\* What the index, the orphans and the queue are made of
Holdings ==
    /\ mapBlockIndex \subseteq Block /\ Genesis \in mapBlockIndex
    /\ mapOrphanBlocks \subseteq Block \ {Genesis}
    /\ IsFiniteSet(mapOrphanBlocks)
    /\ vWorkQueue \in Seq(mapBlockIndex)
    /\ received \subseteq Block \ {Genesis}

\* Every block of the index came, passed the checks, and stands on its ancestors.
IndexSound ==
    /\ \A b \in mapBlockIndex : Chain(b) \subseteq mapBlockIndex
    /\ mapBlockIndex \ {Genesis} \subseteq received \ (Malformed \cup Refused)
    /\ mapOrphanBlocks \subseteq received \ Malformed
    /\ Genesis \notin Malformed \cup Refused

\* With stakes of their own, blocks are refused for themselves only.
NothingLost ==
    OwnStakes =>
        /\ setStakeSeen \subseteq StakesOf(mapBlockIndex)
        /\ setStakeSeenOrphan = StakesOf(mapOrphanBlocks)
        /\ received \subseteq mapBlockIndex \cup mapOrphanBlocks \cup Malformed \cup Refused

\* An orphan whose predecessor has come is about to be taken up.
NothingForgotten ==
    BadBlock = {} => \A b \in mapOrphanBlocks : pprev(b) \in mapBlockIndex => pprev(b) \in Queued

\* The inductive invariant
Inv == Holdings /\ OrphanMapsAgree /\ IndexSound /\ NothingLost /\ NothingForgotten

USE DEF Stake, Malformed, Refused, BadBlock

-----------------------------------------------------------------------------
\* A stake no block of B has is not taken for a duplicate.
LEMMA FreshStake ==
  ASSUME OwnStakes, NEW B \in SUBSET Block, NEW seen \in SUBSET StakesOf(B),
         NEW b \in Block \ B
  PROVE  ~DuplicateStake(seen, b)
BY DEF OwnStakes, StakesOf, DuplicateStake, IsProofOfStake

\* The stakes of a union, and of what is left when some blocks are taken away
LEMMA StakesOfUnion ==
  ASSUME NEW A, NEW B
  PROVE  StakesOf(A \cup B) = StakesOf(A) \cup StakesOf(B)
BY DEF StakesOf

LEMMA StakesOfRest ==
  ASSUME OwnStakes, NEW A \in SUBSET Block, NEW B \in SUBSET Block
  PROVE  StakesOf(A) \ StakesOf(B) = StakesOf(A \ B)
BY DEF OwnStakes, StakesOf, IsProofOfStake

\* What is given does not change.
LEMMA SameStakes ==
  ASSUME given' = given
  PROVE  /\ OwnStakes' = OwnStakes
         /\ StakesOf(mapBlockIndex)' = StakesOf(mapBlockIndex')
         /\ StakesOf(mapOrphanBlocks)' = StakesOf(mapOrphanBlocks')
BY DEF OwnStakes, StakesOf, IsProofOfStake

\* What is accepted joins the queue, and what was queued behind its head stays.
LEMMA QueueAfterFacts ==
  ASSUME NEW S, vWorkQueue \in Seq(S), vWorkQueue # <<>>,
         NEW A \in SUBSET S, IsFiniteSet(A)
  PROVE  /\ QueueAfter(A) \in Seq(S)
         /\ A \cup (Queued \ {Head(vWorkQueue)})
              \subseteq {QueueAfter(A)[i] : i \in 1..Len(QueueAfter(A))}
<1> DEFINE n == Cardinality(A)
           P(s) == \A b \in A : \E i \in DOMAIN s : s[i] = b
           c == CHOOSE s \in [1..n -> A] : P(s)
           t == Tail(vWorkQueue)
<1>1. n \in Nat
  BY FS_CardinalityType
<1>2. \E s \in [1..n -> A] : P(s)
  <2>1. ExistsBijection(1..n, A)
    BY FS_CardinalityType
  <2> QED BY <2>1 DEF ExistsBijection, Bijection, Injection, Surjection
<1>3. c \in [1..n -> A] /\ P(c)
  <2> HIDE DEF P, n
  <2> QED BY <1>2
<1>4. c \in Seq(S) /\ Len(c) = n /\ \A b \in A : \E i \in 1..n : c[i] = b
  <2> HIDE DEF c, n
  <2>1. c \in [1..n -> S] /\ DOMAIN c = 1..n
    BY <1>3
  <2>2. c \in Seq(S)
    BY <1>1, <2>1, SeqDef
  <2>3. Len(c) = n
    BY <1>1, <2>1, <2>2, LenProperties
  <2> QED BY <1>3, <2>1, <2>2, <2>3
<1>5. QueueAfter(A) = t \o c
  BY DEF QueueAfter
<1> HIDE DEF c, n
<1>6. /\ t \in Seq(S) /\ Len(t) = Len(vWorkQueue) - 1 /\ Len(vWorkQueue) \in Nat
      /\ \A i \in 1..Len(t) : t[i] = vWorkQueue[i + 1]
      /\ Head(vWorkQueue) = vWorkQueue[1]
  OBVIOUS
<1>7. Queued \ {Head(vWorkQueue)} \subseteq {t[i] : i \in 1..Len(t)}
  <2> SUFFICES ASSUME NEW i \in 1..Len(vWorkQueue), vWorkQueue[i] # vWorkQueue[1]
               PROVE  vWorkQueue[i] \in {t[j] : j \in 1..Len(t)}
    BY <1>6 DEF Queued
  <2>1. i - 1 \in 1..Len(t) /\ t[i - 1] = vWorkQueue[(i - 1) + 1]
    BY <1>6
  <2>2. (i - 1) + 1 = i
    BY <1>6
  <2> QED BY <2>1, <2>2
<1> HIDE DEF t
<1>8. /\ t \o c \in Seq(S)
      /\ Len(t \o c) = Len(t) + n
      /\ \A i \in 1..(Len(t) + n) : (t \o c)[i] = IF i <= Len(t) THEN t[i] ELSE c[i - Len(t)]
  BY <1>4, <1>6, ConcatProperties
<1>9. {t[i] : i \in 1..Len(t)} \subseteq {(t \o c)[i] : i \in 1..Len(t \o c)}
  <2> SUFFICES ASSUME NEW i \in 1..Len(t)
               PROVE  i \in 1..(Len(t) + n) /\ (t \o c)[i] = t[i]
    BY <1>8
  <2> QED BY <1>1, <1>6, <1>8
<1>10. A \subseteq {(t \o c)[i] : i \in 1..Len(t \o c)}
  <2> SUFFICES ASSUME NEW i \in 1..n
               PROVE  Len(t) + i \in 1..(Len(t) + n) /\ (t \o c)[Len(t) + i] = c[i]
    BY <1>4, <1>8
  <2>1. Len(t) \in Nat
    BY <1>6
  <2>2. Len(t) + i \in 1..(Len(t) + n) /\ ~(Len(t) + i <= Len(t)) /\ (Len(t) + i) - Len(t) = i
    BY <1>1, <2>1
  <2> QED BY <1>8, <2>2
<1> QED BY <1>5, <1>7, <1>8, <1>9, <1>10

-----------------------------------------------------------------------------
\* The invariant holds before the first block comes.
LEMMA InitInv ==
  ASSUME Init
  PROVE  Inv
<1>1. Holdings
  BY FS_EmptySet, BlockAssumption, EmptySeq DEF Init, Holdings
<1>2. OrphanMapsAgree
  BY DEF Init, OrphanMapsAgree
<1>3. Chain(Genesis) = {Genesis}
  <2>1. \A a \in Chain(Genesis) : a = Genesis
    <3> SUFFICES ASSUME NEW a \in Chain(Genesis), a # Genesis PROVE FALSE
      OBVIOUS
    <3>1. a \in Block /\ Len(a) \in Nat /\ Len(a) < Len(Genesis)
      BY AncestorLen, BlockAssumption DEF Chain
    <3> QED BY <3>1, BlockAssumption
  <2> QED BY <2>1, ChainFacts, BlockAssumption
<1>4. IndexSound
  BY <1>3, CasesAssumption DEF Init, IndexSound
<1>5. NothingLost /\ NothingForgotten
  BY DEF Init, NothingLost, NothingForgotten, StakesOf
<1> QED BY <1>1, <1>2, <1>4, <1>5 DEF Inv

\* ProcessBlock() of a block it refuses: only for what the block is itself.
LEMMA RefusedStep ==
  ASSUME Inv, given' = given, NEW b \in Block \ {Genesis}, ProcessRefused(b)
  PROVE  Inv'
<1> USE DEF ProcessRefused
<1>1. Holdings'
  BY DEF Inv, Holdings
<1>2. OrphanMapsAgree'
  BY DEF Inv, OrphanMapsAgree
<1>3. IndexSound'
  BY DEF Inv, IndexSound
<1>4. ASSUME OwnStakes
      PROVE  b \in mapBlockIndex \cup mapOrphanBlocks \cup Malformed
  <2>1. ASSUME b \notin mapBlockIndex \cup mapOrphanBlocks
        PROVE  ~DuplicateStake(setStakeSeen, b) /\ ~DuplicateStake(setStakeSeenOrphan, b)
    <3>1. ~DuplicateStake(setStakeSeen, b)
      BY <1>4, <2>1, FreshStake DEF Inv, Holdings, NothingLost
    <3>2. ~DuplicateStake(setStakeSeenOrphan, b)
      BY <1>4, <2>1, FreshStake DEF Inv, Holdings, NothingLost
    <3> QED BY <3>1, <3>2
  <2> QED BY <2>1 DEF Admitted
<1>5. NothingLost'
  BY <1>4 DEF Inv, NothingLost, OwnStakes, StakesOf, IsProofOfStake
<1>6. NothingForgotten'
  BY DEF Inv, NothingForgotten, Queued
<1> QED BY <1>1, <1>2, <1>3, <1>5, <1>6 DEF Inv

\* ProcessBlock() of a block whose predecessor is missing
LEMMA OrphanStep ==
  ASSUME Inv, given' = given, NEW b \in Block \ {Genesis}, ProcessOrphan(b)
  PROVE  Inv'
<1> USE DEF ProcessOrphan, Admitted, Shunt
<1>1. Holdings'
  <2>1. IsFiniteSet(mapOrphanBlocks')
    BY FS_AddElement DEF Inv, Holdings
  <2> QED BY <2>1 DEF Inv, Holdings
<1>2. OrphanMapsAgree'
  BY DEF Inv, OrphanMapsAgree
<1>3. IndexSound'
  BY DEF Inv, IndexSound
<1>4. NothingLost'
  BY DEF Inv, NothingLost, OwnStakes, StakesOf, IsProofOfStake
<1>5. NothingForgotten'
  BY DEF Inv, NothingForgotten, Queued
<1> QED BY <1>1, <1>2, <1>3, <1>4, <1>5 DEF Inv

\* What AcceptBlock() accepts it has stored, and when every block connects it
\* accepts all it stores.
LEMMA Outcomes ==
  ASSUME NEW B, NEW accepted \in AcceptOutcomes(B)
  PROVE  /\ accepted \subseteq Stored(B)
         /\ BadBlock = {} => accepted = Stored(B)
BY DEF AcceptOutcomes

\* ProcessBlock() of a block whose predecessor is there
LEMMA BlockStep ==
  ASSUME Inv, given' = given, NEW b \in Block \ {Genesis}, ProcessBlock(b)
  PROVE  Inv'
<1> USE DEF ProcessBlock, Admitted
<1>1. PICK accepted \in AcceptOutcomes({b}) :
          vWorkQueue' = IF b \in accepted THEN <<b>> ELSE <<>>
  OBVIOUS
<1>2. accepted \subseteq Stored({b}) /\ (BadBlock = {} => accepted = Stored({b}))
  BY Outcomes
<1>3. Stored({b}) = IF b \in Refused THEN {} ELSE {b}
  BY DEF Stored
<1>4. Holdings'
  <2>1. CASE b \in accepted
    <3>1. b \in mapBlockIndex' /\ vWorkQueue' = <<b>>
      BY <1>1, <1>2, <2>1
    <3>2. vWorkQueue' \in Seq(mapBlockIndex')
      <4> DEFINE M == mapBlockIndex'
      <4>1. b \in M
        BY <3>1
      <4> HIDE DEF M
      <4>2. <<b>> \in Seq(M)
        BY <4>1
      <4> QED BY <3>1, <4>2 DEF M
    <3> QED BY <1>3, <3>2 DEF Inv, Holdings
  <2>2. CASE b \notin accepted
    BY <1>1, <1>3, <2>2, EmptySeq DEF Inv, Holdings
  <2> QED BY <2>1, <2>2
<1>5. OrphanMapsAgree'
  BY <1>3 DEF Inv, OrphanMapsAgree
<1>6. IndexSound'
  <2>1. Chain(b) \subseteq mapBlockIndex \cup {b}
    BY ChainOfPrev DEF Inv, IndexSound
  <2> QED BY <1>3, <2>1 DEF Inv, IndexSound
<1>7. NothingLost'
  <2> SUFFICES ASSUME OwnStakes
               PROVE  /\ setStakeSeen' \subseteq StakesOf(mapBlockIndex')
                      /\ setStakeSeenOrphan' = StakesOf(mapOrphanBlocks')
                      /\ received' \subseteq mapBlockIndex' \cup mapOrphanBlocks'
                                               \cup Malformed \cup Refused
    BY SameStakes DEF NothingLost
  <2>1. setStakeSeen' \subseteq StakesOf(mapBlockIndex')
    <3>1. /\ mapBlockIndex' = mapBlockIndex \cup Stored({b})
          /\ setStakeSeen' = setStakeSeen \cup StakesOf(Stored({b}))
      OBVIOUS
    <3>2. setStakeSeen \subseteq StakesOf(mapBlockIndex)
      BY DEF Inv, NothingLost
    <3>3. StakesOf(mapBlockIndex') = StakesOf(mapBlockIndex) \cup StakesOf(Stored({b}))
      BY <3>1, StakesOfUnion
    <3> HIDE DEF ProcessBlock, Admitted
    <3> QED BY <3>1, <3>2, <3>3
  <2> QED BY <1>3, <2>1 DEF Inv, NothingLost
<1>8. NothingForgotten'
  <2> SUFFICES ASSUME BadBlock = {}, NEW x \in mapOrphanBlocks, pprev(x) \in mapBlockIndex'
               PROVE  pprev(x) \in Queued'
    BY DEF NothingForgotten
  <2>1. pprev(x) \notin mapBlockIndex
    BY DEF Inv, NothingForgotten, Queued
  <2>2. pprev(x) = b /\ b \in accepted
    BY <1>2, <1>3, <2>1
  <2>3. vWorkQueue' = <<b>> /\ Len(<<b>>) = 1 /\ <<b>>[1] = b
    BY <1>1, <2>2
  <2> QED BY <2>2, <2>3 DEF Queued
<1> QED BY <1>4, <1>5, <1>6, <1>7, <1>8 DEF Inv

\* "Recursively process any orphan blocks that depended on this one"
LEMMA DependentsStep ==
  ASSUME Inv, given' = given, ProcessDependents
  PROVE  Inv'
<1> DEFINE h == Head(vWorkQueue)
           O == {x[2] : x \in {y \in mapOrphanBlocksByPrev : y[1] = h}}
<1>1. O = {b \in mapOrphanBlocks : pprev(b) = h}
  <2>1. mapOrphanBlocksByPrev = {<<pprev(b), b>> : b \in mapOrphanBlocks}
    BY DEF Inv, OrphanMapsAgree
  <2>2. \A x \in mapOrphanBlocksByPrev : x[2] \in mapOrphanBlocks /\ x[1] = pprev(x[2])
    BY <2>1
  <2>3. \A b \in mapOrphanBlocks :
          /\ <<pprev(b), b>> \in mapOrphanBlocksByPrev
          /\ <<pprev(b), b>>[1] = pprev(b) /\ <<pprev(b), b>>[2] = b
    BY <2>1
  <2> HIDE DEF h
  <2>4. O \subseteq {b \in mapOrphanBlocks : pprev(b) = h}
    BY <2>2
  <2>5. \A b \in mapOrphanBlocks : pprev(b) = h => b \in O
    BY <2>3
  <2> QED BY <2>4, <2>5
<1>2. PICK accepted \in AcceptOutcomes(O) : vWorkQueue' = QueueAfter(accepted)
  BY DEF ProcessDependents
<1>3. /\ vWorkQueue # <<>>
      /\ mapBlockIndex' = mapBlockIndex \cup Stored(O)
      /\ setStakeSeen' = setStakeSeen \cup StakesOf(Stored(O))
      /\ setStakeSeenOrphan' = setStakeSeenOrphan \ StakesOf(O)
      /\ mapOrphanBlocks' = mapOrphanBlocks \ O
      /\ mapOrphanBlocksByPrev' = {x \in mapOrphanBlocksByPrev : x[1] # h}
      /\ received' = received
  BY DEF ProcessDependents, Unmark, Forget
<1> HIDE DEF O, h
<1>4. accepted \subseteq Stored(O) /\ (BadBlock = {} => accepted = Stored(O))
  BY Outcomes
<1>5. Stored(O) = O \ Refused
  BY DEF Stored
<1>6. h \in mapBlockIndex
  BY <1>3 DEF Inv, Holdings, h
<1>7. /\ vWorkQueue' \in Seq(mapBlockIndex')
      /\ accepted \cup (Queued \ {h}) \subseteq Queued'
  <2>1. vWorkQueue \in Seq(mapBlockIndex')
    BY <1>3, SeqMonotonic DEF Inv, Holdings
  <2>2. accepted \in SUBSET mapBlockIndex'
    BY <1>3, <1>4
  <2>3. IsFiniteSet(accepted)
    BY <1>1, <1>4, <1>5, FS_Subset DEF Inv, Holdings
  <2> HIDE DEF h
  <2>4. /\ QueueAfter(accepted) \in Seq(mapBlockIndex')
        /\ accepted \cup (Queued \ {Head(vWorkQueue)})
              \subseteq {QueueAfter(accepted)[i] : i \in 1..Len(QueueAfter(accepted))}
    BY <1>3, <2>1, <2>2, <2>3, QueueAfterFacts
  <2> QED BY <1>2, <2>4 DEF Queued, h
<1>8. Holdings'
  <2>1. IsFiniteSet(mapOrphanBlocks')
    BY <1>3, FS_Subset DEF Inv, Holdings
  <2> QED BY <1>1, <1>3, <1>5, <1>7, <2>1 DEF Inv, Holdings
<1>9. OrphanMapsAgree'
  <2>1. mapOrphanBlocksByPrev' = {<<pprev(b), b>> : b \in mapOrphanBlocks'}
    BY <1>1, <1>3 DEF Inv, OrphanMapsAgree
  <2>2. mapOrphanBlocks' \cap mapBlockIndex' = {}
    BY <1>3, <1>5 DEF Inv, OrphanMapsAgree
  <2> QED BY <2>1, <2>2 DEF OrphanMapsAgree
<1>10. IndexSound'
  <2>1. ASSUME NEW b \in Stored(O)
        PROVE  Chain(b) \subseteq mapBlockIndex'
    <3>1. b \in Block /\ b # Genesis /\ pprev(b) \in mapBlockIndex
      BY <1>1, <1>5, <1>6, <2>1 DEF Inv, Holdings
    <3>2. Chain(b) = Chain(pprev(b)) \cup {b}
      BY <3>1, ChainOfPrev
    <3> QED BY <1>3, <2>1, <3>1, <3>2 DEF Inv, IndexSound
  <2> QED BY <1>1, <1>3, <1>5, <2>1 DEF Inv, IndexSound
<1>11. NothingLost'
  <2> SUFFICES ASSUME OwnStakes
               PROVE  /\ setStakeSeen' \subseteq StakesOf(mapBlockIndex')
                      /\ setStakeSeenOrphan' = StakesOf(mapOrphanBlocks')
                      /\ received' \subseteq mapBlockIndex' \cup mapOrphanBlocks'
                                               \cup Malformed \cup Refused
    BY SameStakes DEF NothingLost
  <2>1. setStakeSeenOrphan' = StakesOf(mapOrphanBlocks')
    BY <1>1, <1>3, StakesOfRest DEF Inv, Holdings, NothingLost
  <2>2. setStakeSeen' \subseteq StakesOf(mapBlockIndex')
    BY <1>3, StakesOfUnion DEF Inv, NothingLost
  <2> QED BY <1>3, <1>5, <2>1, <2>2 DEF Inv, NothingLost
<1>12. NothingForgotten'
  <2> SUFFICES ASSUME BadBlock = {}, NEW b \in mapOrphanBlocks', pprev(b) \in mapBlockIndex'
               PROVE  pprev(b) \in Queued'
    BY DEF NothingForgotten
  <2>1. b \in mapOrphanBlocks /\ pprev(b) # h
    BY <1>1, <1>3
  <2>2. pprev(b) \in mapBlockIndex => pprev(b) \in Queued
    BY <2>1 DEF Inv, NothingForgotten
  <2> QED BY <1>3, <1>4, <1>7, <2>1, <2>2
<1> QED BY <1>8, <1>9, <1>10, <1>11, <1>12 DEF Inv

\* The invariant holds at every moment.
LEMMA SpecInv == Spec => []Inv
<1>1. Init => Inv
  BY InitInv
<1>2. Inv /\ [Next]_vars => Inv'
  <2> SUFFICES ASSUME Inv, [Next]_vars PROVE Inv'
    OBVIOUS
  <2>1. CASE Next
    BY <2>1, RefusedStep, OrphanStep, BlockStep, DependentsStep DEF Next, Step
  <2>2. CASE UNCHANGED vars
    <3> USE <2>2 DEF vars, Inv
    <3>1. Holdings' /\ OrphanMapsAgree' /\ IndexSound'
      BY DEF Holdings, OrphanMapsAgree, IndexSound
    <3>2. NothingLost'
      BY DEF NothingLost, OwnStakes, StakesOf, IsProofOfStake
    <3>3. NothingForgotten'
      BY DEF NothingForgotten, Queued
    <3> QED BY <3>1, <3>2, <3>3
  <2> QED BY <2>1, <2>2
<1> QED BY <1>1, <1>2, PTL DEF Spec

-----------------------------------------------------------------------------
\* Between two calls no orphan waits for a block of the index.
LEMMA InvOrphansWait == Inv => OrphansWait
<1> SUFFICES ASSUME Inv, BadBlock = {}, vWorkQueue = <<>>, NEW b \in mapOrphanBlocks
             PROVE  WantedByOrphan(b) \notin mapBlockIndex \cup mapOrphanBlocks
  BY DEF OrphansWait
<1> DEFINE A == {a \in Chain(b) \ {b} : a \notin mapOrphanBlocks}
           P(w) == /\ w \notin mapOrphanBlocks
                   /\ \A a \in Chain(b) \ {b} : Len(a) > Len(w) => a \in mapOrphanBlocks
           w0 == WantedByOrphan(b)
<1>1. b \in Block /\ b # Genesis /\ Genesis \notin mapOrphanBlocks
  BY DEF Inv, Holdings
<1>2. A \in SUBSET Chain(b) /\ A # {}
  BY <1>1, ChainFacts
<1>3. PICK w \in A : \A x \in A : Len(x) <= Len(w)
  <2> HIDE DEF A
  <2> QED BY <1>1, <1>2, LowestHighest
<1>4. P(w)
  <2>1. \A a \in Chain(b) : Len(a) \in Nat
    BY <1>1, AncestorLen
  <2> QED BY <1>3, <2>1
<1>5. w0 \in Chain(b) \ {b} /\ P(w0)
  <2>1. w0 = CHOOSE v \in Chain(b) \ {b} : P(v)
    BY DEF WantedByOrphan
  <2>2. \E v \in Chain(b) \ {b} : P(v)
    <3> HIDE DEF P
    <3> QED BY <1>4
  <2> HIDE DEF P, w0
  <2> QED BY <2>1, <2>2
<1> HIDE DEF w0
<1>6. w0 \notin mapBlockIndex
  <2> DEFINE c == StepTowards(w0, b)
  <2>1. c \in Chain(b) /\ pprev(c) = w0 /\ Len(c) > Len(w0)
    <3>1. c \in Chain(b) /\ c \in Block /\ c # Genesis /\ pprev(c) = w0
      BY <1>1, <1>5, StepFacts
    <3> HIDE DEF c
    <3> QED BY <3>1, PrevFacts
  <2> HIDE DEF c
  <2>2. c \in mapOrphanBlocks
    BY <1>5, <2>1
  <2>3. Queued = {}
    BY DEF Queued
  <2> QED BY <2>1, <2>2, <2>3 DEF Inv, NothingForgotten
<1> QED BY <1>5, <1>6 DEF w0

\* Between two calls the index is what came with all its ancestors.
LEMMA InvOrderIrrelevant == Inv => OrderIrrelevant
<1> SUFFICES ASSUME Inv, OwnStakes, BadBlock = {}, vWorkQueue = <<>>
             PROVE  mapBlockIndex = {b \in Block : /\ Chain(b) \subseteq received \cup {Genesis}
                                                   /\ Chain(b) \cap (Malformed \cup Refused) = {}}
  BY DEF OrderIrrelevant
<1>1. ASSUME NEW b \in mapBlockIndex
      PROVE  /\ b \in Block
             /\ Chain(b) \subseteq received \cup {Genesis}
             /\ Chain(b) \cap (Malformed \cup Refused) = {}
  BY DEF Inv, Holdings, IndexSound
<1>2. ASSUME NEW b \in Block,
             Chain(b) \subseteq received \cup {Genesis},
             Chain(b) \cap (Malformed \cup Refused) = {},
             b \notin mapBlockIndex
      PROVE  FALSE
  <2> DEFINE A == Chain(b) \ mapBlockIndex
  <2>1. A \in SUBSET Chain(b) /\ A # {}
    BY <1>2, ChainFacts
  <2>2. PICK a \in A : \A x \in A : Len(a) <= Len(x)
    <3> HIDE DEF A
    <3> QED BY <2>1, LowestHighest
  <2>3. a \in Chain(b) /\ a \in Block /\ a # Genesis /\ a \notin mapBlockIndex
    BY <2>2, ChainFacts DEF Inv, Holdings
  <2>4. pprev(a) \in Chain(b) /\ ~(Len(a) <= Len(pprev(a)))
    <3>1. pprev(a) \in Chain(b)
      BY <2>3, StepUnique
    <3>2. Len(a) \in Nat /\ Len(pprev(a)) = Len(a) - 1
      BY <2>3, PrevFacts
    <3> QED BY <3>1, <3>2
  <2>5. pprev(a) \in mapBlockIndex
    BY <2>2, <2>4
  <2>6. a \in mapOrphanBlocks
    BY <1>2, <2>3 DEF Inv, NothingLost
  <2>7. Queued = {}
    BY DEF Queued
  <2> QED BY <2>5, <2>6, <2>7 DEF Inv, NothingForgotten
<1> QED BY <1>1, <1>2

\* The two orphan maps of ProcessBlock() always hold the same blocks, none of them in
\* the index, and when no two blocks share a stake setStakeSeenOrphan holds exactly
\* the stakes of the orphans.
THEOREM OrphanMapsInStep == Spec => []OrphansRecorded
<1>1. Inv => OrphansRecorded
  BY DEF Inv, NothingLost, StakesOfOrphansSeen, OrphansRecorded
<1> QED BY <1>1, SpecInv, PTL

\* When every block connects, what WantedByOrphan() asks a peer for is a block the node
\* does not have; when besides no two blocks share a stake, the index between two calls
\* of ProcessBlock() depends on which blocks came and not on the order.
THEOREM NoBlockStranded == Spec => []NothingStranded
BY SpecInv, InvOrphansWait, InvOrderIrrelevant, PTL DEF NothingStranded
=============================================================================
