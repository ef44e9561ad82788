-------------------------- MODULE BlockTreeProofs ---------------------------
(***************************************************************************)
(* Facts about ancestry in the block tree, from which the proofs about the  *)
(* chain modules start.                                                     *)
(***************************************************************************)
EXTENDS BlockTree, SequenceTheorems, WellFoundedInduction, TLAPS

\* Two blocks with the same labels are the same block.
LEMMA BlockEqual ==
  ASSUME NEW a \in Block, NEW b \in Block, Len(a) = Len(b),
         \A i \in 1..Len(a) : a[i] = b[i]
  PROVE  a = b
<1>1. a \in Seq(Label) /\ b \in Seq(Label)
  BY BlockAssumption
<1> QED BY <1>1, SeqEqual

\* What a prefix of a block looks like.
LEMMA Prefix ==
  ASSUME NEW b \in Block, NEW n \in 1..Len(b)
  PROVE  /\ Len(b) \in Nat
         /\ SubSeq(b, 1, n) \in Block
         /\ Len(SubSeq(b, 1, n)) = n
         /\ \A i \in 1..n : SubSeq(b, 1, n)[i] = b[i]
<1>1. b \in Seq(Label) /\ Len(b) \in Nat
  BY BlockAssumption, LenProperties
<1>2. n \in Int /\ 1 <= n /\ \A i \in 1..n : b[i] \in Label
  BY <1>1, ElementOfSeq
<1>3. /\ Len(SubSeq(b, 1, n)) = IF 1 <= n THEN n - 1 + 1 ELSE 0
      /\ \A i \in 1..n-1+1 : SubSeq(b, 1, n)[i] = b[1+i-1]
  BY <1>2, SubSeqProperties
<1>4. n - 1 + 1 = n /\ \A i \in 1..n : 1 + i - 1 = i
  BY <1>2
<1>5. SubSeq(b, 1, n) \in Block
  BY BlockAssumption
<1> QED BY <1>1, <1>2, <1>3, <1>4, <1>5

\* pprev of a block other than the genesis block.
LEMMA PrevFacts ==
  ASSUME NEW b \in Block, b # Genesis
  PROVE  /\ Len(b) \in Nat /\ Len(b) > 1
         /\ pprev(b) \in Block
         /\ Len(pprev(b)) = Len(b) - 1
         /\ \A i \in 1..Len(b)-1 : pprev(b)[i] = b[i]
<1>1. Len(b) \in Nat /\ Len(b) > 0
  BY BlockAssumption, LenProperties
<1>2. Len(b) # 1
  <2> SUFFICES ASSUME Len(b) = 1 PROVE FALSE
    OBVIOUS
  <2>1. \A i \in 1..Len(b) : i = 1
    OBVIOUS
  <2>2. \A i \in 1..Len(b) : b[i] = Genesis[i]
    BY <2>1, BlockAssumption
  <2> QED BY <2>2, BlockEqual, BlockAssumption
<1>3. \A n \in Nat : n > 0 /\ n # 1 => n > 1 /\ n - 1 \in 1..n
  OBVIOUS
<1>4. Len(b) > 1 /\ Len(b) - 1 \in 1..Len(b)
  BY <1>1, <1>2, <1>3
<1> QED BY <1>1, <1>4, Prefix DEF pprev

\* Every block is on its own chain, and chains are closed under ancestry.
LEMMA ChainFacts ==
  ASSUME NEW b \in Block
  PROVE  /\ b \in Chain(b)
         /\ Genesis \in Chain(b)
         /\ Chain(b) \subseteq Block
         /\ \A a \in Chain(b) : Chain(a) \subseteq Chain(b)
<1>1. \A x \in Block : Len(x) \in Nat /\ Len(x) > 0
  BY BlockAssumption, LenProperties
<1>2. b \in Chain(b)
  BY <1>1 DEF Chain, IsAncestor
<1>3. Genesis \in Chain(b)
  <2>1. \A i \in 1..Len(Genesis) : i = 1
    BY BlockAssumption
  <2>2. \A i \in 1..Len(Genesis) : Genesis[i] = b[i]
    BY <2>1, BlockAssumption
  <2>3. Len(Genesis) <= Len(b)
    BY <1>1, BlockAssumption
  <2> QED BY <2>2, <2>3, BlockAssumption DEF Chain, IsAncestor
<1>4. ASSUME NEW a \in Chain(b), NEW x \in Chain(a)
      PROVE  x \in Chain(b)
  <2>1. /\ a \in Block /\ x \in Block
        /\ Len(x) <= Len(a) /\ Len(a) <= Len(b)
        /\ \A i \in 1..Len(x) : x[i] = a[i]
        /\ \A i \in 1..Len(a) : a[i] = b[i]
    BY <1>4 DEF Chain, IsAncestor
  <2>2. \A i \in 1..Len(x) : i \in 1..Len(a)
    BY <1>1, <2>1
  <2> QED BY <1>1, <2>1, <2>2 DEF Chain, IsAncestor
<1> QED BY <1>2, <1>3, <1>4 DEF Chain

\* An ancestor is no longer than its descendant, and shorter if it is another block.
LEMMA AncestorLen ==
  ASSUME NEW b \in Block, NEW a \in Chain(b)
  PROVE  /\ Len(a) \in Nat /\ Len(b) \in Nat
         /\ Len(a) <= Len(b)
         /\ a # b => Len(a) < Len(b)
<1>1. /\ a \in Block /\ Len(a) <= Len(b)
      /\ \A i \in 1..Len(a) : a[i] = b[i]
  BY DEF Chain, IsAncestor
<1>2. Len(a) \in Nat /\ Len(b) \in Nat
  BY <1>1, BlockAssumption, LenProperties
<1>3. Len(a) = Len(b) => a = b
  BY <1>1, BlockEqual
<1> QED BY <1>1, <1>2, <1>3

\* The chain of a block is the chain of its predecessor and the block.
LEMMA ChainOfPrev ==
  ASSUME NEW b \in Block, b # Genesis
  PROVE  /\ pprev(b) \in Block
         /\ Chain(b) = Chain(pprev(b)) \cup {b}
         /\ b \notin Chain(pprev(b))
         /\ pprev(b) \in Chain(b) \ {b}
<1> DEFINE p == pprev(b)
<1>1. /\ Len(b) \in Nat /\ p \in Block /\ Len(p) = Len(b) - 1
      /\ \A i \in 1..Len(b)-1 : p[i] = b[i]
  BY PrevFacts
<1> HIDE DEF p
<1>2. p \in Chain(b)
  <2>1. \A i \in 1..Len(p) : i \in 1..Len(b)-1
    BY <1>1
  <2> QED BY <1>1, <2>1 DEF Chain, IsAncestor
<1>3. b \notin Chain(p)
  BY <1>1 DEF Chain, IsAncestor
<1>4. ASSUME NEW a \in Chain(b), a # b
      PROVE  a \in Chain(p)
  <2>1. /\ a \in Block /\ \A i \in 1..Len(a) : a[i] = b[i]
        /\ Len(a) \in Nat /\ Len(a) < Len(b)
    BY <1>4, AncestorLen DEF Chain, IsAncestor
  <2>2. \A i \in 1..Len(a) : i \in 1..Len(b)-1
    BY <1>1, <2>1
  <2> QED BY <1>1, <2>1, <2>2 DEF Chain, IsAncestor
<1>5. Chain(p) \subseteq Chain(b) /\ b \in Chain(b)
  BY <1>2, ChainFacts
<1>6. p # b
  BY <1>1
<1>7. Chain(b) = Chain(p) \cup {b}
  BY <1>4, <1>5
<1> QED BY <1>1, <1>2, <1>3, <1>6, <1>7 DEF p

\* One step from a towards its descendant b.
LEMMA StepFacts ==
  ASSUME NEW b \in Block, NEW a \in Chain(b), a # b
  PROVE  /\ StepTowards(a, b) \in Chain(b)
         /\ StepTowards(a, b) \in Block
         /\ StepTowards(a, b) # Genesis
         /\ pprev(StepTowards(a, b)) = a
<1> DEFINE s == StepTowards(a, b)
<1>1. /\ a \in Block /\ Len(a) \in Nat /\ Len(b) \in Nat /\ Len(a) < Len(b)
      /\ \A i \in 1..Len(a) : a[i] = b[i]
  BY AncestorLen DEF Chain, IsAncestor
<1>2. Len(a) > 0
  BY <1>1, BlockAssumption
<1>3. Len(a) + 1 \in 1..Len(b)
  BY <1>1, <1>2
<1>4. /\ s \in Block /\ Len(s) = Len(a) + 1
      /\ \A i \in 1..Len(a)+1 : s[i] = b[i]
  BY <1>3, Prefix DEF StepTowards
<1> HIDE DEF s
<1>5. s \in Chain(b)
  BY <1>1, <1>4 DEF Chain, IsAncestor
<1>6. s # Genesis
  BY <1>1, <1>2, <1>4, BlockAssumption
<1>7. /\ pprev(s) \in Block /\ Len(pprev(s)) = Len(s) - 1
      /\ \A i \in 1..Len(s)-1 : pprev(s)[i] = s[i]
  BY <1>4, <1>6, PrevFacts
<1>8. Len(s) - 1 = Len(a)
  BY <1>1, <1>4
<1>9. \A i \in 1..Len(a) : i \in 1..Len(a)+1
  BY <1>1
<1>10. \A i \in 1..Len(a) : pprev(s)[i] = a[i]
  BY <1>1, <1>4, <1>7, <1>8, <1>9
<1>11. pprev(s) = a
  BY <1>1, <1>7, <1>8, <1>10, BlockEqual
<1> QED BY <1>4, <1>5, <1>6, <1>11 DEF s

\* A block of b's chain is the step from its predecessor towards b.
LEMMA StepUnique ==
  ASSUME NEW b \in Block, NEW c \in Chain(b), c # Genesis
  PROVE  /\ pprev(c) \in Chain(b) \ {b}
         /\ c = StepTowards(pprev(c), b)
<1>1. c \in Block /\ Len(c) \in Nat /\ Len(b) \in Nat /\ Len(c) <= Len(b)
  BY AncestorLen DEF Chain
<1>2. /\ pprev(c) \in Block /\ Len(pprev(c)) = Len(c) - 1 /\ Len(c) > 1
  BY <1>1, PrevFacts
<1>3. pprev(c) \in Chain(b)
  BY <1>1, ChainOfPrev, ChainFacts
<1>4. pprev(c) # b
  BY <1>1, <1>2
<1>5. Len(pprev(c)) + 1 = Len(c) /\ Len(c) \in 1..Len(b)
  BY <1>1, <1>2
<1>6. StepTowards(pprev(c), b) = SubSeq(b, 1, Len(c))
  BY <1>5 DEF StepTowards
<1>7. /\ SubSeq(b, 1, Len(c)) \in Block /\ Len(SubSeq(b, 1, Len(c))) = Len(c)
      /\ \A i \in 1..Len(c) : SubSeq(b, 1, Len(c))[i] = b[i]
  BY <1>5, Prefix
<1>8. \A i \in 1..Len(c) : c[i] = b[i]
  BY DEF Chain, IsAncestor
<1>9. c = SubSeq(b, 1, Len(c))
  BY <1>1, <1>7, <1>8, BlockEqual
<1> QED BY <1>3, <1>4, <1>6, <1>9

\* A set of natural numbers has a least element.
LEMMA NatMin ==
  ASSUME NEW T, T \subseteq Nat, T # {}
  PROVE  \E x \in T : \A y \in T : x <= y
<1> DEFINE R == {ss \in Nat \X Nat : ss[1] < ss[2]}
<1>1. IsWellFoundedOn(R, Nat)
  BY NatLessThanWellFounded DEF OpToRel
<1>2. \A x, y \in Nat : ~(<<y, x>> \in R) => x <= y
  OBVIOUS
<1> HIDE DEF R
<1>3. \E x \in T : \A y \in T : ~(<<y, x>> \in R)
  BY <1>1, WFMin
<1> QED BY <1>2, <1>3

\* Of the ancestors of a block that are in A, one is the lowest and one the highest.
LEMMA LowestHighest ==
  ASSUME NEW b \in Block, NEW A \in SUBSET Chain(b), A # {}
  PROVE  /\ \E a \in A : \A x \in A : Len(a) <= Len(x)
         /\ \E a \in A : \A x \in A : Len(x) <= Len(a)
<1>1. Len(b) \in Nat /\ \A x \in A : Len(x) \in Nat /\ Len(x) <= Len(b)
  BY AncestorLen
<1> DEFINE L == {Len(x) : x \in A}
           H == {Len(b) - Len(x) : x \in A}
<1>2. L \subseteq Nat /\ L # {} /\ H \subseteq Nat /\ H # {}
  <2>1. \A x \in A : Len(b) - Len(x) \in Nat
    BY <1>1
  <2> QED BY <1>1, <2>1
<1>3. PICK l \in L : \A y \in L : l <= y
  <2> HIDE DEF L
  <2> QED BY <1>2, NatMin
<1>4. PICK h \in H : \A y \in H : h <= y
  <2> HIDE DEF H
  <2> QED BY <1>2, NatMin
<1>5. PICK a \in A : l = Len(a)
  BY <1>3
<1>6. PICK z \in A : h = Len(b) - Len(z)
  BY <1>4
<1>7. \A x \in A : Len(a) <= Len(x)
  BY <1>3, <1>5
<1>8. \A x \in A : Len(x) <= Len(z)
  <2> SUFFICES ASSUME NEW x \in A PROVE Len(x) <= Len(z)
    OBVIOUS
  <2>1. Len(b) - Len(z) <= Len(b) - Len(x)
    BY <1>4, <1>6
  <2> QED BY <1>1, <2>1
<1> QED BY <1>7, <1>8
=============================================================================
