------------------------------ MODULE AddrMan -------------------------------
(***************************************************************************)
(* The address manager (addrman.cpp): addresses in "new" and "tried"         *)
(* buckets, with a table of entries, an index by address and a vector in     *)
(* random order that must all agree.  Every operation holds cs, so it is one *)
(* step.  Hashing decides on the buckets (constants); times and random draws *)
(* decide which entries go, so any draw is possible.                         *)
(***************************************************************************)
EXTENDS Integers, FiniteSets, SequencesExt

CONSTANTS
    Addr, Source,
    NewBucket, TriedBucket,     \* the buckets
    GetNewBucket,               \* [Addr \X Source -> NewBucket]
    GetTriedBucket,             \* [Addr -> TriedBucket]
    NewBucketSize, TriedBucketSize,
    NewBucketsPerAddress,
    TriedEntriesInspect,        \* ADDRMAN_TRIED_ENTRIES_INSPECT_ON_EVICT
    GetAddrMaxPct,              \* ADDRMAN_GETADDR_MAX_PCT
    MaxId, MaxTime              \* bounds: ids, times of success

VARIABLES
    mapInfo,    \* [nId -> CAddrInfo]
    mapAddr,    \* [address -> nId]
    vRandom,    \* all nIds
    nIdCount, nTried, nNew,
    vvTried,    \* [TriedBucket -> Seq(nId)]
    vvNew       \* [NewBucket -> set of nIds]

vars == <<mapInfo, mapAddr, vRandom, nIdCount, nTried, nNew, vvTried, vvNew>>

Without(f, x) == [y \in DOMAIN f \ {x} |-> f[y]]
With(f, x, v) == [y \in DOMAIN f \cup {x} |-> IF y = x THEN v ELSE f[y]]

\* The tables as one value, to say what the helpers make of them
Tables == [mapInfo |-> mapInfo, mapAddr |-> mapAddr, vRandom |-> vRandom, nIdCount |-> nIdCount,
           nTried |-> nTried, nNew |-> nNew, vvTried |-> vvTried, vvNew |-> vvNew]

Become(m) ==
    /\ mapInfo' = m.mapInfo /\ mapAddr' = m.mapAddr /\ vRandom' = m.vRandom
    /\ nIdCount' = m.nIdCount /\ nTried' = m.nTried /\ nNew' = m.nNew
    /\ vvTried' = m.vvTried /\ vvNew' = m.vvNew

-----------------------------------------------------------------------------
(* Helpers *)

\* Create(): a new entry, not in any bucket yet
Create(m, a, src) ==
    [m EXCEPT !.nIdCount = @ + 1,
              !.mapInfo = With(@, m.nIdCount,
                               [addr |-> a, source |-> src, nRefCount |-> 0, fInTried |-> FALSE,
                                nLastSuccess |-> 0, nRandomPos |-> Len(m.vRandom) + 1]),
              !.mapAddr = With(@, a, m.nIdCount),
              !.vRandom = Append(@, m.nIdCount)]

\* Mutant: the entries do not learn of their new positions.
SwapRandomOneWay(m, p, q) ==
    [m EXCEPT !.vRandom = [@ EXCEPT ![p] = m.vRandom[q], ![q] = m.vRandom[p]]]

SwapRandom(m, p, q) ==
    [m EXCEPT !.vRandom = [@ EXCEPT ![p] = m.vRandom[q], ![q] = m.vRandom[p]],
              !.mapInfo = IF p = q THEN @
                          ELSE [@ EXCEPT ![m.vRandom[p]].nRandomPos = q,
                                         ![m.vRandom[q]].nRandomPos = p]]

\* The end of an entry that is in no bucket any more
Delete(m, nId) ==
    LET s == SwapRandom(m, m.mapInfo[nId].nRandomPos, Len(m.vRandom))
    IN  [s EXCEPT !.vRandom = Front(@),
                  !.mapAddr = Without(@, s.mapInfo[nId].addr),
                  !.mapInfo = Without(@, nId),
                  !.nNew = @ - 1]

\* ShrinkNew(): entry nId leaves bucket u, and the table with its last reference.
ShrinkNew(m, u, nId) ==
    LET s == [m EXCEPT !.mapInfo[nId].nRefCount = @ - 1, !.vvNew[u] = @ \ {nId}]
    IN  IF s.mapInfo[nId].nRefCount = 0 THEN Delete(s, nId) ELSE s

\* SelectTried(): the bucket after its first few elements were shuffled, with draw[i]
\* the position the i-th is swapped with; and the position it returns.
SelectTried(m, bucket, draw) ==
    LET nLastSuccess(nId) == m.mapInfo[nId].nLastSuccess
        Step(acc, i) ==
            LET nTemp == acc.vTried[draw[i]]
                older == acc.nOldest = -1 \/ nLastSuccess(nTemp) < nLastSuccess(acc.nOldest)
            IN  [vTried |-> [acc.vTried EXCEPT ![draw[i]] = acc.vTried[i], ![i] = nTemp],
                 nOldest |-> IF older THEN nTemp ELSE acc.nOldest,
                 nOldestPos |-> IF older THEN draw[i] ELSE acc.nOldestPos]
    IN  FoldLeft(Step, [vTried |-> bucket, nOldest |-> -1, nOldestPos |-> -1],
                 [i \in 1..Len(draw) |-> i])

\* The draws of a shuffle of the first k of n elements: the i-th is swapped with a later one.
Draws(k, n) == {d \in [1..k -> 1..n] : \A i \in 1..k : d[i] >= i}

\* Mutant: the evicted entry goes back to its bucket, full or not.
HomeAlways(m, nId, nOrigin) == GetNewBucket[m.mapInfo[nId].addr, m.mapInfo[nId].source]

\* The new bucket an evicted entry goes to: its own if there is place, else the one the
\* entry that replaces it came from "(there is certainly place there)"
Home(m, nId, nOrigin) ==
    LET u == GetNewBucket[m.mapInfo[nId].addr, m.mapInfo[nId].source]
    IN  IF Cardinality(m.vvNew[u]) < NewBucketSize THEN u ELSE nOrigin

\* MakeTried(): "remove the entry from all new buckets"
LeaveNew(m, nId) ==
    [m EXCEPT !.vvNew = [u \in NewBucket |-> @[u] \ {nId}],
              !.mapInfo[nId].nRefCount = @ - Cardinality({u \in NewBucket : nId \in m.vvNew[u]}),
              !.nNew = @ - 1]

\* MakeTried() when there is place in the tried bucket
MakeTriedAdd(m, nId, k) ==
    [m EXCEPT !.vvTried[k] = Append(@, nId),
              !.nTried = @ + 1,
              !.mapInfo[nId].fInTried = TRUE]

\* MakeTried() when an entry must go, s what SelectTried() makes of the bucket
MakeTriedEvict(m, nId, k, s, nOrigin) ==
    LET old == s.vTried[s.nOldestPos]
        r == [m EXCEPT !.mapInfo[old].fInTried = FALSE, !.mapInfo[old].nRefCount = 1]
    IN  [r EXCEPT !.vvNew[Home(r, old, nOrigin)] = @ \cup {old},
                  !.nNew = @ + 1,
                  !.vvTried[k] = [s.vTried EXCEPT ![s.nOldestPos] = nId],
                  !.mapInfo[nId].fInTried = TRUE]

-----------------------------------------------------------------------------
(* Operations *)

Init ==
    /\ mapInfo = <<>> /\ mapAddr = <<>> /\ vRandom = <<>>
    /\ nIdCount = 0 /\ nTried = 0 /\ nNew = 0
    /\ vvTried = [k \in TriedBucket |-> <<>>]
    /\ vvNew = [u \in NewBucket |-> {}]

\* The rest of Add_(): a reference from bucket u to the entry nId
Enter(m, nId, u) ==
    LET r == [m EXCEPT !.mapInfo[nId].nRefCount = @ + 1]
    IN  IF nId \in m.vvNew[u] THEN Become(m)
        ELSE IF Cardinality(m.vvNew[u]) = NewBucketSize
        THEN \E out \in m.vvNew[u] :
                LET s == ShrinkNew(r, u, out) IN Become([s EXCEPT !.vvNew[u] = @ \cup {nId}])
        ELSE Become([r EXCEPT !.vvNew[u] = @ \cup {nId}])

\* Add_() of an address that is not known
AddNew(a, src) ==
    /\ a \notin DOMAIN mapAddr
    /\ nIdCount < MaxId
    /\ LET m == Create(Tables, a, src)
       IN  Enter([m EXCEPT !.nNew = @ + 1], nIdCount, GetNewBucket[a, src])

\* Add_() of a known address, when it gets past the early returns
AddKnown(a, src) ==
    /\ a \in DOMAIN mapAddr
    /\ LET nId == mapAddr[a]
       IN  /\ ~mapInfo[nId].fInTried
           /\ mapInfo[nId].nRefCount # NewBucketsPerAddress
           /\ Enter(Tables, nId, GetNewBucket[a, src])

\* Good_(): a connection to the address has succeeded at time t.
Good(a, t) ==
    /\ a \in DOMAIN mapAddr
    /\ LET nId == mapAddr[a]
           m == [Tables EXCEPT !.mapInfo[nId].nLastSuccess = t]
           k == GetTriedBucket[a]
           n == Len(vvTried[k])
       IN  IF mapInfo[nId].fInTried THEN Become(m)
           ELSE \E nOrigin \in {u \in NewBucket : nId \in vvNew[u]} :
                \/ /\ n < TriedBucketSize
                   /\ Become(MakeTriedAdd(LeaveNew(m, nId), nId, k))
                \/ /\ n >= TriedBucketSize
                   /\ \E draw \in Draws(Min({TriedEntriesInspect, n}), n) :
                        Become(MakeTriedEvict(LeaveNew(m, nId), nId, k,
                                              SelectTried(m, vvTried[k], draw), nOrigin))

\* GetAddr_(): "a random shuffle over the first nNodes elements of vRandom"
GetAddr ==
    \E draw \in Draws((GetAddrMaxPct * Len(vRandom)) \div 100, Len(vRandom)) :
        Become(FoldLeft(LAMBDA m, i : SwapRandom(m, i, draw[i]), Tables, [i \in 1..Len(draw) |-> i]))

\* The entries in the order addr.dat has them: the new ones, then the tried ones, each by nId
SavedNew == SetToSortSeq({i \in DOMAIN mapInfo : mapInfo[i].nRefCount # 0}, <)

\* What is read back of entry i, which becomes entry n: its references are counted anew.
ReloadInfo(i, n) ==
    [addr |-> mapInfo[i].addr, source |-> mapInfo[i].source, nLastSuccess |-> mapInfo[i].nLastSuccess,
     nRefCount |-> Min({NewBucketsPerAddress, Cardinality({u \in NewBucket : i \in vvNew[u]})}),
     fInTried |-> n >= Len(SavedNew),
     nRandomPos |-> n + 1]

\* Mutant: one place of each bucket is not used.
ReloadTriedOffByOne ==
    LET tried == {i \in DOMAIN mapInfo : mapInfo[i].fInTried}
        Bucket(i) == GetTriedBucket[mapInfo[i].addr]
    IN  SetToSortSeq({i \in tried : Cardinality({j \in tried : j < i /\ Bucket(j) = Bucket(i)})
                                        < TriedBucketSize - 1}, <)

\* The tried entries for which there is place in their bucket when they are read back
ReloadTried ==
    LET tried == {i \in DOMAIN mapInfo : mapInfo[i].fInTried}
        Bucket(i) == GetTriedBucket[mapInfo[i].addr]
    IN  SetToSortSeq({i \in tried : Cardinality({j \in tried : j < i /\ Bucket(j) = Bucket(i)})
                                        < TriedBucketSize}, <)

\* DumpAddresses() at the end of one run, and CAddrDB().Read() at the start of the next
Reload ==
    LET saved == SavedNew \o ReloadTried
        N(i) == (CHOOSE p \in 1..Len(saved) : saved[p] = i) - 1
        Bucket(i) == GetTriedBucket[mapInfo[i].addr]
    IN  /\ mapInfo' = [n \in 0..(Len(saved) - 1) |-> ReloadInfo(saved[n + 1], n)]
        /\ mapAddr' = [a \in {mapInfo[i].addr : i \in ToSet(saved)} |-> N(mapAddr[a])]
        /\ vRandom' = [p \in 1..Len(saved) |-> p - 1]
        /\ nIdCount' = Len(saved)
        /\ nTried' = nTried - (Cardinality({i \in DOMAIN mapInfo : mapInfo[i].fInTried}) - Len(ReloadTried))
        /\ nNew' = nNew
        /\ vvTried' = [k \in TriedBucket |->
                          LET mine == SelectSeq(ReloadTried, LAMBDA i : Bucket(i) = k)
                          IN  [p \in 1..Len(mine) |-> N(mine[p])]]
        /\ vvNew' = [u \in NewBucket |-> {N(i) : i \in vvNew[u]}]

Next ==
    \/ \E a \in Addr, src \in Source : AddNew(a, src) \/ AddKnown(a, src)
    \/ \E a \in Addr, t \in 1..MaxTime : Good(a, t)
    \/ GetAddr
    \/ Reload

Spec == Init /\ [][Next]_vars

-----------------------------------------------------------------------------
(* Properties *)

Tried == {i \in DOMAIN mapInfo : mapInfo[i].fInTried}

\* Check_(), the consistency check that DEBUG_ADDRMAN compiles in, returns 0.
Check ==
    /\ Len(vRandom) = nTried + nNew
    /\ \A i \in DOMAIN mapInfo :
          /\ IF i \in Tried
             THEN mapInfo[i].nLastSuccess > 0 /\ mapInfo[i].nRefCount = 0
             ELSE mapInfo[i].nRefCount \in 1..NewBucketsPerAddress
          /\ mapAddr[mapInfo[i].addr] = i
          /\ mapInfo[i].nRandomPos \in 1..Len(vRandom) /\ vRandom[mapInfo[i].nRandomPos] = i
    /\ Cardinality(Tried) = nTried
    /\ Cardinality(DOMAIN mapInfo \ Tried) = nNew
    /\ \A i \in Tried : Cardinality({<<k, p>> \in TriedBucket \X (1..TriedBucketSize) :
                                        p <= Len(vvTried[k]) /\ vvTried[k][p] = i}) = 1
    /\ \A k \in TriedBucket : ToSet(vvTried[k]) \subseteq Tried
    /\ \A i \in DOMAIN mapInfo \ Tried :
          Cardinality({u \in NewBucket : i \in vvNew[u]}) = mapInfo[i].nRefCount
    /\ \A u \in NewBucket : vvNew[u] \subseteq DOMAIN mapInfo \ Tried

\* "Only keep a limited number of addresses around": no bucket outgrows its size.
BucketsBounded ==
    /\ \A u \in NewBucket : Cardinality(vvNew[u]) <= NewBucketSize
    /\ \A k \in TriedBucket : Len(vvTried[k]) <= TriedBucketSize

\* "They are never deleted while in the "tried" table, only possibly evicted back to the
\* "new" table" (addrman.h): whatever is done, restarts included, an address that was tried
\* is still known after the step.
TriedNeverDeleted == [][\A i \in Tried : mapInfo[i].addr \in DOMAIN mapAddr']_vars

\* A restart keeps what addr.dat is for: which addresses are in which new bucket, and which
\* ones are tried.
ReloadKeepsTables ==
    [][Reload =>
        /\ \A u \in NewBucket : {mapInfo'[i].addr : i \in vvNew'[u]} = {mapInfo[i].addr : i \in vvNew[u]}
        /\ \A k \in TriedBucket : {mapInfo'[i].addr : i \in ToSet(vvTried'[k])}
                                      = {mapInfo[i].addr : i \in ToSet(vvTried[k])}]_vars

\* Neither a step nor a restart loses what the tables know of an address.
AddressesKept == TriedNeverDeleted /\ ReloadKeepsTables

\* "find the least recently tried among them" (addrman.cpp, SelectTried()): when every entry
\* of the bucket is inspected, the one that leaves it is one with the least nLastSuccess.
EvictsLeastRecentlyTried ==
    [][\A k \in TriedBucket : \A i \in ToSet(vvTried[k]) :
          (/\ TriedEntriesInspect >= TriedBucketSize
           /\ i \in DOMAIN mapInfo' /\ mapInfo'[i].addr = mapInfo[i].addr /\ ~mapInfo'[i].fInTried)
             => \A j \in ToSet(vvTried[k]) : mapInfo[i].nLastSuccess <= mapInfo[j].nLastSuccess]_vars
=============================================================================
