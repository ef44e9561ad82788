-------------------------------- MODULE Relay --------------------------------
(***************************************************************************)
(* Transactions between peers (main.cpp, net.h, net.cpp): announcements     *)
(* received and sent, requests and their retries, transactions that wait    *)
(* for their inputs, and the copies kept for peers that ask.                *)
(*                                                                         *)
(* Several peers announce and send; of what this node announces, the        *)
(* connection to one peer, pto, is followed.  Its setInventoryKnown is the  *)
(* mruset of module MruSet.  ProcessMessage and SendMessages run under      *)
(* cs_main, each is one step, except that SendMessages takes one item of    *)
(* vInventoryToSend per step while nothing else runs.  Blocks are asked for *)
(* and announced by the same code, without the delays of transactions.      *)
(***************************************************************************)
EXTENDS MruSet, SequencesExt

CONSTANTS Peer, pto,
          Announces, Sends,  \* the peers' inv and tx messages: pairs of a peer and a transaction
          Prev,         \* Prev[t]: the transactions whose outputs t spends
          Invalid,      \* transactions that do not verify once their inputs are known
          Large,        \* more than 5000 bytes
          Own,          \* transactions of the wallet
          Mined,        \* transactions that get into blocks
          Fast,         \* a quarter of the transactions by a salted hash
          MAX_ORPHAN_TRANSACTIONS,
          Retry,        \* two minutes
          RelayTime,    \* fifteen minutes
          MaxTime,      \* bound of the clock and of the times of requests
          MaxRelays,    \* bound of vRelayExpiration for ResendWalletTransactions
          NULL

ASSUME RelayAssumption ==
  /\ pto \in Peer /\ Announces \subseteq Peer \X T /\ Sends \subseteq Peer \X T
  /\ Prev \in [T -> SUBSET T] /\ Own \subseteq T /\ Mined \subseteq T \ Invalid
  /\ MAX_ORPHAN_TRANSACTIONS \in Nat /\ Retry \in Nat \ {0} /\ RelayTime \in Nat

VARIABLES
  pool, chain,                        \* mempool.mapTx; the transactions of the best chain
  mapOrphanTransactions, mapOrphanTransactionsByPrev,
  mapAskFor, mapAlreadyAskedFor,
  mapRelay, vRelayExpiration,
  vInventoryToSend, vInvWait, sending, \* pto's; sending: NULL or fSendTrickle
  now,
  told,      \* history: announced to pto or received from it
  repeated,  \* history: something was announced that pto had been told
  unasked    \* history: transactions that came otherwise than by a tx message

known == <<set, queue, nMaxSize>>
orphans == <<mapOrphanTransactions, mapOrphanTransactionsByPrev>>
asking == <<mapAskFor, mapAlreadyAskedFor>>
copies == <<mapRelay, vRelayExpiration>>
outgoing == <<vInventoryToSend, vInvWait, sending>>
rvars == <<known, pool, chain, orphans, asking, copies, outgoing, now,
           told, repeated, unasked>>

RInit ==
  /\ Init
  /\ pool = {} /\ chain = {}
  /\ mapOrphanTransactions = {}
  /\ mapOrphanTransactionsByPrev = [t \in T |-> {}]
  /\ mapAskFor = [p \in Peer |-> {}]
  /\ mapAlreadyAskedFor = [t \in T |-> NULL]
  /\ mapRelay = {} /\ vRelayExpiration = <<>>
  /\ vInventoryToSend = <<>> /\ vInvWait = <<>> /\ sending = NULL
  /\ now = 0
  /\ told = {} /\ repeated = FALSE /\ unasked = {}

Idle == sending = NULL

(* AlreadyHave for MSG_TX *)
AlreadyHave(t) == t \in pool \cup mapOrphanTransactions \cup chain

(* AddInventoryKnown of the sender *)
AddInventoryKnown(p, t) ==
  IF p = pto THEN (InsertKnown(t) \/ InsertNew(t)) /\ told' = told \cup {t}
             ELSE UNCHANGED <<known, told>>

-----------------------------------------------------------------------------
(* inv *)

(* Mutant: asked for at once, the time of the retry is lost. *)
RequestTimeLate(t) ==
  IF mapAlreadyAskedFor[t] = NULL THEN now ELSE mapAlreadyAskedFor[t] + 2 * Retry

(* nRequestTime of AskFor: "each retry is 2 minutes after the last" *)
RequestTime(t) ==
  IF mapAlreadyAskedFor[t] = NULL \/ mapAlreadyAskedFor[t] + Retry < now
  THEN now ELSE mapAlreadyAskedFor[t] + Retry

AskFor(p, t) ==
  /\ RequestTime(t) <= MaxTime
  /\ mapAlreadyAskedFor' = [mapAlreadyAskedFor EXCEPT ![t] = RequestTime(t)]
  /\ mapAskFor' = [mapAskFor EXCEPT ![p] = @ \cup {<<RequestTime(t), t>>}]

inv(p, t) ==
  /\ Idle
  /\ AddInventoryKnown(p, t)
  /\ IF AlreadyHave(t) THEN UNCHANGED asking ELSE AskFor(p, t)
  /\ UNCHANGED <<pool, chain, orphans, copies, outgoing, now, repeated, unasked>>

-----------------------------------------------------------------------------
(* Relaying *)

(* RelayTransaction drops the entries at the front whose time is over *)
Expired == {i \in 1..Len(vRelayExpiration) :
              \A j \in 1..i : vRelayExpiration[j][1] < now}

(* Mutant: the entry is taken off the queue before its transaction is erased. *)
ExpiredItemsNext == {vRelayExpiration[i][2] : i \in {j + 1 : j \in Expired} \cap 1..Len(vRelayExpiration)}

ExpiredItems == {vRelayExpiration[i][2] : i \in Expired}

(* PushInventory to pto of the transactions of s that it is not known to have *)
PushInventory(s, knows) ==
  vInventoryToSend' = vInventoryToSend \o SelectSeq(s, LAMBDA t : t \notin knows)

(* RelayTransaction of the transactions of s, at the same time *)
RelayTransactions(s, knows) ==
  /\ mapRelay' = (mapRelay \ ExpiredItems) \cup ToSet(s)
  /\ vRelayExpiration' =
       SubSeq(vRelayExpiration, Cardinality(Expired) + 1, Len(vRelayExpiration))
         \o [i \in 1..Len(s) |-> <<now + RelayTime, s[i]>>]
  /\ PushInventory(s, knows)

-----------------------------------------------------------------------------
(* tx *)

(* CTxMemPool::accept with pool P, as far as it depends on what is known *)
Missing(t, P) == t \notin P \cup chain /\ ~(Prev[t] \subseteq P \cup chain)
Accepts(t, P) == t \notin P \cup chain /\ Prev[t] \subseteq P \cup chain /\ t \notin Invalid

(* Orphans that waited for a transaction of the work queue: s collects the
   queue, the pool and the orphans to erase *)
TryOrphan(s, o) ==
  IF Accepts(o, s.pool)
  THEN [work |-> Append(s.work, o), pool |-> s.pool \cup {o}, erase |-> s.erase \cup {o}]
  ELSE IF Missing(o, s.pool) THEN s ELSE [s EXCEPT !.erase = @ \cup {o}]

RECURSIVE WorkQueue(_, _)

(* Mutant: only the orphans of the transaction that came are taken up. *)
WorkQueueOnce(i, s) ==
  IF i > 1 THEN s
  ELSE WorkQueue(i + 1, FoldLeft(TryOrphan, s,
                          SetToSeq(mapOrphanTransactionsByPrev[s.work[i]])))

WorkQueue(i, s) ==
  IF i > Len(s.work) THEN s
  ELSE WorkQueue(i + 1, FoldLeft(TryOrphan, s,
                          SetToSeq(mapOrphanTransactionsByPrev[s.work[i]])))

(* Mutant: erased from the entry of one input only. *)
ErasedFromOne(E) ==
  [t \in T |-> mapOrphanTransactionsByPrev[t] \
                 {o \in E \cap mapOrphanTransactions : t = CHOOSE x \in Prev[o] : TRUE}]

(* mapOrphanTransactionsByPrev after EraseOrphanTx of the transactions of E;
   {} stands for no entry and for an empty one *)
ErasedByPrev(E) ==
  [t \in T |-> mapOrphanTransactionsByPrev[t] \
                 {o \in E \cap mapOrphanTransactions : t \in Prev[o]}]

(* LimitOrphanTxSize: what may be left of O *)
Kept(O) == {K \in SUBSET O : Cardinality(K) = IF Cardinality(O) <= MAX_ORPHAN_TRANSACTIONS
                               THEN Cardinality(O) ELSE MAX_ORPHAN_TRANSACTIONS}

(* An accepted transaction is relayed with the orphans it completes.  The
   wallets, which SyncWithWallets tells of tx, are left out. *)
TxAccepted(p, t) ==
  LET s == WorkQueue(1, [work |-> <<t>>, pool |-> pool \cup {t}, erase |-> {t}])
  IN  /\ Accepts(t, pool)
      /\ pool' = s.pool
      /\ mapAlreadyAskedFor' = [x \in T |-> IF x \in ToSet(s.work) THEN NULL
                                            ELSE mapAlreadyAskedFor[x]]
      /\ mapOrphanTransactions' = mapOrphanTransactions \ s.erase
      /\ mapOrphanTransactionsByPrev' = ErasedByPrev(s.erase)
      /\ RelayTransactions(s.work, set')
      /\ UNCHANGED <<chain, mapAskFor, vInvWait, sending>>

(* AddOrphanTx and LimitOrphanTxSize *)
TxOrphan(p, t) ==
  LET O == IF t \in Large THEN mapOrphanTransactions ELSE mapOrphanTransactions \cup {t}
  IN  /\ Missing(t, pool)
      /\ mapOrphanTransactions' \in Kept(O)
      /\ mapOrphanTransactionsByPrev' =
           [x \in T |-> {o \in mapOrphanTransactions' :
                           \/ o \in mapOrphanTransactionsByPrev[x]
                           \/ o = t /\ o \notin mapOrphanTransactions /\ x \in Prev[o]}]
      /\ UNCHANGED <<pool, chain, asking, copies, outgoing>>

TxRefused(p, t) ==
  /\ ~Accepts(t, pool) /\ ~Missing(t, pool)
  /\ UNCHANGED <<pool, chain, orphans, asking, copies, outgoing>>

tx(p, t) ==
  /\ Idle
  /\ AddInventoryKnown(p, t)
  /\ TxAccepted(p, t) \/ TxOrphan(p, t) \/ TxRefused(p, t)
  /\ UNCHANGED <<now, repeated, unasked>>

-----------------------------------------------------------------------------
(* Transactions that do not come by a tx message *)

(* CommitTransaction of the wallet: added to the wallet and the pool, relayed *)
CommitTransaction(t) ==
  /\ Idle /\ Accepts(t, pool)
  /\ pool' = pool \cup {t}
  /\ unasked' = unasked \cup {t}
  /\ RelayTransactions(<<t>>, set)
  /\ UNCHANGED <<known, chain, orphans, asking, vInvWait, sending, now, told, repeated>>

(* A block with t is connected *)
ConnectBlock(t) ==
  /\ Idle /\ t \notin chain /\ Prev[t] \subseteq chain
  /\ chain' = chain \cup {t} /\ pool' = pool \ {t}
  /\ unasked' = IF t \in pool THEN unasked ELSE unasked \cup {t}
  /\ UNCHANGED <<known, orphans, asking, copies, outgoing, now, told, repeated>>

Tick ==
  /\ Idle /\ now < MaxTime
  /\ now' = now + 1
  /\ UNCHANGED <<known, pool, chain, orphans, asking, copies, outgoing,
                 told, repeated, unasked>>

-----------------------------------------------------------------------------
(* SendMessages *)

Due(p) == {e \in mapAskFor[p] : e[1] <= now}

(* getdata for what is due and still wanted *)
SendGetdata(p) ==
  LET wanted == {e[2] : e \in {d \in Due(p) : ~AlreadyHave(d[2])}}
  IN  /\ mapAlreadyAskedFor' = [t \in T |-> IF t \in wanted THEN now ELSE mapAlreadyAskedFor[t]]
      /\ mapAskFor' = [mapAskFor EXCEPT ![p] = @ \ Due(p)]

(* To a peer other than pto *)
SendToOther(p) ==
  /\ Idle /\ p # pto /\ Due(p) # {}
  /\ SendGetdata(p)
  /\ UNCHANGED <<known, pool, chain, orphans, copies, outgoing, now,
                 told, repeated, unasked>>

(* To pto; ResendWalletTransactions may relay the wallet's transactions again,
   at random times and up to MaxRelays entries.  A call without anything to
   send changes nothing and is left out. *)
SendMessages(fSendTrickle, resend) ==
  /\ Idle
  /\ sending' = fSendTrickle
  /\ IF resend
     THEN /\ Own \cap pool # {} /\ Len(vRelayExpiration) < MaxRelays
          /\ RelayTransactions(SetToSeq(Own \cap pool), set)
     ELSE /\ vInventoryToSend # <<>> \/ Due(pto) # {}
          /\ UNCHANGED <<copies, vInventoryToSend>>
  /\ UNCHANGED <<known, pool, chain, orphans, asking, vInvWait, now,
                 told, repeated, unasked>>

(* Mutant: the wallet's own transactions wait even when it is pto's turn. *)
WaitsForEver(t) == (~sending /\ t \notin Fast) \/ t \in Own

(* Transactions wait for their turn to trickle, unless they are in the lucky
   quarter and not the wallet's own *)
Waits(t) == ~sending /\ (t \notin Fast \/ t \in Own)

(* Mutant: announced whether the peer is known to have it or not. *)
AnnounceBlind ==
  \E t \in {Head(vInventoryToSend)} :
    /\ ~Waits(t)
    /\ InsertNew(t) \/ InsertKnown(t)
    /\ told' = told \cup {t} /\ repeated' = (repeated \/ t \in told)
    /\ UNCHANGED vInvWait

(* One item of vInventoryToSend: known, put off, or announced *)
Announce ==
  \E t \in {Head(vInventoryToSend)} :
    \/ t \in set /\ UNCHANGED <<known, vInvWait, told, repeated>>
    \/ /\ t \notin set /\ Waits(t)
       /\ vInvWait' = Append(vInvWait, t)
       /\ UNCHANGED <<known, told, repeated>>
    \/ /\ t \notin set /\ ~Waits(t)
       /\ InsertNew(t)
       /\ told' = told \cup {t} /\ repeated' = (repeated \/ t \in told)
       /\ UNCHANGED vInvWait

SendInventory ==
  /\ ~Idle /\ vInventoryToSend # <<>>
  /\ Announce
  /\ vInventoryToSend' = Tail(vInventoryToSend)
  /\ UNCHANGED <<pool, chain, orphans, asking, copies, sending, now, unasked>>

(* Mutant: what was put off is forgotten. *)
StillToSendNothing == <<>>

StillToSend == vInvWait

Sent ==
  /\ ~Idle /\ vInventoryToSend = <<>>
  /\ vInventoryToSend' = StillToSend /\ vInvWait' = <<>> /\ sending' = NULL
  /\ SendGetdata(pto)
  /\ UNCHANGED <<known, pool, chain, orphans, copies, now, told, repeated, unasked>>

-----------------------------------------------------------------------------

RNext ==
  \/ \E m \in Announces : inv(m[1], m[2])
  \/ \E m \in Sends : tx(m[1], m[2])
  \/ \E t \in Own : CommitTransaction(t)
  \/ \E t \in Mined : ConnectBlock(t)
  \/ \E p \in Peer : SendToOther(p)
  \/ \E trickle, resend \in BOOLEAN : SendMessages(trickle, resend)
  \/ SendInventory \/ Sent \/ Tick

RSpec == RInit /\ [][RNext]_rvars

(* The message handler goes round for ever, the clock runs, and pto is chosen
   for trickling again and again, with probability one: strong fairness. *)
RFairSpec ==
  /\ RSpec
  /\ WF_rvars(Tick) /\ WF_rvars(SendInventory) /\ WF_rvars(Sent)
  /\ SF_rvars(SendMessages(TRUE, FALSE))
  /\ \A p \in Peer : SF_rvars(SendToOther(p))

RTypeOK ==
  /\ TypeOK
  /\ pool \cup chain \cup mapOrphanTransactions \cup mapRelay \subseteq T
  /\ mapOrphanTransactionsByPrev \in [T -> SUBSET T]
  /\ mapAskFor \in [Peer -> SUBSET ((0..MaxTime) \X T)]
  /\ mapAlreadyAskedFor \in [T -> (0..MaxTime) \cup {NULL}]
  /\ vRelayExpiration \in Seq(Nat \X T)
  /\ vInventoryToSend \in Seq(T) /\ vInvWait \in Seq(T)
  /\ sending \in BOOLEAN \cup {NULL} /\ now \in 0..MaxTime
  /\ told \subseteq T /\ repeated \in BOOLEAN /\ unasked \subseteq T

-----------------------------------------------------------------------------
(* The two maps of orphan transactions agree, and their number is limited,
   whatever is accepted, refused or evicted in between. *)
OrphanTxMapsAgree ==
  /\ \A t, o \in T : o \in mapOrphanTransactionsByPrev[t]
                       <=> o \in mapOrphanTransactions /\ t \in Prev[o]
  /\ Cardinality(mapOrphanTransactions) <= MAX_ORPHAN_TRANSACTIONS

(* An orphan waits for something: one of its inputs is still unknown, or came
   by a block or from the wallet, where nobody looks at the orphans.  A tx
   message takes up every orphan it completes, however long the chain. *)
OrphanTxWait ==
  \A o \in mapOrphanTransactions :
    \/ ~(Prev[o] \subseteq pool \cup chain)
    \/ Prev[o] \cap unasked # {}

(* A wanted transaction that somebody announced is asked for within Retry: the
   times of its requests have no larger gap, whatever is asked, answered or
   evicted in between. *)
RetryDue ==
  \A t \in T : LET times == {e[1] : e \in {e \in UNION {mapAskFor[p] : p \in Peer} : e[2] = t}}
               IN  times # {} => \E n \in times : n <= now + Retry

(* What was relayed in the last fifteen minutes is kept for peers that ask,
   even after it was mined.  The wallet's own transactions may be relayed again
   and still expire with the first time; a peer then gets them from the pool,
   and no longer once they are mined. *)
RelayedServed ==
  \A i \in 1..Len(vRelayExpiration) :
    vRelayExpiration[i][1] >= now =>
      vRelayExpiration[i][2] \in mapRelay \cup (Own \cap (pool \cup chain))

(* pto is told nothing twice, nor what it has told, until more items than its
   set remembers have passed. *)
ToldOnce == repeated => nMaxSize # 0 /\ Cardinality(told) > nMaxSize

(* What pto should be told is not lost: a transaction of the pool was told, or
   waits for the next call or for its turn to trickle. *)
PoolQueued == pool \subseteq told \cup ToSet(vInventoryToSend) \cup ToSet(vInvWait)

(* The wallet's own transactions, which always wait to trickle, reach pto. *)
OwnAnnounced == \A t \in Own : (t \in pool) ~> (t \in told)
=============================================================================
