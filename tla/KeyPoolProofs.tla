---------------------------- MODULE KeyPoolProofs ----------------------------
(***************************************************************************)
(* The keys of a wallet, for any number of keys, positions and restarts: no  *)
(* key is handed out twice, none that was handed out is missing from the     *)
(* file, and the file can always be loaded.                                  *)
(***************************************************************************)
EXTENDS KeyPool, TLAPS

\* A key is at one position of the pool, and is not there once it was handed out.
PoolUnique ==
    /\ \A i, j \in Index : pool[i] # NULL /\ pool[i] = pool[j] => i = j
    /\ \A i \in Index : pool[i] \notin given

\* The key that the present call has made or taken is its own, and while it is reserved it
\* keeps its record.
CurrentOwned ==
    /\ pc \in {"write", "rewrite", "commit"} =>
         /\ current \in (key \cup ckey) \ given
         /\ \A i \in Index : pool[i] # current
    /\ pc \in {"keep", "reserved"} =>
         /\ position \in Index \ setKeyPool /\ current \in Key
         /\ pool[position] = current

\* Every record of the pool is accounted for in memory.
RecordsKnown ==
    \A i \in Index : pool[i] # NULL =>
        i \in setKeyPool \/ (pc \in {"keep", "reserved"} /\ i = position)

\* Encrypted or not, in memory as on disk
CryptoAgrees ==
    /\ fUseCrypto => ckey # {} /\ key = {} /\ mkey = 1
    /\ ~fUseCrypto => ckey = {} /\ mkey = 0 /\ late = {}
    /\ pc \in {"erase", "renew", "rewrite"} => fUseCrypto
    /\ plain \subseteq key \cup ckey

\* What encryption leaves of the keys that were in plain: nothing, once the old records
\* are erased, unless it was interrupted.
PlainGone ==
    /\ ~interrupted => late = {}
    /\ ~interrupted /\ fUseCrypto =>
         /\ pc # "erase" => \A i \in Index : pool[i] \notin plain
         /\ pc \in {"write", "rewrite"} => current \notin plain

\* The inductive invariant
Inv ==
    /\ TypeOK
    /\ KeyGivenOnce /\ GivenStored /\ PoolKeysStored /\ PoolReadable
    /\ PoolUnique
    /\ CurrentOwned
    /\ RecordsKnown
    /\ CryptoAgrees
    /\ PlainGone

-----------------------------------------------------------------------------
(* Every action preserves the invariant *)

USE KeyPoolAssumption DEF disk, crypto, call, history, Return, IsLocked

\* TopUpKeyPool, GetKeyFromPool and GetReservedKey are entered.
LEMMA BeginStep ==
  ASSUME Inv, NEW o \in {"topup", "address", "change", "coinbase"}, Begin(o)
  PROVE  Inv'
<1> USE DEF Inv, Begin
<1>1. TypeOK'
  BY DEF TypeOK
<1>2. (KeyGivenOnce /\ GivenStored)'
  BY DEF KeyGivenOnce, GivenStored, TypeOK
<1>3. (PoolKeysStored /\ PoolReadable)'
  BY DEF PoolKeysStored, PoolReadable, TypeOK
<1>4. PoolUnique'
  BY DEF PoolUnique, TypeOK
<1>5. CurrentOwned'
  BY DEF CurrentOwned, TypeOK
<1>6. RecordsKnown'
  BY DEF RecordsKnown, TypeOK
<1>7. CryptoAgrees'
  BY DEF CryptoAgrees, TypeOK
<1>8. PlainGone'
  BY DEF PlainGone, TypeOK
<1> QED  BY <1>1, <1>2, <1>3, <1>4, <1>5, <1>6, <1>7, <1>8

\* The pool is full.
LEMMA FilledStep ==
  ASSUME Inv, Filled
  PROVE  Inv'
<1> USE DEF Inv, Filled
<1>1. TypeOK'
  BY DEF TypeOK
<1>2. (KeyGivenOnce /\ GivenStored)'
  BY DEF KeyGivenOnce, GivenStored, TypeOK
<1>3. (PoolKeysStored /\ PoolReadable)'
  BY DEF PoolKeysStored, PoolReadable, TypeOK
<1>4. PoolUnique'
  BY DEF PoolUnique, TypeOK
<1>5. CurrentOwned'
  BY DEF CurrentOwned, TypeOK
<1>6. RecordsKnown'
  BY DEF RecordsKnown, TypeOK
<1>7. CryptoAgrees'
  BY DEF CryptoAgrees, TypeOK
<1>8. PlainGone'
  BY DEF PlainGone, TypeOK
<1> QED  BY <1>1, <1>2, <1>3, <1>4, <1>5, <1>6, <1>7, <1>8

\* A new key is written to the file before it is used.
LEMMA GenerateStep ==
  ASSUME Inv, Generate
  PROVE  Inv'
<1> USE DEF Inv, Generate, GenerateNewKey, StoreNewKey, Fresh
<1>1. TypeOK'
  BY DEF TypeOK
<1>2. (KeyGivenOnce /\ GivenStored)'
  BY DEF KeyGivenOnce, GivenStored, TypeOK
<1>3. (PoolKeysStored /\ PoolReadable)'
  BY DEF PoolKeysStored, PoolReadable, TypeOK
<1>4. PoolUnique'
  BY DEF PoolUnique, TypeOK
<1>5. CurrentOwned'
  BY DEF GivenStored, PoolKeysStored, CurrentOwned, TypeOK
<1>6. RecordsKnown'
  BY DEF RecordsKnown, TypeOK
<1>7. CryptoAgrees'
  BY DEF CryptoAgrees, TypeOK
<1>8. PlainGone'
  BY DEF CryptoAgrees, PlainGone, TypeOK
<1> QED  BY <1>1, <1>2, <1>3, <1>4, <1>5, <1>6, <1>7, <1>8

\* The wallet is locked, no key is made.
LEMMA GenerateThrowsStep ==
  ASSUME Inv, GenerateThrows
  PROVE  Inv'
<1> USE DEF Inv, GenerateThrows
<1>1. TypeOK'
  BY DEF TypeOK
<1>2. (KeyGivenOnce /\ GivenStored)'
  BY DEF KeyGivenOnce, GivenStored, TypeOK
<1>3. (PoolKeysStored /\ PoolReadable)'
  BY DEF PoolKeysStored, PoolReadable, TypeOK
<1>4. PoolUnique'
  BY DEF PoolUnique, TypeOK
<1>5. CurrentOwned'
  BY DEF CurrentOwned, TypeOK
<1>6. RecordsKnown'
  BY DEF RecordsKnown, TypeOK
<1>7. CryptoAgrees'
  BY DEF CryptoAgrees, TypeOK
<1>8. PlainGone'
  BY DEF PlainGone, TypeOK
<1> QED  BY <1>1, <1>2, <1>3, <1>4, <1>5, <1>6, <1>7, <1>8

\* The new key gets its record in the pool.
LEMMA WriteStep ==
  ASSUME Inv, Write
  PROVE  Inv'
<1> USE DEF Inv, Write, WritePool
<1>1. TypeOK'
  BY DEF TypeOK
<1>2. (KeyGivenOnce /\ GivenStored)'
  BY DEF KeyGivenOnce, GivenStored, TypeOK
<1>3. (PoolKeysStored /\ PoolReadable)'
  BY DEF PoolKeysStored, PoolReadable, CurrentOwned, TypeOK
<1>4. PoolUnique'
  BY DEF PoolUnique, CurrentOwned, TypeOK
<1>5. CurrentOwned'
  BY DEF CurrentOwned, TypeOK
<1>6. RecordsKnown'
  BY DEF RecordsKnown, TypeOK
<1>7. CryptoAgrees'
  BY DEF CryptoAgrees, TypeOK
<1>8. PlainGone'
  BY DEF PlainGone, TypeOK
<1> QED  BY <1>1, <1>2, <1>3, <1>4, <1>5, <1>6, <1>7, <1>8

\* The oldest position is taken out of setKeyPool.
LEMMA TakeStep ==
  ASSUME Inv, NEW p \in Index, Take(p)
  PROVE  Inv'
<1> USE DEF Inv, Take, IsOldest, PoolWithout
<1>1. TypeOK'
  BY DEF TypeOK
<1>2. (KeyGivenOnce /\ GivenStored)'
  BY DEF KeyGivenOnce, GivenStored, TypeOK
<1>3. (PoolKeysStored /\ PoolReadable)'
  BY DEF PoolKeysStored, PoolReadable, TypeOK
<1>4. PoolUnique'
  BY DEF PoolUnique, TypeOK
<1>5. CurrentOwned'
  BY DEF CurrentOwned, TypeOK
<1>6. RecordsKnown'
  BY DEF PoolKeysStored, RecordsKnown, TypeOK
<1>7. CryptoAgrees'
  BY DEF CryptoAgrees, TypeOK
<1>8. PlainGone'
  BY DEF PlainGone, TypeOK
<1> QED  BY <1>1, <1>2, <1>3, <1>4, <1>5, <1>6, <1>7, <1>8

\* The pool is empty.
LEMMA TakeNothingStep ==
  ASSUME Inv, TakeNothing
  PROVE  Inv'
<1> USE DEF Inv, TakeNothing
<1>1. TypeOK'
  BY DEF TypeOK
<1>2. (KeyGivenOnce /\ GivenStored)'
  BY DEF KeyGivenOnce, GivenStored, TypeOK
<1>3. (PoolKeysStored /\ PoolReadable)'
  BY DEF PoolKeysStored, PoolReadable, TypeOK
<1>4. PoolUnique'
  BY DEF PoolUnique, TypeOK
<1>5. CurrentOwned'
  BY DEF CurrentOwned, TypeOK
<1>6. RecordsKnown'
  BY DEF RecordsKnown, TypeOK
<1>7. CryptoAgrees'
  BY DEF CryptoAgrees, TypeOK
<1>8. PlainGone'
  BY DEF PlainGone, TypeOK
<1> QED  BY <1>1, <1>2, <1>3, <1>4, <1>5, <1>6, <1>7, <1>8

\* The record is erased and the key handed out.
LEMMA KeepStep ==
  ASSUME Inv, Keep
  PROVE  Inv'
<1> USE DEF Inv, Keep, KeepKey, Give
<1>1. TypeOK'
  BY DEF CurrentOwned, TypeOK
<1>2. (KeyGivenOnce /\ GivenStored)'
  BY DEF KeyGivenOnce, GivenStored, PoolKeysStored, PoolUnique, CurrentOwned, TypeOK
<1>3. (PoolKeysStored /\ PoolReadable)'
  BY DEF PoolKeysStored, PoolReadable, CurrentOwned, TypeOK
<1>4. PoolUnique'
  BY DEF PoolUnique, CurrentOwned, TypeOK
<1>5. CurrentOwned'
  BY DEF CurrentOwned, TypeOK
<1>6. RecordsKnown'
  BY DEF RecordsKnown, TypeOK
<1>7. CryptoAgrees'
  BY DEF CryptoAgrees, TypeOK
<1>8. PlainGone'
  BY DEF PlainGone, TypeOK
<1> QED  BY <1>1, <1>2, <1>3, <1>4, <1>5, <1>6, <1>7, <1>8

\* The record of the reserved key is erased.
LEMMA CommitTransactionStep ==
  ASSUME Inv, CommitTransaction
  PROVE  Inv'
<1> USE DEF Inv, CommitTransaction, KeepKey
<1>1. TypeOK'
  BY DEF TypeOK
<1>2. (KeyGivenOnce /\ GivenStored)'
  BY DEF KeyGivenOnce, GivenStored, TypeOK
<1>3. (PoolKeysStored /\ PoolReadable)'
  BY DEF PoolKeysStored, PoolReadable, CurrentOwned, TypeOK
<1>4. PoolUnique'
  BY DEF PoolUnique, CurrentOwned, TypeOK
<1>5. CurrentOwned'
  BY DEF PoolKeysStored, PoolUnique, CurrentOwned, TypeOK
<1>6. RecordsKnown'
  BY DEF RecordsKnown, TypeOK
<1>7. CryptoAgrees'
  BY DEF CryptoAgrees, TypeOK
<1>8. PlainGone'
  BY DEF PlainGone, TypeOK
<1> QED  BY <1>1, <1>2, <1>3, <1>4, <1>5, <1>6, <1>7, <1>8

\* The change output, and with it the key, becomes public.
LEMMA BroadcastStep ==
  ASSUME Inv, Broadcast
  PROVE  Inv'
<1> USE DEF Inv, Broadcast, Give
<1>1. TypeOK'
  BY DEF CurrentOwned, TypeOK
<1>2. (KeyGivenOnce /\ GivenStored)'
  BY DEF KeyGivenOnce, GivenStored, CurrentOwned, TypeOK
<1>3. (PoolKeysStored /\ PoolReadable)'
  BY DEF PoolKeysStored, PoolReadable, TypeOK
<1>4. PoolUnique'
  BY DEF PoolUnique, CurrentOwned, TypeOK
<1>5. CurrentOwned'
  BY DEF CurrentOwned, TypeOK
<1>6. RecordsKnown'
  BY DEF CurrentOwned, RecordsKnown, TypeOK
<1>7. CryptoAgrees'
  BY DEF CryptoAgrees, TypeOK
<1>8. PlainGone'
  BY DEF PlainGone, TypeOK
<1> QED  BY <1>1, <1>2, <1>3, <1>4, <1>5, <1>6, <1>7, <1>8

\* The reserved position goes back to setKeyPool.
LEMMA ReturnKeyStep ==
  ASSUME Inv, ReturnKey
  PROVE  Inv'
<1> USE DEF Inv, ReturnKey
<1>1. TypeOK'
  BY DEF CurrentOwned, TypeOK
<1>2. (KeyGivenOnce /\ GivenStored)'
  BY DEF KeyGivenOnce, GivenStored, TypeOK
<1>3. (PoolKeysStored /\ PoolReadable)'
  BY DEF PoolKeysStored, PoolReadable, CurrentOwned, TypeOK
<1>4. PoolUnique'
  BY DEF PoolUnique, TypeOK
<1>5. CurrentOwned'
  BY DEF CurrentOwned, TypeOK
<1>6. RecordsKnown'
  BY DEF RecordsKnown, TypeOK
<1>7. CryptoAgrees'
  BY DEF CryptoAgrees, TypeOK
<1>8. PlainGone'
  BY DEF PlainGone, TypeOK
<1> QED  BY <1>1, <1>2, <1>3, <1>4, <1>5, <1>6, <1>7, <1>8

\* Lock has passed its test.
LEMMA LockStep ==
  ASSUME Inv, Lock
  PROVE  Inv'
<1> USE DEF Inv, Lock
<1>1. TypeOK'
  BY DEF TypeOK
<1>2. (KeyGivenOnce /\ GivenStored)'
  BY DEF KeyGivenOnce, GivenStored, TypeOK
<1>3. (PoolKeysStored /\ PoolReadable)'
  BY DEF PoolKeysStored, PoolReadable, TypeOK
<1>4. PoolUnique'
  BY DEF PoolUnique, TypeOK
<1>5. CurrentOwned'
  BY DEF CurrentOwned, TypeOK
<1>6. RecordsKnown'
  BY DEF RecordsKnown, TypeOK
<1>7. CryptoAgrees'
  BY DEF CryptoAgrees, TypeOK
<1>8. PlainGone'
  BY DEF PlainGone, TypeOK
<1> QED  BY <1>1, <1>2, <1>3, <1>4, <1>5, <1>6, <1>7, <1>8

\* The master key leaves memory.
LEMMA LockKeyStoreStep ==
  ASSUME Inv, LockKeyStore
  PROVE  Inv'
<1> USE DEF Inv, LockKeyStore
<1>1. TypeOK'
  BY DEF TypeOK
<1>2. (KeyGivenOnce /\ GivenStored)'
  BY DEF KeyGivenOnce, GivenStored, TypeOK
<1>3. (PoolKeysStored /\ PoolReadable)'
  BY DEF PoolKeysStored, PoolReadable, TypeOK
<1>4. PoolUnique'
  BY DEF PoolUnique, TypeOK
<1>5. CurrentOwned'
  BY DEF CurrentOwned, TypeOK
<1>6. RecordsKnown'
  BY DEF RecordsKnown, TypeOK
<1>7. CryptoAgrees'
  BY DEF CryptoAgrees, TypeOK
<1>8. PlainGone'
  BY DEF PlainGone, TypeOK
<1> QED  BY <1>1, <1>2, <1>3, <1>4, <1>5, <1>6, <1>7, <1>8

\* The master key is back in memory.
LEMMA UnlockStep ==
  ASSUME Inv, Unlock
  PROVE  Inv'
<1> USE DEF Inv, Unlock
<1>1. TypeOK'
  BY DEF TypeOK
<1>2. (KeyGivenOnce /\ GivenStored)'
  BY DEF KeyGivenOnce, GivenStored, TypeOK
<1>3. (PoolKeysStored /\ PoolReadable)'
  BY DEF PoolKeysStored, PoolReadable, TypeOK
<1>4. PoolUnique'
  BY DEF PoolUnique, TypeOK
<1>5. CurrentOwned'
  BY DEF CurrentOwned, TypeOK
<1>6. RecordsKnown'
  BY DEF RecordsKnown, TypeOK
<1>7. CryptoAgrees'
  BY DEF CryptoAgrees, TypeOK
<1>8. PlainGone'
  BY DEF PlainGone, TypeOK
<1> QED  BY <1>1, <1>2, <1>3, <1>4, <1>5, <1>6, <1>7, <1>8

\* The master key is encrypted anew.
LEMMA ChangeWalletPassphraseStep ==
  ASSUME Inv, ChangeWalletPassphrase
  PROVE  Inv'
<1> USE DEF Inv, ChangeWalletPassphrase
<1>1. TypeOK'
  BY DEF TypeOK
<1>2. (KeyGivenOnce /\ GivenStored)'
  BY DEF KeyGivenOnce, GivenStored, TypeOK
<1>3. (PoolKeysStored /\ PoolReadable)'
  BY DEF PoolKeysStored, PoolReadable, TypeOK
<1>4. PoolUnique'
  BY DEF PoolUnique, TypeOK
<1>5. CurrentOwned'
  BY DEF CurrentOwned, TypeOK
<1>6. RecordsKnown'
  BY DEF RecordsKnown, TypeOK
<1>7. CryptoAgrees'
  BY DEF CryptoAgrees, TypeOK
<1>8. PlainGone'
  BY DEF PlainGone, TypeOK
<1> QED  BY <1>1, <1>2, <1>3, <1>4, <1>5, <1>6, <1>7, <1>8

\* The keys are encrypted, in one transaction of the database.
LEMMA EncryptWalletStep ==
  ASSUME Inv, EncryptWallet
  PROVE  Inv'
<1> USE DEF Inv, EncryptWallet, Encrypted, PlainRecordsLeft
<1>1. TypeOK'
  BY DEF TypeOK
<1>2. (KeyGivenOnce /\ GivenStored)'
  BY DEF KeyGivenOnce, GivenStored, TypeOK
<1>3. (PoolKeysStored /\ PoolReadable)'
  BY DEF PoolKeysStored, PoolReadable, TypeOK
<1>4. PoolUnique'
  BY DEF PoolUnique, TypeOK
<1>5. CurrentOwned'
  BY DEF CurrentOwned, TypeOK
<1>6. RecordsKnown'
  BY DEF RecordsKnown, TypeOK
<1>7. CryptoAgrees'
  BY DEF CryptoAgrees, TypeOK
<1>8. PlainGone'
  BY DEF PlainGone, TypeOK
<1> QED  BY <1>1, <1>2, <1>3, <1>4, <1>5, <1>6, <1>7, <1>8

\* NewKeyPool erases a record.
LEMMA ErasePoolStep ==
  ASSUME Inv, NEW p \in Index, ErasePool(p)
  PROVE  Inv'
<1> USE DEF Inv, ErasePool, IsOldest, ErasedPool
<1>1. TypeOK'
  BY DEF TypeOK
<1>2. (KeyGivenOnce /\ GivenStored)'
  BY DEF KeyGivenOnce, GivenStored, TypeOK
<1>3. (PoolKeysStored /\ PoolReadable)'
  BY DEF PoolKeysStored, PoolReadable, TypeOK
<1>4. PoolUnique'
  BY DEF PoolUnique, TypeOK
<1>5. CurrentOwned'
  BY DEF CurrentOwned, TypeOK
<1>6. RecordsKnown'
  BY DEF RecordsKnown, TypeOK
<1>7. CryptoAgrees'
  BY DEF CryptoAgrees, TypeOK
<1>8. PlainGone'
  BY DEF PlainGone, TypeOK
<1> QED  BY <1>1, <1>2, <1>3, <1>4, <1>5, <1>6, <1>7, <1>8

\* NewKeyPool has erased all records.
LEMMA ErasedStep ==
  ASSUME Inv, Erased
  PROVE  Inv'
<1> USE DEF Inv, Erased
<1>1. TypeOK'
  BY DEF TypeOK
<1>2. (KeyGivenOnce /\ GivenStored)'
  BY DEF KeyGivenOnce, GivenStored, TypeOK
<1>3. (PoolKeysStored /\ PoolReadable)'
  BY DEF PoolKeysStored, PoolReadable, TypeOK
<1>4. PoolUnique'
  BY DEF PoolUnique, TypeOK
<1>5. CurrentOwned'
  BY DEF CurrentOwned, TypeOK
<1>6. RecordsKnown'
  BY DEF RecordsKnown, TypeOK
<1>7. CryptoAgrees'
  BY DEF CryptoAgrees, TypeOK
<1>8. PlainGone'
  BY DEF RecordsKnown, PlainGone, TypeOK
<1> QED  BY <1>1, <1>2, <1>3, <1>4, <1>5, <1>6, <1>7, <1>8

\* NewKeyPool makes a key.
LEMMA RenewStep ==
  ASSUME Inv, Renew
  PROVE  Inv'
<1> USE DEF Inv, Renew, GenerateNewKey, StoreNewKey, Fresh
<1>1. TypeOK'
  BY DEF TypeOK
<1>2. (KeyGivenOnce /\ GivenStored)'
  BY DEF KeyGivenOnce, GivenStored, TypeOK
<1>3. (PoolKeysStored /\ PoolReadable)'
  BY DEF PoolKeysStored, PoolReadable, TypeOK
<1>4. PoolUnique'
  BY DEF PoolUnique, TypeOK
<1>5. CurrentOwned'
  BY DEF GivenStored, PoolKeysStored, CurrentOwned, TypeOK
<1>6. RecordsKnown'
  BY DEF RecordsKnown, TypeOK
<1>7. CryptoAgrees'
  BY DEF CryptoAgrees, TypeOK
<1>8. PlainGone'
  BY DEF CryptoAgrees, PlainGone, TypeOK
<1> QED  BY <1>1, <1>2, <1>3, <1>4, <1>5, <1>6, <1>7, <1>8

\* NewKeyPool writes its record.
LEMMA RewriteStep ==
  ASSUME Inv, Rewrite
  PROVE  Inv'
<1> USE DEF Inv, Rewrite, WritePool
<1>1. TypeOK'
  BY DEF TypeOK
<1>2. (KeyGivenOnce /\ GivenStored)'
  BY DEF KeyGivenOnce, GivenStored, TypeOK
<1>3. (PoolKeysStored /\ PoolReadable)'
  BY DEF PoolKeysStored, PoolReadable, CurrentOwned, TypeOK
<1>4. PoolUnique'
  BY DEF PoolUnique, CurrentOwned, TypeOK
<1>5. CurrentOwned'
  BY DEF CurrentOwned, TypeOK
<1>6. RecordsKnown'
  BY DEF RecordsKnown, TypeOK
<1>7. CryptoAgrees'
  BY DEF CryptoAgrees, TypeOK
<1>8. PlainGone'
  BY DEF PlainGone, TypeOK
<1> QED  BY <1>1, <1>2, <1>3, <1>4, <1>5, <1>6, <1>7, <1>8

\* NewKeyPool is done, the wallet is locked.
LEMMA RenewedStep ==
  ASSUME Inv, Renewed
  PROVE  Inv'
<1> USE DEF Inv, Renewed
<1>1. TypeOK'
  BY DEF TypeOK
<1>2. (KeyGivenOnce /\ GivenStored)'
  BY DEF KeyGivenOnce, GivenStored, TypeOK
<1>3. (PoolKeysStored /\ PoolReadable)'
  BY DEF PoolKeysStored, PoolReadable, TypeOK
<1>4. PoolUnique'
  BY DEF PoolUnique, TypeOK
<1>5. CurrentOwned'
  BY DEF CurrentOwned, TypeOK
<1>6. RecordsKnown'
  BY DEF RecordsKnown, TypeOK
<1>7. CryptoAgrees'
  BY DEF CryptoAgrees, TypeOK
<1>8. PlainGone'
  BY DEF PlainGone, TypeOK
<1> QED  BY <1>1, <1>2, <1>3, <1>4, <1>5, <1>6, <1>7, <1>8

\* The process ends and loads the file again.
LEMMA RestartStep ==
  ASSUME Inv, Restart
  PROVE  Inv'
<1> USE DEF Inv, Restart
<1>1. TypeOK'
  BY DEF TypeOK
<1>2. (KeyGivenOnce /\ GivenStored)'
  BY DEF KeyGivenOnce, GivenStored, TypeOK
<1>3. (PoolKeysStored /\ PoolReadable)'
  BY DEF PoolKeysStored, PoolReadable, TypeOK
<1>4. PoolUnique'
  BY DEF PoolUnique, TypeOK
<1>5. CurrentOwned'
  BY DEF CurrentOwned, TypeOK
<1>6. RecordsKnown'
  BY DEF RecordsKnown, TypeOK
<1>7. CryptoAgrees'
  BY DEF CryptoAgrees, TypeOK
<1>8. PlainGone'
  BY DEF CryptoAgrees, PlainGone, TypeOK
<1> QED  BY <1>1, <1>2, <1>3, <1>4, <1>5, <1>6, <1>7, <1>8

-----------------------------------------------------------------------------
(* The invariant and what follows from it *)

\* A new wallet satisfies the invariant.
LEMMA InitInv == Init => Inv
<1> SUFFICES ASSUME Init PROVE Inv
  OBVIOUS
<1> USE DEF Init
<1>1. TypeOK
  BY DEF TypeOK
<1>2. KeyGivenOnce /\ GivenStored /\ PoolKeysStored /\ PoolReadable
  BY DEF KeyGivenOnce, GivenStored, PoolKeysStored, PoolReadable
<1>3. PoolUnique /\ CurrentOwned
  BY DEF PoolUnique, CurrentOwned
<1>4. RecordsKnown /\ CryptoAgrees /\ PlainGone
  BY DEF RecordsKnown, CryptoAgrees, PlainGone
<1> QED  BY <1>1, <1>2, <1>3, <1>4 DEF Inv

\* Every step preserves it.
LEMMA NextInv == Inv /\ [Next]_vars => Inv'
<1> SUFFICES ASSUME Inv, [Next]_vars PROVE Inv'
  OBVIOUS
<1>1. CASE UNCHANGED vars
  BY <1>1 DEF vars, Inv, TypeOK, KeyGivenOnce, GivenStored, PoolKeysStored, PoolReadable, PoolUnique,
       CurrentOwned, RecordsKnown, CryptoAgrees, PlainGone
<1>2. CASE Next
  BY <1>2, BeginStep, FilledStep, GenerateStep, GenerateThrowsStep, WriteStep, TakeStep,
     TakeNothingStep, KeepStep, CommitTransactionStep, BroadcastStep, ReturnKeyStep, LockStep,
     LockKeyStoreStep, UnlockStep, ChangeWalletPassphraseStep, EncryptWalletStep, ErasePoolStep,
     ErasedStep, RenewStep, RewriteStep, RenewedStep, RestartStep DEF Next
<1> QED  BY <1>1, <1>2

\* The inductive invariant holds in every state of the wallet.
LEMMA SpecInv == Spec => []Inv
BY InitInv, NextInv, PTL DEF Spec

\* No key leaves the wallet twice, and every key that left it is in the file: whatever calls
\* are made, and wherever the process ends.
THEOREM KeysGivenOnceAndStored == Spec => []GivenOnceAndStored
<1>1. Inv => GivenOnceAndStored
  BY DEF Inv, GivenOnceAndStored
<1> QED  BY <1>1, SpecInv, PTL

\* A record of the pool names a key of the file, and what setKeyPool lists can be read.
THEOREM PoolAlwaysUsable == Spec => []PoolUsable
<1>1. Inv => PoolUsable
  BY DEF Inv, PoolUsable
<1> QED  BY <1>1, SpecInv, PTL

\* The file never holds both plain and encrypted keys, nor encrypted keys without a master key.
THEOREM WalletAlwaysLoads == Spec => []DiskLoads
<1>1. Inv => DiskLoads
  BY DEF Inv, TypeOK, CryptoAgrees, DiskLoads
<1> QED  BY <1>1, SpecInv, PTL

\* After encryption no key is handed out that had been in the file in plain, unless encryption
\* was interrupted.
THEOREM OldKeysRetired == Spec => []FreshAfterEncryption
<1>1. Inv => FreshAfterEncryption
  BY DEF Inv, PlainGone, FreshAfterEncryption
<1> QED  BY <1>1, SpecInv, PTL

=============================================================================
