----------------------------- MODULE WalletLock -----------------------------
(***************************************************************************)
(* How long the wallet stays unlocked (rpcwallet.cpp, wallet.cpp).          *)
(*                                                                         *)
(* walletpassphrase unlocks the wallet and starts a thread that locks it    *)
(* again; walletlock locks it at once; a passphrase change with the wrong   *)
(* passphrase and the window of the wallet lock it as well.  A command of   *)
(* the RPC server runs under cs_main and cs_wallet (CRPCTable::execute),    *)
(* which is one lock here: nothing in this module takes only one of them    *)
(* and keeps it.  Waiting commands hold nothing, so one command at a time   *)
(* stands for all RPC threads.                                              *)
(***************************************************************************)
EXTENDS Naturals

CONSTANTS Timer,       \* threads of ThreadCleanWalletPassphrase
          Timeout,     \* values of <timeout>, positive
          MaxTime,     \* bound of the clock
          NULL

VARIABLES cs_wallet, cs_nWalletUnlockTime,  \* holder of each lock, or NULL
          unlocked,                         \* vMasterKey is not empty
          nWalletUnlockTime, now,
          rpc, gui,                         \* where the command and the window are
          pc, wait                          \* of each timer: place, timeout or wake time

locks == <<cs_wallet, cs_nWalletUnlockTime>>
vars == <<locks, unlocked, nWalletUnlockTime, now, rpc, gui, pc, wait>>

TypeOK ==
  /\ cs_wallet \in {NULL, "rpc"}
  /\ cs_nWalletUnlockTime \in Timer \cup {NULL, "rpc"}
  /\ unlocked \in BOOLEAN
  /\ nWalletUnlockTime \in Nat /\ now \in 1..MaxTime
  /\ rpc \in {"idle", "called"} /\ gui \in {"idle", "checked"}
  /\ pc \in [Timer -> {"none", "started", "enter", "sleep", "lock", "done"}]
  /\ wait \in [Timer -> Nat]

Init ==
  /\ cs_wallet = NULL /\ cs_nWalletUnlockTime = NULL
  /\ unlocked = FALSE /\ nWalletUnlockTime = 0 /\ now = 1
  /\ rpc = "idle" /\ gui = "idle"
  /\ pc = [t \in Timer |-> "none"] /\ wait = [t \in Timer |-> 0]

(* GetTimeMillis *)
Tick ==
  /\ now < MaxTime
  /\ now' = now + 1
  /\ UNCHANGED <<locks, unlocked, nWalletUnlockTime, rpc, gui, pc, wait>>

-----------------------------------------------------------------------------
(* Commands of the RPC server *)

(* walletpassphrase with the right passphrase; refused while unlocked *)
walletpassphrase(t, n) ==
  /\ rpc = "idle" /\ cs_wallet = NULL
  /\ ~unlocked /\ pc[t] = "none"
  /\ unlocked' = TRUE
  /\ pc' = [pc EXCEPT ![t] = "started"]
  /\ wait' = [wait EXCEPT ![t] = n]
  /\ UNCHANGED <<locks, nWalletUnlockTime, now, rpc, gui>>

(* walletpassphrasechange: ChangeWalletPassphrase locks first, and a wrong
   old passphrase leaves the wallet locked; with the right one it ends as it was *)
walletpassphrasechange ==
  /\ rpc = "idle" /\ cs_wallet = NULL
  /\ unlocked' = FALSE
  /\ UNCHANGED <<locks, nWalletUnlockTime, now, rpc, gui, pc, wait>>

(* walletlock: execute takes cs_main and cs_wallet *)
walletlock ==
  /\ rpc = "idle" /\ cs_wallet = NULL
  /\ rpc' = "called" /\ cs_wallet' = "rpc"
  /\ UNCHANGED <<cs_nWalletUnlockTime, unlocked, nWalletUnlockTime, now, gui, pc, wait>>

(* and the command then cs_nWalletUnlockTime; Lock takes cs_wallet once more *)
WalletlockBody ==
  /\ rpc = "called" /\ cs_nWalletUnlockTime = NULL
  /\ unlocked' = FALSE /\ nWalletUnlockTime' = 0
  /\ rpc' = "idle" /\ cs_wallet' = NULL
  /\ UNCHANGED <<cs_nWalletUnlockTime, now, gui, pc, wait>>

-----------------------------------------------------------------------------
(* CWallet::Lock from the window: it returns if the wallet is locked, passes
   through cs_wallet, and clears the key without it *)

GuiLock ==
  /\ gui = "idle" /\ unlocked /\ cs_wallet = NULL
  /\ gui' = "checked"
  /\ UNCHANGED <<locks, unlocked, nWalletUnlockTime, now, rpc, pc, wait>>

GuiLockKeyStore ==
  /\ gui = "checked"
  /\ gui' = "idle" /\ unlocked' = FALSE
  /\ UNCHANGED <<locks, nWalletUnlockTime, now, rpc, pc, wait>>

-----------------------------------------------------------------------------
(* ThreadCleanWalletPassphrase *)

(* nMyWakeTime, before the lock is taken *)
Start(t) ==
  /\ pc[t] = "started"
  /\ pc' = [pc EXCEPT ![t] = "enter"]
  /\ wait' = [wait EXCEPT ![t] = now + @]
  /\ UNCHANGED <<locks, unlocked, nWalletUnlockTime, now, rpc, gui>>

(* The loop, entered with the lock held and nWalletUnlockTime = time *)
Loop(t, time) ==
  \/ /\ time = 0
     /\ pc' = [pc EXCEPT ![t] = "done"]
     /\ UNCHANGED <<cs_nWalletUnlockTime, nWalletUnlockTime, wait>>
  \/ /\ time > now
     /\ pc' = [pc EXCEPT ![t] = "sleep"]
     /\ wait' = [wait EXCEPT ![t] = time]
     /\ nWalletUnlockTime' = time
     /\ UNCHANGED cs_nWalletUnlockTime
  \/ /\ time # 0 /\ time <= now
     /\ pc' = [pc EXCEPT ![t] = "lock"]
     /\ cs_nWalletUnlockTime' = t /\ nWalletUnlockTime' = 0
     /\ UNCHANGED wait

(* The first thread to come owns the time; a later one may only put it off *)
Enter(t) ==
  /\ pc[t] = "enter" /\ cs_nWalletUnlockTime = NULL
  /\ \/ nWalletUnlockTime = 0 /\ Loop(t, wait[t])
     \/ /\ nWalletUnlockTime # 0
        /\ nWalletUnlockTime' = IF nWalletUnlockTime < wait[t] THEN wait[t] ELSE nWalletUnlockTime
        /\ pc' = [pc EXCEPT ![t] = "done"]
        /\ UNCHANGED <<cs_nWalletUnlockTime, wait>>
  /\ UNCHANGED <<cs_wallet, unlocked, now, rpc, gui>>

Wake(t) ==
  /\ pc[t] = "sleep" /\ wait[t] <= now /\ cs_nWalletUnlockTime = NULL
  /\ Loop(t, nWalletUnlockTime)
  /\ UNCHANGED <<cs_wallet, unlocked, now, rpc, gui>>

(* pwalletMain->Lock() with cs_nWalletUnlockTime held: it returns at once if
   the wallet is locked and waits for cs_wallet otherwise *)
LockAtTimeout(t) ==
  /\ pc[t] = "lock" /\ (unlocked => cs_wallet = NULL)
  /\ unlocked' = FALSE
  /\ pc' = [pc EXCEPT ![t] = "done"]
  /\ cs_nWalletUnlockTime' = NULL
  /\ UNCHANGED <<cs_wallet, nWalletUnlockTime, now, rpc, gui, wait>>

TimerStep(t) == Start(t) \/ Enter(t) \/ Wake(t) \/ LockAtTimeout(t)

Next ==
  \/ Tick \/ walletpassphrasechange \/ walletlock \/ WalletlockBody
  \/ GuiLock \/ GuiLockKeyStore
  \/ \E t \in Timer : TimerStep(t) \/ \E n \in Timeout : walletpassphrase(t, n)

Spec == Init /\ [][Next]_vars

(* Every thread that can go on does so, and the clock runs; nobody is made to
   issue a command.  cs_nWalletUnlockTime is contended, hence strong fairness
   for those who wait for it. *)
FairSpec ==
  /\ Spec
  /\ WF_vars(Tick) /\ WF_vars(GuiLockKeyStore)
  /\ SF_vars(WalletlockBody)
  /\ \A t \in Timer : SF_vars(TimerStep(t))

-----------------------------------------------------------------------------
(* "Removes the wallet encryption key from memory, locking the wallet": a call
   of walletlock ends with the wallet locked.  Not so: walletlock holds
   cs_wallet and waits for cs_nWalletUnlockTime while a timer that has run out
   holds cs_nWalletUnlockTime and waits for cs_wallet. *)
WalletlockLocks == (rpc = "called") ~> ~unlocked
=============================================================================
