------------------------------- MODULE TxDB ---------------------------------
(***************************************************************************)
(* CTxDB (txdb-leveldb.h, txdb-leveldb.cpp): handles on one LevelDB store.   *)
(* Each handle may have a transaction open, a batch of puts and deletes that *)
(* its own reads consult by scanning it.  A handle that has no transaction   *)
(* writes through.  A crash loses the batches and nothing else.              *)
(***************************************************************************)
EXTENDS Naturals, SequencesExt

CONSTANTS Handle, Key, Value, NULL,
          MaxBatch    \* bound: operations in a batch

VARIABLES disk,           \* [Key -> Value \cup {NULL}]
          activeBatch     \* [Handle -> sequence of operations, or NULL]

vars == <<disk, activeBatch>>

\* An operation of a batch; a delete has the value NULL.
Op(k, v) == [key |-> k, value |-> v]

-----------------------------------------------------------------------------
(* Reads *)

\* Mutant: a put after a delete leaves the deleted flag up.
ScanBatchDeletedSticks(batch, k) ==
    FoldLeft(LAMBDA acc, op :
                IF op.key # k THEN acc
                ELSE IF op.value = NULL THEN [acc EXCEPT !.found = TRUE, !.deleted = TRUE]
                ELSE [acc EXCEPT !.found = TRUE, !.value = op.value],
             [found |-> FALSE, deleted |-> FALSE, value |-> NULL], batch)

\* ScanBatch() with its CBatchScanner
ScanBatch(batch, k) ==
    FoldLeft(LAMBDA acc, op :
                IF op.key # k THEN acc
                ELSE IF op.value = NULL THEN [acc EXCEPT !.found = TRUE, !.deleted = TRUE]
                ELSE [found |-> TRUE, deleted |-> FALSE, value |-> op.value],
             [found |-> FALSE, deleted |-> FALSE, value |-> NULL], batch)

\* What Read() finds, NULL if it returns false
Read(h, k) ==
    IF activeBatch[h] = NULL THEN disk[k]
    ELSE LET s == ScanBatch(activeBatch[h], k)
         IN  IF s.deleted THEN NULL ELSE IF s.found THEN s.value ELSE disk[k]

\* Exists(): a key the batch deletes is looked for on disk.
Exists(h, k) ==
    \/ /\ activeBatch[h] # NULL
       /\ LET s == ScanBatch(activeBatch[h], k) IN s.found /\ ~s.deleted
    \/ disk[k] # NULL

-----------------------------------------------------------------------------
(* Operations *)

Init ==
    /\ disk = [k \in Key |-> NULL]
    /\ activeBatch = [h \in Handle |-> NULL]

TxnBegin(h) ==
    /\ activeBatch[h] = NULL
    /\ activeBatch' = [activeBatch EXCEPT ![h] = <<>>]
    /\ UNCHANGED disk

\* Write() and, with v = NULL, Erase()
Write(h, k, v) ==
    IF activeBatch[h] # NULL
    THEN /\ Len(activeBatch[h]) < MaxBatch
         /\ activeBatch' = [activeBatch EXCEPT ![h] = Append(@, Op(k, v))]
         /\ UNCHANGED disk
    ELSE /\ disk' = [disk EXCEPT ![k] = v]
         /\ UNCHANGED activeBatch

\* What LevelDB makes of a batch: the operations in order
Apply(d, batch) == FoldLeft(LAMBDA e, op : [e EXCEPT ![op.key] = op.value], d, batch)

\* TxnCommit(); the batch is gone whether the write succeeds or not.
TxnCommit(h) ==
    /\ activeBatch[h] # NULL
    /\ disk' \in {disk, Apply(disk, activeBatch[h])}
    /\ activeBatch' = [activeBatch EXCEPT ![h] = NULL]

TxnAbort(h) ==
    /\ activeBatch[h] # NULL
    /\ activeBatch' = [activeBatch EXCEPT ![h] = NULL]
    /\ UNCHANGED disk

Crash ==
    /\ activeBatch' = [h \in Handle |-> NULL]
    /\ UNCHANGED disk

Next ==
    \/ \E h \in Handle : TxnBegin(h) \/ TxnCommit(h) \/ TxnAbort(h)
    \/ \E h \in Handle, k \in Key, v \in Value \cup {NULL} : Write(h, k, v)
    \/ Crash

Spec == Init /\ [][Next]_vars

-----------------------------------------------------------------------------
(* Properties *)

\* "the rest of the code assumes that once a database transaction begins reads are
\* consistent with it" (txdb-leveldb.cpp): a handle reads what the store would hold if its
\* batch were committed now.
ReadsConsistent ==
    \A h \in Handle : activeBatch[h] # NULL =>
        \A k \in Key : Read(h, k) = Apply(disk, activeBatch[h])[k]

\* The same of Exists().
ExistsConsistent ==
    \A h \in Handle : activeBatch[h] # NULL =>
        \A k \in Key : Exists(h, k) <=> Apply(disk, activeBatch[h])[k] # NULL
=============================================================================
