------------------------- MODULE EditorTransactions -------------------------
(***************************************************************************)
(* The undo transactions that outlive a tool call or enclose several:      *)
(*                                                                         *)
(*   SageTransactionTools.cpp    begin_, commit_, rollback_transaction     *)
(*   SageMaterialGraphTools.cpp  mat.begin_transaction, mat.end_transaction*)
(*   SageBulkTools.cpp           bulk_modify with atomic:true              *)
(*                                                                         *)
(* All of them open and close levels of the one transactor of the editor.  *)
(* Handlers run on the game thread one at a time, but the operations of a  *)
(* bulk_modify are handlers too, these included. A single call that opens  *)
(* and closes its own FScopedTransaction leaves the levels as they were,   *)
(* and bulk_modify with atomic:false is a sequence of single calls.        *)
(***************************************************************************)
EXTENDS Integers, FiniteSets, SequencesExt

CONSTANTS
  Txs,        \* tx_ids, each given out once (NewTxId is a GUID)
  Materials   \* keys of mat.begin_transaction
CONSTANT MaxLevels  \* a bound on the model

Bulk == "bulk"

ASSUME TransactionsAssumption ==
  /\ MaxLevels \in Nat
  /\ Txs \cap Materials = {} /\ Bulk \notin Txs \cup Materials

VARIABLES
  levels,  \* open levels of the transactor, outermost first, with who opened each
  index,   \* GetActiveTransactions: what BeginTransaction returned, NoIndex
           \* when the tx_id is not in the map
  fresh,   \* tx_ids not given out yet
  mats,    \* MatTransactions: whether the key is in the map, and whether its
           \* material has been deleted since
  bulk,    \* the index of the running bulk_modify's transaction, or NoIndex
  mixed,   \* history: a material's level was open beside another one, or an
           \* operation of a bulk_modify opened or closed a transaction
  undone   \* history: a rollback or an abort has cancelled levels

vars == <<levels, index, fresh, mats, bulk, mixed, undone>>

NoIndex == -1

TypeOK ==
  /\ levels \in Seq(Txs \cup Materials \cup {Bulk}) /\ Len(levels) <= MaxLevels
  /\ index \in [Txs -> NoIndex..MaxLevels - 1]
  /\ fresh \subseteq Txs
  /\ mats \in [Materials -> {"absent", "open", "dead"}]
  /\ bulk \in NoIndex..MaxLevels - 1
  /\ mixed \in BOOLEAN /\ undone \in BOOLEAN

Init ==
  /\ levels = <<>>
  /\ index = [t \in Txs |-> NoIndex]
  /\ fresh = Txs
  /\ mats = [m \in Materials |-> "absent"]
  /\ bulk = NoIndex
  /\ mixed = FALSE /\ undone = FALSE

Registered  == {t \in Txs : index[t] # NoIndex}
MatsHeld    == {m \in Materials : mats[m] # "absent"}
InBulk      == bulk # NoIndex

-----------------------------------------------------------------------------
(* UTransactor, as these tools use it: Begin returns the number of levels  *)
(* below the new one; End closes the innermost one, whoever opened it;     *)
(* Cancel(i) closes every level from index i on.                           *)
BeginLevel(owner) == Append(levels, owner)
EndLevels(n)      == SubSeq(levels, 1, Len(levels) - n)
CancelFrom(i)     == SubSeq(levels, 1, IF i < Len(levels) THEN i ELSE Len(levels))

(* begin_transaction; RejectIfPie makes it an error that changes nothing.  *)
BeginTransaction(t) ==
  /\ t \in fresh /\ Len(levels) < MaxLevels
  /\ fresh' = fresh \ {t}
  /\ levels' = BeginLevel(t)
  /\ index' = [index EXCEPT ![t] = Len(levels)]
  /\ mixed' = (mixed \/ InBulk \/ MatsHeld # {})
  /\ UNCHANGED <<mats, bulk, undone>>

(* Mutant: no guard against out-of-order commits. *)
IsTop_Any(t) == t \in Registered

(* The LIFO guard of commit_transaction and rollback_transaction.          *)
IsTop(t) == t \in Registered /\ \A u \in Registered : index[u] <= index[t]

CommitTransaction(t) ==
  /\ IsTop(t)
  /\ index' = [index EXCEPT ![t] = NoIndex]
  /\ levels' = EndLevels(1)
  /\ mixed' = (mixed \/ InBulk)
  /\ UNCHANGED <<fresh, mats, bulk, undone>>

(* Mutant: the whole stack of levels is cancelled. *)
RollbackTransaction_All(t) ==
  /\ IsTop(t)
  /\ index' = [index EXCEPT ![t] = NoIndex]
  /\ levels' = CancelFrom(0)
  /\ undone' = TRUE
  /\ UNCHANGED <<fresh, mats, bulk, mixed>>

RollbackTransaction(t) ==
  /\ IsTop(t)
  /\ index' = [index EXCEPT ![t] = NoIndex]
  /\ levels' = CancelFrom(index[t])
  /\ undone' = TRUE
  /\ mixed' = (mixed \/ InBulk)
  /\ UNCHANGED <<fresh, mats, bulk>>

(* mat.begin_transaction drops the entries of deleted materials first, and *)
(* destroying their FScopedTransaction ends a level each; then the guard.  *)
MatBeginTransaction(m) ==
  LET dead == {n \in Materials : mats[n] = "dead"}
      left == EndLevels(Cardinality(dead))
      kept == [n \in Materials |-> IF n \in dead THEN "absent" ELSE mats[n]]
  IN
  /\ \/ kept[m] = "open" /\ levels' = left /\ mats' = kept
     \/ /\ kept[m] = "absent" /\ Len(left) < MaxLevels
        /\ levels' = Append(left, m)
        /\ mats' = [kept EXCEPT ![m] = "open"]
  /\ mixed' = (mixed \/ InBulk \/ MatsHeld # {} \/ Registered # {})
  /\ UNCHANGED <<index, fresh, bulk, undone>>

(* Mutant: the FScopedTransaction is leaked, not destroyed. *)
MatEndTransaction_Leaks(m) ==
  /\ mats[m] = "open"
  /\ mats' = [mats EXCEPT ![m] = "absent"]
  /\ UNCHANGED <<levels, index, fresh, bulk, mixed, undone>>

(* mat.end_transaction; without an entry it warns and changes nothing.     *)
MatEndTransaction(m) ==
  /\ mats[m] = "open"
  /\ mats' = [mats EXCEPT ![m] = "absent"]
  /\ levels' = EndLevels(1)
  /\ UNCHANGED <<index, fresh, bulk, mixed, undone>>

(* Someone deletes the material; its weak key goes stale in the map.       *)
DeleteMaterial(m) ==
  /\ ~InBulk /\ mats[m] = "open"
  /\ mats' = [mats EXCEPT ![m] = "dead"]
  /\ UNCHANGED <<levels, index, fresh, bulk, mixed, undone>>

(* bulk_modify: its operations are the actions above until it ends, or     *)
(* one of them (one that fails without an effect, say) aborts it.          *)
BulkBegin ==
  /\ ~InBulk /\ Len(levels) < MaxLevels
  /\ bulk' = Len(levels)
  /\ levels' = BeginLevel(Bulk)
  /\ mixed' = (mixed \/ MatsHeld # {})
  /\ UNCHANGED <<index, fresh, mats, undone>>

BulkEnd ==
  /\ InBulk
  /\ bulk' = NoIndex
  /\ levels' = EndLevels(1)
  /\ UNCHANGED <<index, fresh, mats, mixed, undone>>

BulkAbort ==
  /\ InBulk
  /\ bulk' = NoIndex
  /\ levels' = CancelFrom(bulk)
  /\ undone' = TRUE
  /\ UNCHANGED <<index, fresh, mats, mixed>>

Next ==
  \/ \E t \in Txs : \/ BeginTransaction(t)
                    \/ CommitTransaction(t)
                    \/ RollbackTransaction(t)
  \/ \E m \in Materials : \/ MatBeginTransaction(m)
                          \/ MatEndTransaction(m)
                          \/ DeleteMaterial(m)
  \/ BulkBegin \/ BulkEnd \/ BulkAbort

Spec == Init /\ [][Next]_vars
-----------------------------------------------------------------------------
Count == Cardinality(Registered) + Cardinality(MatsHeld) + (IF InBulk THEN 1 ELSE 0)

(* Every level that is open belongs to something that will close it: as    *)
(* many levels as there are tx_ids, materials and bulk_modify calls to end *)
(* them. Only a cancellation while the kinds are mixed can break this.     *)
EveryLevelHasCloser == ~(mixed /\ undone) => Len(levels) = Count

(* While the kinds are not mixed, the index kept for each tx_id is the     *)
(* place of its own level, which no other transaction's end can have moved.*)
IndexIsOwnLevel ==
  ~mixed => /\ \A t \in Registered : /\ index[t] + 1 \in DOMAIN levels
                                     /\ levels[index[t] + 1] = t
            /\ InBulk => bulk + 1 = Len(levels)

Leaves(t) == t \in Registered /\ index'[t] = NoIndex

(* "Refuse out-of-order commits so callers can't accidentally finalize the *)
(* wrong transaction": what a commit closes is the level of its own tx_id, *)
(* and what a rollback discards is that level alone.                       *)
ClosesOwnLevel(t) ==
  Leaves(t) => /\ levels # <<>>
               /\ levels[Len(levels)] = t
               /\ levels' = SubSeq(levels, 1, Len(levels) - 1)

(* The guard of tx.commit and tx.rollback holds its promise as long as the *)
(* levels of tx.begin are not mixed with those of bulk_modify and of the   *)
(* material transactions; with them it may close a level of theirs.        *)
CommitsOwnLevelUnmixed == [][~mixed' => \A t \in Txs : ClosesOwnLevel(t)]_vars

Below(t) == SubSeq(levels, 1, index[t] + 1)

(* A transaction of another caller survives whatever is committed, rolled  *)
(* back or aborted inside it: the levels below an index stay.              *)
OuterLevelsStay ==
  [][~mixed' => \A t \in Registered :
       index'[t] # NoIndex => /\ index'[t] = index[t]
                              /\ IsPrefix(Below(t), levels')]_vars
=============================================================================
