---------------------- MODULE EditorTransactions_proofs ----------------------
(***************************************************************************)
(* Proofs about EditorTransactions, for any number of tx_ids, materials    *)
(* and levels.                                                             *)
(***************************************************************************)
EXTENDS EditorTransactions, FiniteSetTheorems, TLAPS

Owners == Txs \cup Materials \cup {Bulk}

(* While the kinds are not mixed, the levels are a stack: those of the     *)
(* registered tx_ids in the order of their indexes with a bulk_modify on   *)
(* top, or the level of one material alone.                                *)
Owned(i) ==
  \/ levels[i] \in Registered /\ index[levels[i]] + 1 = i
  \/ levels[i] = Bulk /\ InBulk /\ bulk + 1 = i
  \/ levels[i] \in MatsHeld /\ i = 1

Stacked ==
  /\ \A t \in Registered : index[t] + 1 \in 1..Len(levels) /\ levels[index[t] + 1] = t
  /\ InBulk => bulk + 1 = Len(levels) /\ levels[bulk + 1] = Bulk
  /\ \A i \in 1..Len(levels) : Owned(i)
  /\ MatsHeld # {} => Registered = {} /\ ~InBulk /\ Len(levels) = 1
  /\ \A m, n \in MatsHeld : m = n

FiniteHolders == IsFiniteSet(Registered) /\ IsFiniteSet(MatsHeld)

StackInv ==
  /\ fresh \cap Registered = {}
  /\ ~mixed => Stacked
  /\ FiniteHolders
  /\ EveryLevelHasCloser

-----------------------------------------------------------------------------
(* Sequences of levels.                                                    *)

LEMMA LevelsOf ==
  ASSUME TypeOK
  PROVE  levels \in Seq(Owners) /\ Len(levels) \in Nat /\ Len(levels) <= MaxLevels
  BY DEF TypeOK, Owners

LEMMA PrefixFacts ==
  ASSUME NEW S, NEW q \in Seq(S), NEW n \in Int, n <= Len(q)
  PROVE  /\ SubSeq(q, 1, n) \in Seq(S)
         /\ Len(SubSeq(q, 1, n)) = IF n >= 0 THEN n ELSE 0
         /\ \A i \in 1..Len(SubSeq(q, 1, n)) :
              i \in 1..n /\ i \in 1..Len(q) /\ SubSeq(q, 1, n)[i] = q[i]
  OBVIOUS
LEMMA AppendFacts ==
  ASSUME NEW S, NEW q \in Seq(S), NEW x \in S
  PROVE  /\ Append(q, x) \in Seq(S) /\ Len(Append(q, x)) = Len(q) + 1
         /\ Append(q, x)[Len(q) + 1] = x
         /\ \A i \in 1..Len(q) : Append(q, x)[i] = q[i]
  OBVIOUS

(* Ending n levels leaves the outer ones as they are.                      *)
LEMMA EndFacts ==
  ASSUME TypeOK, NEW n \in Nat
  PROVE  /\ EndLevels(n) \in Seq(Owners)
         /\ Len(EndLevels(n)) = IF n <= Len(levels) THEN Len(levels) - n ELSE 0
         /\ \A i \in 1..Len(EndLevels(n)) :
              /\ i \in 1..Len(levels) /\ i <= Len(levels) - n
              /\ EndLevels(n)[i] = levels[i]
<1>1. levels \in Seq(Owners) /\ Len(levels) \in Nat
  BY LevelsOf
<1>2. Len(levels) - n \in Int /\ Len(levels) - n <= Len(levels)
  BY <1>1
<1>3. QED
  BY <1>1, <1>2, PrefixFacts DEF EndLevels

LEMMA CancelFacts ==
  ASSUME TypeOK, NEW i \in 0..MaxLevels
  PROVE  /\ CancelFrom(i) \in Seq(Owners)
         /\ Len(CancelFrom(i)) = IF i < Len(levels) THEN i ELSE Len(levels)
         /\ i < Len(levels) => CancelFrom(i) = EndLevels(Len(levels) - i)
<1>1. levels \in Seq(Owners) /\ Len(levels) \in Nat /\ i \in Nat
  BY LevelsOf
<1>2. ASSUME i < Len(levels)
      PROVE  CancelFrom(i) = EndLevels(Len(levels) - i)
  <2>1. Len(levels) - (Len(levels) - i) = i
    BY <1>1
  <2>2. QED
    BY <1>2, <2>1 DEF CancelFrom, EndLevels
<1>3. CASE i < Len(levels)
  BY <1>1, <1>2, <1>3, PrefixFacts DEF CancelFrom
<1>4. CASE ~(i < Len(levels))
  BY <1>1, <1>4, PrefixFacts DEF CancelFrom
<1>5. QED
  BY <1>2, <1>3, <1>4

-----------------------------------------------------------------------------
(* Type correctness.                                                       *)

LEMMA Opening_Types ==
  ASSUME TypeOK, NEW o \in Owners, Len(levels) < MaxLevels,
         levels' = BeginLevel(o)
  PROVE  levels' \in Seq(Owners) /\ Len(levels') <= MaxLevels
<1>1. levels \in Seq(Owners) /\ Len(levels) \in Nat
  BY LevelsOf
<1>2. QED
  BY <1>1, TransactionsAssumption DEF BeginLevel

LEMMA Closing_Types ==
  ASSUME TypeOK,
         \/ \E n \in Nat : levels' = EndLevels(n)
         \/ \E i \in 0..MaxLevels : levels' = CancelFrom(i)
  PROVE  levels' \in Seq(Owners) /\ Len(levels') <= MaxLevels
<1>1. Len(levels) \in Nat /\ Len(levels) <= MaxLevels
  BY LevelsOf
<1>2. ASSUME NEW n \in Nat, levels' = EndLevels(n)
      PROVE  levels' \in Seq(Owners) /\ Len(levels') <= MaxLevels
  <2>1. levels' \in Seq(Owners)
    BY <1>2, EndFacts
  <2>2. Len(levels') = IF n <= Len(levels) THEN Len(levels) - n ELSE 0
    BY <1>2, EndFacts
  <2>3. QED
    BY <1>1, <2>1, <2>2, TransactionsAssumption
<1>3. ASSUME NEW i \in 0..MaxLevels, levels' = CancelFrom(i)
      PROVE  levels' \in Seq(Owners) /\ Len(levels') <= MaxLevels
  <2>1. levels' \in Seq(Owners)
    BY <1>3, CancelFacts
  <2>2. Len(levels') = IF i < Len(levels) THEN i ELSE Len(levels)
    BY <1>3, CancelFacts
  <2>3. QED
    BY <1>1, <2>1, <2>2, TransactionsAssumption
<1>4. QED
  BY <1>2, <1>3

LEMMA MatBegin_Types ==
  ASSUME TypeOK, NEW m \in Materials, MatBeginTransaction(m),
         FiniteHolders
  PROVE  TypeOK'
<1> DEFINE dead == {n \in Materials : mats[n] = "dead"}
           left == EndLevels(Cardinality(dead))
           kept == [n \in Materials |-> IF n \in dead THEN "absent" ELSE mats[n]]
<1>1. Cardinality(dead) \in Nat
  <2>1. dead \in SUBSET MatsHeld
    BY DEF MatsHeld
  <2>2. IsFiniteSet(dead)
    BY <2>1, FS_Subset DEF FiniteHolders
  <2>3. QED
    BY <2>2, FS_CardinalityType
<1>2. /\ left \in Seq(Owners) /\ Len(left) \in Nat /\ Len(left) <= MaxLevels
  <2>1. Len(levels) \in Nat /\ Len(levels) <= MaxLevels
    BY LevelsOf
  <2>2. /\ left \in Seq(Owners)
        /\ Len(left) = IF Cardinality(dead) <= Len(levels)
                         THEN Len(levels) - Cardinality(dead) ELSE 0
    BY <1>1, EndFacts
  <2>3. QED
    BY <1>1, <2>1, <2>2, TransactionsAssumption
<1>3. kept \in [Materials -> {"absent", "open", "dead"}]
  BY DEF TypeOK
<1>4. /\ \/ levels' = left /\ mats' = kept
         \/ /\ Len(left) < MaxLevels /\ levels' = Append(left, m)
            /\ mats' = [kept EXCEPT ![m] = "open"]
      /\ UNCHANGED <<index, fresh, bulk, undone>>
  BY DEF MatBeginTransaction
<1>5. mixed' \in BOOLEAN
  BY DEF MatBeginTransaction
<1>6. mats' \in [Materials -> {"absent", "open", "dead"}]
  BY <1>3, <1>4
<1>7. levels' \in Seq(Owners) /\ Len(levels') <= MaxLevels
  <2>1. m \in Owners
    BY DEF Owners
  <2>2. Append(left, m) \in Seq(Owners) /\ Len(Append(left, m)) = Len(left) + 1
    BY <1>2, <2>1, AppendFacts
  <2>3. QED
    BY <1>2, <1>4, <2>2, TransactionsAssumption
<1>8. QED
  BY <1>4, <1>5, <1>6, <1>7 DEF TypeOK, Owners

LEMMA Next_Types ==
  TypeOK /\ FiniteHolders /\ [Next]_vars => TypeOK'
<1> SUFFICES ASSUME TypeOK, FiniteHolders, [Next]_vars PROVE TypeOK'
  OBVIOUS
<1>0. /\ Len(levels) \in Nat /\ Len(levels) <= MaxLevels /\ MaxLevels \in Nat
      /\ 1 \in Nat
  BY LevelsOf, TransactionsAssumption
<1>1. ASSUME NEW t \in Txs, BeginTransaction(t)
      PROVE  TypeOK'
  <2>1. levels' \in Seq(Owners) /\ Len(levels') <= MaxLevels
    BY <1>1, Opening_Types DEF BeginTransaction, Owners
  <2>2. Len(levels) \in NoIndex..MaxLevels - 1
    BY <1>0, <1>1 DEF BeginTransaction, NoIndex
  <2>3. index' \in [Txs -> NoIndex..MaxLevels - 1]
    BY <1>1, <2>2 DEF BeginTransaction, TypeOK
  <2>4. mixed' \in BOOLEAN /\ UNCHANGED <<mats, bulk, undone>> /\ fresh' \subseteq fresh
    BY <1>1 DEF BeginTransaction
  <2>5. QED
    BY <2>1, <2>3, <2>4 DEF TypeOK, Owners
<1>2. ASSUME NEW t \in Txs, CommitTransaction(t) \/ RollbackTransaction(t)
      PROVE  TypeOK'
  <2>1. index[t] \in 0..MaxLevels
    BY <1>0, <1>2 DEF CommitTransaction, RollbackTransaction, IsTop, Registered,
                    TypeOK, NoIndex
  <2>2. levels' \in Seq(Owners) /\ Len(levels') <= MaxLevels
    BY <1>0, <1>2, <2>1, Closing_Types DEF CommitTransaction, RollbackTransaction
  <2>3. NoIndex \in NoIndex..MaxLevels - 1
    BY <1>0 DEF NoIndex
  <2>4. index' \in [Txs -> NoIndex..MaxLevels - 1]
    BY <1>2, <2>3 DEF CommitTransaction, RollbackTransaction, TypeOK
  <2>5. mixed' \in BOOLEAN /\ undone' \in {undone, TRUE} /\ UNCHANGED <<fresh, mats, bulk>>
    BY <1>2 DEF CommitTransaction, RollbackTransaction
  <2>6. QED
    BY <2>2, <2>4, <2>5 DEF TypeOK, Owners
<1>3. ASSUME NEW m \in Materials, MatBeginTransaction(m)
      PROVE  TypeOK'
  BY <1>3, MatBegin_Types
<1>4. ASSUME NEW m \in Materials, MatEndTransaction(m)
      PROVE  TypeOK'
  <2>1. levels' \in Seq(Owners) /\ Len(levels') <= MaxLevels
    BY <1>0, <1>4, Closing_Types DEF MatEndTransaction
  <2>2. QED
    BY <1>4, <2>1 DEF MatEndTransaction, TypeOK, Owners
<1>5. ASSUME NEW m \in Materials, DeleteMaterial(m)
      PROVE  TypeOK'
  BY <1>5 DEF DeleteMaterial, TypeOK
<1>6. CASE BulkBegin
  <2>1. levels' \in Seq(Owners) /\ Len(levels') <= MaxLevels
    BY <1>6, Opening_Types DEF BulkBegin, Owners
  <2>2. bulk' \in NoIndex..MaxLevels - 1
    BY <1>0, <1>6 DEF BulkBegin, NoIndex
  <2>3. mixed' \in BOOLEAN /\ UNCHANGED <<index, fresh, mats, undone>>
    BY <1>6 DEF BulkBegin
  <2>4. QED
    BY <2>1, <2>2, <2>3 DEF TypeOK, Owners
<1>7. CASE BulkEnd \/ BulkAbort
  <2>1. bulk \in 0..MaxLevels
    BY <1>0, <1>7 DEF BulkEnd, BulkAbort, InBulk, TypeOK, NoIndex
  <2>2. levels' \in Seq(Owners) /\ Len(levels') <= MaxLevels
    BY <1>0, <1>7, <2>1, Closing_Types DEF BulkEnd, BulkAbort
  <2>3. bulk' \in NoIndex..MaxLevels - 1
    BY <1>0, <1>7 DEF BulkEnd, BulkAbort, NoIndex
  <2>4. undone' \in {undone, TRUE} /\ UNCHANGED <<index, fresh, mats, mixed>>
    BY <1>7 DEF BulkEnd, BulkAbort
  <2>5. QED
    BY <2>2, <2>3, <2>4 DEF TypeOK, Owners
<1>8. CASE UNCHANGED vars
  BY <1>8 DEF vars, TypeOK
<1>9. QED
  BY <1>1, <1>2, <1>3, <1>4, <1>5, <1>6, <1>7, <1>8 DEF Next
-----------------------------------------------------------------------------
(* The stack of levels.                                                    *)

(* Outside a bulk_modify the tx_id that passes the guard owns the          *)
(* innermost level.                                                        *)
LEMMA TopIsLast ==
  ASSUME TypeOK, Stacked, ~InBulk, NEW t \in Txs, IsTop(t)
  PROVE  /\ index[t] + 1 = Len(levels) /\ levels[Len(levels)] = t
         /\ Len(levels) \in Nat /\ Len(levels) >= 1
         /\ \A u \in Registered \ {t} : index[u] + 1 <= Len(levels) - 1
         /\ MatsHeld = {}
<1>1. /\ t \in Registered /\ index[t] + 1 \in 1..Len(levels)
      /\ levels[index[t] + 1] = t /\ MatsHeld = {} /\ Len(levels) \in Nat
      /\ index[t] \in Int
  BY LevelsOf DEF IsTop, Stacked, TypeOK
<1>2. Len(levels) \in 1..Len(levels)
  BY <1>1
<1>3. Owned(Len(levels))
  BY <1>2 DEF Stacked
<1>4. PICK u \in Registered : index[u] + 1 = Len(levels)
  BY <1>1, <1>3 DEF Owned
<1>5. index[u] <= index[t] /\ index[u] \in Int
  BY <1>4 DEF IsTop, Registered, TypeOK
<1>6. index[t] + 1 = Len(levels)
  BY <1>1, <1>4, <1>5
<1>7. ASSUME NEW v \in Registered \ {t}
      PROVE  index[v] + 1 <= Len(levels) - 1
  <2>1. index[v] + 1 \in 1..Len(levels) /\ levels[index[v] + 1] = v
    BY DEF Stacked
  <2>2. index[v] + 1 # Len(levels)
    BY <1>1, <1>6, <2>1
  <2>3. QED
    BY <1>1, <2>1, <2>2
<1>8. QED
  BY <1>1, <1>2, <1>6, <1>7

(* Opening a level on top of a stack.                                      *)
LEMMA Opened_Stack ==
  ASSUME TypeOK, Stacked, NEW t \in Txs, BeginTransaction(t), ~mixed',
         fresh \cap Registered = {}
  PROVE  Stacked'
<1>1. /\ ~InBulk /\ MatsHeld = {} /\ UNCHANGED <<bulk, mats>>
      /\ levels' = Append(levels, t) /\ t \notin Registered
      /\ index' = [index EXCEPT ![t] = Len(levels)]
  BY DEF BeginTransaction, BeginLevel
<1>2. ~InBulk' /\ MatsHeld' = {}
  BY <1>1 DEF InBulk, MatsHeld
<1>3. /\ Len(levels') = Len(levels) + 1 /\ levels'[Len(levels) + 1] = t
      /\ \A i \in 1..Len(levels) : levels'[i] = levels[i]
      /\ Len(levels) \in Nat
  BY <1>1, LevelsOf, AppendFacts DEF Owners
<1>4. /\ index'[t] = Len(levels)
      /\ \A u \in Txs \ {t} : index'[u] = index[u]
      /\ Len(levels) # NoIndex
  BY <1>1, <1>3 DEF TypeOK, NoIndex
<1>5. Registered' = Registered \cup {t}
  BY <1>4 DEF Registered
<1>6. ASSUME NEW u \in Registered'
      PROVE  index'[u] + 1 \in 1..Len(levels') /\ levels'[index'[u] + 1] = u
  <2>1. CASE u = t
    BY <1>3, <1>4, <2>1
  <2>2. CASE u # t
    <3>1. u \in Registered /\ index'[u] = index[u]
      BY <1>4, <1>5, <2>2 DEF Registered
    <3>2. index[u] + 1 \in 1..Len(levels) /\ levels[index[u] + 1] = u
      BY <3>1 DEF Stacked
    <3>3. QED
      BY <1>3, <3>1, <3>2
  <2>3. QED
    BY <2>1, <2>2
<1>7. ASSUME NEW i \in 1..Len(levels')
      PROVE  Owned(i)'
  <2>1. CASE i = Len(levels) + 1
    BY <1>3, <1>4, <1>5, <2>1 DEF Owned
  <2>2. CASE i # Len(levels) + 1
    <3>1. i \in 1..Len(levels) /\ levels'[i] = levels[i]
      BY <1>3, <2>2
    <3>2. levels[i] \in Registered /\ index[levels[i]] + 1 = i
      BY <1>1, <3>1 DEF Stacked, Owned
    <3>3. levels[i] \in Txs \ {t}
      BY <1>1, <3>2 DEF Registered
    <3>4. QED
      BY <1>4, <1>5, <3>1, <3>2, <3>3 DEF Owned
  <2>3. QED
    BY <2>1, <2>2
<1>8. QED
  BY <1>2, <1>6, <1>7 DEF Stacked

(* Closing the innermost level, by the tx_id that owns it.                 *)
LEMMA Left_Stack ==
  ASSUME TypeOK, Stacked, ~InBulk, NEW t \in Txs, IsTop(t),
         index' = [index EXCEPT ![t] = NoIndex], levels' = EndLevels(1),
         UNCHANGED <<bulk, mats>>
  PROVE  Stacked'
<1>1. /\ index[t] + 1 = Len(levels) /\ Len(levels) \in Nat /\ Len(levels) >= 1
      /\ MatsHeld = {} /\ levels[Len(levels)] = t
      /\ \A u \in Registered \ {t} : index[u] + 1 <= Len(levels) - 1
  BY TopIsLast
<1>2. ~InBulk' /\ MatsHeld' = {}
  BY <1>1 DEF InBulk, MatsHeld
<1>3. /\ Len(levels') = Len(levels) - 1
      /\ \A i \in 1..Len(levels') : i \in 1..Len(levels) /\ levels'[i] = levels[i]
  BY <1>1, EndFacts
<1>4. /\ index'[t] = NoIndex
      /\ \A u \in Txs \ {t} : index'[u] = index[u]
  BY DEF TypeOK
<1>5. Registered' = Registered \ {t}
  BY <1>4 DEF Registered
<1>6. ASSUME NEW u \in Registered'
      PROVE  index'[u] + 1 \in 1..Len(levels') /\ levels'[index'[u] + 1] = u
  <2>1. u \in Registered \ {t} /\ index'[u] = index[u]
    BY <1>4, <1>5 DEF Registered
  <2>2. index[u] + 1 \in 1..Len(levels) /\ levels[index[u] + 1] = u
    BY <2>1 DEF Stacked
  <2>3. index[u] + 1 \in 1..Len(levels')
    BY <1>1, <1>3, <2>1, <2>2
  <2>4. QED
    BY <1>3, <2>1, <2>2, <2>3
<1>7. ASSUME NEW i \in 1..Len(levels')
      PROVE  Owned(i)'
  <2>1. i \in 1..Len(levels) /\ levels'[i] = levels[i] /\ i # Len(levels)
    BY <1>1, <1>3
  <2>2. levels[i] \in Registered /\ index[levels[i]] + 1 = i
    BY <1>1, <2>1 DEF Stacked, Owned
  <2>3. levels[i] \in Txs \ {t}
    BY <1>1, <2>1, <2>2 DEF Registered
  <2>4. QED
    BY <1>4, <1>5, <2>1, <2>2, <2>3 DEF Owned
<1>8. QED
  BY <1>2, <1>6, <1>7 DEF Stacked

(* A bulk_modify opens its level on top and takes it away again.           *)
LEMMA BulkOpened_Stack ==
  ASSUME TypeOK, Stacked, BulkBegin, ~mixed'
  PROVE  Stacked'
<1>1. /\ ~InBulk /\ MatsHeld = {} /\ UNCHANGED <<index, mats>>
      /\ levels' = Append(levels, Bulk) /\ bulk' = Len(levels)
  BY DEF BulkBegin, BeginLevel
<1>2. /\ Len(levels') = Len(levels) + 1 /\ levels'[Len(levels) + 1] = Bulk
      /\ \A i \in 1..Len(levels) : levels'[i] = levels[i]
      /\ Len(levels) \in Nat
  BY <1>1, LevelsOf, AppendFacts DEF Owners
<1>3. InBulk' /\ MatsHeld' = {} /\ Registered' = Registered
  BY <1>1, <1>2 DEF InBulk, MatsHeld, Registered, NoIndex
<1>4. ASSUME NEW u \in Registered'
      PROVE  index'[u] + 1 \in 1..Len(levels') /\ levels'[index'[u] + 1] = u
  <2>1. index[u] + 1 \in 1..Len(levels) /\ levels[index[u] + 1] = u
    BY <1>3 DEF Stacked
  <2>2. QED
    BY <1>1, <1>2, <2>1
<1>5. ASSUME NEW i \in 1..Len(levels')
      PROVE  Owned(i)'
  <2>1. CASE i = Len(levels) + 1
    BY <1>1, <1>2, <1>3, <2>1 DEF Owned
  <2>2. CASE i # Len(levels) + 1
    <3>1. i \in 1..Len(levels) /\ levels'[i] = levels[i]
      BY <1>2, <2>2
    <3>2. levels[i] \in Registered /\ index[levels[i]] + 1 = i
      BY <1>1, <3>1 DEF Stacked, Owned
    <3>3. QED
      BY <1>1, <1>3, <3>1, <3>2 DEF Owned
  <2>3. QED
    BY <2>1, <2>2
<1>6. QED
  BY <1>1, <1>2, <1>3, <1>4, <1>5 DEF Stacked

LEMMA BulkClosed_Stack ==
  ASSUME TypeOK, Stacked, InBulk, bulk' = NoIndex, levels' = EndLevels(1),
         UNCHANGED <<index, mats>>
  PROVE  Stacked'
<1>1. /\ bulk + 1 = Len(levels) /\ levels[bulk + 1] = Bulk /\ MatsHeld = {}
      /\ Len(levels) \in Nat /\ bulk \in Int /\ bulk >= 0
  BY LevelsOf DEF Stacked, InBulk, TypeOK, NoIndex
<1>2. /\ Len(levels') = Len(levels) - 1
      /\ \A i \in 1..Len(levels') : i \in 1..Len(levels) /\ levels'[i] = levels[i]
  <2>1. Len(levels) \in Nat /\ Len(levels) >= 1
    BY <1>1
  <2>2. QED
    BY <2>1, EndFacts
<1>3. ~InBulk' /\ MatsHeld' = {} /\ Registered' = Registered
  BY <1>1 DEF InBulk, MatsHeld, Registered
<1>4. ASSUME NEW u \in Registered'
      PROVE  index'[u] + 1 \in 1..Len(levels') /\ levels'[index'[u] + 1] = u
  <2>1. u \in Txs /\ u # Bulk
    BY TransactionsAssumption DEF Registered
  <2>2. index[u] + 1 \in 1..Len(levels) /\ levels[index[u] + 1] = u
    BY <1>3 DEF Stacked
  <2>3. index[u] + 1 # Len(levels)
    BY <1>1, <2>1, <2>2
  <2>4. QED
    BY <1>1, <1>2, <2>2, <2>3
<1>5. ASSUME NEW i \in 1..Len(levels')
      PROVE  Owned(i)'
  <2>1. i \in 1..Len(levels) /\ levels'[i] = levels[i] /\ i # Len(levels)
    BY <1>1, <1>2
  <2>2. levels[i] \in Registered /\ index[levels[i]] + 1 = i
    BY <1>1, <2>1 DEF Stacked, Owned
  <2>3. QED
    BY <1>3, <2>1, <2>2 DEF Owned
<1>6. QED
  BY <1>3, <1>4, <1>5 DEF Stacked

(* A material's level is alone.                                            *)
LEMMA MatOpened_Stack ==
  ASSUME TypeOK, Stacked, NEW m \in Materials, MatBeginTransaction(m), ~mixed'
  PROVE  Stacked'
<1>1. /\ ~InBulk /\ MatsHeld = {} /\ Registered = {}
      /\ UNCHANGED <<index, bulk>>
  BY DEF MatBeginTransaction
<1>2. Len(levels) = 0 /\ levels \in Seq(Owners)
  <2>1. Len(levels) \in Nat /\ levels \in Seq(Owners)
    BY LevelsOf
  <2>2. 1 \notin 1..Len(levels)
    BY <1>1 DEF Stacked, Owned
  <2>3. QED
    BY <2>1, <2>2
<1>3. \A n \in Materials : mats[n] = "absent"
  BY <1>1 DEF MatsHeld
<1>4. {n \in Materials : mats[n] = "dead"} = {}
  BY <1>3
<1>5. Cardinality({}) = 0
  BY FS_EmptySet
<1>6. EndLevels(0) = levels
  BY <1>2 DEF EndLevels
<1>7. /\ levels' = Append(levels, m)
      /\ mats' = [[n \in Materials |-> mats[n]] EXCEPT ![m] = "open"]
  BY <1>3, <1>4, <1>5, <1>6 DEF MatBeginTransaction
<1>8. Len(levels') = 1 /\ levels'[1] = m
  <2>1. m \in Owners
    BY DEF Owners
  <2>2. Len(levels') = Len(levels) + 1 /\ levels'[Len(levels) + 1] = m
    BY <1>2, <1>7, <2>1, AppendFacts
  <2>3. QED
    BY <1>2, <2>2
<1>9. ~InBulk' /\ MatsHeld' = {m} /\ Registered' = {}
  BY <1>1, <1>3, <1>7 DEF InBulk, MatsHeld, Registered
<1>10. ASSUME NEW i \in 1..Len(levels')
       PROVE  Owned(i)'
  BY <1>8, <1>9 DEF Owned
<1>11. QED
  BY <1>8, <1>9, <1>10 DEF Stacked

LEMMA MatClosed_Stack ==
  ASSUME TypeOK, Stacked, NEW m \in Materials, MatEndTransaction(m)
  PROVE  Stacked'
<1>1. /\ m \in MatsHeld /\ UNCHANGED <<index, bulk>> /\ levels' = EndLevels(1)
      /\ mats' = [mats EXCEPT ![m] = "absent"]
  BY DEF MatEndTransaction, MatsHeld
<1>2. MatsHeld = {m} /\ Registered = {} /\ ~InBulk /\ Len(levels) = 1
  BY <1>1 DEF Stacked
<1>3. MatsHeld' = {} /\ Registered' = {} /\ ~InBulk'
  BY <1>1, <1>2 DEF MatsHeld, Registered, InBulk, TypeOK
<1>4. Len(levels') = 0
  BY <1>1, <1>2, EndFacts
<1>5. QED
  BY <1>3, <1>4 DEF Stacked
-----------------------------------------------------------------------------
(* The number of levels.                                                   *)

LEMMA CountFacts ==
  ASSUME FiniteHolders
  PROVE  /\ Cardinality(Registered) \in Nat /\ Cardinality(MatsHeld) \in Nat
         /\ Count = Cardinality(Registered) + Cardinality(MatsHeld)
                      + (IF InBulk THEN 1 ELSE 0)
         /\ \A t \in Registered : Cardinality(Registered) >= 1
         /\ \A m \in MatsHeld : Cardinality(MatsHeld) >= 1
<1>1. Cardinality(Registered) \in Nat /\ Cardinality(MatsHeld) \in Nat
  BY FS_CardinalityType DEF FiniteHolders
<1>2. /\ Cardinality(Registered) # 0 \/ Registered = {}
      /\ Cardinality(MatsHeld) # 0 \/ MatsHeld = {}
  BY FS_EmptySet DEF FiniteHolders
<1>3. QED
  BY <1>1, <1>2 DEF Count

LEMMA Opened_Count ==
  ASSUME TypeOK, FiniteHolders, EveryLevelHasCloser, NEW t \in Txs,
         BeginTransaction(t), fresh \cap Registered = {}
  PROVE  /\ FiniteHolders' /\ EveryLevelHasCloser'
         /\ fresh' \cap Registered' = {}
<1>1. /\ levels' = Append(levels, t) /\ index' = [index EXCEPT ![t] = Len(levels)]
      /\ UNCHANGED <<mats, bulk, undone>> /\ t \in fresh /\ fresh' = fresh \ {t}
      /\ mixed => mixed'
  BY DEF BeginTransaction, BeginLevel
<1>2. /\ levels \in Seq(Owners) /\ Len(levels) \in Nat /\ t \in Owners
      /\ Len(levels) # NoIndex
  BY LevelsOf DEF Owners, NoIndex
<1>3. Registered' = Registered \cup {t} /\ t \notin Registered
  BY <1>1, <1>2 DEF Registered, TypeOK
<1>4. MatsHeld' = MatsHeld /\ InBulk' = InBulk
  BY <1>1 DEF MatsHeld, InBulk
<1>5. /\ IsFiniteSet(Registered')
      /\ Cardinality(Registered') = Cardinality(Registered) + 1
  BY <1>3, FS_AddElement DEF FiniteHolders
<1>6. FiniteHolders'
  BY <1>4, <1>5 DEF FiniteHolders
<1>7. Count' = Cardinality(Registered') + Cardinality(MatsHeld)
                 + (IF InBulk THEN 1 ELSE 0)
  BY <1>4 DEF Count
<1>8. Len(levels') = Len(levels) + 1
  BY <1>1, <1>2, AppendFacts
<1>9. EveryLevelHasCloser'
  BY <1>1, <1>2, <1>5, <1>7, <1>8, CountFacts DEF EveryLevelHasCloser
<1>10. QED
  BY <1>1, <1>3, <1>6, <1>9

(* A tx_id goes, and its level with it.                                    *)
LEMMA Left_Count ==
  ASSUME TypeOK, FiniteHolders, EveryLevelHasCloser, NEW t \in Registered,
         index' = [index EXCEPT ![t] = NoIndex], UNCHANGED <<mats, bulk, fresh>>,
         fresh \cap Registered = {},
         ~(mixed' /\ undone') => ~(mixed /\ undone) /\ levels' = EndLevels(1)
  PROVE  /\ FiniteHolders' /\ EveryLevelHasCloser'
         /\ fresh' \cap Registered' = {}
<1>1. Registered' = Registered \ {t}
  BY DEF Registered, TypeOK
<1>2. MatsHeld' = MatsHeld /\ InBulk' = InBulk
  BY DEF MatsHeld, InBulk
<1>3. /\ IsFiniteSet(Registered')
      /\ Cardinality(Registered') = Cardinality(Registered) - 1
  BY <1>1, FS_RemoveElement DEF FiniteHolders
<1>4. FiniteHolders'
  BY <1>2, <1>3 DEF FiniteHolders
<1>5. Count' = Cardinality(Registered') + Cardinality(MatsHeld)
                 + (IF InBulk THEN 1 ELSE 0)
  BY <1>2 DEF Count
<1>6. ASSUME ~(mixed' /\ undone')
      PROVE  Len(levels') = Count'
  <2>1. Len(levels) = Count /\ levels' = EndLevels(1)
    BY <1>6 DEF EveryLevelHasCloser
  <2>2. Len(levels) \in Nat /\ Len(levels) >= 1
    BY <2>1, CountFacts, LevelsOf
  <2>3. Len(levels') = Len(levels) - 1
    BY <2>1, <2>2, EndFacts
  <2>4. QED
    BY <1>3, <1>5, <2>1, <2>3, CountFacts
<1>7. QED
  BY <1>1, <1>4, <1>6 DEF EveryLevelHasCloser

LEMMA Bulk_Count ==
  ASSUME TypeOK, FiniteHolders, EveryLevelHasCloser, ~mixed => Stacked,
         BulkBegin \/ BulkEnd \/ BulkAbort
  PROVE  FiniteHolders' /\ EveryLevelHasCloser'
<1>0. Registered' = Registered /\ MatsHeld' = MatsHeld
  BY DEF BulkBegin, BulkEnd, BulkAbort, Registered, MatsHeld
<1>1. mixed => mixed'
  BY DEF BulkBegin, BulkEnd, BulkAbort
<1>2. FiniteHolders'
  BY <1>0 DEF FiniteHolders
<1>3. Count' = Cardinality(Registered) + Cardinality(MatsHeld)
                 + (IF InBulk' THEN 1 ELSE 0)
  BY <1>0 DEF Count
<1>4. levels \in Seq(Owners) /\ Len(levels) \in Nat /\ Bulk \in Owners
  BY LevelsOf DEF Owners
<1>5. CASE BulkBegin
  <2>1. /\ ~InBulk /\ bulk' = Len(levels) /\ levels' = Append(levels, Bulk)
        /\ undone' = undone
    BY <1>5 DEF BulkBegin, BeginLevel
  <2>2. InBulk'
    BY <1>4, <2>1 DEF InBulk, NoIndex
  <2>3. Len(levels') = Len(levels) + 1
    BY <1>4, <2>1, AppendFacts
  <2>4. EveryLevelHasCloser'
    BY <1>1, <1>3, <1>4, <2>1, <2>2, <2>3, CountFacts DEF EveryLevelHasCloser
  <2>5. QED
    BY <1>2, <2>4
<1>6. CASE BulkEnd \/ BulkAbort
  <2>1. InBulk /\ ~InBulk' /\ UNCHANGED mixed /\ (undone => undone')
    BY <1>6 DEF BulkEnd, BulkAbort, InBulk
  <2>2. ASSUME ~(mixed' /\ undone')
        PROVE  Len(levels') = Count'
    <3>1. Len(levels) = Count
      BY <2>1, <2>2 DEF EveryLevelHasCloser
    <3>2. Len(levels) >= 1
      BY <2>1, <3>1, CountFacts
    <3>3. levels' = EndLevels(1)
      <4>1. CASE BulkEnd
        BY <4>1 DEF BulkEnd
      <4>2. CASE BulkAbort
        <5>1. ~mixed
          BY <2>2, <4>2 DEF BulkAbort
        <5>2. bulk + 1 = Len(levels) /\ bulk \in 0..MaxLevels /\ bulk < Len(levels)
          BY <1>4, <2>1, <5>1, LevelsOf, TransactionsAssumption
             DEF Stacked, InBulk, TypeOK, NoIndex
        <5>3. Len(levels) - bulk = 1
          BY <1>4, <5>2
        <5>4. levels' = CancelFrom(bulk)
          BY <4>2 DEF BulkAbort
        <5>5. QED
          BY <5>2, <5>3, <5>4, CancelFacts
      <4>3. QED
        BY <1>6, <4>1, <4>2
    <3>4. Len(levels') = Len(levels) - 1
      BY <1>4, <3>2, <3>3, EndFacts
    <3>5. QED
      BY <1>3, <2>1, <3>1, <3>4, CountFacts
  <2>3. QED
    BY <1>2, <2>2 DEF EveryLevelHasCloser
<1>7. QED
  BY <1>5, <1>6

LEMMA MatBegin_Count ==
  ASSUME TypeOK, FiniteHolders, EveryLevelHasCloser, NEW m \in Materials,
         MatBeginTransaction(m)
  PROVE  FiniteHolders' /\ EveryLevelHasCloser'
<1> DEFINE dead == {n \in Materials : mats[n] = "dead"}
           left == EndLevels(Cardinality(dead))
           kept == [n \in Materials |-> IF n \in dead THEN "absent" ELSE mats[n]]
<1>1. /\ \/ kept[m] = "open" /\ levels' = left /\ mats' = kept
         \/ /\ kept[m] = "absent" /\ levels' = Append(left, m)
            /\ mats' = [kept EXCEPT ![m] = "open"]
      /\ UNCHANGED <<index, fresh, bulk, undone>> /\ (mixed => mixed')
  BY DEF MatBeginTransaction
<1>2. dead \subseteq MatsHeld
  BY DEF MatsHeld
<1>3. /\ IsFiniteSet(dead) /\ Cardinality(dead) \in Nat
      /\ Cardinality(dead) <= Cardinality(MatsHeld)
  BY <1>2, FS_Subset, FS_CardinalityType DEF FiniteHolders
<1>4. /\ IsFiniteSet(MatsHeld \ dead)
      /\ Cardinality(MatsHeld \ dead) = Cardinality(MatsHeld) - Cardinality(dead)
  <2>1. MatsHeld \cap dead = dead
    BY <1>2
  <2>2. QED
    BY <1>3, <2>1, FS_Difference DEF FiniteHolders
<1>5. Registered' = Registered /\ InBulk' = InBulk
  BY <1>1 DEF Registered, InBulk
<1>6. Count' = Cardinality(Registered) + Cardinality(MatsHeld')
                 + (IF InBulk THEN 1 ELSE 0)
  BY <1>5 DEF Count
<1>7. ASSUME ~(mixed' /\ undone')
      PROVE  Len(left) = Count - Cardinality(dead) /\ Len(left) \in Nat
  <2>1. Len(levels) = Count /\ Len(levels) \in Nat
    BY <1>1, <1>7, LevelsOf DEF EveryLevelHasCloser
  <2>2. Cardinality(dead) <= Len(levels)
    BY <1>3, <2>1, CountFacts
  <2>3. Len(left) = IF Cardinality(dead) <= Len(levels)
                      THEN Len(levels) - Cardinality(dead) ELSE 0
    BY <1>3, EndFacts
  <2>4. QED
    BY <1>3, <2>1, <2>2, <2>3
<1>8. left \in Seq(Owners) /\ m \in Owners
  BY <1>3, EndFacts DEF Owners
<1>9. CASE mats' = kept /\ levels' = left
  <2>1. MatsHeld' = MatsHeld \ dead
    BY <1>9 DEF MatsHeld
  <2>2. FiniteHolders'
    BY <1>4, <1>5, <2>1 DEF FiniteHolders
  <2>3. ASSUME ~(mixed' /\ undone')
        PROVE  Len(levels') = Count'
    BY <1>3, <1>4, <1>6, <1>7, <1>9, <2>1, <2>3, CountFacts
  <2>4. QED
    BY <2>2, <2>3 DEF EveryLevelHasCloser
<1>10. CASE /\ kept[m] = "absent" /\ mats' = [kept EXCEPT ![m] = "open"]
            /\ levels' = Append(left, m)
  <2>1. MatsHeld' = (MatsHeld \ dead) \cup {m} /\ m \notin MatsHeld \ dead
    BY <1>10 DEF MatsHeld
  <2>2. /\ IsFiniteSet(MatsHeld')
        /\ Cardinality(MatsHeld') = Cardinality(MatsHeld \ dead) + 1
    BY <1>4, <2>1, FS_AddElement
  <2>3. FiniteHolders'
    BY <1>5, <2>2 DEF FiniteHolders
  <2>4. Len(levels') = Len(left) + 1
    BY <1>8, <1>10, AppendFacts
  <2>5. ASSUME ~(mixed' /\ undone')
        PROVE  Len(levels') = Count'
    BY <1>3, <1>4, <1>6, <1>7, <2>2, <2>4, <2>5, CountFacts
  <2>6. QED
    BY <2>3, <2>5 DEF EveryLevelHasCloser
<1>11. QED
  BY <1>1, <1>9, <1>10

LEMMA MatEnd_Count ==
  ASSUME TypeOK, FiniteHolders, EveryLevelHasCloser, NEW m \in Materials,
         MatEndTransaction(m)
  PROVE  FiniteHolders' /\ EveryLevelHasCloser'
<1>1. /\ m \in MatsHeld /\ levels' = EndLevels(1)
      /\ mats' = [mats EXCEPT ![m] = "absent"]
      /\ UNCHANGED <<index, bulk, mixed, undone>>
  BY DEF MatEndTransaction, MatsHeld
<1>2. Registered' = Registered /\ InBulk' = InBulk
  BY <1>1 DEF Registered, InBulk
<1>3. MatsHeld' = MatsHeld \ {m}
  BY <1>1 DEF MatsHeld, TypeOK
<1>4. /\ IsFiniteSet(MatsHeld')
      /\ Cardinality(MatsHeld') = Cardinality(MatsHeld) - 1
  BY <1>1, <1>3, FS_RemoveElement DEF FiniteHolders
<1>5. Count' = Cardinality(Registered) + Cardinality(MatsHeld')
                 + (IF InBulk THEN 1 ELSE 0)
  BY <1>2 DEF Count
<1>6. ASSUME ~(mixed' /\ undone')
      PROVE  Len(levels') = Count'
  <2>1. Len(levels) = Count
    BY <1>1, <1>6 DEF EveryLevelHasCloser
  <2>2. Len(levels) \in Nat /\ Len(levels) >= 1
    BY <1>1, <2>1, CountFacts, LevelsOf
  <2>3. Len(levels') = Len(levels) - 1
    BY <1>1, <2>2, EndFacts
  <2>4. QED
    BY <1>4, <1>5, <2>1, <2>3, CountFacts
<1>7. QED
  BY <1>2, <1>4, <1>6 DEF FiniteHolders, EveryLevelHasCloser
-----------------------------------------------------------------------------
(* The theorems.                                                           *)

LEMMA Init_Stack == Init => TypeOK /\ StackInv
<1> SUFFICES ASSUME Init PROVE TypeOK /\ StackInv
  OBVIOUS
<1>1. Len(levels) = 0 /\ levels \in Seq(Owners)
  BY DEF Init
<1>2. Registered = {} /\ MatsHeld = {} /\ ~InBulk /\ bulk = NoIndex
  BY DEF Init, Registered, MatsHeld, InBulk
<1>3. TypeOK
  <2>1. MaxLevels \in Nat /\ NoIndex \in NoIndex..MaxLevels - 1
    BY TransactionsAssumption DEF NoIndex
  <2>2. levels \in Seq(Owners) /\ Len(levels) <= MaxLevels
    BY <1>1, <2>1
  <2>3. index \in [Txs -> NoIndex..MaxLevels - 1] /\ bulk \in NoIndex..MaxLevels - 1
    BY <2>1 DEF Init
  <2>4. fresh \subseteq Txs /\ mats \in [Materials -> {"absent", "open", "dead"}]
    BY DEF Init
  <2>5. mixed \in BOOLEAN /\ undone \in BOOLEAN
    BY DEF Init
  <2>6. QED
    BY <2>2, <2>3, <2>4, <2>5 DEF TypeOK, Owners
<1>4. FiniteHolders /\ Count = 0
  BY <1>2, FS_EmptySet DEF FiniteHolders, Count
<1>5. Stacked
  BY <1>1, <1>2 DEF Stacked
<1>6. EveryLevelHasCloser
  BY <1>1, <1>4 DEF EveryLevelHasCloser
<1>7. QED
  BY <1>2, <1>3, <1>4, <1>5, <1>6 DEF StackInv

(* A rollback that is not mixed cancels one level.                         *)
LEMMA RolledBack ==
  ASSUME TypeOK, Stacked, NEW t \in Txs, RollbackTransaction(t), ~mixed'
  PROVE  ~InBulk /\ levels' = EndLevels(1)
<1>1. ~InBulk /\ IsTop(t) /\ levels' = CancelFrom(index[t])
  BY DEF RollbackTransaction
<1>2. index[t] + 1 = Len(levels) /\ Len(levels) \in Nat /\ Len(levels) >= 1
  BY <1>1, TopIsLast
<1>3. index[t] \in Int /\ Len(levels) <= MaxLevels /\ MaxLevels \in Nat
  BY LevelsOf, TransactionsAssumption DEF TypeOK
<1>4. index[t] \in 0..MaxLevels /\ index[t] < Len(levels) /\ Len(levels) - index[t] = 1
  BY <1>2, <1>3
<1>5. QED
  BY <1>1, <1>4, CancelFacts

(* So does the abort of a bulk_modify.                                     *)
LEMMA AbortedBulk ==
  ASSUME TypeOK, Stacked, BulkAbort
  PROVE  levels' = EndLevels(1)
<1>1. InBulk /\ levels' = CancelFrom(bulk)
  BY DEF BulkAbort
<1>2. bulk + 1 = Len(levels) /\ bulk \in Int /\ bulk >= 0
  BY <1>1 DEF Stacked, InBulk, TypeOK, NoIndex
<1>3. Len(levels) \in Nat /\ Len(levels) <= MaxLevels /\ MaxLevels \in Nat
  BY LevelsOf, TransactionsAssumption
<1>4. bulk \in 0..MaxLevels /\ bulk < Len(levels) /\ Len(levels) - bulk = 1
  BY <1>2, <1>3
<1>5. QED
  BY <1>1, <1>4, CancelFacts

LEMMA Mixed_Stays == [Next]_vars => (mixed => mixed')
  BY DEF Next, vars, BeginTransaction, CommitTransaction, RollbackTransaction,
     MatBeginTransaction, MatEndTransaction, DeleteMaterial, BulkBegin, BulkEnd,
     BulkAbort

LEMMA Next_Stacked ==
  ASSUME TypeOK, StackInv, [Next]_vars, ~mixed'
  PROVE  Stacked'
<1>0. ~mixed /\ Stacked /\ fresh \cap Registered = {}
  BY Mixed_Stays DEF StackInv
<1>1. ASSUME NEW t \in Txs, BeginTransaction(t)
      PROVE  Stacked'
  BY <1>0, <1>1, Opened_Stack
<1>2. ASSUME NEW t \in Txs, CommitTransaction(t)
      PROVE  Stacked'
  BY <1>0, <1>2, Left_Stack DEF CommitTransaction
<1>3. ASSUME NEW t \in Txs, RollbackTransaction(t)
      PROVE  Stacked'
  BY <1>0, <1>3, RolledBack, Left_Stack DEF RollbackTransaction
<1>4. ASSUME NEW m \in Materials, MatBeginTransaction(m) \/ MatEndTransaction(m)
      PROVE  Stacked'
  BY <1>0, <1>4, MatOpened_Stack, MatClosed_Stack
<1>5. ASSUME NEW m \in Materials, DeleteMaterial(m)
      PROVE  Stacked'
  <2>1. UNCHANGED <<levels, index, bulk>> /\ MatsHeld' = MatsHeld
    BY <1>5 DEF DeleteMaterial, MatsHeld, TypeOK
  <2>2. Registered' = Registered /\ InBulk' = InBulk
    BY <2>1 DEF Registered, InBulk
  <2>3. QED
    BY <1>0, <2>1, <2>2 DEF Stacked, Owned
<1>6. CASE BulkBegin
  BY <1>0, <1>6, BulkOpened_Stack
<1>7. CASE BulkEnd
  BY <1>0, <1>7, BulkClosed_Stack DEF BulkEnd
<1>8. CASE BulkAbort
  <2>1. InBulk /\ bulk' = NoIndex /\ UNCHANGED <<index, mats>>
    BY <1>8 DEF BulkAbort
  <2>2. QED
    BY <1>0, <1>8, <2>1, AbortedBulk, BulkClosed_Stack
<1>9. CASE UNCHANGED vars
  BY <1>0, <1>9 DEF vars, Stacked, Owned, Registered, MatsHeld, InBulk
<1>10. QED
  BY <1>1, <1>2, <1>3, <1>4, <1>5, <1>6, <1>7, <1>8, <1>9 DEF Next

LEMMA Next_Stack ==
  TypeOK /\ StackInv /\ [Next]_vars => TypeOK' /\ StackInv'
<1> SUFFICES ASSUME TypeOK, StackInv, [Next]_vars PROVE TypeOK' /\ StackInv'
  OBVIOUS
<1>0. /\ FiniteHolders /\ EveryLevelHasCloser /\ fresh \cap Registered = {}
      /\ ~mixed => Stacked
  BY DEF StackInv
<1>1. TypeOK'
  BY <1>0, Next_Types
<1>2. ~mixed' => Stacked'
  BY Next_Stacked
<1> DEFINE Rest == /\ FiniteHolders' /\ EveryLevelHasCloser'
                   /\ fresh' \cap Registered' = {}
<1>3. ASSUME NEW t \in Txs, BeginTransaction(t)
      PROVE  Rest
  BY <1>0, <1>3, Opened_Count
<1>4. ASSUME NEW t \in Txs, CommitTransaction(t)
      PROVE  Rest
  <2>1. /\ t \in Registered /\ index' = [index EXCEPT ![t] = NoIndex]
        /\ levels' = EndLevels(1) /\ UNCHANGED <<mats, bulk, fresh, undone>>
    BY <1>4 DEF CommitTransaction, IsTop
  <2>2. mixed => mixed'
    BY Mixed_Stays
  <2>3. QED
    BY <1>0, <2>1, <2>2, Left_Count
<1>5. ASSUME NEW t \in Txs, RollbackTransaction(t)
      PROVE  Rest
  <2>1. /\ t \in Registered /\ index' = [index EXCEPT ![t] = NoIndex]
        /\ undone' /\ UNCHANGED <<mats, bulk, fresh>>
    BY <1>5 DEF RollbackTransaction, IsTop
  <2>2. ~mixed' => ~mixed /\ levels' = EndLevels(1)
    BY <1>0, <1>5, Mixed_Stays, RolledBack
  <2>3. QED
    BY <1>0, <2>1, <2>2, Left_Count
<1>6. ASSUME FiniteHolders', EveryLevelHasCloser', UNCHANGED <<index, fresh>>
      PROVE  Rest
  BY <1>0, <1>6 DEF Registered
<1>7. ASSUME NEW m \in Materials, MatBeginTransaction(m)
      PROVE  Rest
  BY <1>0, <1>6, <1>7, MatBegin_Count DEF MatBeginTransaction
<1>8. ASSUME NEW m \in Materials, MatEndTransaction(m)
      PROVE  Rest
  BY <1>0, <1>6, <1>8, MatEnd_Count DEF MatEndTransaction
<1>9. ASSUME NEW m \in Materials, DeleteMaterial(m)
      PROVE  Rest
  <2>1. /\ UNCHANGED <<levels, index, bulk, mixed, undone, fresh>>
        /\ MatsHeld' = MatsHeld
    BY <1>9 DEF DeleteMaterial, MatsHeld, TypeOK
  <2>2. Registered' = Registered /\ InBulk' = InBulk
    BY <2>1 DEF Registered, InBulk
  <2>3. QED
    BY <1>0, <2>1, <2>2 DEF FiniteHolders, EveryLevelHasCloser, Count
<1>10. ASSUME BulkBegin \/ BulkEnd \/ BulkAbort
       PROVE  Rest
  <2>1. UNCHANGED <<index, fresh>>
    BY <1>10 DEF BulkBegin, BulkEnd, BulkAbort
  <2>2. FiniteHolders' /\ EveryLevelHasCloser'
    <3>1. FiniteHolders /\ EveryLevelHasCloser /\ (~mixed => Stacked)
      BY <1>0
    <3>2. QED
      BY <3>1, <1>10, Bulk_Count
  <2>3. Registered' = Registered /\ fresh' = fresh
    BY <2>1 DEF Registered
  <2>4. QED
    BY <1>0, <2>2, <2>3
<1>11. ASSUME UNCHANGED vars
       PROVE  Rest
  <2>1. UNCHANGED <<levels, index, fresh, mats, bulk, mixed, undone>>
    BY <1>11 DEF vars
  <2>2. /\ Registered' = Registered /\ MatsHeld' = MatsHeld
        /\ (InBulk' <=> InBulk)
    BY <2>1 DEF Registered, MatsHeld, InBulk
  <2>3. Count' = Count
    BY <2>2 DEF Count
  <2>4. FiniteHolders' /\ EveryLevelHasCloser'
    BY <1>0, <2>1, <2>2, <2>3 DEF FiniteHolders, EveryLevelHasCloser
  <2>5. QED
    BY <1>0, <2>1, <2>2, <2>4
<1>12. Rest
  <2>1. Next \/ UNCHANGED vars
    OBVIOUS
  <2>2. CASE \E t \in Txs : \/ BeginTransaction(t)
                           \/ CommitTransaction(t)
                           \/ RollbackTransaction(t)
    BY <2>2, <1>3, <1>4, <1>5
  <2>3. CASE \E m \in Materials : \/ MatBeginTransaction(m)
                                 \/ MatEndTransaction(m)
                                 \/ DeleteMaterial(m)
    BY <2>3, <1>7, <1>8, <1>9
  <2>4. CASE Next
    BY <2>2, <2>3, <2>4, <1>10 DEF Next
  <2>5. QED
    BY <2>1, <2>4, <1>11
<1>13. QED
  BY <1>1, <1>2, <1>12 DEF StackInv

(* The transactor's levels and the maps of the three tools keep their      *)
(* types, and the levels stay within the model's bound.                    *)
THEOREM TypeCorrect == Spec => []TypeOK
<1>1. Init => TypeOK /\ StackInv
  BY Init_Stack
<1>2. TypeOK /\ StackInv /\ [Next]_vars => TypeOK' /\ StackInv'
  BY Next_Stack
<1>3. QED
  BY <1>1, <1>2, PTL DEF Spec

LEMMA StackInvariant == Spec => []StackInv
<1>1. Init => TypeOK /\ StackInv
  BY Init_Stack
<1>2. TypeOK /\ StackInv /\ [Next]_vars => TypeOK' /\ StackInv'
  BY Next_Stack
<1>3. QED
  BY <1>1, <1>2, PTL DEF Spec

(* No level of the transactor is left open without a tx_id, a material or  *)
(* a bulk_modify that will end it, unless one was cancelled while the      *)
(* kinds were mixed (begin_, commit_ and rollback_transaction,             *)
(* mat.begin_ and mat.end_transaction, bulk_modify).                       *)
THEOREM LevelsHaveClosers == Spec => []EveryLevelHasCloser
<1>1. StackInv => EveryLevelHasCloser
  BY DEF StackInv
<1>2. QED
  BY <1>1, StackInvariant, PTL

(* The index kept for a tx_id stays the place of its own level.            *)
THEOREM IndexesAreOwn == Spec => []IndexIsOwnLevel
<1>1. TypeOK /\ StackInv => IndexIsOwnLevel
  <2> SUFFICES ASSUME TypeOK, StackInv, ~mixed
               PROVE  /\ \A t \in Registered : /\ index[t] + 1 \in DOMAIN levels
                                               /\ levels[index[t] + 1] = t
                      /\ InBulk => bulk + 1 = Len(levels)
    BY DEF IndexIsOwnLevel
  <2>1. DOMAIN levels = 1..Len(levels)
    BY LevelsOf
  <2>2. QED
    BY <2>1 DEF StackInv, Stacked
<1>2. QED
  BY <1>1, TypeCorrect, StackInvariant, PTL

(* The out-of-order guard of commit_ and rollback_transaction: what ends   *)
(* is the level of the tx_id itself, as long as the kinds are not mixed.   *)
THEOREM CommitsCloseOwnLevel == Spec => CommitsOwnLevelUnmixed
<1>1. TypeOK /\ StackInv /\ [Next]_vars
        => [~mixed' => \A t \in Txs : ClosesOwnLevel(t)]_vars
  <2> SUFFICES ASSUME TypeOK, StackInv, Next, ~mixed', NEW t \in Txs, Leaves(t)
               PROVE  /\ levels # <<>>
                      /\ levels[Len(levels)] = t
                      /\ levels' = SubSeq(levels, 1, Len(levels) - 1)
    BY DEF ClosesOwnLevel
  <2>1. ~mixed /\ Stacked
    BY Mixed_Stays DEF StackInv
  <2>2. t \in Registered /\ index[t] # NoIndex /\ index'[t] = NoIndex
    BY DEF Leaves, Registered
  <2>3. CommitTransaction(t) \/ RollbackTransaction(t)
    <3>1. ASSUME NEW u \in Txs, BeginTransaction(u)
          PROVE  FALSE
      <4>1. index' = [index EXCEPT ![u] = Len(levels)] /\ Len(levels) # NoIndex
        BY <3>1, LevelsOf DEF BeginTransaction, NoIndex
      <4>2. QED
        BY <2>2, <4>1 DEF TypeOK
    <3>2. ASSUME NEW u \in Txs, CommitTransaction(u) \/ RollbackTransaction(u)
          PROVE  u = t
      <4>1. index' = [index EXCEPT ![u] = NoIndex]
        BY <3>2 DEF CommitTransaction, RollbackTransaction
      <4>2. QED
        BY <2>2, <4>1 DEF TypeOK
    <3>3. CASE \/ \E m \in Materials : \/ MatBeginTransaction(m)
                                       \/ MatEndTransaction(m)
                                       \/ DeleteMaterial(m)
               \/ BulkBegin \/ BulkEnd \/ BulkAbort
      <4>1. index' = index
        BY <3>3 DEF MatBeginTransaction, MatEndTransaction, DeleteMaterial,
           BulkBegin, BulkEnd, BulkAbort
      <4>2. QED
        BY <2>2, <4>1
    <3>4. QED
      BY <3>1, <3>2, <3>3 DEF Next
  <2>4. ~InBulk /\ IsTop(t) /\ levels' = EndLevels(1)
    BY <2>1, <2>3, RolledBack DEF CommitTransaction, RollbackTransaction
  <2>5. Len(levels) >= 1 /\ levels[Len(levels)] = t
    BY <2>1, <2>4, TopIsLast
  <2>6. QED
    BY <2>4, <2>5 DEF EndLevels
<1>2. QED
  BY <1>1, TypeCorrect, StackInvariant, PTL DEF Spec, CommitsOwnLevelUnmixed

(* Levels up to n that a step leaves as they are begin the new sequence.   *)
LEMMA KeptPrefix ==
  ASSUME NEW S, NEW p \in Seq(S), NEW q \in Seq(S), NEW n \in Nat,
         n <= Len(p), n <= Len(q), \A i \in 1..n : q[i] = p[i]
  PROVE  IsPrefix(SubSeq(p, 1, n), q)
<1>1. /\ SubSeq(p, 1, n) \in Seq(S) /\ Len(SubSeq(p, 1, n)) = n
      /\ \A i \in 1..n : SubSeq(p, 1, n)[i] = p[i]
  BY PrefixFacts
<1>2. DOMAIN SubSeq(p, 1, n) = 1..n
  BY <1>1
<1>3. SubSeq(SubSeq(p, 1, n), 1, n) = SubSeq(q, 1, n)
  BY <1>1
<1>4. Len(SubSeq(p, 1, n)) <= Len(q)
  BY <1>1
<1>5. QED
  BY <1>1, <1>3, <1>4 DEF IsPrefix

(* The steps that only add levels, and those that end the innermost one.   *)
LEMMA KeptByOpening ==
  ASSUME TypeOK, Stacked, NEW t \in Registered, NEW o \in Owners,
         levels' = Append(levels, o)
  PROVE  IsPrefix(Below(t), levels')
<1>1. levels \in Seq(Owners) /\ Len(levels) \in Nat
  BY LevelsOf
<1>2. /\ levels' \in Seq(Owners) /\ Len(levels') = Len(levels) + 1
      /\ \A i \in 1..Len(levels) : levels'[i] = levels[i]
  BY <1>1, AppendFacts
<1>3. index[t] + 1 \in 1..Len(levels)
  BY DEF Stacked
<1>4. /\ index[t] + 1 \in Nat /\ index[t] + 1 <= Len(levels)
      /\ index[t] + 1 <= Len(levels')
      /\ \A i \in 1..index[t] + 1 : levels'[i] = levels[i]
  BY <1>1, <1>2, <1>3
<1>5. QED
  BY <1>1, <1>2, <1>4, KeptPrefix DEF Below

LEMMA KeptByClosing ==
  ASSUME TypeOK, Stacked, NEW t \in Registered, levels' = EndLevels(1),
         index[t] + 1 <= Len(levels) - 1
  PROVE  IsPrefix(Below(t), levels')
<1>1. levels \in Seq(Owners) /\ Len(levels) \in Nat
  BY LevelsOf
<1>2. index[t] + 1 \in 1..Len(levels)
  BY DEF Stacked
<1>3. /\ levels' \in Seq(Owners) /\ Len(levels') = Len(levels) - 1
      /\ \A i \in 1..Len(levels') : levels'[i] = levels[i]
  <2>1. 1 \in Nat /\ 1 <= Len(levels)
    BY <1>1, <1>2
  <2>2. QED
    BY <2>1, EndFacts
<1>4. /\ index[t] + 1 \in Nat /\ index[t] + 1 <= Len(levels)
      /\ index[t] + 1 <= Len(levels')
      /\ \A i \in 1..index[t] + 1 : levels'[i] = levels[i]
  BY <1>1, <1>2, <1>3
<1>5. QED
  BY <1>1, <1>3, <1>4, KeptPrefix DEF Below

(* An open transaction survives what is begun, committed, rolled back or   *)
(* aborted inside it: its index and the levels up to its own stay.         *)
THEOREM OuterLevelsSurvive == Spec => OuterLevelsStay
<1>1. TypeOK /\ StackInv /\ [Next]_vars
        => [~mixed' => \A t \in Registered :
              index'[t] # NoIndex => /\ index'[t] = index[t]
                                     /\ IsPrefix(Below(t), levels')]_vars
  <2> SUFFICES ASSUME TypeOK, StackInv, Next, ~mixed', NEW t \in Registered,
                      index'[t] # NoIndex
               PROVE  index'[t] = index[t] /\ IsPrefix(Below(t), levels')
    OBVIOUS
  <2>1. ~mixed /\ Stacked /\ fresh \cap Registered = {}
    BY Mixed_Stays DEF StackInv
  <2>2. t \in Txs /\ index[t] # NoIndex
    BY DEF Registered
  <2>3. ASSUME NEW u \in Txs, BeginTransaction(u)
        PROVE  index'[t] = index[t] /\ IsPrefix(Below(t), levels')
    <3>1. u # t /\ u \in Owners /\ levels' = Append(levels, u)
      BY <2>1, <2>3 DEF BeginTransaction, BeginLevel, Owners
    <3>2. index'[t] = index[t]
      BY <2>3, <3>1 DEF BeginTransaction, TypeOK
    <3>3. QED
      BY <2>1, <3>1, <3>2, KeptByOpening
  <2>4. ASSUME NEW u \in Txs, CommitTransaction(u) \/ RollbackTransaction(u)
        PROVE  index'[t] = index[t] /\ IsPrefix(Below(t), levels')
    <3>1. ~InBulk /\ IsTop(u) /\ levels' = EndLevels(1)
      BY <2>1, <2>4, RolledBack DEF CommitTransaction, RollbackTransaction
    <3>2. index' = [index EXCEPT ![u] = NoIndex]
      BY <2>4 DEF CommitTransaction, RollbackTransaction
    <3>3. u # t /\ index'[t] = index[t]
      BY <2>2, <3>2 DEF TypeOK
    <3>4. index[t] + 1 <= Len(levels) - 1
      BY <2>1, <3>1, <3>3, TopIsLast
    <3>5. QED
      BY <2>1, <3>1, <3>3, <3>4, KeptByClosing
  <2>5. ASSUME NEW m \in Materials, MatBeginTransaction(m) \/ MatEndTransaction(m)
        PROVE  FALSE
    <3>1. Registered = {}
      BY <2>1, <2>5 DEF MatBeginTransaction, MatEndTransaction, MatsHeld, Stacked
    <3>2. QED
      BY <3>1
  <2>6. ASSUME NEW m \in Materials, DeleteMaterial(m)
        PROVE  index'[t] = index[t] /\ IsPrefix(Below(t), levels')
    <3>1. UNCHANGED <<index, levels>>
      BY <2>6 DEF DeleteMaterial
    <3>2. levels \in Seq(Owners) /\ index[t] + 1 \in 1..Len(levels) /\ Len(levels) \in Nat
      BY <2>1, LevelsOf DEF Stacked
    <3>3. index[t] + 1 \in Nat /\ index[t] + 1 <= Len(levels)
      BY <3>2
    <3>4. IsPrefix(SubSeq(levels, 1, index[t] + 1), levels')
      BY <3>1, <3>2, <3>3, KeptPrefix
    <3>5. QED
      BY <3>1, <3>4 DEF Below
  <2>7. CASE BulkBegin
    <3>1. index' = index /\ levels' = Append(levels, Bulk) /\ Bulk \in Owners
      BY <2>7 DEF BulkBegin, BeginLevel, Owners
    <3>2. QED
      BY <2>1, <3>1, KeptByOpening
  <2>8. CASE BulkEnd \/ BulkAbort
    <3>1. InBulk /\ index' = index
      BY <2>8 DEF BulkEnd, BulkAbort
    <3>2. /\ bulk + 1 = Len(levels) /\ levels[bulk + 1] = Bulk /\ Len(levels) \in Nat
          /\ index[t] + 1 \in 1..Len(levels) /\ levels[index[t] + 1] = t
      BY <2>1, <3>1, LevelsOf DEF Stacked
    <3>3. index[t] + 1 # Len(levels)
      BY <2>2, <3>2, TransactionsAssumption
    <3>4. index[t] + 1 <= Len(levels) - 1
      BY <3>2, <3>3
    <3>5. levels' = EndLevels(1)
      BY <2>1, <2>8, <3>1, AbortedBulk DEF BulkEnd
    <3>6. QED
      BY <2>1, <3>1, <3>4, <3>5, KeptByClosing
  <2>9. QED
    BY <2>3, <2>4, <2>5, <2>6, <2>7, <2>8 DEF Next
<1>2. QED
  BY <1>1, TypeCorrect, StackInvariant, PTL DEF Spec, OuterLevelsStay
=============================================================================
