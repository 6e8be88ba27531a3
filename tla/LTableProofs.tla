----------------------------- MODULE LTableProofs -----------------------------
(***************************************************************************)
(* For every set of keys and values and every MaxArrayIndex: keys and k2i  *)
(* stay inverse to each other, and as long as the array stays below        *)
(* MaxArrayIndex an LTable implements LuaTable, and a pairs loop meets     *)
(* every key that keeps its value, each once.                              *)
(***************************************************************************)
EXTENDS TableTraversal, SequenceTheorems, WellFoundedInduction, TLAPS

(* t is s with v inserted at position p. *)
Inserted(t, s, p, v, S) ==
  /\ t \in Seq(S)
  /\ Len(t) = Len(s) + 1
  /\ \A i \in 1 .. Len(s) + 1 : (i < p => t[i] = s[i]) /\ (i > p => t[i] = s[i - 1])
  /\ t[p] = v

(* The elements of a sequence with one more at position p, and with the one
   at position p taken out. *)
LEMMA InsertAtFacts ==
  ASSUME NEW S, NEW s \in Seq(S), NEW v \in S, NEW p \in 1 .. Len(s)
  PROVE  Inserted(Seqs!InsertAt(s, p, v), s, p, v, S)
  <1> DEFINE l == SubSeq(s, 1, p - 1)
             r == SubSeq(s, p, Len(s))
             m == l \o <<v>>
  <1>1. Len(s) \in Nat /\ p \in Nat /\ p <= Len(s) /\ \A i \in 1 .. Len(s) : s[i] \in S
    OBVIOUS
  <1>2. l \in Seq(S) /\ Len(l) = p - 1 /\ \A i \in 1 .. p - 1 : l[i] = s[i]
    <2>1. \A i \in 1 .. p - 1 : s[i] \in S
      BY <1>1
    <2>2. /\ l \in Seq(S)
          /\ Len(l) = IF 1 <= p - 1 THEN (p - 1) - 1 + 1 ELSE 0
          /\ \A i \in 1 .. (p - 1) - 1 + 1 : l[i] = s[1 + i - 1]
      BY <1>1, <2>1, SubSeqProperties
    <2> HIDE DEF l
    <2> QED
      BY <1>1, <2>2
  <1>3. r \in Seq(S) /\ Len(r) = Len(s) - p + 1 /\ \A i \in 1 .. Len(s) - p + 1 : r[i] = s[p + i - 1]
    <2>1. \A i \in p .. Len(s) : s[i] \in S
      BY <1>1
    <2>2. /\ r \in Seq(S)
          /\ Len(r) = IF p <= Len(s) THEN Len(s) - p + 1 ELSE 0
          /\ \A i \in 1 .. Len(s) - p + 1 : r[i] = s[p + i - 1]
      BY <1>1, <2>1, SubSeqProperties
    <2> HIDE DEF r
    <2> QED
      BY <1>1, <2>2
  <1>4. <<v>> \in Seq(S) /\ Len(<<v>>) = 1 /\ <<v>>[1] = v
    OBVIOUS
  <1>5. Seqs!InsertAt(s, p, v) = m \o r
    BY DEF Seqs!InsertAt
  <1> HIDE DEF l, r
  <1>6. /\ m \in Seq(S) /\ Len(m) = p
        /\ \A i \in 1 .. p : m[i] = IF i < p THEN s[i] ELSE v
    <2>1. /\ m \in Seq(S) /\ Len(m) = Len(l) + 1
          /\ \A i \in 1 .. Len(l) + 1 : m[i] = IF i <= Len(l) THEN l[i] ELSE <<v>>[i - Len(l)]
      BY <1>2, <1>4, ConcatProperties
    <2> HIDE DEF m
    <2> QED
      BY <1>1, <1>2, <1>4, <2>1
  <1> HIDE DEF m
  <1>7. /\ m \o r \in Seq(S) /\ Len(m \o r) = Len(m) + Len(r)
        /\ \A i \in 1 .. Len(m) + Len(r) : (m \o r)[i] = IF i <= Len(m) THEN m[i] ELSE r[i - Len(m)]
    <2>1. m \in Seq(S) /\ r \in Seq(S)
      BY <1>3, <1>6
    <2> QED
      BY <2>1, ConcatProperties
  <1> DEFINE t == m \o r
  <1>8. /\ t \in Seq(S) /\ Len(t) = Len(s) + 1
        /\ \A i \in 1 .. Len(s) + 1 : t[i] = IF i <= p THEN m[i] ELSE r[i - p]
    <2>1. p + Len(r) = Len(s) + 1
      BY <1>1, <1>3
    <2> QED
      BY <1>6, <1>7, <2>1, Zenon
  <1> HIDE DEF t
  <1>9. ASSUME NEW i \in 1 .. Len(s) + 1
        PROVE  (i < p => t[i] = s[i]) /\ (i = p => t[i] = v) /\ (i > p => t[i] = s[i - 1])
    <2>1. CASE i <= p
      BY <1>1, <1>6, <1>8, <2>1
    <2>2. CASE i > p
      <3>1. i - p \in 1 .. Len(s) - p + 1 /\ p + (i - p) - 1 = i - 1
        BY <1>1, <2>2
      <3>2. r[i - p] = s[i - 1]
        BY <1>3, <3>1
      <3> QED
        BY <1>1, <1>8, <2>2, <3>2
    <2> QED
      BY <1>1, <2>1, <2>2
  <1> QED
    BY <1>1, <1>5, <1>8, <1>9 DEF t, Inserted

LEMMA RemoveAtFacts ==
  ASSUME NEW S, NEW s \in Seq(S), NEW p \in 1 .. Len(s)
  PROVE  LET t == Seqs!RemoveAt(s, p)
         IN  /\ t \in Seq(S)
             /\ Len(t) = Len(s) - 1
             /\ \A i \in 1 .. Len(s) - 1 : t[i] = IF i < p THEN s[i] ELSE s[i + 1]
  <1> DEFINE l == SubSeq(s, 1, p - 1)
             r == SubSeq(s, p + 1, Len(s))
  <1>1. Len(s) \in Nat /\ p \in Nat /\ p <= Len(s) /\ \A i \in 1 .. Len(s) : s[i] \in S
    OBVIOUS
  <1>2. l \in Seq(S) /\ Len(l) = p - 1 /\ \A i \in 1 .. p - 1 : l[i] = s[i]
    <2>1. \A i \in 1 .. p - 1 : s[i] \in S
      BY <1>1
    <2>2. /\ l \in Seq(S)
          /\ Len(l) = IF 1 <= p - 1 THEN (p - 1) - 1 + 1 ELSE 0
          /\ \A i \in 1 .. (p - 1) - 1 + 1 : l[i] = s[1 + i - 1]
      BY <1>1, <2>1, SubSeqProperties
    <2> HIDE DEF l
    <2> QED
      BY <1>1, <2>2
  <1>3. r \in Seq(S) /\ Len(r) = Len(s) - p /\ \A i \in 1 .. Len(s) - p : r[i] = s[p + i]
    <2>1. \A i \in p + 1 .. Len(s) : s[i] \in S
      BY <1>1
    <2>2. /\ r \in Seq(S)
          /\ Len(r) = IF p + 1 <= Len(s) THEN Len(s) - (p + 1) + 1 ELSE 0
          /\ \A i \in 1 .. Len(s) - (p + 1) + 1 : r[i] = s[(p + 1) + i - 1]
      BY <1>1, <2>1, SubSeqProperties
    <2> HIDE DEF r
    <2> QED
      BY <1>1, <2>2
  <1> DEFINE t == l \o r
  <1>4. Seqs!RemoveAt(s, p) = t
    BY DEF Seqs!RemoveAt
  <1> HIDE DEF l, r
  <1>5. /\ t \in Seq(S) /\ Len(t) = Len(l) + Len(r)
        /\ \A i \in 1 .. Len(l) + Len(r) : t[i] = IF i <= Len(l) THEN l[i] ELSE r[i - Len(l)]
    <2>1. l \in Seq(S) /\ r \in Seq(S)
      BY <1>2, <1>3
    <2> QED
      BY <2>1, ConcatProperties
  <1> HIDE DEF t
  <1>6. ASSUME NEW i \in 1 .. Len(s) - 1
        PROVE  t[i] = IF i < p THEN s[i] ELSE s[i + 1]
    <2>1. CASE i < p
      <3>1. i <= Len(l) /\ i \in 1 .. Len(l) + Len(r) /\ l[i] = s[i]
        BY <1>1, <1>2, <1>3, <2>1
      <3> QED
        BY <1>5, <2>1, <3>1
    <2>2. CASE i >= p
      <3>1. i - (p - 1) \in 1 .. Len(s) - p /\ p + (i - (p - 1)) = i + 1
        BY <1>1, <2>2
      <3>2. r[i - (p - 1)] = s[i + 1]
        BY <1>3, <3>1
      <3>3. ~(i <= Len(l)) /\ i \in 1 .. Len(l) + Len(r) /\ i - Len(l) = i - (p - 1)
        BY <1>1, <1>2, <1>3, <2>2
      <3> QED
        BY <1>1, <1>5, <2>2, <3>2, <3>3
    <2> QED
      BY <1>1, <2>1, <2>2
  <1> QED
    BY <1>1, <1>2, <1>3, <1>4, <1>5, <1>6

LessThan == {ss \in Nat \X Nat : ss[1] < ss[2]}

LEMMA LessThanWellFounded == IsWellFoundedOn(LessThan, Nat)
  BY NatLessThanWellFounded DEF OpToRel, LessThan

(* A set of numbers that is not empty and has a bound has a maximum. *)
LEMMA MaximumExists ==
  ASSUME NEW n \in Nat, NEW I \in SUBSET (1 .. n), I # {}
  PROVE  \E x \in I : \A y \in I : x >= y
  <1> DEFINE T == {n - x : x \in I}
  <1>1. T \subseteq Nat /\ T # {}
    <2>1. \A x \in I : x \in 1 .. n /\ n - x \in Nat
      OBVIOUS
    <2>2. PICK x \in I : TRUE
      OBVIOUS
    <2>3. n - x \in T
      OBVIOUS
    <2>4. T # {}
      BY <2>3, Zenon
    <2> QED
      BY <2>1, <2>4
  <1>2. \A t, u \in Nat : <<t, u>> \in LessThan <=> t < u
    BY DEF LessThan
  <1>3. \E t \in T : \A u \in T : <<u, t>> \notin LessThan
    <2> HIDE DEF T
    <2> QED
      BY <1>1, LessThanWellFounded, WFMin
  <1>4. PICK t \in T : \A u \in T : ~(u < t)
    <2>1. PICK t \in T : \A u \in T : <<u, t>> \notin LessThan
      BY <1>3
    <2> HIDE DEF T
    <2> QED
      BY <1>1, <1>2, <2>1
  <1>5. PICK x \in I : t = n - x
    BY <1>4
  <1>6. \A y \in I : ~(n - y < n - x)
    BY <1>4, <1>5
  <1> QED
    BY <1>5, <1>6

-----------------------------------------------------------------------------
USE TableAssumption

Inv == TypeOK /\ KeysIndexed

(* The array ends below MaxArrayIndex. *)
Small == Len(array) < MaxArrayIndex

LEMMA KeyKinds ==
  /\ ArrayKeys \subseteq Int /\ HashKeys \cap ArrayKeys = {}
  /\ Keys = ArrayKeys \cup HashKeys
  /\ IntKeys \subseteq Keys
  /\ \A k \in IntKeys : k \notin ArrayKeys => k \in FarKeys
  /\ FarKeys \subseteq HashKeys
  /\ \A k \in FarKeys : k < 1 \/ k >= MaxArrayIndex
  <1>1. ArrayKeys \subseteq Int
    BY DEF ArrayKeys
  <1>2. HashKeys \cap ArrayKeys = {}
    BY <1>1 DEF HashKeys
  <1>3. \A k \in FarKeys : k < 1 \/ k >= MaxArrayIndex
    BY DEF ArrayKeys
  <1> QED
    BY <1>1, <1>2, <1>3 DEF Keys, IntKeys, HashKeys

(* What a store in the array does to its elements. *)
LEMMA SetArrayFacts ==
  ASSUME TypeOK, NEW k \in Nat \ {0}, NEW v \in Values \cup {Nil}, SetArray(k, v)
  PROVE  /\ array' \in Seq(Values \cup {Nil})
         /\ Len(array') \in Nat /\ Len(array') >= k /\ Len(array') >= Len(array)
         /\ Len(array') = k \/ Len(array') = Len(array)
         /\ array'[k] = v
         /\ \A i \in 1 .. Len(array) : i # k => array'[i] = array[i]
         /\ \A i \in 1 .. Len(array') : i > Len(array) /\ i # k => array'[i] = Nil
  <1> DEFINE n == Len(array)
             m == IF k > n THEN k ELSE n
  <1>1. array \in Seq(Values \cup {Nil}) /\ n \in Nat /\ m \in Nat
    BY DEF TypeOK
  <1>2. array' = [i \in 1 .. m |-> IF i = k THEN v ELSE IF i <= n THEN array[i] ELSE Nil]
    BY DEF SetArray
  <1>3. \A i \in 1 .. n : array[i] \in Values \cup {Nil}
    BY <1>1
  <1> HIDE DEF n, m
  <1>4. array' \in [1 .. m -> Values \cup {Nil}]
    <2> SUFFICES ASSUME NEW i \in 1 .. m
                 PROVE  (IF i = k THEN v ELSE IF i <= n THEN array[i] ELSE Nil) \in Values \cup {Nil}
      BY <1>2
    <2>1. i <= n => i \in 1 .. n
      BY <1>1
    <2> QED
      BY <1>3, <2>1
  <1>5. array' \in Seq(Values \cup {Nil}) /\ Len(array') = m
    BY <1>1, <1>4
  <1>6. m >= k /\ m >= n /\ (m = k \/ m = n)
    BY <1>1 DEF m
  <1> QED
    BY <1>1, <1>2, <1>5, <1>6 DEF n

LEMMA SetArrayInv ==
  ASSUME Inv, NEW k \in Nat \ {0}, NEW v \in Values \cup {Nil}, SetArray(k, v)
  PROVE  Inv'
  <1>1. TypeOK /\ UNCHANGED <<hash, keys, k2i>>
    BY DEF Inv, SetArray
  <1>2. array' \in Seq(Values \cup {Nil})
    BY <1>1, SetArrayFacts
  <1> QED
    BY <1>1, <1>2 DEF Inv, TypeOK, KeysIndexed

(* Recording a key for the first time, or once more. *)
LEMMA RawSetHInv ==
  ASSUME Inv, NEW k \in HashKeys, NEW v \in Values \cup {Nil}, RawSetH(k, v)
  PROVE  Inv'
  <1>1. /\ hash \in [HashKeys -> Values \cup {Nil}] /\ keys \in Seq(HashKeys)
        /\ k2i \in [HashKeys -> Nat \cup {-1}] /\ array' = array
        /\ hash' = [hash EXCEPT ![k] = v]
    BY DEF Inv, TypeOK, RawSetH
  <1>2. hash' \in [HashKeys -> Values \cup {Nil}]
    BY <1>1
  <1>3. CASE v # Nil /\ k2i[k] = -1
    <2>1. k2i' = [k2i EXCEPT ![k] = Len(keys)] /\ keys' = Append(keys, k)
      BY <1>3 DEF RawSetH
    <2>2. /\ keys' \in Seq(HashKeys) /\ Len(keys') = Len(keys) + 1 /\ Len(keys) \in Nat
          /\ \A i \in 1 .. Len(keys) : keys'[i] = keys[i]
          /\ keys'[Len(keys) + 1] = k
      BY <1>1, <2>1, AppendProperties
    <2>3. /\ k2i' \in [HashKeys -> Nat \cup {-1}]
          /\ k2i'[k] = Len(keys)
          /\ \A j \in HashKeys : j # k => k2i'[j] = k2i[j]
      BY <1>1, <2>1, <2>2
    <2>4. \A i \in 1 .. Len(keys) : keys[i] \in HashKeys /\ keys[i] # k
      BY <1>1, <1>3 DEF Inv, KeysIndexed
    <2>5. \A i \in 1 .. Len(keys') : k2i'[keys'[i]] = i - 1
      <3> SUFFICES ASSUME NEW i \in 1 .. Len(keys') PROVE k2i'[keys'[i]] = i - 1
        OBVIOUS
      <3>1. i \in 1 .. Len(keys) \/ i = Len(keys) + 1
        BY <2>2
      <3>2. CASE i \in 1 .. Len(keys)
        BY <2>2, <2>3, <2>4, <3>2 DEF Inv, KeysIndexed
      <3>3. CASE i = Len(keys) + 1
        BY <2>2, <2>3, <3>3
      <3> QED
        BY <3>1, <3>2, <3>3
    <2>6. ASSUME NEW j \in HashKeys
          PROVE  /\ k2i'[j] # -1 => k2i'[j] < Len(keys') /\ keys'[k2i'[j] + 1] = j
                 /\ hash'[j] # Nil => k2i'[j] # -1
      <3>1. CASE j = k
        BY <1>1, <2>2, <2>3, <3>1
      <3>2. CASE j # k
        <4>1. k2i'[j] = k2i[j] /\ hash'[j] = hash[j] /\ k2i[j] \in Nat \cup {-1}
          BY <1>1, <2>3, <3>2
        <4>2. /\ k2i[j] # -1 => k2i[j] < Len(keys) /\ keys[k2i[j] + 1] = j
              /\ hash[j] # Nil => k2i[j] # -1
          BY DEF Inv, KeysIndexed
        <4>3. k2i[j] # -1 => k2i[j] + 1 \in 1 .. Len(keys)
          BY <2>2, <4>1, <4>2
        <4> QED
          BY <2>2, <4>1, <4>2, <4>3
      <3> QED
        BY <3>1, <3>2
    <2> QED
      BY <1>1, <1>2, <2>2, <2>3, <2>5, <2>6 DEF Inv, TypeOK, KeysIndexed
  <1>4. CASE ~(v # Nil /\ k2i[k] = -1)
    <2>1. UNCHANGED <<keys, k2i>>
      BY <1>4 DEF RawSetH
    <2>2. \A j \in HashKeys : hash'[j] # Nil => k2i[j] # -1
      BY <1>1, <1>4 DEF Inv, KeysIndexed
    <2> QED
      BY <1>1, <1>2, <2>1, <2>2 DEF Inv, TypeOK, KeysIndexed
  <1> QED
    BY <1>3, <1>4

(* Length is the position of the last element that is not nil. *)
LEMMA LengthFacts ==
  ASSUME TypeOK
  PROVE  /\ Length \in 0 .. Len(array)
         /\ Length # 0 => array[Length] # Nil
         /\ \A i \in 1 .. Len(array) : i > Length => array[i] = Nil
  <1> DEFINE I == {i \in 1 .. Len(array) : array[i] # Nil}
             max == CHOOSE x \in I : \A y \in I : x >= y
  <1>1. Length = IF I # {} THEN max ELSE 0
    BY DEF Length, NotNil, Seqs!SelectLastInSeq, Seqs!Max
  <1>2. Len(array) \in Nat
    BY DEF TypeOK
  <1>3. CASE I = {}
    BY <1>1, <1>2, <1>3
  <1>4. CASE I # {}
    <2>1. \E x \in I : \A y \in I : x >= y
      BY <1>2, <1>4, MaximumExists
    <2>2. max \in I /\ \A y \in I : max >= y
      BY <2>1
    <2> QED
      BY <1>1, <1>2, <1>4, <2>2
  <1> QED
    BY <1>3, <1>4
-----------------------------------------------------------------------------
(* The cases of the operations. *)
LEMMA RawSetCases ==
  ASSUME NEW k \in Keys, NEW v, RawSet(k, v)
  PROVE  \/ k \in ArrayKeys /\ SetArray(k, v)
         \/ k \in HashKeys /\ RawSetH(k, v)
  BY KeyKinds DEF RawSet, isArrayKey

LEMMA RawSetIntCases ==
  ASSUME NEW k \in IntKeys, NEW v, RawSetInt(k, v)
  PROVE  \/ k \in ArrayKeys /\ SetArray(k, v)
         \/ k \in HashKeys /\ RawSetH(k, v)
  <1>1. CASE k \in ArrayKeys
    <2>1. ~(k < 1 \/ k >= MaxArrayIndex)
      BY <1>1 DEF ArrayKeys
    <2> QED
      BY <1>1, <2>1 DEF RawSetInt
  <1>2. CASE k \in FarKeys
    <2>1. k < 1 \/ k >= MaxArrayIndex
      BY <1>2, KeyKinds
    <2> QED
      BY <1>2, <2>1, KeyKinds DEF RawSetInt
  <1> QED
    BY <1>1, <1>2, KeyKinds

LEMMA InsertCases ==
  ASSUME TypeOK, NEW pos \in IntKeys, NEW v, Insert(pos, v)
  PROVE  \/ pos \in ArrayKeys /\ pos > Len(array) /\ SetArray(pos, v)
         \/ pos \in FarKeys /\ RawSetH(pos, v)
         \/ /\ pos \in 1 .. Len(array) /\ Len(array) < ArrayBound
            /\ array' = Seqs!InsertAt(array, pos, v)
            /\ UNCHANGED <<hash, keys, k2i>>
  <1>1. Len(array) \in Nat /\ pos \in Int
    BY KeyKinds DEF TypeOK, IntKeys
  <1>2. CASE pos > Len(array)
    <2>1. RawSetInt(pos, v)
      BY <1>2 DEF Insert
    <2>2. \/ pos \in ArrayKeys /\ SetArray(pos, v)
          \/ pos \in HashKeys /\ RawSetH(pos, v)
      BY <2>1, RawSetIntCases
    <2> QED
      BY <1>2, <2>2, KeyKinds
  <1>3. CASE pos <= 0
    <2>1. RawSet(pos, v)
      BY <1>1, <1>3 DEF Insert
    <2>2. pos \notin ArrayKeys
      BY <1>1, <1>3 DEF ArrayKeys
    <2> QED
      BY <2>1, <2>2, KeyKinds DEF RawSet, isArrayKey
  <1>4. CASE ~(pos > Len(array)) /\ ~(pos <= 0)
    BY <1>1, <1>4 DEF Insert
  <1> QED
    BY <1>2, <1>3, <1>4

LEMMA RemoveCases ==
  ASSUME TypeOK, NEW pos \in IntKeys, Remove(pos)
  PROVE  /\ UNCHANGED <<hash, keys, k2i>>
         /\ \/ UNCHANGED array /\ (pos < 1 \/ pos > Len(array))
            \/ \E p \in 1 .. Len(array) :
                 /\ array' = Seqs!RemoveAt(array, p)
                 /\ pos >= 1 => p = pos
  <1> DEFINE p == IF pos < 1 THEN Len(array) ELSE pos
  <1>1. Len(array) \in Nat /\ pos \in Int
    BY KeyKinds DEF TypeOK, IntKeys
  <1>2. CASE p \in 1 .. Len(array)
    BY <1>1, <1>2 DEF Remove
  <1>3. CASE p \notin 1 .. Len(array)
    BY <1>1, <1>3 DEF Remove
  <1> QED
    BY <1>2, <1>3

-----------------------------------------------------------------------------
(* What an insert and a remove do to the elements of the array. *)
LEMMA InsertAtArray ==
  ASSUME TypeOK, NEW p \in 1 .. Len(array), NEW v \in Values \cup {Nil},
         array' = Seqs!InsertAt(array, p, v)
  PROVE  /\ array' \in Seq(Values \cup {Nil})
         /\ Len(array') = Len(array) + 1
         /\ \A i \in 1 .. Len(array) + 1 :
              (i < p => array'[i] = array[i]) /\ (i > p => array'[i] = array[i - 1])
         /\ array'[p] = v
  <1> DEFINE S == Values \cup {Nil}
  <1>1. array \in Seq(S) /\ v \in S
    BY DEF TypeOK
  <1> HIDE DEF S
  <1>2. Inserted(Seqs!InsertAt(array, p, v), array, p, v, S)
    BY <1>1, InsertAtFacts
  <1> QED
    BY <1>2, Zenon DEF S, Inserted

LEMMA RemoveAtArray ==
  ASSUME TypeOK, NEW p \in 1 .. Len(array), array' = Seqs!RemoveAt(array, p)
  PROVE  /\ array' \in Seq(Values \cup {Nil})
         /\ Len(array') = Len(array) - 1
         /\ \A i \in 1 .. Len(array) - 1 : array'[i] = IF i < p THEN array[i] ELSE array[i + 1]
  <1>1. array \in Seq(Values \cup {Nil})
    BY DEF TypeOK
  <1>2. /\ Seqs!RemoveAt(array, p) \in Seq(Values \cup {Nil})
        /\ Len(Seqs!RemoveAt(array, p)) = Len(array) - 1
        /\ \A i \in 1 .. Len(array) - 1 :
             Seqs!RemoveAt(array, p)[i] = IF i < p THEN array[i] ELSE array[i + 1]
    BY <1>1, RemoveAtFacts, Zenon
  <1> QED
    BY <1>2, Zenon

(* What does not touch the hash keeps keys and k2i in order. *)
LEMMA ArrayInv ==
  ASSUME Inv, array' \in Seq(Values \cup {Nil}), UNCHANGED <<hash, keys, k2i>>
  PROVE  Inv'
  BY DEF Inv, TypeOK, KeysIndexed

LEMMA InitInv == Init => Inv /\ Small
  <1> SUFFICES ASSUME Init PROVE Inv /\ Small
    OBVIOUS
  <1>1. keys = << >> /\ Len(keys) = 0 /\ Len(array) = 0
    BY DEF Init
  <1>2. TypeOK
    BY DEF Init, TypeOK
  <1>3. KeysIndexed
    BY <1>1 DEF Init, KeysIndexed
  <1> QED
    BY <1>1, <1>2, <1>3 DEF Inv, Small

LEMMA NextInv == Inv /\ [Next]_vars => Inv'
  <1> SUFFICES ASSUME Inv, [Next]_vars PROVE Inv'
    OBVIOUS
  <1>1. TypeOK
    BY DEF Inv
  <1>2. \A k \in ArrayKeys : k \in Nat \ {0}
    BY DEF ArrayKeys
  <1>3. ASSUME NEW k \in Keys, NEW v \in Values \cup {Nil}, RawSet(k, v)
        PROVE  Inv'
    BY <1>2, <1>3, RawSetCases, SetArrayInv, RawSetHInv
  <1>4. ASSUME NEW k \in IntKeys, NEW v \in Values \cup {Nil}, RawSetInt(k, v)
        PROVE  Inv'
    BY <1>2, <1>4, RawSetIntCases, SetArrayInv, RawSetHInv
  <1>5. ASSUME NEW v \in Values, AppendValue(v)
        PROVE  Inv'
    <2>1. Length + 1 \in Nat \ {0}
      BY <1>1, LengthFacts DEF TypeOK
    <2> QED
      BY <1>5, <2>1, SetArrayInv DEF AppendValue
  <1>6. ASSUME NEW pos \in IntKeys, NEW v \in Values \cup {Nil}, Insert(pos, v)
        PROVE  Inv'
    <2>1. CASE pos \in ArrayKeys /\ SetArray(pos, v)
      BY <1>2, <2>1, SetArrayInv
    <2>2. CASE pos \in FarKeys /\ RawSetH(pos, v)
      BY <2>2, RawSetHInv, KeyKinds
    <2>3. CASE /\ pos \in 1 .. Len(array)
               /\ array' = Seqs!InsertAt(array, pos, v)
               /\ UNCHANGED <<hash, keys, k2i>>
      <3>1. array \in Seq(Values \cup {Nil})
        BY <1>1 DEF TypeOK
      <3>2. array' \in Seq(Values \cup {Nil})
        BY <1>1, <2>3, InsertAtArray
      <3> QED
        BY <2>3, <3>2, ArrayInv
    <2> QED
      BY <1>1, <1>6, <2>1, <2>2, <2>3, InsertCases
  <1>7. ASSUME NEW pos \in IntKeys, Remove(pos)
        PROVE  Inv'
    <2>1. array \in Seq(Values \cup {Nil})
      BY <1>1 DEF TypeOK
    <2>2. array' \in Seq(Values \cup {Nil})
      BY <1>1, <1>7, <2>1, RemoveCases, RemoveAtFacts
    <2>3. UNCHANGED <<hash, keys, k2i>>
      BY <1>1, <1>7, RemoveCases
    <2> QED
      BY <2>2, <2>3, ArrayInv
  <1>8. ASSUME UNCHANGED vars
        PROVE  Inv'
    BY <1>8 DEF vars, Inv, TypeOK, KeysIndexed
  <1> QED
    BY <1>3, <1>4, <1>5, <1>6, <1>7, <1>8 DEF Next

(* The parts of a table have their types, whatever a program stores. *)
THEOREM LTableTypeOK == Spec => []TypeOK
  <1>1. Inv => TypeOK
    BY DEF Inv
  <1> QED
    BY InitInv, NextInv, <1>1, PTL DEF Spec

(* keys and k2i (RawSetH, RawSetString, Next) stay inverse to each other and
   know every key with a value, whatever a program stores and removes. *)
THEOREM LTableKeysIndexed == Spec => []KeysIndexed
  <1>1. Inv => KeysIndexed
    BY DEF Inv
  <1> QED
    BY InitInv, NextInv, <1>1, PTL DEF Spec
-----------------------------------------------------------------------------
(* As long as appends and inserts do not reach MaxArrayIndex, no table does. *)
AppendsBelow == ArrayBound < MaxArrayIndex

LEMMA SetArraySmall ==
  ASSUME TypeOK, Small, NEW k \in Nat \ {0}, k < MaxArrayIndex,
         NEW v \in Values \cup {Nil}, SetArray(k, v)
  PROVE  Small'
  <1>1. Len(array') \in Nat /\ (Len(array') = k \/ Len(array') = Len(array))
    BY SetArrayFacts
  <1> QED
    BY <1>1 DEF Small

LEMMA NextSmall ==
  ASSUME AppendsBelow, Inv, Small, [Next]_vars
  PROVE  Small'
  <1>1. TypeOK /\ array \in Seq(Values \cup {Nil}) /\ Len(array) \in Nat
    BY DEF Inv, TypeOK
  <1>2. \A k \in ArrayKeys : k \in Nat \ {0} /\ k < MaxArrayIndex
    BY DEF ArrayKeys
  <1>3. ASSUME NEW k \in Keys, NEW v \in Values \cup {Nil}, RawSet(k, v)
        PROVE  Small'
    <2>1. \/ k \in ArrayKeys /\ SetArray(k, v)
          \/ UNCHANGED array
      BY <1>3, RawSetCases DEF RawSetH
    <2> QED
      BY <1>1, <1>2, <2>1, SetArraySmall DEF Small
  <1>4. ASSUME NEW k \in IntKeys, NEW v \in Values \cup {Nil}, RawSetInt(k, v)
        PROVE  Small'
    <2>1. \/ k \in ArrayKeys /\ SetArray(k, v)
          \/ UNCHANGED array
      BY <1>4, RawSetIntCases DEF RawSetH
    <2> QED
      BY <1>1, <1>2, <2>1, SetArraySmall DEF Small
  <1>5. ASSUME NEW v \in Values, AppendValue(v)
        PROVE  Small'
    <2>1. Length + 1 \in Nat \ {0} /\ Length + 1 < MaxArrayIndex
      BY <1>1, <1>5, LengthFacts DEF AppendValue, AppendsBelow
    <2>2. SetArray(Length + 1, v)
      BY <1>5 DEF AppendValue
    <2> HIDE DEF Length
    <2> QED
      BY <1>1, <2>1, <2>2, SetArraySmall
  <1>6. ASSUME NEW pos \in IntKeys, NEW v \in Values \cup {Nil}, Insert(pos, v)
        PROVE  Small'
    <2>1. CASE pos \in ArrayKeys /\ SetArray(pos, v)
      BY <1>1, <1>2, <2>1, SetArraySmall
    <2>2. CASE RawSetH(pos, v)
      BY <2>2 DEF RawSetH, Small
    <2>3. CASE /\ pos \in 1 .. Len(array) /\ Len(array) < ArrayBound
               /\ array' = Seqs!InsertAt(array, pos, v)
      <3>1. Len(array') = Len(array) + 1
        BY <1>1, <2>3, InsertAtArray
      <3>2. Len(array) < ArrayBound /\ ArrayBound < MaxArrayIndex
        BY <2>3 DEF AppendsBelow
      <3>3. Len(array) + 1 < MaxArrayIndex
        BY <1>1, <3>2
      <3> QED
        BY <3>1, <3>3 DEF Small
    <2> QED
      BY <1>1, <1>6, <2>1, <2>2, <2>3, InsertCases
  <1>7. ASSUME NEW pos \in IntKeys, Remove(pos)
        PROVE  Small'
    <2>1. Len(array') = Len(array) \/ Len(array') = Len(array) - 1
      BY <1>1, <1>7, RemoveCases, RemoveAtArray
    <2> QED
      BY <1>1, <2>1 DEF Small
  <1>8. ASSUME UNCHANGED vars
        PROVE  Small'
    BY <1>8 DEF vars, Small
  <1> QED
    BY <1>3, <1>4, <1>5, <1>6, <1>7, <1>8 DEF Next

-----------------------------------------------------------------------------
(* The table a program sees, and what the stores do to it. *)
LEMMA MapAt ==
  ASSUME NEW k \in Keys
  PROVE  /\ map[k] = RawGet(k)
         /\ k \in ArrayKeys => map[k] = IF k <= Len(array) THEN array[k] ELSE Nil
         /\ k \notin ArrayKeys => map[k] = hash[k]
  BY DEF map, RawGet, RawGetH, isArrayKey

LEMMA MapAtPrime ==
  ASSUME NEW k \in Keys
  PROVE  /\ map'[k] = RawGet(k)'
         /\ k \in ArrayKeys => map'[k] = IF k <= Len(array') THEN array'[k] ELSE Nil
         /\ k \notin ArrayKeys => map'[k] = hash'[k]
  BY DEF map, RawGet, RawGetH, isArrayKey

LEMMA SetArrayMap ==
  ASSUME TypeOK, NEW k \in ArrayKeys, NEW v \in Values \cup {Nil}, SetArray(k, v)
  PROVE  Abstract!Set(k, v)
  <1>1. /\ k \in Nat \ {0} /\ Len(array) \in Nat /\ k \in Keys
        /\ \A j \in ArrayKeys : j \in Nat \ {0}
    BY KeyKinds DEF TypeOK, ArrayKeys
  <1>2. /\ Len(array') \in Nat /\ Len(array') >= k /\ Len(array') >= Len(array)
        /\ array'[k] = v
        /\ \A i \in 1 .. Len(array) : i # k => array'[i] = array[i]
        /\ \A i \in 1 .. Len(array') : i > Len(array) /\ i # k => array'[i] = Nil
    BY <1>1, SetArrayFacts
  <1>3. hash' = hash
    BY DEF SetArray
  <1>4. \A j \in ArrayKeys : j \in Nat \ {0}
    BY <1>1
  <1>5. Len(array) \in Nat /\ Len(array') \in Nat /\ Len(array') >= Len(array)
    BY <1>1, <1>2
  <1>6. ASSUME NEW j \in Keys
        PROVE  map'[j] = IF j = k THEN v ELSE map[j]
    <2>1. CASE j \in ArrayKeys
      <3>1. map[j] = IF j <= Len(array) THEN array[j] ELSE Nil
        BY <2>1, MapAt
      <3>2. map'[j] = IF j <= Len(array') THEN array'[j] ELSE Nil
        BY <2>1, MapAtPrime
      <3>3. CASE j = k
        BY <1>2, <3>2, <3>3
      <3>4. CASE j # k /\ j <= Len(array)
        <4>1. j \in 1 .. Len(array) /\ j <= Len(array')
          BY <1>4, <1>5, <2>1, <3>4
        <4> QED
          BY <1>2, <3>1, <3>2, <3>4, <4>1
      <3>5. CASE j # k /\ ~(j <= Len(array))
        <4>1. j <= Len(array') => j \in 1 .. Len(array') /\ j > Len(array)
          BY <1>4, <1>5, <2>1, <3>5
        <4> QED
          BY <1>2, <3>1, <3>2, <3>5, <4>1
      <3> QED
        BY <3>3, <3>4, <3>5
    <2>2. CASE j \notin ArrayKeys
      BY <1>3, <2>2, MapAt, MapAtPrime
    <2> QED
      BY <2>1, <2>2
  <1> QED
    BY <1>1, <1>6 DEF Abstract!Set, map

LEMMA RawSetHMap ==
  ASSUME TypeOK, NEW k \in HashKeys, NEW v \in Values \cup {Nil}, RawSetH(k, v)
  PROVE  Abstract!Set(k, v)
  <1>1. /\ array' = array /\ hash' = [hash EXCEPT ![k] = v]
        /\ hash \in [HashKeys -> Values \cup {Nil}]
    BY DEF RawSetH, TypeOK
  <1>2. k \in Keys /\ k \notin ArrayKeys
    BY KeyKinds
  <1>3. ASSUME NEW j \in Keys
        PROVE  map'[j] = IF j = k THEN v ELSE map[j]
    <2>1. CASE j \in ArrayKeys
      BY <1>1, <1>2, <2>1, MapAt, MapAtPrime
    <2>2. CASE j \notin ArrayKeys
      <3>1. j \in HashKeys
        BY <2>2, KeyKinds
      <3> QED
        BY <1>1, <2>2, <3>1, MapAt, MapAtPrime
    <2> QED
      BY <2>1, <2>2
  <1> QED
    BY <1>2, <1>3 DEF Abstract!Set, map
(* The value of array key j, with the length of the array. *)
LEMMA MapAtArrayKey ==
  ASSUME TypeOK, NEW j \in ArrayKeys
  PROVE  /\ j \in Keys /\ j \in Nat \ {0} /\ j < MaxArrayIndex
         /\ j \in 1 .. Len(array) => map[j] = array[j]
         /\ j > Len(array) => map[j] = Nil
  <1>1. j \in Keys /\ j \in Nat \ {0} /\ j < MaxArrayIndex /\ Len(array) \in Nat
    BY KeyKinds DEF ArrayKeys, TypeOK
  <1>2. map[j] = IF j <= Len(array) THEN array[j] ELSE Nil
    BY <1>1, MapAt
  <1> QED
    BY <1>1, <1>2

LEMMA MapAtArrayKeyPrime ==
  ASSUME Len(array') \in Nat, NEW j \in ArrayKeys
  PROVE  /\ j \in 1 .. Len(array') => map'[j] = array'[j]
         /\ j > Len(array') => map'[j] = Nil
  <1>1. j \in Keys /\ j \in Nat \ {0}
    BY KeyKinds DEF ArrayKeys
  <1>2. map'[j] = IF j <= Len(array') THEN array'[j] ELSE Nil
    BY <1>1, MapAtPrime
  <1> QED
    BY <1>1, <1>2

LEMMA MapIsFunction ==
  /\ map = [k \in Keys |-> map[k]]
  /\ map' = [k \in Keys |-> map'[k]]
  BY DEF map

(* Inserting into the array shifts what is above the position. *)
LEMMA InsertAtMap ==
  ASSUME TypeOK, NEW p \in 1 .. Len(array), NEW v \in Values \cup {Nil},
         Len(array) + 1 < MaxArrayIndex,
         array' = Seqs!InsertAt(array, p, v), UNCHANGED hash
  PROVE  Abstract!InsertAt(p, v)
  <1>1. Len(array) \in Nat /\ p \in Nat \ {0} /\ p <= Len(array)
    BY DEF TypeOK
  <1>2. /\ Len(array') = Len(array) + 1
        /\ \A i \in 1 .. Len(array) + 1 :
             (i < p => array'[i] = array[i]) /\ (i > p => array'[i] = array[i - 1])
        /\ array'[p] = v
    BY InsertAtArray
  <1>3. \A j \in ArrayKeys : j + 1 \notin ArrayKeys => map[j] = Nil
    <2> SUFFICES ASSUME NEW j \in ArrayKeys, j + 1 \notin ArrayKeys
                 PROVE  map[j] = Nil
      OBVIOUS
    <2>1. j \in Nat \ {0} /\ j < MaxArrayIndex
      BY MapAtArrayKey
    <2>2. j + 1 >= MaxArrayIndex
      BY <2>1 DEF ArrayKeys
    <2>3. j > Len(array)
      BY <1>1, <2>1, <2>2
    <2> QED
      BY <2>3, MapAtArrayKey
  <1>4. ASSUME NEW j \in Keys
        PROVE  map'[j] = IF j = p THEN v
                         ELSE IF j \in ArrayKeys /\ j > p THEN map[j - 1]
                         ELSE map[j]
    <2>1. CASE j \notin ArrayKeys
      <3>1. p \in ArrayKeys
        BY <1>1 DEF ArrayKeys
      <3> QED
        BY <2>1, <3>1, MapAt, MapAtPrime
    <2>2. CASE j \in ArrayKeys
      <3>1. /\ j \in Nat \ {0} /\ j < MaxArrayIndex
            /\ j \in 1 .. Len(array) => map[j] = array[j]
            /\ j > Len(array) => map[j] = Nil
        BY <2>2, MapAtArrayKey
      <3>2. /\ j \in 1 .. Len(array) + 1 => map'[j] = array'[j]
            /\ j > Len(array) + 1 => map'[j] = Nil
        <4>1. Len(array') = Len(array) + 1 /\ Len(array') \in Nat
          BY <1>1, <1>2
        <4> QED
          BY <2>2, <4>1, MapAtArrayKeyPrime
      <3>3. CASE j = p
        <4>1. j \in 1 .. Len(array) + 1
          BY <1>1, <3>3
        <4> QED
          BY <1>2, <3>2, <3>3, <4>1
      <3>4. CASE j < p
        <4>1. j \in 1 .. Len(array) /\ j \in 1 .. Len(array) + 1 /\ j # p /\ ~(j > p)
          BY <1>1, <3>1, <3>4
        <4> QED
          BY <1>2, <3>1, <3>2, <3>4, <4>1
      <3>5. CASE j > p
        <4>1. j - 1 \in ArrayKeys /\ j # p
          BY <1>1, <3>1, <3>5 DEF ArrayKeys
        <4>2. /\ j - 1 \in 1 .. Len(array) => map[j - 1] = array[j - 1]
              /\ j - 1 > Len(array) => map[j - 1] = Nil
          BY <4>1, MapAtArrayKey
        <4>3. map'[j] = map[j - 1]
          <5>1. CASE j <= Len(array) + 1
            <6>1. j \in 1 .. Len(array) + 1 /\ j - 1 \in 1 .. Len(array)
              BY <1>1, <3>1, <3>5, <5>1
            <6> QED
              BY <1>2, <3>2, <3>5, <4>2, <6>1
          <5>2. CASE j > Len(array) + 1
            <6>1. j - 1 > Len(array)
              BY <1>1, <3>1, <5>2
            <6> QED
              BY <3>2, <4>2, <5>2, <6>1
          <5> QED
            BY <1>1, <3>1, <5>1, <5>2
        <4> QED
          BY <2>2, <3>5, <4>1, <4>3
      <3> QED
        BY <1>1, <3>1, <3>3, <3>4, <3>5
    <2> QED
      BY <2>1, <2>2
  <1> HIDE DEF map
  <1> QED
    BY <1>3, <1>4, MapIsFunction DEF Abstract!InsertAt

(* Storing above the end of the array has nothing to shift. *)
LEMMA SetAboveMap ==
  ASSUME TypeOK, Small, NEW p \in ArrayKeys, p > Len(array), NEW v \in Values \cup {Nil},
         Abstract!Set(p, v)
  PROVE  Abstract!InsertAt(p, v)
  <1>1. /\ Len(array) \in Nat /\ p \in Nat \ {0} /\ p < MaxArrayIndex
        /\ \A j \in ArrayKeys : j > Len(array) => map[j] = Nil
    BY MapAtArrayKey DEF TypeOK
  <1>2. \A j \in ArrayKeys : j \in Nat \ {0} /\ j < MaxArrayIndex
    BY MapAtArrayKey
  <1>3. \A j \in ArrayKeys : j + 1 \notin ArrayKeys => map[j] = Nil
    <2> SUFFICES ASSUME NEW j \in ArrayKeys, j + 1 \notin ArrayKeys
                 PROVE  map[j] = Nil
      OBVIOUS
    <2>1. j > Len(array)
      BY <1>1, <1>2 DEF ArrayKeys
    <2> QED
      BY <1>1, <2>1
  <1>4. \A j \in ArrayKeys : j > p => map[j] = Nil /\ map[j - 1] = (IF j - 1 = p THEN map[p] ELSE Nil)
    <2> SUFFICES ASSUME NEW j \in ArrayKeys, j > p
                 PROVE  map[j] = Nil /\ map[j - 1] = (IF j - 1 = p THEN map[p] ELSE Nil)
      OBVIOUS
    <2>1. j > Len(array) /\ j - 1 \in ArrayKeys /\ j - 1 > Len(array)
      BY <1>1, <1>2 DEF ArrayKeys
    <2> QED
      BY <1>1, <2>1
  <1>5. map[p] = Nil
    BY <1>1
  <1>6. \A j \in Keys : map'[j] = IF j = p THEN v
                         ELSE IF j \in ArrayKeys /\ j > p THEN map[j - 1]
                         ELSE map[j]
    <2> SUFFICES ASSUME NEW j \in Keys
                 PROVE  map'[j] = IF j = p THEN v
                         ELSE IF j \in ArrayKeys /\ j > p THEN map[j - 1]
                         ELSE map[j]
      OBVIOUS
    <2>1. map'[j] = IF j = p THEN v ELSE map[j]
      <3>1. map' = [map EXCEPT ![p] = v]
        BY DEF Abstract!Set
      <3> HIDE DEF map
      <3> QED
        BY <3>1, MapIsFunction
    <2> QED
      BY <1>4, <1>5, <2>1
  <1> HIDE DEF map
  <1> QED
    BY <1>3, <1>6, MapIsFunction DEF Abstract!InsertAt
(* Removing an element of the array shifts what is above it down. *)
LEMMA RemoveAtMap ==
  ASSUME TypeOK, Small, NEW p \in 1 .. Len(array),
         array' = Seqs!RemoveAt(array, p), UNCHANGED hash
  PROVE  Abstract!RemoveAt(p)
  <1>1. Len(array) \in Nat /\ p \in Nat \ {0} /\ p <= Len(array)
    BY DEF TypeOK
  <1>2. /\ Len(array') = Len(array) - 1
        /\ \A i \in 1 .. Len(array) - 1 : array'[i] = IF i < p THEN array[i] ELSE array[i + 1]
    BY RemoveAtArray
  <1>3. ASSUME NEW j \in Keys
        PROVE  map'[j] = IF j \notin ArrayKeys \/ j < p THEN map[j]
                         ELSE IF j + 1 \in ArrayKeys THEN map[j + 1]
                         ELSE Nil
    <2>1. CASE j \notin ArrayKeys
      BY <2>1, MapAt, MapAtPrime
    <2>2. CASE j \in ArrayKeys
      <3>1. /\ j \in Nat \ {0} /\ j < MaxArrayIndex
            /\ j \in 1 .. Len(array) => map[j] = array[j]
            /\ j > Len(array) => map[j] = Nil
        BY <2>2, MapAtArrayKey
      <3>2. /\ j \in 1 .. Len(array) - 1 => map'[j] = array'[j]
            /\ j > Len(array) - 1 => map'[j] = Nil
        <4>1. Len(array') = Len(array) - 1 /\ Len(array') \in Nat
          BY <1>1, <1>2
        <4> QED
          BY <2>2, <4>1, MapAtArrayKeyPrime
      <3>3. CASE j < p
        <4>1. j \in 1 .. Len(array) - 1 /\ j \in 1 .. Len(array)
          BY <1>1, <3>1, <3>3
        <4> QED
          BY <1>2, <3>1, <3>2, <3>3, <4>1
      <3>4. CASE j >= p /\ j + 1 \in ArrayKeys
        <4>1. /\ j + 1 \in 1 .. Len(array) => map[j + 1] = array[j + 1]
              /\ j + 1 > Len(array) => map[j + 1] = Nil
          BY <3>4, MapAtArrayKey
        <4>2. map'[j] = map[j + 1]
          <5>1. CASE j <= Len(array) - 1
            <6>1. j \in 1 .. Len(array) - 1 /\ j + 1 \in 1 .. Len(array) /\ ~(j < p)
              BY <1>1, <3>1, <3>4, <5>1
            <6> QED
              BY <1>2, <3>2, <4>1, <6>1
          <5>2. CASE j > Len(array) - 1
            <6>1. j + 1 > Len(array)
              BY <1>1, <3>1, <5>2
            <6> QED
              BY <3>2, <4>1, <5>2, <6>1
          <5> QED
            BY <1>1, <3>1, <5>1, <5>2
        <4> QED
          BY <1>1, <2>2, <3>1, <3>4, <4>2
      <3>5. CASE j >= p /\ j + 1 \notin ArrayKeys
        <4>1. j > Len(array) - 1
          BY <1>1, <3>1, <3>5 DEF ArrayKeys, Small
        <4> QED
          BY <1>1, <2>2, <3>1, <3>2, <3>5, <4>1
      <3> QED
        BY <1>1, <3>1, <3>3, <3>4, <3>5
    <2> QED
      BY <2>1, <2>2
  <1> HIDE DEF map
  <1> QED
    BY <1>3, MapIsFunction DEF Abstract!RemoveAt

LEMMA UnchangedMap ==
  ASSUME UNCHANGED <<array, hash>>
  PROVE  map' = map
  BY DEF map, RawGet, RawGetH, isArrayKey

(* Removing above the end of the array changes nothing. *)
LEMMA RemoveAboveMap ==
  ASSUME TypeOK, NEW p \in ArrayKeys, p > Len(array), UNCHANGED <<array, hash>>
  PROVE  Abstract!RemoveAt(p)
  <1>1. /\ Len(array) \in Nat /\ p \in Nat
        /\ \A j \in ArrayKeys : j \in Nat /\ (j > Len(array) => map[j] = Nil)
    BY MapAtArrayKey DEF TypeOK
  <1>2. map' = map
    BY UnchangedMap
  <1> HIDE DEF map
  <1>3. \A j \in ArrayKeys : ~(j < p) => map[j] = Nil /\ (j + 1 \in ArrayKeys => map[j + 1] = Nil)
    BY <1>1
  <1>4. \A j \in Keys : map'[j] = IF j \notin ArrayKeys \/ j < p THEN map[j]
                         ELSE IF j + 1 \in ArrayKeys THEN map[j + 1]
                         ELSE Nil
    BY <1>2, <1>3
  <1> QED
    BY <1>4, MapIsFunction DEF Abstract!RemoveAt

-----------------------------------------------------------------------------
(* Every operation, in every state below the limit, does to the table what
   the one of its name does to a Lua table. *)
LEMMA RawSetMatches ==
  ASSUME TypeOK, NEW k \in Keys, NEW v \in Values \cup {Nil}, RawSet(k, v)
  PROVE  Abstract!Set(k, v)
  BY RawSetCases, SetArrayMap, RawSetHMap

LEMMA RawSetIntMatches ==
  ASSUME TypeOK, NEW k \in IntKeys, NEW v \in Values \cup {Nil}, RawSetInt(k, v)
  PROVE  Abstract!Set(k, v)
  BY RawSetIntCases, SetArrayMap, RawSetHMap

LEMMA AppendMatches ==
  ASSUME AppendsBelow, TypeOK, NEW v \in Values, AppendValue(v)
  PROVE  Length + 1 \in ArrayKeys /\ Abstract!Set(Length + 1, v)
  <1>1. Length + 1 \in ArrayKeys
    <2>1. Length \in Nat /\ Length < ArrayBound
      BY LengthFacts DEF TypeOK, AppendValue
    <2> QED
      BY <2>1 DEF ArrayKeys, AppendsBelow
  <1>2. SetArray(Length + 1, v)
    BY DEF AppendValue
  <1> HIDE DEF Length
  <1> QED
    BY <1>1, <1>2, SetArrayMap

LEMMA InsertMatches ==
  ASSUME AppendsBelow, TypeOK, Small, NEW pos \in IntKeys, NEW v \in Values \cup {Nil},
         Insert(pos, v)
  PROVE  /\ pos \in ArrayKeys => Abstract!InsertAt(pos, v)
         /\ pos \in FarKeys => Abstract!Set(pos, v)
  <1>1. Len(array) \in Nat
    BY DEF TypeOK
  <1>2. CASE pos \in ArrayKeys /\ pos > Len(array) /\ SetArray(pos, v)
    <2>1. Abstract!Set(pos, v)
      BY <1>2, SetArrayMap
    <2> QED
      BY <1>2, <2>1, SetAboveMap
  <1>3. CASE pos \in FarKeys /\ RawSetH(pos, v)
    BY <1>3, KeyKinds, RawSetHMap
  <1>4. CASE /\ pos \in 1 .. Len(array) /\ Len(array) < ArrayBound
             /\ array' = Seqs!InsertAt(array, pos, v)
             /\ UNCHANGED <<hash, keys, k2i>>
    <2>1. Len(array) + 1 < MaxArrayIndex
      BY <1>1, <1>4 DEF AppendsBelow
    <2>2. Abstract!InsertAt(pos, v)
      BY <1>4, <2>1, InsertAtMap
    <2>3. pos \in ArrayKeys /\ pos \notin FarKeys
      BY <1>1, <1>4, <2>1 DEF ArrayKeys
    <2> QED
      BY <2>2, <2>3
  <1> QED
    BY <1>2, <1>3, <1>4, InsertCases

LEMMA RemoveMatches ==
  ASSUME TypeOK, Small, NEW pos \in IntKeys, Remove(pos)
  PROVE  /\ pos \in ArrayKeys => Abstract!RemoveAt(pos)
         /\ pos \in FarKeys =>
              map' = map \/ \E p \in ArrayKeys : Abstract!RemoveAt(p)
  <1>1. /\ Len(array) \in Nat /\ Len(array) < MaxArrayIndex
        /\ \A p \in 1 .. Len(array) : p \in ArrayKeys
        /\ pos \in ArrayKeys => pos >= 1
    BY DEF TypeOK, Small, ArrayKeys
  <1>2. UNCHANGED hash
    BY RemoveCases
  <1>3. CASE UNCHANGED array /\ (pos < 1 \/ pos > Len(array))
    <2>1. map' = map
      BY <1>2, <1>3, UnchangedMap
    <2>2. ASSUME pos \in ArrayKeys PROVE Abstract!RemoveAt(pos)
      <3>1. pos > Len(array)
        BY <1>1, <1>3, <2>2 DEF ArrayKeys
      <3> QED
        BY <1>2, <1>3, <2>2, <3>1, RemoveAboveMap
    <2> QED
      BY <2>1, <2>2
  <1>4. ASSUME NEW p \in 1 .. Len(array), array' = Seqs!RemoveAt(array, p), pos >= 1 => p = pos
        PROVE  /\ p \in ArrayKeys /\ Abstract!RemoveAt(p)
               /\ pos \in ArrayKeys => p = pos
    BY <1>1, <1>2, <1>4, RemoveAtMap
  <1> HIDE DEF map
  <1> QED
    BY <1>3, <1>4, RemoveCases

-----------------------------------------------------------------------------
(* RawSet, RawSetInt, Append, Insert and Remove (table.go) do to the table
   what they should, whatever the keys and values are, as long as appending
   does not reach MaxArrayIndex. *)
THEOREM LTableOperationsMatch ==
  ASSUME AppendsBelow
  PROVE  Spec => OperationsMatch
  <1>1. Inv /\ Small /\ [Next]_vars => Inv' /\ Small'
    BY NextInv, NextSmall
  <1>2. Inv /\ Small /\ [Next]_vars =>
         [/\ \A k \in Keys, v \in Values \cup {Nil} : RawSet(k, v) => Abstract!Set(k, v)
          /\ \A k \in IntKeys, v \in Values \cup {Nil} : RawSetInt(k, v) => Abstract!Set(k, v)
          /\ \A v \in Values : AppendValue(v) => Abstract!Set(Length + 1, v)
          /\ \A k \in ArrayKeys, v \in Values \cup {Nil} : Insert(k, v) => Abstract!InsertAt(k, v)
          /\ \A k \in FarKeys, v \in Values \cup {Nil} : Insert(k, v) => Abstract!Set(k, v)
          /\ \A k \in ArrayKeys : Remove(k) => Abstract!RemoveAt(k)]_vars
    <2> SUFFICES ASSUME Inv, Small
                 PROVE  /\ \A k \in Keys, v \in Values \cup {Nil} : RawSet(k, v) => Abstract!Set(k, v)
                        /\ \A k \in IntKeys, v \in Values \cup {Nil} : RawSetInt(k, v) => Abstract!Set(k, v)
                        /\ \A v \in Values : AppendValue(v) => Abstract!Set(Length + 1, v)
                        /\ \A k \in ArrayKeys, v \in Values \cup {Nil} : Insert(k, v) => Abstract!InsertAt(k, v)
                        /\ \A k \in FarKeys, v \in Values \cup {Nil} : Insert(k, v) => Abstract!Set(k, v)
                        /\ \A k \in ArrayKeys : Remove(k) => Abstract!RemoveAt(k)
      OBVIOUS
    <2>1. TypeOK
      BY DEF Inv
    <2>2. \A k \in Keys, v \in Values \cup {Nil} : RawSet(k, v) => Abstract!Set(k, v)
      BY <2>1, RawSetMatches
    <2>3. \A k \in IntKeys, v \in Values \cup {Nil} : RawSetInt(k, v) => Abstract!Set(k, v)
      BY <2>1, RawSetIntMatches
    <2>4. \A v \in Values : AppendValue(v) => Abstract!Set(Length + 1, v)
      BY <2>1, AppendMatches
    <2>5. \A k \in IntKeys, v \in Values \cup {Nil} :
            Insert(k, v) => /\ k \in ArrayKeys => Abstract!InsertAt(k, v)
                            /\ k \in FarKeys => Abstract!Set(k, v)
      BY <2>1, InsertMatches
    <2>6. \A k \in IntKeys : Remove(k) => (k \in ArrayKeys => Abstract!RemoveAt(k))
      BY <2>1, RemoveMatches
    <2>7. ArrayKeys \subseteq IntKeys /\ FarKeys \subseteq IntKeys
      BY DEF IntKeys
    <2> QED
      BY <2>2, <2>3, <2>4, <2>5, <2>6, <2>7
  <1> QED
    BY InitInv, <1>1, <1>2, PTL DEF Spec, OperationsMatch

(* The array, the hash and the list of keys implement a Lua table as long as
   appending does not reach MaxArrayIndex. *)
THEOREM LTableImplements ==
  ASSUME AppendsBelow
  PROVE  Spec => IsLuaTable
  <1>1. Init => Abstract!Init
    <2> SUFFICES ASSUME Init PROVE map = [k \in Keys |-> Nil]
      BY DEF Abstract!Init
    <2>1. array = << >> /\ Len(array) = 0 /\ hash = [k \in HashKeys |-> Nil] /\ TypeOK
      BY InitInv DEF Init, Inv
    <2>2. ASSUME NEW k \in Keys PROVE map[k] = Nil
      <3>1. CASE k \in ArrayKeys
        BY <2>1, <3>1, MapAtArrayKey
      <3>2. CASE k \notin ArrayKeys
        BY <2>1, <3>2, KeyKinds, MapAt
      <3> QED
        BY <3>1, <3>2
    <2> HIDE DEF map
    <2> QED
      BY <2>2, MapIsFunction
  <1>2. Inv /\ Small /\ [Next]_vars => Inv' /\ Small'
    BY NextInv, NextSmall
  <1>3. Inv /\ Small /\ [Next]_vars => [Abstract!Next]_map
    <2> SUFFICES ASSUME Inv, Small, [Next]_vars PROVE [Abstract!Next]_map
      OBVIOUS
    <2>1. TypeOK /\ ArrayKeys \subseteq Keys /\ FarKeys \subseteq Keys /\ IntKeys \subseteq Keys
      BY KeyKinds DEF Inv, HashKeys, Keys, IntKeys
    <2>2. ASSUME NEW k \in Keys, NEW v \in Values \cup {Nil}, Abstract!Set(k, v)
          PROVE  Abstract!Next
      BY <2>2 DEF Abstract!Next
    <2>3. ASSUME NEW k \in Keys, NEW v \in Values \cup {Nil}, RawSet(k, v)
          PROVE  Abstract!Next
      BY <2>1, <2>2, <2>3, RawSetMatches
    <2>4. ASSUME NEW k \in IntKeys, NEW v \in Values \cup {Nil}, RawSetInt(k, v)
          PROVE  Abstract!Next
      BY <2>1, <2>2, <2>4, RawSetIntMatches
    <2>5. ASSUME NEW v \in Values, AppendValue(v)
          PROVE  Abstract!Next
      BY <2>1, <2>2, <2>5, AppendMatches
    <2>6. ASSUME NEW pos \in IntKeys, NEW v \in Values \cup {Nil}, Insert(pos, v)
          PROVE  Abstract!Next
      <3>1. CASE pos \in ArrayKeys
        <4>1. Abstract!InsertAt(pos, v)
          BY <2>1, <2>6, <3>1, InsertMatches
        <4> QED
          BY <3>1, <4>1 DEF Abstract!Next
      <3>2. CASE pos \in FarKeys
        BY <2>1, <2>2, <2>6, <3>2, InsertMatches
      <3> QED
        BY <3>1, <3>2 DEF IntKeys
    <2>7. ASSUME NEW pos \in IntKeys, Remove(pos)
          PROVE  Abstract!Next \/ map' = map
      <3>1. map' = map \/ \E p \in ArrayKeys : Abstract!RemoveAt(p)
        BY <2>1, <2>7, RemoveMatches DEF IntKeys
      <3> QED
        BY <3>1 DEF Abstract!Next
    <2>8. CASE UNCHANGED vars
      BY <2>8, UnchangedMap DEF vars
    <2> HIDE DEF map
    <2> QED
      BY <2>3, <2>4, <2>5, <2>6, <2>7, <2>8 DEF Next
  <1> QED
    BY InitInv, <1>1, <1>2, <1>3, PTL DEF Spec, IsLuaTable, Abstract!Spec

(* What Len (the # operator) returns is a border, as long as appending does
   not reach MaxArrayIndex. *)
THEOREM LTableLengthIsBorder ==
  ASSUME AppendsBelow
  PROVE  Spec => []LengthIsBorderBelowLimit
  <1>1. Inv /\ Small /\ [Next]_vars => Inv' /\ Small'
    BY NextInv, NextSmall
  <1>2. Inv /\ Small => LengthIsBorderBelowLimit
    <2> SUFFICES ASSUME Inv, Small PROVE LengthIsBorderBelowLimit
      OBVIOUS
    <2>1. /\ Len(array) \in Nat /\ Len(array) < MaxArrayIndex
          /\ Length \in 0 .. Len(array)
          /\ Length # 0 => array[Length] # Nil
          /\ \A i \in 1 .. Len(array) : i > Length => array[i] = Nil
      BY LengthFacts DEF Inv, TypeOK, Small
    <2> HIDE DEF Length
    <2>2. Length # 0 => Length \in ArrayKeys
      BY <2>1 DEF ArrayKeys
    <2>3. Length # 0 => RawGet(Length) # Nil
      BY <2>1, <2>2 DEF RawGet, isArrayKey
    <2>4. Length + 1 \in ArrayKeys => RawGet(Length + 1) = Nil
      BY <2>1 DEF RawGet, isArrayKey
    <2> QED
      BY <2>3, <2>4 DEF LengthIsBorderBelowLimit, isArrayKey
  <1> QED
    BY InitInv, <1>1, <1>2, PTL DEF Spec

-----------------------------------------------------------------------------
(* Where Next visits the keys: first the array, then the list of keys. *)
Listed(k) == k \in 1 .. Len(array) \/ (k \in HashKeys /\ k2i[k] # -1)
Place(k) == IF k \in ArrayKeys THEN k ELSE Len(array) + 1 + k2i[k]
Reached == IF cursor = Nil THEN 0 ELSE Place(cursor)

(* A set of numbers that is not empty has a minimum. *)
LEMMA MinimumExists ==
  ASSUME NEW I \in SUBSET Nat, I # {}
  PROVE  \E x \in I : \A y \in I : x <= y
  <1>1. \A t, u \in Nat : <<t, u>> \in LessThan <=> t < u
    BY DEF LessThan
  <1>2. PICK t \in I : \A u \in I : <<u, t>> \notin LessThan
    BY LessThanWellFounded, WFMin
  <1>3. \A u \in I : ~(u < t) /\ u \in Nat /\ t \in Nat
    BY <1>1, <1>2
  <1>4. \A u \in I : t <= u
    BY <1>3
  <1> QED
    BY <1>4

LEMMA NextInArrayFacts ==
  ASSUME TypeOK, NEW index \in Nat
  PROVE  /\ NextInArray(index) = 0 => \A i \in index + 1 .. Len(array) : array[i] = Nil
         /\ NextInArray(index) # 0 =>
              /\ NextInArray(index) \in index + 1 .. Len(array)
              /\ array[NextInArray(index)] # Nil
              /\ \A i \in index + 1 .. Len(array) : i < NextInArray(index) => array[i] = Nil
  <1> DEFINE I == {i \in index + 1 .. Len(array) : array[i] # Nil}
             min == CHOOSE x \in I : \A y \in I : x <= y
  <1>1. NextInArray(index) = IF I # {} THEN min ELSE 0
    BY DEF NextInArray, NotNil, Seqs!SelectInSubSeq, Seqs!Min
  <1>2. Len(array) \in Nat
    BY DEF TypeOK
  <1>3. CASE I = {}
    BY <1>1, <1>3
  <1>4. CASE I # {}
    <2>1. I \in SUBSET Nat
      BY <1>2
    <2>2. \E x \in I : \A y \in I : x <= y
      <3> HIDE DEF I
      <3> QED
        BY <1>4, <2>1, MinimumExists
    <2>3. min \in I /\ \A y \in I : min <= y
      BY <2>2
    <2>4. NextInArray(index) = min
      BY <1>1, <1>4
    <2> HIDE DEF min
    <2>5. min \in index + 1 .. Len(array) /\ array[min] # Nil
      BY <2>3
    <2>6. \A i \in index + 1 .. Len(array) : i < min => i \notin I
      BY <1>2, <2>3, <2>5
    <2> QED
      BY <2>4, <2>5, <2>6
  <1> QED
    BY <1>3, <1>4

LEMMA KeyFromFacts ==
  ASSUME TypeOK, NEW i \in Nat
  PROVE  \/ /\ KeyFrom(i) = Nil
            /\ \A j \in i + 1 .. Len(keys) : hash[keys[j]] = Nil
         \/ \E at \in i + 1 .. Len(keys) :
              /\ KeyFrom(i) = keys[at] /\ keys[at] \in HashKeys
              /\ \A j \in i + 1 .. Len(keys) : j < at => hash[keys[j]] = Nil
  <1> DEFINE I == {j \in i + 1 .. Len(keys) : hash[keys[j]] # Nil}
             min == CHOOSE x \in I : \A y \in I : x <= y
             at == IF I # {} THEN min ELSE 0
  <1>1. KeyFrom(i) = IF at = 0 THEN Nil ELSE keys[at]
    BY DEF KeyFrom, Seqs!SelectInSubSeq, Seqs!Min
  <1>2. Len(keys) \in Nat /\ keys \in Seq(HashKeys)
    BY DEF TypeOK
  <1>3. CASE I = {}
    BY <1>1, <1>3
  <1>4. CASE I # {}
    <2>1. I \in SUBSET Nat
      BY <1>2
    <2>2. \E x \in I : \A y \in I : x <= y
      <3> HIDE DEF I
      <3> QED
        BY <1>4, <2>1, MinimumExists
    <2>3. min \in I /\ \A y \in I : min <= y
      BY <2>2
    <2>4. at = min
      BY <1>4
    <2> HIDE DEF min, at
    <2>5. min \in i + 1 .. Len(keys)
      BY <2>3
    <2>6. min # 0
      BY <2>5
    <2>7. \A j \in i + 1 .. Len(keys) : j < min => j \notin I
      BY <1>2, <2>3, <2>5
    <2>8. KeyFrom(i) = keys[min]
      BY <1>1, <2>4, <2>6
    <2>9. keys[min] \in HashKeys
      BY <1>2, <2>5
    <2> QED
      BY <2>5, <2>7, <2>8, <2>9
  <1> QED
    BY <1>3, <1>4

(* A listed key has a place that no other has, and its place is its own. *)
LEMMA ListedFacts ==
  ASSUME Inv, Small, NEW k, Listed(k)
  PROVE  /\ k \in Keys /\ k # Nil
         /\ k \in ArrayKeys => k \in 1 .. Len(array) /\ Place(k) = k
         /\ k \notin ArrayKeys =>
              /\ k \in HashKeys /\ k2i[k] \in 0 .. Len(keys) - 1
              /\ keys[k2i[k] + 1] = k /\ Place(k) = Len(array) + 1 + k2i[k]
         /\ Place(k) \in Nat \ {0}
  <1>1. TypeOK /\ KeysIndexed /\ Len(array) \in Nat /\ Len(keys) \in Nat
    BY DEF Inv, TypeOK
  <1>2. \A j \in 1 .. Len(array) : j \in ArrayKeys
    BY <1>1 DEF ArrayKeys, Small
  <1>3. CASE k \in 1 .. Len(array)
    <2>1. k \in ArrayKeys /\ k \in Keys
      BY <1>2, <1>3, KeyKinds
    <2>2. Place(k) = k
      BY <2>1 DEF Place
    <2> QED
      BY <1>3, <2>1, <2>2
  <1>4. CASE k \in HashKeys /\ k2i[k] # -1
    <2>1. k \notin ArrayKeys /\ k \in Keys
      BY <1>4, KeyKinds
    <2>2. k2i[k] < Len(keys) /\ keys[k2i[k] + 1] = k /\ k2i[k] \in Nat
      BY <1>1, <1>4 DEF KeysIndexed, TypeOK
    <2>3. Place(k) = Len(array) + 1 + k2i[k]
      BY <2>1 DEF Place
    <2> DEFINE index == k2i[k]
    <2>4. index \in 0 .. Len(keys) - 1 /\ Len(array) + 1 + index \in Nat \ {0}
      BY <1>1, <2>2
    <2> QED
      BY <1>4, <2>1, <2>2, <2>3, <2>4
  <1> QED
    BY <1>3, <1>4 DEF Listed

LEMMA PlacesDiffer ==
  ASSUME Inv, Small, NEW h, NEW k, Listed(h), Listed(k), Place(h) = Place(k)
  PROVE  h = k
  <1>1. Len(array) \in Nat /\ Len(keys) \in Nat
    BY DEF Inv, TypeOK
  <1>2. /\ h \in ArrayKeys => h \in 1 .. Len(array) /\ Place(h) = h
        /\ h \notin ArrayKeys =>
             k2i[h] \in Nat /\ keys[k2i[h] + 1] = h /\ Place(h) = Len(array) + 1 + k2i[h]
    BY <1>1, ListedFacts
  <1>3. /\ k \in ArrayKeys => k \in 1 .. Len(array) /\ Place(k) = k
        /\ k \notin ArrayKeys =>
             k2i[k] \in Nat /\ keys[k2i[k] + 1] = k /\ Place(k) = Len(array) + 1 + k2i[k]
    BY <1>1, ListedFacts
  <1>4. CASE h \in ArrayKeys /\ k \in ArrayKeys
    BY <1>2, <1>3, <1>4
  <1>5. CASE h \notin ArrayKeys /\ k \notin ArrayKeys
    <2> DEFINE a == k2i[h]
               b == k2i[k]
    <2>1. a \in Nat /\ b \in Nat /\ Len(array) + 1 + a = Len(array) + 1 + b
      BY <1>2, <1>3, <1>5
    <2>2. keys[a + 1] = h /\ keys[b + 1] = k
      BY <1>2, <1>3, <1>5
    <2> HIDE DEF a, b
    <2>3. a = b
      BY <1>1, <2>1
    <2> QED
      BY <2>2, <2>3
  <1>6. ASSUME h \in ArrayKeys, k \notin ArrayKeys PROVE FALSE
    BY <1>1, <1>2, <1>3, <1>6
  <1>7. ASSUME h \notin ArrayKeys, k \in ArrayKeys PROVE FALSE
    BY <1>1, <1>2, <1>3, <1>7
  <1> QED
    BY <1>4, <1>5, <1>6, <1>7

(* A key with a value is in the array or in the list of keys. *)
LEMMA PresentFacts ==
  ASSUME Inv, NEW k \in Present
  PROVE  /\ Listed(k)
         /\ k \in ArrayKeys => array[k] # Nil
         /\ k \notin ArrayKeys => hash[k] # Nil
  <1>1. TypeOK /\ KeysIndexed /\ Len(array) \in Nat
    BY DEF Inv, TypeOK
  <1>2. k \in Keys /\ RawGet(k) # Nil
    BY DEF Present
  <1>3. CASE k \in ArrayKeys
    <2>1. k <= Len(array) /\ array[k] # Nil
      BY <1>2, <1>3 DEF RawGet, isArrayKey
    <2>2. k \in 1 .. Len(array)
      BY <1>1, <1>3, <2>1 DEF ArrayKeys
    <2> QED
      BY <1>3, <2>1, <2>2 DEF Listed
  <1>4. CASE k \notin ArrayKeys
    <2>1. hash[k] # Nil /\ k \in HashKeys
      BY <1>2, <1>4, KeyKinds DEF RawGet, RawGetH, isArrayKey
    <2> QED
      BY <1>1, <1>4, <2>1 DEF KeysIndexed, Listed
  <1> QED
    BY <1>3, <1>4
(* k is the first key with a value whose place is after n, and Nil if there
   is none. *)
FirstAfter(k, n) ==
  /\ k = Nil => \A h \in Present : Place(h) <= n
  /\ k # Nil => /\ Listed(k) /\ Place(k) > n
                /\ \A h \in Present : Place(h) < Place(k) => Place(h) <= n

(* The keys of the list follow the array, in its order. *)
LEMMA KeyFromPlaces ==
  ASSUME Inv, Small, NEW i \in Nat
  PROVE  FirstAfter(KeyFrom(i), Len(array) + i)
  <1>1. TypeOK /\ KeysIndexed /\ Len(array) \in Nat /\ Len(keys) \in Nat /\ keys \in Seq(HashKeys)
    BY DEF Inv, TypeOK
  <1>2. ASSUME NEW h \in Present
        PROVE  /\ Place(h) \in Nat
               /\ Place(h) > Len(array) =>
                    /\ Place(h) - Len(array) \in 1 .. Len(keys)
                    /\ hash[keys[Place(h) - Len(array)]] # Nil
    <2>1. Listed(h) /\ (h \notin ArrayKeys => hash[h] # Nil)
      BY PresentFacts
    <2>2. Place(h) \in Nat
      BY <2>1, ListedFacts
    <2>3. CASE h \in ArrayKeys
      <3>1. h \in 1 .. Len(array) /\ Place(h) = h
        BY <2>1, <2>3, ListedFacts
      <3> QED
        BY <1>1, <2>2, <3>1
    <2>4. CASE h \notin ArrayKeys
      <3>1. /\ k2i[h] \in 0 .. Len(keys) - 1
            /\ keys[k2i[h] + 1] = h /\ Place(h) = Len(array) + 1 + k2i[h]
        BY <2>1, <2>4, ListedFacts
      <3> DEFINE index == k2i[h]
      <3> HIDE DEF index
      <3>2. index \in 0 .. Len(keys) - 1 /\ keys[index + 1] = h /\ Place(h) = Len(array) + 1 + index
        BY <3>1 DEF index
      <3>3. Place(h) - Len(array) = index + 1 /\ index + 1 \in 1 .. Len(keys)
        BY <1>1, <3>2
      <3> QED
        BY <2>1, <2>2, <2>4, <3>2, <3>3
    <2> QED
      BY <2>3, <2>4
  <1>3. CASE KeyFrom(i) = Nil /\ \A j \in i + 1 .. Len(keys) : hash[keys[j]] = Nil
    <2>1. ASSUME NEW h \in Present PROVE Place(h) <= Len(array) + i
      <3> DEFINE j == Place(h) - Len(array)
      <3>1. Place(h) \in Nat /\ (Place(h) > Len(array) => j \in 1 .. Len(keys) /\ hash[keys[j]] # Nil)
        BY <1>2
      <3>2. SUFFICES ASSUME Place(h) > Len(array) + i PROVE FALSE
        BY <1>1, <3>1
      <3>3. j \in i + 1 .. Len(keys) /\ hash[keys[j]] # Nil
        BY <1>1, <3>1, <3>2
      <3> HIDE DEF j
      <3> QED
        BY <1>3, <3>3
    <2> QED
      BY <1>3, <2>1 DEF FirstAfter
  <1>4. ASSUME NEW at \in i + 1 .. Len(keys),
               KeyFrom(i) = keys[at], keys[at] \in HashKeys,
               \A j \in i + 1 .. Len(keys) : j < at => hash[keys[j]] = Nil
        PROVE  FirstAfter(KeyFrom(i), Len(array) + i)
    <2> DEFINE k == KeyFrom(i)
    <2>1. k \in HashKeys /\ k \notin ArrayKeys /\ k # Nil
      BY <1>4, KeyKinds
    <2>2. k2i[k] = at - 1
      BY <1>1, <1>4 DEF KeysIndexed
    <2>3. Listed(k)
      BY <1>4, <2>1, <2>2 DEF Listed
    <2>4. Place(k) = Len(array) + at
      BY <1>1, <1>4, <2>1, <2>2 DEF Place
    <2> HIDE DEF k
    <2>5. Place(k) > Len(array) + i
      BY <1>1, <1>4, <2>4
    <2>6. ASSUME NEW h \in Present, Place(h) < Place(k) PROVE Place(h) <= Len(array) + i
      <3> DEFINE j == Place(h) - Len(array)
      <3>1. Place(h) \in Nat /\ (Place(h) > Len(array) => j \in 1 .. Len(keys) /\ hash[keys[j]] # Nil)
        BY <1>2
      <3>2. SUFFICES ASSUME Place(h) > Len(array) + i PROVE FALSE
        BY <1>1, <3>1
      <3>3. j \in i + 1 .. Len(keys) /\ hash[keys[j]] # Nil /\ j < at
        BY <1>1, <1>4, <2>4, <2>6, <3>1, <3>2
      <3> HIDE DEF j
      <3> QED
        BY <1>4, <3>3
    <2> QED
      BY <2>1, <2>3, <2>5, <2>6 DEF FirstAfter, k
  <1> QED
    BY <1>1, <1>3, <1>4, KeyFromFacts

(* Next returns the first key with a value after the one it is given. *)
LEMMA NextKeyFirst ==
  ASSUME Inv, Small, NEW c, c = Nil \/ Listed(c)
  PROVE  FirstAfter(NextKey(c), IF c = Nil THEN 0 ELSE Place(c))
  <1>1. TypeOK /\ Len(array) \in Nat
    BY DEF Inv, TypeOK
  <1>2. CASE c # Nil /\ c \notin ArrayKeys
    <2>1. c \in HashKeys /\ k2i[c] \in 0 .. Len(keys) - 1 /\ Place(c) = Len(array) + 1 + k2i[c]
      BY <1>2, ListedFacts
    <2>2. Position(c) = k2i[c] /\ Len(keys) \in Nat
      BY <1>1, <2>1 DEF Position, TypeOK
    <2>3. NextKey(c) = KeyFrom(k2i[c] + 1)
      BY <1>2, <2>2 DEF NextKey, isArrayKey
    <2> DEFINE index == k2i[c]
    <2> HIDE DEF index
    <2>4. index + 1 \in Nat /\ Place(c) = Len(array) + (index + 1) /\ NextKey(c) = KeyFrom(index + 1)
      BY <1>1, <2>1, <2>2, <2>3 DEF index
    <2>5. FirstAfter(KeyFrom(index + 1), Len(array) + (index + 1))
      BY <2>4, KeyFromPlaces
    <2> QED
      BY <1>2, <2>4, <2>5
  <1>3. CASE c = Nil \/ c \in ArrayKeys
    <2> DEFINE index == IF c = Nil THEN 0 ELSE c
    <2>1. index \in 0 .. Len(array) /\ index = IF c = Nil THEN 0 ELSE Place(c)
      BY <1>1, <1>3, ListedFacts
    <2>2. NextKey(c) = IF NextInArray(index) # 0 THEN NextInArray(index) ELSE KeyFrom(0)
      BY <1>1, <1>3, <2>1 DEF NextKey, isArrayKey
    <2> HIDE DEF index
    <2>3. ASSUME NEW h \in Present
          PROVE  /\ Place(h) \in Nat
                 /\ Place(h) <= Len(array) => array[Place(h)] # Nil /\ Place(h) \in 1 .. Len(array)
      <3>1. Listed(h) /\ (h \in ArrayKeys => array[h] # Nil)
        BY PresentFacts
      <3>2. Place(h) \in Nat
        BY <3>1, ListedFacts
      <3>3. CASE h \in ArrayKeys
        <4>1. h \in 1 .. Len(array) /\ Place(h) = h
          BY <3>1, <3>3, ListedFacts
        <4> QED
          BY <3>1, <3>2, <3>3, <4>1
      <3>4. CASE h \notin ArrayKeys
        <4>1. k2i[h] \in 0 .. Len(keys) - 1 /\ Place(h) = Len(array) + 1 + k2i[h] /\ Len(keys) \in Nat
          BY <1>1, <3>1, <3>4, ListedFacts DEF TypeOK
        <4>2. Place(h) > Len(array)
          BY <1>1, <4>1
        <4> QED
          BY <1>1, <3>2, <4>2
      <3> QED
        BY <3>3, <3>4
    <2> DEFINE next == NextInArray(index)
    <2>4. /\ next = 0 => \A i \in index + 1 .. Len(array) : array[i] = Nil
          /\ next # 0 =>
               /\ next \in index + 1 .. Len(array)
               /\ \A i \in index + 1 .. Len(array) : i < next => array[i] = Nil
      BY <1>1, <2>1, NextInArrayFacts
    <2>5. CASE next # 0
      <3>1. NextKey(c) = next
        BY <2>2, <2>5
      <3> HIDE DEF next
      <3>2. next \in 1 .. Len(array) /\ next > index
        BY <1>1, <2>1, <2>4, <2>5
      <3>3. next \in ArrayKeys /\ next # Nil
        <4>1. next \in ArrayKeys
          BY <1>1, <3>2 DEF ArrayKeys, Small
        <4> QED
          BY <4>1, KeyKinds
      <3>4. Listed(next) /\ Place(next) = next
        BY <3>2, <3>3 DEF Listed, Place
      <3>5. ASSUME NEW h \in Present, Place(h) < next PROVE Place(h) <= index
        <4> DEFINE j == Place(h)
        <4>1. j \in Nat /\ (j <= Len(array) => array[j] # Nil)
          BY <2>3
        <4>2. j < next
          BY <3>5
        <4> HIDE DEF j
        <4>3. j <= index
          BY <1>1, <2>1, <2>4, <2>5, <3>2, <4>1, <4>2
        <4> QED
          BY <4>3 DEF j
      <3>6. FirstAfter(next, index)
        BY <3>2, <3>3, <3>4, <3>5 DEF FirstAfter
      <3> QED
        BY <2>1, <3>1, <3>6
    <2>6. CASE next = 0
      <3>1. NextKey(c) = KeyFrom(0)
        BY <2>2, <2>6
      <3> DEFINE k == KeyFrom(0)
      <3>2. FirstAfter(k, Len(array))
        <4>1. FirstAfter(KeyFrom(0), Len(array) + 0)
          BY KeyFromPlaces
        <4>2. Len(array) + 0 = Len(array)
          BY <1>1
        <4> QED
          BY <4>1, <4>2
      <3> HIDE DEF k, next
      <3>3. ASSUME NEW h \in Present, Place(h) <= Len(array) PROVE Place(h) <= index
        <4> DEFINE j == Place(h)
        <4>1. j \in 1 .. Len(array) /\ array[j] # Nil
          BY <2>3, <3>3
        <4> HIDE DEF j
        <4>2. j <= index
          BY <1>1, <2>1, <2>4, <2>6, <4>1
        <4> QED
          BY <4>2 DEF j
      <3>4. k # Nil => Listed(k) /\ Place(k) > index
        <4> SUFFICES ASSUME k # Nil PROVE Listed(k) /\ Place(k) > index
          OBVIOUS
        <4>1. Listed(k) /\ Place(k) > Len(array)
          BY <3>2 DEF FirstAfter
        <4>2. Place(k) \in Nat
          BY <4>1, ListedFacts
        <4> QED
          BY <1>1, <2>1, <4>1, <4>2
      <3>5. FirstAfter(k, index)
        BY <3>2, <3>3, <3>4 DEF FirstAfter
      <3> QED
        BY <2>1, <3>1, <3>5 DEF k
    <2> QED
      BY <2>5, <2>6
  <1> QED
    BY <1>2, <1>3
-----------------------------------------------------------------------------
(* A loop has met the keys it was given and those it owes its body up to the
   one it was given last. *)
Walk ==
  /\ cursor = Nil \/ Listed(cursor)
  /\ \A k \in visited : Listed(k) /\ Place(k) <= Reached
  /\ loop = "idle" => cursor = Nil /\ visited = {}
  /\ loop = "walking" =>
       owed \subseteq Present /\ \A k \in owed : Place(k) <= Reached => k \in visited
  /\ loop = "done" => owed \subseteq visited

LoopInv == Inv /\ Small /\ Walk

(* Assigning to a field that has a value moves no key. *)
LEMMA AssignMovesNothing ==
  ASSUME Inv, Small, NEW k \in Present, NEW v \in Values \cup {Nil}, RawSet(k, v)
  PROVE  Inv' /\ Len(array') = Len(array) /\ keys' = keys /\ k2i' = k2i
  <1>1. TypeOK /\ KeysIndexed /\ Len(array) \in Nat /\ k \in Keys
    BY DEF Inv, TypeOK, Present
  <1>2. CASE k \in ArrayKeys /\ SetArray(k, v)
    <2>1. k \in 1 .. Len(array) /\ k \in Nat \ {0}
      BY <1>1, <1>2, PresentFacts, ListedFacts
    <2>2. Inv'
      BY <1>2, <2>1, SetArrayInv
    <2>3. /\ Len(array') \in Nat /\ Len(array') >= Len(array)
          /\ Len(array') = k \/ Len(array') = Len(array)
      BY <1>1, <1>2, <2>1, SetArrayFacts
    <2>4. Len(array') = Len(array)
      BY <1>1, <2>1, <2>3
    <2> QED
      BY <1>2, <2>2, <2>4 DEF SetArray
  <1>3. CASE k \in HashKeys /\ RawSetH(k, v)
    <2>1. Inv'
      BY <1>3, RawSetHInv
    <2>2. hash[k] # Nil
      BY <1>3, PresentFacts, KeyKinds
    <2>3. k2i[k] # -1
      BY <1>1, <1>3, <2>2 DEF KeysIndexed
    <2>4. UNCHANGED <<keys, k2i, array>>
      BY <1>3, <2>3 DEF RawSetH
    <2> QED
      BY <2>1, <2>4
  <1> QED
    BY <1>1, <1>2, <1>3, RawSetCases

LEMMA LoopInitInv == LoopInit => LoopInv
  <1> SUFFICES ASSUME LoopInit PROVE LoopInv
    OBVIOUS
  <1>1. Inv /\ Small
    BY InitInv DEF LoopInit
  <1>2. cursor = Nil /\ loop = "idle" /\ visited = {} /\ owed = {}
    BY DEF LoopInit
  <1>3. Walk
    BY <1>2 DEF Walk
  <1> QED
    BY <1>1, <1>3 DEF LoopInv

LEMMA StepInv ==
  ASSUME LoopInv, Step
  PROVE  LoopInv' /\ (loop' = "walking" => cursor' \notin visited)
  <1> DEFINE k == NextKey(cursor)
  <1>1. Inv /\ Small /\ Walk /\ loop = "walking"
    BY DEF LoopInv, Step
  <1>2. UNCHANGED <<array, hash, keys, k2i, owed>>
    BY DEF Step
  <1>3. Inv' /\ Small'
    BY <1>1, <1>2 DEF Inv, TypeOK, KeysIndexed, Small
  <1>4. FirstAfter(k, Reached)
    BY <1>1, NextKeyFirst DEF Walk, Reached
  <1>5. owed \subseteq Present /\ \A h \in owed : Place(h) <= Reached => h \in visited
    BY <1>1 DEF Walk
  <1>6. \A h : Listed(h)' = Listed(h) /\ Place(h)' = Place(h)
    BY <1>2 DEF Listed, Place
  <1>7. CASE k = Nil
    <2>1. loop' = "done" /\ UNCHANGED <<cursor, visited>>
      BY <1>7 DEF Step
    <2>2. \A h \in owed : Place(h) <= Reached
      BY <1>4, <1>5, <1>7 DEF FirstAfter
    <2>3. owed \subseteq visited
      BY <1>5, <2>2
    <2>4. Reached' = Reached
      BY <1>2, <2>1 DEF Reached, Place
    <2>5. Walk'
      BY <1>1, <1>2, <1>6, <2>1, <2>3, <2>4 DEF Walk
    <2> QED
      BY <1>3, <2>1, <2>5 DEF LoopInv
  <1>8. CASE k # Nil
    <2>1. cursor' = k /\ visited' = visited \cup {k} /\ loop' = "walking"
      BY <1>1, <1>8 DEF Step
    <2> HIDE DEF k
    <2>2. /\ Listed(k) /\ Place(k) > Reached
          /\ \A h \in Present : Place(h) < Place(k) => Place(h) <= Reached
      BY <1>4, <1>8 DEF FirstAfter
    <2>3. Place(k) \in Nat
      BY <1>1, <2>2, ListedFacts
    <2>4. Reached \in Nat
      BY <1>1, ListedFacts DEF Walk, Reached
    <2>5. \A h \in visited : Listed(h) /\ Place(h) <= Reached
      BY <1>1 DEF Walk
    <2>6. k \notin visited
      BY <2>2, <2>3, <2>4, <2>5
    <2>7. Reached' = Place(k)
      BY <1>6, <1>8, <2>1 DEF Reached
    <2>8. \A h \in visited' : Listed(h)' /\ Place(h)' <= Reached'
      <3>1. ASSUME NEW h \in visited PROVE Listed(h) /\ Place(h) <= Place(k)
        <4>1. Listed(h) /\ Place(h) <= Reached /\ Place(h) \in Nat
          BY <1>1, <2>5, ListedFacts
        <4> QED
          BY <2>2, <2>3, <2>4, <4>1
      <3>2. Place(k) <= Place(k)
        BY <2>3
      <3>3. \A h \in visited \cup {k} : Listed(h) /\ Place(h) <= Place(k)
        BY <2>2, <3>1, <3>2
      <3> QED
        BY <1>6, <2>1, <2>7, <3>3
    <2>9. ASSUME NEW h \in owed, Place(h) <= Place(k) PROVE h \in visited \cup {k}
      <3>1. h \in Present /\ Listed(h) /\ Place(h) \in Nat
        BY <1>1, <1>5, PresentFacts, ListedFacts
      <3>2. CASE Place(h) < Place(k)
        BY <1>5, <2>2, <3>1, <3>2
      <3>3. CASE Place(h) = Place(k)
        BY <1>1, <2>2, <3>1, <3>3, PlacesDiffer
      <3> QED
        BY <2>3, <2>9, <3>1, <3>2, <3>3
    <2>10. Present' = Present
      BY <1>2 DEF Present, RawGet, RawGetH
    <2>11. owed' \subseteq Present'
      BY <1>2, <1>5, <2>10
    <2>12. \A h \in owed' : Place(h)' <= Reached' => h \in visited'
      BY <1>2, <1>6, <2>1, <2>7, <2>9
    <2>13. cursor' = Nil \/ Listed(cursor)'
      BY <1>2, <2>1, <2>2 DEF Listed
    <2>14. Walk'
      BY <2>1, <2>8, <2>11, <2>12, <2>13 DEF Walk
    <2> QED
      BY <1>3, <2>1, <2>6, <2>14 DEF LoopInv
  <1> QED
    BY <1>7, <1>8

LEMMA AssignInv ==
  ASSUME LoopInv, NEW k \in Keys, NEW v \in Values \cup {Nil}, Assign(k, v)
  PROVE  LoopInv'
  <1>1. Inv /\ Small /\ Walk /\ loop = "walking" /\ k \in Present /\ RawSet(k, v)
    BY DEF LoopInv, Assign
  <1>2. owed' = owed \cap Present' /\ UNCHANGED <<cursor, loop, visited>>
    BY DEF Assign
  <1>3. Inv' /\ Len(array') = Len(array) /\ keys' = keys /\ k2i' = k2i
    BY <1>1, AssignMovesNothing
  <1>4. Small'
    BY <1>1, <1>3 DEF Small
  <1>5. \A h : Listed(h)' = Listed(h) /\ Place(h)' = Place(h)
    BY <1>3 DEF Listed, Place
  <1>6. Reached' = Reached
    BY <1>2, <1>3 DEF Reached, Place
  <1>7. cursor' = Nil \/ Listed(cursor)'
    BY <1>1, <1>2, <1>3 DEF Walk, Listed
  <1>8. Walk'
    BY <1>1, <1>2, <1>5, <1>6, <1>7 DEF Walk
  <1> QED
    BY <1>3, <1>4, <1>8 DEF LoopInv

LEMMA LoopNextInv ==
  ASSUME AppendsBelow, LoopInv, [LoopNext]_tvars
  PROVE  LoopInv'
  <1>1. Inv /\ Small /\ Walk
    BY DEF LoopInv
  <1>2. CASE Build
    <2>1. loop = "idle" /\ [Next]_vars /\ UNCHANGED <<cursor, loop, visited>>
      BY <1>2 DEF Build, loopVars
    <2>2. Inv' /\ Small'
      BY <1>1, <2>1, NextInv, NextSmall
    <2>3. Walk'
      BY <1>1, <2>1 DEF Walk
    <2> QED
      BY <2>2, <2>3 DEF LoopInv
  <1>3. CASE Start
    <2>1. /\ loop = "idle" /\ loop' = "walking" /\ owed' = Present
          /\ UNCHANGED <<array, hash, keys, k2i, cursor, visited>>
      BY <1>3 DEF Start
    <2>2. Inv' /\ Small'
      BY <1>1, <2>1 DEF Inv, TypeOK, KeysIndexed, Small
    <2>3. cursor' = Nil /\ visited' = {} /\ Reached' = 0 /\ Present' = Present
      BY <1>1, <2>1 DEF Walk, Reached, Present, RawGet, RawGetH
    <2>4. \A h \in Present : Place(h)' = Place(h) /\ Place(h) \in Nat \ {0}
      BY <1>1, <2>1, PresentFacts, ListedFacts DEF Place
    <2>5. \A h \in owed' : ~(Place(h)' <= Reached')
      BY <2>1, <2>3, <2>4
    <2>6. Walk'
      BY <2>1, <2>3, <2>5 DEF Walk
    <2> QED
      BY <2>2, <2>6 DEF LoopInv
  <1>4. CASE Step
    BY <1>4, StepInv
  <1>5. ASSUME NEW k \in Keys, NEW v \in Values \cup {Nil}, Assign(k, v) PROVE LoopInv'
    BY <1>5, AssignInv
  <1>6. CASE UNCHANGED tvars
    <2>1. UNCHANGED <<array, hash, keys, k2i, cursor, loop, visited, owed>>
      BY <1>6 DEF tvars
    <2>2. Inv' /\ Small'
      BY <1>1, <2>1 DEF Inv, TypeOK, KeysIndexed, Small
    <2>3. Walk'
      BY <1>1, <2>1 DEF Walk, Listed, Place, Reached, Present, RawGet, RawGetH
    <2> QED
      BY <2>2, <2>3 DEF LoopInv
  <1> QED
    BY <1>2, <1>3, <1>4, <1>5, <1>6 DEF LoopNext

LEMMA LoopAlways ==
  ASSUME AppendsBelow
  PROVE  LoopSpec => []LoopInv
  <1>1. LoopInv /\ [LoopNext]_tvars => LoopInv'
    BY LoopNextInv
  <1> QED
    BY LoopInitInv, <1>1, PTL DEF LoopSpec

(* Next (baseNext, basePairs) gives a loop no key twice, whatever its body
   assigns to the fields there are, as long as appending did not reach
   MaxArrayIndex. *)
THEOREM LoopNeverTwice ==
  ASSUME AppendsBelow
  PROVE  LoopSpec => NeverTwice
  <1>1. LoopInv => [Step /\ loop' = "walking" => cursor' \notin visited]_tvars
    BY StepInv
  <1> QED
    BY LoopAlways, <1>1, PTL DEF LoopSpec, NeverTwice

(* A loop that has ended has met every key that kept a value, as long as
   appending did not reach MaxArrayIndex. *)
THEOREM LoopMeetsAll ==
  ASSUME AppendsBelow
  PROVE  LoopSpec => []LoopComplete
  <1>1. LoopInv => LoopComplete
    BY DEF LoopInv, Walk, LoopComplete
  <1> QED
    BY LoopAlways, <1>1, PTL

(* Building a table and looping over it uses the table as any program does,
   so what was proved of a table holds of the one a loop walks. *)
THEOREM LoopUsesTable == LoopSpec => Spec
  <1>1. LoopInit => Init
    BY DEF LoopInit
  <1>2. [LoopNext]_tvars => [Next]_vars
    <2>1. CASE Build
      BY <2>1 DEF Build
    <2>2. CASE Start \/ Step
      BY <2>2 DEF Start, Step, vars
    <2>3. ASSUME NEW k \in Keys, NEW v \in Values \cup {Nil}, Assign(k, v) PROVE Next
      BY <2>3 DEF Assign, Next
    <2>4. CASE UNCHANGED tvars
      BY <2>4 DEF tvars, vars
    <2> QED
      BY <2>1, <2>2, <2>3, <2>4 DEF LoopNext
  <1> QED
    BY <1>1, <1>2, PTL DEF LoopSpec, Spec
=============================================================================
