------------------------------- MODULE LTable -------------------------------
(***************************************************************************)
(* LTable (table.go): an array part for the keys 1 .. MaxArrayIndex - 1, a *)
(* hash part for the others, and the list of hash keys in the order of     *)
(* their first assignment, with its inverse, that Next walks.              *)
(*                                                                         *)
(* dict and strdict are one map here: their key sets are disjoint and      *)
(* every operation treats them alike.  An array that is not allocated yet  *)
(* is an empty one: only Next tells them apart, and only when it is asked  *)
(* for the key after an array key that has never been in the table, which  *)
(* no loop over the table asks for (NextKey answers for the allocated one) *)
(***************************************************************************)
EXTENDS Integers, Sequences

Seqs == INSTANCE SequencesExt

CONSTANTS
  Names,          \* the keys that are no numbers
  FarKeys,        \* the integer keys that no array holds, like 0 and -1
  Values,         \* the values other than nil
  Nil,            \* LNil
  MaxArrayIndex,  \* config.go
  ArrayBound      \* bound on the length an append or insert grows the array to

ArrayKeys == 1 .. MaxArrayIndex - 1
IntKeys == ArrayKeys \cup FarKeys
Keys == IntKeys \cup Names

(* FarKeys may hold MaxArrayIndex, the first key beyond any array. *)
ASSUME TableAssumption ==
  /\ MaxArrayIndex \in Nat \ {0, 1} /\ ArrayBound \in Nat
  /\ FarKeys \subseteq Int /\ FarKeys \cap ArrayKeys = {}
  /\ Names \cap Int = {}
  /\ Nil \notin Values /\ Nil \notin Keys

VARIABLES
  array,  \* the array part: its elements may be Nil
  hash,   \* dict and strdict: Nil where there is no entry
  keys,   \* the hash keys ever assigned, in the order Next visits them
  k2i     \* their positions in keys, counted from 0; -1 where there is none

vars == <<array, hash, keys, k2i>>

HashKeys == FarKeys \cup Names

TypeOK ==
  /\ array \in Seq(Values \cup {Nil})
  /\ hash \in [HashKeys -> Values \cup {Nil}]
  /\ keys \in Seq(HashKeys)
  /\ k2i \in [HashKeys -> Nat \cup {-1}]

isArrayKey(k) == k \in ArrayKeys

RawGetH(k) == hash[k]

RawGet(k) ==
  IF isArrayKey(k)
  THEN IF k <= Len(array) THEN array[k] ELSE Nil
  ELSE RawGetH(k)

NotNil(v) == v # Nil

(* The definitions whose names begin with "Mutant" are each a later one with
   a plausible bug; they show that the properties notice. *)
MutantLength == Len(array)

(* Len (the # operator), which MaxN repeats: the position of the last element
   that is not nil, 0 if there is none. *)
Length == Seqs!SelectLastInSeq(array, NotNil)

Init ==
  /\ array = << >>
  /\ hash = [k \in HashKeys |-> Nil]
  /\ keys = << >>
  /\ k2i = [k \in HashKeys |-> -1]

-----------------------------------------------------------------------------

(* The store in the array, which is padded with nils up to k. *)
SetArray(k, v) ==
  LET n == Len(array)
  IN  /\ array' = [i \in 1 .. (IF k > n THEN k ELSE n) |->
                     IF i = k THEN v ELSE IF i <= n THEN array[i] ELSE Nil]
      /\ UNCHANGED <<hash, keys, k2i>>

MutantRawSetH(k, v) ==
  /\ hash' = [hash EXCEPT ![k] = v]
  /\ IF v # Nil /\ k2i[k] = -1
     THEN /\ k2i' = [k2i EXCEPT ![k] = Len(keys)]
          /\ keys' = Append(keys, k)
     ELSE k2i' = [k2i EXCEPT ![k] = IF v = Nil THEN -1 ELSE @] /\ UNCHANGED keys
  /\ UNCHANGED array

(* RawSetH and RawSetString: deleting leaves the key in keys and k2i. *)
RawSetH(k, v) ==
  /\ hash' = [hash EXCEPT ![k] = v]
  /\ IF v # Nil /\ k2i[k] = -1
     THEN /\ k2i' = [k2i EXCEPT ![k] = Len(keys)]
          /\ keys' = Append(keys, k)
     ELSE UNCHANGED <<keys, k2i>>
  /\ UNCHANGED array

RawSet(k, v) == IF isArrayKey(k) THEN SetArray(k, v) ELSE RawSetH(k, v)

RawSetInt(k, v) ==
  IF k < 1 \/ k >= MaxArrayIndex THEN RawSetH(k, v) ELSE SetArray(k, v)

(* LTable.Append, table.insert(t, v): after the last element that is not
   nil. Nothing keeps the array below MaxArrayIndex. *)
AppendValue(v) ==
  /\ v # Nil
  /\ Length < ArrayBound
  /\ SetArray(Length + 1, v)

MutantInsert(pos, v) ==
  IF pos >= Len(array) THEN RawSetInt(pos, v)
  ELSE IF pos <= 0 THEN RawSet(pos, v)
  ELSE /\ Len(array) < ArrayBound
       /\ array' = Seqs!InsertAt(array, pos, v)
       /\ UNCHANGED <<hash, keys, k2i>>

(* LTable.Insert, table.insert(t, pos, v). *)
Insert(pos, v) ==
  IF pos > Len(array) THEN RawSetInt(pos, v)
  ELSE IF pos <= 0 THEN RawSet(pos, v)
  ELSE /\ Len(array) < ArrayBound
       /\ array' = Seqs!InsertAt(array, pos, v)
       /\ UNCHANGED <<hash, keys, k2i>>

MutantRemoveNoSlice(pos) ==
  LET p == IF pos < 1 THEN Len(array) ELSE pos
  IN  /\ array' = IF p \in 1 .. Len(array)
                  THEN Append(Seqs!RemoveAt(array, p), array[Len(array)])
                  ELSE array
      /\ UNCHANGED <<hash, keys, k2i>>

(* LTable.Remove: a position below 1 (table.remove(t) passes -1) stands for
   the last element of the array, be it nil or not. *)
Remove(pos) ==
  LET p == IF pos < 1 THEN Len(array) ELSE pos
  IN  /\ array' = IF p \in 1 .. Len(array) THEN Seqs!RemoveAt(array, p) ELSE array
      /\ UNCHANGED <<hash, keys, k2i>>

Next ==
  \/ \E k \in Keys, v \in Values \cup {Nil} : RawSet(k, v)
  \/ \E k \in IntKeys, v \in Values \cup {Nil} : RawSetInt(k, v)
  \/ \E v \in Values : AppendValue(v)
  \/ \E pos \in IntKeys, v \in Values \cup {Nil} : Insert(pos, v)
  \/ \E pos \in IntKeys : Remove(pos)

Spec == Init /\ [][Next]_vars

-----------------------------------------------------------------------------
(* LTable.Next: the key after k, in the order of the array and then of keys,
   whose value is not nil, or Nil. *)

MutantKeyFromSkips(i) ==
  LET at == Seqs!SelectInSubSeq(keys, i + 2, Len(keys), LAMBDA k : hash[k] # Nil)
  IN  IF at = 0 THEN Nil ELSE keys[at]

MutantKeyFromStays(i) ==
  LET at == Seqs!SelectInSubSeq(keys, IF i = 0 THEN 1 ELSE i, Len(keys), LAMBDA k : hash[k] # Nil)
  IN  IF at = 0 THEN Nil ELSE keys[at]

(* The first present key of keys whose position, from 0, is i or more. *)
KeyFrom(i) ==
  LET at == Seqs!SelectInSubSeq(keys, i + 1, Len(keys), LAMBDA k : hash[k] # Nil)
  IN  IF at = 0 THEN Nil ELSE keys[at]

(* k2i[k], which is 0 for a key it does not know. *)
Position(k) == IF k \in HashKeys /\ k2i[k] # -1 THEN k2i[k] ELSE 0

NextInArray(index) == Seqs!SelectInSubSeq(array, index + 1, Len(array), NotNil)

NextKey(k) ==
  LET index == IF k = Nil THEN 0 ELSE k
  IN  CASE k # Nil /\ ~isArrayKey(k) -> KeyFrom(Position(k) + 1)
        [] (k = Nil \/ isArrayKey(k)) /\ NextInArray(index) # 0 -> NextInArray(index)
        [] (k = Nil \/ isArrayKey(k)) /\ NextInArray(index) = 0 ->
             KeyFrom(IF index <= Len(array) THEN 0 ELSE Position(k) + 1)

-----------------------------------------------------------------------------
(* keys and k2i are inverse to each other and know every key that has a
   value, so that Next can go on from any key it has returned. *)
KeysIndexed ==
  /\ \A i \in 1 .. Len(keys) : k2i[keys[i]] = i - 1
  /\ \A k \in HashKeys :
       /\ k2i[k] # -1 => k2i[k] < Len(keys) /\ keys[k2i[k] + 1] = k
       /\ hash[k] # Nil => k2i[k] # -1

(* What # returns is a border, below the array limit: the element there is
   not nil and the one after it is. *)
LengthIsBorderBelowLimit ==
  /\ Length # 0 => RawGet(Length) # Nil
  /\ isArrayKey(Length + 1) => RawGet(Length + 1) = Nil

-----------------------------------------------------------------------------
(* The table programs see. *)
map == [k \in Keys |-> RawGet(k)]

Abstract == INSTANCE LuaTable WITH Positions <- ArrayKeys

(* Below the limit the array, the hash and the list of keys are a Lua
   table. *)
IsLuaTable == Abstract!Spec

(* Each operation does what the one of its name does to a Lua table: what
   was stored is found again, and an insert or remove shifts the values
   from its position on and no others. *)
OperationsMatch ==
  [][/\ \A k \in Keys, v \in Values \cup {Nil} : RawSet(k, v) => Abstract!Set(k, v)
     /\ \A k \in IntKeys, v \in Values \cup {Nil} : RawSetInt(k, v) => Abstract!Set(k, v)
     /\ \A v \in Values : AppendValue(v) => Abstract!Set(Length + 1, v)
     /\ \A k \in ArrayKeys, v \in Values \cup {Nil} : Insert(k, v) => Abstract!InsertAt(k, v)
     /\ \A k \in FarKeys, v \in Values \cup {Nil} : Insert(k, v) => Abstract!Set(k, v)
     /\ \A k \in ArrayKeys : Remove(k) => Abstract!RemoveAt(k)]_vars
=============================================================================
