------------------------------ MODULE LuaTable ------------------------------
(***************************************************************************)
(* What Lua programs rely on when they use a table without metatables: a   *)
(* map from keys to values in which absent keys have the value Nil, and    *)
(* the shifts of table.insert and table.remove.  The implementation is     *)
(* module LTable.                                                          *)
(***************************************************************************)
EXTENDS Integers

CONSTANTS
  Keys,      \* the keys of the table
  Values,    \* the values other than nil
  Nil,
  Positions  \* the keys 1 .. n between which insert and remove shift

VARIABLE map

Init == map = [k \in Keys |-> Nil]

(* t[k] = v; v may be Nil. *)
Set(k, v) == map' = [map EXCEPT ![k] = v]

(* table.insert(t, pos, v): the values from pos on move up. *)
InsertAt(pos, v) ==
  /\ \A k \in Positions : k + 1 \notin Positions => map[k] = Nil
  /\ map' = [k \in Keys |-> IF k = pos THEN v
                            ELSE IF k \in Positions /\ k > pos THEN map[k - 1]
                            ELSE map[k]]

(* table.remove(t, pos): the values above pos move down. *)
RemoveAt(pos) ==
  map' = [k \in Keys |-> IF k \notin Positions \/ k < pos THEN map[k]
                         ELSE IF k + 1 \in Positions THEN map[k + 1]
                         ELSE Nil]

Next ==
  \/ \E k \in Keys, v \in Values \cup {Nil} : Set(k, v)
  \/ \E pos \in Positions, v \in Values \cup {Nil} : InsertAt(pos, v)
  \/ \E pos \in Positions : RemoveAt(pos)

Spec == Init /\ [][Next]_map
=============================================================================
