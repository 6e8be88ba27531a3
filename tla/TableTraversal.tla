---------------------------- MODULE TableTraversal ----------------------------
(***************************************************************************)
(* A pairs loop over an LTable: next called with the key it returned last, *)
(* until it returns nil, while the body of the loop changes the table.     *)
(* Lua lets the body assign to existing fields, nil included.              *)
(***************************************************************************)
EXTENDS LTable

VARIABLES
  cursor,   \* the key that next returned last, Nil before the first call
  loop,     \* "idle", "walking" or "done"
  visited,  \* the keys the loop has been given
  owed      \* the keys that have had a value since the loop began

loopVars == <<cursor, loop, visited, owed>>
tvars == <<array, hash, keys, k2i, cursor, loop, visited, owed>>

Present == {k \in Keys : RawGet(k) # Nil}

LoopTypeOK ==
  /\ TypeOK
  /\ cursor \in Keys \cup {Nil}
  /\ loop \in {"idle", "walking", "done"}
  /\ visited \subseteq Keys
  /\ owed \subseteq Keys

LoopInit ==
  /\ Init
  /\ cursor = Nil
  /\ loop = "idle"
  /\ visited = {}
  /\ owed = {}

(* Anything that happens to the table before the loop. *)
Build ==
  /\ loop = "idle"
  /\ Next
  /\ UNCHANGED loopVars

(* basePairs: the loop starts with nil. *)
Start ==
  /\ loop = "idle"
  /\ loop' = "walking"
  /\ owed' = Present
  /\ UNCHANGED <<array, hash, keys, k2i, cursor, visited>>

(* baseNext, called by the loop. *)
Step ==
  /\ loop = "walking"
  /\ LET k == NextKey(cursor)
     IN  IF k = Nil
         THEN loop' = "done" /\ UNCHANGED <<cursor, visited>>
         ELSE /\ cursor' = k
              /\ visited' = visited \cup {k}
              /\ UNCHANGED loop
  /\ UNCHANGED <<array, hash, keys, k2i, owed>>

(* The body assigns to an existing field. *)
Assign(k, v) ==
  /\ loop = "walking"
  /\ k \in Present
  /\ RawSet(k, v)
  /\ owed' = owed \cap Present'
  /\ UNCHANGED <<cursor, loop, visited>>

LoopNext ==
  \/ Build
  \/ Start
  \/ Step
  \/ \E k \in Keys, v \in Values \cup {Nil} : Assign(k, v)

(* The loop goes on. *)
LoopSpec == LoopInit /\ [][LoopNext]_tvars /\ WF_tvars(Step)

-----------------------------------------------------------------------------
(* No key is given to the loop twice, though the body assigns while the list
   of keys keeps those whose value has become nil. *)
NeverTwice ==
  [][Step /\ loop' = "walking" => cursor' \notin visited]_tvars

(* A loop that has ended has been given every key that had a value all the
   time. *)
LoopComplete == loop = "done" => owed \subseteq visited

(* A loop whose body only assigns to existing fields comes to its end. *)
LoopEnds == loop = "walking" ~> loop = "done"
=============================================================================
