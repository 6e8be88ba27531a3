------------------------------- MODULE TextFile -------------------------------
(***************************************************************************)
(* A file as a Lua program thinks of it: a text, and handles that each are *)
(* somewhere in it.  There are no buffers: what is written is there.       *)
(***************************************************************************)
EXTENDS Integers, Sequences

CONSTANTS
  Handle, Byte,
  Zero,       \* the byte that fills a gap
  Chunk,      \* what is written at once
  MaxLength,  \* bound on the text and on positions
  Closed      \* where a closed handle is

VARIABLES text, at

(* t with bytes written over it from position p. *)
Over(t, p, bytes) ==
  LET end == IF bytes # << >> /\ p + Len(bytes) > Len(t) THEN p + Len(bytes) ELSE Len(t)
  IN  [i \in 1 .. end |->
         IF i > p /\ i <= p + Len(bytes) THEN bytes[i - p] ELSE IF i <= Len(t) THEN t[i] ELSE Zero]

Init == text \in Seq(Byte) /\ at = [h \in Handle |-> Closed]

Open(h) == at[h] = Closed /\ at'[h] = 0 /\ text' \in {text, << >>}

Close(h) == at[h] # Closed /\ at'[h] = Closed /\ UNCHANGED text

(* At the handle's position, or at the end for a file opened to append. *)
Write(h) ==
  /\ at[h] # Closed
  /\ \E p \in {at[h], Len(text)}, bytes \in Chunk :
       /\ at'[h] = p + Len(bytes)
       /\ text' = Over(text, p, bytes)

Read(h) == at[h] # Closed /\ at'[h] \in at[h] .. Len(text) /\ UNCHANGED text

Seek(h) == at[h] # Closed /\ at'[h] \in 0 .. MaxLength /\ UNCHANGED text

(* Each operation is one handle's, and no other is moved by it. *)
Next ==
  \E h \in Handle :
    /\ at' = [at EXCEPT ![h] = at'[h]]
    /\ Seek(h) \/ Read(h) \/ Open(h) \/ Close(h) \/ Write(h)
Spec == Init /\ [][Next]_<<text, at>>
===============================================================================
