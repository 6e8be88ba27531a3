------------------------------ MODULE MCChannels ------------------------------
(***************************************************************************)
(* Channels for TLC: a channel without a buffer and one with a buffer for  *)
(* one value, selects with tables of each kind in each position, and a     *)
(* state that the host cancels with another at the end of its channels.    *)
(***************************************************************************)
EXTENDS Channels

CONSTANTS script, peer, unbuffered, buffered, value, function

Sizes == [c \in {unbuffered, buffered} |-> IF c = buffered THEN 1 ELSE 0]

Calls == [s \in {script, peer} |-> IF s = script THEN 3 ELSE 1]
Contexts == [s \in {script, peer} |-> IF s = script THEN 1 ELSE 0]
PCalls == Contexts

Recv(c) == [dir |-> "recv", ch |-> c]
Default == [dir |-> "default"]
Selects ==
  {<<Recv(unbuffered), Case("send", buffered, value)>>, <<Recv(buffered), Default>>,
   <<Case("send", unbuffered, value), Recv(buffered)>>, <<Default, Case("send", unbuffered, function)>>}
===============================================================================
