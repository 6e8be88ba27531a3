------------------------------ MODULE MCRegistry ------------------------------
(* Registry for TLC. *)
EXTENDS Registry

(* One function of each kind: without and with parameters to supply or to
   move, with and without the table of arguments. *)
SampleFunctions ==
  {[params |-> 1, used |-> 2, vararg |-> "no"],
   [params |-> 1, used |-> 2, vararg |-> "dots"],
   [params |-> 1, used |-> 3, vararg |-> "arg"]}
=============================================================================
