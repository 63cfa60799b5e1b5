-------------------------- MODULE MCFunctionTable --------------------------
(***************************************************************************)
(* The function table with two functions, each of which calls the other.   *)
(***************************************************************************)
EXTENDS FunctionTable

CONSTANTS t1, t2, main, leaf

CallsOf == [f \in Functions |-> IF f = main THEN {leaf} ELSE {main}]
=============================================================================
