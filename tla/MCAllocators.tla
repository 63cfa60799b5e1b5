---------------------------- MODULE MCAllocators -----------------------------
(***************************************************************************)
(* Three parts that give out what one user at a time may have, for TLC:    *)
(* the bit map that contexts are taken from, word by word (BitMap), the    *)
(* XMA decoder, which works on contexts that are given out (XmaDecoder),   *)
(* and a heap of guest memory (GuestHeap).  They share no variable, so a   *)
(* behaviour of this module is one of a single part; `part' says which.    *)
(***************************************************************************)
EXTENDS BitMap, XmaDecoder, GuestHeap

CONSTANTS t1, t2, g1, g2

VARIABLE part

PartsInit == part \in {"map", "decoder", "heap"} /\ Init /\ XmaInit /\ HeapInit

PartsNext ==
  /\ UNCHANGED part
  /\ \/ part = "map" /\ Next /\ UNCHANGED <<xmaVars, heapVars>>
     \/ part = "decoder" /\ XmaNext /\ UNCHANGED <<vars, heapVars>>
     \/ part = "heap" /\ HeapNext /\ UNCHANGED <<vars, xmaVars>>

PartsSpec == PartsInit /\ [][PartsNext]_<<part, vars, xmaVars, heapVars>>

=============================================================================
