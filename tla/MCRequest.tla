------------------------------ MODULE MCRequest ------------------------------
(***************************************************************************)
(* Few threads and slots, so that requests collide in a slot, and a seq    *)
(* number that wraps.  A reply of each of two responders answers a request *)
(* twice.                                                                  *)
(***************************************************************************)
EXTENDS Request, TLC

\* Threads and responders are only compared for equality.
Symmetric == Permutations(Threads) \cup Permutations(Responders)
===============================================================================
