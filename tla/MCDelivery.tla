----------------------------- MODULE MCDelivery -----------------------------
(***************************************************************************)
(* Delivery on a small instance: two requests and a sweep, one chat that   *)
(* may send the link's command, two tokens and two sockets.                *)
(***************************************************************************)
EXTENDS Delivery, TLC

CONSTANTS r1, r2, sw, s1, s2

Interchangeable == Permutations({r1, r2}) \union Permutations({s1, s2})
=============================================================================
