---------------------------- MODULE MCApprovals ----------------------------
(***************************************************************************)
(* ApprovalSweep on a small instance: one condition and one catalyst, one  *)
(* approval with its sweep, and sweeps of the loop.                        *)
(***************************************************************************)
EXTENDS ApprovalSweep, TLC

CONSTANTS a1, c1, q1

OneVerdict == {[proposed |-> "confirmed", source |-> "reporting"]}
AllOfAll   == {[status |-> "TRACKING", qmode |-> "ALL", cmode |-> "ALL"]}
=============================================================================
