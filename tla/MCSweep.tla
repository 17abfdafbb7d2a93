------------------------------ MODULE MCSweep ------------------------------
(***************************************************************************)
(* Sweep on small instances.  The verdicts are one of each effect: a       *)
(* credible confirmation, a credible invalidation, a rumor, and no change. *)
(***************************************************************************)
EXTENDS Sweep, TLC

CONSTANTS a1, a2, c1, c2

Says(p) == [proposed |-> p, source |-> "reporting"]
FourVerdicts == {Says("confirmed"), Says("invalidated"), Says("rumored"), Says("no_change")}
TwoVerdicts  == {Says("confirmed"), Says("rumored")}
OneVerdict   == {Says("confirmed")}

AllOfAll == {[status |-> "TRACKING", qmode |-> "ALL", cmode |-> "ALL"]}

Interchangeable == Permutations({a1, a2}) \union Permutations({c1, c2})
=============================================================================
