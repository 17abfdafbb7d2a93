--------------------------- MODULE MCNewsClassify ---------------------------
(***************************************************************************)
(* NewsClassify on a small instance: three articles, the newest of them a  *)
(* headline without a body, in chunks of two.                              *)
(***************************************************************************)
EXTENDS NewsClassify

Quoted(proposed, source) ==
  [proposed |-> proposed, source |-> source, quote |-> "verbatim", body |-> TRUE]

\* A confirmation and an invalidation from a credible source.
Decisive == {Quoted("confirmed", "reporting"), Quoted("invalidated", "primary")}
=============================================================================
