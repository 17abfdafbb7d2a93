-------------------------- MODULE MCMarketReadings --------------------------
(***************************************************************************)
(* MarketReadings on a small instance: two metrics, two threads, and       *)
(* markets in which they pass together, in turn, or one is missing.        *)
(***************************************************************************)
EXTENDS MarketReadings, TLC

CONSTANTS q1, q2, w1, w2

Interchangeable == Permutations({w1, w2})

Both   == [q \in {q1, q2} |-> "pass"]
First  == [q \in {q1, q2} |-> IF q = q1 THEN "pass" ELSE "fail"]
Second == [q \in {q1, q2} |-> IF q = q1 THEN "fail" ELSE "pass"]
Gap    == [q \in {q1, q2} |-> IF q = q1 THEN "fail" ELSE "unknown"]

Course(a, b, c) == [t \in 0..2 |-> CASE t = 0 -> a [] t = 1 -> b [] t = 2 -> c]
Courses == {Course(Both, First, Second), Course(First, Second, Gap)}
=============================================================================
