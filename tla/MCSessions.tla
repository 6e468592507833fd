----------------------------- MODULE MCSessions -----------------------------
(***************************************************************************)
(* Instances of Sessions for TLC: one person with two browsers.            *)
(***************************************************************************)
EXTENDS Sessions, TLC

CONSTANTS a1, b1, b2, r1, r2, r3, u1, u2, t1, t2, t3

OnePerson == [b \in Browser |-> a1]

Sym == Permutations(Request) \cup Permutations(UserId) \cup Permutations(TokenId)
         \cup Permutations(Browser)
=============================================================================
