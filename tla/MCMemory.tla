------------------------------ MODULE MCMemory ------------------------------
(***************************************************************************)
(* Memory on small instances: two users, of whom one may hold two          *)
(* sessions, and one malformed token.                                      *)
(***************************************************************************)
EXTENDS Memory, TLC

CONSTANTS a1, a2, r1, r2, b1, s1, bad, A, B, k, v

Tokens3 == {a1, a2, r1, r2, b1, s1, bad}
IdOf3 == [t \in Tokens3 |-> CASE t \in {a1, a2, r1, r2} -> A
                              [] t \in {b1, s1} -> B
                              [] OTHER -> NoId]
Minted3 == {<<a1, r1>>, <<a2, r2>>, <<b1, s1>>}

Tokens2 == {a1, a2, r1, r2}
IdOf2 == [t \in Tokens2 |-> A]
Minted2 == {<<a1, r1>>, <<a2, r2>>}

\* Addresses and clients are interchangeable, and so are the two sessions of A.
Twins == a1 :> a2 @@ a2 :> a1 @@ r1 :> r2 @@ r2 :> r1
Symmetry == Permutations(Elements) \cup Permutations(Clients) \cup {Twins}

\* Everything but the last answer, on which no step depends.
Unanswered == <<mem, closed, done, lock, call, ch, checker, clearer, now>>
=============================================================================
