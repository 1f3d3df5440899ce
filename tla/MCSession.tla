------------------------------ MODULE MCSession ------------------------------
(***************************************************************************)
(* Session on a small instance: a user with two pairs of tokens, a slice   *)
(* type whose variable the caller keeps and a type of another kind.        *)
(***************************************************************************)
EXTENDS Session, TLC

CONSTANTS a1, a2, r1, r2, bad, A, k1, k2, v, w, slice, array

MCTokens == {a1, r1, a2, r2, bad}
MCIdOf == [t \in Tokens |-> IF t = bad THEN NoId ELSE A]
MCMinted == {<<a1, r1>>, <<a2, r2>>}
MCKindOf == [T \in Types |-> T]
MCDecodable == {<<v, slice>>, <<w, slice>>, <<v, array>>}
MCTokensOne == {a1, r1, bad}
MCMintedOne == {<<a1, r1>>}
MCDecodableS == {<<v, slice>>, <<w, slice>>}

Symmetry == Permutations(Addresses) \cup Permutations({k1, k2})

\* Everything but the answers, on which no step depends.
Unanswered == <<sessions, closed, now, token, keys, heap, pointer, held>>
=============================================================================
