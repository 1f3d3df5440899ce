------------------------------ MODULE MCRedis ------------------------------
(***************************************************************************)
(* Redis on small instances: a user with two or three pairs of tokens, a   *)
(* token of another user, and a malformed token.                           *)
(***************************************************************************)
EXTENDS Redis, TLC

CONSTANTS a1, a2, a3, r1, r2, r3, other, bad, A, B, k, v

MCMinted == {<<a1, r1>>, <<a2, r2>>}
MCMintedThree == MCMinted \cup {<<a3, r3>>}
MCTokens == {a1, a2, r1, r2, other, bad}
MCTokensThree == MCTokens \cup {a3, r3}
MCIdOf == [t \in Tokens |-> CASE t = bad -> NoId [] t = other -> B [] OTHER -> A]
MCNewData == {[x \in Keys |-> v]}

\* Clients are interchangeable, and so are the two pairs.
Twins == a1 :> a2 @@ a2 :> a1 @@ r1 :> r2 @@ r2 :> r1
Symmetry == Permutations(Clients) \cup {Twins}

\* No step depends on the last answer.  Once the provider is closed nobody
\* writes to the server any more.
Observed ==
    IF done
    THEN <<[c \in Clients |-> call[c].op], Len(ch), deleter.pc>>
    ELSE <<store, call, ch, deleter, now, origin, revived>>
=============================================================================
