------------------------------ MODULE MCManager ------------------------------
(***************************************************************************)
(* Manager on a small instance, with the tokens of the module Token: three *)
(* pairs for one user, one for another whose id begins with the id of the  *)
(* first and a separator, the access token of that pair with its signature *)
(* in another spelling, a well-formed token nobody signed and a malformed  *)
(* one.                                                                    *)
(***************************************************************************)
EXTENDS ManagerTokens, TLC

CONSTANTS a1, a2, a3, r1, r2, r3, b1, s1, respelled, forged, bad, x, y, k, v

A == <<Plain(x)>>
B == <<Plain(x), Plain(y)>>
MCUsers == {A, B}

MCMinted == {<<a1, r1>>, <<a2, r2>>, <<a3, r3>>, <<b1, s1>>}
MCUuids == {a1, a2, a3, r1, r2, r3, b1, s1}
MCTokens == MCUuids \cup {respelled, forged, bad}

MCOwner == [t \in MCUuids |-> IF t \in {b1, s1} THEN B ELSE A]

\* A token is made with a uuid of its own, itself.
MCText == [t \in MCTokens |->
    CASE t \in MCUuids -> createToken(eid(MCOwner[t]), t)
      [] t = respelled -> LET s == createToken(eid(B), b1)
                          IN  [s EXCEPT ![Len(s)].spelling = "other"]
      [] t = forged -> eid(A) \o EncodeSegment(t) \o EncodeSegment(t)
      [] t = bad -> B]

MCIds == {eid(u) : u \in MCUsers}
MCIdOf == [t \in MCTokens |-> IF Split(MCText[t]).ok THEN Split(MCText[t]).id ELSE NoId]
MCCanonical == [t \in MCTokens |-> IF t = respelled THEN b1 ELSE t]

\* Clients are interchangeable, and so are the pairs of A.
Renaming(f) ==
    a1 :> f[a1] @@ a2 :> f[a2] @@ a3 :> f[a3]
      @@ r1 :> (CASE f[a1] = a1 -> r1 [] f[a1] = a2 -> r2 [] OTHER -> r3)
      @@ r2 :> (CASE f[a2] = a1 -> r1 [] f[a2] = a2 -> r2 [] OTHER -> r3)
      @@ r3 :> (CASE f[a3] = a1 -> r1 [] f[a3] = a2 -> r2 [] OTHER -> r3)
Symmetry == Permutations(Clients) \cup {Renaming(f) : f \in Permutations({a1, a2, a3})}

\* Everything but the last answer, on which no step depends.
Unanswered == <<sessions, closed, now, issued, call, origin>>
=============================================================================
