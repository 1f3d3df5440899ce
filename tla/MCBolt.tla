------------------------------- MODULE MCBolt -------------------------------
(***************************************************************************)
(* Bolt on small instances: a user who may hold two sessions, another who  *)
(* holds one, and a malformed token.                                       *)
(***************************************************************************)
EXTENDS Bolt

CONSTANTS a1, a2, r1, r2, b1, s1, bad, A, B, k, v

MCTokens == {a1, a2, r1, r2, b1, s1, bad}
MCIdOf == [t \in MCTokens |-> CASE t \in {a1, a2, r1, r2} -> A
                                [] t \in {b1, s1} -> B
                                [] OTHER -> NoId]
MCMinted == {<<a1, r1>>, <<a2, r2>>, <<b1, s1>>}

MCNewData == {[x \in Keys |-> v]}

\* The two sessions of A are interchangeable, and so are the clients.
Twins == a1 :> a2 @@ a2 :> a1 @@ r1 :> r2 @@ r2 :> r1
Symmetry == Permutations(Clients) \cup {Twins}

\* No step depends on the last answer.  The purge removes nothing, so which
\* tokens wait for it changes no other step; and once the provider is closed
\* its goroutines reach nothing that others see.
Waiting(c) == IF call[c].op = "send" THEN "send" ELSE call[c]
Observed == <<db, maxSize, done, leaked, [c \in Clients |-> Waiting(c)], reopens,
              now, IF done THEN <<>> ELSE <<Len(ch), checker.pc, clearer>> >>
=============================================================================
