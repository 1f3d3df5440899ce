---------------------------- MODULE ManagerTokens ----------------------------
(***************************************************************************)
(* Manager with tokens that are strings.  The constants of Manager about   *)
(* tokens are what Split and Verify say of their strings: IdOf is the id   *)
(* that Split finds, and Canonical leads a string that Verify accepts to   *)
(* the one that Sign made.                                                 *)
(***************************************************************************)
EXTENDS Manager, Token

CONSTANTS
    Users,  \* ids of users as the callers of the manager give them: any strings
    Uuids,  \* what newSessionID returns
    Owner,  \* the user in whose name CreateToken made a token
    Text    \* the string of a token

\* The tokens made by CreateToken.
Signed == {p[1] : p \in Minted} \cup {p[2] : p \in Minted}

\* Two strings that differ in the spelling of the signature at most.
Respelled(s, t) ==
    LET n == Len(t) IN
    /\ Len(s) = n
    /\ SubSeq(s, 1, n - 1) = SubSeq(t, 1, n - 1)
    /\ s[n].bytes = t[n].bytes
    /\ s[n].spelling # "none"

ASSUME TextAssumption ==
    /\ \A t \in Tokens :
          Len(Text[t]) \in Nat /\ Text[t] = [i \in 1..Len(Text[t]) |-> Text[t][i]]
    /\ Owner \in [Signed -> Users]
    /\ \A u \in Users : eid(u) \in Ids
    /\ \A t \in Signed : \E b \in Uuids : Text[t] = createToken(eid(Owner[t]), b)
    /\ \A t \in Tokens : IdOf[t] = IF Split(Text[t]).ok THEN Split(Text[t]).id ELSE NoId

\* Nobody else has the key.
ASSUME SignedAssumption ==
    /\ \A t \in Tokens : Canonical[t] = t \/ Respelled(Text[t], Text[Canonical[t]])
    /\ \A t \in Tokens : Accepted(Text[t]) => Canonical[t] \in Signed

-----------------------------------------------------------------------------
\* Destroy by the id of a user takes all the sessions created for this user, the
\* refreshed ones included, and none of another's.  It is handed an id that may
\* be any string, and the provider finds the id in the tokens, which Refresh
\* mints with the id that Split finds in the old ones.
DestroyReachesOwn ==
    [][\A u \in Users :
          (\E c \in Clients : Destroy(c, eid(u))) /\ answer'.e = "nil" =>
              DOMAIN sessions' = {t \in DOMAIN sessions : Owner[origin[t]] # u}]_vars
=============================================================================
