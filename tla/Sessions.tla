------------------------------ MODULE Sessions ------------------------------
(***************************************************************************)
(* The vocabulary shared by the provider specification and the provider    *)
(* models: tokens and the user ids inside them, session values with their  *)
(* two deadlines, key-value data, and the errors a provider returns.       *)
(*                                                                         *)
(* Tokens are opaque.  What Split computes from one is the constant IdOf:  *)
(* the id of a well-formed token, NoId when Split fails.  CreateToken      *)
(* mints tokens in (access, refresh) pairs, the members of Minted.         *)
(***************************************************************************)
EXTENDS Integers, Sequences, FiniteSets, Functions

CONSTANTS
    Tokens,      \* token strings callers may present, malformed ones included
    Ids,         \* encoded user ids
    NoId,        \* IdOf of a string that Split rejects
    IdOf,        \* what Split returns as the id of a token
    Minted,      \* the <<access, refresh>> pairs CreateToken returned
    Keys,        \* keys of the data of a session
    Values,      \* encoded values
    Missing,     \* the Value with Exists = false
    AccessTTL,   \* opts.access: lifetime of an access token, in clock units
    RefreshTTL,  \* opts.refresh: lifetime of a refresh token, in clock units
    MaxTime      \* bound: the clock runs from 0 to MaxTime

ASSUME TokenAssumption ==
    /\ NoId \notin Ids
    /\ IdOf \in [Tokens -> Ids \cup {NoId}]

ASSUME MintedAssumption ==
    /\ Minted \subseteq Tokens \X Tokens
    /\ \A p \in Minted : IdOf[p[1]] \in Ids /\ IdOf[p[2]] = IdOf[p[1]]
    /\ \A p, q \in Minted : p[1] = q[1] \/ p[2] = q[2] => p = q

ASSUME TTLAssumption ==
    /\ AccessTTL \in Nat \ {0}
    /\ RefreshTTL \in Nat
    /\ AccessTTL <= RefreshTTL
    /\ MaxTime \in Nat

-----------------------------------------------------------------------------
Partial(S, T) == UNION {[D -> T] : D \in SUBSET S}

\* f \in Partial(S, T), for sets T that cannot be enumerated.
IsPartial(f, S, T) == DOMAIN f \subseteq S /\ f \in [DOMAIN f -> T]

Without(f, x) == Restrict(f, DOMAIN f \ {x})

\* The map f with y at x.
With(f, x, y) == [z \in DOMAIN f \cup {x} |-> IF z = x THEN y ELSE f[z]]

\* Two maps merged; where both define a key, g wins.
Override(f, g) ==
    [x \in DOMAIN f \cup DOMAIN g |-> IF x \in DOMAIN g THEN g[x] ELSE f[x]]

Time == 0..MaxTime

Data == Partial(Keys, Values)

Empty == [k \in {} |-> Missing]

\* The fields of a stored session.  A deadline may lie past the last instant
\* of the clock.
TokenValue == [id : Ids, access : Tokens, refresh : Tokens,
               accessDeadline : Nat, refreshDeadline : Nat, data : Data]

\* Mutant: a deadline that lies in the past.
newTokenValueStale(p, kv, at) ==
    [id |-> IdOf[p[1]], access |-> p[1], refresh |-> p[2],
     accessDeadline |-> at - AccessTTL, refreshDeadline |-> at + RefreshTTL,
     data |-> kv]

newTokenValue(p, kv, at) ==
    [id |-> IdOf[p[1]], access |-> p[1], refresh |-> p[2],
     accessDeadline |-> at + AccessTTL, refreshDeadline |-> at + RefreshTTL,
     data |-> kv]

\* The session t moved to the token pair p: new tokens, new deadlines, the
\* same id and data.
Refreshed(t, p, at) ==
    [t EXCEPT !.access = p[1], !.refresh = p[2],
              !.accessDeadline = at + AccessTTL,
              !.refreshDeadline = at + RefreshTTL]

\* Split accepts the token.
Valid(t) == IdOf[t] # NoId

IsExpired(t, at) == ~(t.accessDeadline > at)

IsDeleted(t, at) == ~(t.refreshDeadline > at)

\* The values of the keys ks, Missing where the session has no such key.
CopyKeys(t, ks) ==
    [k \in ks |-> IF k \in DOMAIN t.data THEN t.data[k] ELSE Missing]

SetCopy(t, kv) == [t EXCEPT !.data = Override(t.data, kv)]

DeleteKeys(t, ks) == [t EXCEPT !.data = Restrict(t.data, DOMAIN t.data \ ks)]

Errors == {"nil", "ErrTokenInvalid", "ErrTokenNotExists", "ErrTokenExpired",
           "ErrTokenIDNotMatched", "ErrRefreshTokenNotMatched",
           "ErrSignatureInvalid", "ErrProviderClosed"}

\* What a call returns: its error, and the values or keys it read.
Answers == [e : Errors, vals : Partial(Keys, Values \cup {Missing}),
            keys : SUBSET Keys]

Err(e) == [e |-> e, vals |-> Empty, keys |-> {}]

\* The three read operations, by what they put in the answer.
ReadOps == [op : {"Check"}] \cup [op : {"Get"}, ks : SUBSET Keys]
             \cup [op : {"Keys"}]

Answer(t, r) ==
    CASE r.op = "Check" -> Err("nil")
      [] r.op = "Get"   -> [Err("nil") EXCEPT !.vals = CopyKeys(t, r.ks)]
      [] r.op = "Keys"  -> [Err("nil") EXCEPT !.keys = DOMAIN t.data]
=============================================================================
