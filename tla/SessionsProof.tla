---------------------------- MODULE SessionsProof ----------------------------
(***************************************************************************)
(* What the operators of Sessions return, for the proofs of the modules    *)
(* that use them.                                                          *)
(***************************************************************************)
EXTENDS Sessions, TLAPS

-----------------------------------------------------------------------------
(* Maps.                                                                   *)

\* Without takes one key out of a map.
LEMMA WithoutFacts ==
    ASSUME NEW f, NEW x
    PROVE  /\ DOMAIN Without(f, x) = DOMAIN f \ {x}
           /\ \A y \in DOMAIN f \ {x} : Without(f, x)[y] = f[y]
           /\ Without(f, x) = [y \in DOMAIN f \ {x} |-> f[y]]
BY DEF Without, Restrict

\* With sets one key of a map.
LEMMA WithFacts ==
    ASSUME NEW f, NEW x, NEW y
    PROVE  /\ DOMAIN With(f, x, y) = DOMAIN f \cup {x}
           /\ With(f, x, y)[x] = y
           /\ \A z \in DOMAIN f \ {x} : With(f, x, y)[z] = f[z]
BY DEF With

\* Maps stay maps when a key is taken out or set.
LEMMA PartialStep ==
    ASSUME NEW f, NEW S, NEW T, IsPartial(f, S, T), NEW x
    PROVE  /\ IsPartial(Without(f, x), S, T)
           /\ \A z \in S, y \in T : IsPartial(With(f, z, y), S, T)
BY DEF IsPartial, With, Without, Restrict

\* A map restricted to some of its keys.
LEMMA RestrictFacts ==
    ASSUME NEW f, NEW D
    PROVE  /\ DOMAIN Restrict(f, D) = D
           /\ \A y \in D : Restrict(f, D)[y] = f[y]
           /\ \A S, T : IsPartial(f, S, T) /\ D \subseteq DOMAIN f
                        => IsPartial(Restrict(f, D), S, T)
BY DEF Restrict, IsPartial

-----------------------------------------------------------------------------
(* Session values and answers.                                             *)

\* IsPartial is membership in Partial, without the enumeration.
LEMMA PartialIff ==
    ASSUME NEW f, NEW S, NEW T
    PROVE  f \in Partial(S, T) <=> IsPartial(f, S, T)
<1>1. ASSUME f \in Partial(S, T)
      PROVE  IsPartial(f, S, T)
  <2>1. PICK D \in SUBSET S : f \in [D -> T]
    BY <1>1 DEF Partial
  <2> QED
    BY <2>1 DEF IsPartial
<1>2. ASSUME IsPartial(f, S, T)
      PROVE  f \in Partial(S, T)
  BY <1>2 DEF Partial, IsPartial
<1> QED
  BY <1>1, <1>2

\* Put and Delete change nothing but the data of a session.
LEMMA WriteFacts ==
    ASSUME NEW u \in TokenValue
    PROVE  /\ \A kv \in Data : /\ SetCopy(u, kv) \in TokenValue
                              /\ SetCopy(u, kv).access = u.access
                              /\ SetCopy(u, kv).refresh = u.refresh
                              /\ SetCopy(u, kv).id = u.id
           /\ \A ks : /\ DeleteKeys(u, ks) \in TokenValue
                      /\ DeleteKeys(u, ks).access = u.access
                      /\ DeleteKeys(u, ks).refresh = u.refresh
                      /\ DeleteKeys(u, ks).id = u.id
<1>1. IsPartial(u.data, Keys, Values)
  BY PartialIff DEF TokenValue, Data
<1>2. ASSUME NEW kv \in Data
      PROVE  Override(u.data, kv) \in Data
  <2>1. IsPartial(kv, Keys, Values)
    BY PartialIff DEF Data
  <2>2. IsPartial(Override(u.data, kv), Keys, Values)
    BY <1>1, <2>1 DEF IsPartial, Override
  <2> QED
    BY <2>2, PartialIff DEF Data
<1>3. ASSUME NEW ks
      PROVE  Restrict(u.data, DOMAIN u.data \ ks) \in Data
  <2>1. IsPartial(Restrict(u.data, DOMAIN u.data \ ks), Keys, Values)
    BY <1>1 DEF IsPartial, Restrict
  <2> QED
    BY <2>1, PartialIff DEF Data
<1> QED
  BY <1>2, <1>3 DEF SetCopy, DeleteKeys, TokenValue

\* A new session, and one that moves to new tokens.
LEMMA MintFacts ==
    ASSUME NEW p \in Minted, NEW at \in Nat
    PROVE  /\ p[1] \in Tokens /\ p[2] \in Tokens /\ IdOf[p[1]] \in Ids
           /\ \A kv \in Data :
                 /\ newTokenValue(p, kv, at) \in TokenValue
                 /\ newTokenValue(p, kv, at).access = p[1]
                 /\ newTokenValue(p, kv, at).refresh = p[2]
                 /\ newTokenValue(p, kv, at).id = IdOf[p[1]]
           /\ \A u \in TokenValue :
                 /\ Refreshed(u, p, at) \in TokenValue
                 /\ Refreshed(u, p, at).access = p[1]
                 /\ Refreshed(u, p, at).refresh = p[2]
                 /\ Refreshed(u, p, at).id = u.id
<1>1. p[1] \in Tokens /\ p[2] \in Tokens /\ IdOf[p[1]] \in Ids
  BY MintedAssumption
<1>2. at + AccessTTL \in Nat /\ at + RefreshTTL \in Nat
  BY TTLAssumption
<1> QED
  BY <1>1, <1>2 DEF newTokenValue, Refreshed, TokenValue

\* An error alone is an answer.
LEMMA ErrType == \A e \in Errors : Err(e) \in Answers
<1>1. Empty \in Partial(Keys, Values \cup {Missing})
  BY PartialIff DEF Empty, IsPartial
<1> QED
  BY <1>1 DEF Err, Answers

\* What a read copies out of a session is an answer.
LEMMA AnswerType ==
    ASSUME NEW u \in TokenValue, NEW r \in ReadOps
    PROVE  Answer(u, r) \in Answers
<1>1. IsPartial(u.data, Keys, Values)
  BY PartialIff DEF TokenValue, Data
<1>2. Err("nil") \in Answers
  BY ErrType DEF Errors
<1>3. CASE r.op = "Check"
  BY <1>2, <1>3 DEF Answer
<1>4. CASE r.op = "Get"
  <2>1. r.ks \in SUBSET Keys
    BY <1>4 DEF ReadOps
  <2>2. IsPartial(CopyKeys(u, r.ks), Keys, Values \cup {Missing})
    BY <1>1, <2>1 DEF CopyKeys, IsPartial
  <2>3. CopyKeys(u, r.ks) \in Partial(Keys, Values \cup {Missing})
    BY <2>2, PartialIff
  <2> QED
    BY <1>2, <1>4, <2>3 DEF Answer, Answers
<1>5. CASE r.op = "Keys"
  <2>1. DOMAIN u.data \in SUBSET Keys
    BY <1>1 DEF IsPartial
  <2> QED
    BY <1>2, <1>5, <2>1 DEF Answer, Answers
<1> QED
  BY <1>3, <1>4, <1>5 DEF ReadOps
=============================================================================
