----------------------------- MODULE MemoryProof -----------------------------
(***************************************************************************)
(* Proofs about Memory, for every set of clients, tokens and values.       *)
(*                                                                         *)
(* The invariants of Memory are not inductive one by one: the indexes stay *)
(* in step only because whoever is inside the mutex is alone there, and a  *)
(* Destroy finds its elements only because the indexes were in step when   *)
(* it began.  IInv puts both together.                                     *)
(***************************************************************************)
EXTENDS Memory, SessionsProof, TLAPS

-----------------------------------------------------------------------------
(* The helpers on sequences and stores.                                    *)

\* Splicing keeps the members of a sequence, whatever the position.
LEMMA SpliceType ==
    ASSUME NEW S, NEW s \in Seq(S), NEW i
    PROVE  Splice(s, i) \in Seq(S)
<1>1. CASE s = <<>>
  BY <1>1 DEF Splice
<1>2. CASE s # <<>>
  <2>1. Len(s) - 1 \in Nat
    BY <1>2
  <2>2. \A j \in 1..(Len(s) - 1) : s[j] \in S /\ s[j + 1] \in S
    OBVIOUS
  <2> QED
    BY <2>1, <2>2 DEF Splice
<1> QED
  BY <1>1, <1>2

\* Splicing an element out of a sequence without repetitions takes exactly that
\* element away.
LEMMA SpliceOut ==
    ASSUME NEW S, NEW s \in Seq(S), IsInjective(s), NEW x \in Range(s)
    PROVE  LET r == Splice(s, Pos(s, x)) IN
           /\ r \in Seq(S)
           /\ Len(r) = Len(s) - 1
           /\ IsInjective(r)
           /\ Range(r) = Range(s) \ {x}
<1> DEFINE i == Pos(s, x)
           r == Splice(s, i)
<1>1. PICK k \in 1..Len(s) : s[k] = x
  BY DEF Range
<1>2. \A j \in 1..(k - 1) : s[j] # x
  BY <1>1 DEF IsInjective
<1>3. i \in 1..Len(s) /\ s[i] = x
  <2>1. k \in DOMAIN s /\ s[k] = x /\ \A j \in 1..(k - 1) : s[j] # x
    BY <1>1, <1>2
  <2> QED
    BY <2>1 DEF Pos
<1> HIDE DEF i
<1>4. r \in Seq(S) /\ Len(s) \in Nat /\ Len(s) > 0
  BY <1>3, SpliceType
<1>5. DOMAIN r = 1..(Len(s) - 1) /\ Len(r) = Len(s) - 1
  BY <1>4 DEF Splice
<1>6. \A j \in 1..(Len(s) - 1) : r[j] = IF j < i THEN s[j] ELSE s[j + 1]
  BY DEF Splice
<1> HIDE DEF r
<1>7. IsInjective(r)
  <2> SUFFICES ASSUME NEW a \in 1..(Len(s) - 1), NEW b \in 1..(Len(s) - 1), r[a] = r[b]
               PROVE  a = b
    BY <1>5 DEF IsInjective
  <2> DEFINE up(j) == IF j < i THEN j ELSE j + 1
  <2>1. up(a) \in 1..Len(s) /\ up(b) \in 1..Len(s)
    BY <1>3
  <2>2. s[up(a)] = s[up(b)]
    BY <1>6
  <2>3. up(a) = up(b)
    BY <2>1, <2>2 DEF IsInjective
  <2> QED
    BY <2>3, <1>3
<1>8. Range(r) \subseteq Range(s) \ {x}
  <2> SUFFICES ASSUME NEW j \in 1..(Len(s) - 1)
               PROVE  r[j] \in Range(s) /\ r[j] # x
    BY <1>5 DEF Range
  <2>1. CASE j < i
    BY <2>1, <1>3, <1>6 DEF Range, IsInjective
  <2>2. CASE ~(j < i)
    BY <2>2, <1>3, <1>6 DEF Range, IsInjective
  <2> QED
    BY <2>1, <2>2
<1>9. Range(s) \ {x} \subseteq Range(r)
  <2> SUFFICES ASSUME NEW n \in 1..Len(s), s[n] # x
               PROVE  s[n] \in Range(r)
    BY DEF Range
  <2>1. CASE n < i
    <3>1. n \in 1..(Len(s) - 1) /\ r[n] = s[n]
      BY <2>1, <1>3, <1>6
    <3> QED
      BY <3>1, <1>5 DEF Range
  <2>2. CASE n > i
    <3>1. n - 1 \in 1..(Len(s) - 1) /\ r[n - 1] = s[n]
      BY <2>2, <1>3, <1>6
    <3> QED
      BY <3>1, <1>5 DEF Range
  <2> QED
    BY <2>1, <2>2, <1>3
<1> QED
  BY <1>4, <1>5, <1>7, <1>8, <1>9 DEF i, r

\* Appending a new element keeps a sequence without repetitions.
LEMMA AppendNew ==
    ASSUME NEW S, NEW s \in Seq(S), IsInjective(s), NEW x \in S, x \notin Range(s)
    PROVE  /\ Append(s, x) \in Seq(S)
           /\ IsInjective(Append(s, x))
           /\ Range(Append(s, x)) = Range(s) \cup {x}
<1>1. /\ DOMAIN Append(s, x) = 1..(Len(s) + 1)
      /\ Append(s, x)[Len(s) + 1] = x
      /\ \A j \in 1..Len(s) : Append(s, x)[j] = s[j]
  OBVIOUS
<1>2. \A j \in 1..Len(s) : s[j] # x
  BY DEF Range
<1>3. IsInjective(Append(s, x))
  BY <1>1, <1>2 DEF IsInjective
<1>4. Range(Append(s, x)) = Range(s) \cup {x}
  BY <1>1 DEF Range
<1> QED
  BY <1>3, <1>4

\* The tail of a sequence without repetitions has lost its head and nothing
\* else.
LEMMA TailFacts ==
    ASSUME NEW S, NEW s \in Seq(S), IsInjective(s), s # <<>>
    PROVE  /\ Tail(s) \in Seq(S)
           /\ Head(s) \in Range(s)
           /\ IsInjective(Tail(s))
           /\ Range(Tail(s)) = Range(s) \ {Head(s)}
<1>1. /\ Tail(s) \in Seq(S)
      /\ Len(s) \in Nat \ {0}
      /\ DOMAIN Tail(s) = 1..(Len(s) - 1)
      /\ \A j \in 1..(Len(s) - 1) : Tail(s)[j] = s[j + 1]
      /\ Head(s) = s[1]
  OBVIOUS
<1>2. IsInjective(Tail(s))
  BY <1>1 DEF IsInjective
<1>3. Head(s) \in Range(s)
  BY <1>1 DEF Range
<1>4. Range(Tail(s)) \subseteq Range(s) \ {Head(s)}
  BY <1>1 DEF Range, IsInjective
<1>5. Range(s) \ {Head(s)} \subseteq Range(Tail(s))
  <2> SUFFICES ASSUME NEW n \in 1..Len(s), s[n] # s[1]
               PROVE  s[n] \in Range(Tail(s))
    BY <1>1 DEF Range
  <2>1. n - 1 \in 1..(Len(s) - 1) /\ Tail(s)[n - 1] = s[n]
    BY <1>1
  <2> QED
    BY <2>1, <1>1 DEF Range
<1> QED
  BY <1>1, <1>2, <1>3, <1>4, <1>5

\* Unlist keeps ids exact when the token it takes off is no longer to be named.
LEMMA UnlistExact ==
    ASSUME NEW ids, IsPartial(ids, Ids, Seq(Tokens)), NEW named \in SUBSET Tokens,
           IdsExact(ids, named), NEW t \in TokenValue, t.access \in named,
           t.id = IdOf[t.access], NEW last \in {0, 1}
    PROVE  /\ IsPartial(Unlist(ids, t, last), Ids, Seq(Tokens))
           /\ IdsExact(Unlist(ids, t, last), named \ {t.access})
<1> DEFINE strs == ids[t.id]
           cut == Splice(strs, Pos(strs, t.access))
<1>1. t.id \in DOMAIN ids /\ t.access \in Range(strs) /\ strs \in Seq(Tokens)
  BY DEF IdsExact, IsPartial
<1>2. /\ IsInjective(strs)
      /\ Range(strs) = {x \in named : IdOf[x] = t.id}
  BY <1>1 DEF IdsExact
<1>3. /\ cut \in Seq(Tokens)
      /\ Len(cut) = Len(strs) - 1
      /\ IsInjective(cut)
      /\ Range(cut) = Range(strs) \ {t.access}
  BY <1>1, <1>2, SpliceOut
<1>4. CASE Len(strs) = last
  <2>1. Len(strs) = 1
    BY <1>1, <1>4 DEF Range
  <2>2. Range(strs) = {t.access}
    BY <1>1, <2>1 DEF Range
  <2>3. Unlist(ids, t, last) = Without(ids, t.id)
    BY <1>1, <1>4 DEF Unlist
  <2>4. \A x \in named \ {t.access} : IdOf[x] # t.id
    BY <2>2, <1>2
  <2>5. /\ DOMAIN Without(ids, t.id) = DOMAIN ids \ {t.id}
        /\ \A id \in DOMAIN ids \ {t.id} : Without(ids, t.id)[id] = ids[id]
    BY WithoutFacts
  <2>6. IdsExact(Without(ids, t.id), named \ {t.access})
    BY <2>4, <2>5 DEF IdsExact
  <2> QED
    BY <2>3, <2>6, PartialStep
<1>5. CASE Len(strs) # last
  <2>1. Unlist(ids, t, last) = [ids EXCEPT ![t.id] = cut]
    BY <1>1, <1>5 DEF Unlist
  <2>2. IsPartial([ids EXCEPT ![t.id] = cut], Ids, Seq(Tokens))
    BY <1>1, <1>3 DEF IsPartial
  <2> HIDE DEF cut
  <2>3. IdsExact([ids EXCEPT ![t.id] = cut], named \ {t.access})
    BY <1>1, <1>2, <1>3 DEF IdsExact
  <2> QED
    BY <2>1, <2>2, <2>3
<1> QED
  BY <1>4, <1>5

\* A store of these fields, and one without the token t and its element e.
Fields(T, I, L, M) == [tokens |-> T, ids |-> I, lru |-> L, elem |-> M]

Out(T, I, L, M, t, e) ==
    Fields(Without(T, t), I, Splice(L, Pos(L, e)), Without(M, e))

\* The indexes of s that do not depend on ids.
Exact(s) == IsStore(s) /\ ListExact(s) /\ TokensExact(s)

\* Whichever operation takes the session of t out of tokens and lru, the rest
\* stays exact.
LEMMA TakeOut ==
    ASSUME NEW s, Exact(s), NEW t \in DOMAIN s.tokens,
           NEW ids, IsPartial(ids, Ids, Seq(Tokens))
    PROVE  LET e == s.tokens[t]
               r == Out(s.tokens, ids, s.lru, s.elem, t, e)
           IN  Exact(r) /\ Len(r.lru) = Len(s.lru) - 1
<1> DEFINE e == s.tokens[t]
           lru == Splice(s.lru, Pos(s.lru, e))
           r == [tokens |-> Without(s.tokens, t), ids |-> ids, lru |-> lru,
                 elem |-> Without(s.elem, e)]
<1>1. /\ s.lru \in Seq(Elements) /\ IsInjective(s.lru) /\ e \in Range(s.lru)
      /\ Range(s.lru) = DOMAIN s.elem
  BY DEF Exact, IsStore, ListExact, TokensExact
<1>2. /\ lru \in Seq(Elements)
      /\ Len(lru) = Len(s.lru) - 1
      /\ IsInjective(lru)
      /\ Range(lru) = Range(s.lru) \ {e}
  BY <1>1, SpliceOut
<1> HIDE DEF lru
<1>3. /\ IsPartial(Without(s.tokens, t), Tokens, Elements)
      /\ IsPartial(Without(s.elem, e), Elements, TokenValue)
  BY PartialStep DEF Exact, IsStore
<1>4. IsStore(r)
  BY <1>2, <1>3 DEF IsStore
<1>5. /\ DOMAIN r.tokens = DOMAIN s.tokens \ {t}
      /\ \A x \in DOMAIN s.tokens \ {t} : r.tokens[x] = s.tokens[x]
      /\ DOMAIN r.elem = DOMAIN s.elem \ {e}
      /\ \A d \in DOMAIN s.elem \ {e} : r.elem[d] = s.elem[d]
  BY DEF Without, Restrict
<1>6. ListExact(r)
  BY <1>1, <1>2, <1>5 DEF ListExact
<1> HIDE DEF r
<1>7. TokensExact(r)
  <2>1. \A x \in DOMAIN s.tokens \ {t} : s.tokens[x] # e
    BY DEF Exact, TokensExact
  <2>2. \A d \in DOMAIN s.elem \ {e} : s.elem[d].access # t
    BY DEF Exact, TokensExact
  <2> QED
    BY <1>5, <2>1, <2>2 DEF Exact, TokensExact
<1> QED
  BY <1>2, <1>4, <1>6, <1>7 DEF Exact, Out, Fields, r, lru

\* All the indexes of s are in step, when a Destroy has still to remove the
\* doomed tokens.
Sound(s, doomed) == Exact(s) /\ IdsExact(s.ids, DOMAIN s.tokens \ doomed)

\* The store NewProvider makes, and Close leaves behind, has its indexes in step.
LEMMA EmptySound == Sound(EmptyStore, {})
<1>1. Empty = [x \in {} |-> Missing] /\ DOMAIN Empty = {}
  BY DEF Empty
<1>2. IsStore(EmptyStore)
  BY <1>1 DEF IsStore, IsPartial, EmptyStore
<1>3. ListExact(EmptyStore) /\ TokensExact(EmptyStore) /\ IdsExact(EmptyStore.ids, {})
  BY <1>1 DEF ListExact, TokensExact, IdsExact, EmptyStore, IsInjective, Range
<1> QED
  BY <1>1, <1>2, <1>3 DEF Sound, Exact, EmptyStore

\* A store is the record of its fields.
LEMMA StoreFields ==
    ASSUME NEW s, Exact(s)
    PROVE  /\ s = Fields(s.tokens, s.ids, s.lru, s.elem)
           /\ IsPartial(s.tokens, Tokens, Elements)
           /\ IsPartial(s.ids, Ids, Seq(Tokens))
           /\ s.lru \in Seq(Elements)
           /\ IsPartial(s.elem, Elements, TokenValue)
BY DEF Exact, IsStore, Fields

\* The session behind a stored token.
LEMMA StoredValue ==
    ASSUME NEW s, Exact(s), NEW t \in DOMAIN s.tokens
    PROVE  /\ s.tokens[t] \in DOMAIN s.elem
           /\ s.elem[s.tokens[t]] \in TokenValue
           /\ s.elem[s.tokens[t]].access = t
           /\ s.elem[s.tokens[t]].id = IdOf[t]
           /\ t \in Tokens
           /\ s.lru # <<>>
<1>1. /\ s.tokens[t] \in DOMAIN s.elem
      /\ s.elem[s.tokens[t]].access = t
      /\ s.elem[s.tokens[t]].id = IdOf[t]
  BY DEF Exact, TokensExact
<1>2. s.elem[s.tokens[t]] \in TokenValue /\ t \in Tokens
  BY <1>1, StoreFields DEF IsPartial
<1>3. s.lru # <<>>
  BY <1>1 DEF Exact, ListExact, Range
<1> QED
  BY <1>1, <1>2, <1>3

\* Taking a session out with its entry in ids keeps the store sound.
LEMMA TakeOutSound ==
    ASSUME NEW s, Sound(s, {}), NEW t \in DOMAIN s.tokens, NEW last \in {0, 1}
    PROVE  LET e == s.tokens[t]
               r == Out(s.tokens, Unlist(s.ids, s.elem[e], last), s.lru, s.elem, t, e)
           IN  /\ Sound(r, {})
               /\ DOMAIN r.tokens = DOMAIN s.tokens \ {t}
               /\ Len(r.lru) = Len(s.lru) - 1
<1> DEFINE e == s.tokens[t]
           ids == Unlist(s.ids, s.elem[e], last)
           r == Out(s.tokens, ids, s.lru, s.elem, t, e)
<1>1. Exact(s) /\ IdsExact(s.ids, DOMAIN s.tokens)
  BY DEF Sound
<1>2. /\ s.elem[e] \in TokenValue
      /\ s.elem[e].access = t
      /\ s.elem[e].id = IdOf[t]
  BY <1>1, StoredValue
<1>3. DOMAIN s.tokens \in SUBSET Tokens /\ IsPartial(s.ids, Ids, Seq(Tokens))
  BY <1>1, StoreFields DEF IsPartial
<1>4. /\ IsPartial(ids, Ids, Seq(Tokens))
      /\ IdsExact(ids, DOMAIN s.tokens \ {t})
  BY <1>1, <1>2, <1>3, UnlistExact
<1> HIDE DEF ids
<1>5. Exact(r) /\ Len(r.lru) = Len(s.lru) - 1
  BY <1>1, <1>4, TakeOut
<1>6. DOMAIN r.tokens = DOMAIN s.tokens \ {t} /\ r.ids = ids
  BY WithoutFacts DEF Out, Fields
<1>7. Sound(r, {})
  BY <1>4, <1>5, <1>6 DEF Sound
<1> QED
  BY <1>5, <1>6, <1>7 DEF ids

\* What the helpers make of the fields of a store.
LEMMA HelperFields ==
    ASSUME NEW T, NEW I, NEW L, NEW M, NEW e, NEW t
    PROVE  /\ DeleteToken(unsafePop(Fields(T, I, L, M), e), t)
                 = Out(T, Unlist(I, M[e], 1), L, M, t, e)
           /\ DeleteToken(Remove(Fields(T, I, L, M), e), t) = Out(T, I, L, M, t, e)
<1>1. Remove(Fields(T, I, L, M), e)
         = Fields(T, I, Splice(L, Pos(L, e)), Without(M, e))
  BY DEF Remove, Fields
<1>2. unsafePop(Fields(T, I, L, M), e)
         = Fields(T, Unlist(I, M[e], 1), Splice(L, Pos(L, e)), Without(M, e))
  BY <1>1 DEF unsafePop, Fields
<1>3. \A J, K, N, u : DeleteToken(Fields(T, J, K, N), u) = Fields(Without(T, u), J, K, N)
  BY DEF DeleteToken, Fields
<1> QED
  BY <1>1, <1>2, <1>3 DEF Out

\* The same for one turn of the sweep.
LEMMA DropFrontFields ==
    ASSUME NEW T, NEW I, NEW L, NEW M, NEW e, e = Head(L)
    PROVE  DropFront(Fields(T, I, L, M))
              = Out(T, Unlist(I, M[e], 0), L, M, M[e].access, e)
<1> DEFINE s == Fields(T, I, L, M)
           r == [Remove(s, e) EXCEPT !.ids = Unlist(@, M[e], 0)]
<1>1. DropFront(s) = DeleteToken(r, M[e].access)
  BY DEF DropFront, Fields
<1>2. r = Fields(T, Unlist(I, M[e], 0), Splice(L, Pos(L, e)), Without(M, e))
  BY DEF Remove, Fields
<1>3. \A J, K, N, u : DeleteToken(Fields(T, J, K, N), u) = Fields(Without(T, u), J, K, N)
  BY DEF DeleteToken, Fields
<1> QED
  BY <1>1, <1>2, <1>3 DEF Out

\* unsafePop of the element of t, and delete(p.tokens, t).
LEMMA PopSound ==
    ASSUME NEW s, Sound(s, {}), NEW t \in DOMAIN s.tokens
    PROVE  LET r == DeleteToken(unsafePop(s, s.tokens[t]), t) IN
           /\ Sound(r, {})
           /\ DOMAIN r.tokens = DOMAIN s.tokens \ {t}
           /\ Len(r.lru) = Len(s.lru) - 1
<1> DEFINE e == s.tokens[t]
<1>1. s = Fields(s.tokens, s.ids, s.lru, s.elem)
  BY StoreFields DEF Sound
<1>2. DeleteToken(unsafePop(s, e), t) =
         Out(s.tokens, Unlist(s.ids, s.elem[e], 1), s.lru, s.elem, t, e)
  BY <1>1, HelperFields
<1> QED
  BY <1>2, TakeOutSound

\* Dropping a token, stored or not.
LEMMA DestroyByTokenSound ==
    ASSUME NEW s, Sound(s, {}), NEW t
    PROVE  LET r == unsafeDestroyByToken(s, t) IN
           /\ Sound(r, {})
           /\ DOMAIN r.tokens = DOMAIN s.tokens \ {t}
           /\ Len(r.lru) <= Len(s.lru)
<1>1. Len(s.lru) \in Nat
  BY StoreFields DEF Sound
<1>2. CASE t \in DOMAIN s.tokens
  BY <1>1, <1>2, PopSound DEF unsafeDestroyByToken
<1>3. CASE t \notin DOMAIN s.tokens
  BY <1>1, <1>3 DEF unsafeDestroyByToken
<1> QED
  BY <1>2, <1>3

\* The front of the list is the session of the token it carries.
LEMMA FrontValue ==
    ASSUME NEW s, Exact(s), s.lru # <<>>
    PROVE  LET e == Head(s.lru) IN
           /\ s.elem[e].access \in DOMAIN s.tokens
           /\ s.tokens[s.elem[e].access] = e
<1>1. Head(s.lru) \in DOMAIN s.elem
  BY TailFacts, StoreFields DEF Exact, ListExact
<1> QED
  BY <1>1 DEF Exact, TokensExact

\* Making room leaves a limited store below its limit.
LEMMA MakeRoomSound ==
    ASSUME NEW s, Sound(s, {}), MaxSize > 0 => Len(s.lru) <= MaxSize
    PROVE  LET r == MakeRoom(s) IN
           /\ Sound(r, {})
           /\ DOMAIN r.tokens \subseteq DOMAIN s.tokens
           /\ MaxSize > 0 => Len(r.lru) < MaxSize
<1>1. Len(s.lru) \in Nat /\ MaxSize \in Int
  BY StoreFields, MemoryAssumption DEF Sound
<1>2. CASE MaxSize > 0 /\ Len(s.lru) >= MaxSize
  <2> DEFINE t == s.elem[Head(s.lru)].access
  <2>1. t \in DOMAIN s.tokens /\ s.tokens[t] = Head(s.lru)
    BY <1>1, <1>2, FrontValue DEF Sound
  <2>2. MakeRoom(s) = DeleteToken(unsafePop(s, s.tokens[t]), t)
    BY <1>2, <2>1 DEF MakeRoom
  <2> HIDE DEF t
  <2> QED
    BY <1>1, <1>2, <2>1, <2>2, PopSound
<1>3. CASE ~(MaxSize > 0 /\ Len(s.lru) >= MaxSize)
  BY <1>1, <1>3 DEF MakeRoom
<1> QED
  BY <1>2, <1>3

\* One turn of the sweep.
LEMMA DropFrontSound ==
    ASSUME NEW s, Sound(s, {}), s.lru # <<>>
    PROVE  LET r == DropFront(s) IN
           /\ Sound(r, {})
           /\ DOMAIN r.tokens = DOMAIN s.tokens \ {s.elem[Head(s.lru)].access}
           /\ Len(r.lru) = Len(s.lru) - 1
<1> DEFINE e == Head(s.lru)
           t == s.elem[e].access
<1>1. s = Fields(s.tokens, s.ids, s.lru, s.elem)
  BY StoreFields DEF Sound
<1>2. t \in DOMAIN s.tokens /\ s.tokens[t] = e
  BY FrontValue DEF Sound
<1>3. e = Head(s.lru) /\ t = s.elem[e].access
  OBVIOUS
<1> HIDE DEF e, t
<1>4. DropFront(s) =
         Out(s.tokens, Unlist(s.ids, s.elem[e], 0), s.lru, s.elem, t, e)
  BY <1>1, <1>3, DropFrontFields
<1>5. LET r == Out(s.tokens, Unlist(s.ids, s.elem[e], 0), s.lru, s.elem, t, e) IN
      /\ Sound(r, {})
      /\ DOMAIN r.tokens = DOMAIN s.tokens \ {t}
      /\ Len(r.lru) = Len(s.lru) - 1
  BY <1>2, TakeOutSound
<1> QED
  BY <1>3, <1>4, <1>5

\* One turn of the loop of Destroy, which does not touch ids.
LEMMA DestroyOne ==
    ASSUME NEW s, Exact(s), NEW t \in DOMAIN s.tokens
    PROVE  LET r == DeleteToken(Remove(s, s.tokens[t]), t) IN
           /\ Exact(r)
           /\ r.ids = s.ids
           /\ DOMAIN r.tokens = DOMAIN s.tokens \ {t}
           /\ Len(r.lru) = Len(s.lru) - 1
<1> DEFINE e == s.tokens[t]
<1>1. s = Fields(s.tokens, s.ids, s.lru, s.elem)
      /\ IsPartial(s.ids, Ids, Seq(Tokens))
  BY StoreFields
<1>2. DeleteToken(Remove(s, e), t) =
         Out(s.tokens, s.ids, s.lru, s.elem, t, e)
  BY <1>1, HelperFields
<1>3. /\ DOMAIN Out(s.tokens, s.ids, s.lru, s.elem, t, e).tokens = DOMAIN s.tokens \ {t}
      /\ Out(s.tokens, s.ids, s.lru, s.elem, t, e).ids = s.ids
  BY WithoutFacts DEF Out, Fields
<1> QED
  BY <1>1, <1>2, <1>3, TakeOut

\* Pushing a session under a token that is not stored.
LEMMA PushSound ==
    ASSUME NEW s, Sound(s, {}), NEW e \in Elements \ DOMAIN s.elem,
           NEW u \in TokenValue, u.access \notin DOMAIN s.tokens, u.id = IdOf[u.access]
    PROVE  LET r == Push(s, e, u) IN
           /\ Sound(r, {})
           /\ DOMAIN r.tokens = DOMAIN s.tokens \cup {u.access}
           /\ Len(r.lru) = Len(s.lru) + 1
<1> DEFINE a == u.access
           strs == IF u.id \in DOMAIN s.ids THEN s.ids[u.id] ELSE <<>>
           more == Append(strs, a)
           tokens == With(s.tokens, a, e)
           ids == With(s.ids, u.id, more)
           lru == Append(s.lru, e)
           elem == With(s.elem, e, u)
<1>1. /\ Exact(s) /\ IdsExact(s.ids, DOMAIN s.tokens)
      /\ a \in Tokens /\ u.id \in Ids
  BY DEF Sound, TokenValue
<1>2. Push(s, e, u) = Fields(tokens, ids, lru, elem)
  BY DEF Push, Fields
<1>3. /\ DOMAIN tokens = DOMAIN s.tokens \cup {a}
      /\ tokens[a] = e
      /\ \A x \in DOMAIN s.tokens : tokens[x] = s.tokens[x]
      /\ IsPartial(tokens, Tokens, Elements)
  <2>1. IsPartial(s.tokens, Tokens, Elements)
    BY <1>1, StoreFields
  <2>2. IsPartial(tokens, Tokens, Elements)
    BY <1>1, <2>1, PartialStep
  <2> QED
    BY <2>2 DEF With
<1>4. /\ DOMAIN elem = DOMAIN s.elem \cup {e}
      /\ elem[e] = u
      /\ \A d \in DOMAIN s.elem : elem[d] = s.elem[d]
      /\ IsPartial(elem, Elements, TokenValue)
  <2>1. IsPartial(s.elem, Elements, TokenValue)
    BY <1>1, StoreFields
  <2>2. IsPartial(elem, Elements, TokenValue)
    BY <2>1, PartialStep
  <2> QED
    BY <2>2 DEF With
<1>5. /\ lru \in Seq(Elements) /\ IsInjective(lru)
      /\ Range(lru) = Range(s.lru) \cup {e}
      /\ Len(lru) = Len(s.lru) + 1
  <2>1. s.lru \in Seq(Elements) /\ IsInjective(s.lru) /\ e \notin Range(s.lru)
    BY <1>1, StoreFields DEF Exact, ListExact
  <2> QED
    BY <2>1, AppendNew
<1>6. /\ strs \in Seq(Tokens) /\ IsInjective(strs)
      /\ Range(strs) = {x \in DOMAIN s.tokens : IdOf[x] = u.id}
  <2>1. CASE u.id \in DOMAIN s.ids
    BY <1>1, <2>1, StoreFields DEF IdsExact, IsPartial
  <2>2. CASE u.id \notin DOMAIN s.ids
    BY <1>1, <2>2 DEF IdsExact, IsInjective, Range
  <2> QED
    BY <2>1, <2>2
<1> HIDE DEF strs
<1>7. /\ more \in Seq(Tokens) /\ IsInjective(more)
      /\ Range(more) = {x \in DOMAIN tokens : IdOf[x] = u.id}
  <2>1. /\ more \in Seq(Tokens) /\ IsInjective(more)
        /\ Range(more) = Range(strs) \cup {a}
    BY <1>1, <1>6, AppendNew
  <2> QED
    BY <2>1, <1>3, <1>6
<1> HIDE DEF more
<1>8. /\ DOMAIN ids = DOMAIN s.ids \cup {u.id}
      /\ ids[u.id] = more
      /\ \A id \in DOMAIN s.ids \ {u.id} : ids[id] = s.ids[id]
      /\ IsPartial(ids, Ids, Seq(Tokens))
  <2>1. IsPartial(s.ids, Ids, Seq(Tokens))
    BY <1>1, StoreFields
  <2>2. IsPartial(ids, Ids, Seq(Tokens))
    BY <1>1, <1>7, <2>1, PartialStep
  <2> QED
    BY <2>2 DEF With
<1> HIDE DEF tokens, ids, lru, elem
<1>9. IdsExact(ids, DOMAIN tokens)
  BY <1>1, <1>3, <1>7, <1>8 DEF IdsExact
<1>10. Exact(Fields(tokens, ids, lru, elem))
  <2> DEFINE r == Fields(tokens, ids, lru, elem)
  <2>1. IsStore(r)
    BY <1>3, <1>4, <1>5, <1>8 DEF IsStore, Fields
  <2>2. ListExact(r)
    BY <1>1, <1>4, <1>5 DEF Exact, ListExact, Fields
  <2>3. TokensExact(r)
    <3>1. r.tokens = tokens /\ r.elem = elem
      BY DEF Fields
    <3>2. \A x \in DOMAIN s.tokens : s.tokens[x] # e
      BY <1>1 DEF Exact, TokensExact
    <3>3. \A d \in DOMAIN s.elem : s.elem[d].access # a
      BY <1>1 DEF Exact, TokensExact
    <3> QED
      BY <1>1, <1>3, <1>4, <3>1, <3>2, <3>3 DEF Exact, TokensExact
  <2> QED
    BY <2>1, <2>2, <2>3 DEF Exact
<1> QED
  BY <1>2, <1>3, <1>5, <1>9, <1>10 DEF Sound, Fields

\* Writing to the data of a session.
LEMMA SetSound ==
    ASSUME NEW s, Sound(s, {}), NEW t \in DOMAIN s.tokens,
           NEW u \in TokenValue, u.access = t, u.id = IdOf[t]
    PROVE  LET r == [s EXCEPT !.elem[s.tokens[t]] = u] IN
           Sound(r, {}) /\ r.tokens = s.tokens /\ r.lru = s.lru
<1> DEFINE e == s.tokens[t]
           elem == [s.elem EXCEPT ![e] = u]
           r == Fields(s.tokens, s.ids, s.lru, elem)
<1>1. Exact(s) /\ IdsExact(s.ids, DOMAIN s.tokens)
  BY DEF Sound
<1>2. s = Fields(s.tokens, s.ids, s.lru, s.elem)
  BY <1>1, StoreFields
<1>3. [s EXCEPT !.elem[e] = u] = r
  <2>1. \A T, I, L, M : [Fields(T, I, L, M) EXCEPT !.elem[e] = u]
                           = Fields(T, I, L, [M EXCEPT ![e] = u])
    BY DEF Fields
  <2> QED
    BY <1>2, <2>1
<1>4. /\ e \in DOMAIN s.elem
      /\ DOMAIN elem = DOMAIN s.elem
      /\ elem[e] = u
      /\ \A d \in DOMAIN s.elem \ {e} : elem[d] = s.elem[d]
  BY <1>1, StoredValue
<1>5. IsPartial(elem, Elements, TokenValue)
  BY <1>1, <1>4, StoreFields DEF IsPartial
<1> HIDE DEF elem
<1>6. IsStore(r)
  BY <1>1, <1>5, StoreFields DEF IsStore, Fields
<1>7. ListExact(r) /\ TokensExact(r)
  BY <1>1, <1>4 DEF Exact, ListExact, TokensExact, Fields
<1> QED
  BY <1>1, <1>3, <1>6, <1>7 DEF Sound, Exact, Fields

-----------------------------------------------------------------------------
(* The inductive invariant.                                                *)

\* TypeOK without the store.
Typed ==
    /\ closed \in BOOLEAN
    /\ done \in BOOLEAN
    /\ lock \in Clients \cup {"free", "check", "clear"}
    /\ call \in [Clients -> Calls]
    /\ ch \in Seq(Tokens)
    /\ checker \in Checkers
    /\ clearer \in {"wait", "sweep", "off"}
    /\ answer \in Answers
    /\ now \in Nat

\* Whoever is in a critical section of several steps holds the mutex, and the
\* other way round.
Mutex ==
    /\ lock = "check" <=> checker.pc = "do"
    /\ lock = "clear" <=> clearer = "sweep"
    /\ \A c \in Clients : lock = c <=> call[c].op \in {"destroy", "close"}

\* A session on its way into the store carries the id of its access token.
CreatesExact ==
    \A c \in Clients :
        call[c].op = "create" => call[c].t.id = IdOf[call[c].t.access]

\* Once done is set, nobody is inside and nothing is stored.
DoneEmpty == done => lock = "free" /\ mem = EmptyStore

\* The goroutines work until Close has closed the channel closed.
WorkUntilClose ==
    /\ done => closed
    /\ \A c \in Clients : call[c].op = "close" => closed
    /\ checker.pc = "exit" => closed
    /\ clearer = "off" /\ ClearOn => closed

IInv ==
    /\ Typed
    /\ Mutex
    /\ WorkUntilClose
    /\ CreatesExact
    /\ DoneEmpty
    /\ Sound(mem, Doomed)
    /\ DestroyFindsElements
    /\ WithinMaxSize

\* What is doomed, for any record of the calls.
DoomedBy(cl) == UNION {Range(cl[c].todo) : c \in {d \in Clients : cl[d].op = "destroy"}}

\* Without a Destroy in progress nothing is doomed.
LEMMA DoomedNone ==
    ASSUME NEW cl, \A c \in Clients : cl[c].op # "destroy"
    PROVE  DoomedBy(cl) = {}
BY DEF DoomedBy

\* With one Destroy in progress its tokens are what is doomed.
LEMMA DoomedOne ==
    ASSUME NEW cl, NEW c \in Clients, cl[c].op = "destroy",
           \A d \in Clients \ {c} : cl[d].op # "destroy"
    PROVE  DoomedBy(cl) = Range(cl[c].todo)
BY DEF DoomedBy

\* No Destroy is under way when no client holds the mutex.
LEMMA NoneDoomed ==
    ASSUME Mutex, lock \notin Clients
    PROVE  Doomed = {} /\ \A c \in Clients : call[c].op \notin {"destroy", "close"}
<1>1. \A c \in Clients : call[c].op \notin {"destroy", "close"}
  BY DEF Mutex
<1> QED
  BY <1>1, DoomedNone DEF Doomed, DoomedBy

\* The Destroy that holds the mutex is the only one.
LEMMA OneDoomed ==
    ASSUME Mutex, NEW c \in Clients, call[c].op = "destroy"
    PROVE  Doomed = Range(call[c].todo)
<1>1. \A d \in Clients \ {c} : call[d].op # "destroy"
  BY DEF Mutex
<1> QED
  BY <1>1, DoomedOne DEF Doomed, DoomedBy

\* "free", "check" and "clear" are no clients.
LEMMA Names == "free" \notin Clients /\ "check" \notin Clients /\ "clear" \notin Clients
BY MemoryAssumption

\* NewProvider establishes the inductive invariant.
LEMMA InitIInv == Init => IInv
<1> SUFFICES ASSUME Init PROVE IInv
  OBVIOUS
<1>1. Typed
  <2>1. Idle \in Calls
    BY DEF Idle, Calls
  <2>2. Err("nil") \in Answers
    BY ErrType DEF Errors
  <2>3. call \in [Clients -> Calls] /\ answer \in Answers
    BY <2>1, <2>2 DEF Init
  <2>4. checker \in Checkers /\ ch \in Seq(Tokens) /\ clearer \in {"wait", "sweep", "off"}
    BY MemoryAssumption DEF Init, Checkers
  <2> QED
    BY <2>3, <2>4 DEF Init, Typed
<1>2. \A c \in Clients : call[c].op = "idle"
  BY DEF Init, Idle
<1>3. Mutex
  BY <1>2, Names DEF Init, Mutex
<1>4. Sound(mem, Doomed)
  BY <1>2, <1>3, Names, NoneDoomed, EmptySound DEF Init
<1>5. WithinMaxSize
  BY MemoryAssumption DEF Init, WithinMaxSize, EmptyStore
<1> QED
  BY <1>1, <1>2, <1>3, <1>4, <1>5
     DEF IInv, CreatesExact, DoneEmpty, WorkUntilClose, DestroyFindsElements, Init

-----------------------------------------------------------------------------
(* Every step keeps the variables other than mem well typed.               *)

\* The calls the actions put in progress are calls.
LEMMA CallType ==
    /\ Idle \in Calls /\ [op |-> "close"] \in Calls
    /\ \A u \in TokenValue : [op |-> "create", t |-> u] \in Calls
    /\ \A strs \in Seq(Tokens) : [op |-> "destroy", todo |-> strs] \in Calls
    /\ \A t \in Tokens : [op |-> "send", token |-> t] \in Calls
BY DEF Calls, Idle

\* What a call in progress carries, by its operation.
LEMMA CallFields ==
    ASSUME NEW r \in Calls
    PROVE  /\ r.op = "create" => r.t \in TokenValue
           /\ r.op = "destroy" => r.todo \in Seq(Tokens)
           /\ r.op = "send" => r.token \in Tokens
BY DEF Calls

\* A batch that grows leaves the check goroutine in one of its states.
LEMMA GatherType ==
    ASSUME NEW m \in SUBSET Tokens
    PROVE  Gather(m) \in Checkers /\ Gather(m).pc \in {"merge", "lock"}
BY DEF Gather, Checkers

\* The steps of the check goroutine keep the types.
LEMMA CheckTyped ==
    ASSUME Typed, Check
    PROVE  Typed'
<1> USE DEF Typed, goroutines, store
<1>1. CASE CheckRead
  <2>1. Head(ch) \in Tokens /\ Tail(ch) \in Seq(Tokens) /\ checker.m \in SUBSET Tokens
    BY <1>1 DEF CheckRead, Checkers
  <2>2. Gather(checker.m \cup {Head(ch)}) \in Checkers
    BY <2>1, GatherType
  <2> QED
    BY <1>1, <2>1, <2>2 DEF CheckRead
<1>2. CASE CheckMerged
  BY <1>2 DEF CheckMerged, Checkers
<1>3. CASE CheckClosed
  BY <1>3 DEF CheckClosed, Checkers
<1>4. CASE CheckLock
  BY <1>4 DEF CheckLock, Checkers
<1>5. ASSUME NEW t \in Tokens, CheckToken(t)
      PROVE  Typed'
  BY <1>5 DEF CheckToken, Checkers
<1>6. CASE CheckDone
  BY <1>6 DEF CheckDone, Checkers
<1> QED
  BY <1>1, <1>2, <1>3, <1>4, <1>5, <1>6 DEF Check

\* The steps of the clear goroutine keep the types.
LEMMA ClearTyped ==
    ASSUME Typed, Clear
    PROVE  Typed'
BY DEF Typed, Clear, ClearTick, ClearFront, ClearDone, ClearClosed, goroutines, store

\* A call that gets on keeps the types.
LEMMA ProgressTyped ==
    ASSUME Typed, NEW c \in Clients, Progress(c)
    PROVE  Typed'
<1> USE DEF Typed, goroutines, store, Becomes
<1>1. Err("nil") \in Answers /\ Idle \in Calls /\ call[c] \in Calls
  BY ErrType, CallType DEF Errors
<1>2. CASE CreateLate(c)
  BY <1>1, <1>2 DEF CreateLate
<1>3. CASE Create(c)
  BY <1>1, <1>3 DEF Create
<1>4. CASE DestroyNext(c)
  <2>1. Tail(call[c].todo) \in Seq(Tokens)
    BY <1>1, <1>4, CallFields DEF DestroyNext
  <2>2. [op |-> "destroy", todo |-> Tail(call[c].todo)] \in Calls
    BY <2>1, CallType
  <2> QED
    BY <1>4, <2>2 DEF DestroyNext
<1>5. CASE DestroyDone(c)
  BY <1>1, <1>5 DEF DestroyDone
<1>6. CASE CloseDone(c)
  BY <1>1, <1>6 DEF CloseDone
<1>7. CASE SendQueue(c)
  <2>1. call[c].token \in Tokens
    BY <1>1, <1>7, CallFields DEF SendQueue
  <2> QED
    BY <1>1, <1>7, <2>1 DEF SendQueue
<1>8. CASE SendHandoff(c)
  <2>1. Gather({call[c].token}) \in Checkers
    BY <1>1, <1>8, CallFields, GatherType DEF SendHandoff
  <2> QED
    BY <1>1, <1>8, <2>1 DEF SendHandoff
<1>9. CASE SendClosed(c)
  BY <1>1, <1>9 DEF SendClosed
<1> QED
  BY <1>2, <1>3, <1>4, <1>5, <1>6, <1>7, <1>8, <1>9 DEF Progress

\* A call that returns at once leaves the variables typed when its answer is.
LEMMA ReturnTyped ==
    ASSUME Typed, NEW a \in Answers, Return(a)
    PROVE  Typed'
BY DEF Typed, Return, goroutines

\* A call that begins, or is over in one section, keeps the types.
LEMMA BeginTyped ==
    ASSUME Typed, Exact(mem), NEW c \in Clients, Begin(c)
    PROVE  Typed'
<1> USE DEF goroutines, Becomes
<1>1. /\ \A e \in Errors : Err(e) \in Answers
      /\ {"nil", "ErrTokenInvalid", "ErrTokenNotExists", "ErrTokenExpired",
          "ErrTokenIDNotMatched", "ErrRefreshTokenNotMatched",
          "ErrProviderClosed"} \subseteq Errors
      /\ Idle \in Calls /\ call[c] \in Calls
  BY ErrType, CallType DEF Errors, Typed
<1>2. CASE Refuse(c)
  BY <1>1, <1>2 DEF Refuse, Typed
<1>3. CASE Close(c)
  BY <1>1, <1>3, CallType DEF Close, Enter, Typed
<1>4. ASSUME NEW p \in Minted, NEW kv \in Data, CreateCall(c, p, kv)
      PROVE  Typed'
  <2>1. [op |-> "create", t |-> newTokenValue(p, kv, now)] \in Calls
    BY MintFacts, CallType DEF Typed
  <2> QED
    BY <1>4, <2>1 DEF CreateCall, Typed
<1>5. ASSUME NEW id \in Ids, Destroy(c, id)
      PROVE  Typed'
  <2>1. id \in DOMAIN mem.ids => [op |-> "destroy", todo |-> mem.ids[id]] \in Calls
    BY StoreFields, CallType DEF IsPartial
  <2> QED
    BY <1>1, <1>5, <2>1 DEF Destroy, Enter, Typed
<1>6. ASSUME NEW t \in Tokens,
             Reject(c, t) \/ DestroyByToken(c, t) \/ Missed(c, t)
      PROVE  Typed'
  BY <1>1, <1>6, ReturnTyped DEF Reject, DestroyByToken, Missed
<1>7. ASSUME NEW t \in Tokens, ReadMissing(c, t)
      PROVE  Typed'
  BY <1>1, <1>7, CallType DEF ReadMissing, Typed
<1>8. ASSUME NEW t \in Tokens, NEW r \in ReadOps, Read(c, t, r)
      PROVE  Typed'
  <2>1. Answer(Val(t), r) \in Answers
    BY <1>8, StoredValue, AnswerType DEF Read, Holds, Val
  <2> QED
    BY <1>1, <1>8, <2>1, ReturnTyped DEF Read
<1>9. ASSUME NEW t \in Tokens, NEW u, Update(c, t, u)
      PROVE  Typed'
  BY <1>1, <1>9, ReturnTyped DEF Update
<1>10. ASSUME NEW t \in Tokens, NEW r \in Tokens, NEW p \in Minted,
              RefreshReject(c, t, r, p) \/ Refresh(c, t, r, p)
       PROVE  Typed'
  BY <1>1, <1>10, ReturnTyped DEF RefreshReject, Refresh
<1> QED
  BY <1>2, <1>3, <1>4, <1>5, <1>6, <1>7, <1>8, <1>9, <1>10 DEF Begin, Put, Delete

\* Every step keeps the types of all variables but mem.
LEMMA TypedStep == IInv /\ [Next]_vars => Typed'
<1> SUFFICES ASSUME IInv, [Next]_vars PROVE Typed'
  OBVIOUS
<1>1. Typed /\ Exact(mem)
  BY DEF IInv, Sound
<1>2. CASE Tick
  BY <1>1, <1>2, TTLAssumption DEF Tick, Typed, goroutines
<1>3. CASE UNCHANGED vars
  BY <1>1, <1>3 DEF vars, Typed
<1> QED
  BY <1>1, <1>2, <1>3, CheckTyped, ClearTyped, ProgressTyped, BeginTyped DEF Next

-----------------------------------------------------------------------------
(* Every step keeps the mutex exclusive.                                   *)

\* A change of the call of one client leaves the calls of the others.
LEMMA BecomesFacts ==
    ASSUME Typed, NEW c \in Clients, NEW r, Becomes(c, r)
    PROVE  call'[c] = r /\ \A d \in Clients \ {c} : call'[d] = call[d]
BY DEF Typed, Becomes

\* A call that gets on keeps the mutex with whoever is inside.
LEMMA MutexProgress ==
    ASSUME Typed, Mutex, NEW c \in Clients, Progress(c)
    PROVE  Mutex'
<1> USE Names DEF Mutex, goroutines, store
<1>1. Idle.op = "idle"
  BY DEF Idle
<1>2. CASE CreateLate(c)
  BY <1>1, <1>2, BecomesFacts DEF CreateLate
<1>3. CASE Create(c)
  BY <1>1, <1>3, BecomesFacts DEF Create
<1>4. CASE DestroyNext(c)
  BY <1>4, BecomesFacts DEF DestroyNext
<1>5. CASE DestroyDone(c)
  BY <1>1, <1>5, BecomesFacts DEF DestroyDone
<1>6. CASE CloseDone(c)
  BY <1>1, <1>6, BecomesFacts DEF CloseDone
<1>7. CASE SendQueue(c)
  BY <1>1, <1>7, BecomesFacts DEF SendQueue
<1>8. CASE SendHandoff(c)
  BY <1>1, <1>8, BecomesFacts DEF SendHandoff, Gather
<1>9. CASE SendClosed(c)
  BY <1>1, <1>9, BecomesFacts DEF SendClosed
<1> QED
  BY <1>2, <1>3, <1>4, <1>5, <1>6, <1>7, <1>8, <1>9 DEF Progress

\* A call enters the mutex only when it is free.
LEMMA MutexBegin ==
    ASSUME Typed, Mutex, NEW c \in Clients, Begin(c)
    PROVE  Mutex'
<1> USE Names DEF Mutex, goroutines
<1>1. Idle.op = "idle"
  BY DEF Idle
<1>2. CASE Refuse(c)
  BY <1>1, <1>2, BecomesFacts DEF Refuse
<1>3. CASE Close(c)
  BY <1>1, <1>3, BecomesFacts DEF Close, Enter
<1>4. ASSUME NEW p \in Minted, NEW kv \in Data, CreateCall(c, p, kv)
      PROVE  Mutex'
  BY <1>1, <1>4, BecomesFacts DEF CreateCall
<1>5. ASSUME NEW id \in Ids, Destroy(c, id)
      PROVE  Mutex'
  BY <1>1, <1>5, BecomesFacts DEF Destroy, Enter
<1>6. ASSUME NEW t \in Tokens, ReadMissing(c, t)
      PROVE  Mutex'
  BY <1>1, <1>6, BecomesFacts DEF ReadMissing, Enter
<1>7. ASSUME NEW a, Return(a)
      PROVE  Mutex'
  BY <1>7 DEF Return
<1> QED
  BY <1>2, <1>3, <1>4, <1>5, <1>6, <1>7
     DEF Begin, Reject, DestroyByToken, Missed, Read, Put, Delete, Update,
         RefreshReject, Refresh

\* Every step of Memory keeps at most one goroutine inside the mutex.
LEMMA MutexStep == IInv /\ [Next]_vars => Mutex'
<1> SUFFICES ASSUME IInv, [Next]_vars PROVE Mutex'
  OBVIOUS
<1> USE Names DEF goroutines, store
<1>1. Typed /\ Mutex
  BY DEF IInv
<1>2. CASE Tick
  BY <1>1, <1>2 DEF Tick, Mutex
<1>3. CASE UNCHANGED vars
  BY <1>1, <1>3 DEF vars, Mutex
<1>4. CASE Clear
  BY <1>1, <1>4 DEF Clear, ClearTick, ClearFront, ClearDone, ClearClosed, Mutex
<1>5. CASE Check
  <2>1. CASE CheckRead
    BY <1>1, <2>1 DEF CheckRead, Gather, Mutex
  <2>2. CASE CheckMerged \/ CheckClosed \/ CheckLock \/ CheckDone
    BY <1>1, <2>2 DEF CheckMerged, CheckClosed, CheckLock, CheckDone, Mutex, Typed, Checkers
  <2>3. ASSUME NEW t \in Tokens, CheckToken(t)
        PROVE  Mutex'
    BY <1>1, <2>3 DEF CheckToken, Mutex, Typed, Checkers
  <2> QED
    BY <1>5, <2>1, <2>2, <2>3 DEF Check
<1> QED
  BY <1>1, <1>2, <1>3, <1>4, <1>5, MutexProgress, MutexBegin DEF Next

\* Create waits for the mutex with a session it does not change any more.
LEMMA CreatesStep == IInv /\ [Next]_vars => CreatesExact'
<1> SUFFICES ASSUME IInv, [Next]_vars PROVE CreatesExact'
  OBVIOUS
<1>1. Typed /\ CreatesExact
  BY DEF IInv
<1>2. CASE call' = call
  BY <1>1, <1>2 DEF CreatesExact
<1>3. ASSUME NEW c \in Clients, NEW r, Becomes(c, r),
             r.op = "create" => r.t.id = IdOf[r.t.access]
      PROVE  CreatesExact'
  BY <1>1, <1>3, BecomesFacts DEF CreatesExact
<1>4. Idle.op # "create"
  BY DEF Idle
<1>5. ASSUME NEW c \in Clients, Begin(c)
      PROVE  CreatesExact'
  <2>1. ASSUME NEW p \in Minted, NEW kv \in Data, CreateCall(c, p, kv)
        PROVE  CreatesExact'
    <3>1. /\ newTokenValue(p, kv, now).access = p[1]
          /\ newTokenValue(p, kv, now).id = IdOf[p[1]]
      BY <1>1, MintFacts DEF Typed
    <3> QED
      BY <1>3, <2>1, <3>1 DEF CreateCall
  <2>2. CASE Refuse(c) \/ Close(c)
    BY <1>3, <1>4, <2>2 DEF Refuse, Close
  <2>3. ASSUME NEW id \in Ids, Destroy(c, id)
        PROVE  CreatesExact'
    BY <1>2, <1>3, <2>3 DEF Destroy
  <2>4. ASSUME NEW t \in Tokens, ReadMissing(c, t)
        PROVE  CreatesExact'
    BY <1>2, <1>3, <2>4 DEF ReadMissing
  <2>5. ASSUME NEW a, Return(a)
        PROVE  CreatesExact'
    BY <1>2, <2>5 DEF Return
  <2> QED
    BY <1>5, <2>1, <2>2, <2>3, <2>4, <2>5
       DEF Begin, Reject, DestroyByToken, Missed, Read, Put, Delete, Update,
           RefreshReject, Refresh
<1>6. ASSUME NEW c \in Clients, Progress(c)
      PROVE  CreatesExact'
  BY <1>3, <1>4, <1>6
     DEF Progress, CreateLate, Create, DestroyNext, DestroyDone, CloseDone,
         SendQueue, SendHandoff, SendClosed
<1>7. CASE Check
  BY <1>2, <1>7
     DEF Check, CheckRead, CheckMerged, CheckClosed, CheckLock, CheckToken, CheckDone
<1>8. CASE Clear
  BY <1>2, <1>8 DEF Clear, ClearTick, ClearFront, ClearDone, ClearClosed, goroutines
<1> QED
  BY <1>2, <1>5, <1>6, <1>7, <1>8 DEF Next, Tick, vars

-----------------------------------------------------------------------------
(* Every step keeps the indexes in step.                                   *)

StoreOK == Sound(mem, Doomed) /\ DestroyFindsElements /\ WithinMaxSize

\* Steps that leave the store alone, and with it every Destroy in progress.
LEMMA StoreKept ==
    ASSUME Typed, StoreOK, mem' = mem,
           \/ call' = call
           \/ \E c \in Clients : \E r :
                 Becomes(c, r) /\ call[c].op # "destroy" /\ r.op # "destroy"
    PROVE  StoreOK'
<1>1. CASE call' = call
  BY <1>1 DEF StoreOK, Doomed, DestroyFindsElements, WithinMaxSize
<1>2. ASSUME NEW c \in Clients, NEW r, Becomes(c, r),
             call[c].op # "destroy", r.op # "destroy"
      PROVE  StoreOK'
  <2>1. call'[c] = r /\ \A d \in Clients \ {c} : call'[d] = call[d]
    BY <1>2, BecomesFacts
  <2>2. {d \in Clients : call'[d].op = "destroy"} = {d \in Clients : call[d].op = "destroy"}
    BY <1>2, <2>1
  <2>3. \A d \in {e \in Clients : call[e].op = "destroy"} : call'[d] = call[d]
    BY <1>2, <2>1
  <2>4. Doomed' = Doomed
    BY <2>2, <2>3 DEF Doomed
  <2>5. DestroyFindsElements'
    BY <1>2, <2>1 DEF StoreOK, DestroyFindsElements
  <2> QED
    BY <2>4, <2>5 DEF StoreOK, WithinMaxSize
<1> QED
  BY <1>1, <1>2

\* Steps that change the store while no client stays in the mutex.
LEMMA StoreChanged ==
    ASSUME Mutex', lock' \notin Clients, Sound(mem', {}),
           MaxSize > 0 => Len(mem'.lru) <= MaxSize
    PROVE  StoreOK'
<1>1. \A c \in Clients : call'[c].op # "destroy"
  BY DEF Mutex
<1>2. Doomed' = {}
  BY <1>1, DoomedNone DEF Doomed, DoomedBy
<1> QED
  BY <1>1, <1>2 DEF StoreOK, DestroyFindsElements, WithinMaxSize

\* Destroy takes the list of the id: exactly the sessions of the id are doomed.
LEMMA DestroyStore ==
    ASSUME Typed, Mutex, StoreOK, NEW c \in Clients, NEW id \in Ids, Destroy(c, id)
    PROVE  StoreOK'
<1>1. Doomed = {} /\ \A d \in Clients : call[d].op # "destroy"
  BY Names, NoneDoomed DEF Destroy, Enter
<1>2. Sound(mem, {})
  BY <1>1 DEF StoreOK
<1>3. CASE id \notin DOMAIN mem.ids
  BY <1>3, StoreKept DEF Destroy
<1>4. CASE id \in DOMAIN mem.ids
  <2> DEFINE strs == mem.ids[id]
             m == Fields(mem.tokens, Without(mem.ids, id), mem.lru, mem.elem)
  <2>1. /\ mem = Fields(mem.tokens, mem.ids, mem.lru, mem.elem)
        /\ IsPartial(mem.ids, Ids, Seq(Tokens))
    BY <1>2, StoreFields DEF Sound
  <2>2. mem' = m
    <3>1. mem' = [mem EXCEPT !.ids = Without(mem.ids, id)]
      BY <1>4 DEF Destroy
    <3>2. \A T, I, L, M, J : [Fields(T, I, L, M) EXCEPT !.ids = J] = Fields(T, J, L, M)
      BY DEF Fields
    <3> QED
      BY <2>1, <3>1, <3>2
  <2>3. IsInjective(strs) /\ Range(strs) = {t \in DOMAIN mem.tokens : IdOf[t] = id}
    BY <1>2, <1>4 DEF Sound, IdsExact
  <2>4. /\ call'[c].op = "destroy" /\ call'[c].todo = strs
        /\ \A d \in Clients \ {c} : call'[d] = call[d]
    BY <1>4, BecomesFacts DEF Destroy
  <2>5. Doomed' = Range(strs)
    BY <1>1, <2>4, DoomedOne DEF Doomed, DoomedBy
  <2>6. Exact(m)
    <3>1. IsPartial(Without(mem.ids, id), Ids, Seq(Tokens))
      BY <2>1, PartialStep
    <3> QED
      BY <1>2, <3>1 DEF Sound, Exact, IsStore, ListExact, TokensExact, Fields
  <2>7. IdsExact(m.ids, DOMAIN m.tokens \ Range(strs))
    <3>1. m.ids = Without(mem.ids, id) /\ m.tokens = mem.tokens
      BY DEF Fields
    <3>2. /\ DOMAIN m.ids = DOMAIN mem.ids \ {id}
          /\ \A i \in DOMAIN mem.ids \ {id} : m.ids[i] = mem.ids[i]
      BY DEF Fields, Without, Restrict
    <3> HIDE DEF m
    <3> QED
      BY <1>2, <2>3, <3>1, <3>2 DEF Sound, IdsExact
  <2>8. m.lru = mem.lru /\ m.tokens = mem.tokens
    BY DEF Fields
  <2> HIDE DEF m
  <2>9. DestroyFindsElements'
    BY <1>1, <2>2, <2>3, <2>4, <2>8 DEF DestroyFindsElements
  <2> QED
    BY <2>2, <2>5, <2>6, <2>7, <2>8, <2>9 DEF StoreOK, Sound, WithinMaxSize
<1> QED
  BY <1>3, <1>4

\* The loop of Destroy: the head of the list is in tokens, and no longer doomed
\* once it is removed.
LEMMA DestroyNextStore ==
    ASSUME Typed, Mutex, StoreOK, NEW c \in Clients, DestroyNext(c)
    PROVE  StoreOK'
<1> DEFINE todo == call[c].todo
           t == Head(todo)
<1>1. /\ todo \in Seq(Tokens) /\ todo # <<>> /\ call[c].op = "destroy"
      /\ IsInjective(todo) /\ Range(todo) \subseteq DOMAIN mem.tokens
  BY CallFields DEF DestroyNext, Typed, StoreOK, DestroyFindsElements
<1>2. /\ Doomed = Range(todo)
      /\ \A d \in Clients \ {c} : call[d].op # "destroy"
  BY <1>1, OneDoomed DEF Mutex
<1>3. /\ t \in Range(todo) /\ IsInjective(Tail(todo))
      /\ Range(Tail(todo)) = Range(todo) \ {t}
  BY <1>1, TailFacts
<1>4. /\ Exact(mem')
      /\ mem'.ids = mem.ids
      /\ DOMAIN mem'.tokens = DOMAIN mem.tokens \ {t}
      /\ Len(mem'.lru) = Len(mem.lru) - 1
  <2>1. mem' = DeleteToken(Remove(mem, mem.tokens[t]), t)
    BY DEF DestroyNext
  <2> QED
    BY <1>1, <1>3, <2>1, DestroyOne DEF StoreOK, Sound
<1>5. /\ call'[c].op = "destroy" /\ call'[c].todo = Tail(todo)
      /\ \A d \in Clients \ {c} : call'[d] = call[d]
  <2> DEFINE r == [op |-> "destroy", todo |-> Tail(todo)]
  <2>1. Becomes(c, r) /\ r.op = "destroy" /\ r.todo = Tail(todo)
    BY DEF DestroyNext
  <2> HIDE DEF r, todo
  <2>2. call'[c] = r /\ \A d \in Clients \ {c} : call'[d] = call[d]
    BY <2>1, BecomesFacts
  <2> QED
    BY <2>1, <2>2
<1> HIDE DEF todo, t
<1>6. Doomed' = Range(Tail(todo))
  BY <1>2, <1>5, DoomedOne DEF Doomed, DoomedBy
<1>7. DOMAIN mem'.tokens \ Doomed' = DOMAIN mem.tokens \ Doomed
  BY <1>2, <1>3, <1>4, <1>6
<1>8. Sound(mem', Doomed')
  BY <1>4, <1>7 DEF StoreOK, Sound
<1>9. DestroyFindsElements'
  BY <1>1, <1>2, <1>3, <1>4, <1>5 DEF DestroyFindsElements
<1>10. WithinMaxSize'
  <2>1. Len(mem.lru) \in Nat
    BY StoreFields DEF StoreOK, Sound
  <2> QED
    BY <1>4, <2>1, MemoryAssumption DEF StoreOK, WithinMaxSize
<1> QED
  BY <1>8, <1>9, <1>10 DEF StoreOK

\* The second half of Create, the loop of Destroy and the end of Close keep
\* the indexes in step and the store within its limit.
LEMMA ProgressStore ==
    ASSUME Typed, Mutex, Mutex', CreatesExact, StoreOK, NEW c \in Clients, Progress(c)
    PROVE  StoreOK'
<1> USE DEF goroutines, store
<1>1. /\ Idle.op # "destroy"
      /\ Len(mem.lru) \in Nat /\ MaxSize \in Int
  BY StoreFields, MemoryAssumption DEF Idle, StoreOK, Sound
<1>2. CASE CreateLate(c) \/ SendQueue(c) \/ SendHandoff(c) \/ SendClosed(c)
  BY <1>1, <1>2, StoreKept DEF CreateLate, SendQueue, SendHandoff, SendClosed
<1>3. CASE Create(c)
  <2> DEFINE u == call[c].t
             d == unsafeDestroyByToken(mem, u.access)
             s == MakeRoom(d)
  <2>1. Sound(mem, {})
    BY <1>3, Names, NoneDoomed DEF Create, StoreOK
  <2>2. u \in TokenValue /\ u.id = IdOf[u.access]
    BY <1>3, CallFields DEF Create, Typed, CreatesExact
  <2>3. /\ Sound(d, {})
        /\ DOMAIN d.tokens = DOMAIN mem.tokens \ {u.access}
        /\ Len(d.lru) <= Len(mem.lru)
    BY <2>1, DestroyByTokenSound
  <2>4. MaxSize > 0 => Len(d.lru) <= MaxSize
    <3>1. Len(d.lru) \in Nat
      BY <2>3, StoreFields DEF Sound
    <3> QED
      BY <1>1, <2>3, <3>1 DEF StoreOK, WithinMaxSize
  <2> HIDE DEF d
  <2>5. /\ Sound(s, {})
        /\ DOMAIN s.tokens \subseteq DOMAIN d.tokens
        /\ MaxSize > 0 => Len(s.lru) < MaxSize
    BY <2>3, <2>4, MakeRoomSound
  <2>6. PICK e \in Elements \ DOMAIN s.elem : mem' = Push(s, e, u)
    BY <1>3 DEF Create, d
  <2> HIDE DEF s
  <2>7. u.access \notin DOMAIN s.tokens
    BY <2>3, <2>5
  <2> HIDE DEF u
  <2>8. Sound(mem', {}) /\ Len(mem'.lru) = Len(s.lru) + 1
    BY <2>2, <2>5, <2>6, <2>7, PushSound
  <2>9. MaxSize > 0 => Len(mem'.lru) <= MaxSize
    <3>1. Len(s.lru) \in Nat
      BY <2>5, StoreFields DEF Sound
    <3> QED
      BY <1>1, <2>5, <2>8, <3>1
  <2> QED
    BY <1>3, <2>8, <2>9, Names, StoreChanged DEF Create
<1>4. CASE DestroyNext(c)
  BY <1>4, DestroyNextStore
<1>5. CASE DestroyDone(c)
  <2>1. Doomed = {}
    BY <1>5, OneDoomed DEF DestroyDone, Range
  <2> QED
    BY <1>5, <2>1, Names, StoreChanged DEF DestroyDone, StoreOK, WithinMaxSize
<1>6. CASE CloseDone(c)
  BY <1>1, <1>6, Names, EmptySound, StoreChanged DEF CloseDone, EmptyStore
<1> QED
  BY <1>2, <1>3, <1>4, <1>5, <1>6 DEF Progress

\* Every operation that is over in one critical section keeps the indexes in
\* step and the store within its limit.
LEMMA BeginStore ==
    ASSUME Typed, Mutex, Mutex', StoreOK, NEW c \in Clients, Begin(c)
    PROVE  StoreOK'
<1> USE DEF goroutines
<1>1. /\ Idle.op # "destroy"
      /\ Len(mem.lru) \in Nat /\ MaxSize \in Int
  BY StoreFields, MemoryAssumption DEF Idle, StoreOK, Sound
<1>2. CASE Refuse(c) \/ Close(c)
  BY <1>1, <1>2, StoreKept DEF Refuse, Close, Enter
<1>3. ASSUME NEW p \in Minted, NEW kv \in Data, CreateCall(c, p, kv)
      PROVE  StoreOK'
  BY <1>1, <1>3, StoreKept DEF CreateCall
<1>4. ASSUME NEW id \in Ids, Destroy(c, id)
      PROVE  StoreOK'
  BY <1>4, DestroyStore
<1>5. ASSUME NEW t \in Tokens, ReadMissing(c, t)
      PROVE  StoreOK'
  BY <1>1, <1>5, StoreKept DEF ReadMissing, Enter
<1>6. ASSUME NEW a, Return(a), mem' = mem
      PROVE  StoreOK'
  BY <1>6, StoreKept DEF Return
<1>7. ASSUME NEW a, Return(a), Enter(c), Sound(mem', {}), Len(mem'.lru) <= Len(mem.lru)
      PROVE  StoreOK'
  <2>1. Len(mem'.lru) \in Nat
    BY <1>7, StoreFields DEF Sound
  <2>2. MaxSize > 0 => Len(mem'.lru) <= MaxSize
    BY <1>1, <1>7, <2>1 DEF StoreOK, WithinMaxSize
  <2> QED
    BY <1>7, <2>2, Names, StoreChanged DEF Return, Enter
<1>8. Enter(c) => Sound(mem, {})
  BY Names, NoneDoomed DEF Enter, StoreOK
<1>9. ASSUME NEW t \in Tokens, DestroyByToken(c, t) \/ Missed(c, t)
      PROVE  StoreOK'
  BY <1>7, <1>8, <1>9, DestroyByTokenSound DEF DestroyByToken, Missed
<1>10. ASSUME NEW t \in DOMAIN mem.tokens, NEW u \in TokenValue,
              u.access = t, u.id = IdOf[t], Update(c, t, u)
       PROVE  StoreOK'
  <2>1. CASE mem' = mem
    BY <1>6, <1>10, <2>1 DEF Update
  <2>2. CASE mem' = [mem EXCEPT !.elem[mem.tokens[t]] = u]
    <3>1. Sound(mem', {}) /\ mem'.lru = mem.lru
      BY <1>8, <1>10, <2>2, SetSound DEF Update
    <3> QED
      BY <1>1, <1>7, <1>10, <3>1 DEF Update
  <2> QED
    BY <1>10, <2>1, <2>2 DEF Update
<1>11. ASSUME NEW t \in Tokens,
              (\E kv \in Data : Put(c, t, kv)) \/ (\E ks \in SUBSET Keys : Delete(c, t, ks))
       PROVE  StoreOK'
  <2>1. t \in DOMAIN mem.tokens /\ Sound(mem, {})
    BY <1>8, <1>11 DEF Put, Delete, Update
  <2>2. Val(t) \in TokenValue /\ Val(t).access = t /\ Val(t).id = IdOf[t]
    BY <2>1, StoredValue DEF Sound, Val
  <2> QED
    BY <1>10, <1>11, <2>1, <2>2, WriteFacts DEF Put, Delete
<1>12. ASSUME NEW t \in Tokens, NEW r \in Tokens, NEW p \in Minted, Refresh(c, t, r, p)
       PROVE  StoreOK'
  <2>1. CASE mem' = mem
    BY <1>6, <1>12, <2>1 DEF Refresh
  <2>2. CASE mem' # mem
    <3> DEFINE s == DeleteToken(unsafePop(mem, mem.tokens[t]), t)
               u == Refreshed(Val(t), p, now)
    <3>1. t \in DOMAIN mem.tokens /\ Sound(mem, {})
      BY <1>8, <1>12 DEF Refresh, Holds
    <3>2. /\ Sound(s, {})
          /\ DOMAIN s.tokens = DOMAIN mem.tokens \ {t}
          /\ Len(s.lru) = Len(mem.lru) - 1
      BY <3>1, PopSound
    <3>3. Val(t) \in TokenValue /\ Val(t).id = IdOf[t]
      BY <3>1, StoredValue DEF Sound, Val
    <3>4. /\ u \in TokenValue /\ u.access = p[1]
          /\ u.id = IdOf[p[1]]
      BY <1>12, <3>3, MintFacts DEF Typed, Refresh, checkID
    <3>5. PICK e \in Elements \ DOMAIN s.elem : mem' = Push(s, e, u)
      BY <1>12, <2>2 DEF Refresh
    <3>6. p[1] \notin DOMAIN s.tokens
      BY <1>12, <2>2, <3>2 DEF Refresh
    <3> HIDE DEF s, u
    <3>7. Sound(mem', {}) /\ Len(mem'.lru) = Len(s.lru) + 1
      BY <3>2, <3>4, <3>5, <3>6, PushSound
    <3> QED
      BY <1>1, <1>7, <1>12, <3>2, <3>7 DEF Refresh
  <2> QED
    BY <2>1, <2>2
<1>13. ASSUME NEW t \in Tokens, Reject(c, t)
       PROVE  StoreOK'
  BY <1>6, <1>13 DEF Reject
<1>14. ASSUME NEW t \in Tokens, NEW r \in ReadOps, Read(c, t, r)
       PROVE  StoreOK'
  BY <1>6, <1>14 DEF Read
<1>15. ASSUME NEW t \in Tokens, NEW r \in Tokens, NEW p \in Minted,
              RefreshReject(c, t, r, p)
       PROVE  StoreOK'
  BY <1>6, <1>15 DEF RefreshReject
<1> QED
  BY <1>2, <1>3, <1>4, <1>5, <1>9, <1>11, <1>12, <1>13, <1>14, <1>15 DEF Begin

\* Every step keeps the indexes in step, goroutines included.
LEMMA StoreStep == IInv /\ [Next]_vars => StoreOK'
<1> SUFFICES ASSUME IInv, [Next]_vars PROVE StoreOK'
  OBVIOUS
<1> USE DEF goroutines, store
<1>1. /\ Typed /\ Mutex /\ Mutex' /\ CreatesExact /\ StoreOK
      /\ Len(mem.lru) \in Nat /\ MaxSize \in Int
  BY MutexStep, StoreFields, MemoryAssumption DEF IInv, StoreOK, Sound
<1>2. CASE mem' = mem /\ call' = call
  BY <1>1, <1>2, StoreKept
<1>3. ASSUME lock \notin Clients, UNCHANGED lock, Sound(mem', {}),
             Len(mem'.lru) <= Len(mem.lru)
      PROVE  StoreOK'
  <2>1. Len(mem'.lru) \in Nat
    BY <1>3, StoreFields DEF Sound
  <2> QED
    BY <1>1, <1>3, <2>1, StoreChanged DEF StoreOK, WithinMaxSize
<1>4. lock \notin Clients => Sound(mem, {})
  BY <1>1, NoneDoomed DEF StoreOK
<1>5. CASE Check
  <2>1. ASSUME NEW t \in Tokens, CheckToken(t)
        PROVE  StoreOK'
    <3>1. lock = "check" /\ lock \notin Clients /\ UNCHANGED lock
      BY <1>1, <2>1, Names DEF CheckToken, Mutex
    <3>2. Sound(mem', {}) /\ Len(mem'.lru) <= Len(mem.lru)
      BY <1>1, <1>4, <2>1, <3>1, DestroyByTokenSound DEF CheckToken
    <3> QED
      BY <1>3, <3>1, <3>2
  <2> QED
    BY <1>2, <1>5, <2>1
       DEF Check, CheckRead, CheckMerged, CheckClosed, CheckLock, CheckDone
<1>6. CASE Clear
  <2>1. CASE ClearFront
    <3>1. lock = "clear" /\ lock \notin Clients /\ UNCHANGED lock
      BY <1>1, <2>1, Names DEF ClearFront, Mutex
    <3>2. Sound(mem', {}) /\ Len(mem'.lru) <= Len(mem.lru)
      BY <1>1, <1>4, <2>1, <3>1, DropFrontSound DEF ClearFront, FrontDeleted
    <3> QED
      BY <1>3, <3>1, <3>2
  <2> QED
    BY <1>2, <1>6, <2>1 DEF Clear, ClearTick, ClearDone, ClearClosed
<1>7. CASE Tick \/ UNCHANGED vars
  BY <1>2, <1>7 DEF Tick, vars
<1> QED
  BY <1>1, <1>5, <1>6, <1>7, ProgressStore, BeginStore DEF Next

\* What the beginning of a call leaves alone.
LEMMA BeginFrame ==
    ASSUME NEW c \in Clients, Begin(c)
    PROVE  /\ UNCHANGED done
           /\ done => UNCHANGED <<mem, lock>>
           /\ lock # "free" => UNCHANGED mem
<1> DEFINE Frame == /\ UNCHANGED done
                    /\ done => UNCHANGED <<mem, lock>>
                    /\ lock # "free" => UNCHANGED mem
<1>1. CASE Refuse(c) \/ Close(c)
  BY <1>1 DEF Refuse, Close, Enter
<1>2. ASSUME NEW p \in Minted, NEW kv \in Data, CreateCall(c, p, kv)
      PROVE  Frame
  BY <1>2 DEF CreateCall
<1>3. ASSUME NEW id \in Ids, Destroy(c, id)
      PROVE  Frame
  BY <1>3 DEF Destroy, Enter
<1>4. ASSUME NEW t \in Tokens,
             Reject(c, t) \/ DestroyByToken(c, t) \/ ReadMissing(c, t) \/ Missed(c, t)
      PROVE  Frame
  BY <1>4 DEF Reject, DestroyByToken, ReadMissing, Missed, Enter, Return
<1>5. ASSUME NEW t \in Tokens, NEW r \in ReadOps, Read(c, t, r)
      PROVE  Frame
  BY <1>5 DEF Read, Enter, Return
<1>6. ASSUME NEW t \in Tokens, NEW u, Update(c, t, u)
      PROVE  Frame
  BY <1>6 DEF Update, Enter, Return
<1>7. ASSUME NEW t \in Tokens, NEW r \in Tokens, NEW p \in Minted,
             RefreshReject(c, t, r, p) \/ Refresh(c, t, r, p)
      PROVE  Frame
  BY <1>7 DEF RefreshReject, Refresh, Enter, Return
<1> QED
  BY <1>1, <1>2, <1>3, <1>4, <1>5, <1>6, <1>7 DEF Begin, Put, Delete

\* Once Close has raised done, no step stores anything.
LEMMA DoneStep == IInv /\ [Next]_vars => DoneEmpty'
<1> SUFFICES ASSUME IInv, [Next]_vars PROVE DoneEmpty'
  OBVIOUS
<1> USE Names DEF goroutines, store, DoneEmpty
<1>1. Mutex /\ DoneEmpty
  BY DEF IInv
<1>2. ASSUME NEW c \in Clients, Begin(c)
      PROVE  DoneEmpty'
  BY <1>1, <1>2, BeginFrame
<1>3. ASSUME NEW c \in Clients, Progress(c)
      PROVE  DoneEmpty'
  BY <1>1, <1>3
     DEF Mutex, Progress, CreateLate, Create, DestroyNext, DestroyDone, CloseDone,
         SendQueue, SendHandoff, SendClosed
<1>4. CASE Check
  BY <1>1, <1>4
     DEF Mutex, Check, CheckRead, CheckMerged, CheckClosed, CheckLock, CheckToken,
         CheckDone
<1>5. CASE Clear
  BY <1>1, <1>5 DEF Mutex, Clear, ClearTick, ClearFront, ClearDone, ClearClosed
<1> QED
  BY <1>1, <1>2, <1>3, <1>4, <1>5 DEF Next, Tick, vars

\* Only Close ends the goroutines.
LEMMA WorkStep == IInv /\ [Next]_vars => WorkUntilClose'
<1> SUFFICES ASSUME IInv, [Next]_vars PROVE WorkUntilClose'
  OBVIOUS
<1> USE DEF goroutines, store
<1>1. Typed /\ WorkUntilClose
  BY DEF IInv
<1>2. ASSUME UNCHANGED <<closed, done, checker, clearer>>, NEW c \in Clients, NEW r,
             Becomes(c, r) \/ UNCHANGED call, r.op # "close"
      PROVE  WorkUntilClose'
  BY <1>1, <1>2, BecomesFacts DEF WorkUntilClose
<1>3. Idle.op # "close"
  BY DEF Idle
<1>4. ASSUME NEW c \in Clients, Begin(c)
      PROVE  WorkUntilClose'
  <2>1. CASE Close(c)
    BY <1>1, <2>1 DEF Close, WorkUntilClose
  <2>2. CASE Refuse(c)
    BY <1>2, <1>3, <2>2 DEF Refuse
  <2>3. ASSUME NEW p \in Minted, NEW kv \in Data, CreateCall(c, p, kv)
        PROVE  WorkUntilClose'
    BY <1>2, <2>3 DEF CreateCall
  <2>4. ASSUME NEW id \in Ids, Destroy(c, id)
        PROVE  WorkUntilClose'
    BY <1>2, <1>3, <2>4 DEF Destroy
  <2>5. ASSUME NEW t \in Tokens, ReadMissing(c, t)
        PROVE  WorkUntilClose'
    BY <1>2, <1>3, <2>5 DEF ReadMissing
  <2>6. ASSUME NEW a, Return(a)
        PROVE  WorkUntilClose'
    BY <1>2, <1>3, <2>6 DEF Return
  <2> QED
    BY <1>4, <2>1, <2>2, <2>3, <2>4, <2>5, <2>6
       DEF Begin, Reject, DestroyByToken, Missed, Read, Put, Delete, Update,
           RefreshReject, Refresh
<1>5. ASSUME NEW c \in Clients, Progress(c)
      PROVE  WorkUntilClose'
  <2>1. CASE CloseDone(c)
    BY <1>1, <1>3, <2>1, BecomesFacts DEF CloseDone, WorkUntilClose
  <2>2. CASE SendHandoff(c)
    BY <1>1, <1>3, <2>2, BecomesFacts DEF SendHandoff, WorkUntilClose, Gather
  <2>3. CASE DestroyNext(c)
    BY <1>2, <2>3 DEF DestroyNext
  <2> QED
    BY <1>2, <1>3, <1>5, <2>1, <2>2, <2>3
       DEF Progress, CreateLate, Create, DestroyDone, SendQueue, SendClosed
<1>6. CASE Check
  <2>1. CASE CheckRead
    BY <1>1, <2>1 DEF CheckRead, Gather, WorkUntilClose
  <2>2. ASSUME NEW t \in Tokens, CheckToken(t)
        PROVE  WorkUntilClose'
    BY <1>1, <2>2 DEF CheckToken, Typed, Checkers, WorkUntilClose
  <2>3. CASE CheckMerged \/ CheckClosed \/ CheckLock \/ CheckDone
    BY <1>1, <2>3
       DEF CheckMerged, CheckClosed, CheckLock, CheckDone, Typed, Checkers, WorkUntilClose
  <2> QED
    BY <1>6, <2>1, <2>2, <2>3 DEF Check
<1>7. CASE Clear
  BY <1>1, <1>7 DEF Clear, ClearTick, ClearFront, ClearDone, ClearClosed, WorkUntilClose
<1> QED
  BY <1>1, <1>4, <1>5, <1>6, <1>7 DEF Next, Tick, vars, WorkUntilClose

\* Every step of Memory keeps the inductive invariant.
LEMMA IInvStep == IInv /\ [Next]_vars => IInv'
BY TypedStep, MutexStep, WorkStep, CreatesStep, DoneStep, StoreStep DEF IInv, StoreOK

\* The inductive invariant holds in every reachable state.
LEMMA IInvAlways == Spec => []IInv
BY InitIInv, IInvStep, PTL DEF Spec

-----------------------------------------------------------------------------
(* The theorems.                                                           *)

\* Every variable keeps its type: no operation looks up an element that is not
\* there, reads past a list or stores something else than a session.
THEOREM TypeCorrect == Spec => []TypeOK
<1>1. IInv => TypeOK
  BY DEF IInv, Typed, Sound, Exact, TypeOK
<1> QED
  BY <1>1, IInvAlways, PTL

\* tokens, ids and lru stay in step through every operation, eviction, purge
\* and sweep, for any number of clients.
THEOREM IndexesStayInStep == Spec => []IndexesAgree
<1>1. IInv => IndexesAgree
  BY DEF IInv, Sound, Exact, IndexesAgree
<1> QED
  BY <1>1, IInvAlways, PTL

\* Destroy never hands a missing element to lru.Remove.
THEOREM DestroyIsSafe == Spec => []DestroyFindsElements
<1>1. IInv => DestroyFindsElements
  BY DEF IInv
<1> QED
  BY <1>1, IInvAlways, PTL

\* The store never holds more than maxSize sessions.
THEOREM SizeIsBounded == Spec => []WithinMaxSize
<1>1. IInv => WithinMaxSize
  BY DEF IInv
<1> QED
  BY <1>1, IInvAlways, PTL

\* Nobody is left waiting for good: whoever waits for the mutex waits for one that
\* goes on, and a reader with a dead token has a receiver or sees the close.
THEOREM NobodyIsStuck == Spec => []NobodyStuck
<1>1. ASSUME IInv
      PROVE  NobodyStuck
  <2>1. Typed /\ Mutex /\ WorkUntilClose /\ DestroyFindsElements
    BY <1>1 DEF IInv
  <2>2. ASSUME NEW c \in Clients, lock = c
        PROVE  /\ call[c].op \in {"destroy", "close"}
               /\ call[c].op = "destroy" /\ call[c].todo # <<>> =>
                     Head(call[c].todo) \in DOMAIN mem.tokens
    <3>1. call[c].op \in {"destroy", "close"}
      BY <2>1, <2>2 DEF Mutex
    <3>2. ASSUME call[c].op = "destroy", call[c].todo # <<>>
          PROVE  Head(call[c].todo) \in DOMAIN mem.tokens
      <4>1. /\ call[c].todo \in Seq(Tokens) /\ IsInjective(call[c].todo)
            /\ Range(call[c].todo) \subseteq DOMAIN mem.tokens
        BY <2>1, <3>2, CallFields DEF Typed, DestroyFindsElements
      <4> QED
        BY <3>2, <4>1, TailFacts
    <3> QED
      BY <3>1, <3>2
  <2>3. \/ lock = "free"
        \/ lock = "check" /\ checker.pc = "do"
        \/ lock = "clear" /\ clearer = "sweep"
        \/ lock \in Clients
    BY <2>1 DEF Typed, Mutex
  <2> QED
    BY <2>1, <2>2, <2>3 DEF NobodyStuck, WorkUntilClose
<1> QED
  BY <1>1, IInvAlways, PTL

\* A closed provider stays closed and empty.
THEOREM ClosedStaysClosed == Spec => ClosedForGood
<1>1. IInv /\ IInv' /\ [Next]_vars => [done => done' /\ mem' = EmptyStore]_vars
  <2> SUFFICES ASSUME IInv, IInv', [Next]_vars, done
               PROVE  done' /\ mem' = EmptyStore
    OBVIOUS
  <2>1. done'
    <3>1. ASSUME NEW c \in Clients, Begin(c) \/ Progress(c)
          PROVE  done'
      BY <3>1, BeginFrame
         DEF Progress, CreateLate, Create, DestroyNext, DestroyDone, CloseDone,
             SendQueue, SendHandoff, SendClosed, store
    <3>2. CASE Check \/ Clear
      BY <3>2
         DEF Check, CheckRead, CheckMerged, CheckClosed, CheckLock, CheckToken,
             CheckDone, Clear, ClearTick, ClearFront, ClearDone, ClearClosed, store
    <3> QED
      BY <3>1, <3>2 DEF Next, Tick, vars
  <2> QED
    BY <2>1 DEF IInv, DoneEmpty
<1> QED
  BY <1>1, IInvAlways, PTL DEF Spec, ClosedForGood

\* The check and clear goroutines never remove a session that is not past its
\* refresh deadline.
THEOREM BackgroundIsSafe == Spec => BackgroundSparesLive
<1> DEFINE Spares == \A t \in DOMAIN mem.tokens :
               lock \in {"check", "clear"} /\ Holds(t) => t \in DOMAIN mem'.tokens
<1>1. IInv /\ [Next]_vars => [Spares]_vars
  <2> SUFFICES ASSUME IInv, [Next]_vars, lock \in {"check", "clear"},
                      NEW t \in DOMAIN mem.tokens, Holds(t)
               PROVE  t \in DOMAIN mem'.tokens
    OBVIOUS
  <2>1. Mutex /\ Sound(mem, {})
    BY Names, NoneDoomed DEF IInv
  <2>2. CASE mem' = mem
    BY <2>2
  <2>3. ASSUME NEW x \in Tokens, CheckToken(x), mem' # mem
        PROVE  t \in DOMAIN mem'.tokens
    <3>1. x # t /\ mem' = unsafeDestroyByToken(mem, x)
      BY <2>3 DEF CheckToken
    <3> QED
      BY <2>1, <3>1, DestroyByTokenSound
  <2>4. CASE ClearFront
    <3>1. mem.lru # <<>> /\ IsDeleted(mem.elem[Head(mem.lru)], now) /\ mem' = DropFront(mem)
      BY <2>4 DEF ClearFront, FrontDeleted
    <3>2. /\ mem.elem[Head(mem.lru)].access \in DOMAIN mem.tokens
          /\ mem.tokens[mem.elem[Head(mem.lru)].access] = Head(mem.lru)
      BY <2>1, <3>1, FrontValue DEF Sound
    <3>3. mem.elem[Head(mem.lru)].access # t
      BY <3>1, <3>2 DEF Holds, Val
    <3> QED
      BY <2>1, <3>1, <3>3, DropFrontSound
  <2>5. ASSUME NEW c \in Clients, Begin(c)
        PROVE  mem' = mem
    BY <2>5, BeginFrame
  <2>6. ASSUME NEW c \in Clients, Progress(c)
        PROVE  mem' = mem
    <3>1. call[c].op \notin {"destroy", "close"}
      BY <2>1, Names DEF Mutex
    <3> QED
      BY <2>6, <3>1
         DEF Progress, CreateLate, Create, DestroyNext, DestroyDone, CloseDone,
             SendQueue, SendHandoff, SendClosed, store
  <2> QED
    BY <2>2, <2>3, <2>4, <2>5, <2>6
       DEF Next, Tick, Check, CheckRead, CheckMerged, CheckClosed, CheckLock,
           CheckDone, Clear, ClearTick, ClearDone, ClearClosed, store, vars
<1> QED
  BY <1>1, IInvAlways, PTL DEF Spec, BackgroundSparesLive
=============================================================================
