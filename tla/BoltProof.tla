----------------------------- MODULE BoltProof -----------------------------
(***************************************************************************)
(* The buckets of the bolt provider stay in step, its limit holds, and it  *)
(* implements Provider between two openings of the file, for any number of *)
(* clients, tokens and openings, any limit, batch and deadlines.           *)
(*                                                                         *)
(* One call changes many sessions at once, by a fold over a set of tokens  *)
(* or of lru entries.  So the module begins with folds: what is true of    *)
(* the empty set and goes from a set without a picked element to the set   *)
(* is true of every finite set, and a fold is unfolded at that element.    *)
(* Then come the buckets, each with what one key more or less does to it,  *)
(* the helpers of Bolt, and the inductive invariant:                       *)
(*    Typed      the other variables have their types;                     *)
(*    CreatesOK  a Create in progress brings a session newTokenValue made; *)
(*    Good       the buckets have the same sessions, each where its id and *)
(*               its place in lru say;                                     *)
(*    Within     they are no more than the limit.                          *)
(* Every helper leaves Good buckets Good and says which sessions are gone. *)
(***************************************************************************)
EXTENDS Bolt, SessionsProof, FiniteSetTheorems, SequenceTheorems, TLAPS

-----------------------------------------------------------------------------
(* Folds.  FoldSet takes an element that CHOOSE picks, then the others.     *)

Pick(s) == CHOOSE x \in s : TRUE

\* A subset of S is in G because it is so without the picked element.
Inductive(G, S) ==
    \A s \in SUBSET S : (s = {} \/ s \ {Pick(s)} \in G) => s \in G

\* Then every subset is in G.
LEMMA PickInduction ==
    ASSUME NEW S, IsFiniteSet(S), NEW G, Inductive(G, S)
    PROVE  SUBSET S \subseteq G
<1> DEFINE T == (SUBSET S) \ G
<1> SUFFICES ASSUME T # {} PROVE FALSE
  OBVIOUS
<1>1. T \subseteq FiniteSubsetsOf(S)
  <2>1. FiniteSubsetsOf(S) = SUBSET S
    BY FS_FiniteSubsetsOfFinite
  <2> QED
    BY <2>1
<1>2. IsWellFoundedOn(StrictSubsetOrdering(S), FiniteSubsetsOf(S))
  BY FS_StrictSubsetOrderingWellFounded
<1> HIDE DEF T
<1>3. PICK s \in T : \A u \in T : <<u, s>> \notin StrictSubsetOrdering(S)
  BY <1>1, <1>2, WFMin
<1>4. s \in SUBSET S /\ s \notin G /\ s # {}
  BY <1>3 DEF T, Inductive
<1>5. Pick(s) \in s
  BY <1>4 DEF Pick
<1>6. s \ {Pick(s)} \notin T
  <2> DEFINE u == s \ {Pick(s)}
  <2>1. u \in SUBSET S /\ s \in SUBSET S /\ u \subseteq s /\ u # s
    BY <1>4, <1>5
  <2> HIDE DEF u
  <2>2. <<u, s>> \in StrictSubsetOrdering(S)
    BY <2>1 DEF StrictSubsetOrdering
  <2>3. u \notin T
    BY <1>3, <2>2
  <2> QED
    BY <2>3 DEF u
<1> QED
  BY <1>4, <1>6 DEF T, Inductive

\* Induction over the natural numbers, for a set.
LEMMA NatSetInduction ==
    ASSUME NEW N, 0 \in N, \A n \in Nat : n \in N => n + 1 \in N
    PROVE  Nat \subseteq N
<1> DEFINE T == Nat \ N
           R == {ss \in Nat \X Nat : ss[1] < ss[2]}
<1> SUFFICES ASSUME T # {} PROVE FALSE
  OBVIOUS
<1>0. IsWellFoundedOn(R, Nat)
  BY NatLessThanWellFounded DEF OpToRel
<1> HIDE DEF T
<1>1. PICK n \in T : \A m \in T : <<m, n>> \notin R
  <2>1. T \subseteq Nat
    BY DEF T
  <2> HIDE DEF R
  <2> QED
    BY <1>0, <2>1, WFMin
<1>2. n \in Nat /\ n # 0 /\ n \notin N
  BY <1>1 DEF T
<1>3. n - 1 \in T /\ n - 1 \in Nat /\ n - 1 < n
  BY <1>2 DEF T
<1> QED
  BY <1>1, <1>2, <1>3

\* g folds op over the subsets of S.
Folds(g, S, base, op) ==
    \A s \in SUBSET S :
        g[s] = IF s = {} THEN base ELSE op[<<g[s \ {Pick(s)}], Pick(s)>>]

\* A fold whose values stay in a set exists.
LEMMA PickRecursion ==
    ASSUME NEW S, IsFiniteSet(S), NEW D, NEW base \in D, NEW op \in [D \X S -> D]
    PROVE  \E g \in [SUBSET S -> D] : Folds(g, S, base, op)
<1> DEFINE Step(g, s) == IF s = {} THEN base ELSE op[<<g[s \ {Pick(s)}], Pick(s)>>]
           Upto(g, n) == \A s \in SUBSET S : Cardinality(s) <= n => g[s] = Step(g, s)
           N == {n \in Nat : \E g \in [SUBSET S -> D] : Upto(g, n)}
<1>1. \A s \in SUBSET S : IsFiniteSet(s) /\ Cardinality(s) \in Nat
        /\ Cardinality(s) <= Cardinality(S) /\ Cardinality(S) \in Nat
  BY FS_Subset, FS_CardinalityType
<1>2. 0 \in N
  <2> DEFINE g == [s \in SUBSET S |-> base]
  <2>1. g \in [SUBSET S -> D]
    OBVIOUS
  <2>2. ASSUME NEW s \in SUBSET S, Cardinality(s) <= 0
        PROVE  s = {}
    BY <1>1, <2>2, FS_EmptySet
  <2>3. Upto(g, 0)
    BY <2>2
  <2> QED
    BY <2>1, <2>3
<1>3. ASSUME NEW n \in Nat, n \in N
      PROVE  n + 1 \in N
  <2>1. PICK g \in [SUBSET S -> D] : Upto(g, n)
    BY <1>3
  <2> DEFINE h == [s \in SUBSET S |-> Step(g, s)]
  <2>2. h \in [SUBSET S -> D]
    <3>1. ASSUME NEW s \in SUBSET S, s # {}
          PROVE  Pick(s) \in s
      BY <3>1 DEF Pick
    <3> QED
      BY <3>1
  <2>3. ASSUME NEW s \in SUBSET S, Cardinality(s) <= n + 1
        PROVE  h[s] = Step(h, s)
    <3>1. CASE s = {}
      BY <3>1
    <3>2. CASE s # {}
      <4>1. Pick(s) \in s
        BY <3>2 DEF Pick
      <4> DEFINE r == s \ {Pick(s)}
      <4>2. r \in SUBSET S /\ Cardinality(r) <= n
        BY <1>1, <2>3, <4>1, FS_RemoveElement
      <4>3. g[r] = h[r]
        BY <2>1, <4>2
      <4> QED
        BY <3>2, <4>2, <4>3
    <3> QED
      BY <3>1, <3>2
  <2> HIDE DEF h
  <2>4. Upto(h, n + 1)
    BY <2>3
  <2> HIDE DEF Upto
  <2> QED
    BY <2>2, <2>4
<1> HIDE DEF N
<1>4. Cardinality(S) \in N
  <2>1. Nat \subseteq N
    BY <1>2, <1>3, NatSetInduction
  <2>2. S \in SUBSET S
    OBVIOUS
  <2> QED
    BY <1>1, <2>1, <2>2
<1>5. PICK g \in [SUBSET S -> D] : Upto(g, Cardinality(S))
  BY <1>4 DEF N
<1>6. \A s \in SUBSET S : g[s] = Step(g, s)
  BY <1>1, <1>5
<1> QED
  BY <1>6 DEF Folds

-----------------------------------------------------------------------------
(* The lists of tokens of an id.                                           *)

\* Appending a token that is new.
LEMMA AppendNew ==
    ASSUME NEW S, NEW s \in Seq(S), NEW x \in S, IsInjective(s), x \notin Range(s)
    PROVE  /\ Append(s, x) \in Seq(S)
           /\ IsInjective(Append(s, x))
           /\ Range(Append(s, x)) = Range(s) \cup {x}
<1>1. /\ DOMAIN Append(s, x) = 1..(Len(s) + 1)
      /\ Append(s, x)[Len(s) + 1] = x
      /\ \A j \in 1..Len(s) : Append(s, x)[j] = s[j]
      /\ DOMAIN s = 1..Len(s) /\ Len(s) \in Nat
  OBVIOUS
<1>2. \A j \in 1..(Len(s) + 1) : j \in 1..Len(s) \/ j = Len(s) + 1
  BY <1>1
<1>3. IsInjective(Append(s, x))
  BY <1>1, <1>2 DEF IsInjective, Range
<1>4. Range(Append(s, x)) = Range(s) \cup {x}
  BY <1>1, <1>2 DEF Range
<1> QED
  BY <1>3, <1>4

\* Removing a token from a list without repetitions leaves the others.
LEMMA RemoveFirstFacts ==
    ASSUME NEW S, NEW s \in Seq(S), IsInjective(s), NEW x \in Range(s)
    PROVE  /\ RemoveFirst(s, x) \in Seq(S)
           /\ IsInjective(RemoveFirst(s, x))
           /\ Range(RemoveFirst(s, x)) = Range(s) \ {x}
<1>1. DOMAIN s = 1..Len(s) /\ Len(s) \in Nat
  BY LenProperties
<1>2. PICK i \in 1..Len(s) : s[i] = x
  BY <1>1 DEF Range
<1>3. {j \in 1..Len(s) : s[j] = x} = {i}
  BY <1>1, <1>2 DEF IsInjective
<1>4. SelectInSeq(s, LAMBDA v : v = x) = i
  <2>1. Min({i}) = i
    BY <1>2 DEF Min
  <2> QED
    BY <1>3, <2>1 DEF SelectInSeq
<1> DEFINE a == SubSeq(s, 1, i - 1)
           b == SubSeq(s, i + 1, Len(s))
           r == a \o b
<1>5. RemoveFirst(s, x) = r
  BY <1>2, <1>4 DEF RemoveFirst, RemoveAt
<1>6. /\ a \in Seq(S) /\ Len(a) = i - 1
      /\ \A j \in 1..(i - 1) : a[j] = s[j]
  <2>1. \A j \in 1..(i - 1) : s[j] \in S
    BY <1>1, <1>2
  <2>2. 1 \in Int /\ i - 1 \in Int
    BY <1>2
  <2> QED
    BY <1>2, <2>1, <2>2, SubSeqProperties
<1>7. /\ b \in Seq(S) /\ Len(b) = Len(s) - i
      /\ \A j \in 1..(Len(s) - i) : b[j] = s[i + j]
  <2>1. \A j \in (i + 1)..Len(s) : s[j] \in S
    BY <1>1, <1>2
  <2>2. i + 1 \in Int /\ Len(s) \in Int
    BY <1>1, <1>2
  <2> DEFINE m == i + 1
  <2>3. /\ SubSeq(s, m, Len(s)) \in Seq(S)
        /\ Len(SubSeq(s, m, Len(s))) = IF m <= Len(s) THEN Len(s) - m + 1 ELSE 0
        /\ \A j \in 1..(Len(s) - m + 1) : SubSeq(s, m, Len(s))[j] = s[m + j - 1]
    <3> HIDE DEF m
    <3> QED
      BY <2>1, <2>2, SubSeqProperties DEF m
  <2> QED
    BY <1>1, <1>2, <2>3
<1> HIDE DEF a, b
<1>8. /\ r \in Seq(S) /\ Len(r) = Len(s) - 1
      /\ \A j \in 1..(Len(s) - 1) : r[j] = IF j < i THEN s[j] ELSE s[j + 1]
  <2>1. /\ r \in Seq(S) /\ Len(r) = Len(a) + Len(b)
        /\ \A j \in 1..(Len(a) + Len(b)) : r[j] = IF j <= Len(a) THEN a[j] ELSE b[j - Len(a)]
    BY <1>6, <1>7, ConcatProperties
  <2> HIDE DEF r
  <2>2. Len(a) = i - 1 /\ Len(a) + Len(b) = Len(s) - 1
    BY <1>1, <1>2, <1>6, <1>7
  <2>3. ASSUME NEW j \in 1..(Len(s) - 1)
        PROVE  r[j] = IF j < i THEN s[j] ELSE s[j + 1]
    <3>1. CASE j < i
      <4>1. j \in 1..(Len(a) + Len(b)) /\ j <= Len(a) /\ j \in 1..(i - 1)
        BY <1>1, <1>2, <2>2, <3>1
      <4>2. r[j] = a[j]
        BY <2>1, <4>1
      <4> QED
        BY <1>6, <3>1, <4>1, <4>2
    <3>2. CASE ~(j < i)
      <4>1. j \in 1..(Len(a) + Len(b)) /\ ~(j <= Len(a))
        BY <1>1, <1>2, <2>2, <3>2
      <4>3. r[j] = b[j - (i - 1)]
        BY <2>1, <2>2, <4>1
      <4>2. j - (i - 1) \in 1..(Len(s) - i) /\ i + (j - (i - 1)) = j + 1
        BY <1>1, <1>2, <3>2
      <4> QED
        BY <1>7, <3>2, <4>2, <4>3
    <3> QED
      BY <3>1, <3>2
  <2> QED
    BY <2>1, <2>2, <2>3
<1>9. DOMAIN r = 1..(Len(s) - 1)
  BY <1>8, LenProperties
<1> HIDE DEF r
<1>10. IsInjective(r)
  <2> SUFFICES ASSUME NEW j \in 1..(Len(s) - 1), NEW l \in 1..(Len(s) - 1), r[j] = r[l]
               PROVE  j = l
    BY <1>9 DEF IsInjective
  <2> DEFINE at(n) == IF n < i THEN n ELSE n + 1
  <2>1. r[j] = s[at(j)] /\ r[l] = s[at(l)]
    BY <1>8
  <2>2. at(j) \in DOMAIN s /\ at(l) \in DOMAIN s
    BY <1>1, <1>2
  <2>3. at(j) = at(l)
    BY <2>1, <2>2 DEF IsInjective
  <2> QED
    BY <1>1, <1>2, <2>3
<1>11. Range(r) = Range(s) \ {x}
  <2>1. \A j \in DOMAIN r : r[j] \in Range(s) /\ r[j] # x
    BY <1>1, <1>2, <1>8, <1>9 DEF Range, IsInjective
  <2>2. ASSUME NEW j \in 1..Len(s), s[j] # x
        PROVE  \E l \in DOMAIN r : r[l] = s[j]
    <3>1. CASE j < i
      BY <1>1, <1>2, <1>8, <1>9, <3>1
    <3>2. CASE j > i
      <4>1. j - 1 \in 1..(Len(s) - 1) /\ r[j - 1] = s[j]
        BY <1>1, <1>2, <1>8, <3>2
      <4> QED
        BY <1>9, <4>1
    <3> QED
      BY <1>1, <1>2, <2>2, <3>1, <3>2
  <2> QED
    BY <1>1, <2>1, <2>2 DEF Range
<1> QED
  BY <1>5, <1>8, <1>10, <1>11

-----------------------------------------------------------------------------
(* The buckets, one by one.                                                *)

\* The bucket metadata.
MetadataOK(md) ==
    /\ IsPartial(md, Tokens, Metadata)
    /\ \A t \in DOMAIN md : md[t].access = t /\ md[t].id = IdOf[t]

\* The bucket ids lists the tokens stored.
IdsOK(ids, stored) ==
    /\ IsPartial(ids, Ids, Seq(Tokens))
    /\ \A id \in DOMAIN ids :
          /\ IsInjective(ids[id])
          /\ Range(ids[id]) = {t \in stored : IdOf[t] = id}
    /\ \A t \in stored : IdOf[t] \in DOMAIN ids

\* The bucket lru has one entry for every token with metadata.
LruOK(lru, md, seq) ==
    /\ IsPartial(lru, Nat \ {0}, Tokens)
    /\ Range(lru) = DOMAIN md
    /\ \A t \in DOMAIN md : {k \in DOMAIN lru : lru[k] = t} = {md[t].lru}
    /\ \A k \in DOMAIN lru : k <= seq

\* What every transaction leaves.
Good(d) ==
    /\ d = [metadata |-> d.metadata, data |-> d.data, ids |-> d.ids,
            lru |-> d.lru, seq |-> d.seq, count |-> d.count]
    /\ MetadataOK(d.metadata)
    /\ IsPartial(d.data, Tokens, Data)
    /\ DOMAIN d.data = DOMAIN d.metadata
    /\ IdsOK(d.ids, DOMAIN d.metadata)
    /\ LruOK(d.lru, d.metadata, d.seq)
    /\ d.seq \in Nat
    /\ d.count \in Nat
    /\ d.count = Cardinality(DOMAIN d.metadata)

\* deleteIDS keeps the bucket ids in step with one token less.
LEMMA IdsRemove ==
    ASSUME NEW ids, NEW stored \in SUBSET Tokens, IdsOK(ids, stored), NEW t \in stored
    PROVE  IdsOK(deleteIDS(ids, IdOf[t], t), stored \ {t})
<1> DEFINE id == IdOf[t]
<1>1. id \in DOMAIN ids /\ id \in Ids /\ ids[id] \in Seq(Tokens) /\ IsInjective(ids[id])
      /\ Range(ids[id]) = {u \in stored : IdOf[u] = id}
  BY DEF IdsOK, IsPartial
<1>2. t \in Range(ids[id])
  BY <1>1
<1>3. CASE ids[id] = <<t>>
  <2>1. deleteIDS(ids, id, t) = Without(ids, id)
    BY <1>1, <1>3 DEF deleteIDS
  <2>2. Range(ids[id]) = {t}
    BY <1>3 DEF Range
  <2>3. \A u \in stored \ {t} : IdOf[u] # id
    BY <1>1, <2>2
  <2> QED
    BY <2>1, <2>3 DEF IdsOK, IsPartial, Without, Restrict
<1>4. CASE ids[id] # <<t>>
  <2> DEFINE r == RemoveFirst(ids[id], t)
  <2>1. deleteIDS(ids, id, t) = [ids EXCEPT ![id] = r]
    BY <1>1, <1>4 DEF deleteIDS
  <2>2. r \in Seq(Tokens) /\ IsInjective(r) /\ Range(r) = Range(ids[id]) \ {t}
    BY <1>1, <1>2, RemoveFirstFacts
  <2> HIDE DEF r
  <2>3. \A i \in DOMAIN ids \ {id} : [ids EXCEPT ![id] = r][i] = ids[i]
          /\ t \notin {u \in stored : IdOf[u] = i}
    OBVIOUS
  <2> QED
    BY <1>1, <2>1, <2>2, <2>3 DEF IdsOK, IsPartial
<1> QED
  BY <1>3, <1>4

\* appendIDS keeps it in step with one token more.
LEMMA IdsAdd ==
    ASSUME NEW ids, NEW stored \in SUBSET Tokens, IdsOK(ids, stored),
           NEW t \in Tokens, t \notin stored, IdOf[t] \in Ids
    PROVE  IdsOK(appendIDS(ids, IdOf[t], t), stored \cup {t})
<1> DEFINE id == IdOf[t]
           old == IF id \in DOMAIN ids THEN ids[id] ELSE <<>>
           r == Append(old, t)
<1>1. old \in Seq(Tokens) /\ IsInjective(old) /\ Range(old) = {u \in stored : IdOf[u] = id}
  <2>1. CASE id \in DOMAIN ids
    BY <2>1 DEF IdsOK, IsPartial
  <2>2. CASE id \notin DOMAIN ids
    <3>1. old = <<>> /\ DOMAIN old = {}
      BY <2>2
    <3>2. {u \in stored : IdOf[u] = id} = {}
      BY <2>2 DEF IdsOK
    <3>3. IsInjective(old) /\ Range(old) = {}
      <4> HIDE DEF old
      <4> QED
        BY <3>1 DEF IsInjective, Range
    <3>4. <<>> \in Seq(Tokens)
      OBVIOUS
    <3> HIDE DEF old
    <3> QED
      BY <3>1, <3>2, <3>3, <3>4
  <2> QED
    BY <2>1, <2>2
<1>2. r \in Seq(Tokens) /\ IsInjective(r) /\ Range(r) = {u \in stored : IdOf[u] = id} \cup {t}
  <2> HIDE DEF old
  <2> QED
    BY <1>1, AppendNew
<1>3. appendIDS(ids, id, t) = With(ids, id, r)
  BY DEF appendIDS
<1> HIDE DEF r
<1>4. /\ DOMAIN With(ids, id, r) = DOMAIN ids \cup {id}
      /\ With(ids, id, r)[id] = r
      /\ \A i \in DOMAIN ids \ {id} : With(ids, id, r)[i] = ids[i]
  BY DEF With
<1>5. IsPartial(With(ids, id, r), Ids, Seq(Tokens))
  BY <1>2, PartialStep DEF IdsOK
<1>6. \A i \in DOMAIN ids \ {id} :
         {u \in stored \cup {t} : IdOf[u] = i} = {u \in stored : IdOf[u] = i}
  OBVIOUS
<1>7. Range(r) = {u \in stored \cup {t} : IdOf[u] = id}
  BY <1>2
<1> QED
  BY <1>2, <1>3, <1>4, <1>5, <1>6, <1>7 DEF IdsOK

\* The entry of a token leaves lru.
LEMMA LruRemove ==
    ASSUME NEW lru, NEW md, NEW seq, LruOK(lru, md, seq), NEW t \in DOMAIN md
    PROVE  /\ md[t].lru \in DOMAIN lru /\ lru[md[t].lru] = t
           /\ LruOK(Without(lru, md[t].lru), Without(md, t), seq)
<1> DEFINE k == md[t].lru
           l == Without(lru, k)
<1>1. k \in DOMAIN lru /\ lru[k] = t /\ \A j \in DOMAIN lru : lru[j] = t => j = k
  BY DEF LruOK
<1>2. DOMAIN l = DOMAIN lru \ {k} /\ \A j \in DOMAIN l : l[j] = lru[j] /\ l[j] # t
  BY <1>1 DEF Without, Restrict
<1>3. /\ DOMAIN Without(md, t) = DOMAIN md \ {t}
      /\ \A u \in DOMAIN md \ {t} : Without(md, t)[u] = md[u]
  BY WithoutFacts
<1>4. IsPartial(l, Nat \ {0}, Tokens)
  BY PartialStep DEF LruOK
<1> HIDE DEF l, k
<1>5. Range(l) = DOMAIN md \ {t}
  <2>1. Range(lru) = DOMAIN md
    BY DEF LruOK
  <2>2. ASSUME NEW u \in DOMAIN md, u # t
        PROVE  u \in Range(l)
    <3>1. PICK j \in DOMAIN lru : lru[j] = u
      BY <2>1 DEF Range
    <3> QED
      BY <1>1, <1>2, <2>2, <3>1 DEF Range
  <2> QED
    BY <1>2, <2>1, <2>2 DEF Range
<1>6. ASSUME NEW u \in DOMAIN md \ {t}
      PROVE  {j \in DOMAIN l : l[j] = u} = {md[u].lru}
  <2>1. {j \in DOMAIN lru : lru[j] = u} = {md[u].lru}
    BY DEF LruOK
  <2> QED
    BY <1>1, <1>2, <2>1
<1>7. \A j \in DOMAIN l : j <= seq
  BY <1>2 DEF LruOK
<1>8. LruOK(l, Without(md, t), seq)
  BY <1>3, <1>4, <1>5, <1>6, <1>7 DEF LruOK
<1> QED
  BY <1>1, <1>8 DEF k, l

\* putLRU gives a new token the next entry.
LEMMA LruAdd ==
    ASSUME NEW lru, NEW md, NEW seq \in Nat, LruOK(lru, md, seq),
           NEW t \in Tokens, t \notin DOMAIN md, NEW m, m.lru = seq + 1
    PROVE  LruOK(With(lru, seq + 1, t), With(md, t, m), seq + 1)
<1> DEFINE n == seq + 1
           l == With(lru, n, t)
           w == With(md, t, m)
<1>1. n \in Nat \ {0} /\ n \notin DOMAIN lru /\ \A j \in DOMAIN lru : j \in Nat /\ j <= n
  <2>1. \A j \in DOMAIN lru : j \in Nat /\ j <= seq
    BY DEF LruOK, IsPartial
  <2> QED
    BY <2>1
<1>2. /\ DOMAIN l = DOMAIN lru \cup {n} /\ l[n] = t
      /\ \A j \in DOMAIN lru : l[j] = lru[j]
  BY <1>1 DEF With
<1>3. /\ DOMAIN w = DOMAIN md \cup {t} /\ w[t] = m
      /\ \A u \in DOMAIN md : w[u] = md[u]
  BY DEF With
<1>4. IsPartial(l, Nat \ {0}, Tokens)
  BY <1>1, PartialStep DEF LruOK
<1> HIDE DEF l, w
<1>5. Range(lru) = DOMAIN md
  BY DEF LruOK
<1>6. \A j \in DOMAIN lru : lru[j] \in DOMAIN md
  BY <1>5 DEF Range
<1>7. Range(l) = DOMAIN md \cup {t}
  BY <1>2, <1>5 DEF Range
<1>8. ASSUME NEW u \in DOMAIN w
      PROVE  {j \in DOMAIN l : l[j] = u} = {w[u].lru}
  <2>1. CASE u = t
    BY <1>2, <1>3, <1>6, <2>1
  <2>2. CASE u # t
    <3>1. {j \in DOMAIN lru : lru[j] = u} = {md[u].lru}
      BY <1>3, <2>2 DEF LruOK
    <3> QED
      BY <1>2, <1>3, <2>2, <3>1
  <2> QED
    BY <2>1, <2>2
<1>9. \A j \in DOMAIN l : j <= n
  BY <1>1, <1>2
<1>10. LruOK(l, w, n)
  BY <1>3, <1>4, <1>7, <1>8, <1>9 DEF LruOK
<1> QED
  BY <1>10 DEF l, w

\* The buckets are finite.
LEMMA StoredFinite ==
    ASSUME NEW d, Good(d)
    PROVE  /\ IsFiniteSet(DOMAIN d.lru) /\ IsFiniteSet(DOMAIN d.metadata)
           /\ DOMAIN d.metadata \subseteq Tokens
<1>1. IsFiniteSet(DOMAIN d.lru)
  <2>1. DOMAIN d.lru \in SUBSET Nat /\ \A k \in DOMAIN d.lru : k <= d.seq
    BY DEF Good, LruOK, IsPartial
  <2> QED
    BY <2>1, FS_BoundedSetOfNaturals DEF Good
<1>2. d.lru \in Surjection(DOMAIN d.lru, DOMAIN d.metadata)
  <2>1. /\ d.lru \in [DOMAIN d.lru -> Tokens]
        /\ DOMAIN d.metadata = {d.lru[k] : k \in DOMAIN d.lru}
    BY DEF Good, LruOK, IsPartial, Range
  <2>2. d.lru \in [DOMAIN d.lru -> DOMAIN d.metadata]
    BY <2>1
  <2> QED
    BY <2>1, <2>2 DEF Surjection
<1>3. IsFiniteSet(DOMAIN d.metadata)
  BY <1>1, <1>2, FS_Surjection
<1> QED
  BY <1>1, <1>3 DEF Good, MetadataOK, IsPartial

-----------------------------------------------------------------------------
(* What the helpers leave.                                                 *)

\* The sessions of e are sessions of d, unchanged.
SameSessions(d, e) ==
    \A t \in DOMAIN e.metadata :
        /\ t \in DOMAIN d.metadata
        /\ e.metadata[t] = d.metadata[t]
        /\ e.data[t] = d.data[t]

\* The entries of lru in e are those of d but for ks.
SameLru(d, e, ks) ==
    /\ DOMAIN e.lru = DOMAIN d.lru \ ks
    /\ \A k \in DOMAIN e.lru : e.lru[k] = d.lru[k]

\* A token and all that is stored for it goes, and nothing else.
LEMMA DropOK ==
    ASSUME NEW d, Good(d), NEW t \in DOMAIN d.metadata
    PROVE  LET k == d.metadata[t].lru
               e == drop(d, t, k)
           IN  /\ Good(e) /\ SameLru(d, e, {k}) /\ SameSessions(d, e) /\ e.seq = d.seq
               /\ DOMAIN e.metadata = DOMAIN d.metadata \ {t}
               /\ k \in DOMAIN d.lru /\ d.lru[k] = t
<1> DEFINE k == d.metadata[t].lru
           md == Without(d.metadata, t)
           da == Without(d.data, t)
           is == deleteIDS(d.ids, IdOf[t], t)
           lr == Without(d.lru, k)
           e == drop(d, t, k)
           stored == DOMAIN d.metadata
<1>1. e = [metadata |-> md, data |-> da, ids |-> is, lru |-> lr,
           seq |-> d.seq, count |-> decrement(d.count)]
  <2>1. d.metadata[t].id = IdOf[t]
    BY DEF Good, MetadataOK
  <2>2. e = [d EXCEPT !.metadata = md, !.data = da, !.ids = is, !.lru = lr,
                      !.count = decrement(@)]
    BY <2>1 DEF drop
  <2> HIDE DEF e, md, da, is, lr
  <2>3. d = [metadata |-> d.metadata, data |-> d.data, ids |-> d.ids,
             lru |-> d.lru, seq |-> d.seq, count |-> d.count]
    BY DEF Good
  <2> QED
    BY <2>2, <2>3
<1>2. DOMAIN md = stored \ {t} /\ \A u \in stored \ {t} : md[u] = d.metadata[u]
  BY DEF Without, Restrict
<1>3. DOMAIN da = stored \ {t} /\ IsPartial(da, Tokens, Data)
      /\ \A u \in stored \ {t} : da[u] = d.data[u]
  BY PartialStep DEF Good, Without, Restrict
<1>4. MetadataOK(md)
  <2>1. IsPartial(md, Tokens, Metadata)
    BY PartialStep DEF Good, MetadataOK
  <2> HIDE DEF md
  <2> QED
    BY <1>2, <2>1 DEF Good, MetadataOK
<1>5. IdsOK(is, stored \ {t})
  <2>1. stored \in SUBSET Tokens
    BY StoredFinite
  <2> QED
    BY <2>1, IdsRemove DEF Good
<1>6. k \in DOMAIN d.lru /\ d.lru[k] = t /\ LruOK(lr, md, d.seq)
  BY LruRemove DEF Good
<1>7. SameLru(d, [lru |-> lr], {k})
  BY DEF SameLru, Without, Restrict
<1>8. decrement(d.count) \in Nat /\ decrement(d.count) = Cardinality(stored \ {t})
  <2>1. IsFiniteSet(stored)
    BY StoredFinite
  <2>2. Cardinality(stored \ {t}) = d.count - 1 /\ Cardinality(stored \ {t}) \in Nat
    BY <2>1, FS_RemoveElement, FS_CardinalityType DEF Good
  <2> QED
    BY <2>2 DEF decrement, Good
<1> HIDE DEF md, da, is, lr, e
<1>9. Good(e)
  BY <1>1, <1>2, <1>3, <1>4, <1>5, <1>6, <1>8 DEF Good
<1>10. SameSessions(d, e)
  BY <1>1, <1>2, <1>3 DEF SameSessions
<1> QED
  BY <1>1, <1>2, <1>6, <1>7, <1>9, <1>10 DEF SameLru, e

\* destoryToken takes its token away.
LEMMA DestoryTokenOK ==
    ASSUME NEW d, Good(d), NEW t
    PROVE  /\ Good(destoryToken(d, t)) /\ destoryToken(d, t).seq = d.seq
           /\ SameSessions(d, destoryToken(d, t))
           /\ DOMAIN destoryToken(d, t).metadata = DOMAIN d.metadata \ {t}
<1>1. CASE t \in DOMAIN d.metadata
  BY <1>1, DropOK DEF destoryToken, delete
<1>2. CASE t \notin DOMAIN d.metadata
  BY <1>2 DEF destoryToken, SameSessions
<1> QED
  BY <1>1, <1>2

\* putMetadata and the rest store a session that was not there.
LEMMA StoreOK ==
    ASSUME NEW d, Good(d), NEW s \in TokenValue, s.id = IdOf[s.access],
           s.access \notin DOMAIN d.metadata
    PROVE  /\ Good(store(d, s))
           /\ DOMAIN store(d, s).metadata = DOMAIN d.metadata \cup {s.access}
           /\ Session(store(d, s), s.access) = s
           /\ \A t \in DOMAIN d.metadata : Session(store(d, s), t) = Session(d, t)
<1> DEFINE n == d.seq + 1
           t == s.access
           m == [id |-> s.id, access |-> s.access, refresh |-> s.refresh,
                 accessDeadline |-> s.accessDeadline,
                 refreshDeadline |-> s.refreshDeadline, lru |-> n]
           kv == IF t \in DOMAIN d.data THEN d.data[t] ELSE Empty
           md == With(d.metadata, t, m)
           da == With(d.data, t, Override(kv, s.data))
           is == appendIDS(d.ids, IdOf[t], t)
           lr == With(d.lru, n, t)
           e == store(d, s)
           stored == DOMAIN d.metadata
<1>1. e = [metadata |-> md, data |-> da, ids |-> is, lru |-> lr,
           seq |-> n, count |-> d.count + 1]
  BY DEF store
<1>2. t \in Tokens /\ s.id \in Ids /\ s.data \in Data /\ n \in Nat \ {0}
      /\ m \in Metadata /\ m.access = t /\ m.id = IdOf[t] /\ m.lru = n
  BY DEF TokenValue, Metadata, Good
<1> HIDE DEF m
<1>3. DOMAIN md = stored \cup {t} /\ md[t] = m /\ \A u \in stored : md[u] = d.metadata[u]
  BY DEF With
<1>4. MetadataOK(md)
  <2>1. IsPartial(md, Tokens, Metadata)
    BY <1>2, PartialStep DEF Good, MetadataOK
  <2> HIDE DEF md
  <2> QED
    BY <1>2, <1>3, <2>1 DEF Good, MetadataOK
<1>5. DOMAIN da = stored \cup {t} /\ IsPartial(da, Tokens, Data)
      /\ da[t] = s.data /\ \A u \in stored : da[u] = d.data[u]
  <2>1. kv = Empty
    BY DEF Good
  <2>2. Override(Empty, s.data) \in Data /\ Override(Empty, s.data) = s.data
    <3>1. IsPartial(s.data, Keys, Values)
      BY <1>2, PartialIff DEF Data
    <3>3. Override(Empty, s.data) = s.data
      BY <3>1 DEF IsPartial, Override, Empty
    <3>2. IsPartial(Override(Empty, s.data), Keys, Values)
      BY <3>1 DEF IsPartial, Override, Empty
    <3> QED
      BY <3>2, <3>3, PartialIff DEF Data
  <2>3. da = With(d.data, t, Override(Empty, s.data))
    BY <2>1
  <2>4. IsPartial(da, Tokens, Data)
    BY <1>2, <2>2, <2>3, PartialStep DEF Good
  <2>5. /\ DOMAIN da = stored \cup {t} /\ da[t] = Override(Empty, s.data)
        /\ \A u \in stored : da[u] = d.data[u]
    BY <2>3 DEF With, Good
  <2> QED
    BY <2>2, <2>4, <2>5
<1>6. IdsOK(is, stored \cup {t})
  <2>1. stored \in SUBSET Tokens
    BY StoredFinite
  <2> QED
    BY <1>2, <2>1, IdsAdd DEF Good
<1>7. LruOK(lr, md, n)
  BY <1>2, LruAdd DEF Good
<1>8. d.count + 1 \in Nat /\ d.count + 1 = Cardinality(stored \cup {t})
  <2>1. IsFiniteSet(stored)
    BY StoredFinite
  <2>2. Cardinality(stored \cup {t}) = Cardinality(stored) + 1
    BY <2>1, FS_AddElement
  <2> QED
    BY <2>2 DEF Good
<1> HIDE DEF md, da, is, lr, e
<1>9. Good(e)
  BY <1>1, <1>2, <1>3, <1>4, <1>5, <1>6, <1>7, <1>8 DEF Good
<1>10. Session(e, t) = s
  BY <1>1, <1>3, <1>5 DEF Session, m, TokenValue
<1>11. \A u \in stored : Session(e, u) = Session(d, u)
  BY <1>1, <1>3, <1>5 DEF Session
<1> QED
  BY <1>1, <1>3, <1>9, <1>10, <1>11 DEF e

\* An entry of lru goes with its session.
LEMMA DropEntryOK ==
    ASSUME NEW d, Good(d), NEW k \in DOMAIN d.lru
    PROVE  /\ Good(dropEntry(d, k)) /\ SameLru(d, dropEntry(d, k), {k})
           /\ SameSessions(d, dropEntry(d, k)) /\ dropEntry(d, k).seq = d.seq
<1> DEFINE t == d.lru[k]
<1>1. t \in DOMAIN d.metadata
  BY DEF Good, LruOK, Range
<1>2. d.metadata[t].lru = k
  BY <1>1 DEF Good, LruOK
<1>3. dropEntry(d, k) = drop(d, t, d.metadata[t].lru)
  BY <1>1, <1>2 DEF dropEntry
<1> HIDE DEF t
<1>4. LET e == drop(d, t, d.metadata[t].lru)
      IN  /\ Good(e) /\ SameLru(d, e, {d.metadata[t].lru})
          /\ SameSessions(d, e) /\ e.seq = d.seq
  BY <1>1, DropOK
<1> QED
  BY <1>2, <1>3, <1>4

\* The buckets as a member of a set.
AllBuckets == [metadata : Partial(Tokens, Metadata), data : Partial(Tokens, Data),
               ids : Partial(Ids, Seq(Tokens)), lru : Partial(Nat \ {0}, Tokens),
               seq : Nat, count : Nat]

\* Good buckets are in the set that the inductions on folds range over.
LEMMA GoodMember == \A d : Good(d) => d \in AllBuckets
<1> SUFFICES ASSUME NEW d, Good(d) PROVE d \in AllBuckets
  OBVIOUS
<1>1. /\ d.metadata \in Partial(Tokens, Metadata) /\ d.data \in Partial(Tokens, Data)
      /\ d.ids \in Partial(Ids, Seq(Tokens)) /\ d.lru \in Partial(Nat \ {0}, Tokens)
      /\ d.seq \in Nat /\ d.count \in Nat
  BY PartialIff DEF Good, MetadataOK, IdsOK, LruOK
<1>2. d = [metadata |-> d.metadata, data |-> d.data, ids |-> d.ids,
           lru |-> d.lru, seq |-> d.seq, count |-> d.count]
  BY DEF Good
<1> QED
  BY <1>1, <1>2 DEF AllBuckets

\* The fold over entries of lru drops them all.
LEMMA DropEntriesOK ==
    ASSUME NEW d, Good(d), NEW ks \in SUBSET DOMAIN d.lru
    PROVE  /\ Good(dropEntries(d, ks)) /\ SameLru(d, dropEntries(d, ks), ks)
           /\ SameSessions(d, dropEntries(d, ks)) /\ dropEntries(d, ks).seq = d.seq
<1> DEFINE F(f) == [s \in SUBSET ks |->
                       IF s = {} THEN d ELSE dropEntry(f[s \ {Pick(s)}], Pick(s))]
           iter == CHOOSE f : f = F(f)
           Kept(e, s) == Good(e) /\ SameLru(d, e, s) /\ SameSessions(d, e) /\ e.seq = d.seq
           D == {e \in AllBuckets : Good(e)}
           op == [p \in D \X ks |->
                     IF p[2] \in DOMAIN p[1].lru THEN dropEntry(p[1], p[2]) ELSE p[1]]
<1>1. dropEntries(d, ks) = iter[ks]
  BY DEF dropEntries, FoldSet, MapThenFoldSet, Pick
<1>2. IsFiniteSet(ks)
  BY StoredFinite, FS_Subset
<1>3. Kept(d, {})
  BY DEF SameLru, SameSessions
<1>4. ASSUME NEW e, NEW s \in SUBSET ks, NEW k \in s, Kept(e, s \ {k})
      PROVE  k \in DOMAIN e.lru /\ Kept(dropEntry(e, k), s)
  <2>1. k \in DOMAIN e.lru
    BY <1>4 DEF SameLru
  <2>2. /\ Good(dropEntry(e, k)) /\ SameLru(e, dropEntry(e, k), {k})
        /\ SameSessions(e, dropEntry(e, k)) /\ dropEntry(e, k).seq = e.seq
    BY <1>4, <2>1, DropEntryOK
  <2>3. SameLru(d, dropEntry(e, k), s)
    BY <1>4, <2>2 DEF SameLru
  <2>4. SameSessions(d, dropEntry(e, k))
    BY <1>4, <2>2 DEF SameSessions
  <2> QED
    BY <1>4, <2>1, <2>2, <2>3, <2>4
<1>5. \A s \in SUBSET ks : s # {} => Pick(s) \in s
  BY DEF Pick
<1>6. ASSUME NEW f, f = F(f)
      PROVE  \A s \in SUBSET ks : Kept(f[s], s)
  <2> DEFINE G == {s \in SUBSET ks : Kept(f[s], s)}
  <2>1. ASSUME NEW s \in SUBSET ks, s = {} \/ s \ {Pick(s)} \in G
        PROVE  s \in G
    <3>1. CASE s = {}
      <4>1. f[s] = d
        BY <1>6, <3>1
      <4> QED
        BY <1>3, <3>1, <4>1
    <3>2. CASE s # {}
      <4>1. f[s] = dropEntry(f[s \ {Pick(s)}], Pick(s))
        BY <1>6, <3>2
      <4>2. Kept(f[s \ {Pick(s)}], s \ {Pick(s)}) /\ Pick(s) \in s
        BY <1>5, <2>1, <3>2
      <4> HIDE DEF Kept
      <4> QED
        BY <1>4, <4>1, <4>2
    <3> QED
      BY <3>1, <3>2
  <2> HIDE DEF G
  <2>2. Inductive(G, ks)
    BY <2>1 DEF Inductive
  <2>3. SUBSET ks \subseteq G
    BY <1>2, <2>2, PickInduction
  <2> QED
    BY <2>3 DEF G
<1>7. \E f : f = F(f)
  <2>1. d \in D
    BY GoodMember
  <2>2. op \in [D \X ks -> D]
    <3> SUFFICES ASSUME NEW e \in D, NEW k \in ks, k \in DOMAIN e.lru
                 PROVE  dropEntry(e, k) \in D
      OBVIOUS
    <3>1. Good(dropEntry(e, k))
      BY DropEntryOK
    <3> QED
      BY <3>1, GoodMember
  <2> HIDE DEF op, D
  <2>3. PICK g \in [SUBSET ks -> D] : Folds(g, ks, d, op)
    BY <1>2, <2>1, <2>2, PickRecursion
  <2> DEFINE G == {s \in SUBSET ks : Kept(g[s], s) /\ g[s] = F(g)[s]}
  <2>4. ASSUME NEW s \in SUBSET ks, s = {} \/ s \ {Pick(s)} \in G
        PROVE  s \in G
    <3>1. CASE s = {}
      BY <1>3, <2>3, <3>1 DEF Folds
    <3>2. CASE s # {}
      <4> DEFINE k == Pick(s)
                 e == g[s \ {k}]
      <4>1. k \in s /\ Kept(e, s \ {k}) /\ e \in D
        BY <1>5, <2>3, <2>4, <3>2
      <4>2. k \in DOMAIN e.lru /\ Kept(dropEntry(e, k), s)
        <5> HIDE DEF Kept, e, k
        <5> QED
          BY <1>4, <4>1
      <4>3. g[s] = op[<<e, k>>]
        BY <2>3, <3>2 DEF Folds
      <4>4. op[<<e, k>>] = dropEntry(e, k)
        <5> HIDE DEF e, k
        <5> QED
          BY <4>1, <4>2 DEF op
      <4>5. F(g)[s] = dropEntry(e, k)
        BY <3>2
      <4> HIDE DEF Kept, F, e
      <4> QED
        BY <4>2, <4>3, <4>4, <4>5
    <3> QED
      BY <3>1, <3>2
  <2>5. \A s \in SUBSET ks : g[s] = F(g)[s]
    <3> HIDE DEF G, F, Kept
    <3>1. Inductive(G, ks)
      BY <2>4 DEF Inductive
    <3>2. SUBSET ks \subseteq G
      BY <1>2, <3>1, PickInduction
    <3> QED
      BY <3>2 DEF G
  <2>6. g = F(g)
    BY <2>3, <2>5
  <2> QED
    BY <2>6
<1>8. iter = F(iter)
  <2> HIDE DEF F
  <2> QED
    BY <1>7
<1> HIDE DEF iter, F, Kept
<1>9. Kept(iter[ks], ks)
  BY <1>6, <1>8
<1> QED
  BY <1>1, <1>9 DEF Kept

\* The buckets without the tokens of s, and without the list of the id.
Cut(d, id, s) ==
    [metadata |-> Restrict(d.metadata, DOMAIN d.metadata \ s),
     data |-> Restrict(d.data, DOMAIN d.metadata \ s),
     ids |-> Without(d.ids, id),
     lru |-> Restrict(d.lru, {k \in DOMAIN d.lru : d.lru[k] \notin s}),
     seq |-> d.seq, count |-> d.count - Cardinality(s)]

\* One step of the fold of unsafeDestroy.
LEMMA CutStep ==
    ASSUME NEW d, Good(d), NEW id,
           NEW s \in SUBSET {t \in DOMAIN d.metadata : IdOf[t] = id}, NEW t \in s
    PROVE  destoryToken(Cut(d, id, s \ {t}), t) = Cut(d, id, s)
<1> DEFINE e == Cut(d, id, s \ {t})
           stored == DOMAIN d.metadata
           k == d.metadata[t].lru
<1>1. t \in DOMAIN e.metadata /\ e.metadata[t] = d.metadata[t]
  BY DEF Cut, Restrict
<1>2. d.metadata[t].id = id
  BY DEF Good, MetadataOK
<1>3. destoryToken(e, t) =
        [metadata |-> Without(e.metadata, t), data |-> Without(e.data, t),
         ids |-> deleteIDS(e.ids, id, t), lru |-> Without(e.lru, k),
         seq |-> e.seq, count |-> decrement(e.count)]
  <2>1. destoryToken(e, t) = drop(e, t, k)
    BY <1>1 DEF destoryToken, delete
  <2>2. drop(e, t, k) =
          [e EXCEPT !.metadata = Without(@, t), !.data = Without(@, t),
                    !.ids = deleteIDS(@, id, t),
                    !.lru = Without(@, k), !.count = decrement(@)]
    BY <1>1, <1>2 DEF drop
  <2>3. e = [metadata |-> e.metadata, data |-> e.data, ids |-> e.ids,
             lru |-> e.lru, seq |-> e.seq, count |-> e.count]
    BY DEF Cut
  <2> HIDE DEF e, k
  <2> QED
    BY <2>1, <2>2, <2>3
<1>4. Without(e.metadata, t) = Restrict(d.metadata, stored \ s)
  BY DEF Cut, Without, Restrict
<1>5. Without(e.data, t) = Restrict(d.data, stored \ s)
  BY DEF Cut, Without, Restrict
<1>6. deleteIDS(e.ids, id, t) = Without(d.ids, id)
  BY DEF deleteIDS, Cut, Without, Restrict
<1>7. Without(e.lru, k) = Restrict(d.lru, {j \in DOMAIN d.lru : d.lru[j] \notin s})
  <2>1. \A j \in DOMAIN d.lru : d.lru[j] = t <=> j = k
    BY DEF Good, LruOK
  <2> HIDE DEF k
  <2>2. {j \in DOMAIN d.lru : d.lru[j] \notin s \ {t}} \ {k}
          = {j \in DOMAIN d.lru : d.lru[j] \notin s}
    BY <2>1
  <2> QED
    BY <2>2 DEF Cut, Without, Restrict
<1>8. decrement(e.count) = d.count - Cardinality(s)
  <2>1. IsFiniteSet(s) /\ Cardinality(s) \in Nat /\ Cardinality(s) <= d.count
    BY StoredFinite, FS_Subset, FS_CardinalityType DEF Good
  <2>2. Cardinality(s \ {t}) = Cardinality(s) - 1
    BY <2>1, FS_RemoveElement
  <2>3. e.count = d.count - Cardinality(s \ {t})
    BY DEF Cut
  <2> HIDE DEF e
  <2> QED
    BY <2>1, <2>2, <2>3 DEF decrement, Good
<1>9. e.seq = d.seq
  BY DEF Cut
<1> QED
  BY <1>3, <1>4, <1>5, <1>6, <1>7, <1>8, <1>9 DEF Cut

\* unsafeDestroy takes the tokens of the id away.
LEMMA UnsafeDestroyOK ==
    ASSUME NEW d, Good(d), NEW id \in Ids
    PROVE  /\ Good(unsafeDestroy(d, id)) /\ unsafeDestroy(d, id).seq = d.seq
           /\ SameSessions(d, unsafeDestroy(d, id))
           /\ DOMAIN unsafeDestroy(d, id).metadata
                = {t \in DOMAIN d.metadata : IdOf[t] # id}
<1> DEFINE stored == DOMAIN d.metadata
           own == {t \in stored : IdOf[t] = id}
<1>1. CASE id \notin DOMAIN d.ids
  <2>1. \A t \in stored : IdOf[t] # id
    BY <1>1 DEF Good, IdsOK
  <2> QED
    BY <1>1, <2>1 DEF unsafeDestroy, SameSessions
<1>2. CASE id \in DOMAIN d.ids
  <2> DEFINE b == [d EXCEPT !.ids = Without(@, id)]
             F(f) == [s \in SUBSET own |->
                       IF s = {} THEN b ELSE destoryToken(f[s \ {Pick(s)}], Pick(s))]
             iter == CHOOSE f : f = F(f)
  <2>1. unsafeDestroy(d, id) = iter[own]
    <3>1. Range(d.ids[id]) = own
      BY <1>2 DEF Good, IdsOK
    <3> QED
      BY <1>2, <3>1 DEF unsafeDestroy, FoldSet, MapThenFoldSet, Pick
  <2>2. b = Cut(d, id, {})
    <3>1. Restrict(d.metadata, stored \ {}) = d.metadata
      BY DEF Restrict, Good, MetadataOK, IsPartial
    <3>2. Restrict(d.data, stored \ {}) = d.data
      BY DEF Restrict, Good, IsPartial
    <3>3. Restrict(d.lru, {k \in DOMAIN d.lru : d.lru[k] \notin {}}) = d.lru
      BY DEF Restrict, Good, LruOK, IsPartial
    <3>4. d.count - Cardinality({}) = d.count
      BY FS_EmptySet DEF Good
    <3> DEFINE w == Without(d.ids, id)
    <3> HIDE DEF w
    <3>5. b = [d EXCEPT !.ids = w]
      BY DEF w
    <3>6. d = [metadata |-> d.metadata, data |-> d.data, ids |-> d.ids,
               lru |-> d.lru, seq |-> d.seq, count |-> d.count]
      BY DEF Good
    <3> HIDE DEF b
    <3>7. b = [metadata |-> d.metadata, data |-> d.data, ids |-> w,
               lru |-> d.lru, seq |-> d.seq, count |-> d.count]
      BY <3>5, <3>6
    <3> QED
      BY <3>1, <3>2, <3>3, <3>4, <3>7 DEF Cut, w
  <2>3. \A s \in SUBSET own : s # {} => Pick(s) \in s
    BY DEF Pick
  <2>4. \A s \in SUBSET own : s # {} =>
           destoryToken(Cut(d, id, s \ {Pick(s)}), Pick(s)) = Cut(d, id, s)
    BY <2>3, CutStep
  <2>5. \E f : f = F(f)
    <3> DEFINE g == [s \in SUBSET own |-> Cut(d, id, s)]
    <3>1. ASSUME NEW s \in SUBSET own
          PROVE  g[s] = IF s = {} THEN b ELSE destoryToken(g[s \ {Pick(s)}], Pick(s))
      <4> HIDE DEF b
      <4> QED
        BY <2>2, <2>4
    <3>2. g = F(g)
      <4> HIDE DEF b
      <4> QED
        BY <3>1
    <3> QED
      BY <3>2
  <2>6. iter = F(iter)
    <3> HIDE DEF F
    <3> QED
      BY <2>5
  <2>7. \A s \in SUBSET own : iter[s] = Cut(d, id, s)
    <3> DEFINE G == {s \in SUBSET own : iter[s] = Cut(d, id, s)}
    <3> HIDE DEF iter, b
    <3>1. Inductive(G, own)
      BY <2>2, <2>4, <2>6 DEF Inductive
    <3>2. IsFiniteSet(own)
      BY StoredFinite, FS_Subset
    <3> HIDE DEF G
    <3>3. SUBSET own \subseteq G
      BY <3>1, <3>2, PickInduction
    <3> QED
      BY <3>3 DEF G
  <2> HIDE DEF iter
  <2>8. unsafeDestroy(d, id) = Cut(d, id, own)
    BY <2>1, <2>7
  <2> DEFINE e == Cut(d, id, own)
             rest == stored \ own
  <2>9. /\ e.metadata = Restrict(d.metadata, rest) /\ e.data = Restrict(d.data, rest)
        /\ e.ids = Without(d.ids, id) /\ e.seq = d.seq
        /\ e.lru = Restrict(d.lru, {k \in DOMAIN d.lru : d.lru[k] \notin own})
        /\ e.count = d.count - Cardinality(own)
        /\ e = [metadata |-> e.metadata, data |-> e.data, ids |-> e.ids,
                lru |-> e.lru, seq |-> e.seq, count |-> e.count]
    BY DEF Cut
  <2> HIDE DEF e
  <2>10. MetadataOK(e.metadata) /\ DOMAIN e.metadata = rest
    BY <2>9 DEF Good, MetadataOK, Restrict, IsPartial
  <2>11. IsPartial(e.data, Tokens, Data) /\ DOMAIN e.data = rest
    BY <2>9 DEF Good, Restrict, IsPartial
  <2>12. IdsOK(e.ids, rest)
    <3>1. \A i \in DOMAIN d.ids \ {id} : {t \in rest : IdOf[t] = i} = {t \in stored : IdOf[t] = i}
      OBVIOUS
    <3>2. DOMAIN e.ids = DOMAIN d.ids \ {id} /\ \A i \in DOMAIN e.ids : e.ids[i] = d.ids[i]
      BY <2>9 DEF Without, Restrict
    <3>3. IsPartial(e.ids, Ids, Seq(Tokens))
      BY <2>9, PartialStep DEF Good, IdsOK
    <3>4. \A t \in rest : IdOf[t] # id /\ t \in stored
      OBVIOUS
    <3> QED
      BY <3>1, <3>2, <3>3, <3>4 DEF Good, IdsOK
  <2>13. LruOK(e.lru, e.metadata, e.seq)
    <3>1. /\ DOMAIN e.lru = {k \in DOMAIN d.lru : d.lru[k] \notin own}
          /\ \A k \in DOMAIN e.lru : e.lru[k] = d.lru[k]
          /\ IsPartial(e.lru, Nat \ {0}, Tokens)
      BY <2>9 DEF Restrict, IsPartial, Good, LruOK
    <3>2. \A t \in rest : e.metadata[t] = d.metadata[t]
      BY <2>9 DEF Restrict
    <3>3. Range(d.lru) = stored
      BY DEF Good, LruOK
    <3> HIDE DEF own
    <3>4. Range(e.lru) = rest
      BY <3>1, <3>3 DEF Range
    <3>5. ASSUME NEW t \in rest
          PROVE  {k \in DOMAIN e.lru : e.lru[k] = t} = {e.metadata[t].lru}
      <4>1. {k \in DOMAIN d.lru : d.lru[k] = t} = {d.metadata[t].lru}
        BY DEF Good, LruOK
      <4> QED
        BY <3>1, <3>2, <4>1
    <3>6. \A k \in DOMAIN e.lru : k <= e.seq
      BY <2>9, <3>1 DEF Good, LruOK
    <3> QED
      BY <2>10, <3>1, <3>4, <3>5, <3>6 DEF LruOK
  <2>14. e.count \in Nat /\ e.count = Cardinality(rest)
    <3>1. IsFiniteSet(stored) /\ stored \cap own = own /\ IsFiniteSet(rest)
      BY StoredFinite, FS_Difference
    <3>2. Cardinality(rest) = Cardinality(stored) - Cardinality(own)
      BY <3>1, FS_Difference
    <3>3. Cardinality(rest) \in Nat
      BY <3>1, FS_CardinalityType
    <3> QED
      BY <2>9, <3>2, <3>3 DEF Good
  <2>15. e.seq \in Nat
    BY <2>9 DEF Good
  <2>16. Good(e)
    <3> HIDE DEF rest
    <3> QED
      BY <2>9, <2>10, <2>11, <2>12, <2>13, <2>14, <2>15 DEF Good
  <2>17. rest = {t \in stored : IdOf[t] # id}
    OBVIOUS
  <2>18. SameSessions(d, e)
    BY <2>9 DEF SameSessions, Restrict
  <2> QED
    BY <2>8, <2>9, <2>10, <2>16, <2>17, <2>18 DEF e
<1> QED
  BY <1>1, <1>2

\* What follows of the metadata from what is said of the entries of lru.
LEMMA SameLruMetadata ==
    ASSUME NEW d, Good(d), NEW e, Good(e), NEW ks, SameLru(d, e, ks),
           NEW t \in DOMAIN d.metadata
    PROVE  t \in DOMAIN e.metadata <=> d.metadata[t].lru \notin ks
<1> DEFINE k == d.metadata[t].lru
<1>1. k \in DOMAIN d.lru /\ d.lru[k] = t /\ \A j \in DOMAIN d.lru : d.lru[j] = t => j = k
  BY DEF Good, LruOK
<1> HIDE DEF k
<1>2. ASSUME k \notin ks
      PROVE  t \in DOMAIN e.metadata
  <2>1. k \in DOMAIN e.lru /\ e.lru[k] = t
    BY <1>1, <1>2 DEF SameLru
  <2> QED
    BY <2>1 DEF Good, LruOK, Range
<1>3. ASSUME t \in DOMAIN e.metadata
      PROVE  k \notin ks
  <2>1. PICK j \in DOMAIN e.lru : e.lru[j] = t
    BY <1>3 DEF Good, LruOK, Range
  <2> QED
    BY <1>1, <2>1 DEF SameLru
<1> QED
  BY <1>2, <1>3 DEF k

\* The oldest entry of lru.
LEMMA Oldest ==
    ASSUME NEW d, Good(d), DOMAIN d.lru # {}
    PROVE  \E k \in DOMAIN d.lru : \A j \in DOMAIN d.lru : k <= j
<1> DEFINE T == DOMAIN d.lru
           R == {ss \in Nat \X Nat : ss[1] < ss[2]}
<1>1. T \subseteq Nat
  BY DEF Good, LruOK, IsPartial
<1>2. IsWellFoundedOn(R, Nat)
  BY NatLessThanWellFounded DEF OpToRel
<1>3. PICK k \in T : \A j \in T : <<j, k>> \notin R
  <2> HIDE DEF R, T
  <2> QED
    BY <1>1, <1>2, WFMin DEF T
<1>4. ASSUME NEW j \in T
      PROVE  k <= j
  <2>1. j \in Nat /\ k \in Nat
    BY <1>1
  <2>2. <<j, k>> \notin R
    BY <1>3
  <2> QED
    BY <2>1, <2>2
<1> QED
  BY <1>4

\* unsafePop takes exactly one session away, if there is one.
LEMMA UnsafePopOK ==
    ASSUME NEW d, Good(d)
    PROVE  LET e == unsafePop(d) IN
           /\ Good(e) /\ SameSessions(d, e) /\ e.seq = d.seq
           /\ DOMAIN d.metadata # {} =>
                 \E v \in DOMAIN d.metadata : DOMAIN e.metadata = DOMAIN d.metadata \ {v}
<1> DEFINE ks == {k \in DOMAIN d.lru :
                    \A j \in DOMAIN d.lru : j < k => d.lru[j] \notin DOMAIN d.metadata}
           e == unsafePop(d)
<1>1. e = dropEntries(d, ks)
  BY DEF unsafePop
<1>2. ks \in SUBSET DOMAIN d.lru
  OBVIOUS
<1> HIDE DEF ks, e
<1>3. Good(e) /\ SameLru(d, e, ks) /\ SameSessions(d, e) /\ e.seq = d.seq
  BY <1>1, <1>2, DropEntriesOK
<1>4. ASSUME DOMAIN d.metadata # {}
      PROVE  \E v \in DOMAIN d.metadata : DOMAIN e.metadata = DOMAIN d.metadata \ {v}
  <2>1. DOMAIN d.lru # {} /\ \A j \in DOMAIN d.lru : d.lru[j] \in DOMAIN d.metadata
    BY <1>4 DEF Good, LruOK, Range
  <2>2. DOMAIN d.lru \subseteq Nat
    BY DEF Good, LruOK, IsPartial
  <2>3. PICK k \in DOMAIN d.lru : \A j \in DOMAIN d.lru : k <= j
    BY <2>1, Oldest
  <2>4. ks = {k}
    BY <2>1, <2>2, <2>3 DEF ks
  <2> DEFINE v == d.lru[k]
  <2>5. v \in DOMAIN d.metadata /\ \A t \in DOMAIN d.metadata : d.metadata[t].lru = k <=> t = v
    <3>1. \A t \in DOMAIN d.metadata : {j \in DOMAIN d.lru : d.lru[j] = t} = {d.metadata[t].lru}
      BY DEF Good, LruOK
    <3> QED
      BY <2>1, <3>1
  <2>6. \A t \in DOMAIN d.metadata : t \in DOMAIN e.metadata <=> t # v
    BY <1>3, <2>4, <2>5, SameLruMetadata
  <2>7. DOMAIN e.metadata = DOMAIN d.metadata \ {v}
    BY <1>3, <2>6 DEF SameSessions
  <2> QED
    BY <2>5, <2>7
<1> QED
  BY <1>3, <1>4 DEF e

\* The sweep takes away sessions past their refresh deadline only.
LEMMA SweptOK ==
    ASSUME NEW d, Good(d)
    PROVE  /\ Good(swept(d)) /\ SameSessions(d, swept(d)) /\ swept(d).seq = d.seq
           /\ \A t \in DOMAIN d.metadata \ DOMAIN swept(d).metadata :
                 IsDeleted(d.metadata[t], now)
<1> DEFINE ks == {k \in DOMAIN d.lru :
                    \A j \in DOMAIN d.lru : j <= k => ~Live(d, d.lru[j])}
<1>1. swept(d) = dropEntries(d, ks) /\ ks \in SUBSET DOMAIN d.lru
  BY DEF swept
<1>2. \A k \in ks : ~Live(d, d.lru[k])
  <2>1. DOMAIN d.lru \subseteq Nat
    BY DEF Good, LruOK, IsPartial
  <2>2. \A k \in DOMAIN d.lru : k <= k
    BY <2>1
  <2> QED
    BY <2>2
<1> HIDE DEF ks
<1> DEFINE e == swept(d)
<1>3. Good(e) /\ SameLru(d, e, ks) /\ SameSessions(d, e) /\ e.seq = d.seq
  BY <1>1, DropEntriesOK
<1> HIDE DEF e
<1>4. ASSUME NEW t \in DOMAIN d.metadata, t \notin DOMAIN e.metadata
      PROVE  IsDeleted(d.metadata[t], now)
  <2>1. d.metadata[t].lru \in ks
    BY <1>3, <1>4, SameLruMetadata
  <2>2. d.lru[d.metadata[t].lru] = t
    BY DEF Good, LruOK
  <2> QED
    BY <1>2, <2>1, <2>2 DEF Live
<1> QED
  BY <1>3, <1>4 DEF e

-----------------------------------------------------------------------------
(* The inductive invariant.                                                *)

\* A Create in progress brings a session made at some moment before.
CreatesOK ==
    \A c \in Clients : call[c].op = "create" =>
        \E p \in Minted, kv \in Data, at \in 0..now : call[c].t = newTokenValue(p, kv, at)

\* TypeOK without the buckets.
Typed ==
    /\ maxSize \in {MaxSize, ReopenSize}
    /\ done \in BOOLEAN
    /\ leaked \in BOOLEAN
    /\ call \in [Clients -> Calls]
    /\ ch \in Seq(Tokens)
    /\ checker \in Checkers
    /\ clearer \in BOOLEAN
    /\ reopens \in Nat
    /\ answer \in Answers
    /\ now \in Nat

\* WithinMaxSize, of any buckets.
Within(d) ==
    MaxSize = ReopenSize /\ MaxSize > 0 => Cardinality(DOMAIN d.metadata) <= MaxSize

IInv == Typed /\ CreatesOK /\ Good(db) /\ Within(db)

\* The invariant says what the properties say.
LEMMA InvProperties == IInv => TypeOK /\ BucketsAgree /\ WithinMaxSize
<1>1. Good(db) => IsBuckets(db) /\ BucketsAgree
  BY DEF Good, MetadataOK, IdsOK, LruOK, IsBuckets, BucketsAgree
<1> QED
  BY <1>1 DEF IInv, Typed, Within, TypeOK, WithinMaxSize

\* Empty buckets.
LEMMA EmptyOK == \A n \in Nat : Good(EmptyBuckets(n)) /\ Within(EmptyBuckets(n))
<1> SUFFICES ASSUME NEW n \in Nat
             PROVE  Good(EmptyBuckets(n)) /\ Within(EmptyBuckets(n))
  OBVIOUS
<1> DEFINE e == EmptyBuckets(n)
<1>1. /\ e.metadata = Empty /\ e.data = Empty /\ e.ids = Empty /\ e.lru = Empty
      /\ e.seq = n /\ e.count = 0
      /\ e = [metadata |-> e.metadata, data |-> e.data, ids |-> e.ids,
              lru |-> e.lru, seq |-> e.seq, count |-> e.count]
  BY DEF EmptyBuckets
<1>2. DOMAIN Empty = {} /\ \A S, T : IsPartial(Empty, S, T)
  BY DEF Empty, IsPartial
<1> HIDE DEF e
<1>3. Range(Empty) = {}
  BY <1>2 DEF Range
<1>4. Good(e)
  BY <1>1, <1>2, <1>3, FS_EmptySet DEF Good, MetadataOK, IdsOK, LruOK
<1>5. Within(e)
  <2>1. Cardinality({}) = 0
    BY FS_EmptySet
  <2> QED
    BY <1>1, <1>2, <2>1, BoltAssumption DEF Within
<1> QED
  BY <1>4, <1>5 DEF e

\* It holds of a new file.
LEMMA InitIInv == Init => IInv
<1> SUFFICES ASSUME Init PROVE IInv
  OBVIOUS
<1>1. Good(db) /\ Within(db)
  BY EmptyOK DEF Init
<1>2. Err("nil") \in Answers
  BY ErrType DEF Errors
<1>3. call \in [Clients -> Calls] /\ checker \in Checkers
  BY DEF Init, Calls, Idle, Checkers
<1>4. ch \in Seq(Tokens)
  BY DEF Init
<1>5. Typed
  BY <1>2, <1>3, <1>4, BoltAssumption DEF Init, Typed
<1>6. CreatesOK
  BY DEF Init, CreatesOK, Idle
<1> QED
  BY <1>1, <1>5, <1>6 DEF IInv

\* Buckets with no session more.
LEMMA FewerWithin ==
    ASSUME NEW d, Good(d), Within(d), NEW e, SameSessions(d, e), Good(e)
    PROVE  Within(e)
<1>1. IsFiniteSet(DOMAIN d.metadata) /\ DOMAIN e.metadata \subseteq DOMAIN d.metadata
  BY StoredFinite DEF SameSessions
<1>2. /\ Cardinality(DOMAIN e.metadata) <= Cardinality(DOMAIN d.metadata)
      /\ Cardinality(DOMAIN d.metadata) \in Nat /\ Cardinality(DOMAIN e.metadata) \in Nat
  BY <1>1, FS_Subset, FS_CardinalityType
<1> QED
  BY <1>2, BoltAssumption DEF Within

\* The session put together from two buckets.
LEMMA SessionType ==
    ASSUME NEW d, Good(d), NEW t \in DOMAIN d.metadata
    PROVE  /\ Session(d, t) \in TokenValue
           /\ Session(d, t).access = t /\ Session(d, t).id = IdOf[t]
           /\ Session(d, t).refresh = d.metadata[t].refresh
           /\ Session(d, t).accessDeadline = d.metadata[t].accessDeadline
           /\ Session(d, t).refreshDeadline = d.metadata[t].refreshDeadline
           /\ t \in Tokens /\ d.metadata[t] \in Metadata
<1>1. d.metadata[t] \in Metadata /\ d.metadata[t].access = t /\ d.metadata[t].id = IdOf[t]
      /\ t \in Tokens
  BY DEF Good, MetadataOK, IsPartial
<1>2. d.data[t] \in Data
  BY DEF Good, IsPartial
<1> QED
  BY <1>1, <1>2 DEF Session, TokenValue, Metadata

\* The data of a session set.
LEMMA UpdateOK ==
    ASSUME NEW d, Good(d), NEW t \in DOMAIN d.metadata, NEW kv \in Data
    PROVE  LET e == [d EXCEPT !.data = With(@, t, kv)] IN
           /\ Good(e)
           /\ e.metadata = d.metadata /\ e.data = With(d.data, t, kv) /\ e.seq = d.seq
<1> DEFINE w == With(d.data, t, kv)
           e == [d EXCEPT !.data = w]
<1>1. t \in Tokens /\ t \in DOMAIN d.data
  BY SessionType DEF Good
<1>2. IsPartial(w, Tokens, Data)
  BY <1>1, PartialStep DEF Good
<1>3. DOMAIN w = DOMAIN d.data
  BY <1>1 DEF With
<1>4. d = [metadata |-> d.metadata, data |-> d.data, ids |-> d.ids,
           lru |-> d.lru, seq |-> d.seq, count |-> d.count]
  BY DEF Good
<1> HIDE DEF w
<1>5. e = [metadata |-> d.metadata, data |-> w, ids |-> d.ids,
           lru |-> d.lru, seq |-> d.seq, count |-> d.count]
  BY <1>4
<1> HIDE DEF e
<1>6. Good(e)
  BY <1>2, <1>3, <1>5 DEF Good
<1> QED
  BY <1>5, <1>6 DEF e, w

-----------------------------------------------------------------------------
(* The transactions that store a session.                                  *)

\* A session that stays is what it was.
LEMMA SameSessionsView ==
    ASSUME NEW d, NEW e, SameSessions(d, e), NEW t \in DOMAIN e.metadata
    PROVE  t \in DOMAIN d.metadata /\ Session(e, t) = Session(d, t)
BY DEF SameSessions, Session

\* Making room takes one session if there are maxSize, and none otherwise.
LEMMA MakeRoomOK ==
    ASSUME NEW d, Good(d), maxSize \in Int
    PROVE  LET e == MakeRoom(d) IN
           /\ Good(e) /\ SameSessions(d, e)
           /\ IF maxSize > 0 /\ Cardinality(DOMAIN d.metadata) >= maxSize
              THEN \E v \in DOMAIN d.metadata : DOMAIN e.metadata = DOMAIN d.metadata \ {v}
              ELSE DOMAIN e.metadata = DOMAIN d.metadata
<1>1. CASE maxSize > 0 /\ d.count >= maxSize
  <2>1. MakeRoom(d) = unsafePop(d)
    BY <1>1 DEF MakeRoom
  <2>2. DOMAIN d.metadata # {}
    <3>1. d.count # 0 /\ d.count = Cardinality(DOMAIN d.metadata)
      BY <1>1 DEF Good
    <3> QED
      BY <3>1, FS_EmptySet
  <2>3. LET e == unsafePop(d) IN
        /\ Good(e) /\ SameSessions(d, e)
        /\ \E v \in DOMAIN d.metadata : DOMAIN e.metadata = DOMAIN d.metadata \ {v}
    BY <2>2, UnsafePopOK
  <2> QED
    BY <1>1, <2>1, <2>3 DEF Good
<1>2. CASE ~(maxSize > 0 /\ d.count >= maxSize)
  BY <1>2 DEF MakeRoom, SameSessions, Good
<1> QED
  BY <1>1, <1>2

\* e has the session u and, of the others in d, the kept: all but one of them
\* if there are maxSize.
Makes(d, e, u, kept) ==
    LET others == DOMAIN d.metadata \ {u.access} IN
    /\ kept \in SUBSET others
    /\ IF maxSize > 0 /\ Cardinality(others) >= maxSize
       THEN \E v \in others : kept = others \ {v}
       ELSE kept = others
    /\ DOMAIN e.metadata = kept \cup {u.access}
    /\ \A t \in kept : Session(e, t) = Session(d, t)
    /\ Session(e, u.access) = u

\* Create: the session is stored, and at most one other one is gone.
LEMMA CreateOK ==
    ASSUME NEW d, Good(d), maxSize \in Int, NEW s \in TokenValue, s.id = IdOf[s.access]
    PROVE  LET e == store(MakeRoom(destoryToken(d, s.access)), s)
           IN  Good(e) /\ \E kept : Makes(d, e, s, kept)
<1> DEFINE others == DOMAIN d.metadata \ {s.access}
           a == destoryToken(d, s.access)
           b == MakeRoom(a)
           e == store(b, s)
           kept == DOMAIN b.metadata
<1>1. Good(a) /\ SameSessions(d, a) /\ DOMAIN a.metadata = others
  BY DestoryTokenOK
<1> HIDE DEF a
<1>2. /\ Good(b) /\ SameSessions(a, b)
      /\ IF maxSize > 0 /\ Cardinality(others) >= maxSize
         THEN \E v \in others : kept = others \ {v}
         ELSE kept = others
  BY <1>1, MakeRoomOK
<1>3. kept \in SUBSET others
  BY <1>2
<1> HIDE DEF b
<1>4. /\ Good(e) /\ DOMAIN e.metadata = kept \cup {s.access}
      /\ Session(e, s.access) = s
      /\ \A t \in kept : Session(e, t) = Session(b, t)
  BY <1>2, <1>3, StoreOK
<1>5. \A t \in kept : Session(b, t) = Session(d, t)
  BY <1>1, <1>2, SameSessionsView
<1> HIDE DEF kept, e, others
<1>6. \A t \in kept : Session(e, t) = Session(d, t)
  BY <1>4, <1>5
<1> QED
  BY <1>2, <1>3, <1>4, <1>6 DEF Makes, e, b, a, others

\* Refresh: the session moves to its new tokens.
LEMMA RefreshOK ==
    ASSUME NEW d, Good(d), NEW t \in DOMAIN d.metadata,
           NEW u \in TokenValue, u.id = IdOf[u.access],
           u.access = t \/ u.access \notin DOMAIN d.metadata
    PROVE  LET e == store(delete(d, t), u)
               rest == DOMAIN d.metadata \ {t}
           IN  /\ Good(e)
               /\ DOMAIN e.metadata = rest \cup {u.access}
               /\ \A x \in rest : Session(e, x) = Session(d, x)
               /\ Session(e, u.access) = u
<1> DEFINE a == delete(d, t)
<1>1. Good(a) /\ SameSessions(d, a) /\ DOMAIN a.metadata = DOMAIN d.metadata \ {t}
  BY DropOK DEF delete
<1> HIDE DEF a
<1>2. u.access \notin DOMAIN a.metadata
  BY <1>1
<1>3. /\ Good(store(a, u)) /\ DOMAIN store(a, u).metadata = DOMAIN a.metadata \cup {u.access}
      /\ Session(store(a, u), u.access) = u
      /\ \A x \in DOMAIN a.metadata : Session(store(a, u), x) = Session(a, x)
  BY <1>1, <1>2, StoreOK
<1>4. \A x \in DOMAIN a.metadata : Session(a, x) = Session(d, x)
  BY <1>1, SameSessionsView
<1> QED
  BY <1>1, <1>3, <1>4 DEF a

-----------------------------------------------------------------------------
(* The steps.                                                              *)

\* Calls change to something that is no Create, and time goes on.
LEMMA CallsKept ==
    ASSUME IInv, call' \in [Clients -> Calls], now' \in Nat, now' >= now,
           \A c \in Clients : call'[c] = call[c] \/ call'[c].op # "create"
    PROVE  CreatesOK'
<1> SUFFICES ASSUME NEW c \in Clients, call'[c].op = "create"
             PROVE  \E p \in Minted, kv \in Data, at \in 0..now' :
                        call'[c].t = newTokenValue(p, kv, at)
  BY DEF CreatesOK
<1>1. call'[c] = call[c]
  OBVIOUS
<1>2. PICK p \in Minted, kv \in Data, at \in 0..now : call[c].t = newTokenValue(p, kv, at)
  BY <1>1 DEF IInv, CreatesOK
<1>3. at \in 0..now'
  BY DEF IInv, Typed
<1> QED
  BY <1>1, <1>2, <1>3

\* One call changes.
LEMMA BecomesOK ==
    ASSUME IInv, NEW c \in Clients, NEW r \in Calls, Becomes(c, r), r.op # "create",
           UNCHANGED now
    PROVE  call' \in [Clients -> Calls] /\ CreatesOK'
<1>1. /\ call' \in [Clients -> Calls]
      /\ \A d \in Clients : call'[d] = call[d] \/ call'[d] = r
  BY DEF Becomes, IInv, Typed
<1>2. now' \in Nat /\ now' >= now
  BY DEF IInv, Typed
<1> QED
  BY <1>1, <1>2, CallsKept

\* The records a step may give to a call.
LEMMA CallTypes ==
    /\ Idle \in Calls /\ Idle.op # "create"
    /\ [op |-> "blocked"] \in Calls
    /\ \A t \in Tokens : [op |-> "send", token |-> t] \in Calls
BY DEF Calls, Idle

\* A call that is over with buckets that are good.
LEMMA ReturnOK ==
    ASSUME IInv, NEW d, NEW a \in Answers, Return(d, a), Good(d), Within(d)
    PROVE  IInv'
<1>1. Typed'
  BY DEF IInv, Typed, Return, instance, goroutines
<1>2. CreatesOK'
  BY DEF IInv, CreatesOK, Return, instance
<1>3. Good(db)' /\ Within(db)'
  BY DEF Return, Within
<1> QED
  BY <1>1, <1>2, <1>3 DEF IInv

\* The same with sessions gone.
LEMMA ReturnFewer ==
    ASSUME IInv, NEW d, NEW a \in Answers, Return(d, a), Good(d), SameSessions(db, d)
    PROVE  IInv'
BY ReturnOK, FewerWithin DEF IInv

\* Steps that leave the buckets alone.
LEMMA SameBuckets ==
    ASSUME IInv, UNCHANGED db, Typed', CreatesOK'
    PROVE  IInv'
BY DEF IInv, Within

\* Time passes.
LEMMA TickStep == ASSUME IInv, Tick PROVE IInv'
<1>1. now' \in Nat /\ now' >= now
  BY DEF Tick, IInv, Typed
<1>2. Typed'
  BY <1>1 DEF Tick, IInv, Typed, goroutines
<1>3. CreatesOK'
  BY <1>1, CallsKept DEF Tick, IInv, Typed
<1> QED
  BY <1>2, <1>3, SameBuckets DEF Tick

\* The file is opened again.
LEMMA ReopenStep == ASSUME IInv, Reopen PROVE IInv'
<1>1. call' \in [Clients -> Calls] /\ \A c \in Clients : call'[c].op # "create"
  BY CallTypes DEF Reopen
<1>2. Typed'
  <2>1. ch' \in Seq(Tokens) /\ checker' \in Checkers
    BY DEF Reopen, Checkers
  <2>2. clearer' \in BOOLEAN /\ done' \in BOOLEAN /\ leaked' \in BOOLEAN
    BY BoltAssumption, Zenon DEF Reopen
  <2>3. maxSize' \in {MaxSize, ReopenSize} /\ reopens' \in Nat /\ now' \in Nat
    BY DEF Reopen, IInv, Typed
  <2>4. answer' \in Answers
    BY DEF Reopen, IInv, Typed
  <2> QED
    BY <1>1, <2>1, <2>2, <2>3, <2>4 DEF Typed
<1>3. CreatesOK'
  BY <1>1 DEF CreatesOK
<1> QED
  BY <1>2, <1>3, SameBuckets DEF Reopen

\* The goroutines.
LEMMA GoroutineStep == ASSUME IInv, Check \/ Sweep PROVE IInv'
<1> USE DEF instance, goroutines
<1>1. CASE CheckRead
  <2>1. Head(ch) \in Tokens /\ Tail(ch) \in Seq(Tokens)
    BY <1>1, HeadTailProperties DEF CheckRead, IInv, Typed
  <2>2. checker' \in Checkers
    BY <1>1, <2>1 DEF CheckRead, IInv, Typed, Checkers
  <2>3. Typed'
    BY <1>1, <2>1, <2>2 DEF CheckRead, IInv, Typed
  <2> QED
    BY <1>1, <2>3, SameBuckets DEF CheckRead, IInv, CreatesOK
<1>2. CASE CheckMerged
  <2>1. Typed'
    BY <1>2 DEF CheckMerged, IInv, Typed, Checkers
  <2> QED
    BY <1>2, <2>1, SameBuckets DEF CheckMerged, IInv, CreatesOK
<1>3. CASE CheckClosed
  <2>1. Typed'
    BY <1>3 DEF CheckClosed, IInv, Typed, Checkers
  <2> QED
    BY <1>3, <2>1, SameBuckets DEF CheckClosed, IInv, CreatesOK
<1>4. CASE doCheck
  <2>1. Typed'
    BY <1>4 DEF doCheck, IInv, Typed, Checkers
  <2> QED
    BY <1>4, <2>1, SameBuckets DEF doCheck, IInv, CreatesOK
<1>5. CASE doClear
  <2>1. Good(swept(db)) /\ Within(swept(db))
    BY SweptOK, FewerWithin DEF IInv
  <2>2. Typed' /\ CreatesOK'
    BY <1>5 DEF doClear, IInv, Typed, CreatesOK
  <2> QED
    BY <1>5, <2>1, <2>2 DEF doClear, IInv, Within
<1>6. CASE ClearClosed
  <2>1. Typed'
    BY <1>6 DEF ClearClosed, IInv, Typed
  <2> QED
    BY <1>6, <2>1, SameBuckets DEF ClearClosed, IInv, CreatesOK
<1> QED
  BY <1>1, <1>2, <1>3, <1>4, <1>5, <1>6 DEF Check, Sweep

\* Calls that never reach the mutex of an open provider.
LEMMA BeginStep == ASSUME IInv, NEW c \in Clients, Begin(c) PROVE IInv'
<1> USE DEF instance, goroutines
<1>0. Good(db) /\ Within(db) /\ \A e \in Errors : Err(e) \in Answers
  BY ErrType DEF IInv
<1>1. CASE ClearRefused(c)
  <2>1. Typed'
    BY <1>0, <1>1 DEF ClearRefused, IInv, Typed, Errors
  <2> QED
    BY <1>1, <2>1, SameBuckets DEF ClearRefused, IInv, CreatesOK
<1>2. ASSUME NEW p \in Minted, NEW kv \in NewData, CreateCall(c, p, kv)
      PROVE  IInv'
  <2> DEFINE r == [op |-> "create", t |-> newTokenValue(p, kv, now)]
  <2>1. kv \in Data /\ now \in Nat
    BY BoltAssumption DEF IInv, Typed
  <2>2. newTokenValue(p, kv, now) \in TokenValue
    BY <2>1, MintFacts
  <2>3. r \in Calls
    BY <2>2 DEF Calls
  <2>4. /\ call' = [call EXCEPT ![c] = r]
        /\ UNCHANGED <<db, maxSize, done, leaked, reopens, now, answer, ch, checker, clearer>>
    BY <1>2 DEF CreateCall, Becomes
  <2> HIDE DEF r
  <2>5. Typed'
    BY <2>3, <2>4 DEF IInv, Typed
  <2>6. CreatesOK'
    <3> SUFFICES ASSUME NEW d \in Clients, call'[d].op = "create"
                 PROVE  \E q \in Minted, l \in Data, at \in 0..now :
                            call'[d].t = newTokenValue(q, l, at)
      BY <2>4 DEF CreatesOK
    <3>1. CASE d = c
      <4>1. call'[d].t = newTokenValue(p, kv, now)
        BY <2>4, <3>1 DEF r, IInv, Typed
      <4>2. now \in 0..now
        BY <2>1
      <4> QED
        BY <2>1, <4>1, <4>2
    <3>2. CASE d # c
      <4>1. call'[d] = call[d]
        BY <2>4, <3>2 DEF IInv, Typed
      <4> QED
        BY <4>1 DEF IInv, CreatesOK
    <3> QED
      BY <3>1, <3>2
  <2> QED
    BY <2>4, <2>5, <2>6, SameBuckets
<1>3. ASSUME NEW t \in Tokens, Reject(c, t)
      PROVE  IInv'
  BY <1>0, <1>3, ReturnOK DEF Reject, Errors
<1>4. CASE RefreshReject(c)
  BY <1>0, <1>4, ReturnOK DEF RefreshReject, Errors
<1> QED
  BY <1>1, <1>2, <1>3, <1>4 DEF Begin

\* Calls on a closed provider, or one whose mutex is leaked.
LEMMA OtherStep == ASSUME IInv, NEW c \in Clients, Refuse(c) \/ Block(c) PROVE IInv'
<1> USE DEF instance, goroutines
<1>1. CASE Refuse(c)
  <2>1. call' \in [Clients -> Calls] /\ CreatesOK'
    BY <1>1, BecomesOK, CallTypes DEF Refuse
  <2>2. answer' \in Answers
    BY <1>1, ErrType DEF Refuse, Errors
  <2>3. Typed'
    BY <1>1, <2>1, <2>2 DEF Refuse, IInv, Typed
  <2> QED
    BY <1>1, <2>1, <2>3, SameBuckets DEF Refuse
<1>2. CASE Block(c)
  <2>1. call' \in [Clients -> Calls] /\ CreatesOK'
    BY <1>2, BecomesOK, CallTypes DEF Block
  <2>2. Typed'
    BY <1>2, <2>1 DEF Block, IInv, Typed
  <2> QED
    BY <1>2, <2>1, <2>2, SameBuckets DEF Block
<1> QED
  BY <1>1, <1>2

\* Calls that are over in one transaction.
LEMMA TransactionStep == ASSUME IInv, NEW c \in Clients, Transaction(c) PROVE IInv'
<1> DEFINE stored == DOMAIN db.metadata
<1>0. /\ Good(db) /\ Within(db) /\ SameSessions(db, db)
      /\ now \in Nat /\ \A e \in Errors : Err(e) \in Answers
      /\ db.seq \in Nat
  BY ErrType DEF IInv, Typed, Good, SameSessions
<1>1. CASE Close(c)
  <2>1. Typed'
    BY <1>0, <1>1 DEF Close, IInv, Typed, goroutines, Errors
  <2> QED
    BY <1>1, <2>1, SameBuckets DEF Close, IInv, CreatesOK
<1>2. CASE Clear(c)
  BY <1>0, <1>2, EmptyOK, ReturnOK DEF Clear, Errors
<1>3. ASSUME NEW id \in Ids, Destroy(c, id)
      PROVE  IInv'
  BY <1>0, <1>3, UnsafeDestroyOK, ReturnFewer DEF Destroy, Errors
<1>4. ASSUME NEW t \in Tokens, DestroyByToken(c, t)
      PROVE  IInv'
  BY <1>0, <1>4, DestoryTokenOK, ReturnFewer DEF DestroyByToken, Errors
<1>5. ASSUME NEW t \in Tokens, Missed(c, t)
      PROVE  IInv'
  BY <1>0, <1>5, DestoryTokenOK, ReturnFewer DEF Missed, Errors
<1>6. ASSUME NEW t \in Tokens, ReadMissing(c, t)
      PROVE  IInv'
  <2>1. call' \in [Clients -> Calls] /\ CreatesOK'
    <3>1. CASE t \in stored
      BY <1>6, <3>1, BecomesOK, CallTypes DEF ReadMissing, instance
    <3>2. CASE t \notin stored
      BY <1>6, <3>2 DEF ReadMissing, instance, IInv, Typed, CreatesOK
    <3> QED
      BY <3>1, <3>2
  <2>2. Typed'
    BY <1>0, <1>6, <2>1 DEF ReadMissing, IInv, Typed, instance, goroutines, Errors
  <2> QED
    BY <1>6, <2>1, <2>2, SameBuckets DEF ReadMissing
<1>7. ASSUME NEW t \in Tokens, NEW r \in ReadOps, Read(c, t, r)
      PROVE  IInv'
  <2> DEFINE a == IF IsExpired(db.metadata[t], now) THEN Err("ErrTokenExpired")
                  ELSE Answer(Session(db, t), r)
  <2>1. a \in Answers
    <3>1. Session(db, t) \in TokenValue
      BY <1>0, <1>7, SessionType DEF Read, Live
    <3> QED
      BY <1>0, <3>1, AnswerType DEF Errors
  <2>2. Return(db, a)
    BY <1>7 DEF Read
  <2> HIDE DEF a
  <2> QED
    BY <1>0, <2>1, <2>2, ReturnOK
<1>8. ASSUME NEW t \in Tokens, NEW kv \in Data, Update(c, t, kv)
      PROVE  IInv'
  <2>1. CASE IsExpired(db.metadata[t], now)
    <3>1. Return(db, Err("ErrTokenExpired"))
      BY <1>8, <2>1 DEF Update
    <3> QED
      BY <1>0, <3>1, ReturnOK DEF Errors
  <2>2. CASE ~IsExpired(db.metadata[t], now)
    <3> DEFINE e == [db EXCEPT !.data = With(@, t, kv)]
    <3>1. Return(e, Err("nil"))
      BY <1>8, <2>2 DEF Update
    <3>2. Good(e) /\ e.metadata = db.metadata
      BY <1>0, <1>8, UpdateOK DEF Update, Live
    <3> HIDE DEF e
    <3>3. Within(e)
      BY <1>0, <3>2 DEF Within
    <3> QED
      BY <1>0, <3>1, <3>2, <3>3, ReturnOK DEF Errors
  <2> QED
    BY <2>1, <2>2
<1>9. ASSUME NEW t \in Tokens, NEW kv \in Data, Put(c, t, kv)
      PROVE  IInv'
  <2>1. SetCopy(Session(db, t), kv).data \in Data
    <3>1. SetCopy(Session(db, t), kv) \in TokenValue
      BY <1>0, <1>9, SessionType, WriteFacts DEF Put
    <3> QED
      BY <3>1 DEF TokenValue
  <2> QED
    BY <1>8, <1>9, <2>1 DEF Put
<1>10. ASSUME NEW t \in Tokens, NEW ks \in SUBSET Keys, Delete(c, t, ks)
       PROVE  IInv'
  <2>1. DeleteKeys(Session(db, t), ks).data \in Data
    <3>1. DeleteKeys(Session(db, t), ks) \in TokenValue
      BY <1>0, <1>10, SessionType, WriteFacts DEF Delete
    <3> QED
      BY <3>1 DEF TokenValue
  <2> QED
    BY <1>8, <1>10, <2>1 DEF Delete
<1>11. ASSUME NEW t \in Tokens, NEW r \in Tokens, NEW p \in Minted, Refresh(c, t, r, p)
       PROVE  IInv'
  <2>1. CASE db.metadata[t].refresh # r
    <3>1. Return(db, Err("ErrRefreshTokenNotMatched"))
      BY <1>11, <2>1 DEF Refresh
    <3> QED
      BY <1>0, <3>1, ReturnOK DEF Errors
  <2>2. CASE db.metadata[t].refresh = r
    <3> DEFINE u == Refreshed(Session(db, t), p, now)
               e == store(delete(db, t), u)
    <3>1. t \in stored /\ Return(e, Err("nil")) /\ checkID(t, r, p)
          /\ (p[1] = t \/ p[1] \notin stored)
      BY <1>11, <2>2 DEF Refresh, Live
    <3>2. u \in TokenValue /\ u.access = p[1] /\ u.id = IdOf[t]
      BY <1>0, <3>1, SessionType, MintFacts
    <3>3. IdOf[p[1]] = IdOf[t]
      BY <3>1 DEF checkID
    <3> HIDE DEF u
    <3>4. Good(e) /\ DOMAIN e.metadata = (stored \ {t}) \cup {u.access}
      BY <1>0, <3>1, <3>2, <3>3, RefreshOK
    <3> HIDE DEF e
    <3>5. Cardinality(DOMAIN e.metadata) = Cardinality(stored)
      <4>1. IsFiniteSet(stored) /\ Cardinality(stored) \in Nat
        BY <1>0, StoredFinite, FS_CardinalityType
      <4>2. IsFiniteSet(stored \ {t}) /\ Cardinality(stored \ {t}) = Cardinality(stored) - 1
        BY <3>1, <4>1, FS_RemoveElement
      <4>3. u.access \notin stored \ {t}
        BY <3>1, <3>2
      <4>4. Cardinality((stored \ {t}) \cup {u.access}) = Cardinality(stored \ {t}) + 1
        BY <4>2, <4>3, FS_AddElement
      <4> QED
        BY <3>4, <4>1, <4>2, <4>4
    <3>6. Within(e)
      BY <1>0, <3>5 DEF Within
    <3> QED
      BY <1>0, <3>1, <3>4, <3>6, ReturnOK DEF Errors
  <2> QED
    BY <2>1, <2>2
<1> QED
  BY <1>1, <1>2, <1>3, <1>4, <1>5, <1>6, <1>7, <1>9, <1>10, <1>11 DEF Transaction

\* A Create in progress brings a session value with the id of its token.
LEMMA CreateValue ==
    ASSUME IInv, NEW c \in Clients, call[c].op = "create"
    PROVE  \E p \in Minted, kv \in Data, at \in 0..now :
              /\ call[c].t = newTokenValue(p, kv, at)
              /\ call[c].t \in TokenValue
              /\ call[c].t.access = p[1] /\ call[c].t.id = IdOf[call[c].t.access]
<1>1. PICK p \in Minted, kv \in Data, at \in 0..now : call[c].t = newTokenValue(p, kv, at)
  BY DEF IInv, CreatesOK
<1>2. at \in Nat
  BY DEF IInv, Typed
<1>3. /\ newTokenValue(p, kv, at) \in TokenValue
      /\ newTokenValue(p, kv, at).access = p[1]
      /\ newTokenValue(p, kv, at).id = IdOf[p[1]]
  BY <1>2, MintFacts
<1> QED
  BY <1>1, <1>3

\* Calls that get on.
LEMMA ProgressStep == ASSUME IInv, NEW c \in Clients, Progress(c) PROVE IInv'
<1> USE DEF instance, goroutines
<1>0. Good(db) /\ Within(db) /\ maxSize \in Int /\ Err("nil") \in Answers
  BY ErrType, BoltAssumption DEF IInv, Typed, Errors
<1>1. CASE CreateLate(c)
  <2>1. call' \in [Clients -> Calls] /\ CreatesOK'
    BY <1>1, BecomesOK, CallTypes DEF CreateLate
  <2>2. Typed'
    BY <1>0, <1>1, <2>1 DEF CreateLate, IInv, Typed
  <2> QED
    BY <1>1, <2>1, <2>2, SameBuckets DEF CreateLate
<1>2. CASE Create(c)
  <2> DEFINE s == call[c].t
             others == DOMAIN db.metadata \ {s.access}
  <2>1. call' \in [Clients -> Calls] /\ CreatesOK'
    BY <1>2, BecomesOK, CallTypes DEF Create
  <2>2. Typed'
    BY <1>0, <1>2, <2>1 DEF Create, IInv, Typed
  <2>3. db' = store(MakeRoom(destoryToken(db, s.access)), s)
    BY <1>2 DEF Create
  <2>4. s \in TokenValue /\ s.id = IdOf[s.access]
    BY <1>2, CreateValue DEF Create
  <2> HIDE DEF s
  <2>5. /\ Good(db')
        /\ \E kept \in SUBSET others :
              /\ IF maxSize > 0 /\ Cardinality(others) >= maxSize
                 THEN \E v \in others : kept = others \ {v}
                 ELSE kept = others
              /\ DOMAIN db'.metadata = kept \cup {s.access}
    BY <1>0, <2>3, <2>4, CreateOK DEF Makes
  <2>6. Within(db')
    <3> SUFFICES ASSUME MaxSize = ReopenSize, MaxSize > 0
                 PROVE  Cardinality(DOMAIN db'.metadata) <= MaxSize
      BY DEF Within
    <3>1. maxSize = MaxSize /\ MaxSize \in Nat
      BY BoltAssumption DEF IInv, Typed
    <3>2. IsFiniteSet(others) /\ Cardinality(others) \in Nat /\ Cardinality(others) <= MaxSize
      <4>1. IsFiniteSet(DOMAIN db.metadata) /\ Cardinality(DOMAIN db.metadata) <= MaxSize
        BY <1>0, StoredFinite DEF Within
      <4>2. IsFiniteSet(others) /\ Cardinality(others) <= Cardinality(DOMAIN db.metadata)
        BY <4>1, FS_Subset
      <4> QED
        BY <3>1, <4>1, <4>2, FS_CardinalityType
    <3>3. PICK kept \in SUBSET others :
            /\ IF maxSize > 0 /\ Cardinality(others) >= maxSize
               THEN \E v \in others : kept = others \ {v}
               ELSE kept = others
            /\ DOMAIN db'.metadata = kept \cup {s.access}
      BY <2>5
    <3> HIDE DEF others
    <3>4. IsFiniteSet(kept) /\ Cardinality(kept) \in Nat /\ Cardinality(kept) < MaxSize
      <4>1. CASE Cardinality(others) >= maxSize
        <5>1. PICK v \in others : kept = others \ {v}
          BY <3>1, <3>3, <4>1
        <5>2. IsFiniteSet(kept) /\ Cardinality(kept) = Cardinality(others) - 1
          BY <3>2, <5>1, FS_RemoveElement
        <5> QED
          BY <3>1, <3>2, <5>2, FS_CardinalityType
      <4>2. CASE ~(Cardinality(others) >= maxSize)
        BY <3>1, <3>2, <3>3, <4>2
      <4> QED
        BY <4>1, <4>2
    <3>5. Cardinality(kept \cup {s.access}) <= Cardinality(kept) + 1
          /\ Cardinality(kept \cup {s.access}) \in Nat
      <4>1. IsFiniteSet(kept \cup {s.access})
            /\ Cardinality(kept \cup {s.access}) =
                 IF s.access \in kept THEN Cardinality(kept) ELSE Cardinality(kept) + 1
        BY <3>4, FS_AddElement
      <4> QED
        BY <3>4, <4>1
    <3> QED
      BY <3>1, <3>3, <3>4, <3>5
  <2> QED
    BY <2>1, <2>2, <2>5, <2>6 DEF IInv, Within
<1>3. CASE Send(c)
  <2>1. call' \in [Clients -> Calls] /\ CreatesOK'
    BY <1>3, BecomesOK, CallTypes DEF Send
  <2>2. call[c].token \in Tokens
    BY <1>3 DEF Send, IInv, Typed, Calls
  <2>3. ch' \in Seq(Tokens)
    BY <1>3, <2>2 DEF Send, IInv, Typed
  <2>4. Typed'
    BY <1>3, <2>1, <2>3 DEF Send, IInv, Typed
  <2> QED
    BY <1>3, <2>1, <2>4, SameBuckets DEF Send
<1>4. CASE SendClosed(c)
  <2>1. call' \in [Clients -> Calls] /\ CreatesOK'
    BY <1>4, BecomesOK, CallTypes DEF SendClosed
  <2>2. Typed'
    BY <1>4, <2>1 DEF SendClosed, IInv, Typed
  <2> QED
    BY <1>4, <2>1, <2>2, SameBuckets DEF SendClosed
<1> QED
  BY <1>1, <1>2, <1>3, <1>4 DEF Progress

\* Every step keeps the invariant.
LEMMA StepIInv == IInv /\ [Next]_vars => IInv'
<1> SUFFICES ASSUME IInv, [Next]_vars PROVE IInv'
  OBVIOUS
<1>1. CASE UNCHANGED vars
  BY <1>1 DEF vars, IInv, Typed, CreatesOK, Within
<1>2. CASE Next
  BY <1>2, TickStep, ReopenStep, GoroutineStep, BeginStep, TransactionStep,
     OtherStep, ProgressStep DEF Next
<1> QED
  BY <1>1, <1>2

\* So it always holds.
LEMMA InvariantHolds == Spec => []IInv
BY InitIInv, StepIInv, PTL DEF Spec

\* TypeOK: the variables of the provider keep their types, for any number of
\* clients, sessions and openings of the file.
THEOREM TypeCorrect == Spec => []TypeOK
BY InvariantHolds, InvProperties, PTL

\* BucketsAgree: every transaction leaves the four buckets and the count with
\* the same sessions.
THEOREM BucketsStayInStep == Spec => []BucketsAgree
BY InvariantHolds, InvProperties, PTL

\* WithinMaxSize: a Create that finds the file full makes room first, so that
\* a limit that never changed is never passed.
THEOREM LimitKept == Spec => []WithinMaxSize
BY InvariantHolds, InvProperties, PTL

-----------------------------------------------------------------------------
(* The sessions of Provider.                                               *)

\* Provider's names are Bolt's.
LEMMA AbstractNames ==
    /\ Abstract!Empty = Empty
    /\ Abstract!ReadOps = ReadOps
    /\ \A f, D : Abstract!Restrict(f, D) = Restrict(f, D)
    /\ \A f, x : Abstract!Without(f, x) = Without(f, x)
    /\ \A f, x, y : Abstract!With(f, x, y) = With(f, x, y)
    /\ \A e : Abstract!Err(e) = Err(e)
    /\ \A u, at : Abstract!IsExpired(u, at) = IsExpired(u, at)
    /\ \A u, at : Abstract!IsDeleted(u, at) = IsDeleted(u, at)
    /\ \A u, r : Abstract!Answer(u, r) = Answer(u, r)
    /\ \A u, kv : Abstract!SetCopy(u, kv) = SetCopy(u, kv)
    /\ \A u, ks : Abstract!DeleteKeys(u, ks) = DeleteKeys(u, ks)
    /\ \A p, kv, at : Abstract!newTokenValue(p, kv, at) = newTokenValue(p, kv, at)
    /\ \A u, p, at : Abstract!Refreshed(u, p, at) = Refreshed(u, p, at)
    /\ Abstract!Data = Data
BY DEF Abstract!Data, Data, Abstract!Partial, Partial, Abstract!Empty, Empty,
       Abstract!Restrict, Restrict, Abstract!Without, Without, Abstract!With, With,
       Abstract!Err, Err, Abstract!IsExpired, IsExpired, Abstract!IsDeleted, IsDeleted,
       Abstract!Answer, Answer, Abstract!CopyKeys, CopyKeys, Abstract!SetCopy, SetCopy,
       Abstract!Override, Override, Abstract!DeleteKeys, DeleteKeys,
       Abstract!newTokenValue, newTokenValue, Abstract!Refreshed, Refreshed,
       Abstract!ReadOps, ReadOps

\* Provider counts sessions as Bolt counts keys.
LEMMA AbstractCount == \A S : Abstract!Cardinality(S) = Cardinality(S)
BY DEF Abstract!Cardinality, Cardinality

\* What the buckets hold, seen as Provider's sessions.
abs == [t \in IF done THEN {} ELSE DOMAIN db.metadata |-> Session(db, t)]

absVars == <<abs, done, answer, now>>

\* What leaves these four alone is no step of Provider.
LEMMA Stutter == UNCHANGED absVars => UNCHANGED Abstract!vars
BY DEF absVars, abs, Abstract!vars

\* Reject.
LEMMA Rejects ==
    ASSUME abs' = abs, UNCHANGED <<done, now>>,
           answer' \in {Err("ErrTokenInvalid"), Err("ErrTokenIDNotMatched")}
    PROVE  Abstract!Next
BY AbstractNames DEF Abstract!Next, Abstract!Reject, Abstract!Answered, abs

\* Refuse.
LEMMA Refuses ==
    ASSUME abs' = abs, UNCHANGED <<done, now>>, done, answer' = Err("ErrProviderClosed")
    PROVE  Abstract!Next
BY AbstractNames DEF Abstract!Next, Abstract!Refuse, Abstract!Answered, abs

\* NotExists.
LEMMA Misses ==
    ASSUME ~done, UNCHANGED <<done, now>>, NEW t \in Tokens,
           t \in DOMAIN abs => IsDeleted(abs[t], now),
           abs' = abs \/ abs' = Without(abs, t), answer' = Err("ErrTokenNotExists")
    PROVE  Abstract!Next
BY AbstractNames DEF Abstract!Next, Abstract!NotExists, Abstract!Answered, abs

\* DestroyByToken.
LEMMA DestroysByToken ==
    ASSUME ~done, UNCHANGED <<done, now>>, NEW t \in Tokens,
           abs' = Without(abs, t), answer' = Err("nil")
    PROVE  Abstract!Next
BY AbstractNames DEF Abstract!Next, Abstract!DestroyByToken, Abstract!Answered, abs

\* Read.
LEMMA Reads ==
    ASSUME ~done, UNCHANGED <<done, now>>, NEW t \in DOMAIN abs, NEW r \in ReadOps,
           ~IsDeleted(abs[t], now), abs' = abs,
           answer' = IF IsExpired(abs[t], now) THEN Err("ErrTokenExpired")
                     ELSE Answer(abs[t], r)
    PROVE  Abstract!Next
BY AbstractNames DEF Abstract!Next, Abstract!Read, Abstract!Answered, abs

\* Put and Delete.
LEMMA Updates ==
    ASSUME ~done, UNCHANGED <<done, now>>, NEW t \in DOMAIN abs,
           ~IsDeleted(abs[t], now), NEW u,
           \/ \E kv \in Data : u = SetCopy(abs[t], kv)
           \/ \E ks \in SUBSET Keys : u = DeleteKeys(abs[t], ks),
           IF IsExpired(abs[t], now)
           THEN answer' = Err("ErrTokenExpired") /\ abs' = abs
           ELSE answer' = Err("nil") /\ abs' = [abs EXCEPT ![t] = u]
    PROVE  Abstract!Next
BY AbstractNames
   DEF Abstract!Next, Abstract!Put, Abstract!Delete, Abstract!Update, Abstract!Answered, abs

\* Refresh.
LEMMA Refreshes ==
    ASSUME ~done, UNCHANGED <<done, now>>, NEW t \in DOMAIN abs,
           ~IsDeleted(abs[t], now), NEW r \in Tokens, NEW p \in Minted,
           IF abs[t].refresh # r
           THEN answer' = Err("ErrRefreshTokenNotMatched") /\ abs' = abs
           ELSE /\ answer' = Err("nil")
                /\ abs' = With(Without(abs, t), p[1], Refreshed(abs[t], p, now))
    PROVE  Abstract!Next
BY AbstractNames DEF Abstract!Next, Abstract!Refresh, Abstract!Answered, abs

\* Purge.
LEMMA Purges ==
    ASSUME UNCHANGED <<done, answer, now>>, NEW kept \in SUBSET DOMAIN abs,
           \A t \in DOMAIN abs \ kept : IsDeleted(abs[t], now),
           abs' = Restrict(abs, kept)
    PROVE  Abstract!Next
<1> DEFINE gone == DOMAIN abs \ kept
<1>1. gone \in SUBSET {t \in DOMAIN abs : IsDeleted(abs[t], now)} /\ DOMAIN abs \ gone = kept
  OBVIOUS
<1>2. abs' = Restrict(abs, DOMAIN abs \ gone)
  BY <1>1
<1> HIDE DEF gone
<1> QED
  BY <1>1, <1>2, AbstractNames DEF Abstract!Next, Abstract!Purge, abs

\* Tick.
LEMMA Ticks ==
    ASSUME abs' = abs, UNCHANGED <<done, answer>>, now < MaxTime, now' = now + 1
    PROVE  Abstract!Next
BY DEF Abstract!Next, Abstract!Tick, abs

\* Close.
LEMMA Closes ==
    ASSUME ~done, done', abs' = Empty, answer' = Err("nil"), now' = now
    PROVE  Abstract!Next
BY AbstractNames DEF Abstract!Next, Abstract!Close, abs

\* Destroy.
LEMMA Destroys ==
    ASSUME ~done, UNCHANGED <<done, now>>, answer' = Err("nil"), NEW id \in Ids,
           abs' = Restrict(abs, {t \in DOMAIN abs : abs[t].id # id})
    PROVE  Abstract!Next
BY AbstractNames
   DEF Abstract!Next, Abstract!Destroy, Abstract!RestrictDomain, Abstract!Restrict, Restrict,
       Abstract!Answered, abs

\* CreateLate.
LEMMA CreatesLate ==
    ASSUME UNCHANGED <<done, now>>, abs' = abs, answer' = Err("nil"),
           NEW at \in 0..now, at + RefreshTTL <= now
    PROVE  Abstract!Next
BY AbstractNames DEF Abstract!Next, Abstract!CreateLate, Abstract!Answered, abs

\* Create, where kept are the other sessions that stay.
LEMMA Creates ==
    ASSUME ~done, UNCHANGED <<done, now>>, answer' = Err("nil"),
           NEW p \in Minted, NEW kv \in Data, NEW at \in 0..now,
           NEW kept \in SUBSET (DOMAIN abs \ {p[1]}),
           IF MaxSize > 0 /\ Cardinality(DOMAIN abs \ {p[1]}) >= MaxSize
           THEN \E v \in DOMAIN abs \ {p[1]} : kept = (DOMAIN abs \ {p[1]}) \ {v}
           ELSE kept = DOMAIN abs \ {p[1]},
           abs' = With(Restrict(abs, kept), p[1], newTokenValue(p, kv, at))
    PROVE  Abstract!Next
<1>1. IF MaxSize > 0 /\ Cardinality(DOMAIN abs \ {p[1]}) >= MaxSize
      THEN \E v \in DOMAIN abs \ {p[1]} : kept = (DOMAIN abs \ {p[1]}) \ {v}
      ELSE kept = DOMAIN abs \ {p[1]}
  OBVIOUS
<1>2. abs' = Abstract!With(Abstract!Restrict(abs, kept), p[1], Abstract!newTokenValue(p, kv, at))
  BY AbstractNames
<1>3. answer' = Abstract!Err("nil")
  BY AbstractNames
<1>4. \E k \in SUBSET (DOMAIN abs \ {p[1]}) :
         /\ IF MaxSize > 0 /\ Abstract!Cardinality(DOMAIN abs \ {p[1]}) >= MaxSize
            THEN \E v \in DOMAIN abs \ {p[1]} : k = (DOMAIN abs \ {p[1]}) \ {v}
            ELSE k = DOMAIN abs \ {p[1]}
         /\ abs' = Abstract!With(Abstract!Restrict(abs, k), p[1],
                                 Abstract!newTokenValue(p, kv, at))
  <2> WITNESS kept \in SUBSET (DOMAIN abs \ {p[1]})
  <2> QED
    BY <1>1, <1>2, AbstractCount
<1>5. Abstract!Create(p, kv, at)
  BY <1>3, <1>4 DEF Abstract!Create, Abstract!Answered, abs
<1> QED
  BY <1>5, AbstractNames DEF Abstract!Next

-----------------------------------------------------------------------------
(* The buckets as the sessions of Provider.                                *)

View(d) == [t \in DOMAIN d.metadata |-> Session(d, t)]

\* An open provider shows all its buckets hold.
LEMMA OpenView ==
    /\ ~done => abs = View(db)
    /\ ~done' => abs' = View(db')
BY DEF abs, View

\* Sessions gone, and no other change.
LEMMA FewerView ==
    ASSUME NEW d, NEW e, SameSessions(d, e)
    PROVE  /\ DOMAIN e.metadata \subseteq DOMAIN View(d)
           /\ View(e) = Restrict(View(d), DOMAIN e.metadata)
<1>1. DOMAIN View(d) = DOMAIN d.metadata /\ DOMAIN e.metadata \subseteq DOMAIN d.metadata
  BY DEF View, SameSessions
<1>2. \A t \in DOMAIN e.metadata : View(d)[t] = Session(e, t)
  BY <1>1, SameSessionsView DEF View
<1> HIDE DEF View
<1>3. Restrict(View(d), DOMAIN e.metadata) = [t \in DOMAIN e.metadata |-> Session(e, t)]
  BY <1>2 DEF Restrict
<1> QED
  BY <1>1, <1>3 DEF View

\* A token and its session gone.
LEMMA DestoryTokenView ==
    ASSUME NEW d, Good(d), NEW t
    PROVE  View(destoryToken(d, t)) = Without(View(d), t)
<1>1. SameSessions(d, destoryToken(d, t))
      /\ DOMAIN destoryToken(d, t).metadata = DOMAIN View(d) \ {t}
  BY DestoryTokenOK DEF View
<1> QED
  BY <1>1, FewerView DEF Without

\* The fields of a stored session that decide what a call does.
LEMMA ViewFacts ==
    ASSUME NEW t
    PROVE  /\ t \in DOMAIN View(db) <=> t \in DOMAIN db.metadata
           /\ t \in DOMAIN db.metadata =>
                 /\ View(db)[t] = Session(db, t)
                 /\ IsDeleted(View(db)[t], now) <=> IsDeleted(db.metadata[t], now)
                 /\ IsExpired(View(db)[t], now) <=> IsExpired(db.metadata[t], now)
                 /\ View(db)[t].refresh = db.metadata[t].refresh
                 /\ View(db)[t].id = db.metadata[t].id
BY DEF View, Session, IsDeleted, IsExpired

\* What the steps are allowed to be.
Refined == [Abstract!Next \/ Reopen \/ \E c \in Clients : Clear(c)]_(Abstract!vars)

\* A call that is over in one transaction.
LEMMA Transacted ==
    ASSUME NEW c \in Clients, Enter(c), NEW d, NEW a, Return(d, a)
    PROVE  /\ ~done /\ UNCHANGED <<done, now>> /\ answer' = a /\ db' = d
           /\ abs = View(db) /\ abs' = View(d)
<1>1. ~done /\ UNCHANGED <<done, now>> /\ answer' = a /\ db' = d
  BY DEF Enter, Return, instance
<1> QED
  BY <1>1, OpenView

\* Buckets and flag as they were.
LEMMA Unseen == db' = db /\ done' = done => abs' = abs
BY DEF abs

\* One session is stored under a, and kept are the others that stay.
LEMMA ViewStored ==
    ASSUME NEW d, NEW e, NEW kept \in SUBSET DOMAIN d.metadata, NEW a, NEW u,
           DOMAIN e.metadata = kept \cup {a},
           \A t \in kept : Session(e, t) = Session(d, t),
           Session(e, a) = u
    PROVE  View(e) = With(Restrict(View(d), kept), a, u)
<1>1. View(e) = [t \in kept \cup {a} |-> IF t = a THEN u ELSE Session(d, t)]
  BY DEF View
<1>2. \A t \in kept : View(d)[t] = Session(d, t)
  BY DEF View
<1> HIDE DEF View
<1>3. Restrict(View(d), kept) = [t \in kept |-> Session(d, t)]
  BY <1>2 DEF Restrict
<1>4. With(Restrict(View(d), kept), a, u)
        = [t \in kept \cup {a} |-> IF t = a THEN u ELSE Session(d, t)]
  BY <1>3 DEF With
<1> QED
  BY <1>1, <1>4

\* Put and Delete change the data of one session.
LEMMA ViewUpdate ==
    ASSUME NEW d, Good(d), NEW t \in DOMAIN d.metadata, NEW kv \in Data
    PROVE  View([d EXCEPT !.data = With(@, t, kv)])
              = [View(d) EXCEPT ![t] = [Session(d, t) EXCEPT !.data = kv]]
<1> DEFINE e == [d EXCEPT !.data = With(@, t, kv)]
           u == [Session(d, t) EXCEPT !.data = kv]
<1>1. e.metadata = d.metadata /\ e.data = With(d.data, t, kv)
  BY UpdateOK
<1>2. DOMAIN d.data = DOMAIN d.metadata
  BY DEF Good
<1> HIDE DEF e
<1>3. /\ e.data[t] = kv
      /\ \A x \in DOMAIN d.metadata \ {t} : e.data[x] = d.data[x]
  BY <1>1, <1>2 DEF With
<1>4. Session(e, t) = u
  BY <1>1, <1>3 DEF Session
<1>5. \A x \in DOMAIN d.metadata \ {t} : Session(e, x) = Session(d, x)
  BY <1>1, <1>3 DEF Session
<1> HIDE DEF u
<1>6. View(e) = [x \in DOMAIN d.metadata |-> IF x = t THEN u ELSE Session(d, x)]
  BY <1>1, <1>4, <1>5 DEF View
<1>7. [View(d) EXCEPT ![t] = u]
        = [x \in DOMAIN d.metadata |-> IF x = t THEN u ELSE Session(d, x)]
  BY DEF View
<1> QED
  BY <1>6, <1>7 DEF e, u

-----------------------------------------------------------------------------
(* The steps.                                                              *)

\* The goroutines purge what is past its refresh deadline, or go unseen.
LEMMA GoroutineRefines ==
    ASSUME IInv, Check \/ Sweep
    PROVE  Refined
<1>1. CASE doClear
  <2>1. ~done /\ UNCHANGED <<done, answer, now>> /\ db' = swept(db) /\ Good(db)
    BY <1>1 DEF doClear, instance, IInv
  <2> DEFINE kept == DOMAIN swept(db).metadata
  <2>2. /\ SameSessions(db, swept(db))
        /\ \A t \in DOMAIN db.metadata \ kept : IsDeleted(db.metadata[t], now)
    BY <2>1, SweptOK
  <2>3. abs = View(db) /\ abs' = Restrict(abs, kept) /\ kept \in SUBSET DOMAIN abs
    BY <2>1, <2>2, OpenView, FewerView
  <2>4. \A t \in DOMAIN abs \ kept : IsDeleted(abs[t], now)
    BY <2>2, <2>3, ViewFacts
  <2> HIDE DEF kept
  <2> QED
    BY <2>1, <2>3, <2>4, Purges DEF Refined
<1>2. CASE Check \/ ClearClosed
  <2>1. abs' = abs /\ UNCHANGED <<done, answer, now>>
    BY <1>2, Unseen
       DEF Check, CheckRead, CheckMerged, CheckClosed, doCheck, ClearClosed, instance
  <2> QED
    BY <2>1, Stutter DEF absVars, Refined
<1> QED
  BY <1>1, <1>2 DEF Sweep

\* What a call does without the mutex of an open provider.
LEMMA OutsideRefines ==
    ASSUME NEW c \in Clients, Begin(c) \/ Refuse(c) \/ Block(c)
    PROVE  Refined
<1>1. CASE ClearRefused(c) \/ Refuse(c)
  <2>1. /\ abs' = abs /\ UNCHANGED <<done, now>> /\ done
        /\ answer' = Err("ErrProviderClosed")
    BY <1>1, Unseen DEF ClearRefused, Refuse, instance
  <2> QED
    BY <2>1, Refuses DEF Refined
<1>2. CASE Block(c) \/ \E p \in Minted, kv \in NewData : CreateCall(c, p, kv)
  <2>1. abs' = abs /\ UNCHANGED <<done, answer, now>>
    BY <1>2, Unseen DEF Block, CreateCall, instance
  <2> QED
    BY <2>1, Stutter DEF absVars, Refined
<1>3. CASE (\E t \in Tokens : Reject(c, t)) \/ RefreshReject(c)
  <2>1. /\ abs' = abs /\ UNCHANGED <<done, now>>
        /\ answer' \in {Err("ErrTokenInvalid"), Err("ErrTokenIDNotMatched")}
    BY <1>3, Unseen DEF Reject, RefreshReject, Return, instance
  <2> QED
    BY <2>1, Rejects DEF Refined
<1> QED
  BY <1>1, <1>2, <1>3 DEF Begin

\* Put and Delete.
LEMMA UpdateRefines ==
    ASSUME IInv, NEW c \in Clients, NEW t \in DOMAIN db.metadata, NEW u,
           u.data \in Data, u = [Session(db, t) EXCEPT !.data = u.data],
           Update(c, t, u.data),
           \/ \E kv \in Data : u = SetCopy(Session(db, t), kv)
           \/ \E ks \in SUBSET Keys : u = DeleteKeys(Session(db, t), ks)
    PROVE  Refined
<1>1. Good(db) /\ Enter(c) /\ Live(db, t) /\ t \in Tokens
  BY SessionType DEF Update, IInv
<1>2. /\ ~done /\ UNCHANGED <<done, now>> /\ abs = View(db)
      /\ IF IsExpired(db.metadata[t], now)
         THEN answer' = Err("ErrTokenExpired") /\ abs' = abs
         ELSE answer' = Err("nil") /\ abs' = [abs EXCEPT ![t] = u]
  <2>1. CASE IsExpired(db.metadata[t], now)
    <3>1. Return(db, Err("ErrTokenExpired"))
      BY <2>1 DEF Update
    <3> QED
      BY <1>1, <2>1, <3>1, Transacted
  <2>2. CASE ~IsExpired(db.metadata[t], now)
    <3> DEFINE kv == u.data
               e == [db EXCEPT !.data = With(@, t, kv)]
    <3>1. Return(e, Err("nil"))
      BY <2>2 DEF Update
    <3>2. View(e) = [View(db) EXCEPT ![t] = u]
      BY <1>1, ViewUpdate
    <3> HIDE DEF e
    <3> QED
      BY <1>1, <2>2, <3>1, <3>2, Transacted
  <2> QED
    BY <2>1, <2>2
<1>3. /\ t \in DOMAIN abs /\ abs[t] = Session(db, t) /\ ~IsDeleted(abs[t], now)
      /\ IsExpired(abs[t], now) <=> IsExpired(db.metadata[t], now)
  BY <1>1, <1>2, ViewFacts DEF Live
<1>4. \/ \E kv \in Data : u = SetCopy(abs[t], kv)
      \/ \E ks \in SUBSET Keys : u = DeleteKeys(abs[t], ks)
  BY <1>3
<1> HIDE DEF abs
<1> QED
  BY <1>2, <1>3, <1>4, Updates DEF Refined

\* Refresh takes the session out and stores it under its new tokens.
LEMMA RefreshRefines ==
    ASSUME IInv, NEW c \in Clients, NEW t \in Tokens, NEW r \in Tokens,
           NEW p \in Minted, Refresh(c, t, r, p)
    PROVE  Refined
<1>1. Good(db) /\ Enter(c) /\ t \in DOMAIN db.metadata /\ ~IsDeleted(db.metadata[t], now)
      /\ now \in Nat
  BY DEF Refresh, Live, IInv, Typed
<1>2. CASE db.metadata[t].refresh # r
  <2>1. Return(db, Err("ErrRefreshTokenNotMatched"))
    BY <1>2 DEF Refresh
  <2>2. /\ ~done /\ UNCHANGED <<done, now>> /\ abs = View(db) /\ abs' = abs
        /\ answer' = Err("ErrRefreshTokenNotMatched")
    BY <1>1, <2>1, Transacted
  <2>3. t \in DOMAIN abs /\ ~IsDeleted(abs[t], now) /\ abs[t].refresh # r
    BY <1>1, <1>2, <2>2, ViewFacts
  <2> HIDE DEF abs
  <2> QED
    BY <2>2, <2>3, Refreshes DEF Refined
<1>3. CASE db.metadata[t].refresh = r
  <2> DEFINE u == Refreshed(Session(db, t), p, now)
             e == store(delete(db, t), u)
             rest == DOMAIN db.metadata \ {t}
  <2>1. Return(e, Err("nil")) /\ checkID(t, r, p)
        /\ (p[1] = t \/ p[1] \notin DOMAIN db.metadata)
    BY <1>3 DEF Refresh
  <2>2. u \in TokenValue /\ u.access = p[1] /\ u.id = IdOf[t]
    BY <1>1, SessionType, MintFacts
  <2>3. IdOf[p[1]] = IdOf[t]
    BY <2>1 DEF checkID
  <2>4. u = Refreshed(Session(db, t), p, now)
    OBVIOUS
  <2> HIDE DEF u
  <2>5. /\ DOMAIN e.metadata = rest \cup {p[1]}
        /\ \A x \in rest : Session(e, x) = Session(db, x)
        /\ Session(e, p[1]) = u
    BY <1>1, <2>1, <2>2, <2>3, RefreshOK
  <2> HIDE DEF e
  <2>6. View(e) = With(Restrict(View(db), rest), p[1], u)
    BY <2>5, ViewStored
  <2>7. Restrict(View(db), rest) = Without(View(db), t)
    BY DEF Without, View
  <2>8. /\ ~done /\ UNCHANGED <<done, now>> /\ abs = View(db) /\ abs' = View(e)
        /\ answer' = Err("nil")
    BY <1>1, <2>1, Transacted
  <2>9. /\ t \in DOMAIN abs /\ ~IsDeleted(abs[t], now) /\ abs[t].refresh = r
        /\ abs[t] = Session(db, t)
    BY <1>1, <1>3, <2>8, ViewFacts
  <2>10. abs' = With(Without(abs, t), p[1], Refreshed(abs[t], p, now))
    BY <2>4, <2>6, <2>7, <2>8, <2>9
  <2> HIDE DEF abs
  <2> QED
    BY <2>8, <2>9, <2>10, Refreshes DEF Refined
<1> QED
  BY <1>2, <1>3

\* A call that is over in one transaction is a step of Provider, or Clear.
LEMMA TransactionRefines ==
    ASSUME IInv, NEW c \in Clients, Transaction(c)
    PROVE  Refined
<1>0. Good(db)
  BY DEF IInv
<1>1. CASE Close(c)
  <2>1. ~done /\ done' /\ answer' = Err("nil") /\ now' = now
    BY <1>1 DEF Close, Enter
  <2>2. abs' = Empty
    BY <2>1 DEF abs, Empty
  <2> QED
    BY <2>1, <2>2, Closes DEF Refined
<1>2. CASE Clear(c)
  BY <1>2 DEF Refined
<1>3. ASSUME NEW id \in Ids, Destroy(c, id)
      PROVE  Refined
  <2> DEFINE kept == {t \in DOMAIN db.metadata : IdOf[t] # id}
             d == unsafeDestroy(db, id)
  <2>1. Enter(c) /\ Return(d, Err("nil"))
    BY <1>3 DEF Destroy
  <2>2. SameSessions(db, d) /\ DOMAIN d.metadata = kept
    BY <1>0, UnsafeDestroyOK
  <2> HIDE DEF d
  <2>3. /\ ~done /\ UNCHANGED <<done, now>> /\ abs = View(db) /\ abs' = View(d)
        /\ answer' = Err("nil")
    BY <2>1, Transacted
  <2>4. abs' = Restrict(abs, kept)
    BY <2>2, <2>3, FewerView
  <2>5. \A t \in DOMAIN db.metadata : View(db)[t].id = IdOf[t]
    BY <1>0, SessionType, ViewFacts
  <2>6. kept = {t \in DOMAIN View(db) : View(db)[t].id # id}
    BY <2>5, ViewFacts
  <2>7. kept = {t \in DOMAIN abs : abs[t].id # id}
    BY <2>3, <2>6
  <2> HIDE DEF kept, abs
  <2> QED
    BY <2>3, <2>4, <2>7, Destroys DEF Refined
<1>4. ASSUME NEW t \in Tokens, DestroyByToken(c, t)
      PROVE  Refined
  <2>1. /\ ~done /\ UNCHANGED <<done, now>> /\ abs = View(db)
        /\ abs' = View(destoryToken(db, t)) /\ answer' = Err("nil")
    BY <1>4, Transacted DEF DestroyByToken
  <2>2. abs' = Without(abs, t)
    BY <1>0, <2>1, DestoryTokenView
  <2> QED
    BY <2>1, <2>2, DestroysByToken DEF Refined
<1>5. ASSUME NEW t \in Tokens, Missed(c, t)
      PROVE  Refined
  <2>1. /\ ~done /\ UNCHANGED <<done, now>> /\ abs = View(db)
        /\ abs' = View(destoryToken(db, t)) /\ answer' = Err("ErrTokenNotExists")
    BY <1>5, Transacted DEF Missed
  <2>2. abs' = Without(abs, t)
    BY <1>0, <2>1, DestoryTokenView
  <2>3. t \in DOMAIN abs => IsDeleted(abs[t], now)
    BY <1>5, <2>1, ViewFacts DEF Missed, Live
  <2> QED
    BY <2>1, <2>2, <2>3, Misses DEF Refined
<1>6. ASSUME NEW t \in Tokens, ReadMissing(c, t)
      PROVE  Refined
  <2>1. ~done /\ UNCHANGED <<done, now>> /\ abs' = abs /\ answer' = Err("ErrTokenNotExists")
    BY <1>6, Unseen DEF ReadMissing, Enter, instance
  <2>2. t \in DOMAIN abs => IsDeleted(abs[t], now)
    BY <1>6, <2>1, OpenView, ViewFacts DEF ReadMissing, Live
  <2> QED
    BY <2>1, <2>2, Misses DEF Refined
<1>7. ASSUME NEW t \in Tokens, NEW r \in ReadOps, Read(c, t, r)
      PROVE  Refined
  <2> DEFINE a == IF IsExpired(db.metadata[t], now) THEN Err("ErrTokenExpired")
                  ELSE Answer(Session(db, t), r)
  <2>1. Enter(c) /\ Return(db, a) /\ Live(db, t)
    BY <1>7 DEF Read
  <2> HIDE DEF a
  <2>2. ~done /\ UNCHANGED <<done, now>> /\ abs = View(db) /\ abs' = abs /\ answer' = a
    BY <2>1, Transacted
  <2>3. /\ t \in DOMAIN abs /\ abs[t] = Session(db, t) /\ ~IsDeleted(abs[t], now)
        /\ IsExpired(abs[t], now) <=> IsExpired(db.metadata[t], now)
    BY <2>1, <2>2, ViewFacts DEF Live
  <2>4. answer' = IF IsExpired(abs[t], now) THEN Err("ErrTokenExpired") ELSE Answer(abs[t], r)
    BY <2>2, <2>3 DEF a
  <2> HIDE DEF abs
  <2> QED
    BY <2>2, <2>3, <2>4, Reads DEF Refined
<1>8. ASSUME NEW t \in Tokens, NEW kv \in Data, Put(c, t, kv)
      PROVE  Refined
  <2> DEFINE u == SetCopy(Session(db, t), kv)
  <2>1. t \in DOMAIN db.metadata /\ Update(c, t, u.data)
    BY <1>8 DEF Put
  <2>2. u \in TokenValue
    BY <1>0, <2>1, SessionType, WriteFacts
  <2>3. u.data \in Data
    BY <2>2 DEF TokenValue
  <2>4. u = [Session(db, t) EXCEPT !.data = u.data]
    BY DEF SetCopy, Session
  <2> HIDE DEF u
  <2>5. \E x \in Data : u = SetCopy(Session(db, t), x)
    BY DEF u
  <2> QED
    BY <2>1, <2>3, <2>4, <2>5, UpdateRefines
<1>9. ASSUME NEW t \in Tokens, NEW ks \in SUBSET Keys, Delete(c, t, ks)
      PROVE  Refined
  <2> DEFINE u == DeleteKeys(Session(db, t), ks)
  <2>1. t \in DOMAIN db.metadata /\ Update(c, t, u.data)
    BY <1>9 DEF Delete
  <2>2. u \in TokenValue
    BY <1>0, <2>1, SessionType, WriteFacts
  <2>3. u.data \in Data
    BY <2>2 DEF TokenValue
  <2>4. u = [Session(db, t) EXCEPT !.data = u.data]
    BY DEF DeleteKeys, Session
  <2> HIDE DEF u
  <2>5. \E x \in SUBSET Keys : u = DeleteKeys(Session(db, t), x)
    BY DEF u
  <2> QED
    BY <2>1, <2>3, <2>4, <2>5, UpdateRefines
<1>10. ASSUME NEW t \in Tokens, NEW r \in Tokens, NEW p \in Minted, Refresh(c, t, r, p)
       PROVE  Refined
  BY <1>10, RefreshRefines
<1> QED
  BY <1>1, <1>2, <1>3, <1>4, <1>5, <1>6, <1>7, <1>8, <1>9, <1>10 DEF Transaction

\* A call that gets on is a step of Provider, or invisible.
LEMMA ProgressRefines ==
    ASSUME IInv, MaxSize = ReopenSize, NEW c \in Clients, Progress(c)
    PROVE  Refined
<1>1. CASE CreateLate(c)
  <2>1. abs' = abs /\ UNCHANGED <<done, now>> /\ answer' = Err("nil")
    BY <1>1, Unseen DEF CreateLate, instance
  <2>2. PICK p \in Minted, kv \in Data, at \in 0..now : call[c].t = newTokenValue(p, kv, at)
    BY <1>1, CreateValue DEF CreateLate
  <2>3. ~(at + RefreshTTL > now)
    BY <1>1, <2>2 DEF CreateLate, IsDeleted, newTokenValue
  <2>4. at + RefreshTTL <= now
    BY <2>3, TTLAssumption DEF IInv, Typed
  <2> QED
    BY <2>1, <2>4, CreatesLate DEF Refined
<1>2. CASE Create(c)
  <2> DEFINE s == call[c].t
  <2>1. /\ ~done /\ UNCHANGED <<done, now>> /\ answer' = Err("nil")
        /\ db' = store(MakeRoom(destoryToken(db, s.access)), s)
    BY <1>2 DEF Create, instance
  <2>2. PICK p \in Minted, kv \in Data, at \in 0..now :
          /\ s = newTokenValue(p, kv, at)
          /\ s \in TokenValue
          /\ s.access = p[1] /\ s.id = IdOf[s.access]
    BY <1>2, CreateValue DEF Create
  <2> HIDE DEF s
  <2>3. Good(db) /\ maxSize = MaxSize /\ maxSize \in Int
    BY BoltAssumption DEF IInv, Typed
  <2> DEFINE others == DOMAIN db.metadata \ {s.access}
             e == store(MakeRoom(destoryToken(db, s.access)), s)
  <2>4. PICK kept : Makes(db, e, s, kept)
    BY <2>2, <2>3, CreateOK
  <2>5. db' = e
    BY <2>1
  <2> HIDE DEF e
  <2>6. /\ kept \in SUBSET others
        /\ IF maxSize > 0 /\ Cardinality(others) >= maxSize
           THEN \E v \in others : kept = others \ {v}
           ELSE kept = others
        /\ DOMAIN e.metadata = kept \cup {s.access}
        /\ \A t \in kept : Session(e, t) = Session(db, t)
        /\ Session(e, s.access) = s
    BY <2>4 DEF Makes
  <2>7. View(e) = With(Restrict(View(db), kept), s.access, s)
    BY <2>6, ViewStored
  <2>8. abs = View(db) /\ abs' = View(e)
    BY <2>1, <2>5, OpenView
  <2>9. abs' = With(Restrict(abs, kept), p[1], newTokenValue(p, kv, at))
    BY <2>2, <2>7, <2>8
  <2>10. DOMAIN abs \ {p[1]} = others
    BY <2>2, <2>8 DEF View
  <2> HIDE DEF others, abs
  <2>11. /\ kept \in SUBSET (DOMAIN abs \ {p[1]})
         /\ IF MaxSize > 0 /\ Cardinality(DOMAIN abs \ {p[1]}) >= MaxSize
            THEN \E v \in DOMAIN abs \ {p[1]} : kept = (DOMAIN abs \ {p[1]}) \ {v}
            ELSE kept = DOMAIN abs \ {p[1]}
    <3>1. kept \in SUBSET others /\ maxSize = MaxSize
      BY <2>3, <2>6
    <3>2. IF MaxSize > 0 /\ Cardinality(others) >= MaxSize
          THEN \E v \in others : kept = others \ {v}
          ELSE kept = others
      BY <2>6, <3>1
    <3> QED
      BY <2>10, <3>1, <3>2
  <2> QED
    BY <2>1, <2>9, <2>11, Creates DEF Refined
<1>3. CASE Send(c) \/ SendClosed(c)
  <2>1. abs' = abs /\ UNCHANGED <<done, answer, now>>
    BY <1>3, Unseen DEF Send, SendClosed, instance
  <2> QED
    BY <2>1, Stutter DEF absVars, Refined
<1> QED
  BY <1>1, <1>2, <1>3 DEF Progress

-----------------------------------------------------------------------------
(* The theorem.                                                            *)

\* A new file has no sessions.
LEMMA InitRefines == Init => Abstract!Init
<1> SUFFICES ASSUME Init PROVE Abstract!Init
  OBVIOUS
<1>1. abs = Empty
  BY DEF Init, EmptyBuckets, Empty, abs
<1> QED
  BY <1>1, AbstractNames DEF Init, Abstract!Init, abs

\* Every step of Bolt is one of Provider, Reopen, Clear, or invisible.
LEMMA StepRefines == MaxSize = ReopenSize /\ IInv /\ [Next]_vars => Refined
<1> SUFFICES ASSUME MaxSize = ReopenSize, IInv, [Next]_vars
             PROVE  Refined
  OBVIOUS
<1>1. CASE Tick
  <2>1. abs' = abs /\ UNCHANGED <<done, answer>> /\ now < MaxTime /\ now' = now + 1
    BY <1>1, Unseen DEF Tick
  <2> QED
    BY <2>1, Ticks DEF Refined
<1>2. CASE Reopen
  BY <1>2 DEF Refined
<1>3. CASE UNCHANGED vars
  <2>1. abs' = abs /\ UNCHANGED <<done, answer, now>>
    BY <1>3, Unseen DEF vars
  <2> QED
    BY <2>1, Stutter DEF absVars, Refined
<1> QED
  BY <1>1, <1>2, <1>3, GoroutineRefines, OutsideRefines, TransactionRefines,
     ProgressRefines DEF Next

\* ImplementsProvider: while every opening of the file has the same limit, each
\* call on BoltProvider takes effect at one instant, as Provider says, and a
\* transaction never shows its middle; only Clear and a new opening of the
\* file do what Provider does not.
THEOREM BoltImplementsProvider == MaxSize = ReopenSize => (Spec => ImplementsProvider)
<1> SUFFICES ASSUME MaxSize = ReopenSize
             PROVE  Spec => ImplementsProvider
  OBVIOUS
<1>1. IInv /\ [Next]_vars
         => [Abstract!Next \/ Reopen \/ \E c \in Clients : Clear(c)]_(Abstract!vars)
  BY StepRefines DEF Refined
<1> QED
  BY <1>1, InvariantHolds, InitRefines, PTL DEF ImplementsProvider, Spec
=============================================================================
