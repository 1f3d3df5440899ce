---------------------------- MODULE SessionProof ----------------------------
(***************************************************************************)
(* Proofs about Session, for any number of keys, values and types, and any *)
(* provider that does what Provider says.                                  *)
(*                                                                         *)
(* Get returns what the cached bytes decode to because storage that a Get  *)
(* decoded for a variable of the caller's own is shared by nobody: no      *)
(* variable that is passed again points to it, and no other entry of the   *)
(* cache.  That is what IInv says beyond the properties.                   *)
(***************************************************************************)
EXTENDS Session, SessionsProof, TLAPS

-----------------------------------------------------------------------------
(* The provider.                                                           *)

\* The provider's names for sessions, answers and maps are the handle's.
LEMMA Names ==
    /\ P!TokenValue = TokenValue
    /\ P!Answers = Answers
    /\ P!Time = Time
    /\ P!Data = Data
    /\ P!ReadOps = ReadOps
    /\ P!Empty = Empty
    /\ \A f, S, T : P!IsPartial(f, S, T) <=> IsPartial(f, S, T)
    /\ \A f, D : P!Restrict(f, D) = Restrict(f, D)
    /\ \A f, x : P!Without(f, x) = Without(f, x)
    /\ \A f, x, y : P!With(f, x, y) = With(f, x, y)
    /\ \A e : P!Err(e) = Err(e)
    /\ \A u, at : P!IsExpired(u, at) = IsExpired(u, at)
    /\ \A u, at : P!IsDeleted(u, at) = IsDeleted(u, at)
    /\ \A u, r : P!Answer(u, r) = Answer(u, r)
    /\ \A u, kv : P!SetCopy(u, kv) = SetCopy(u, kv)
    /\ \A u, ks : P!DeleteKeys(u, ks) = DeleteKeys(u, ks)
    /\ \A p, kv, at : P!newTokenValue(p, kv, at) = newTokenValue(p, kv, at)
    /\ \A u, p, at : P!Refreshed(u, p, at) = Refreshed(u, p, at)
BY DEF P!TokenValue, TokenValue, P!Data, Data, P!Partial, Partial, P!Answers, Answers,
       P!Errors, Errors, P!Time, Time, P!Empty, Empty, P!IsPartial, IsPartial,
       P!Restrict, Restrict, P!Without, Without, P!With, With, P!Err, Err,
       P!IsExpired, IsExpired, P!IsDeleted, IsDeleted, P!Answer, Answer,
       P!CopyKeys, CopyKeys, P!SetCopy, SetCopy, P!Override, Override,
       P!DeleteKeys, DeleteKeys, P!newTokenValue, newTokenValue, P!Refreshed, Refreshed,
       P!ReadOps, ReadOps

LEMMA ErrorNames ==
    {"nil", "ErrTokenInvalid", "ErrTokenIDNotMatched", "ErrProviderClosed", "ErrTokenNotExists",
     "ErrTokenExpired", "ErrRefreshTokenNotMatched"} \subseteq Errors
BY DEF Errors

\* A step of the provider that answers with an error, or with nothing more, and
\* stores sessions that are sessions.
LEMMA ProviderTypes ==
    ASSUME P!TypeOK, P!Next
    PROVE  P!TypeOK'
<1> USE Names, ErrType, ErrorNames DEF P!TypeOK
<1>1. IsPartial(sessions, Tokens, TokenValue) /\ now \in Nat
  BY DEF Time
<1>2. \A t \in DOMAIN sessions : t \in Tokens /\ sessions[t] \in TokenValue
  BY <1>1 DEF IsPartial
<1>3. ASSUME NEW D \in SUBSET DOMAIN sessions
      PROVE  IsPartial(Restrict(sessions, D), Tokens, TokenValue)
  BY <1>1, <1>3, RestrictFacts
<1>4. ASSUME NEW t \in DOMAIN sessions, NEW u \in TokenValue, P!Update(t, u)
      PROVE  P!TypeOK'
  <2>1. IsPartial([sessions EXCEPT ![t] = u], Tokens, TokenValue)
    BY <1>1 DEF IsPartial
  <2> QED
    BY <1>4, <2>1 DEF P!Update, P!Answered
<1>5. CASE P!Reject \/ P!Refuse
  BY <1>5 DEF P!Reject, P!Refuse, P!Answered
<1>6. CASE P!Close
  <2>1. IsPartial(Empty, Tokens, TokenValue)
    BY DEF Empty, IsPartial
  <2> QED
    BY <1>6, <2>1 DEF P!Close
<1>7. CASE P!Tick
  <2>1. now' \in Time
    BY <1>7, TTLAssumption DEF P!Tick, Time
  <2> QED
    BY <2>1, <1>7 DEF P!Tick
<1>8. CASE P!Purge
  BY <1>3, <1>8 DEF P!Purge
<1>9. ASSUME NEW id \in Ids, P!Destroy(id)
      PROVE  P!TypeOK'
  <2>1. PICK D \in SUBSET DOMAIN sessions : sessions' = Restrict(sessions, D)
    BY <1>9 DEF P!Destroy, P!RestrictDomain, P!Restrict, Restrict
  <2> QED
    BY <2>1, <1>3, <1>9 DEF P!Destroy, P!Answered
<1>10. ASSUME NEW t \in Tokens, P!NotExists(t) \/ P!DestroyByToken(t)
       PROVE  P!TypeOK'
  <2>1. IsPartial(Without(sessions, t), Tokens, TokenValue)
    BY <1>3 DEF Without
  <2> QED
    BY <1>10, <2>1 DEF P!NotExists, P!DestroyByToken, P!Answered
<1>11. ASSUME NEW t \in DOMAIN sessions, NEW r \in ReadOps, P!Read(t, r)
       PROVE  P!TypeOK'
  BY <1>2, <1>11, AnswerType DEF P!Read, P!Answered
<1>12. ASSUME NEW t \in DOMAIN sessions, NEW kv \in Data, P!Put(t, kv)
       PROVE  P!TypeOK'
  BY <1>2, <1>4, <1>12, WriteFacts DEF P!Put
<1>13. ASSUME NEW t \in DOMAIN sessions, NEW ks \in SUBSET Keys, P!Delete(t, ks)
       PROVE  P!TypeOK'
  BY <1>2, <1>4, <1>13, WriteFacts DEF P!Delete
<1>14. ASSUME NEW t \in DOMAIN sessions, NEW r, NEW p \in Minted, P!Refresh(t, r, p)
       PROVE  P!TypeOK'
  <2>1. Refreshed(sessions[t], p, now) \in TokenValue /\ p[1] \in Tokens
    BY <1>1, <1>2, MintFacts
  <2>2. IsPartial(With(Without(sessions, t), p[1], Refreshed(sessions[t], p, now)),
                  Tokens, TokenValue)
    BY <1>1, <2>1, PartialStep
  <2> QED
    BY <1>14, <2>2 DEF P!Refresh, P!Answered
<1>15. ASSUME NEW at \in 0..now, P!CreateLate(at)
       PROVE  P!TypeOK'
  BY <1>15 DEF P!CreateLate, P!Answered
<1>16. ASSUME NEW p \in Minted, NEW kv \in Data, NEW at \in 0..now, P!Create(p, kv, at)
       PROVE  P!TypeOK'
  <2>1. PICK kept \in SUBSET DOMAIN sessions :
           sessions' = With(Restrict(sessions, kept), p[1], newTokenValue(p, kv, at))
    BY <1>16 DEF P!Create
  <2>2. newTokenValue(p, kv, at) \in TokenValue /\ p[1] \in Tokens
    BY <1>1, MintFacts
  <2>3. IsPartial(sessions', Tokens, TokenValue)
    BY <1>3, <2>1, <2>2, PartialStep
  <2> QED
    BY <1>16, <2>3 DEF P!Create, P!Answered
<1> QED
  BY <1>5, <1>6, <1>7, <1>8, <1>9, <1>10, <1>11, <1>12, <1>13, <1>14, <1>15, <1>16 DEF P!Next

-----------------------------------------------------------------------------
(* The cache.                                                              *)

\* The entry of k in the cache ks has a decoded value.
Decoded(ks, k) == k \in DOMAIN ks /\ ks[k].elem # NotReady

\* The decoded value of k in the cache ks is of a type whose variable the
\* caller does not pass again.
Own(ks, k) == Decoded(ks, k) /\ ks[k].elem[1] \notin Reused

\* Decoded values are in the heap, and those of the caller's own variables are
\* what the bytes decode to and shared by no variable and no other entry.
LocalOK(ks, ptr, h) ==
    /\ IsPartial(ks, Keys, Entries)
    /\ IsPartial(h, Addresses, Values)
    /\ IsPartial(ptr, Reused, DOMAIN h)
    /\ \A k \in Keys : Decoded(ks, k) => ks[k].elem[2] \in DOMAIN h
    /\ \A k \in Keys : Own(ks, k) =>
          /\ h[ks[k].elem[2]] = ks[k].bytes
          /\ \A T \in DOMAIN ptr : ptr[T] # ks[k].elem[2]
          /\ \A j \in Keys \ {k} : Decoded(ks, j) => ks[j].elem[2] # ks[k].elem[2]

\* The fields of an entry.
LEMMA EntryFields ==
    ASSUME NEW e \in Entries
    PROVE  /\ e.bytes \in Values \cup {Missing}
           /\ e.elem # NotReady => /\ e.elem[1] \in Types /\ e.elem[2] \in Addresses
                                   /\ e.elem = <<e.elem[1], e.elem[2]>>
BY DEF Entries

LEMMA EntryTypes ==
    /\ \A b \in Values \cup {Missing} : Entry(b) \in Entries /\ Entry(b).bytes = b
                                        /\ Entry(b).elem = NotReady
    /\ \A b \in Values, T \in Types, a \in Addresses :
          LET e == [bytes |-> b, elem |-> <<T, a>>] IN
          e \in Entries /\ e.bytes = b /\ e.elem # NotReady /\ e.elem[1] = T /\ e.elem[2] = a
<1>1. \A T, a : <<T, a>> # <<>>
  OBVIOUS
<1> QED
  BY <1>1 DEF Entry, Entries, NotReady

\* What is in use is in the heap.
LEMMA UsedFacts ==
    ASSUME NEW ks, NEW ptr, NEW h, LocalOK(ks, ptr, h)
    PROVE  /\ Used(ks, ptr) \subseteq DOMAIN h
           /\ \A k \in Keys : Decoded(ks, k) => ks[k].elem[2] \in Used(ks, ptr)
           /\ \A T \in DOMAIN ptr : ptr[T] \in Used(ks, ptr)
BY DEF LocalOK, Used, Decoded, Range, IsPartial

\* Garbage is of no account.
LEMMA CollectOK ==
    ASSUME NEW ks, NEW ptr, NEW h, LocalOK(ks, ptr, h)
    PROVE  LocalOK(ks, ptr, Restrict(h, DOMAIN h \cap Used(ks, ptr)))
<1> DEFINE D == DOMAIN h \cap Used(ks, ptr)
           g == Restrict(h, D)
<1>1. DOMAIN g = D /\ \A a \in D : g[a] = h[a]
  BY DEF Restrict
<1>2. /\ \A k \in Keys : Decoded(ks, k) => ks[k].elem[2] \in D
      /\ \A T \in DOMAIN ptr : ptr[T] \in D
  BY UsedFacts DEF LocalOK, IsPartial
<1> HIDE DEF g, D
<1>3. IsPartial(g, Addresses, Values) /\ IsPartial(ptr, Reused, DOMAIN g)
  <2>1. D \subseteq DOMAIN h
    BY DEF D
  <2>2. g = [a \in D |-> h[a]]
    BY DEF g, Restrict
  <2> QED
    BY <1>1, <1>2, <2>1, <2>2 DEF LocalOK, IsPartial
<1>4. \A k \in Keys : Own(ks, k) => h[ks[k].elem[2]] = g[ks[k].elem[2]]
  BY <1>1, <1>2 DEF Own
<1> QED
  BY <1>1, <1>2, <1>3, <1>4 DEF LocalOK, g, D

LEMMA StoreOK ==
    ASSUME NEW ks, NEW ptr, NEW h, LocalOK(ks, ptr, h), Store(ks, ptr, h)
    PROVE  LocalOK(keys', pointer', heap') /\ keys' = ks
BY CollectOK DEF Store

\* Entries that are not decoded take the place of others, or of none.
LEMMA FillOK ==
    ASSUME NEW ks, NEW ms, NEW ptr, NEW h, LocalOK(ks, ptr, h), IsPartial(ms, Keys, Entries),
           \A k \in DOMAIN ms : (k \in DOMAIN ks /\ ms[k] = ks[k]) \/ ms[k].elem = NotReady
    PROVE  LocalOK(ms, ptr, h)
<1>1. \A k \in Keys : Decoded(ms, k) => Decoded(ks, k) /\ ms[k] = ks[k]
  BY DEF Decoded
<1>2. \A k \in Keys : Own(ms, k) => Own(ks, k) /\ ms[k] = ks[k]
  BY <1>1 DEF Own
<1> QED
  BY <1>1, <1>2 DEF LocalOK

\* A decoder writes to storage that nobody uses, or to that of a variable that
\* is passed again.
LEMMA DecodeOK ==
    ASSUME LocalOK(keys, pointer, heap), NEW k \in Keys, NEW T \in Types,
           NEW b \in Values, NEW a \in Target(T), a \in Addresses
    PROVE  LocalOK(With(keys, k, [bytes |-> b, elem |-> <<T, a>>]), PointTo(T, a), With(heap, a, b))
<1> DEFINE e == [bytes |-> b, elem |-> <<T, a>>]
           ks == With(keys, k, e)
           ptr == PointTo(T, a)
           h == With(heap, a, b)
<1>1. e \in Entries /\ e.bytes = b /\ e.elem # NotReady /\ e.elem[1] = T /\ e.elem[2] = a
  BY EntryTypes
<1> HIDE DEF e
<1>2. /\ DOMAIN ks = DOMAIN keys \cup {k} /\ ks[k] = e
      /\ \A j \in Keys \ {k} : j \in DOMAIN keys => ks[j] = keys[j]
      /\ DOMAIN h = DOMAIN heap \cup {a} /\ h[a] = b /\ \A x \in DOMAIN heap \ {a} : h[x] = heap[x]
  BY DEF With
<1>3. IsPartial(ks, Keys, Entries) /\ IsPartial(h, Addresses, Values)
  BY <1>1, PartialStep DEF LocalOK
<1>4. \A U \in DOMAIN ptr : ptr[U] = a \/ (U \in DOMAIN pointer /\ ptr[U] = pointer[U])
  BY DEF PointTo, With
<1>5. IsPartial(ptr, Reused, DOMAIN h)
  <2>1. IsPartial(pointer, Reused, DOMAIN h)
    BY <1>2 DEF LocalOK, IsPartial
  <2> QED
    BY <1>2, <2>1, PartialStep DEF PointTo
<1>6. T \notin Reused => a \notin Used(keys, pointer) /\ ptr = pointer
  BY DEF Target, PointTo, LocalOK, IsPartial
<1>7. \A j \in Keys : Own(keys, j) => keys[j].elem[2] # a
  BY UsedFacts DEF Target, LocalOK, Own
<1> HIDE DEF ks, ptr, h
<1>8. \A j \in Keys \ {k} : /\ Decoded(ks, j) <=> Decoded(keys, j)
                            /\ Own(ks, j) <=> Own(keys, j)
                            /\ Decoded(keys, j) => ks[j] = keys[j]
  BY <1>2 DEF Decoded, Own
<1>9. \A j \in Keys : Decoded(ks, j) => ks[j].elem[2] \in DOMAIN h
  BY <1>1, <1>2, <1>8 DEF LocalOK
<1>10. ASSUME NEW i \in Keys, Own(ks, i)
       PROVE  /\ h[ks[i].elem[2]] = ks[i].bytes
              /\ \A U \in DOMAIN ptr : ptr[U] # ks[i].elem[2]
              /\ \A j \in Keys \ {i} : Decoded(ks, j) => ks[j].elem[2] # ks[i].elem[2]
  <2>1. CASE i = k
    <3>1. ks[i] = e /\ T \notin Reused
      BY <1>1, <1>2, <1>10, <2>1 DEF Own
    <3>2. a \notin Used(keys, pointer) /\ ptr = pointer
      BY <1>6, <3>1
    <3> QED
      BY <1>1, <1>2, <1>8, <2>1, <3>1, <3>2, UsedFacts
  <2>2. CASE i # k
    <3>1. Own(keys, i) /\ ks[i] = keys[i] /\ keys[i].elem[2] # a /\ keys[i].elem[2] \in DOMAIN heap
      BY <1>7, <1>8, <1>10, <2>2 DEF LocalOK, Own
    <3>2. /\ heap[keys[i].elem[2]] = keys[i].bytes
          /\ \A U \in DOMAIN pointer : pointer[U] # keys[i].elem[2]
          /\ \A j \in Keys \ {i} : Decoded(keys, j) => keys[j].elem[2] # keys[i].elem[2]
      BY <3>1 DEF LocalOK
    <3>3. \A j \in Keys \ {i} : Decoded(ks, j) => ks[j].elem[2] # keys[i].elem[2]
      BY <1>1, <1>2, <1>8, <3>1, <3>2
    <3> QED
      BY <1>2, <1>4, <3>1, <3>2, <3>3
  <2> QED
    BY <2>1, <2>2
<1> QED
  BY <1>3, <1>5, <1>9, <1>10 DEF LocalOK, e, ks, ptr, h

\* A Get that finds a decoded value may point the caller's variable to it.
LEMMA PointOK ==
    ASSUME LocalOK(keys, pointer, heap), NEW k \in Keys, Decoded(keys, k)
    PROVE  LocalOK(keys, PointTo(keys[k].elem[1], keys[k].elem[2]), heap)
<1> DEFINE T == keys[k].elem[1]
           a == keys[k].elem[2]
           ptr == PointTo(T, a)
<1>1. a \in DOMAIN heap
  BY DEF LocalOK
<1>2. CASE T \notin Reused
  BY <1>2 DEF PointTo
<1>3. CASE T \in Reused
  <2>1. IsPartial(ptr, Reused, DOMAIN heap)
    BY <1>1, <1>3, PartialStep DEF PointTo, LocalOK
  <2>2. \A U \in DOMAIN ptr : ptr[U] = a \/ (U \in DOMAIN pointer /\ ptr[U] = pointer[U])
    BY DEF PointTo, With
  <2>3. \A i \in Keys : Own(keys, i) => keys[i].elem[2] # a
    <3>1. ~Own(keys, k)
      BY <1>3 DEF Own
    <3> QED
      BY <3>1 DEF LocalOK
  <2> HIDE DEF ptr, T, a
  <2>4. \A i \in Keys : Own(keys, i) => \A U \in DOMAIN ptr : ptr[U] # keys[i].elem[2]
    BY <2>2, <2>3 DEF LocalOK
  <2> QED
    BY <2>1, <2>4 DEF LocalOK, ptr, T, a
<1> QED
  BY <1>2, <1>3
-----------------------------------------------------------------------------
(* What the steps do.                                                      *)

IInv ==
    /\ TypeOK
    /\ LocalOK(keys, pointer, heap)
    /\ CacheFromProvider

LEMMA InitIInv == Init => IInv
<1> SUFFICES ASSUME Init PROVE IInv
  OBVIOUS
<1> USE Names DEF Init, P!Init
<1>1. P!TypeOK
  <2>1. IsPartial(Empty, Tokens, TokenValue) /\ Err("nil") \in Answers /\ 0 \in Time
    BY ErrType, TTLAssumption DEF Empty, IsPartial, Errors, Time
  <2> QED
    BY <2>1 DEF P!TypeOK
<1>2. \A S, T : IsPartial(Empty, S, T)
  BY DEF Empty, IsPartial
<1>3. LocalOK(keys, pointer, heap)
  BY <1>2 DEF LocalOK, Decoded, Own, Empty
<1>4. TypeOK
  BY <1>1, <1>2 DEF TypeOK, Results, None
<1> QED
  BY <1>3, <1>4 DEF IInv, CacheFromProvider, Empty

\* A call the provider turns down is a step of the provider.
LEMMA DeniedSteps ==
    ASSUME NEW t \in Tokens, Denied(t)
    PROVE  P!Next
<1>1. [op |-> "Check"] \in ReadOps
  BY DEF ReadOps
<1> QED
  BY <1>1, Names DEF Denied, P!Next

LEMMA GetSteps ==
    ASSUME NEW ks \in SUBSET Keys, ProviderGet(ks)
    PROVE  P!Next
<1>1. [op |-> "Get", ks |-> ks] \in ReadOps
  BY DEF ReadOps
<1>2. token \in DOMAIN sessions /\ P!Read(token, [op |-> "Get", ks |-> ks])
  BY DEF ProviderGet, P!Read
<1> QED
  BY <1>1, <1>2, Names DEF P!Next

LEMMA PutSteps ==
    ASSUME NEW kv \in Data, P!Put(token, kv)
    PROVE  P!Next
<1>1. token \in DOMAIN sessions
  BY DEF P!Put
<1> QED
  BY <1>1, Names DEF P!Next

\* What a stored session shows are keys and values, missing ones included.
LEMMA ShownType ==
    ASSUME P!TypeOK
    PROVE  Shown \subseteq Keys \X (Values \cup {Missing})
<1>1. CASE token \in DOMAIN sessions
  <2>1. sessions[token] \in TokenValue
    BY <1>1, Names DEF P!TypeOK, IsPartial
  <2>2. IsPartial(sessions[token].data, Keys, Values)
    BY <2>1, PartialIff DEF TokenValue, Data
  <2>3. \A k \in Keys : CopyKeys(sessions[token], Keys)[k] \in Values \cup {Missing}
    BY <2>2 DEF CopyKeys, IsPartial
  <2> QED
    BY <1>1, <2>3 DEF Shown
<1>2. CASE token \notin DOMAIN sessions
  BY <1>2 DEF Shown
<1> QED
  BY <1>1, <1>2

LEMMA ShownTypeNext ==
    P!TypeOK' => (Shown \subseteq Keys \X (Values \cup {Missing}))'
<1>1. P!TypeOK => Shown \subseteq Keys \X (Values \cup {Missing})
  BY ShownType
<1> QED
  BY <1>1, PTL

\* What provider.Get answers, the stored session shows.
LEMMA GetShows ==
    ASSUME P!TypeOK, NEW ks \in SUBSET Keys, ProviderGet(ks), UNCHANGED token
    PROVE  \A k \in ks : /\ answer'.vals[k] \in Values \cup {Missing}
                         /\ <<k, answer'.vals[k]>> \in Shown'
<1> DEFINE u == sessions[token]
<1>1. token \in DOMAIN sessions /\ sessions' = sessions
  BY DEF ProviderGet, P!Read
<1>2. answer' = Answer(u, [op |-> "Get", ks |-> ks])
  <2>1. ~IsExpired(u, now)
    BY Names DEF ProviderGet, P!Read, P!Answered, Err
  <2> QED
    BY <2>1, Names DEF ProviderGet, P!Read, P!Answered
<1>3. answer'.vals = CopyKeys(u, ks)
  BY <1>2 DEF Answer, Err
<1>4. u \in TokenValue
  BY <1>1, Names DEF P!TypeOK, IsPartial
<1>5. IsPartial(u.data, Keys, Values)
  BY <1>4, PartialIff DEF TokenValue, Data
<1>6. \A k \in ks : answer'.vals[k] \in Values \cup {Missing}
                    /\ answer'.vals[k] = CopyKeys(u, Keys)[k]
  BY <1>3, <1>5 DEF CopyKeys, IsPartial
<1>7. \A k \in Keys : <<k, CopyKeys(u, Keys)[k]>> \in Shown'
  BY <1>1 DEF Shown
<1> QED
  BY <1>6, <1>7

\* What the provider was given and has accepted, the stored session shows.
LEMMA PutShows ==
    ASSUME P!TypeOK, NEW kv \in Data, P!Put(token, kv), answer'.e = "nil", UNCHANGED token
    PROVE  \A k \in DOMAIN kv : k \in Keys /\ kv[k] \in Values /\ <<k, kv[k]>> \in Shown'
<1> DEFINE u == sessions[token]
<1>1. token \in DOMAIN sessions
  BY DEF P!Put
<1>2. u \in TokenValue
  BY <1>1, Names DEF P!TypeOK, IsPartial
<1>3. sessions' = [sessions EXCEPT ![token] = SetCopy(u, kv)]
  <2>1. ~IsExpired(u, now)
    BY Names DEF P!Put, P!Update, P!Answered, Err
  <2> QED
    BY <2>1, Names DEF P!Put, P!Update
<1>4. token' \in DOMAIN sessions' /\ sessions'[token'] = SetCopy(u, kv)
  BY <1>1, <1>3
<1>5. IsPartial(kv, Keys, Values) /\ IsPartial(u.data, Keys, Values)
  BY <1>2, PartialIff DEF TokenValue, Data
<1>6. SetCopy(u, kv).data = Override(u.data, kv)
  BY <1>2 DEF SetCopy, TokenValue
<1>7. \A k \in DOMAIN kv : k \in Keys /\ CopyKeys(SetCopy(u, kv), Keys)[k] = kv[k]
  BY <1>5, <1>6 DEF CopyKeys, Override, IsPartial
<1>8. \A k \in Keys : <<k, CopyKeys(SetCopy(u, kv), Keys)[k]>> \in Shown'
  BY <1>4 DEF Shown
<1> QED
  BY <1>5, <1>7, <1>8 DEF IsPartial

-----------------------------------------------------------------------------
(* What a step does to the handle.                                         *)

\* A cached value stays, or is replaced by a Put.
KeepsReads ==
    \A k \in DOMAIN keys :
          /\ k \in DOMAIN keys'
          /\ \/ keys'[k].bytes = keys[k].bytes
             \/ result'.op = "put" /\ k \in result'.ks

GetsStored ==
    result'.op = "get" /\ result'.t \notin Reused => result'.v = keys'[result'.k].bytes

\* A cached value was there before the step, or the stored session shows it
\* after the step.
FromStore ==
    \A k \in DOMAIN keys' :
        \/ k \in DOMAIN keys /\ keys'[k].bytes = keys[k].bytes
        \/ <<k, keys'[k].bytes>> \in Shown'

Good ==
    /\ LocalOK(keys', pointer', heap')
    /\ result' \in Results
    /\ FromStore
    /\ KeepsReads
    /\ GetsStored

\* A step that leaves the handle alone and returns no value.
LEMMA IdleGood ==
    ASSUME IInv, UNCHANGED local, result' \in {None, Failed, KeyNotExists, [op |-> "panic"]}
    PROVE  Good
<1>1. result' \in Results /\ result'.op \notin {"get", "put"}
  BY DEF Results, None, Failed, KeyNotExists
<1> QED
  BY <1>1 DEF Good, IInv, FromStore, KeepsReads, GetsStored, local

\* A step that caches the bytes of m: what the session shows, and keys that
\* were cached before only in a Put.
LEMMA FillGood ==
    ASSUME IInv, NEW m,
           DOMAIN m \subseteq Keys,
           \A k \in DOMAIN m : m[k] \in Values \cup {Missing} /\ <<k, m[k]>> \in Shown',
           NEW es, DOMAIN es = DOMAIN m, \A k \in DOMAIN m : es[k] = Entry(m[k]),
           Cache(Override(keys, es)),
           \/ result' = [op |-> "put", ks |-> DOMAIN m]
           \/ DOMAIN m \cap DOMAIN keys = {} /\ result' \in {None, KeyNotExists}
    PROVE  Good
<1> DEFINE ms == Override(keys, es)
<1>1. /\ DOMAIN ms = DOMAIN keys \cup DOMAIN m
      /\ \A k \in DOMAIN m : ms[k] = Entry(m[k])
      /\ \A k \in DOMAIN keys \ DOMAIN m : ms[k] = keys[k]
  BY DEF Override
<1>2. ms = [k \in DOMAIN ms |-> ms[k]]
  BY DEF Override
<1> HIDE DEF ms
<1>3. IsPartial(keys, Keys, Entries)
  BY DEF IInv, TypeOK
<1>4. \A k \in DOMAIN m : Entry(m[k]) \in Entries /\ Entry(m[k]).bytes = m[k]
                          /\ Entry(m[k]).elem = NotReady
  BY EntryTypes
<1>5. IsPartial(ms, Keys, Entries)
  BY <1>1, <1>2, <1>3, <1>4 DEF IsPartial
<1>6. LocalOK(ms, pointer, heap)
  BY <1>1, <1>4, <1>5, FillOK DEF IInv
<1>7. LocalOK(keys', pointer', heap') /\ keys' = ms
  BY <1>6, StoreOK DEF Cache, ms
<1>8. result' \in Results /\ result'.op # "get"
  BY DEF Results, None, KeyNotExists
<1>9. FromStore
  BY <1>1, <1>4, <1>7 DEF FromStore
<1>10. KeepsReads
  BY <1>1, <1>7 DEF KeepsReads
<1> QED
  BY <1>7, <1>8, <1>9, <1>10 DEF Good, GetsStored

\* Get decodes bytes that are cached, or that the session shows.
LEMMA DecodeGood ==
    ASSUME IInv, NEW k \in Keys, NEW T \in Types, NEW b \in Values, Decode(k, T, b),
           \/ k \in DOMAIN keys /\ keys[k].bytes = b
           \/ k \notin DOMAIN keys /\ <<k, b>> \in Shown'
    PROVE  Good
<1>1. CASE <<b, T>> \in Decodable
  <2>1. PICK a \in Target(T) :
           Store(With(keys, k, [bytes |-> b, elem |-> <<T, a>>]), PointTo(T, a), With(heap, a, b))
    BY <1>1 DEF Decode
  <2>2. a \in Addresses
    BY DEF Target, IInv, LocalOK, IsPartial
  <2> DEFINE ks == With(keys, k, [bytes |-> b, elem |-> <<T, a>>])
  <2>3. LocalOK(ks, PointTo(T, a), With(heap, a, b))
    BY <2>2, DecodeOK DEF IInv
  <2>4. LocalOK(keys', pointer', heap') /\ keys' = ks
    BY <2>1, <2>3, StoreOK
  <2>5. /\ DOMAIN ks = DOMAIN keys \cup {k} /\ ks[k].bytes = b
        /\ \A j \in DOMAIN keys \ {k} : ks[j] = keys[j]
    BY DEF With
  <2> HIDE DEF ks
  <2>6. result' = [op |-> "get", k |-> k, t |-> T, v |-> b]
    BY <1>1 DEF Decode, Got
  <2>7. result' \in Results /\ result'.op = "get" /\ result'.k = k /\ result'.v = b
    BY <2>6 DEF Results
  <2> QED
    BY <2>4, <2>5, <2>7 DEF Good, FromStore, KeepsReads, GetsStored
<1>2. CASE <<b, T>> \notin Decodable
  BY <1>2, IdleGood DEF Decode
<1> QED
  BY <1>1, <1>2

LEMMA GetMissGood ==
    ASSUME IInv, UNCHANGED token, NEW k \in Keys, NEW T \in Types, GetMiss(k, T)
    PROVE  Good
<1> DEFINE b == answer'.vals[k]
<1>1. b \in Values \cup {Missing} /\ <<k, b>> \in Shown' /\ k \notin DOMAIN keys
  BY GetShows DEF GetMiss, IInv, TypeOK
<1>2. CASE b = Missing
  <2> DEFINE m == [j \in {k} |-> Missing]
             es == [j \in {k} |-> Entry(Missing)]
  <2>1. With(keys, k, Entry(Missing)) = Override(keys, es)
    BY DEF With, Override
  <2>2. Cache(Override(keys, es)) /\ result' = KeyNotExists
    BY <1>2, <2>1 DEF GetMiss
  <2>3. \A j \in DOMAIN m : m[j] \in Values \cup {Missing} /\ <<j, m[j]>> \in Shown'
    BY <1>1, <1>2
  <2>4. /\ DOMAIN m = {k} /\ DOMAIN es = DOMAIN m /\ DOMAIN m \subseteq Keys
        /\ \A j \in DOMAIN m : es[j] = Entry(m[j])
        /\ DOMAIN m \cap DOMAIN keys = {}
    BY <1>1
  <2> HIDE DEF m, es
  <2> QED
    BY <2>2, <2>3, <2>4, FillGood
<1>3. CASE b # Missing
  BY <1>1, <1>3, DecodeGood DEF GetMiss
<1> QED
  BY <1>2, <1>3

LEMMA GetHitGood ==
    ASSUME IInv, NEW k \in Keys, NEW T \in Types, GetHit(k, T)
    PROVE  Good
<1>1. k \in DOMAIN keys /\ keys[k] \in Entries
  BY DEF GetHit, IInv, TypeOK, IsPartial
<1>2. CASE keys[k].bytes = Missing
  BY <1>2, IdleGood DEF GetHit
<1>3. CASE keys[k].bytes # Missing /\ ~Ready(k, T)
  <2>1. keys[k].bytes \in Values
    BY <1>1, <1>3, EntryFields
  <2> QED
    BY <1>1, <1>3, <2>1, DecodeGood DEF GetHit
<1>4. CASE keys[k].bytes # Missing /\ Ready(k, T) /\ keys[k].elem[1] # T
  BY <1>4, IdleGood DEF GetHit
<1>5. CASE keys[k].bytes # Missing /\ Ready(k, T) /\ keys[k].elem[1] = T
  <2> DEFINE a == keys[k].elem[2]
  <2>1. result' = Got(k, T, heap[a]) /\ Store(keys, PointTo(T, a), heap)
    BY <1>5 DEF GetHit
  <2>2. Decoded(keys, k)
    BY <1>1, <1>5 DEF Decoded, Ready
  <2>3. LocalOK(keys, PointTo(T, a), heap)
    BY <1>5, <2>2, PointOK DEF IInv
  <2>4. LocalOK(keys', pointer', heap') /\ keys' = keys
    BY <2>1, <2>3, StoreOK
  <2>5. heap[a] \in Values
    BY <2>2 DEF IInv, LocalOK, IsPartial
  <2>6. T \notin Reused => heap[a] = keys[k].bytes
    BY <1>5, <2>2 DEF IInv, LocalOK, Own
  <2>7. result' \in Results /\ result'.op = "get" /\ result'.k = k /\ result'.t = T
        /\ result'.v = heap[a]
    BY <2>1, <2>5 DEF Got, Results
  <2> QED
    BY <2>4, <2>6, <2>7 DEF Good, FromStore, KeepsReads, GetsStored
<1> QED
  BY <1>2, <1>3, <1>4, <1>5

LEMMA PutGood ==
    ASSUME IInv, UNCHANGED token, NEW kv \in Data, Put(kv)
    PROVE  Good
<1> DEFINE es == [k \in DOMAIN kv |-> Entry(kv[k])]
<1>1. \A k \in DOMAIN kv : k \in Keys /\ kv[k] \in Values /\ <<k, kv[k]>> \in Shown'
  BY PutShows DEF Put, IInv, TypeOK
<1>2. Cache(Override(keys, es)) /\ result' = [op |-> "put", ks |-> DOMAIN kv]
  BY DEF Put
<1>3. DOMAIN es = DOMAIN kv /\ \A k \in DOMAIN kv : es[k] = Entry(kv[k])
  OBVIOUS
<1> HIDE DEF es
<1> QED
  BY <1>1, <1>2, <1>3, FillGood

LEMMA PrepareGood ==
    ASSUME IInv, UNCHANGED token, NEW ks \in SUBSET Keys, Prepare(ks)
    PROVE  Good
<1> DEFINE dst == ks \ DOMAIN keys
           m == [k \in dst |-> answer'.vals[k]]
           es == [k \in dst |-> Entry(answer'.vals[k])]
<1>1. \A k \in dst : answer'.vals[k] \in Values \cup {Missing} /\ <<k, answer'.vals[k]>> \in Shown'
  BY GetShows DEF Prepare, IInv, TypeOK
<1>2. Cache(Override(keys, es)) /\ result' = None
  BY DEF Prepare
<1>3. /\ DOMAIN m = dst /\ DOMAIN es = DOMAIN m /\ DOMAIN m \subseteq Keys
      /\ DOMAIN m \cap DOMAIN keys = {}
      /\ \A k \in DOMAIN m : /\ es[k] = Entry(m[k])
                             /\ m[k] \in Values \cup {Missing} /\ <<k, m[k]>> \in Shown'
  BY <1>1
<1> HIDE DEF m, es, dst
<1> QED
  BY <1>2, <1>3, FillGood

-----------------------------------------------------------------------------
(* The steps.                                                              *)

\* Whatever the handle does with the provider, the provider allows.
LEMMA ProviderSteps ==
    ASSUME IInv, Next
    PROVE  P!Next \/ UNCHANGED provider
<1>1. token \in Tokens
  BY DEF IInv, TypeOK
<1>2. CASE Deny
  BY <1>1, <1>2, DeniedSteps DEF Deny
<1>3. CASE Pass
  <2>1. [op |-> "Check"] \in ReadOps /\ [op |-> "Keys"] \in ReadOps
    BY DEF ReadOps
  <2>2. CASE P!DestroyByToken(token)
    BY <1>1, <2>2 DEF P!Next
  <2>3. ASSUME NEW r \in ReadOps, P!Read(token, r)
        PROVE  P!Next
    <3>1. token \in DOMAIN sessions
      BY <2>3 DEF P!Read
    <3> QED
      BY <2>3, <3>1, Names DEF P!Next
  <2> QED
    BY <1>3, <2>1, <2>2, <2>3 DEF Pass
<1>4. ASSUME NEW kv \in Data, Put(kv)
      PROVE  P!Next
  BY <1>4, PutSteps DEF Put
<1>5. ASSUME NEW ks \in SUBSET Keys, Prepare(ks)
      PROVE  P!Next
  BY <1>5, GetSteps DEF Prepare
<1>6. ASSUME NEW k \in Keys, NEW T \in Types, GetMiss(k, T) \/ GetHit(k, T)
      PROVE  P!Next \/ UNCHANGED provider
  BY <1>6, GetSteps DEF GetMiss, GetHit
<1>7. ASSUME NEW t \in Tokens, NEW ks \in SUBSET Keys, Delete(t, ks)
      PROVE  P!Next
  <2>1. CASE P!Delete(t, ks)
    <3>1. t \in DOMAIN sessions
      BY <2>1 DEF P!Delete
    <3> QED
      BY <2>1, <3>1 DEF P!Next
  <2> QED
    BY <1>7, <2>1, DeniedSteps DEF Delete
<1> QED
  BY <1>2, <1>3, <1>4, <1>5, <1>6, <1>7 DEF Next, Calls, Elsewhere

LEMMA Steps ==
    ASSUME IInv, Next
    PROVE  Good
<1>1. UNCHANGED token
  BY DEF Next
<1>2. CASE Deny \/ Pass \/ Elsewhere
  BY <1>2, IdleGood DEF Deny, Pass, Elsewhere
<1>3. ASSUME NEW t \in Tokens, NEW ks \in SUBSET Keys, Delete(t, ks)
      PROVE  Good
  BY <1>3, IdleGood DEF Delete
<1> QED
  BY <1>1, <1>2, <1>3, PutGood, PrepareGood, GetMissGood, GetHitGood DEF Next, Calls

LEMMA Inductive == IInv /\ [Next]_vars => IInv'
<1> SUFFICES ASSUME IInv, [Next]_vars PROVE IInv'
  OBVIOUS
<1>1. CASE Next
  <2>1. Good /\ UNCHANGED token /\ held' = held \cup Shown'
    BY <1>1, Steps DEF Next
  <2>2. P!TypeOK'
    <3>1. P!TypeOK /\ (UNCHANGED provider => P!TypeOK')
      BY DEF IInv, TypeOK, P!TypeOK, provider
    <3> QED
      BY <1>1, <3>1, ProviderSteps, ProviderTypes
  <2>3. Shown' \subseteq Keys \X (Values \cup {Missing})
    BY <2>2, ShownTypeNext
  <2>4. TypeOK'
    BY <2>1, <2>2, <2>3 DEF IInv, TypeOK, Good, LocalOK
  <2>5. CacheFromProvider'
    BY <2>1 DEF IInv, CacheFromProvider, Good, FromStore
  <2> QED
    BY <2>1, <2>4, <2>5 DEF IInv, Good
<1>2. CASE UNCHANGED vars
  BY <1>2 DEF vars, provider, IInv, TypeOK, P!TypeOK, CacheFromProvider
<1> QED
  BY <1>1, <1>2

\* IInv holds in every reachable state.
LEMMA Always == Spec => []IInv
BY InitIInv, Inductive, PTL DEF Spec

-----------------------------------------------------------------------------
(* Theorems.                                                               *)

\* The cache holds entries, pointers point to storage, and results are results.
THEOREM TypeCorrect == Spec => []TypeOK
<1>1. IInv => TypeOK
  BY DEF IInv
<1> QED
  BY <1>1, Always, PTL

\* What the cache says of a key the stored session said at some time, whatever
\* the provider refused, whatever failed to decode and whoever else wrote.
THEOREM CacheTellsTheStore == Spec => []CacheFromProvider
<1>1. IInv => CacheFromProvider
  BY DEF IInv
<1> QED
  BY <1>1, Always, PTL

\* Only a Put through the handle replaces a value it has cached.
THEOREM ReadsAreStable == Spec => StableReads
<1>1. IInv /\ [Next]_vars =>
         [\A k \in DOMAIN keys :
            /\ k \in DOMAIN keys'
            /\ \/ keys'[k].bytes = keys[k].bytes
               \/ result'.op = "put" /\ k \in result'.ks]_vars
  BY Steps DEF Good, KeepsReads
<1> QED
  BY <1>1, Always, PTL DEF Spec, StableReads

\* To callers that pass a new variable to each Get, Get returns what the cached
\* bytes decode to, however many of them share what they got.
THEOREM GetTellsTheCache == Spec => GetReturnsStored
<1>1. IInv /\ [Next]_vars =>
         [result'.op = "get" /\ result'.t \notin Reused => result'.v = keys'[result'.k].bytes]_vars
  BY Steps DEF Good, GetsStored
<1> QED
  BY <1>1, Always, PTL DEF Spec, GetReturnsStored
=============================================================================
