-------------------------- MODULE MemoryRefinement --------------------------
(***************************************************************************)
(* Memory implements Provider, for any number of clients, tokens, any      *)
(* limit and any deadlines.                                                *)
(*                                                                         *)
(* The sessions of Provider are the elements that the map tokens leads to, *)
(* without those that a Destroy in progress has still to remove: it takes  *)
(* effect when it takes the list of the id, and removes them unseen.       *)
(***************************************************************************)
EXTENDS MemoryProof, FiniteSetTheorems

-----------------------------------------------------------------------------
(* The sessions of a store.                                                *)

View(s) == [t \in DOMAIN s.tokens |-> s.elem[s.tokens[t]]]

\* The view of a store has a session for every token in tokens.
LEMMA ViewFacts ==
    ASSUME NEW s
    PROVE  /\ DOMAIN View(s) = DOMAIN s.tokens
           /\ \A t \in DOMAIN s.tokens : View(s)[t] = s.elem[s.tokens[t]]
BY DEF View

\* Taking t and its element out of the maps takes the session t out.
LEMMA ViewOut ==
    ASSUME NEW s, Exact(s), NEW t \in DOMAIN s.tokens, NEW ids, NEW lru
    PROVE  View(Fields(Without(s.tokens, t), ids, lru, Without(s.elem, s.tokens[t])))
              = Without(View(s), t)
<1> DEFINE e == s.tokens[t]
           T == Without(s.tokens, t)
           M == Without(s.elem, e)
           r == Fields(T, ids, lru, M)
<1>1. /\ DOMAIN T = DOMAIN s.tokens \ {t} /\ DOMAIN M = DOMAIN s.elem \ {e}
      /\ \A x \in DOMAIN s.tokens \ {t} : T[x] = s.tokens[x]
      /\ \A d \in DOMAIN s.elem \ {e} : M[d] = s.elem[d]
  BY WithoutFacts
<1>2. \A x \in DOMAIN s.tokens \ {t} : s.tokens[x] # e /\ s.tokens[x] \in DOMAIN s.elem
  BY DEF Exact, TokensExact
<1> HIDE DEF T, M, e
<1>3. r.tokens = T /\ r.elem = M
  BY DEF Fields
<1> HIDE DEF r
<1>4. \A x \in DOMAIN s.tokens \ {t} : r.elem[r.tokens[x]] = s.elem[s.tokens[x]]
  BY <1>1, <1>2, <1>3
<1>5. View(r) = [x \in DOMAIN s.tokens \ {t} |-> s.elem[s.tokens[x]]]
  BY <1>1, <1>3, <1>4 DEF View
<1>6. Without(View(s), t) = [x \in DOMAIN s.tokens \ {t} |-> s.elem[s.tokens[x]]]
  <2>1. Without(View(s), t) = [x \in DOMAIN View(s) \ {t} |-> View(s)[x]]
    BY DEF Without, Restrict
  <2>2. \A x \in DOMAIN s.tokens \ {t} : View(s)[x] = s.elem[s.tokens[x]]
    BY ViewFacts
  <2> QED
    BY <2>1, <2>2, ViewFacts
<1> QED
  BY <1>5, <1>6 DEF r, T, M, e

\* unsafePop, and the token out of tokens: one session less.
LEMMA ViewPop ==
    ASSUME NEW s, Sound(s, {}), NEW t \in DOMAIN s.tokens
    PROVE  View(DeleteToken(unsafePop(s, s.tokens[t]), t)) = Without(View(s), t)
<1>1. Exact(s) /\ s = Fields(s.tokens, s.ids, s.lru, s.elem)
  BY StoreFields DEF Sound
<1>2. DeleteToken(unsafePop(s, s.tokens[t]), t) =
         Out(s.tokens, Unlist(s.ids, s.elem[s.tokens[t]], 1), s.lru, s.elem, t, s.tokens[t])
  BY <1>1, HelperFields
<1> QED
  BY <1>1, <1>2, ViewOut DEF Out

\* unsafeDestroyByToken takes the session t out, if there is one.
LEMMA ViewDestroyByToken ==
    ASSUME NEW s, Sound(s, {}), NEW t
    PROVE  View(unsafeDestroyByToken(s, t)) = Without(View(s), t)
<1>1. CASE t \in DOMAIN s.tokens
  BY <1>1, ViewPop DEF unsafeDestroyByToken
<1>2. CASE t \notin DOMAIN s.tokens
  <2>1. Without(View(s), t) = View(s)
    <3>1. Without(View(s), t) = [x \in DOMAIN View(s) \ {t} |-> View(s)[x]]
      BY DEF Without, Restrict
    <3>2. DOMAIN View(s) \ {t} = DOMAIN View(s)
      BY <1>2, ViewFacts
    <3>3. View(s) = [x \in DOMAIN View(s) |-> View(s)[x]]
      BY DEF View
    <3> QED
      BY <3>1, <3>2, <3>3
  <2> QED
    BY <1>2, <2>1 DEF unsafeDestroyByToken
<1> QED
  BY <1>1, <1>2

\* A turn of the sweep takes out the session at the front of the list.
LEMMA ViewDropFront ==
    ASSUME NEW s, Sound(s, {}), s.lru # <<>>
    PROVE  LET t == s.elem[Head(s.lru)].access IN
           /\ t \in DOMAIN s.tokens
           /\ View(s)[t] = s.elem[Head(s.lru)]
           /\ View(DropFront(s)) = Without(View(s), t)
<1> DEFINE e == Head(s.lru)
           t == s.elem[e].access
<1>1. Exact(s) /\ s = Fields(s.tokens, s.ids, s.lru, s.elem)
  BY StoreFields DEF Sound
<1>2. t \in DOMAIN s.tokens /\ s.tokens[t] = e
  BY FrontValue DEF Sound
<1>3. e = Head(s.lru) /\ t = s.elem[e].access
  OBVIOUS
<1> HIDE DEF e, t
<1>4. DropFront(s) = Out(s.tokens, Unlist(s.ids, s.elem[e], 0), s.lru, s.elem, t, e)
  BY <1>1, <1>3, DropFrontFields
<1>5. View(DropFront(s)) = Without(View(s), t)
  BY <1>1, <1>2, <1>4, ViewOut DEF Out
<1>6. View(s)[t] = s.elem[e]
  BY <1>2 DEF View
<1> QED
  BY <1>2, <1>3, <1>5, <1>6

\* The turn of the loop of Destroy.
LEMMA ViewDestroyOne ==
    ASSUME NEW s, Exact(s), NEW t \in DOMAIN s.tokens
    PROVE  View(DeleteToken(Remove(s, s.tokens[t]), t)) = Without(View(s), t)
<1>1. s = Fields(s.tokens, s.ids, s.lru, s.elem)
  BY StoreFields
<1>2. DeleteToken(Remove(s, s.tokens[t]), t) =
         Out(s.tokens, s.ids, s.lru, s.elem, t, s.tokens[t])
  BY <1>1, HelperFields
<1> QED
  BY <1>2, ViewOut DEF Out

\* A push stores one session under its access token.
LEMMA ViewPush ==
    ASSUME NEW s, Exact(s), NEW e \in Elements \ DOMAIN s.elem, NEW u
    PROVE  View(Push(s, e, u)) = With(View(s), u.access, u)
<1> DEFINE a == u.access
           r == Push(s, e, u)
<1>1. r.tokens = With(s.tokens, a, e) /\ r.elem = With(s.elem, e, u)
  BY DEF Push
<1> HIDE DEF r
<1>2. /\ DOMAIN r.tokens = DOMAIN s.tokens \cup {a} /\ r.tokens[a] = e /\ r.elem[e] = u
      /\ \A x \in DOMAIN s.tokens \ {a} : r.tokens[x] = s.tokens[x]
      /\ \A d \in DOMAIN s.elem : r.elem[d] = s.elem[d]
  BY <1>1 DEF With
<1>3. \A x \in DOMAIN s.tokens : s.tokens[x] \in DOMAIN s.elem
  BY DEF Exact, TokensExact
<1>4. \A x \in DOMAIN s.tokens \ {a} : r.elem[r.tokens[x]] = s.elem[s.tokens[x]]
  BY <1>2, <1>3
<1>5. View(r) = [x \in DOMAIN s.tokens \cup {a} |-> IF x = a THEN u ELSE s.elem[s.tokens[x]]]
  BY <1>2, <1>4 DEF View
<1>6. With(View(s), a, u)
        = [x \in DOMAIN s.tokens \cup {a} |-> IF x = a THEN u ELSE s.elem[s.tokens[x]]]
  <2>1. With(View(s), a, u)
          = [x \in DOMAIN View(s) \cup {a} |-> IF x = a THEN u ELSE View(s)[x]]
    BY DEF With
  <2>2. \A x \in DOMAIN s.tokens : View(s)[x] = s.elem[s.tokens[x]]
    BY ViewFacts
  <2>3. \A x \in DOMAIN s.tokens \cup {a} :
           (IF x = a THEN u ELSE View(s)[x]) = IF x = a THEN u ELSE s.elem[s.tokens[x]]
    BY <2>2
  <2>4. DOMAIN View(s) = DOMAIN s.tokens
    BY ViewFacts
  <2> QED
    BY <2>1, <2>3, <2>4
<1> QED
  BY <1>5, <1>6 DEF r

\* Put and Delete change one session.
LEMMA ViewSet ==
    ASSUME NEW s, Exact(s), NEW t \in DOMAIN s.tokens, NEW u
    PROVE  View([s EXCEPT !.elem[s.tokens[t]] = u]) = [View(s) EXCEPT ![t] = u]
<1> DEFINE e == s.tokens[t]
           M == [s.elem EXCEPT ![e] = u]
           r == [s EXCEPT !.elem[e] = u]
<1>1. s = Fields(s.tokens, s.ids, s.lru, s.elem)
  BY StoreFields
<1>2. r.tokens = s.tokens /\ r.elem = M
  BY <1>1 DEF Fields
<1> HIDE DEF r
<1>3. \A x \in DOMAIN s.tokens : s.tokens[x] \in DOMAIN s.elem /\ (s.tokens[x] = e => x = t)
  BY DEF Exact, TokensExact
<1>4. \A x \in DOMAIN s.tokens : M[s.tokens[x]] = IF x = t THEN u ELSE s.elem[s.tokens[x]]
  BY <1>3
<1> HIDE DEF M
<1>5. View(r) = [x \in DOMAIN s.tokens |-> IF x = t THEN u ELSE s.elem[s.tokens[x]]]
  BY <1>2, <1>4 DEF View
<1>6. [View(s) EXCEPT ![t] = u]
        = [x \in DOMAIN s.tokens |-> IF x = t THEN u ELSE s.elem[s.tokens[x]]]
  BY DEF View
<1> QED
  BY <1>5, <1>6 DEF r, M

\* The list has an element for every session.
LEMMA SessionCount ==
    ASSUME NEW s, Exact(s)
    PROVE  /\ IsFiniteSet(DOMAIN s.tokens)
           /\ Cardinality(DOMAIN s.tokens) = Len(s.lru)
<1> DEFINE n == Len(s.lru)
           f == [i \in 1..n |-> s.elem[s.lru[i]].access]
<1>1. /\ n \in Nat /\ DOMAIN s.lru = 1..n
      /\ \A i, j \in 1..n : s.lru[i] = s.lru[j] => i = j
      /\ \A i \in 1..n : s.lru[i] \in DOMAIN s.elem
      /\ \A e \in DOMAIN s.elem : \E i \in 1..n : s.lru[i] = e
  BY StoreFields DEF Exact, ListExact, IsInjective, Range
<1>2. f \in Bijection(1..n, DOMAIN s.tokens)
  <2>1. f \in [1..n -> DOMAIN s.tokens] /\ \A i \in 1..n : f[i] = s.elem[s.lru[i]].access
    BY <1>1 DEF Exact, TokensExact
  <2> HIDE DEF f
  <2>2. \A i, j \in 1..n : f[i] = f[j] => i = j
    <3>1. \A d, e \in DOMAIN s.elem : s.elem[d].access = s.elem[e].access => d = e
      BY DEF Exact, TokensExact
    <3> SUFFICES ASSUME NEW i \in 1..n, NEW j \in 1..n, f[i] = f[j]
                 PROVE  i = j
      OBVIOUS
    <3>2. s.lru[i] \in DOMAIN s.elem /\ s.lru[j] \in DOMAIN s.elem
      BY <1>1
    <3>3. s.lru[i] = s.lru[j]
      BY <2>1, <3>1, <3>2
    <3> QED
      BY <1>1, <3>3
  <2>3. \A t \in DOMAIN s.tokens : \E i \in 1..n : f[i] = t
    <3>1. \A t \in DOMAIN s.tokens : s.tokens[t] \in DOMAIN s.elem /\ s.elem[s.tokens[t]].access = t
      BY DEF Exact, TokensExact
    <3>2. SUFFICES ASSUME NEW t \in DOMAIN s.tokens
                   PROVE  \E i \in 1..n : f[i] = t
      OBVIOUS
    <3>3. PICK i \in 1..n : s.lru[i] = s.tokens[t]
      BY <1>1, <3>1
    <3> QED
      BY <2>1, <3>1, <3>3
  <2> QED
    BY <2>1, <2>2, <2>3 DEF Bijection, Injection, Surjection, IsInjective
<1>3. IsFiniteSet(1..n) /\ Cardinality(1..n) = n
  BY <1>1, FS_Interval
<1> QED
  BY <1>2, <1>3, FS_Bijection DEF ExistsBijection

\* Making room takes one session out of a store that is full, any of Provider's
\* choice.
LEMMA ViewMakeRoom ==
    ASSUME NEW s, Sound(s, {})
    PROVE  \/ /\ MaxSize > 0 /\ Cardinality(DOMAIN s.tokens) >= MaxSize
              /\ \E v \in DOMAIN s.tokens : View(MakeRoom(s)) = Without(View(s), v)
           \/ /\ ~(MaxSize > 0 /\ Cardinality(DOMAIN s.tokens) >= MaxSize)
              /\ MakeRoom(s) = s
<1>1. Exact(s) /\ Len(s.lru) \in Nat /\ MaxSize \in Int
  BY StoreFields, MemoryAssumption DEF Sound
<1>2. Cardinality(DOMAIN s.tokens) = Len(s.lru)
  BY <1>1, SessionCount
<1>3. CASE MaxSize > 0 /\ Len(s.lru) >= MaxSize
  <2> DEFINE t == s.elem[Head(s.lru)].access
  <2>1. t \in DOMAIN s.tokens /\ s.tokens[t] = Head(s.lru)
    BY <1>1, <1>3, FrontValue
  <2>2. MakeRoom(s) = DeleteToken(unsafePop(s, s.tokens[t]), t)
    BY <1>3, <2>1 DEF MakeRoom
  <2> HIDE DEF t
  <2>3. View(MakeRoom(s)) = Without(View(s), t)
    BY <2>1, <2>2, ViewPop
  <2> QED
    BY <1>2, <1>3, <2>1, <2>3
<1>4. CASE ~(MaxSize > 0 /\ Len(s.lru) >= MaxSize)
  BY <1>2, <1>4 DEF MakeRoom
<1> QED
  BY <1>3, <1>4

-----------------------------------------------------------------------------
(* The sessions of Provider.                                               *)

\* Provider's names are Memory's.
LEMMA AbstractNames ==
    /\ Abstract!Empty = Empty
    /\ Abstract!ReadOps = ReadOps
    /\ \A f, D : Abstract!Restrict(f, D) = Restrict(f, D)
    /\ \A f, x : Abstract!Without(f, x) = Without(f, x)
    /\ \A f, x, y : Abstract!With(f, x, y) = With(f, x, y)
    /\ \A e : Abstract!Err(e) = Err(e)
    /\ \A u, at : Abstract!IsExpired(u, at) = IsExpired(u, at)
    /\ \A u, at : Abstract!IsDeleted(u, at) = IsDeleted(u, at)
    /\ \A u, r : Abstract!Answer(u, r) = Answer(u, r)
    /\ \A u, kv : Abstract!SetCopy(u, kv) = SetCopy(u, kv)
    /\ \A u, ks : Abstract!DeleteKeys(u, ks) = DeleteKeys(u, ks)
    /\ \A p, kv, at : Abstract!newTokenValue(p, kv, at) = newTokenValue(p, kv, at)
    /\ \A u, p, at : Abstract!Refreshed(u, p, at) = Refreshed(u, p, at)
    /\ Abstract!Data = Data
BY DEF Abstract!Data, Data, Abstract!Partial, Partial, Abstract!Empty, Empty,
       Abstract!Restrict, Restrict, Abstract!Without, Without, Abstract!With, With,
       Abstract!Err, Err, Abstract!IsExpired, IsExpired, Abstract!IsDeleted, IsDeleted,
       Abstract!Answer, Answer, Abstract!CopyKeys, CopyKeys, Abstract!SetCopy, SetCopy,
       Abstract!Override, Override, Abstract!DeleteKeys, DeleteKeys,
       Abstract!newTokenValue, newTokenValue, Abstract!Refreshed, Refreshed,
       Abstract!ReadOps, ReadOps

\* Provider counts sessions as Memory counts list elements.
LEMMA AbstractCount == \A S : Abstract!Cardinality(S) = Cardinality(S)
BY DEF Abstract!Cardinality, Cardinality

\* What Memory stores, seen as Provider's sessions.
abs == [t \in DOMAIN mem.tokens \ Doomed |-> Val(t)]

\* While no client stays in the mutex, the sessions are those of the store.
LEMMA FreeNow ==
    ASSUME Mutex, lock \notin Clients
    PROVE  abs = View(mem) /\ Doomed = {}
<1>1. Doomed = {}
  BY NoneDoomed
<1>2. DOMAIN mem.tokens \ Doomed = DOMAIN mem.tokens
  BY <1>1
<1> QED
  BY <1>1, <1>2 DEF abs, View, Val

\* And after the step.
LEMMA FreeNext ==
    ASSUME Mutex', lock' \notin Clients
    PROVE  abs' = View(mem')
<1>1. \A c \in Clients : call'[c].op # "destroy"
  BY DEF Mutex
<1>2. Doomed' = {}
  BY <1>1, DoomedNone DEF Doomed, DoomedBy
<1>3. DOMAIN mem'.tokens \ Doomed' = DOMAIN mem'.tokens
  BY <1>2
<1> QED
  BY <1>3 DEF abs, View, Val

\* A step that begins or ends no Destroy, and leaves the store alone.
LEMMA Unseen ==
    ASSUME Typed, mem' = mem,
           \/ call' = call
           \/ \E c \in Clients : \E r :
                 Becomes(c, r) /\ call[c].op # "destroy" /\ r.op # "destroy"
    PROVE  abs' = abs
<1>1. Doomed' = Doomed
  <2>1. CASE call' = call
    BY <2>1 DEF Doomed
  <2>2. ASSUME NEW c \in Clients, NEW r, Becomes(c, r),
               call[c].op # "destroy", r.op # "destroy"
        PROVE  Doomed' = Doomed
    <3>1. call'[c] = r /\ \A d \in Clients \ {c} : call'[d] = call[d]
      BY <2>2, BecomesFacts
    <3>2. {d \in Clients : call'[d].op = "destroy"} = {d \in Clients : call[d].op = "destroy"}
      BY <2>2, <3>1
    <3>3. \A d \in {e \in Clients : call[e].op = "destroy"} : call'[d] = call[d]
      BY <2>2, <3>1
    <3> QED
      BY <3>2, <3>3 DEF Doomed
  <2> QED
    BY <2>1, <2>2
<1> QED
  BY <1>1 DEF abs, Val

-----------------------------------------------------------------------------
(* Actions of Provider, said of abs.                                       *)

\* The variables of Provider.
absVars == <<abs, done, answer, now>>

\* What leaves these four alone is no step of Provider.
LEMMA Stutter == UNCHANGED absVars => UNCHANGED Abstract!vars
BY DEF absVars, abs, Abstract!vars

\* Reject.
LEMMA Rejects ==
    ASSUME abs' = abs, UNCHANGED <<done, now>>,
           answer' \in {Err("ErrTokenInvalid"), Err("ErrTokenIDNotMatched")}
    PROVE  Abstract!Next
BY AbstractNames DEF Abstract!Next, Abstract!Reject, Abstract!Answered, abs

\* Refuse.
LEMMA Refuses ==
    ASSUME abs' = abs, UNCHANGED <<done, now>>, done, answer' = Err("ErrProviderClosed")
    PROVE  Abstract!Next
BY AbstractNames DEF Abstract!Next, Abstract!Refuse, Abstract!Answered, abs

\* NotExists.
LEMMA Misses ==
    ASSUME ~done, UNCHANGED <<done, now>>, NEW t \in Tokens,
           t \in DOMAIN abs => IsDeleted(abs[t], now),
           abs' = abs \/ abs' = Without(abs, t), answer' = Err("ErrTokenNotExists")
    PROVE  Abstract!Next
BY AbstractNames DEF Abstract!Next, Abstract!NotExists, Abstract!Answered, abs

\* DestroyByToken.
LEMMA DestroysByToken ==
    ASSUME ~done, UNCHANGED <<done, now>>, NEW t \in Tokens,
           abs' = Without(abs, t), answer' = Err("nil")
    PROVE  Abstract!Next
BY AbstractNames DEF Abstract!Next, Abstract!DestroyByToken, Abstract!Answered, abs

\* Read.
LEMMA Reads ==
    ASSUME ~done, UNCHANGED <<done, now>>, NEW t \in DOMAIN abs, NEW r \in ReadOps,
           ~IsDeleted(abs[t], now), abs' = abs,
           answer' = IF IsExpired(abs[t], now) THEN Err("ErrTokenExpired")
                     ELSE Answer(abs[t], r)
    PROVE  Abstract!Next
BY AbstractNames DEF Abstract!Next, Abstract!Read, Abstract!Answered, abs

\* Put and Delete.
LEMMA Updates ==
    ASSUME ~done, UNCHANGED <<done, now>>, NEW t \in DOMAIN abs,
           ~IsDeleted(abs[t], now), NEW u,
           \/ \E kv \in Data : u = SetCopy(abs[t], kv)
           \/ \E ks \in SUBSET Keys : u = DeleteKeys(abs[t], ks),
           IF IsExpired(abs[t], now)
           THEN answer' = Err("ErrTokenExpired") /\ abs' = abs
           ELSE answer' = Err("nil") /\ abs' = [abs EXCEPT ![t] = u]
    PROVE  Abstract!Next
BY AbstractNames
   DEF Abstract!Next, Abstract!Put, Abstract!Delete, Abstract!Update, Abstract!Answered, abs

\* Refresh.
LEMMA Refreshes ==
    ASSUME ~done, UNCHANGED <<done, now>>, NEW t \in DOMAIN abs,
           ~IsDeleted(abs[t], now), NEW r \in Tokens, NEW p \in Minted,
           IF abs[t].refresh # r
           THEN answer' = Err("ErrRefreshTokenNotMatched") /\ abs' = abs
           ELSE /\ answer' = Err("nil")
                /\ abs' = With(Without(abs, t), p[1], Refreshed(abs[t], p, now))
    PROVE  Abstract!Next
BY AbstractNames DEF Abstract!Next, Abstract!Refresh, Abstract!Answered, abs

\* Purge, of one session.
LEMMA Purges ==
    ASSUME UNCHANGED <<done, answer, now>>, NEW t \in DOMAIN abs,
           IsDeleted(abs[t], now), abs' = Without(abs, t)
    PROVE  Abstract!Next
<1>1. abs' = Restrict(abs, DOMAIN abs \ {t})
  BY DEF Without
<1> QED
  BY <1>1, AbstractNames DEF Abstract!Next, Abstract!Purge, abs

\* Tick.
LEMMA Ticks ==
    ASSUME abs' = abs, UNCHANGED <<done, answer>>, now < MaxTime, now' = now + 1
    PROVE  Abstract!Next
BY DEF Abstract!Next, Abstract!Tick, abs

\* Close.
LEMMA Closes ==
    ASSUME ~done, done', abs' = Empty, answer' = Err("nil"), now' = now
    PROVE  Abstract!Next
BY AbstractNames DEF Abstract!Next, Abstract!Close, abs

\* Destroy.
LEMMA Destroys ==
    ASSUME ~done, UNCHANGED <<done, now>>, answer' = Err("nil"), NEW id \in Ids,
           abs' = Restrict(abs, {t \in DOMAIN abs : abs[t].id # id})
    PROVE  Abstract!Next
BY AbstractNames
   DEF Abstract!Next, Abstract!Destroy, Abstract!RestrictDomain, Abstract!Restrict, Restrict,
       Abstract!Answered, abs

\* CreateLate.
LEMMA CreatesLate ==
    ASSUME UNCHANGED <<done, now>>, abs' = abs, answer' = Err("nil"),
           NEW at \in 0..now, at + RefreshTTL <= now
    PROVE  Abstract!Next
BY AbstractNames DEF Abstract!Next, Abstract!CreateLate, Abstract!Answered, abs

\* Create, where kept are the other sessions that stay.
LEMMA Creates ==
    ASSUME ~done, UNCHANGED <<done, now>>, answer' = Err("nil"),
           NEW p \in Minted, NEW kv \in Data, NEW at \in 0..now,
           NEW kept \in SUBSET (DOMAIN abs \ {p[1]}),
           IF MaxSize > 0 /\ Cardinality(DOMAIN abs \ {p[1]}) >= MaxSize
           THEN \E v \in DOMAIN abs \ {p[1]} : kept = (DOMAIN abs \ {p[1]}) \ {v}
           ELSE kept = DOMAIN abs \ {p[1]},
           abs' = With(Restrict(abs, kept), p[1], newTokenValue(p, kv, at))
    PROVE  Abstract!Next
<1>1. IF MaxSize > 0 /\ Cardinality(DOMAIN abs \ {p[1]}) >= MaxSize
      THEN \E v \in DOMAIN abs \ {p[1]} : kept = (DOMAIN abs \ {p[1]}) \ {v}
      ELSE kept = DOMAIN abs \ {p[1]}
  OBVIOUS
<1>2. abs' = Abstract!With(Abstract!Restrict(abs, kept), p[1], Abstract!newTokenValue(p, kv, at))
  BY AbstractNames
<1>3. answer' = Abstract!Err("nil")
  BY AbstractNames
<1>4. \E k \in SUBSET (DOMAIN abs \ {p[1]}) :
         /\ IF MaxSize > 0 /\ Abstract!Cardinality(DOMAIN abs \ {p[1]}) >= MaxSize
            THEN \E v \in DOMAIN abs \ {p[1]} : k = (DOMAIN abs \ {p[1]}) \ {v}
            ELSE k = DOMAIN abs \ {p[1]}
         /\ abs' = Abstract!With(Abstract!Restrict(abs, k), p[1],
                                 Abstract!newTokenValue(p, kv, at))
  <2> WITNESS kept \in SUBSET (DOMAIN abs \ {p[1]})
  <2> QED
    BY <1>1, <1>2, AbstractCount
<1>5. Abstract!Create(p, kv, at)
  BY <1>3, <1>4 DEF Abstract!Create, Abstract!Answered, abs
<1> QED
  BY <1>5, AbstractNames DEF Abstract!Next

-----------------------------------------------------------------------------
(* The session a Create waits with.                                        *)

\* It was made by newTokenValue, a while ago.
IsMade(u, at) ==
    \E p \in Minted, kv \in Data, from \in 0..at : u = newTokenValue(p, kv, from)

CreatesMade == \A c \in Clients : call[c].op = "create" => IsMade(call[c].t, now)

\* Every step keeps what is known of the session a Create waits with.
LEMMA MadeStep == IInv /\ CreatesMade /\ [Next]_vars => CreatesMade'
<1> SUFFICES ASSUME IInv, CreatesMade, [Next]_vars PROVE CreatesMade'
  OBVIOUS
<1>1. Typed /\ now \in Nat
  BY DEF IInv, Typed
<1>2. now' \in Nat /\ now' >= now => \A u : IsMade(u, now) => IsMade(u, now')
  <2>1. ASSUME now' \in Nat, now' >= now
        PROVE  0..now \subseteq 0..now'
    BY <1>1, <2>1
  <2> QED
    BY <2>1 DEF IsMade
<1>3. CASE call' = call /\ now' \in Nat /\ now' >= now
  BY <1>2, <1>3 DEF CreatesMade
<1>4. ASSUME NEW c \in Clients, NEW r, Becomes(c, r), now' = now,
             r.op = "create" => IsMade(r.t, now)
      PROVE  CreatesMade'
  <2>1. call'[c] = r /\ \A d \in Clients \ {c} : call'[d] = call[d]
    BY <1>1, <1>4, BecomesFacts
  <2> QED
    BY <1>4, <2>1 DEF CreatesMade
<1>5. Idle.op # "create"
  BY DEF Idle
<1>6. ASSUME NEW c \in Clients, Begin(c)
      PROVE  CreatesMade'
  <2>1. ASSUME NEW p \in Minted, NEW kv \in Data, CreateCall(c, p, kv)
        PROVE  CreatesMade'
    <3>1. now \in 0..now
      BY <1>1
    <3>2. IsMade(newTokenValue(p, kv, now), now)
      BY <3>1 DEF IsMade
    <3> QED
      BY <1>4, <2>1, <3>2 DEF CreateCall
  <2>2. CASE Refuse(c) \/ Close(c)
    BY <1>4, <1>5, <2>2 DEF Refuse, Close
  <2>3. ASSUME NEW id \in Ids, Destroy(c, id)
        PROVE  CreatesMade'
    BY <1>1, <1>3, <1>4, <2>3 DEF Destroy
  <2>4. ASSUME NEW t \in Tokens, ReadMissing(c, t)
        PROVE  CreatesMade'
    BY <1>1, <1>3, <1>4, <2>4 DEF ReadMissing
  <2>5. ASSUME NEW a, Return(a)
        PROVE  CreatesMade'
    BY <1>1, <1>3, <2>5 DEF Return
  <2> QED
    BY <1>6, <2>1, <2>2, <2>3, <2>4, <2>5
       DEF Begin, Reject, DestroyByToken, Missed, Read, Put, Delete, Update,
           RefreshReject, Refresh
<1>7. ASSUME NEW c \in Clients, Progress(c)
      PROVE  CreatesMade'
  BY <1>4, <1>5, <1>7
     DEF Progress, CreateLate, Create, DestroyNext, DestroyDone, CloseDone,
         SendQueue, SendHandoff, SendClosed, store
<1>8. CASE Check
  BY <1>1, <1>3, <1>8
     DEF Check, CheckRead, CheckMerged, CheckClosed, CheckLock, CheckToken, CheckDone, store
<1>9. CASE Clear
  BY <1>1, <1>3, <1>9 DEF Clear, ClearTick, ClearFront, ClearDone, ClearClosed, goroutines, store
<1>10. CASE Tick
  BY <1>1, <1>3, <1>10 DEF Tick
<1>11. CASE UNCHANGED vars
  BY <1>1, <1>3, <1>11 DEF vars
<1> QED
  BY <1>6, <1>7, <1>8, <1>9, <1>10, <1>11 DEF Next

-----------------------------------------------------------------------------
(* The goroutines check and clear.                                         *)

\* A step of Provider, or one it does not see.
Refined == Abstract!Next \/ UNCHANGED Abstract!vars

\* check is invisible, but where it removes a dead session.
LEMMA CheckRefines ==
    ASSUME IInv, IInv', Check
    PROVE  Refined
<1> USE DEF IInv
<1>1. CASE CheckRead \/ CheckMerged \/ CheckClosed \/ CheckLock \/ CheckDone
  <2>1. mem' = mem /\ call' = call /\ UNCHANGED <<done, answer, now>>
    BY <1>1 DEF CheckRead, CheckMerged, CheckClosed, CheckLock, CheckDone, store
  <2> QED
    BY <2>1, Unseen, Stutter DEF absVars, Refined
<1>2. ASSUME NEW t \in Tokens, CheckToken(t)
      PROVE  Refined
  <2>1. lock = "check" /\ lock' = lock /\ UNCHANGED <<done, answer, now>>
    BY <1>2 DEF CheckToken, Mutex
  <2>2. /\ abs = View(mem) /\ abs' = View(mem') /\ Sound(mem, {})
    BY <2>1, Names, FreeNow, FreeNext
  <2>3. CASE mem' = mem
    BY <2>1, <2>2, <2>3, Stutter DEF absVars, Refined
  <2>4. CASE ~Holds(t) /\ mem' = unsafeDestroyByToken(mem, t)
    <3>1. abs' = Without(abs, t)
      BY <2>2, <2>4, ViewDestroyByToken
    <3>2. CASE t \notin DOMAIN mem.tokens
      BY <2>3, <2>4, <3>2 DEF unsafeDestroyByToken
    <3>3. CASE t \in DOMAIN mem.tokens
      <4>1. t \in DOMAIN abs /\ IsDeleted(abs[t], now)
        BY <2>2, <2>4, <3>3, ViewFacts DEF Holds, Val
      <4> QED
        BY <2>1, <3>1, <4>1, Purges DEF Refined
    <3> QED
      BY <3>2, <3>3
  <2> QED
    BY <1>2, <2>3, <2>4 DEF CheckToken
<1> QED
  BY <1>1, <1>2 DEF Check

\* clear is invisible, but where it removes a dead session.
LEMMA ClearRefines ==
    ASSUME IInv, IInv', Clear
    PROVE  Refined
<1> USE DEF IInv
<1>1. CASE ClearTick \/ ClearDone \/ ClearClosed
  <2>1. mem' = mem /\ call' = call /\ UNCHANGED <<done, answer, now>>
    BY <1>1 DEF ClearTick, ClearDone, ClearClosed, store
  <2> QED
    BY <2>1, Unseen, Stutter DEF absVars, Refined
<1>2. CASE ClearFront
  <2>1. lock = "clear" /\ lock' = lock /\ UNCHANGED <<done, answer, now>>
    BY <1>2 DEF ClearFront, Mutex
  <2>2. abs = View(mem) /\ abs' = View(mem') /\ Sound(mem, {})
    BY <2>1, Names, FreeNow, FreeNext
  <2> DEFINE t == mem.elem[Head(mem.lru)].access
  <2>3. /\ mem.lru # <<>> /\ IsDeleted(mem.elem[Head(mem.lru)], now)
        /\ mem' = DropFront(mem)
    BY <1>2 DEF ClearFront, FrontDeleted
  <2>4. t \in DOMAIN mem.tokens /\ View(mem)[t] = mem.elem[Head(mem.lru)]
        /\ View(mem') = Without(View(mem), t)
    BY <2>2, <2>3, ViewDropFront
  <2> HIDE DEF t
  <2>5. t \in DOMAIN abs /\ IsDeleted(abs[t], now) /\ abs' = Without(abs, t)
    BY <2>2, <2>3, <2>4, ViewFacts
  <2> QED
    BY <2>1, <2>5, Purges DEF Refined
<1> QED
  BY <1>1, <1>2 DEF Clear

-----------------------------------------------------------------------------
(* The calls that get on.                                                  *)

\* The sessions of Provider, while a client stays in the mutex too.
LEMMA AbsView ==
    /\ abs = Restrict(View(mem), DOMAIN mem.tokens \ Doomed)
    /\ abs' = Restrict(View(mem'), DOMAIN mem'.tokens \ Doomed')
<1>1. \A s, D : Restrict(View(s), DOMAIN s.tokens \ D)
                  = [t \in DOMAIN s.tokens \ D |-> s.elem[s.tokens[t]]]
  BY ViewFacts DEF Restrict
<1> QED
  BY <1>1 DEF abs, Val

\* Keys taken out of a map, one after the other.
LEMMA RestrictAgain ==
    ASSUME NEW f, NEW x
    PROVE  /\ \A y : Without(Without(f, x), y) = Restrict(f, (DOMAIN f \ {x}) \ {y})
           /\ \A D : x \notin D /\ D \subseteq DOMAIN f
                        => Restrict(Without(f, x), D) = Restrict(f, D)
BY WithoutFacts DEF Without, Restrict

\* The critical section of Create: drop the session that is replaced, make
\* room, push.
LEMMA CreateRefines ==
    ASSUME IInv, IInv', CreatesMade, NEW c \in Clients, Create(c)
    PROVE  Refined
<1> DEFINE u == call[c].t
           d == unsafeDestroyByToken(mem, u.access)
           s == MakeRoom(d)
<1>1. /\ ~done /\ UNCHANGED <<done, now>> /\ answer' = Err("nil")
      /\ lock = "free" /\ lock' = lock
  BY DEF Create, goroutines
<1>2. abs = View(mem) /\ abs' = View(mem') /\ Sound(mem, {})
  BY <1>1, Names, FreeNow, FreeNext DEF IInv
<1>3. PICK p \in Minted, kv \in Data, at \in 0..now : u = newTokenValue(p, kv, at)
  BY DEF Create, CreatesMade, IsMade
<1>4. u.access = p[1]
  BY <1>3 DEF newTokenValue
<1>5. PICK e \in Elements \ DOMAIN s.elem : mem' = Push(s, e, u)
  BY DEF Create
<1>6. /\ Sound(d, {})
      /\ DOMAIN d.tokens = DOMAIN mem.tokens \ {p[1]}
      /\ View(d) = Without(View(mem), p[1])
      /\ Len(d.lru) <= Len(mem.lru)
  BY <1>2, <1>4, DestroyByTokenSound, ViewDestroyByToken
<1> HIDE DEF d
<1>7. MaxSize > 0 => Len(d.lru) <= MaxSize
  <2>1. Len(d.lru) \in Nat /\ Len(mem.lru) \in Nat /\ MaxSize \in Int
    BY <1>2, <1>6, StoreFields, MemoryAssumption DEF Sound
  <2> QED
    BY <1>6, <2>1 DEF IInv, WithinMaxSize
<1>8. Exact(s)
  BY <1>6, <1>7, MakeRoomSound DEF Sound
<1> DEFINE others == DOMAIN abs \ {p[1]}
<1>9. DOMAIN d.tokens = others
  BY <1>2, <1>6, ViewFacts
<1>10. \/ /\ MaxSize > 0 /\ Cardinality(others) >= MaxSize
          /\ \E v \in others : View(s) = Without(View(d), v)
       \/ /\ ~(MaxSize > 0 /\ Cardinality(others) >= MaxSize)
          /\ s = d
  BY <1>6, <1>9, ViewMakeRoom
<1> HIDE DEF s
<1>11. abs' = With(View(s), p[1], u)
  BY <1>2, <1>4, <1>5, <1>8, ViewPush
<1> HIDE DEF u
<1>12. ASSUME NEW kept \in SUBSET others,
              IF MaxSize > 0 /\ Cardinality(others) >= MaxSize
              THEN \E v \in others : kept = others \ {v}
              ELSE kept = others,
              View(s) = Restrict(abs, kept)
       PROVE  Refined
  BY <1>1, <1>3, <1>11, <1>12, Creates DEF Refined
<1>13. ASSUME MaxSize > 0 /\ Cardinality(others) >= MaxSize,
              NEW v \in others, View(s) = Without(View(d), v)
       PROVE  Refined
  <2>1. View(s) = Restrict(abs, others \ {v})
    BY <1>2, <1>6, <1>13, RestrictAgain
  <2>2. others \ {v} \in SUBSET others
    OBVIOUS
  <2> QED
    BY <1>12, <1>13, <2>1, <2>2
<1>14. CASE ~(MaxSize > 0 /\ Cardinality(others) >= MaxSize) /\ s = d
  <2>1. View(s) = Restrict(abs, others)
    BY <1>2, <1>6, <1>14 DEF Without
  <2>2. others \in SUBSET others
    OBVIOUS
  <2> QED
    BY <1>12, <1>14, <2>1, <2>2
<1> QED
  BY <1>10, <1>13, <1>14

\* A turn of the loop of Destroy removes a session that Provider has already
\* given up.
LEMMA DestroyNextRefines ==
    ASSUME IInv, NEW c \in Clients, DestroyNext(c)
    PROVE  Refined
<1> DEFINE todo == call[c].todo
           t == Head(todo)
<1>1. /\ todo \in Seq(Tokens) /\ todo # <<>> /\ call[c].op = "destroy"
      /\ IsInjective(todo) /\ Range(todo) \subseteq DOMAIN mem.tokens
      /\ Exact(mem)
  BY CallFields DEF DestroyNext, IInv, Typed, DestroyFindsElements, Sound
<1>2. /\ Doomed = Range(todo)
      /\ \A d \in Clients \ {c} : call[d].op # "destroy"
  BY <1>1, OneDoomed DEF IInv, Mutex
<1>3. t \in Range(todo) /\ Range(Tail(todo)) = Range(todo) \ {t}
  BY <1>1, TailFacts
<1>4. mem' = DeleteToken(Remove(mem, mem.tokens[t]), t)
  BY DEF DestroyNext
<1>5. /\ call'[c].op = "destroy" /\ call'[c].todo = Tail(todo)
      /\ \A d \in Clients \ {c} : call'[d] = call[d]
  <2> DEFINE r == [op |-> "destroy", todo |-> Tail(todo)]
  <2>1. Becomes(c, r) /\ r.op = "destroy" /\ r.todo = Tail(todo)
    BY DEF DestroyNext
  <2> HIDE DEF r, todo
  <2>2. call'[c] = r /\ \A d \in Clients \ {c} : call'[d] = call[d]
    BY <2>1, BecomesFacts DEF IInv
  <2> QED
    BY <2>1, <2>2
<1>6. UNCHANGED <<done, answer, now>>
  BY DEF DestroyNext
<1> HIDE DEF todo, t
<1>7. Doomed' = Range(todo) \ {t}
  BY <1>2, <1>3, <1>5, DoomedOne DEF Doomed, DoomedBy
<1>8. DOMAIN mem'.tokens = DOMAIN mem.tokens \ {t} /\ View(mem') = Without(View(mem), t)
  BY <1>1, <1>3, <1>4, DestroyOne, ViewDestroyOne
<1>9. /\ DOMAIN mem'.tokens \ Doomed' = DOMAIN mem.tokens \ Doomed
      /\ t \notin DOMAIN mem.tokens \ Doomed
      /\ DOMAIN mem.tokens \ Doomed \subseteq DOMAIN View(mem)
  BY <1>2, <1>3, <1>7, <1>8, ViewFacts
<1>10. abs' = abs
  <2>1. Restrict(Without(View(mem), t), DOMAIN mem.tokens \ Doomed)
           = Restrict(View(mem), DOMAIN mem.tokens \ Doomed)
    BY <1>9, RestrictAgain
  <2>2. abs' = Restrict(View(mem'), DOMAIN mem.tokens \ Doomed)
    BY <1>9, AbsView
  <2> QED
    BY <1>8, <2>1, <2>2, AbsView
<1> QED
  BY <1>6, <1>10, Stutter DEF absVars, Refined

\* A call that gets on is a step of Provider, or invisible.
LEMMA ProgressRefines ==
    ASSUME IInv, IInv', CreatesMade, NEW c \in Clients, Progress(c)
    PROVE  Refined
<1>1. Idle.op # "destroy" /\ Typed /\ Mutex
  BY DEF Idle, IInv
<1>2. CASE CreateLate(c)
  <2>1. abs' = abs /\ UNCHANGED <<done, now>> /\ answer' = Err("nil")
    BY <1>1, <1>2, Unseen DEF CreateLate, goroutines
  <2>2. PICK p \in Minted, kv \in Data, at \in 0..now : call[c].t = newTokenValue(p, kv, at)
    BY <1>2 DEF CreateLate, CreatesMade, IsMade
  <2>3. ~(at + RefreshTTL > now)
    BY <1>2, <2>2 DEF CreateLate, IsDeleted, newTokenValue
  <2>4. at + RefreshTTL <= now
    BY <1>1, <2>3, TTLAssumption DEF Typed
  <2> QED
    BY <2>1, <2>4, CreatesLate DEF Refined
<1>3. CASE Create(c)
  BY <1>3, CreateRefines
<1>4. CASE DestroyNext(c)
  BY <1>4, DestroyNextRefines
<1>5. CASE DestroyDone(c)
  <2>1. /\ mem' = mem /\ lock' = "free" /\ UNCHANGED <<done, answer, now>>
        /\ call[c].op = "destroy" /\ call[c].todo = <<>>
    BY <1>5 DEF DestroyDone
  <2>2. Doomed = {}
    BY <1>1, <2>1, OneDoomed DEF Range
  <2>3. DOMAIN mem.tokens \ Doomed = DOMAIN mem.tokens
    BY <2>2
  <2>4. abs = View(mem)
    BY <2>3 DEF abs, View, Val
  <2>5. abs' = View(mem')
    BY <2>1, Names, FreeNext DEF IInv
  <2> QED
    BY <2>1, <2>4, <2>5, Stutter DEF absVars, Refined
<1>6. CASE CloseDone(c)
  <2>1. /\ mem' = EmptyStore /\ done' /\ lock' = "free" /\ answer' = Err("nil")
        /\ now' = now /\ call[c].op = "close"
    BY <1>6 DEF CloseDone
  <2>2. lock = c
    BY <1>1, <2>1 DEF Mutex
  <2>3. ~done
    BY <2>2, Names DEF IInv, DoneEmpty
  <2>4. abs' = View(EmptyStore)
    BY <2>1, Names, FreeNext DEF IInv
  <2>5. View(EmptyStore) = Empty
    BY DEF View, EmptyStore, Empty
  <2> QED
    BY <2>1, <2>3, <2>4, <2>5, Closes DEF Refined
<1>7. CASE SendQueue(c) \/ SendHandoff(c) \/ SendClosed(c)
  <2>1. abs' = abs /\ UNCHANGED <<done, answer, now>>
    BY <1>1, <1>7, Unseen DEF SendQueue, SendHandoff, SendClosed, store
  <2> QED
    BY <2>1, Stutter DEF absVars, Refined
<1> QED
  BY <1>2, <1>3, <1>4, <1>5, <1>6, <1>7 DEF Progress

-----------------------------------------------------------------------------
(* The calls that begin.                                                   *)

\* In Provider a Destroy is over when it takes the list of the id.
LEMMA DestroyRefines ==
    ASSUME IInv, NEW c \in Clients, NEW id \in Ids, Destroy(c, id)
    PROVE  Refined
<1>1. /\ ~done /\ UNCHANGED <<done, now>> /\ answer' = Err("nil")
      /\ lock \notin Clients
  BY Names DEF Destroy, Enter
<1>2. abs = View(mem) /\ Doomed = {} /\ \A d \in Clients : call[d].op # "destroy"
  BY <1>1, FreeNow, NoneDoomed DEF IInv
<1>3. Sound(mem, {}) /\ Typed
  BY <1>2 DEF IInv
<1> DEFINE own == {t \in DOMAIN mem.tokens : IdOf[t] = id}
<1>4. mem'.tokens = mem.tokens /\ mem'.elem = mem.elem
  <2>1. mem = Fields(mem.tokens, mem.ids, mem.lru, mem.elem)
    BY <1>3, StoreFields DEF Sound
  <2>2. \A T, I, L, M, J : [Fields(T, I, L, M) EXCEPT !.ids = J] = Fields(T, J, L, M)
    BY DEF Fields
  <2>3. mem' = mem \/ mem' = Fields(mem.tokens, Without(mem.ids, id), mem.lru, mem.elem)
    <3>1. mem' = mem \/ mem' = [mem EXCEPT !.ids = Without(mem.ids, id)]
      BY DEF Destroy
    <3> QED
      BY <2>1, <2>2, <3>1
  <2> QED
    BY <2>3 DEF Fields
<1>5. Doomed' = own
  <2>1. CASE id \notin DOMAIN mem.ids
    <3>1. call' = call
      BY <2>1 DEF Destroy
    <3>2. Doomed' = {}
      BY <1>2, <3>1 DEF Doomed
    <3>3. own = {}
      BY <1>3, <2>1 DEF Sound, IdsExact
    <3> QED
      BY <3>2, <3>3
  <2>2. CASE id \in DOMAIN mem.ids
    <3>1. /\ call'[c].op = "destroy" /\ call'[c].todo = mem.ids[id]
          /\ \A d \in Clients \ {c} : call'[d] = call[d]
      BY <1>3, <2>2, BecomesFacts DEF Destroy
    <3>2. Doomed' = Range(mem.ids[id])
      BY <1>2, <3>1, DoomedOne DEF Doomed, DoomedBy
    <3> QED
      BY <1>3, <2>2, <3>2 DEF Sound, IdsExact
  <2> QED
    BY <2>1, <2>2
<1>6. View(mem') = View(mem)
  BY <1>4 DEF View
<1>7. abs' = Restrict(View(mem), DOMAIN mem.tokens \ own)
  BY <1>4, <1>5, <1>6, AbsView
<1>8. \A t \in DOMAIN mem.tokens : View(mem)[t].id = IdOf[t]
  BY <1>3, StoredValue, ViewFacts DEF Sound
<1>9. {t \in DOMAIN abs : abs[t].id # id} = DOMAIN mem.tokens \ own
  BY <1>2, <1>8, ViewFacts
<1>10. abs' = Restrict(abs, {t \in DOMAIN abs : abs[t].id # id})
  BY <1>2, <1>7, <1>9
<1> QED
  BY <1>1, <1>10, Destroys DEF Refined

\* A call that is over in one section of the mutex.
LEMMA Section ==
    ASSUME IInv, IInv', NEW c \in Clients, Enter(c), NEW a, Return(a)
    PROVE  /\ ~done /\ UNCHANGED <<done, now>> /\ answer' = a
           /\ abs = View(mem) /\ abs' = View(mem') /\ Sound(mem, {})
<1>1. /\ ~done /\ UNCHANGED <<done, now>> /\ answer' = a
      /\ lock = "free" /\ lock' = lock
  BY DEF Return, Enter
<1>2. abs = View(mem) /\ abs' = View(mem') /\ Sound(mem, {})
  BY <1>1, Names, FreeNow, FreeNext DEF IInv
<1> QED
  BY <1>1, <1>2

\* Put and Delete.
LEMMA UpdateRefines ==
    ASSUME IInv, IInv', NEW c \in Clients, NEW t \in DOMAIN mem.tokens, NEW u, Update(c, t, u),
           \/ \E kv \in Data : u = SetCopy(Val(t), kv)
           \/ \E ks \in SUBSET Keys : u = DeleteKeys(Val(t), ks)
    PROVE  Refined
<1>1. Enter(c) /\ Holds(t)
  BY DEF Update
<1>2. PICK a : Return(a)
  BY DEF Update
<1>3. /\ ~done /\ UNCHANGED <<done, now>>
      /\ abs = View(mem) /\ abs' = View(mem') /\ Exact(mem)
  BY <1>1, <1>2, Section DEF Sound
<1>4. t \in DOMAIN abs /\ abs[t] = Val(t) /\ ~IsDeleted(abs[t], now)
  BY <1>1, <1>3, ViewFacts DEF Holds, Val
<1>5. IF IsExpired(abs[t], now)
      THEN answer' = Err("ErrTokenExpired") /\ abs' = abs
      ELSE answer' = Err("nil") /\ abs' = [abs EXCEPT ![t] = u]
  <2>1. CASE IsExpired(Val(t), now)
    <3>1. answer' = Err("ErrTokenExpired") /\ mem' = mem
      BY <2>1 DEF Update, Return
    <3> QED
      BY <1>3, <1>4, <2>1, <3>1
  <2>2. CASE ~IsExpired(Val(t), now)
    <3>1. answer' = Err("nil") /\ mem' = [mem EXCEPT !.elem[mem.tokens[t]] = u]
      BY <2>2 DEF Update, Return
    <3>2. View(mem') = [View(mem) EXCEPT ![t] = u]
      BY <1>3, <3>1, ViewSet
    <3> QED
      BY <1>3, <1>4, <2>2, <3>1, <3>2
  <2> QED
    BY <2>1, <2>2
<1>6. \/ \E kv \in Data : u = SetCopy(abs[t], kv)
      \/ \E ks \in SUBSET Keys : u = DeleteKeys(abs[t], ks)
  BY <1>4
<1> HIDE DEF abs
<1> QED
  BY <1>3, <1>4, <1>5, <1>6, Updates DEF Refined

\* Refresh pops the session and pushes it under its new tokens.
LEMMA RefreshRefines ==
    ASSUME IInv, IInv', NEW c \in Clients, NEW t \in Tokens, NEW r \in Tokens,
           NEW p \in Minted, Refresh(c, t, r, p)
    PROVE  Refined
<1>1. Enter(c) /\ Holds(t)
  BY DEF Refresh
<1>2. PICK a : Return(a)
  BY DEF Refresh
<1>3. /\ ~done /\ UNCHANGED <<done, now>>
      /\ abs = View(mem) /\ abs' = View(mem') /\ Sound(mem, {})
  BY <1>1, <1>2, Section
<1>4. t \in DOMAIN mem.tokens
  BY <1>1 DEF Holds
<1>5. t \in DOMAIN abs /\ abs[t] = Val(t) /\ ~IsDeleted(abs[t], now)
  BY <1>1, <1>3, <1>4, ViewFacts DEF Holds, Val
<1>6. CASE Val(t).refresh # r
  <2>1. answer' = Err("ErrRefreshTokenNotMatched") /\ mem' = mem
    BY <1>6 DEF Refresh, Return
  <2>2. abs' = abs
    BY <1>3, <2>1
  <2> QED
    BY <1>3, <1>5, <1>6, <2>1, <2>2, Refreshes DEF Refined
<1>7. CASE Val(t).refresh = r
  <2> DEFINE s == DeleteToken(unsafePop(mem, mem.tokens[t]), t)
             u == Refreshed(Val(t), p, now)
  <2>1. /\ answer' = Err("nil")
        /\ \E e \in Elements \ DOMAIN s.elem : mem' = Push(s, e, u)
    BY <1>7 DEF Refresh, Return
  <2>2. Exact(s) /\ View(s) = Without(View(mem), t)
    BY <1>3, <1>4, PopSound, ViewPop DEF Sound
  <2>3. u.access = p[1]
    <3>1. Val(t) \in TokenValue
      BY <1>3, <1>4, StoredValue DEF Sound, Val
    <3> QED
      BY <3>1, MintFacts DEF IInv, Typed
  <2>4. u = Refreshed(abs[t], p, now)
    BY <1>5
  <2> HIDE DEF s, u
  <2>5. abs' = With(Without(abs, t), p[1], u)
    BY <1>3, <2>1, <2>2, <2>3, ViewPush
  <2>6. abs' = With(Without(abs, t), p[1], Refreshed(abs[t], p, now))
    BY <2>4, <2>5
  <2> QED
    BY <1>3, <1>5, <1>7, <2>1, <2>6, Refreshes DEF Refined
<1> QED
  BY <1>6, <1>7

\* A call that begins is a step of Provider, or invisible.
LEMMA BeginRefines ==
    ASSUME IInv, IInv', NEW c \in Clients, Begin(c)
    PROVE  Refined
<1>1. Typed /\ Idle.op # "destroy"
  BY DEF IInv, Idle
<1>2. CASE Refuse(c)
  <2>1. abs' = abs /\ UNCHANGED <<done, now>> /\ done /\ answer' = Err("ErrProviderClosed")
    BY <1>1, <1>2, Unseen DEF Refuse
  <2> QED
    BY <2>1, Refuses DEF Refined
<1>3. CASE Close(c)
  <2>1. abs' = abs /\ UNCHANGED <<done, answer, now>>
    BY <1>1, <1>3, Unseen DEF Close, Enter
  <2> QED
    BY <2>1, Stutter DEF absVars, Refined
<1>4. ASSUME NEW p \in Minted, NEW kv \in Data, CreateCall(c, p, kv)
      PROVE  Refined
  <2>1. abs' = abs /\ UNCHANGED <<done, answer, now>>
    BY <1>1, <1>4, Unseen DEF CreateCall
  <2> QED
    BY <2>1, Stutter DEF absVars, Refined
<1>5. ASSUME NEW id \in Ids, Destroy(c, id)
      PROVE  Refined
  BY <1>5, DestroyRefines
<1>6. ASSUME NEW e \in {"ErrTokenInvalid", "ErrTokenIDNotMatched"}, Return(Err(e)), mem' = mem
      PROVE  Refined
  <2>1. abs' = abs /\ UNCHANGED <<done, now>> /\ answer' = Err(e)
    BY <1>1, <1>6, Unseen DEF Return
  <2> QED
    BY <2>1, Rejects DEF Refined
<1>7. ASSUME NEW t \in Tokens, Reject(c, t)
      PROVE  Refined
  BY <1>6, <1>7 DEF Reject
<1>8. ASSUME NEW t \in Tokens, NEW r \in Tokens, NEW p \in Minted, RefreshReject(c, t, r, p)
      PROVE  Refined
  BY <1>6, <1>8 DEF RefreshReject
<1>9. ASSUME NEW t \in Tokens, DestroyByToken(c, t)
      PROVE  Refined
  <2>1. /\ ~done /\ UNCHANGED <<done, now>> /\ answer' = Err("nil")
        /\ abs = View(mem) /\ abs' = View(mem') /\ Sound(mem, {})
    BY <1>9, Section DEF DestroyByToken
  <2>2. abs' = Without(abs, t)
    BY <1>9, <2>1, ViewDestroyByToken DEF DestroyByToken
  <2> QED
    BY <2>1, <2>2, DestroysByToken DEF Refined
<1>10. ASSUME NEW t \in Tokens, ReadMissing(c, t)
       PROVE  Refined
  <2>1. /\ abs' = abs /\ ~done /\ UNCHANGED <<done, now>>
        /\ answer' = Err("ErrTokenNotExists") /\ lock \notin Clients /\ ~Holds(t)
    BY <1>1, <1>10, Names, Unseen DEF ReadMissing, Enter
  <2>2. abs = View(mem)
    BY <2>1, FreeNow DEF IInv
  <2>3. t \in DOMAIN abs => IsDeleted(abs[t], now)
    BY <2>1, <2>2, ViewFacts DEF Holds, Val
  <2> QED
    BY <2>1, <2>3, Misses DEF Refined
<1>11. ASSUME NEW t \in Tokens, Missed(c, t)
       PROVE  Refined
  <2>1. /\ ~done /\ UNCHANGED <<done, now>> /\ answer' = Err("ErrTokenNotExists")
        /\ abs = View(mem) /\ abs' = View(mem') /\ Sound(mem, {})
    BY <1>11, Section DEF Missed
  <2>2. abs' = Without(abs, t)
    BY <1>11, <2>1, ViewDestroyByToken DEF Missed
  <2>3. t \in DOMAIN abs => IsDeleted(abs[t], now)
    BY <1>11, <2>1, ViewFacts DEF Missed, Holds, Val
  <2> QED
    BY <2>1, <2>2, <2>3, Misses DEF Refined
<1>12. ASSUME NEW t \in Tokens, NEW r \in ReadOps, Read(c, t, r)
       PROVE  Refined
  <2> DEFINE a == IF IsExpired(Val(t), now) THEN Err("ErrTokenExpired") ELSE Answer(Val(t), r)
  <2>1. Enter(c) /\ Return(a) /\ mem' = mem /\ Holds(t)
    BY <1>12 DEF Read
  <2> HIDE DEF a
  <2>2. /\ ~done /\ UNCHANGED <<done, now>> /\ answer' = a
        /\ abs = View(mem) /\ abs' = View(mem')
    BY <2>1, Section
  <2>3. t \in DOMAIN abs /\ abs[t] = Val(t) /\ ~IsDeleted(abs[t], now)
    BY <2>1, <2>2, ViewFacts DEF Holds, Val
  <2>4. answer' = IF IsExpired(abs[t], now) THEN Err("ErrTokenExpired") ELSE Answer(abs[t], r)
    BY <2>2, <2>3 DEF a
  <2>5. abs' = abs
    BY <2>1, <2>2
  <2> QED
    BY <2>2, <2>3, <2>4, <2>5, Reads DEF Refined
<1>13. ASSUME NEW t \in Tokens,
              (\E kv \in Data : Put(c, t, kv)) \/ (\E ks \in SUBSET Keys : Delete(c, t, ks))
       PROVE  Refined
  BY <1>13, UpdateRefines DEF Put, Delete
<1>14. ASSUME NEW t \in Tokens, NEW r \in Tokens, NEW p \in Minted, Refresh(c, t, r, p)
       PROVE  Refined
  BY <1>14, RefreshRefines
<1> QED
  BY <1>2, <1>3, <1>4, <1>5, <1>7, <1>8, <1>9, <1>10, <1>11, <1>12, <1>13, <1>14 DEF Begin

-----------------------------------------------------------------------------
(* The theorem.                                                            *)

\* A new provider has no sessions.
LEMMA InitRefines == Init => Abstract!Init
<1> SUFFICES ASSUME Init PROVE Abstract!Init
  OBVIOUS
<1>1. \A c \in Clients : call[c].op # "destroy"
  BY DEF Init, Idle
<1>2. Doomed = {} /\ DOMAIN mem.tokens = {}
  BY <1>1 DEF Doomed, Init, EmptyStore, Empty
<1>3. abs = Empty
  BY <1>2 DEF abs, Empty
<1> QED
  BY <1>3, AbstractNames DEF Init, Abstract!Init, abs

\* Every step of Memory is a step of Provider, or invisible.
LEMMA StepRefines == IInv /\ IInv' /\ CreatesMade /\ [Next]_vars => [Abstract!Next]_(Abstract!vars)
<1> SUFFICES ASSUME IInv, IInv', CreatesMade, [Next]_vars
             PROVE  Refined
  BY DEF Refined
<1>1. Typed
  BY DEF IInv
<1>2. CASE Tick
  <2>1. abs' = abs /\ UNCHANGED <<done, answer>> /\ now < MaxTime /\ now' = now + 1
    BY <1>1, <1>2, Unseen DEF Tick
  <2> QED
    BY <2>1, Ticks DEF Refined
<1>3. CASE UNCHANGED vars
  <2>1. abs' = abs /\ UNCHANGED <<done, answer, now>>
    BY <1>1, <1>3, Unseen DEF vars
  <2> QED
    BY <2>1, Stutter DEF absVars, Refined
<1> QED
  BY <1>2, <1>3, CheckRefines, ClearRefines, BeginRefines, ProgressRefines DEF Next

\* Every call on MemoryProvider takes effect at one instant, as Provider says,
\* whatever the other callers and the goroutines check and clear do meanwhile.
THEOREM MemoryImplementsProvider == Spec => ImplementsProvider
<1>1. Init => CreatesMade
  BY DEF Init, CreatesMade, Idle
<1>2. Spec => [](IInv /\ CreatesMade)
  BY <1>1, InitIInv, IInvStep, MadeStep, PTL DEF Spec
<1>3. IInv /\ CreatesMade /\ (IInv /\ CreatesMade)' /\ [Next]_vars
        => [Abstract!Next]_(Abstract!vars)
  BY StepRefines
<1> QED
  BY <1>2, <1>3, InitRefines, PTL DEF ImplementsProvider, Abstract!Spec, Spec
=============================================================================
