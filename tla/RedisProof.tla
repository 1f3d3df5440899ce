----------------------------- MODULE RedisProof -----------------------------
(***************************************************************************)
(* Proofs about Redis, for any number of clients, sessions, batch size and *)
(* any lifetime of the tokens.                                             *)
(*                                                                         *)
(* A hash goes with its key and has a time to live because every           *)
(* transaction that may make a key writes metadata of the key's own token  *)
(* and a time to live.  The purge spares live sessions because a token has *)
(* one metadata for all times: a Put in progress holds the very metadata   *)
(* that is stored, and no Create or Refresh in progress is about to store  *)
(* under a token that others know.                                         *)
(*                                                                         *)
(* The refinement needs of the invariant what a call has looked at before  *)
(* its last request (Looked): the session of a Put had not expired, the    *)
(* tokens of a Refresh have one id, the keys of a Destroy are of its id.   *)
(***************************************************************************)
EXTENDS Redis, SessionsProof, TLAPS

-----------------------------------------------------------------------------
(* Whole seconds.                                                          *)

LEMMA WholeFacts ==
    ASSUME NEW at \in Nat
    PROVE  Whole(at) \in Nat /\ Whole(at) <= at /\ Whole(at) + Second > at
<1>1. Second \in Nat /\ Second > 0
  BY RedisAssumption
<1>2. at % Second \in 0..(Second - 1)
  BY <1>1
<1>3. at % Second <= at
  <2>1. at = Second * (at \div Second) + (at % Second) /\ at \div Second \in Int
    BY <1>1
  <2>2. at \div Second >= 0
    BY <1>1
  <2>3. Second * (at \div Second) >= 0
    BY <1>1, <2>1, <2>2
  <2> QED
    BY <1>1, <1>2, <2>1, <2>3
<1> QED
  BY <1>1, <1>2, <1>3 DEF Whole

\* A lifetime is a second or more, so that it does not become 0.
LEMMA WholeTTL == Whole(RefreshTTL) > 0
<1> DEFINE w == Whole(RefreshTTL)
           q == RefreshTTL \div Second
<1>1. Second \in Nat /\ Second > 0 /\ RefreshTTL \in Nat /\ Second <= RefreshTTL
  BY RedisAssumption, TTLAssumption
<1>2. q \in Int /\ q >= 1
  BY <1>1
<1>3. RefreshTTL = Second * q + (RefreshTTL % Second)
  BY <1>1
<1>4. Second * q > 0
  BY <1>1, <1>2
<1>5. RefreshTTL % Second \in Int
  BY <1>1
<1> HIDE DEF q
<1> QED
  BY <1>1, <1>2, <1>3, <1>4, <1>5 DEF Whole

-----------------------------------------------------------------------------
(* The server.                                                             *)

\* What KeyNamesSession and KeptUntilDeadline say of one key of a store s at
\* the time n, and that its session lives on from the first instant.
HashOK(s, t, n) ==
    /\ s[t].ttl > n
    /\ s[t].md # NoMetadata => /\ s[t].md.access = t
                               /\ s[t].ttl + Second > s[t].md.refreshDeadline
                               /\ s[t].md.refreshDeadline >= RefreshTTL

StoreOK(s, n) ==
    /\ IsPartial(s, Tokens, Hashes)
    /\ \A t \in DOMAIN s : HashOK(s, t, n)

\* No session of the store s has other metadata than in r, the tokens W aside.
SameMetadata(s, r, W) ==
    \A t \in DOMAIN s \ W : s[t].md # NoMetadata =>
        t \in DOMAIN r /\ r[t].md = s[t].md

LEMMA HashFields ==
    ASSUME NEW h \in Hashes
    PROVE  /\ h.ttl \in Nat /\ h.data \in Data
           /\ h.md # NoMetadata => h.md \in Metadata
BY DEF Hashes

\* Fields of a hash set.
LEMMA HashEdit ==
    ASSUME NEW h \in Hashes, NEW md \in Metadata \cup {NoMetadata}, NEW kv \in Data
    PROVE  LET g == [h EXCEPT !.md = md, !.data = kv] IN
           g \in Hashes /\ g.md = md /\ g.ttl = h.ttl
BY DEF Hashes

\* The time to live of a hash set.
LEMMA HashTime ==
    ASSUME NEW h \in Hashes, NEW n \in Nat
    PROVE  LET g == [h EXCEPT !.ttl = n] IN
           g \in Hashes /\ g.md = h.md /\ g.ttl = n
BY DEF Hashes

\* Two data maps merged, and one without some of its keys.
LEMMA DataFacts ==
    ASSUME NEW kv \in Data
    PROVE  /\ \A more \in Data : Override(kv, more) \in Data
           /\ \A ks : Restrict(kv, DOMAIN kv \ ks) \in Data
           /\ Empty \in Data
<1>1. IsPartial(kv, Keys, Values)
  BY PartialIff DEF Data
<1>2. ASSUME NEW more \in Data
      PROVE  Override(kv, more) \in Data
  <2>1. IsPartial(more, Keys, Values)
    BY PartialIff DEF Data
  <2>2. IsPartial(Override(kv, more), Keys, Values)
    BY <1>1, <2>1 DEF IsPartial, Override
  <2> QED
    BY <2>2, PartialIff DEF Data
<1>3. ASSUME NEW ks
      PROVE  Restrict(kv, DOMAIN kv \ ks) \in Data
  <2>1. IsPartial(Restrict(kv, DOMAIN kv \ ks), Keys, Values)
    BY <1>1 DEF IsPartial, Restrict
  <2> QED
    BY <2>1, PartialIff DEF Data
<1>4. Empty \in Data
  <2>1. IsPartial(Empty, Keys, Values)
    BY DEF Empty, IsPartial
  <2> QED
    BY <2>1, PartialIff DEF Data
<1> QED
  BY <1>2, <1>3, <1>4

\* DEL, and the expiry of keys.
LEMMA RestrictOK ==
    ASSUME NEW s, NEW n, StoreOK(s, n), NEW D \in SUBSET DOMAIN s
    PROVE  StoreOK(Restrict(s, D), n) /\ SameMetadata(Restrict(s, D), s, {})
BY DEF StoreOK, HashOK, IsPartial, Restrict, SameMetadata

\* HDEL leaves the metadata of a hash or takes it away.
LEMMA HDelOK ==
    ASSUME NEW s, NEW n, StoreOK(s, n), NEW t, NEW ks
    PROVE  StoreOK(HDel(s, t, ks), n) /\ SameMetadata(HDel(s, t, ks), s, {})
<1>1. CASE t \notin DOMAIN s
  BY <1>1 DEF HDel, SameMetadata
<1>2. CASE t \in DOMAIN s
  <2> DEFINE md == IF MetadataKey \in ks THEN NoMetadata ELSE s[t].md
             kv == Restrict(s[t].data, DOMAIN s[t].data \ ks)
             h == [s[t] EXCEPT !.md = md, !.data = kv]
  <2>1. s[t] \in Hashes
    BY <1>2 DEF StoreOK, IsPartial
  <2>2. kv \in Data /\ md \in Metadata \cup {NoMetadata}
    BY <2>1, HashFields, DataFacts
  <2>3. h \in Hashes /\ h.md = md /\ h.ttl = s[t].ttl
    <3> HIDE DEF md, kv
    <3> QED
      BY <2>1, <2>2 DEF Hashes
  <2>4. \/ HDel(s, t, ks) = Without(s, t)
        \/ HDel(s, t, ks) = [s EXCEPT ![t] = h]
    BY <1>2 DEF HDel
  <2> HIDE DEF h, kv
  <2>5. CASE HDel(s, t, ks) = Without(s, t)
    BY <2>5, RestrictOK DEF Without
  <2>6. CASE HDel(s, t, ks) = [s EXCEPT ![t] = h]
    BY <1>2, <2>3, <2>6 DEF StoreOK, IsPartial, HashOK, SameMetadata
  <2> QED
    BY <2>4, <2>5, <2>6
<1> QED
  BY <1>1, <1>2

\* HSET followed by EXPIREAT for the refresh deadline, of whatever key.
LEMMA Written ==
    ASSUME NEW n \in Nat, StoreOK(store, n), now \in Nat,
           NEW t \in Tokens, NEW md \in Metadata, NEW kv \in Data
    PROVE  LET s == ExpireAt(HSet(store, t, md, kv), t, md.refreshDeadline) IN
           /\ IsPartial(s, Tokens, Hashes)
           /\ DOMAIN s \ {t} = DOMAIN store \ {t}
           /\ \A u \in DOMAIN s \ {t} : s[u] = store[u]
           /\ t \in DOMAIN s =>
                 /\ s[t].md = md
                 /\ s[t].ttl = Whole(md.refreshDeadline)
                 /\ s[t].ttl > now
<1> DEFINE at == Whole(md.refreshDeadline)
           h == IF t \in DOMAIN store
                THEN [store[t] EXCEPT !.md = md, !.data = Override(@, kv)]
                ELSE [md |-> md, data |-> kv, ttl |-> 0]
           w == With(store, t, h)
<1>1. at \in Nat
  BY WholeFacts DEF Metadata
<1>2. h \in Hashes /\ h.md = md
  <2>1. CASE t \in DOMAIN store
    <3>1. store[t] \in Hashes
      BY <2>1 DEF StoreOK, IsPartial
    <3>2. Override(store[t].data, kv) \in Data
      BY <3>1, HashFields, DataFacts
    <3> QED
      BY <2>1, <3>1, <3>2 DEF Hashes
  <2>2. CASE t \notin DOMAIN store
    BY <2>2 DEF Hashes
  <2> QED
    BY <2>1, <2>2
<1>3. HSet(store, t, md, kv) = w
  BY DEF HSet
<1> HIDE DEF h, at
<1>4. IsPartial(w, Tokens, Hashes) /\ DOMAIN w = DOMAIN store \cup {t} /\ w[t] = h
      /\ \A u \in DOMAIN store \ {t} : w[u] = store[u]
  BY <1>2 DEF StoreOK, IsPartial, With
<1> HIDE DEF w
<1>5. CASE at <= now
  <2>1. ExpireAt(w, t, md.refreshDeadline) = Without(w, t)
    BY <1>4, <1>5 DEF ExpireAt, at
  <2> QED
    BY <1>3, <1>4, <2>1 DEF Without, Restrict, IsPartial
<1>6. CASE ~(at <= now)
  <2>1. ExpireAt(w, t, md.refreshDeadline) = [w EXCEPT ![t].ttl = at]
    BY <1>4, <1>6 DEF ExpireAt, at
  <2>2. [h EXCEPT !.ttl = at] \in Hashes /\ [h EXCEPT !.ttl = at].md = md
        /\ [h EXCEPT !.ttl = at].ttl = at
    BY <1>1, <1>2, HashTime
  <2>3. [w EXCEPT ![t].ttl = at] = [w EXCEPT ![t] = [h EXCEPT !.ttl = at]]
    BY <1>4
  <2> QED
    BY <1>1, <1>3, <1>4, <1>6, <2>1, <2>2, <2>3 DEF IsPartial, at
<1> QED
  BY <1>5, <1>6

-----------------------------------------------------------------------------
(* The inductive invariant.                                                *)

\* TypeOK without the store.
Typed ==
    /\ done \in BOOLEAN
    /\ call \in [Clients -> Calls]
    /\ ch \in Seq(Tokens)
    /\ deleter \in Deleters
    /\ answer \in RedisAnswers
    /\ now \in Nat
    /\ IsPartial(origin, Tokens, Tokens)
    /\ \A t \in DOMAIN origin : Valid(t)
    /\ revived \subseteq DOMAIN origin

Pending(c) == call[c].op \in {"create", "refresh"}

\* A call about to store a session has the new token for itself, and its
\* deadlines do not run from the future.
PendingOK ==
    \A c \in Clients : Pending(c) =>
        /\ call[c].at <= now
        /\ \A d \in Clients \ {c} : Pending(d) => call[d].p # call[c].p
        /\ call[c].op = "refresh" =>
              call[c].token \in DOMAIN origin /\ call[c].token # call[c].p[1]

\* Others know the token t, so that nobody is about to store under it.
Settled(t) ==
    /\ t \in DOMAIN origin
    /\ \A c \in Clients : Pending(c) => call[c].p[1] # t

\* A Put in progress writes back what is stored, if anything is, and what any
\* other Put writes back.
PutsOK ==
    \A c \in Clients : call[c].op = "put" =>
        /\ Settled(call[c].token)
        /\ call[c].md.access = call[c].token
        /\ call[c].token \in Stored => store[call[c].token].md = call[c].md
        /\ \A d \in Clients :
              call[d].op = "put" /\ call[d].token = call[c].token => call[d].md = call[c].md

\* What a call has looked at before its last request.
Looked(r) ==
    /\ r.op = "put" => ~IsExpired(r.md, r.at) /\ r.md.refreshDeadline >= RefreshTTL
    /\ r.op = "refresh" => IdOf[r.p[1]] = IdOf[r.token]
    /\ r.op = "destroy" => \A t \in r.keys : IdOf[t] = r.id

LookedOK == \A c \in Clients : Looked(call[c])

\* The keys on their way to the purge.
Reported ==
    Range(ch) \cup deleter.m
      \cup {call[c].token : c \in {d \in Clients : call[d].op = "send"}}

\* A key on its way to the purge is dead, or was stored again by a call that
\* began before.
ReportedOK == \A t \in Reported : Settled(t) /\ (Dead(t) \/ t \in revived)

IInv ==
    /\ Typed
    /\ StoreOK(store, now)
    /\ PendingOK
    /\ PutsOK
    /\ LookedOK
    /\ ReportedOK

LEMMA InitIInv == Init => IInv
<1> SUFFICES ASSUME Init PROVE IInv
  OBVIOUS
<1>1. Err("nil") \in RedisAnswers
  <2>1. Err("nil") \in Answers
    BY ErrType DEF Errors
  <2> QED
    BY <2>1 DEF Answers, RedisAnswers
<1>2. call \in [Clients -> Calls]
  BY DEF Init, Calls, Idle
<1>3. IsPartial(origin, Tokens, Tokens) /\ DOMAIN origin = {}
  BY DEF Init, IsPartial, Empty
<1>4. Typed
  <2>1. ch \in Seq(Tokens) /\ deleter \in Deleters
    BY DEF Init, Deleters
  <2>2. done \in BOOLEAN /\ answer \in RedisAnswers /\ now \in Nat /\ revived = {}
    BY <1>1 DEF Init
  <2> QED
    BY <1>2, <1>3, <2>1, <2>2 DEF Typed
<1>5. StoreOK(store, now)
  BY DEF Init, StoreOK, IsPartial, Empty
<1>6. Reported = {}
  BY DEF Init, Reported, Range, Idle
<1> QED
  BY <1>4, <1>5, <1>6
     DEF Init, IInv, PendingOK, PutsOK, LookedOK, Looked, ReportedOK, Pending, Idle

\* The conjuncts of the store are the properties.
LEMMA StoreProperties ==
    /\ StoreOK(store, now) => KeyNamesSession /\ KeptUntilDeadline
    /\ IInv => TypeOK
BY DEF StoreOK, HashOK, KeyNamesSession, KeptUntilDeadline, Stored, IInv, Typed, TypeOK

\* What a call remembers.
LEMMA CallFields ==
    ASSUME Typed, NEW c \in Clients
    PROVE  /\ Pending(c) => call[c].p \in Minted /\ call[c].at \in Nat
           /\ call[c].op = "create" => call[c].kv \in Data
           /\ call[c].op \in {"put", "refresh", "send"} => call[c].token \in Tokens
           /\ call[c].op = "put" => call[c].kv \in Data
           /\ call[c].op \in {"put", "refresh"} => call[c].md \in Metadata
           /\ call[c].op = "destroy" => call[c].keys \subseteq Tokens
<1>1. call[c] \in Calls
  BY DEF Typed
<1> QED
  BY <1>1 DEF Calls, Pending

\* The metadata of a stored session.
LEMMA StoredMetadata ==
    ASSUME IInv, NEW t \in Stored
    PROVE  /\ t \in Tokens /\ t \in DOMAIN store
           /\ store[t] \in Hashes
           /\ store[t].md \in Metadata
           /\ store[t].md.access = t
           /\ store[t].md.refreshDeadline \in Nat
<1>1. t \in Tokens /\ store[t] \in Hashes /\ HashOK(store, t, now)
  BY DEF IInv, StoreOK, IsPartial, Stored
<1> QED
  BY <1>1, HashFields DEF HashOK, Stored, Metadata

\* New metadata.
LEMMA NewMetadata ==
    ASSUME NEW p \in Minted, NEW at \in Nat
    PROVE  /\ p[1] \in Tokens /\ Valid(p[1])
           /\ newMetadata(p, at) \in Metadata
           /\ newMetadata(p, at).access = p[1]
           /\ newMetadata(p, at).refreshDeadline = at + RefreshTTL
<1>1. p[1] \in Tokens /\ p[2] \in Tokens /\ IdOf[p[1]] # NoId
  BY MintedAssumption, TokenAssumption
<1> QED
  BY <1>1, TTLAssumption DEF newMetadata, Metadata, Valid

-----------------------------------------------------------------------------
(* The kinds of steps.                                                     *)

\* The calls that are on their way after the step were so before, and no key
\* is reported that was not.
Winds ==
    /\ \A c \in Clients : call'[c] = call[c] \/ call'[c] = Idle
    /\ Reported' \subseteq Reported

\* The store changes under the tokens W at most; other sessions may go.
Touches(W) ==
    /\ SameMetadata(store', store, W)
    /\ revived' = revived \cup ((Stored' \ Stored) \cap DOMAIN origin)

\* No call begins and no session is written.
Quiet ==
    /\ Winds
    /\ Touches({})
    /\ now' \in Nat /\ now' >= now
    /\ UNCHANGED origin

\* A last request of c writes under the token t: a Put the metadata that was
\* there, another call under a token that only it knows.
Stores(c, t) ==
    /\ Winds
    /\ Touches({t})
    /\ UNCHANGED now
    /\ \/ /\ call[c].op = "put" /\ t = call[c].token
          /\ t \in Stored' => store'[t].md = call[c].md
          /\ UNCHANGED origin
       \/ /\ Pending(c) /\ t = call[c].p[1]
          /\ DOMAIN origin \subseteq DOMAIN origin'

\* One call begins, or becomes a report.
Begins(c) ==
    /\ call[c] = Idle
    /\ \A d \in Clients \ {c} : call'[d] = call[d]
    /\ UNCHANGED <<store, ch, deleter, now, origin, revived>>

\* What every kind of step keeps of what it does not write.
LEMMA Unwritten ==
    ASSUME IInv, NEW W, Touches(W), now' \in Nat, now' >= now, NEW t, t \notin W
    PROVE  /\ t \in Stored' => t \in Stored /\ store'[t].md = store[t].md
           /\ Dead(t) => Dead(t)'
<1>1. t \in Stored' => t \in Stored /\ store'[t].md = store[t].md
  BY DEF Touches, SameMetadata, Stored
<1>2. ASSUME Dead(t), t \in Stored'
      PROVE  IsDeleted(store'[t].md, now')
  <2>1. t \in Stored /\ store'[t].md = store[t].md
    BY <1>1, <1>2
  <2>2. store[t].md.refreshDeadline \in Nat /\ ~(store[t].md.refreshDeadline > now)
    BY <1>2, <2>1, StoredMetadata DEF Dead, IsDeleted
  <2>3. ~(store[t].md.refreshDeadline > now') /\ now \in Nat
    BY <2>2 DEF IInv, Typed
  <2> QED
    BY <2>1, <2>3 DEF IsDeleted
<1> QED
  BY <1>1, <1>2 DEF Dead

LEMMA QuietKeeps ==
    ASSUME IInv, Quiet
    PROVE  PendingOK' /\ PutsOK' /\ LookedOK' /\ ReportedOK'
<1> USE DEF Quiet
<1>1. \A c \in Clients : call'[c] = call[c] \/ call'[c].op = "idle"
  BY DEF Winds, Idle
<1>2. PendingOK'
  <2> SUFFICES ASSUME NEW c \in Clients, Pending(c)'
               PROVE  /\ call'[c].at <= now'
                      /\ \A d \in Clients \ {c} : Pending(d)' => call'[d].p # call'[c].p
                      /\ call'[c].op = "refresh" =>
                            call'[c].token \in DOMAIN origin' /\ call'[c].token # call'[c].p[1]
    BY DEF PendingOK
  <2>1. Pending(c) /\ call'[c] = call[c]
    BY <1>1 DEF Pending
  <2>2. call[c].at \in Nat /\ now \in Nat
    BY <2>1, CallFields DEF IInv, Typed
  <2> QED
    BY <1>1, <2>1, <2>2 DEF IInv, PendingOK, Pending
<1>3. \A t : Settled(t) => Settled(t)'
  BY <1>1 DEF Settled, Pending
<1>4. \A t : /\ t \in Stored' => t \in Stored /\ store'[t].md = store[t].md
             /\ Dead(t) => Dead(t)'
  BY Unwritten
<1>5. PutsOK'
  <2> SUFFICES ASSUME NEW c \in Clients, call'[c].op = "put"
               PROVE  /\ Settled(call[c].token)'
                      /\ call'[c].md.access = call'[c].token
                      /\ call'[c].token \in Stored' => store'[call'[c].token].md = call'[c].md
                      /\ \A d \in Clients :
                            call'[d].op = "put" /\ call'[d].token = call'[c].token
                              => call'[d].md = call'[c].md
    BY DEF PutsOK
  <2>1. call'[c] = call[c]
    BY <1>1
  <2>2. Settled(call[c].token)'
    BY <1>3, <2>1 DEF IInv, PutsOK
  <2>3. call'[c].token \in Stored' => store'[call'[c].token].md = call'[c].md
    BY <1>4, <2>1 DEF IInv, PutsOK
  <2> QED
    BY <1>1, <2>1, <2>2, <2>3 DEF IInv, PutsOK
<1>6. ReportedOK'
  <2> SUFFICES ASSUME NEW t \in Reported'
               PROVE  Settled(t)' /\ (Dead(t)' \/ t \in revived')
    BY DEF ReportedOK
  <2>1. t \in Reported
    BY DEF Winds
  <2>2. Settled(t) /\ (Dead(t) \/ t \in revived)
    BY <2>1 DEF IInv, ReportedOK
  <2>3. revived \subseteq revived'
    BY DEF Touches
  <2> QED
    BY <1>3, <1>4, <2>2, <2>3
<1>7. LookedOK'
  BY <1>1 DEF IInv, LookedOK, Looked
<1> QED
  BY <1>2, <1>5, <1>6, <1>7

LEMMA StoresKeeps ==
    ASSUME IInv, NEW c \in Clients, NEW t, Stores(c, t)
    PROVE  PendingOK' /\ PutsOK' /\ LookedOK' /\ ReportedOK'
<1> USE DEF Stores
<1>1. \A d \in Clients : call'[d] = call[d] \/ call'[d].op = "idle"
  BY DEF Winds, Idle
<1>2. now \in Nat /\ now' \in Nat /\ now' >= now /\ DOMAIN origin \subseteq DOMAIN origin'
  BY DEF IInv, Typed
<1>7. \A u : u # t => /\ u \in Stored' => u \in Stored /\ store'[u].md = store[u].md
                      /\ Dead(u) => Dead(u)'
  BY <1>2, Unwritten
<1>3. PendingOK'
  BY <1>1, <1>2 DEF IInv, PendingOK, Pending
<1>4. \A u : Settled(u) => Settled(u)'
  BY <1>1, <1>2 DEF Settled, Pending
<1>5. PutsOK'
  <2> SUFFICES ASSUME NEW d \in Clients, call'[d].op = "put"
               PROVE  /\ Settled(call[d].token)'
                      /\ call'[d].md.access = call'[d].token
                      /\ call'[d].token \in Stored' => store'[call'[d].token].md = call'[d].md
                      /\ \A e \in Clients :
                            call'[e].op = "put" /\ call'[e].token = call'[d].token
                              => call'[e].md = call'[d].md
    BY DEF PutsOK
  <2>1. call'[d] = call[d]
    BY <1>1
  <2>2. Settled(call[d].token)
    BY <2>1 DEF IInv, PutsOK
  <2>3. ASSUME call[d].token = t
        PROVE  /\ call[d].md = call[c].md
               /\ t \in Stored' => store'[t].md = call[c].md
    BY <2>1, <2>2, <2>3 DEF IInv, PutsOK, Settled
  <2>4. call'[d].token \in Stored' => store'[call'[d].token].md = call'[d].md
    <3>1. CASE call[d].token = t
      BY <2>1, <2>3, <3>1
    <3>2. CASE call[d].token # t
      BY <1>7, <2>1, <3>2 DEF IInv, PutsOK
    <3> QED
      BY <3>1, <3>2
  <2> QED
    BY <1>1, <1>4, <2>1, <2>2, <2>4 DEF IInv, PutsOK
<1>6. ReportedOK'
  <2> SUFFICES ASSUME NEW u \in Reported'
               PROVE  Settled(u)' /\ (Dead(u)' \/ u \in revived')
    BY DEF ReportedOK
  <2>1. u \in Reported
    BY DEF Winds
  <2>2. Settled(u) /\ (Dead(u) \/ u \in revived)
    BY <2>1 DEF IInv, ReportedOK
  <2>3. revived' = revived \cup ((Stored' \ Stored) \cap DOMAIN origin)
    BY DEF Touches
  <2>4. CASE u # t
    BY <1>7, <1>4, <2>2, <2>3, <2>4
  <2>5. CASE u = t
    <3>1. /\ call[c].op = "put" /\ t = call[c].token
          /\ t \in Stored' => store'[t].md = call[c].md
      BY <2>2, <2>5 DEF Settled
    <3>2. CASE u \in Stored' /\ u \in Stored
      <4>1. store'[u].md = store[u].md
        BY <2>5, <3>1, <3>2 DEF IInv, PutsOK
      <4> QED
        BY <1>4, <2>2, <2>3, <3>2, <4>1 DEF Dead
    <3>3. CASE u \in Stored' /\ u \notin Stored
      BY <1>4, <2>2, <2>3, <3>3 DEF Settled
    <3>4. CASE u \notin Stored'
      BY <1>4, <2>2, <3>4 DEF Dead
    <3> QED
      BY <3>2, <3>3, <3>4
  <2> QED
    BY <2>4, <2>5
<1>8. LookedOK'
  BY <1>1 DEF IInv, LookedOK, Looked
<1> QED
  BY <1>3, <1>5, <1>6, <1>8

-----------------------------------------------------------------------------
(* Steps that write no session.                                            *)

\* The history variable of Next.
Revives == revived' = revived \cup ((Stored' \ Stored) \cap DOMAIN origin)

LEMMA ErrRedis == \A e \in Errors : Err(e) \in RedisAnswers
<1>1. \A e \in Errors : Err(e) \in Answers
  BY ErrType
<1> QED
  BY <1>1 DEF Answers, RedisAnswers

\* A call of c ends, or goes on as it was.
Ends(c) == call' = [call EXCEPT ![c] = Idle] \/ UNCHANGED call

LEMMA EndsWinds ==
    ASSUME Typed, NEW c \in Clients, Ends(c), UNCHANGED <<ch, deleter>>
    PROVE  Winds /\ call' \in [Clients -> Calls]
<1>1. call' \in [Clients -> Calls] /\ \A d \in Clients : call'[d] = call[d] \/ call'[d] = Idle
  BY DEF Ends, Typed, Calls, Idle
<1>2. Reported' \subseteq Reported
  BY <1>1 DEF Reported, Idle
<1> QED
  BY <1>1, <1>2 DEF Winds

\* What is enough for a quiet step of a client.
LEMMA QuietIf ==
    ASSUME IInv, Revives, NEW c \in Clients, Ends(c),
           UNCHANGED <<ch, deleter, now, origin>>, done' \in BOOLEAN,
           answer' \in RedisAnswers, StoreOK(store', now), SameMetadata(store', store, {})
    PROVE  Quiet /\ StoreOK(store', now') /\ Typed'
<1>1. Winds /\ call' \in [Clients -> Calls]
  BY EndsWinds DEF IInv
<1>2. Typed'
  BY <1>1 DEF Typed, IInv, Revives
<1> QED
  BY <1>1, <1>2 DEF Quiet, Touches, Revives, IInv, Typed

\* A quiet step that leaves the store alone.
LEMMA StillIf ==
    ASSUME IInv, Revives, NEW c \in Clients, Ends(c),
           UNCHANGED <<store, ch, deleter, now, origin>>, done' \in BOOLEAN,
           answer' \in RedisAnswers
    PROVE  Quiet /\ StoreOK(store', now') /\ Typed'
<1>1. StoreOK(store', now) /\ SameMetadata(store', store, {})
  BY DEF IInv, SameMetadata
<1> QED
  BY <1>1, QuietIf

LEMMA ReturnIf ==
    ASSUME IInv, Revives, NEW c \in Clients, NEW s, NEW a \in RedisAnswers, Return(s, a),
           StoreOK(s, now), SameMetadata(s, store, {})
    PROVE  Quiet /\ StoreOK(store', now') /\ Typed'
<1>1. /\ Ends(c) /\ store' = s /\ answer' = a
      /\ UNCHANGED <<ch, deleter, now, origin, done>>
  BY DEF Return, Ends, goroutine
<1> QED
  BY <1>1, QuietIf DEF IInv, Typed

\* Answers of the calls.
LEMMA ErrorNames ==
    {"nil", "ErrTokenInvalid", "ErrTokenIDNotMatched", "ErrProviderClosed", "ErrTokenNotExists",
     "ErrTokenExpired", "ErrRefreshTokenNotMatched"} \subseteq Errors
BY DEF Errors

\* Calls that leave the store alone and return at once.
LEMMA ReturnSame ==
    ASSUME IInv, Revives, NEW c \in Clients, NEW a \in RedisAnswers, Return(store, a)
    PROVE  Quiet /\ StoreOK(store', now') /\ Typed'
<1>1. StoreOK(store, now) /\ SameMetadata(store, store, {})
  BY DEF IInv, SameMetadata
<1> QED
  BY <1>1, ReturnIf

\* Calls that end without a look at the store, or with no reply.
LEMMA EndQuiet ==
    ASSUME IInv, Revives, NEW c \in Clients,
           \/ RefreshReject(c) \/ Refuse(c) \/ Fail(c) \/ CreateLate(c) \/ Close(c)
           \/ SendClosed(c)
    PROVE  Quiet /\ StoreOK(store', now') /\ Typed'
<1> USE ErrorNames, ErrRedis
<1>1. CASE RefreshReject(c)
  BY <1>1, ReturnSame DEF RefreshReject
<1>2. CASE Refuse(c) \/ CreateLate(c)
  <2>1. Ends(c) /\ UNCHANGED <<store, ch, deleter, now, origin, done>> /\ answer' \in RedisAnswers
    BY <1>2 DEF Refuse, CreateLate, server, goroutine, Becomes, Ends
  <2> QED
    BY <2>1, StillIf DEF IInv, Typed
<1>3. CASE Fail(c) \/ SendClosed(c)
  <2>1. Ends(c) /\ UNCHANGED <<store, ch, deleter, now, origin, done, answer>>
    BY <1>3 DEF Fail, SendClosed, server, goroutine, Becomes, Ends
  <2> QED
    BY <2>1, StillIf DEF IInv, Typed
<1>4. CASE Close(c)
  <2>1. /\ Ends(c) /\ UNCHANGED <<store, ch, deleter, now, origin>>
        /\ done' \in BOOLEAN /\ answer' \in RedisAnswers
    BY <1>4 DEF Close, server, goroutine, Ends
  <2> QED
    BY <2>1, StillIf
<1> QED
  BY <1>1, <1>2, <1>3, <1>4

\* Calls that are over with one command.
LEMMA CommandQuiet ==
    ASSUME IInv, Revives, NEW c \in Clients, NEW t \in Tokens,
           \/ Reject(c, t) \/ KeysOf(c, t) \/ DestroyByToken(c, t) \/ RefreshMissing(c, t)
           \/ \E ks \in SUBSET (Keys \cup {MetadataKey}) : Delete(c, t, ks)
    PROVE  Quiet /\ StoreOK(store', now') /\ Typed'
<1> USE ErrorNames, ErrRedis
<1>1. CASE Reject(c, t) \/ RefreshMissing(c, t)
  BY <1>1, ReturnSame DEF Reject, RefreshMissing
<1>2. CASE KeysOf(c, t)
  <2>1. Err("nil") \in RedisAnswers
    OBVIOUS
  <2>2. t \in DOMAIN store => DOMAIN store[t].data \subseteq Keys
    <3>1. t \in DOMAIN store => store[t].data \in Data
      BY HashFields DEF IInv, StoreOK, IsPartial
    <3> QED
      BY <3>1, PartialIff DEF Data, IsPartial
  <2>3. PICK ks \in SUBSET (Keys \cup {MetadataKey}) : Return(store, [Err("nil") EXCEPT !.keys = ks])
    BY <1>2, <2>2 DEF KeysOf
  <2>4. [Err("nil") EXCEPT !.keys = ks] \in RedisAnswers
    BY <2>1 DEF RedisAnswers
  <2> QED
    BY <2>3, <2>4, ReturnSame
<1>3. CASE DestroyByToken(c, t)
  <2>1. StoreOK(Del(store, {t}), now) /\ SameMetadata(Del(store, {t}), store, {})
    BY RestrictOK DEF IInv, Del
  <2> QED
    BY <1>3, <2>1, ReturnIf DEF DestroyByToken
<1>4. ASSUME NEW ks \in SUBSET (Keys \cup {MetadataKey}), Delete(c, t, ks)
      PROVE  Quiet /\ StoreOK(store', now') /\ Typed'
  <2>1. StoreOK(HDel(store, t, ks), now) /\ SameMetadata(HDel(store, t, ks), store, {})
    BY HDelOK DEF IInv
  <2> QED
    BY <1>4, <2>1, ReturnIf DEF Delete
<1> QED
  BY <1>1, <1>2, <1>3, <1>4

\* Check and Get.
LEMMA ReadQuiet ==
    ASSUME IInv, Revives, NEW c \in Clients, NEW t \in Stored, NEW r \in ReadOps, Read(c, t, r)
    PROVE  Quiet /\ StoreOK(store', now') /\ Typed'
<1>1. IsExpired(store[t].md, now) \in BOOLEAN
  BY DEF IsExpired
<1>2. Answer(Session(t), r) \in RedisAnswers
  <2>1. store[t] \in Hashes /\ store[t].md \in Metadata /\ t \in Tokens
    BY StoredMetadata
  <2>2. Valid(t)
    BY DEF Read, Known, IInv, Typed
  <2>3. IdOf[t] \in Ids
    BY <2>1, <2>2, TokenAssumption DEF Valid
  <2>4. Session(t) \in TokenValue
    <3>1. store[t].data \in Data
      BY <2>1, HashFields
    <3> QED
      BY <2>1, <2>3, <3>1 DEF Session, TokenValue, Metadata
  <2>5. Answer(Session(t), r) \in Answers
    BY <2>4, AnswerType
  <2> QED
    BY <2>5 DEF Answers, RedisAnswers
<1> QED
  BY <1>2, ErrRedis, ErrorNames, ReturnSame DEF Read

\* A report goes into the channel.
LEMMA SendQuiet ==
    ASSUME IInv, Revives, NEW c \in Clients, Send(c)
    PROVE  Quiet /\ StoreOK(store', now') /\ Typed'
<1>1. call[c].token \in Tokens /\ call[c].op = "send" /\ ch \in Seq(Tokens)
  BY CallFields DEF Send, IInv, Typed
<1>2. ch' \in Seq(Tokens) /\ Range(ch') = Range(ch) \cup {call[c].token}
  <2>1. ch' = Append(ch, call[c].token)
    BY DEF Send
  <2> QED
    BY <1>1, <2>1 DEF Range
<1>3. call' \in [Clients -> Calls] /\ \A d \in Clients : call'[d] = call[d] \/ call'[d] = Idle
  BY DEF Send, Becomes, IInv, Typed, Calls, Idle
<1>4. Reported' \subseteq Reported
  BY <1>1, <1>2, <1>3 DEF Reported, Send, Idle
<1>5. StoreOK(store', now') /\ SameMetadata(store', store, {})
  BY DEF Send, server, IInv, SameMetadata
<1>6. Typed'
  BY <1>2, <1>3 DEF Send, server, IInv, Typed, Revives
<1> QED
  BY <1>3, <1>4, <1>5, <1>6 DEF Send, server, Quiet, Winds, Touches, Revives, IInv, Typed

\* The delete goroutine.
LEMMA DeletingQuiet ==
    ASSUME IInv, Revives, Deleting
    PROVE  Quiet /\ StoreOK(store', now') /\ Typed'
<1>1. deleter \in Deleters /\ deleter.m \subseteq Tokens /\ ch \in Seq(Tokens)
      /\ deleter.pc \in {"read", "merge", "del", "exit"}
  BY DEF IInv, Typed, Deleters
<1>2. UNCHANGED <<origin, done, call, answer, now>>
  BY DEF Deleting, DeleteRead, DeleteClosed, DeleteBatch, others
<1>3. /\ ch' \in Seq(Tokens) /\ deleter' \in Deleters
      /\ Range(ch') \cup deleter'.m \subseteq Range(ch) \cup deleter.m
  <2>1. CASE DeleteRead
    <3>1. ch # <<>> /\ ch' = Tail(ch)
      BY <2>1 DEF DeleteRead
    <3>2. /\ Head(ch) \in Tokens /\ Head(ch) \in Range(ch) /\ ch' \in Seq(Tokens)
          /\ Range(ch') \subseteq Range(ch)
      BY <1>1, <3>1 DEF Range
    <3>3. /\ deleter'.m = deleter.m \cup {Head(ch)}
          /\ deleter' \in Deleters
      BY <1>1, <2>1, <3>2 DEF DeleteRead, Deleters
    <3> QED
      BY <3>2, <3>3
  <2>2. CASE DeleteClosed \/ DeleteBatch
    BY <1>1, <2>2 DEF DeleteClosed, DeleteBatch, Deleters
  <2> QED
    BY <2>1, <2>2 DEF Deleting
<1>4. StoreOK(store', now) /\ SameMetadata(store', store, {})
  <2>1. store' = store \/ store' = Del(store, deleter.m)
    BY DEF Deleting, DeleteRead, DeleteClosed, DeleteBatch
  <2>2. StoreOK(Del(store, deleter.m), now) /\ SameMetadata(Del(store, deleter.m), store, {})
    BY RestrictOK DEF IInv, Del
  <2> QED
    BY <2>1, <2>2 DEF IInv, SameMetadata
<1>5. Typed'
  BY <1>2, <1>3 DEF IInv, Typed, Revives
<1>6. Reported' \subseteq Reported
  BY <1>2, <1>3 DEF Reported
<1> QED
  BY <1>2, <1>4, <1>5, <1>6 DEF Quiet, Winds, Touches, Revives, IInv, Typed

\* Time passes, and the server drops what is due.
LEMMA TickQuiet ==
    ASSUME IInv, Revives, Tick
    PROVE  Quiet /\ StoreOK(store', now') /\ Typed'
<1>1. now \in Nat /\ now' = now + 1 /\ UNCHANGED <<origin, done, call, ch, deleter, answer>>
  BY DEF Tick, goroutine, IInv, Typed
<1> DEFINE gone == {t \in DOMAIN store : store[t].ttl \in 1..now'}
           D == DOMAIN store \ gone
<1>2. store' = Restrict(store, D)
  BY DEF Tick, Del
<1>3. StoreOK(store', now) /\ SameMetadata(store', store, {})
  BY <1>2, RestrictOK DEF IInv
<1>4. \A t \in DOMAIN store' : HashOK(store', t, now')
  <2> SUFFICES ASSUME NEW t \in DOMAIN store'
               PROVE  HashOK(store', t, now')
    OBVIOUS
  <2>1. t \in DOMAIN store /\ t \notin gone /\ store'[t] = store[t]
    BY <1>2 DEF Restrict
  <2>2. store[t].ttl \in Nat /\ store[t].ttl > now
    BY <2>1, HashFields DEF IInv, StoreOK, IsPartial, HashOK
  <2>3. store[t].ttl > now'
    BY <1>1, <2>1, <2>2
  <2> QED
    BY <1>3, <2>1, <2>3 DEF StoreOK, HashOK
<1>5. StoreOK(store', now')
  BY <1>3, <1>4 DEF StoreOK
<1>6. Typed'
  BY <1>1 DEF IInv, Typed, Revives
<1>7. Winds
  BY <1>1 DEF Winds, Reported
<1> QED
  BY <1>1, <1>3, <1>5, <1>6, <1>7 DEF Quiet, Touches, Revives

-----------------------------------------------------------------------------
(* Last requests.                                                          *)

\* What is enough for a transaction of c that writes under t.
LEMMA StoresIf ==
    ASSUME IInv, Revives, NEW c \in Clients, NEW t, NEW s, NEW a \in RedisAnswers,
           Executed(c, s, a), StoreOK(s, now), SameMetadata(s, store, {t}),
           IsPartial(origin', Tokens, Tokens), \A u \in DOMAIN origin' : Valid(u),
           \/ /\ call[c].op = "put" /\ t = call[c].token
              /\ t \in DOMAIN s => s[t].md = call[c].md
              /\ UNCHANGED origin
           \/ /\ Pending(c) /\ t = call[c].p[1]
              /\ DOMAIN origin \subseteq DOMAIN origin'
    PROVE  Stores(c, t) /\ StoreOK(store', now') /\ Typed'
<1>1. /\ store' = s /\ answer' = a /\ Ends(c)
      /\ UNCHANGED <<done, ch, deleter, now>>
  BY DEF Executed, goroutine, Reply, Becomes, Ends
<1>2. Winds /\ call' \in [Clients -> Calls]
  BY <1>1, EndsWinds DEF IInv
<1>3. Typed'
  BY <1>1, <1>2 DEF IInv, Typed, Revives
<1> QED
  BY <1>1, <1>2, <1>3 DEF Stores, Touches, Revives, Stored

LEMMA PutStores ==
    ASSUME IInv, Revives, NEW c \in Clients, Put(c)
    PROVE  Stores(c, call[c].token) /\ StoreOK(store', now') /\ Typed'
<1> DEFINE t == call[c].token
           md == call[c].md
           s == ExpireAt(HSet(store, t, md, call[c].kv), t, md.refreshDeadline)
<1>1. /\ call[c].op = "put" /\ t \in Tokens /\ md \in Metadata /\ call[c].kv \in Data
      /\ md.access = t /\ now \in Nat /\ md.refreshDeadline \in Nat
      /\ md.refreshDeadline >= RefreshTTL
  BY CallFields DEF Put, IInv, Typed, PutsOK, LookedOK, Looked, Metadata
<1>2. Executed(c, s, Err("nil")) /\ UNCHANGED origin
  BY DEF Put
<1> HIDE DEF t, md
<1>3. /\ IsPartial(s, Tokens, Hashes)
      /\ DOMAIN s \ {t} = DOMAIN store \ {t}
      /\ \A u \in DOMAIN s \ {t} : s[u] = store[u]
      /\ t \in DOMAIN s =>
            s[t].md = md /\ s[t].ttl = Whole(md.refreshDeadline) /\ s[t].ttl > now
  BY <1>1, Written DEF IInv
<1> HIDE DEF s
<1>4. StoreOK(s, now) /\ SameMetadata(s, store, {t})
  BY <1>1, <1>3, WholeFacts DEF IInv, StoreOK, HashOK, SameMetadata
<1> QED
  BY <1>1, <1>2, <1>3, <1>4, StoresIf, ErrRedis, ErrorNames DEF t, md, IInv, Typed

LEMMA CreateStores ==
    ASSUME IInv, Revives, NEW c \in Clients, Create(c)
    PROVE  Stores(c, call[c].p[1]) /\ StoreOK(store', now') /\ Typed'
<1> DEFINE t == call[c].p[1]
           md == newMetadata(call[c].p, call[c].at)
           s == ExpireAt(HSet(store, t, md, call[c].kv), t, md.refreshDeadline)
           x == Expire(s, t, RefreshTTL)
<1>1. /\ call[c].op = "create" /\ call[c].p \in Minted /\ call[c].at \in Nat
      /\ call[c].at <= now /\ call[c].kv \in Data /\ now \in Nat
      /\ RefreshTTL \in Nat /\ Second \in Nat
  BY CallFields, TTLAssumption, RedisAssumption DEF Create, IInv, Typed, PendingOK, Pending
<1>2. /\ Executed(c, x, Err("nil"))
      /\ origin' = IF t \in DOMAIN store' THEN With(origin, t, t) ELSE origin
  BY DEF Create
<1>3. /\ t \in Tokens /\ Valid(t) /\ md \in Metadata /\ md.access = t
      /\ md.refreshDeadline = call[c].at + RefreshTTL
  BY <1>1, NewMetadata
<1> HIDE DEF md, t
<1>4. /\ IsPartial(s, Tokens, Hashes)
      /\ DOMAIN s \ {t} = DOMAIN store \ {t}
      /\ \A u \in DOMAIN s \ {t} : s[u] = store[u]
      /\ t \in DOMAIN s => s[t].md = md
  BY <1>1, <1>3, Written DEF IInv
<1> HIDE DEF s
<1>5. /\ IsPartial(x, Tokens, Hashes)
      /\ DOMAIN x = DOMAIN s
      /\ \A u \in DOMAIN x \ {t} : x[u] = store[u]
      /\ t \in DOMAIN x => x[t].md = md /\ x[t].ttl = now + Whole(RefreshTTL)
  <2>1. CASE t \notin DOMAIN s
    BY <1>4, <2>1 DEF Expire
  <2>2. CASE t \in DOMAIN s
    <3>1. now + Whole(RefreshTTL) \in Nat
      BY <1>1, WholeFacts
    <3>2. s[t] \in Hashes
      BY <1>4, <2>2 DEF IsPartial
    <3> DEFINE h == [s[t] EXCEPT !.ttl = now + Whole(RefreshTTL)]
    <3>3. h \in Hashes /\ h.md = md /\ h.ttl = now + Whole(RefreshTTL)
      BY <1>4, <2>2, <3>1, <3>2, HashTime
    <3>4. x = [s EXCEPT ![t] = h]
      BY <2>2 DEF Expire
    <3> HIDE DEF h
    <3> QED
      BY <1>4, <2>2, <3>3, <3>4 DEF IsPartial
  <2> QED
    BY <2>1, <2>2
<1>6. /\ now + Whole(RefreshTTL) > now /\ now + Whole(RefreshTTL) + Second > md.refreshDeadline
      /\ md.refreshDeadline >= RefreshTTL
  BY <1>1, <1>3, WholeFacts, WholeTTL
<1> HIDE DEF x
<1>7. StoreOK(x, now) /\ SameMetadata(x, store, {t})
  BY <1>3, <1>4, <1>5, <1>6 DEF IInv, StoreOK, HashOK, SameMetadata
<1>8. IsPartial(origin', Tokens, Tokens) /\ DOMAIN origin \subseteq DOMAIN origin'
      /\ \A u \in DOMAIN origin' : Valid(u)
  BY <1>2, <1>3 DEF IInv, Typed, With, IsPartial
<1> QED
  BY <1>1, <1>2, <1>5, <1>7, <1>8, StoresIf, ErrRedis, ErrorNames DEF t, md, Pending

\* RENAME, after the key was written.
LEMMA RefreshStores ==
    ASSUME IInv, Revives, NEW c \in Clients, Refresh(c)
    PROVE  Stores(c, call[c].p[1]) /\ StoreOK(store', now') /\ Typed'
<1> DEFINE t == call[c].token
           n == call[c].p[1]
           md == newMetadata(call[c].p, call[c].at)
           s == ExpireAt(HSet(store, t, md, Empty), t, md.refreshDeadline)
           x == Rename(s, t, n)
           a == IF t \in DOMAIN s THEN Err("nil") ELSE answer
<1>1. /\ call[c].op = "refresh" /\ call[c].p \in Minted /\ call[c].at \in Nat
      /\ t \in Tokens /\ t \in DOMAIN origin /\ t # n /\ now \in Nat
      /\ RefreshTTL \in Nat /\ Second \in Nat
  BY CallFields, TTLAssumption, RedisAssumption DEF Refresh, IInv, Typed, PendingOK, Pending
<1>2. /\ Executed(c, x, a)
      /\ origin' = IF t \in DOMAIN s THEN With(origin, n, origin[t]) ELSE origin
  BY DEF Refresh
<1>3. /\ n \in Tokens /\ Valid(n) /\ md \in Metadata /\ md.access = n
      /\ md.refreshDeadline \in Nat /\ md.refreshDeadline >= RefreshTTL
  BY <1>1, NewMetadata
<1>4. a \in RedisAnswers
  BY ErrRedis, ErrorNames DEF IInv, Typed
<1>5. Empty \in Data
  <2>1. IsPartial(Empty, Keys, Values)
    BY DEF IsPartial, Empty
  <2> QED
    BY <2>1, PartialIff DEF Data
<1> HIDE DEF md, n, t, a
<1>6. /\ IsPartial(s, Tokens, Hashes)
      /\ DOMAIN s \ {t} = DOMAIN store \ {t}
      /\ \A u \in DOMAIN s \ {t} : s[u] = store[u]
      /\ t \in DOMAIN s =>
            s[t].md = md /\ s[t].ttl = Whole(md.refreshDeadline) /\ s[t].ttl > now
  BY <1>1, <1>3, <1>5, Written DEF IInv
<1> HIDE DEF s
<1>7. /\ IsPartial(x, Tokens, Hashes)
      /\ DOMAIN x \ {n} = DOMAIN store \ {t, n}
      /\ \A u \in DOMAIN x \ {n} : x[u] = store[u]
      /\ n \in DOMAIN x => \/ n \in DOMAIN store /\ x[n] = store[n]
                           \/ t \in DOMAIN s /\ x[n] = s[t]
  <2>1. CASE t \notin DOMAIN s
    BY <1>1, <1>6, <2>1 DEF Rename
  <2>2. CASE t \in DOMAIN s
    <3>1. x = With(Without(s, t), n, s[t])
      BY <2>2 DEF Rename
    <3> QED
      BY <1>3, <1>6, <2>2, <3>1 DEF With, Without, Restrict, IsPartial
  <2> QED
    BY <2>1, <2>2
<1> HIDE DEF x
<1>8. StoreOK(x, now) /\ SameMetadata(x, store, {n})
  BY <1>1, <1>3, <1>6, <1>7, WholeFacts DEF IInv, StoreOK, HashOK, SameMetadata
<1>9. IsPartial(origin', Tokens, Tokens) /\ DOMAIN origin \subseteq DOMAIN origin'
      /\ \A u \in DOMAIN origin' : Valid(u)
  BY <1>1, <1>2, <1>3 DEF IInv, Typed, With, IsPartial
<1> QED
  BY <1>1, <1>2, <1>4, <1>8, <1>9, StoresIf DEF n, Pending

\* DEL of the keys that Destroy listed.
LEMMA DestroyQuiet ==
    ASSUME IInv, Revives, NEW c \in Clients, Destroy(c)
    PROVE  Quiet /\ StoreOK(store', now') /\ Typed'
<1>1. /\ store' = Del(store, call[c].keys) /\ answer' = Err("nil") /\ Ends(c)
      /\ UNCHANGED <<done, ch, deleter, now, origin>>
  BY DEF Destroy, Executed, goroutine, Reply, Becomes, Ends
<1>2. StoreOK(store', now) /\ SameMetadata(store', store, {})
  BY <1>1, RestrictOK DEF IInv, Del
<1> QED
  BY <1>1, <1>2, QuietIf, ErrRedis, ErrorNames DEF IInv, Typed

-----------------------------------------------------------------------------
(* Calls that begin.                                                       *)

\* What is enough for a call r of c that begins.
LEMMA BeginsIf ==
    ASSUME IInv, Revives, NEW c \in Clients, NEW r \in Calls, call[c] = Idle, Becomes(c, r),
           UNCHANGED <<store, done, ch, deleter, now, origin>>, answer' \in RedisAnswers
    PROVE  Begins(c) /\ call'[c] = r /\ StoreOK(store', now') /\ Typed'
<1>1. call' \in [Clients -> Calls] /\ call'[c] = r /\ \A d \in Clients \ {c} : call'[d] = call[d]
  BY DEF Becomes, IInv, Typed
<1>2. Stored' = Stored /\ revived' = revived
  BY DEF Revives, Stored
<1> QED
  BY <1>1, <1>2 DEF Begins, IInv, Typed

\* What a call that begins has to bring along to keep the invariant.
LEMMA BeginsKeeps ==
    ASSUME IInv, NEW c \in Clients, Begins(c), Typed', StoreOK(store', now'),
           Pending(c)' => /\ call'[c].at = now
                          /\ Unused(call'[c].p)
                          /\ call'[c].op = "refresh" => call'[c].token \in DOMAIN origin,
           call'[c].op = "put" => /\ Known(call'[c].token) /\ call'[c].token \in Stored
                                  /\ call'[c].md = store[call'[c].token].md,
           call'[c].op = "send" => Known(call'[c].token) /\ Dead(call'[c].token),
           Looked(call'[c])
    PROVE  IInv'
<1> USE DEF Begins
<1>1. \A t : Known(t) => Settled(t)
  BY DEF Known, Settled, Pending
<1>2. \A d \in Clients \ {c} : call'[d] = call[d]
  OBVIOUS
<1>3. now \in Nat /\ call[c] = Idle /\ UNCHANGED <<store, origin, now, revived>> /\ Stored' = Stored
  BY DEF IInv, Typed, Stored
<1>4. \A t : Settled(t) => Settled(t)'
  BY <1>2, <1>3 DEF Settled, Pending, Unused
<1>5. PendingOK'
  BY <1>2, <1>3 DEF IInv, PendingOK, Pending, Unused
<1>6. PutsOK'
  <2> SUFFICES ASSUME NEW d \in Clients, call'[d].op = "put"
               PROVE  /\ Settled(call[d].token)'
                      /\ call'[d].md.access = call'[d].token
                      /\ call'[d].token \in Stored => store[call'[d].token].md = call'[d].md
                      /\ \A e \in Clients :
                            call'[e].op = "put" /\ call'[e].token = call'[d].token
                              => call'[e].md = call'[d].md
    BY <1>3 DEF PutsOK
  <2>1. ASSUME NEW e \in Clients, call'[e].op = "put"
        PROVE  /\ Settled(call[e].token)'
               /\ call'[e].md.access = call'[e].token
               /\ call'[e].token \in Stored => store[call'[e].token].md = call'[e].md
    <3>1. CASE e = c
      <4>1. Settled(call'[e].token)
        BY <1>1, <2>1, <3>1
      <4>2. Settled(call[e].token)'
        BY <1>2, <1>3, <2>1, <3>1, <4>1 DEF Settled, Pending
      <4> QED
        BY <2>1, <3>1, <4>2, StoredMetadata
    <3>2. CASE e # c
      <4>1. call'[e] = call[e]
        BY <1>2, <3>2
      <4> QED
        BY <1>4, <2>1, <4>1 DEF IInv, PutsOK
    <3> QED
      BY <3>1, <3>2
  <2>2. ASSUME NEW e \in Clients, call'[e].op = "put", call'[e].token = call'[d].token
        PROVE  call'[e].md = call'[d].md
    BY <1>2, <2>1, <2>2 DEF IInv, PutsOK
  <2> QED
    BY <2>1, <2>2
<1>7. ReportedOK'
  <2> SUFFICES ASSUME NEW t \in Reported'
               PROVE  Settled(t)' /\ (Dead(t)' \/ t \in revived')
    BY DEF ReportedOK
  <2>1. Dead(t)' <=> Dead(t)
    BY <1>3 DEF Dead
  <2>2. t \in Reported \/ (call'[c].op = "send" /\ t = call'[c].token)
    BY <1>2 DEF Reported
  <2>3. CASE t \in Reported
    BY <1>3, <1>4, <2>1, <2>3 DEF IInv, ReportedOK
  <2>4. CASE call'[c].op = "send" /\ t = call'[c].token
    BY <1>1, <1>4, <2>1, <2>4
  <2> QED
    BY <2>2, <2>3, <2>4
<1>8. LookedOK'
  <2> SUFFICES ASSUME NEW d \in Clients PROVE Looked(call'[d])
    BY DEF LookedOK
  <2> QED
    BY <1>2 DEF IInv, LookedOK
<1> QED
  BY <1>5, <1>6, <1>7, <1>8 DEF IInv

\* A dead session is reported.
LEMMA ReportKeeps ==
    ASSUME IInv, Revives, NEW c \in Clients, NEW t \in Tokens, call[c] = Idle, Known(t), Dead(t),
           pushDelete(c, t), answer' \in RedisAnswers, UNCHANGED <<server, done, goroutine, now>>
    PROVE  IInv'
<1> DEFINE r == [op |-> "send", token |-> t]
<1>1. r \in Calls /\ Becomes(c, r)
  BY DEF Calls, pushDelete
<1>2. Begins(c) /\ call'[c] = r /\ StoreOK(store', now') /\ Typed'
  BY <1>1, BeginsIf DEF server, goroutine, IInv, Typed
<1> QED
  BY <1>2, BeginsKeeps DEF Pending, Looked

LEMMA ReadMissingKeeps ==
    ASSUME IInv, Revives, NEW c \in Clients, NEW t \in Tokens,
           ReadMissing(c, t) \/ RefreshDead(c, t)
    PROVE  IInv' \/ (Quiet /\ StoreOK(store', now') /\ Typed')
<1>1. /\ call[c] = Idle /\ Known(t) /\ Dead(t) /\ answer' \in RedisAnswers
      /\ UNCHANGED <<server, done, goroutine, now>>
      /\ pushDelete(c, t) \/ UNCHANGED call
  BY ErrRedis, ErrorNames DEF ReadMissing, RefreshDead, Enter
<1>2. CASE pushDelete(c, t)
  BY <1>1, <1>2, ReportKeeps
<1>3. CASE UNCHANGED call
  <2>1. Ends(c) /\ UNCHANGED <<store, ch, deleter, now, origin>> /\ done' \in BOOLEAN
    BY <1>1, <1>3 DEF Ends, server, goroutine, IInv, Typed
  <2> QED
    BY <1>1, <2>1, StillIf
<1> QED
  BY <1>1, <1>2, <1>3

LEMMA CreateCallKeeps ==
    ASSUME IInv, Revives, NEW c \in Clients, NEW p \in Minted, NEW kv \in NewData,
           CreateCall(c, p, kv)
    PROVE  IInv'
<1> DEFINE r == [op |-> "create", p |-> p, kv |-> kv, at |-> now]
<1>1. /\ call[c] = Idle /\ Unused(p) /\ Becomes(c, r)
      /\ UNCHANGED <<server, done, goroutine, answer, now>>
  BY DEF CreateCall, Enter
<1>2. r \in Calls
  BY RedisAssumption DEF IInv, Typed, Calls
<1>3. Begins(c) /\ call'[c] = r /\ StoreOK(store', now') /\ Typed'
  BY <1>1, <1>2, BeginsIf DEF server, goroutine, IInv, Typed
<1> QED
  BY <1>1, <1>3, BeginsKeeps DEF Pending, Looked

LEMMA PutCallKeeps ==
    ASSUME IInv, Revives, NEW c \in Clients, NEW t \in Stored, NEW kv \in NewData,
           PutCall(c, t, kv)
    PROVE  IInv' \/ (Quiet /\ StoreOK(store', now') /\ Typed')
<1> DEFINE r == [op |-> "put", token |-> t, kv |-> kv, md |-> store[t].md, at |-> now]
<1>1. call[c] = Idle /\ Known(t)
  BY DEF PutCall, Enter
<1>2. CASE Return(store, Err("ErrTokenExpired"))
  BY <1>2, ReturnSame, ErrRedis, ErrorNames
<1>3. CASE /\ ~IsExpired(store[t].md, now) /\ Becomes(c, r)
           /\ UNCHANGED <<server, done, goroutine, answer, now>>
  <2>1. r \in Calls
    BY StoredMetadata, RedisAssumption DEF IInv, Typed, Calls
  <2>2. Begins(c) /\ call'[c] = r /\ StoreOK(store', now') /\ Typed'
    BY <1>1, <1>3, <2>1, BeginsIf DEF server, goroutine, IInv, Typed
  <2>3. ~IsExpired(store[t].md, now) /\ store[t].md.refreshDeadline >= RefreshTTL
    BY <1>3 DEF IInv, StoreOK, HashOK, Stored
  <2>4. Looked(r)
    BY <2>3 DEF Looked
  <2> QED
    BY <1>1, <2>2, <2>4, BeginsKeeps DEF Pending
<1> QED
  BY <1>2, <1>3 DEF PutCall

LEMMA RefreshCallKeeps ==
    ASSUME IInv, Revives, NEW c \in Clients, NEW t \in Stored, NEW q \in Tokens,
           NEW p \in Minted, RefreshCall(c, t, q, p)
    PROVE  IInv' \/ (Quiet /\ StoreOK(store', now') /\ Typed')
<1> DEFINE r == [op |-> "refresh", token |-> t, p |-> p, md |-> store[t].md, at |-> now]
<1>1. call[c] = Idle /\ Known(t)
  BY DEF RefreshCall, Enter
<1>2. CASE Return(store, Err("ErrRefreshTokenNotMatched"))
  BY <1>2, ReturnSame, ErrRedis, ErrorNames
<1>3. CASE /\ Unused(p) /\ Becomes(c, r) /\ \A s \in {q, p[1]} : IdOf[s] = IdOf[t]
           /\ UNCHANGED <<server, done, goroutine, answer, now>>
  <2>1. r \in Calls
    BY StoredMetadata DEF IInv, Typed, Calls
  <2>2. Begins(c) /\ call'[c] = r /\ StoreOK(store', now') /\ Typed'
    BY <1>1, <1>3, <2>1, BeginsIf DEF server, goroutine, IInv, Typed
  <2>3. t \in DOMAIN origin
    BY <1>1 DEF Known
  <2>4. Looked(r)
    BY <1>3 DEF Looked
  <2> QED
    BY <1>3, <2>2, <2>3, <2>4, BeginsKeeps DEF Pending
<1> QED
  BY <1>2, <1>3 DEF RefreshCall

LEMMA DestroyCallKeeps ==
    ASSUME IInv, Revives, NEW c \in Clients, NEW id \in Ids, DestroyCall(c, id)
    PROVE  IInv' \/ (Quiet /\ StoreOK(store', now') /\ Typed')
<1> DEFINE keys == {t \in DOMAIN store : IdOf[t] = id}
           r == [op |-> "destroy", id |-> id, keys |-> keys]
<1>1. CASE Return(store, Err("nil"))
  BY <1>1, ReturnSame, ErrRedis, ErrorNames
<1>2. CASE /\ call[c] = Idle /\ Becomes(c, r)
           /\ UNCHANGED <<server, done, goroutine, answer, now>>
  <2>1. keys \subseteq Tokens
    BY DEF IInv, StoreOK, IsPartial
  <2>2. Looked(r)
    BY DEF Looked
  <2> HIDE DEF keys
  <2>3. r \in Calls
    BY <2>1 DEF Calls
  <2>4. Begins(c) /\ call'[c] = r /\ StoreOK(store', now') /\ Typed'
    BY <1>2, <2>3, BeginsIf DEF server, goroutine, IInv, Typed
  <2> QED
    BY <2>2, <2>4, BeginsKeeps DEF Pending
<1> QED
  BY <1>1, <1>2 DEF DestroyCall, Enter

LEMMA BeginSteps ==
    ASSUME IInv, Revives, NEW c \in Clients, Begin(c)
    PROVE  IInv' \/ (Quiet /\ StoreOK(store', now') /\ Typed')
<1>1. ASSUME RefreshReject(c) \/ Close(c)
      PROVE  Quiet /\ StoreOK(store', now') /\ Typed'
  BY <1>1, EndQuiet
<1>2. ASSUME NEW t \in Tokens,
             \/ Reject(c, t) \/ ReadMissing(c, t) \/ KeysOf(c, t) \/ DestroyByToken(c, t)
             \/ RefreshMissing(c, t) \/ RefreshDead(c, t)
             \/ \E ks \in SUBSET (Keys \cup {MetadataKey}) : Delete(c, t, ks)
      PROVE  IInv' \/ (Quiet /\ StoreOK(store', now') /\ Typed')
  BY <1>2, CommandQuiet, ReadMissingKeeps
<1>3. ASSUME NEW t \in Stored,
             \/ \E r \in ReadOps : r.op # "Keys" /\ Read(c, t, r)
             \/ \E kv \in NewData : PutCall(c, t, kv)
             \/ \E r \in Tokens, p \in Minted : RefreshCall(c, t, r, p)
      PROVE  IInv' \/ (Quiet /\ StoreOK(store', now') /\ Typed')
  BY <1>3, ReadQuiet, PutCallKeeps, RefreshCallKeeps
<1>4. ASSUME NEW p \in Minted, NEW kv \in NewData, CreateCall(c, p, kv)
      PROVE  IInv'
  BY <1>4, CreateCallKeeps
<1>5. ASSUME NEW id \in Ids, DestroyCall(c, id)
      PROVE  IInv' \/ (Quiet /\ StoreOK(store', now') /\ Typed')
  BY <1>5, DestroyCallKeeps
<1> QED
  BY <1>1, <1>2, <1>3, <1>4, <1>5 DEF Begin

-----------------------------------------------------------------------------
(* The theorems.                                                           *)

LEMMA IInvStep == IInv /\ [Next]_vars => IInv'
<1> SUFFICES ASSUME IInv, [Next]_vars PROVE IInv'
  OBVIOUS
<1>1. ASSUME Quiet, StoreOK(store', now'), Typed'
      PROVE  IInv'
  BY <1>1, QuietKeeps DEF IInv
<1>2. ASSUME NEW c \in Clients, NEW t, Stores(c, t), StoreOK(store', now'), Typed'
      PROVE  IInv'
  BY <1>2, StoresKeeps DEF IInv
<1>3. CASE Next
  <2>1. Revives
    BY <1>3 DEF Next, Revives
  <2>2. CASE Tick \/ Deleting
    BY <1>1, <2>1, <2>2, TickQuiet, DeletingQuiet
  <2>3. ASSUME NEW c \in Clients, Begin(c)
        PROVE  IInv'
    BY <1>1, <2>1, <2>3, BeginSteps
  <2>4. ASSUME NEW c \in Clients, Transaction(c)
        PROVE  IInv'
    <3>1. CASE Create(c)
      BY <1>2, <2>1, <3>1, CreateStores
    <3>2. CASE Put(c)
      BY <1>2, <2>1, <3>2, PutStores
    <3>3. CASE Refresh(c)
      BY <1>2, <2>1, <3>3, RefreshStores
    <3>4. CASE Destroy(c)
      BY <1>1, <2>1, <3>4, DestroyQuiet
    <3> QED
      BY <2>4, <3>1, <3>2, <3>3, <3>4 DEF Transaction
  <2>5. ASSUME NEW c \in Clients, Refuse(c) \/ CreateLate(c) \/ Fail(c) \/ SendClosed(c)
        PROVE  IInv'
    BY <1>1, <2>1, <2>5, EndQuiet
  <2>6. ASSUME NEW c \in Clients, Send(c)
        PROVE  IInv'
    BY <1>1, <2>1, <2>6, SendQuiet
  <2> QED
    BY <1>3, <2>2, <2>3, <2>4, <2>5, <2>6 DEF Next
<1>4. CASE UNCHANGED vars
  <2>1. UNCHANGED <<store, done, call, ch, deleter, answer, now, origin, revived>>
    BY <1>4 DEF vars
  <2> QED
    BY <2>1 DEF IInv, Typed, StoreOK, HashOK, PendingOK, PutsOK, LookedOK, ReportedOK, Pending,
                Settled, Stored, Reported, Dead
<1> QED
  BY <1>3, <1>4

LEMMA IInvAlways == Spec => []IInv
<1> QED
  BY InitIInv, IInvStep, PTL DEF Spec

\* The state has its type: no call is ever about to write what is no hash.
THEOREM TypeCorrect == Spec => []TypeOK
<1>1. IInv => TypeOK
  BY StoreProperties
<1> QED
  BY <1>1, IInvAlways, PTL

\* Put writes metadata that it read in an earlier request, and Refresh renames
\* what it wrote to under the old name: however transactions of any number of
\* callers follow each other, are sent twice or fail half-way, a hash has the
\* metadata of the token that is its key.
THEOREM KeysNameSessions == Spec => []KeyNamesSession
<1>1. IInv => KeyNamesSession
  BY StoreProperties DEF IInv
<1> QED
  BY <1>1, IInvAlways, PTL

\* Every transaction that may make a key gives it a time to live, which takes
\* less than a second off its session: no hash stays for ever.
THEOREM HashesAreKept == Spec => []KeptUntilDeadline
<1>1. IInv => KeptUntilDeadline
  BY StoreProperties DEF IInv
<1> QED
  BY <1>1, IInvAlways, PTL

\* The purge deletes what was reported without another look: no Put, Create or
\* Refresh between the report and the deletion has made a live session of it,
\* but one that wrote back what was gone.
LEMMA PurgeStep ==
    ASSUME IInv, Next, deleter.pc # "read", deleter'.pc = "read"
    PROVE  \A t \in Stored \ Stored' : Dead(t) \/ t \in revived
<1> SUFFICES ASSUME NEW t \in Stored \ Stored'
             PROVE  Dead(t) \/ t \in revived
  OBVIOUS
<1>1. DeleteBatch
  <2>1. deleter' # deleter
    OBVIOUS
  <2>2. CASE Tick
    BY <2>1, <2>2 DEF Tick, goroutine
  <2>3. ASSUME NEW c \in Clients, Begin(c)
        PROVE  FALSE
    BY <2>1, <2>3 DEF Begin, RefreshReject, Close, CreateCall, DestroyCall, Reject, ReadMissing,
                      KeysOf, DestroyByToken, RefreshMissing, RefreshDead, Delete, Read, PutCall,
                      RefreshCall, Return, goroutine
  <2>4. ASSUME NEW c \in Clients,
               \/ Transaction(c) \/ Refuse(c) \/ CreateLate(c) \/ Fail(c) \/ Send(c)
               \/ SendClosed(c)
        PROVE  FALSE
    BY <2>1, <2>4 DEF Transaction, Create, Put, Refresh, Destroy, Executed, Refuse, CreateLate,
                      Fail, Send, SendClosed, goroutine
  <2>5. ~DeleteRead /\ ~DeleteClosed
    BY DEF DeleteRead, DeleteClosed
  <2> QED
    BY <2>2, <2>3, <2>4, <2>5 DEF Next, Deleting
<1>2. t \in deleter.m
  BY <1>1 DEF DeleteBatch, Stored, Del, Restrict
<1> QED
  BY <1>2 DEF IInv, ReportedOK, Reported

\* The delete goroutine, which looks at nothing before it deletes a batch, takes
\* no live session, for any number of clients and any size of the batch: the
\* steps in between can only end a session for good, or write it back.
THEOREM PurgeIsSafe == Spec => PurgeSparesLive
<1>1. IInv /\ [Next]_vars =>
        [deleter.pc # "read" /\ deleter'.pc = "read" =>
            \A t \in Stored \ Stored' : Dead(t) \/ t \in revived]_vars
  BY PurgeStep
<1> QED
  BY <1>1, IInvAlways, PTL DEF Spec, PurgeSparesLive

-----------------------------------------------------------------------------
(* Redis does what Provider says.                                          *)

\* Provider's names are Redis's.
LEMMA AbstractNames ==
    /\ Abstract!Empty = Empty
    /\ Abstract!ReadOps = ReadOps
    /\ \A f, D : Abstract!Restrict(f, D) = Restrict(f, D)
    /\ \A f, x : Abstract!Without(f, x) = Without(f, x)
    /\ \A f, x, y : Abstract!With(f, x, y) = With(f, x, y)
    /\ \A e : Abstract!Err(e) = Err(e)
    /\ \A u, at : Abstract!IsExpired(u, at) = IsExpired(u, at)
    /\ \A u, at : Abstract!IsDeleted(u, at) = IsDeleted(u, at)
    /\ \A u, r : Abstract!Answer(u, r) = Answer(u, r)
    /\ \A u, kv : Abstract!SetCopy(u, kv) = SetCopy(u, kv)
    /\ \A p, kv, at : Abstract!newTokenValue(p, kv, at) = newTokenValue(p, kv, at)
    /\ \A u, p, at : Abstract!Refreshed(u, p, at) = Refreshed(u, p, at)
    /\ Abstract!Data = Data
BY DEF Abstract!Data, Data, Abstract!Partial, Partial, Abstract!Empty, Empty,
       Abstract!Restrict, Restrict, Abstract!Without, Without, Abstract!With, With,
       Abstract!Err, Err, Abstract!IsExpired, IsExpired, Abstract!IsDeleted, IsDeleted,
       Abstract!Answer, Answer, Abstract!CopyKeys, CopyKeys, Abstract!SetCopy, SetCopy,
       Abstract!Override, Override, Abstract!newTokenValue, newTokenValue,
       Abstract!Refreshed, Refreshed, Abstract!ReadOps, ReadOps

\* What Provider sees of the store and of the answer.
abs == [t \in IF done THEN {} ELSE Stored |-> Session(t)]

clean == [answer EXCEPT !.keys = @ \ {MetadataKey}]

\* What leaves these four alone is no step of Provider.
LEMMA Stutter == abs' = abs /\ UNCHANGED <<done, answer, now>> => UNCHANGED Abstract!vars
BY DEF abs, Abstract!vars

\* An error is no key.
LEMMA CleanErr == \A e : answer' = Err(e) => clean' = Abstract!Err(e)
BY AbstractNames DEF clean, Err

\* Reject.
LEMMA Rejects ==
    ASSUME abs' = abs, UNCHANGED <<done, now>>,
           answer' \in {Err("ErrTokenInvalid"), Err("ErrTokenIDNotMatched")}
    PROVE  Abstract!Next
BY CleanErr DEF Abstract!Next, Abstract!Reject, Abstract!Answered, abs, clean

\* Refuse.
LEMMA Refuses ==
    ASSUME abs' = abs, UNCHANGED <<done, now>>, done, answer' = Err("ErrProviderClosed")
    PROVE  Abstract!Next
BY CleanErr DEF Abstract!Next, Abstract!Refuse, Abstract!Answered, abs, clean

\* NotExists.
LEMMA Misses ==
    ASSUME ~done, UNCHANGED <<done, now>>, NEW t \in Tokens,
           t \in DOMAIN abs => IsDeleted(abs[t], now),
           abs' = abs, answer' = Err("ErrTokenNotExists")
    PROVE  Abstract!Next
BY AbstractNames, CleanErr
   DEF Abstract!Next, Abstract!NotExists, Abstract!Answered, abs, clean

\* DestroyByToken.
LEMMA DestroysByToken ==
    ASSUME ~done, UNCHANGED <<done, now>>, NEW t \in Tokens,
           abs' = Without(abs, t), answer' = Err("nil")
    PROVE  Abstract!Next
BY AbstractNames, CleanErr
   DEF Abstract!Next, Abstract!DestroyByToken, Abstract!Answered, abs, clean

\* Read, of Check and Get.
LEMMA Reads ==
    ASSUME ~done, UNCHANGED <<done, now>>, NEW t \in DOMAIN abs, NEW r \in ReadOps,
           r.op # "Keys", ~IsDeleted(abs[t], now), abs' = abs,
           answer' = IF IsExpired(abs[t], now) THEN Err("ErrTokenExpired")
                     ELSE Answer(abs[t], r)
    PROVE  Abstract!Next
<1>1. clean' = answer'
  <2>1. r.op \in {"Check", "Get"}
    BY DEF ReadOps
  <2>2. CASE IsExpired(abs[t], now)
    BY <2>2 DEF clean, Err
  <2>3. CASE ~IsExpired(abs[t], now)
    BY <2>1, <2>3 DEF clean, Answer, Err
  <2> QED
    BY <2>2, <2>3
<1>2. clean' = IF IsExpired(abs[t], now) THEN Err("ErrTokenExpired") ELSE Answer(abs[t], r)
  BY <1>1
<1> QED
  BY <1>2, AbstractNames DEF Abstract!Next, Abstract!Read, Abstract!Answered, abs, clean

\* Put.
LEMMA Puts ==
    ASSUME ~done, UNCHANGED <<done, now>>, NEW t \in DOMAIN abs,
           ~IsDeleted(abs[t], now), NEW kv \in Data,
           IF IsExpired(abs[t], now)
           THEN answer' = Err("ErrTokenExpired") /\ abs' = abs
           ELSE answer' = Err("nil") /\ abs' = [abs EXCEPT ![t] = SetCopy(abs[t], kv)]
    PROVE  Abstract!Next
BY AbstractNames, CleanErr
   DEF Abstract!Next, Abstract!Put, Abstract!Update, Abstract!Answered, abs, clean

\* Refresh.
LEMMA Refreshes ==
    ASSUME ~done, UNCHANGED <<done, now>>, NEW t \in DOMAIN abs,
           ~IsDeleted(abs[t], now), NEW r \in Tokens, NEW p \in Minted,
           IF abs[t].refresh # r
           THEN answer' = Err("ErrRefreshTokenNotMatched") /\ abs' = abs
           ELSE /\ answer' = Err("nil")
                /\ abs' = With(Without(abs, t), p[1], Refreshed(abs[t], p, now))
    PROVE  Abstract!Next
BY AbstractNames, CleanErr
   DEF Abstract!Next, Abstract!Refresh, Abstract!Answered, abs, clean

\* Purge.
LEMMA Purges ==
    ASSUME UNCHANGED <<done, answer, now>>, NEW kept \in SUBSET DOMAIN abs,
           \A t \in DOMAIN abs \ kept : IsDeleted(abs[t], now),
           abs' = Restrict(abs, kept)
    PROVE  Abstract!Next
<1> DEFINE gone == DOMAIN abs \ kept
<1>1. gone \in SUBSET {t \in DOMAIN abs : IsDeleted(abs[t], now)} /\ DOMAIN abs \ gone = kept
  OBVIOUS
<1>2. abs' = Restrict(abs, DOMAIN abs \ gone)
  BY <1>1
<1> HIDE DEF gone
<1> QED
  BY <1>1, <1>2, AbstractNames DEF Abstract!Next, Abstract!Purge, abs

\* Close.
LEMMA Closes ==
    ASSUME ~done, done', abs' = Empty, answer' = Err("nil"), now' = now
    PROVE  Abstract!Next
BY AbstractNames, CleanErr DEF Abstract!Next, Abstract!Close, abs, clean

\* Destroy.
LEMMA Destroys ==
    ASSUME ~done, UNCHANGED <<done, now>>, answer' = Err("nil"), NEW id \in Ids,
           abs' = Restrict(abs, {t \in DOMAIN abs : abs[t].id # id})
    PROVE  Abstract!Next
BY AbstractNames, CleanErr
   DEF Abstract!Next, Abstract!Destroy, Abstract!RestrictDomain, Abstract!Restrict, Restrict,
       Abstract!Answered, abs, clean

\* CreateLate.
LEMMA CreatesLate ==
    ASSUME UNCHANGED <<done, now>>, abs' = abs, answer' = Err("nil"),
           NEW at \in 0..now, at + RefreshTTL <= now
    PROVE  Abstract!Next
BY CleanErr DEF Abstract!Next, Abstract!CreateLate, Abstract!Answered, abs, clean

\* Create, on a server without limit.
LEMMA Creates ==
    ASSUME ~done, UNCHANGED <<done, now>>, answer' = Err("nil"),
           NEW p \in Minted, NEW kv \in Data, NEW at \in 0..now,
           abs' = With(Restrict(abs, DOMAIN abs \ {p[1]}), p[1], newTokenValue(p, kv, at))
    PROVE  Abstract!Next
<1> DEFINE kept == DOMAIN abs \ {p[1]}
<1>1. abs' = Abstract!With(Abstract!Restrict(abs, kept), p[1], Abstract!newTokenValue(p, kv, at))
  BY AbstractNames
<1>2. ~(0 > 0)
  OBVIOUS
<1>3. Abstract!Create(p, kv, at)
  BY <1>1, <1>2, CleanErr DEF Abstract!Create, Abstract!Answered, abs, clean
<1> QED
  BY <1>3, AbstractNames DEF Abstract!Next

-----------------------------------------------------------------------------
(* The store as the sessions of Provider.                                  *)

\* Store and flag as they were.
LEMMA Unseen == UNCHANGED <<store, done>> => abs' = abs
BY DEF abs, Stored, Session

\* The fields of a stored session that decide what a call does.
LEMMA Shown ==
    ASSUME ~done
    PROVE  /\ DOMAIN abs = Stored
           /\ \A t \in Stored :
                 /\ abs[t] = Session(t)
                 /\ IsDeleted(abs[t], now) <=> IsDeleted(store[t].md, now)
                 /\ IsExpired(abs[t], now) <=> IsExpired(store[t].md, now)
                 /\ abs[t].refresh = store[t].md.refresh
                 /\ abs[t].id = IdOf[t]
BY DEF abs, Session, IsDeleted, IsExpired

\* Sessions gone, and no other change.
LEMMA Fewer ==
    ASSUME ~done, UNCHANGED done, NEW kept \in SUBSET Stored, Stored' = kept,
           \A t \in kept : store'[t] = store[t]
    PROVE  abs' = Restrict(abs, kept)
<1>1. abs' = [t \in kept |-> Session(t)']
  BY DEF abs
<1>2. \A t \in kept : Session(t)' = Session(t)
  BY DEF Session
<1>3. Restrict(abs, kept) = [t \in kept |-> Session(t)]
  BY Shown DEF Restrict
<1> QED
  BY <1>1, <1>2, <1>3

\* DEL shows as Provider's sessions without those keys.
LEMMA DelShown ==
    ASSUME ~done, UNCHANGED done, NEW ks, store' = Del(store, ks)
    PROVE  abs' = Restrict(abs, Stored \ ks)
<1>1. Stored' = Stored \ ks /\ \A t \in Stored \ ks : store'[t] = store[t]
  BY DEF Stored, Del, Restrict
<1> QED
  BY <1>1, Fewer

\* The hash h as the session of Provider that goes with the key t.
Shows(t, h) ==
    [id |-> IdOf[t], access |-> h.md.access, refresh |-> h.md.refresh,
     accessDeadline |-> h.md.accessDeadline, refreshDeadline |-> h.md.refreshDeadline,
     data |-> h.data]

\* The hash h is written under a, and kept are the other sessions that stay.
LEMMA WrittenShown ==
    ASSUME ~done, UNCHANGED done, NEW kept \in SUBSET Stored, NEW a, NEW h,
           Stored' = kept \cup {a}, store'[a] = h,
           \A t \in kept \ {a} : store'[t] = store[t]
    PROVE  abs' = With(Restrict(abs, kept), a, Shows(a, h))
<1>1. abs' = [t \in kept \cup {a} |-> Session(t)']
  BY DEF abs
<1>2. Session(a)' = Shows(a, h)
  BY DEF Session, Shows
<1>3. \A t \in kept \ {a} : Session(t)' = Session(t)
  BY DEF Session
<1>4. Restrict(abs, kept) = [t \in kept |-> Session(t)]
  BY Shown DEF Restrict
<1>5. With(Restrict(abs, kept), a, Shows(a, h))
        = [t \in kept \cup {a} |-> IF t = a THEN Shows(a, h) ELSE Session(t)]
  BY <1>4 DEF With
<1> QED
  BY <1>1, <1>2, <1>3, <1>5

\* The data of a session of the store.
LEMMA StoredData ==
    ASSUME IInv, NEW t \in Stored
    PROVE  store[t].data \in Data /\ Override(store[t].data, Empty) = store[t].data
<1>1. store[t].data \in Data
  BY StoredMetadata, HashFields
<1>2. IsPartial(store[t].data, Keys, Values)
  BY <1>1, PartialIff DEF Data
<1>3. \A f, S : f \in [S -> Values] => [x \in S |-> f[x]] = f
  OBVIOUS
<1>4. Override(store[t].data, Empty) = [x \in DOMAIN store[t].data |-> store[t].data[x]]
  BY DEF Override, Empty
<1> QED
  BY <1>1, <1>2, <1>3, <1>4 DEF IsPartial

\* HSET and EXPIREAT on a hash that is there, for a deadline a second away or
\* more.
LEMMA Overwritten ==
    ASSUME IInv, NEW t \in Stored, NEW md \in Metadata, NEW kv \in Data,
           Whole(md.refreshDeadline) > now
    PROVE  LET s == ExpireAt(HSet(store, t, md, kv), t, md.refreshDeadline) IN
           /\ DOMAIN s = DOMAIN store
           /\ s[t].md = md /\ s[t].data = Override(store[t].data, kv)
           /\ \A u \in DOMAIN store \ {t} : s[u] = store[u]
<1> DEFINE at == Whole(md.refreshDeadline)
           g == [store[t] EXCEPT !.md = md, !.data = Override(@, kv)]
           h == [g EXCEPT !.ttl = at]
           w == With(store, t, g)
<1>1. store[t] \in Hashes /\ t \in DOMAIN store /\ at \in Nat /\ now \in Nat
  BY StoredMetadata, WholeFacts DEF Metadata, IInv, Typed
<1>2. h.md = md /\ h.data = Override(store[t].data, kv)
  <2> HIDE DEF at
  <2> QED
    BY <1>1 DEF Hashes
<1>3. /\ HSet(store, t, md, kv) = w /\ DOMAIN w = DOMAIN store /\ w[t] = g
      /\ \A u \in DOMAIN store \ {t} : w[u] = store[u]
  BY <1>1 DEF HSet, With
<1> HIDE DEF w, g
<1>4. ExpireAt(w, t, md.refreshDeadline) = [w EXCEPT ![t].ttl = at]
  BY <1>1, <1>3 DEF ExpireAt
<1>5. [w EXCEPT ![t].ttl = at] = [w EXCEPT ![t] = h]
  BY <1>1, <1>3
<1> HIDE DEF h, at
<1>6. /\ DOMAIN [w EXCEPT ![t] = h] = DOMAIN store
      /\ [w EXCEPT ![t] = h][t] = h
      /\ \A u \in DOMAIN store \ {t} : [w EXCEPT ![t] = h][u] = store[u]
  BY <1>1, <1>3
<1> QED
  BY <1>2, <1>3, <1>4, <1>5, <1>6 DEF h, at

\* Session and Shows.
LEMMA ShownValues ==
    ASSUME NEW t, NEW h
    PROVE  /\ \A kv : h.md = store[t].md /\ h.data = Override(store[t].data, kv)
                => Shows(t, h) = SetCopy(Session(t), kv)
           /\ \A p, at : /\ IdOf[p[1]] = IdOf[t]
                         /\ h.md = newMetadata(p, at) /\ h.data = store[t].data
                => Shows(p[1], h) = Refreshed(Session(t), p, at)
           /\ \A p, kv, at : h.md = newMetadata(p, at) /\ h.data = kv
                => Shows(p[1], h) = newTokenValue(p, kv, at)
<1>1. ASSUME NEW kv, h.md = store[t].md, h.data = Override(store[t].data, kv)
      PROVE  Shows(t, h) = SetCopy(Session(t), kv)
  BY <1>1, Z3 DEF Shows, SetCopy, Session
<1>2. ASSUME NEW p, NEW at, IdOf[p[1]] = IdOf[t], h.md = newMetadata(p, at),
             h.data = store[t].data
      PROVE  Shows(p[1], h) = Refreshed(Session(t), p, at)
  <2> DEFINE a == at + AccessTTL
             r == at + RefreshTTL
             d == store[t].data
  <2>1. Refreshed(Session(t), p, at)
          \in [id : {IdOf[t]}, access : {p[1]}, refresh : {p[2]}, accessDeadline : {a},
               refreshDeadline : {r}, data : {d}]
    BY DEF Refreshed, Session
  <2>2. Shows(p[1], h) = [id |-> IdOf[t], access |-> p[1], refresh |-> p[2],
                          accessDeadline |-> a, refreshDeadline |-> r, data |-> d]
    BY <1>2 DEF Shows, newMetadata
  <2> HIDE DEF a, r, d
  <2> QED
    BY <2>1, <2>2
<1>3. ASSUME NEW p, NEW kv, NEW at, h.md = newMetadata(p, at), h.data = kv
      PROVE  Shows(p[1], h) = newTokenValue(p, kv, at)
  BY <1>3 DEF Shows, newTokenValue, newMetadata
<1> QED
  BY <1>1, <1>2, <1>3

-----------------------------------------------------------------------------
(* The steps.                                                              *)

\* What ImplementsUndisturbed allows.
Refined ==
    [Lapse \/ Disturbed \/ PurgeRevived \/ Abstract!Next \/ Unchecked]_(Abstract!vars)

\* Time passes: what the server drops is within a second of its deadline.
LEMMA TickRefines ==
    ASSUME IInv, Tick
    PROVE  Refined
<1>1. /\ now' = now + 1 /\ done' = done /\ answer' = answer /\ now \in Nat
      /\ store' = Del(store, {t \in DOMAIN store : store[t].ttl \in 1..now'})
  BY DEF Tick, goroutine, IInv, Typed
<1>2. /\ Stored' \subseteq Stored /\ \A t \in Stored' : store'[t] = store[t]
      /\ \A t \in Stored \ Stored' : store[t].ttl \in 1..now'
  BY <1>1 DEF Stored, Del, Restrict
<1>3. ASSUME NEW t \in Stored \ Stored'
      PROVE  IsDeleted(store[t].md, now + Second)
  <2>1. /\ store[t].ttl \in Nat /\ store[t].md.refreshDeadline \in Nat /\ Second \in Nat
        /\ store[t].ttl + Second > store[t].md.refreshDeadline
    BY StoredMetadata, HashFields, RedisAssumption DEF IInv, StoreOK, HashOK, Stored
  <2>2. store[t].ttl <= now + 1
    BY <1>1, <1>2, <2>1
  <2>3. ~(store[t].md.refreshDeadline > now + Second)
    BY <1>1, <2>1, <2>2
  <2> QED
    BY <2>3 DEF IsDeleted
<1> QED
  BY <1>1, <1>2, <1>3 DEF Lapse, Refined

\* The batch of the delete goroutine is a purge, or had what was revived.
LEMMA DeletingRefines ==
    ASSUME IInv, Deleting
    PROVE  Refined
<1>1. UNCHANGED <<done, answer, now>>
  BY DEF Deleting, DeleteRead, DeleteClosed, DeleteBatch, others
<1>2. CASE UNCHANGED store
  BY <1>1, <1>2, Unseen, Stutter DEF Refined
<1>3. CASE DeleteBatch /\ ~done
  <2> DEFINE kept == Stored \ deleter.m
  <2>1. DOMAIN abs = Stored /\ abs' = Restrict(abs, kept)
    BY <1>1, <1>3, Shown, DelShown DEF DeleteBatch
  <2>2. CASE deleter.m \cap revived = {}
    <3>1. \A t \in DOMAIN abs \ kept : t \in Stored /\ Dead(t)
      BY <2>1, <2>2 DEF IInv, ReportedOK, Reported
    <3>2. \A t \in DOMAIN abs \ kept : IsDeleted(abs[t], now)
      BY <1>3, <3>1, Shown DEF Dead
    <3>3. kept \in SUBSET DOMAIN abs
      BY <2>1
    <3> HIDE DEF kept, abs
    <3> QED
      BY <1>1, <2>1, <3>2, <3>3, Purges DEF Refined
  <2>3. CASE deleter.m \cap revived # {}
    BY <1>3, <2>3 DEF PurgeRevived, Refined
  <2> QED
    BY <2>2, <2>3
<1> QED
  BY <1>2, <1>3 DEF Deleting, DeleteRead, DeleteClosed, DeleteBatch

\* A call that is over with an answer.
LEMMA Returned ==
    ASSUME NEW s, NEW a, Return(s, a)
    PROVE  UNCHANGED <<done, now>> /\ answer' = a /\ store' = s
BY DEF Return

\* Commands of a call that find no session, or need none.
LEMMA CommandRefines ==
    ASSUME IInv, NEW c \in Clients, NEW t \in Tokens,
           \/ Reject(c, t) \/ ReadMissing(c, t) \/ KeysOf(c, t) \/ DestroyByToken(c, t)
           \/ RefreshMissing(c, t) \/ RefreshDead(c, t)
           \/ \E ks \in SUBSET (Keys \cup {MetadataKey}) : Delete(c, t, ks)
    PROVE  Refined
<1>1. CASE Reject(c, t)
  <2>1. abs' = abs /\ UNCHANGED <<done, now>> /\ answer' = Err("ErrTokenInvalid")
    BY <1>1, Returned, Unseen DEF Reject
  <2> QED
    BY <2>1, Rejects DEF Refined
<1>2. CASE ReadMissing(c, t) \/ RefreshMissing(c, t)
  <2>1. ~done /\ UNCHANGED <<store, done, now>> /\ answer' = Err("ErrTokenNotExists")
        /\ Dead(t)
    BY <1>2, Returned DEF ReadMissing, RefreshMissing, Enter, server, Dead
  <2>2. abs' = abs /\ (t \in DOMAIN abs => IsDeleted(abs[t], now))
    BY <2>1, Unseen, Shown DEF Dead
  <2> HIDE DEF abs
  <2> QED
    BY <2>1, <2>2, Misses DEF Refined
<1>3. CASE KeysOf(c, t) \/ \E ks \in SUBSET (Keys \cup {MetadataKey}) : Delete(c, t, ks)
  BY <1>3 DEF Unchecked, Refined
<1>4. CASE DestroyByToken(c, t)
  <2>1. ~done /\ UNCHANGED <<done, now>> /\ answer' = Err("nil") /\ store' = Del(store, {t})
    BY <1>4, Returned DEF DestroyByToken, Enter
  <2>2. abs' = Without(abs, t)
    BY <2>1, DelShown, Shown DEF Without
  <2> QED
    BY <2>1, <2>2, DestroysByToken DEF Refined
<1>5. CASE RefreshDead(c, t)
  <2>1. abs' = abs /\ UNCHANGED <<done, now>> /\ answer' = Err("nil") /\ t \in Stored /\ Dead(t)
    BY <1>5, Unseen DEF RefreshDead, server
  <2>2. /\ store[t].md.refreshDeadline \in Nat /\ now \in Nat /\ RefreshTTL \in Nat
        /\ store[t].md.refreshDeadline >= RefreshTTL
        /\ ~(store[t].md.refreshDeadline > now)
    BY <2>1, StoredMetadata, TTLAssumption DEF Dead, IsDeleted, IInv, Typed, StoreOK, HashOK, Stored
  <2>3. 0 \in 0..now /\ 0 + RefreshTTL <= now
    BY <2>2
  <2> QED
    BY <2>1, <2>3, CreatesLate DEF Refined
<1> QED
  BY <1>1, <1>2, <1>3, <1>4, <1>5

\* Calls on a session that is there.
LEMMA SessionRefines ==
    ASSUME IInv, NEW c \in Clients, NEW t \in Stored,
           \/ \E r \in ReadOps : r.op # "Keys" /\ Read(c, t, r)
           \/ \E kv \in NewData : PutCall(c, t, kv)
           \/ \E r \in Tokens, p \in Minted : RefreshCall(c, t, r, p)
    PROVE  Refined
<1>1. ~done /\ ~IsDeleted(store[t].md, now)
  BY DEF Read, PutCall, RefreshCall, Enter, Dead
<1>2. /\ t \in DOMAIN abs /\ abs[t] = Session(t) /\ ~IsDeleted(abs[t], now)
      /\ IsExpired(abs[t], now) <=> IsExpired(store[t].md, now)
      /\ abs[t].refresh = store[t].md.refresh
  BY <1>1, Shown
<1>3. ASSUME NEW r \in ReadOps, r.op # "Keys", Read(c, t, r)
      PROVE  Refined
  <2> DEFINE a == IF IsExpired(store[t].md, now) THEN Err("ErrTokenExpired")
                  ELSE Answer(Session(t), r)
  <2>1. abs' = abs /\ UNCHANGED <<done, now>> /\ answer' = a
    BY <1>3, Returned, Unseen DEF Read
  <2>2. answer' = IF IsExpired(abs[t], now) THEN Err("ErrTokenExpired") ELSE Answer(abs[t], r)
    BY <1>2, <2>1
  <2> HIDE DEF a, abs
  <2> QED
    BY <1>1, <1>2, <1>3, <2>1, <2>2, Reads DEF Refined
<1>4. ASSUME NEW kv \in NewData, PutCall(c, t, kv)
      PROVE  Refined
  <2>1. UNCHANGED store /\ UNCHANGED <<done, now>>
        /\ \/ UNCHANGED answer
           \/ IsExpired(store[t].md, now) /\ answer' = Err("ErrTokenExpired")
    BY <1>4, Returned DEF PutCall, server
  <2>2. abs' = abs /\ kv \in Data
    BY <2>1, Unseen, RedisAssumption
  <2>3. CASE UNCHANGED answer
    BY <2>1, <2>2, <2>3, Stutter DEF Refined
  <2>4. CASE IsExpired(store[t].md, now) /\ answer' = Err("ErrTokenExpired")
    <3> HIDE DEF abs
    <3> QED
      BY <1>1, <1>2, <2>1, <2>2, <2>4, Puts DEF Refined
  <2> QED
    BY <2>1, <2>3, <2>4
<1>5. ASSUME NEW r \in Tokens, NEW p \in Minted, RefreshCall(c, t, r, p)
      PROVE  Refined
  <2>1. UNCHANGED store /\ UNCHANGED <<done, now>>
        /\ \/ UNCHANGED answer
           \/ store[t].md.refresh # r /\ answer' = Err("ErrRefreshTokenNotMatched")
    BY <1>5, Returned DEF RefreshCall, server
  <2>2. abs' = abs
    BY <2>1, Unseen
  <2>3. CASE UNCHANGED answer
    BY <2>1, <2>2, <2>3, Stutter DEF Refined
  <2>4. CASE store[t].md.refresh # r /\ answer' = Err("ErrRefreshTokenNotMatched")
    <3> HIDE DEF abs
    <3> QED
      BY <1>1, <1>2, <2>1, <2>2, <2>4, Refreshes DEF Refined
  <2> QED
    BY <2>1, <2>3, <2>4
<1> QED
  BY <1>3, <1>4, <1>5

\* Calls that are over, or on their way, after one command or none.
LEMMA BeginRefines ==
    ASSUME IInv, NEW c \in Clients, Begin(c)
    PROVE  Refined
<1>1. CASE RefreshReject(c)
  <2>1. abs' = abs /\ UNCHANGED <<done, now>> /\ answer' = Err("ErrTokenIDNotMatched")
    BY <1>1, Returned, Unseen DEF RefreshReject
  <2> QED
    BY <2>1, Rejects DEF Refined
<1>2. CASE Close(c)
  <2>1. ~done /\ done' /\ answer' = Err("nil") /\ now' = now
    BY <1>2 DEF Close, Enter
  <2>2. abs' = Empty
    BY <2>1 DEF abs, Empty
  <2> QED
    BY <2>1, <2>2, Closes DEF Refined
<1>3. ASSUME NEW p \in Minted, NEW kv \in NewData, CreateCall(c, p, kv)
      PROVE  Refined
  <2>1. abs' = abs /\ UNCHANGED <<done, answer, now>>
    BY <1>3, Unseen DEF CreateCall, server
  <2> QED
    BY <2>1, Stutter DEF Refined
<1>4. ASSUME NEW id \in Ids, DestroyCall(c, id)
      PROVE  Refined
  <2> DEFINE keys == {t \in DOMAIN store : IdOf[t] = id}
  <2>1. ~done /\ UNCHANGED <<store, done, now>>
        /\ (UNCHANGED answer \/ (keys = {} /\ answer' = Err("nil")))
    BY <1>4, Returned DEF DestroyCall, Enter, server
  <2>2. abs' = abs
    BY <2>1, Unseen
  <2>3. CASE UNCHANGED answer
    BY <2>1, <2>2, <2>3, Stutter DEF Refined
  <2>4. CASE keys = {} /\ answer' = Err("nil")
    <3>1. \A t \in DOMAIN abs : abs[t].id # id
      BY <2>1, <2>4, Shown DEF Stored
    <3>2. {t \in DOMAIN abs : abs[t].id # id} = DOMAIN abs
      BY <3>1
    <3>3. Restrict(abs, DOMAIN abs) = abs
      BY DEF abs, Restrict
    <3> HIDE DEF abs
    <3> QED
      BY <2>1, <2>2, <2>4, <3>2, <3>3, Destroys DEF Refined
  <2> QED
    BY <2>1, <2>3, <2>4
<1> QED
  BY <1>1, <1>2, <1>3, <1>4, CommandRefines, SessionRefines DEF Begin

\* Calls that end without a transaction.
LEMMA EndRefines ==
    ASSUME IInv, NEW c \in Clients,
           Refuse(c) \/ CreateLate(c) \/ Fail(c) \/ Send(c) \/ SendClosed(c)
    PROVE  Refined
<1>1. CASE Refuse(c)
  <2>1. abs' = abs /\ UNCHANGED <<done, now>> /\ done /\ answer' = Err("ErrProviderClosed")
    BY <1>1, Unseen DEF Refuse, server
  <2> QED
    BY <2>1, Refuses DEF Refined
<1>2. CASE CreateLate(c)
  <2>1. /\ abs' = abs /\ UNCHANGED <<done, now>> /\ answer' = Err("nil")
        /\ IsDeleted(newMetadata(call[c].p, call[c].at), now)
    BY <1>2, Unseen DEF CreateLate, server
  <2>2. call[c].at \in Nat /\ call[c].at <= now /\ now \in Nat /\ RefreshTTL \in Nat
    BY <1>2, CallFields, TTLAssumption DEF CreateLate, IInv, Typed, PendingOK, Pending
  <2>3. call[c].at \in 0..now /\ call[c].at + RefreshTTL <= now
    BY <2>1, <2>2 DEF IsDeleted, newMetadata
  <2> QED
    BY <2>1, <2>3, CreatesLate DEF Refined
<1>3. CASE Fail(c) \/ Send(c) \/ SendClosed(c)
  <2>1. abs' = abs /\ UNCHANGED <<done, answer, now>>
    BY <1>3, Unseen DEF Fail, Send, SendClosed, server
  <2> QED
    BY <2>1, Stutter DEF Refined
<1> QED
  BY <1>1, <1>2, <1>3

\* The server executed a last request.
LEMMA Served ==
    ASSUME NEW c, NEW s, NEW a, Executed(c, s, a)
    PROVE  ~done /\ UNCHANGED <<done, now>> /\ answer' = a /\ store' = s
BY DEF Executed

\* A new key, written by Create.
LEMMA CreateRefines ==
    ASSUME IInv, NEW c \in Clients, Create(c), Undisturbed(c)
    PROVE  Refined
<1> DEFINE p == call[c].p
           kv == call[c].kv
           at == call[c].at
           t == p[1]
           md == newMetadata(p, at)
           w == With(store, t, [md |-> md, data |-> kv, ttl |-> 0])
           x == [w EXCEPT ![t].ttl = Whole(md.refreshDeadline)]
           y == [x EXCEPT ![t].ttl = now + Whole(RefreshTTL)]
<1>1. /\ call[c].op = "create" /\ p \in Minted /\ kv \in Data /\ at \in Nat /\ at <= now
      /\ now \in Nat
  BY CallFields DEF Create, IInv, Typed, PendingOK, Pending
<1>2. t \notin DOMAIN store /\ Whole(at + RefreshTTL) > now
  BY <1>1 DEF Undisturbed
<1>3. /\ ~done /\ UNCHANGED <<done, now>> /\ answer' = Err("nil")
      /\ store' = Expire(ExpireAt(HSet(store, t, md, kv), t, md.refreshDeadline), t, RefreshTTL)
  BY Served DEF Create
<1>4. md \in Metadata /\ md.refreshDeadline = at + RefreshTTL /\ md # NoMetadata
  BY <1>1, NewMetadata, NoMetadataAssumption
<1>5. HSet(store, t, md, kv) = w
  BY <1>2 DEF HSet
<1>6. Whole(md.refreshDeadline) \in Nat /\ Whole(RefreshTTL) \in Nat
  BY <1>1, <1>4, WholeFacts, TTLAssumption
<1> HIDE DEF md, t, p, kv, at
<1>7. /\ DOMAIN w = DOMAIN store \cup {t} /\ w[t] = [md |-> md, data |-> kv, ttl |-> 0]
      /\ \A u \in DOMAIN store : w[u] = store[u]
  BY <1>2 DEF With
<1> HIDE DEF w
<1>8. ExpireAt(w, t, md.refreshDeadline) = x
  BY <1>2, <1>4, <1>6, <1>7, <1>1 DEF ExpireAt
<1>9. Expire(x, t, RefreshTTL) = y
  BY <1>7 DEF Expire
<1>10. /\ DOMAIN y = DOMAIN store \cup {t} /\ y[t].md = md /\ y[t].data = kv
       /\ \A u \in DOMAIN store : y[u] = store[u]
  BY <1>2, <1>7
<1>11. store' = y
  BY <1>3, <1>5, <1>8, <1>9
<1> HIDE DEF x, y
<1>12. /\ Stored' = Stored \cup {t} /\ t \notin Stored
       /\ \A u \in Stored \ {t} : store'[u] = store[u]
  BY <1>2, <1>4, <1>10, <1>11 DEF Stored
<1>13. abs' = With(Restrict(abs, Stored), t, Shows(t, y[t]))
  BY <1>3, <1>11, <1>12, WrittenShown
<1>14. Shows(t, y[t]) = newTokenValue(p, kv, at)
  BY <1>10, ShownValues DEF t, md
<1>15. abs' = With(Restrict(abs, DOMAIN abs \ {p[1]}), p[1], newTokenValue(p, kv, at))
  <2>1. DOMAIN abs \ {t} = Stored
    BY <1>3, <1>12, Shown
  <2> QED
    BY <1>13, <1>14, <2>1 DEF t
<1>16. at \in 0..now /\ p \in Minted /\ kv \in Data
  BY <1>1 DEF p, kv, at
<1> HIDE DEF abs
<1> QED
  BY <1>3, <1>15, <1>16, Creates DEF Refined

\* The values of Put, on the metadata that it read.
LEMMA PutRefines ==
    ASSUME IInv, NEW c \in Clients, Put(c), Undisturbed(c)
    PROVE  Refined
<1> DEFINE t == call[c].token
           kv == call[c].kv
           md == call[c].md
           s == ExpireAt(HSet(store, t, md, kv), t, md.refreshDeadline)
<1>1. /\ call[c].op = "put" /\ kv \in Data /\ md \in Metadata /\ now \in Nat
      /\ md # NoMetadata
  BY CallFields, NoMetadataAssumption DEF Put, IInv, Typed
<1>2. /\ t \in DOMAIN store /\ store[t].md = md /\ Whole(md.refreshDeadline) > now
      /\ call[c].at = now
  BY <1>1 DEF Undisturbed
<1>3. ~done /\ UNCHANGED <<done, now>> /\ answer' = Err("nil") /\ store' = s
  BY Served DEF Put
<1>4. ~IsExpired(md, now)
  BY <1>1, <1>2 DEF IInv, LookedOK, Looked
<1>5. md.refreshDeadline > now
  BY <1>1, <1>2, WholeFacts DEF Metadata
<1> HIDE DEF t, kv, md
<1>6. t \in Stored
  BY <1>1, <1>2 DEF Stored
<1>7. /\ DOMAIN s = DOMAIN store
      /\ s[t].md = md /\ s[t].data = Override(store[t].data, kv)
      /\ \A u \in DOMAIN store \ {t} : s[u] = store[u]
  BY <1>1, <1>2, <1>6, Overwritten
<1> HIDE DEF s
<1>8. /\ Stored' = Stored \cup {t}
      /\ \A u \in Stored \ {t} : store'[u] = store[u]
  BY <1>1, <1>3, <1>6, <1>7 DEF Stored
<1>9. abs' = With(Restrict(abs, Stored), t, Shows(t, s[t]))
  BY <1>3, <1>8, WrittenShown
<1>10. DOMAIN abs = Stored /\ abs[t] = Session(t)
       /\ ~IsDeleted(abs[t], now) /\ ~IsExpired(abs[t], now)
  BY <1>2, <1>3, <1>4, <1>5, <1>6, Shown DEF IsDeleted
<1>11. Shows(t, s[t]) = SetCopy(abs[t], kv)
  BY <1>2, <1>6, <1>7, <1>10, ShownValues
<1> HIDE DEF abs
<1>12. With(Restrict(abs, Stored), t, SetCopy(abs[t], kv)) = [abs EXCEPT ![t] = SetCopy(abs[t], kv)]
  BY <1>6, <1>10 DEF With, Restrict
<1> QED
  BY <1>1, <1>3, <1>6, <1>9, <1>10, <1>11, <1>12, Puts DEF Refined

\* The new metadata of Refresh, and the new name.
LEMMA RefreshRefines ==
    ASSUME IInv, NEW c \in Clients, Refresh(c), Undisturbed(c)
    PROVE  Refined
<1> DEFINE t == call[c].token
           p == call[c].p
           n == p[1]
           md == newMetadata(p, now)
           s == ExpireAt(HSet(store, t, md, Empty), t, md.refreshDeadline)
<1>1. /\ call[c].op = "refresh" /\ p \in Minted /\ now \in Nat /\ t # n
      /\ IdOf[n] = IdOf[t]
  BY CallFields DEF Refresh, IInv, Typed, PendingOK, Pending, LookedOK, Looked
<1>2. /\ t \in DOMAIN store /\ store[t].md = call[c].md /\ call[c].at = now
      /\ Whole(call[c].md.refreshDeadline) > now /\ call[c].md \in Metadata
  BY <1>1, CallFields DEF Undisturbed, IInv
<1>3. /\ ~done /\ UNCHANGED <<done, now>> /\ store' = Rename(s, t, n)
      /\ t \in DOMAIN s => answer' = Err("nil")
  BY <1>2, Served DEF Refresh
<1>4. md \in Metadata /\ md.refreshDeadline = now + RefreshTTL /\ md # NoMetadata
  BY <1>1, NewMetadata, NoMetadataAssumption
<1>5. Whole(md.refreshDeadline) > now
  <2>1. /\ now + RefreshTTL \in Nat /\ Second \in Nat /\ RefreshTTL \in Nat
        /\ Second <= RefreshTTL
    BY <1>1, RedisAssumption, TTLAssumption
  <2>2. Whole(now + RefreshTTL) \in Nat /\ Whole(now + RefreshTTL) + Second > now + RefreshTTL
    BY <2>1, WholeFacts
  <2> QED
    BY <1>1, <1>4, <2>1, <2>2
<1>6. t \in Stored /\ ~IsDeleted(store[t].md, now)
  <2>1. call[c].md # NoMetadata /\ call[c].md.refreshDeadline > now
    BY <1>1, <1>2, WholeFacts, NoMetadataAssumption DEF Metadata
  <2> QED
    BY <1>2, <2>1 DEF Stored, IsDeleted
<1>7. Empty \in Data /\ Override(store[t].data, Empty) = store[t].data
  BY <1>6, StoredData, DataFacts
<1> HIDE DEF t, p, n, md
<1>8. /\ DOMAIN s = DOMAIN store /\ s[t].md = md /\ s[t].data = store[t].data
      /\ \A u \in DOMAIN store \ {t} : s[u] = store[u]
  BY <1>4, <1>5, <1>6, <1>7, Overwritten
<1> HIDE DEF s
<1>9. /\ store' = With(Without(s, t), n, s[t]) /\ answer' = Err("nil")
  BY <1>2, <1>3, <1>8 DEF Rename
<1>10. /\ DOMAIN store' = (DOMAIN store \ {t}) \cup {n} /\ store'[n] = s[t]
       /\ \A u \in DOMAIN store \ {t, n} : store'[u] = store[u]
  BY <1>8, <1>9 DEF With, Without, Restrict
<1>11. /\ Stored' = (Stored \ {t}) \cup {n}
       /\ \A u \in (Stored \ {t}) \ {n} : store'[u] = store[u]
  BY <1>4, <1>8, <1>10 DEF Stored
<1>12. abs' = With(Restrict(abs, Stored \ {t}), n, Shows(n, s[t]))
  BY <1>3, <1>10, <1>11, WrittenShown
<1>13. DOMAIN abs = Stored /\ abs[t] = Session(t) /\ ~IsDeleted(abs[t], now)
       /\ abs[t].refresh = store[t].md.refresh
  BY <1>3, <1>6, Shown
<1>14. Shows(n, s[t]) = Refreshed(abs[t], p, now)
  BY <1>1, <1>8, <1>13, ShownValues DEF n, p, md
<1>15. abs[t].refresh \in Tokens
  BY <1>6, <1>13, StoredMetadata DEF Metadata
<1> HIDE DEF abs
<1>16. abs' = With(Without(abs, t), p[1], Refreshed(abs[t], p, now))
  BY <1>12, <1>13, <1>14 DEF Without, n
<1>17. p \in Minted
  BY <1>1 DEF p
<1> QED
  BY <1>3, <1>6, <1>9, <1>13, <1>15, <1>16, <1>17, Refreshes DEF Refined

\* The keys that Destroy listed are all keys of the id, then and now.
LEMMA DestroyRefines ==
    ASSUME IInv, NEW c \in Clients, Destroy(c), Undisturbed(c)
    PROVE  Refined
<1> DEFINE id == call[c].id
           ks == call[c].keys
<1>1. call[c].op = "destroy"
  BY DEF Destroy
<1>2. /\ id \in Ids /\ \A t \in ks : IdOf[t] = id
      /\ {t \in DOMAIN store : IdOf[t] = id} \subseteq ks
  <2>1. call[c] \in Calls
    BY DEF IInv, Typed
  <2>2. id \in Ids
    BY <1>1, <2>1 DEF Calls
  <2> QED
    BY <1>1, <2>2 DEF IInv, LookedOK, Looked, Undisturbed
<1>3. ~done /\ UNCHANGED <<done, now>> /\ answer' = Err("nil") /\ store' = Del(store, ks)
  BY Served DEF Destroy
<1> HIDE DEF id, ks
<1>4. abs' = Restrict(abs, Stored \ ks)
  BY <1>3, DelShown
<1>5. Stored \ ks = {t \in DOMAIN abs : abs[t].id # id}
  BY <1>2, <1>3, Shown DEF Stored
<1> HIDE DEF abs
<1> QED
  BY <1>2, <1>3, <1>4, <1>5, Destroys DEF Refined

\* Undisturbed transactions are Provider's, the others are excepted.
LEMMA TransactionRefines ==
    ASSUME IInv, NEW c \in Clients, Transaction(c)
    PROVE  Refined
<1>1. CASE ~Undisturbed(c)
  BY <1>1 DEF Disturbed, Refined
<1>2. CASE Undisturbed(c)
  BY <1>2, CreateRefines, PutRefines, RefreshRefines, DestroyRefines DEF Transaction
<1> QED
  BY <1>1, <1>2

\* A server without sessions.
LEMMA InitRefines == Init => Abstract!Init
<1> SUFFICES ASSUME Init PROVE Abstract!Init
  OBVIOUS
<1>1. abs = Empty
  BY DEF Init, Stored, Empty, abs
<1>2. clean = Abstract!Err("nil")
  <2>1. answer = Err("nil")
    BY DEF Init
  <2> QED
    BY <2>1, AbstractNames DEF clean, Err
<1> QED
  BY <1>1, <1>2, AbstractNames DEF Init, Abstract!Init, abs, clean

\* Every step is one of Provider, excepted, or invisible.
LEMMA StepRefines == IInv /\ [Next]_vars => Refined
<1> SUFFICES ASSUME IInv, [Next]_vars
             PROVE  Refined
  OBVIOUS
<1>1. CASE UNCHANGED vars
  <2>1. abs' = abs /\ UNCHANGED <<done, answer, now>>
    BY <1>1, Unseen DEF vars
  <2> QED
    BY <2>1, Stutter DEF Refined
<1> QED
  BY <1>1, TickRefines, DeletingRefines, BeginRefines, TransactionRefines, EndRefines DEF Next

\* ImplementsUndisturbed: for any number of clients, each call takes effect at
\* one instant, as Provider says, without a lock, as long as what it read is
\* still so when its last request arrives.  Only calls that were overtaken,
\* Keys and Delete, and the purge of what an overtaken call wrote back do
\* what Provider does not.
THEOREM RedisImplementsUndisturbed == Spec => ImplementsUndisturbed
<1>1. IInv /\ [Next]_vars
         => [Lapse \/ Disturbed \/ PurgeRevived \/ Abstract!Next \/ Unchecked]_(Abstract!vars)
  BY StepRefines DEF Refined
<1> QED
  BY <1>1, IInvAlways, InitRefines, PTL DEF ImplementsUndisturbed, Spec
=============================================================================
