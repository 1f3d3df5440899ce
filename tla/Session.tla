------------------------------ MODULE Session ------------------------------
(***************************************************************************)
(* One Session: a handle on an access token with a local cache in front of *)
(* the provider.  The cache holds, per key, the encoded value the provider *)
(* returned or was given, and the last value decoded from it.  Everybody   *)
(* else (other handles on the same token included, which share nothing     *)
(* with this one but the provider) appears as steps of Provider.           *)
(*                                                                         *)
(* A handle serves one goroutine and its cache is local, so a call on the  *)
(* provider and the bookkeeping that follows it are one step.              *)
(*                                                                         *)
(* A decoded value lives at an address: assigning a slice or a map shares  *)
(* what it points to, and a decoder given a variable that already points   *)
(* to storage may fill that storage in place.                              *)
(***************************************************************************)
EXTENDS Sessions

CONSTANTS
    MaxSize,    \* opts.maxSize of the provider
    Types,      \* types of the variables callers pass to Get
    KindOf,     \* reflect.Kind of a type
    Decodable,  \* the <<value, type>> pairs the coder can decode
    Reused,     \* slice types whose variable the caller passes to every Get
    Addresses   \* bound: storage of decoded values

ASSUME SessionAssumption ==
    /\ KindOf \in [Types -> {KindOf[T] : T \in Types}]
    /\ Decodable \subseteq Values \X Types
    /\ Reused \subseteq Types
    /\ Missing \notin Values

VARIABLES
    sessions, closed, answer, now,  \* the provider
    token,    \* the access token of the handle
    keys,     \* the cache
    heap,     \* address -> the value stored there
    pointer,  \* type in Reused -> the address its variable points to
    result,   \* what the last step returned to the user of the handle
    held      \* history: every <<key, value>> the stored session has shown

provider == <<sessions, closed, answer, now>>

vars == <<provider, token, keys, heap, pointer, result, held>>

P == INSTANCE Provider

NotReady == <<>>

\* A cache entry: the type value of session.go, where elem is Elem if Ready.
Entries == [bytes : Values \cup {Missing},
            elem : {NotReady} \cup (Types \X Addresses)]

Results == [op : {"none", "failed", "missing", "panic"}]
             \cup [op : {"put"}, ks : SUBSET Keys]
             \cup [op : {"get"}, k : Keys, t : Types, v : Values]

None == [op |-> "none"]
Failed == [op |-> "failed"]
KeyNotExists == [op |-> "missing"]

TypeOK ==
    /\ P!TypeOK
    /\ token \in Tokens
    /\ IsPartial(keys, Keys, Entries)
    /\ IsPartial(heap, Addresses, Values)
    /\ IsPartial(pointer, Reused, DOMAIN heap)
    /\ result \in Results
    /\ held \subseteq Keys \X (Values \cup {Missing})

\* NewSession.
Init ==
    /\ P!Init
    /\ token \in {t \in Tokens : Valid(t)}
    /\ keys = Empty
    /\ heap = Empty
    /\ pointer = Empty
    /\ result = None
    /\ held = {}

-----------------------------------------------------------------------------
Entry(b) == [bytes |-> b, elem |-> NotReady]

\* The addresses the entries of ks and the variables in ptr point to.
Used(ks, ptr) ==
    {ks[k].elem[2] : k \in {k \in DOMAIN ks : ks[k].elem # NotReady}}
      \cup Range(ptr)

\* The cache and the variables change; storage nothing points to is garbage.
Store(ks, ptr, h) ==
    /\ keys' = ks
    /\ pointer' = ptr
    /\ heap' = Restrict(h, DOMAIN h \cap Used(ks, ptr))

Cache(ks) == Store(ks, pointer, heap)

local == <<keys, heap, pointer>>

\* The provider does not let the call on the token t through.
Denied(t) ==
    IF Valid(t)
    THEN \/ P!Refuse \/ P!NotExists(t)
         \/ t \in DOMAIN sessions /\ IsExpired(sessions[t], now) /\ P!Read(t, [op |-> "Check"])
    ELSE P!Reject

\* What Get and Prepare learn from provider.Get.
ProviderGet(ks) ==
    /\ P!Read(token, [op |-> "Get", ks |-> ks])
    /\ answer'.e = "nil"

-----------------------------------------------------------------------------
(* Calls on the handle.                                                    *)

\* Any call the provider turns down changes nothing here.
Deny ==
    /\ Denied(token)
    /\ result' = Failed
    /\ UNCHANGED local

\* Mutant: a decoded value outlives the Put of another one.
PutKeepsElem(kv) ==
    /\ P!Put(token, kv)
    /\ answer'.e = "nil"
    /\ result' = [op |-> "put", ks |-> DOMAIN kv]
    /\ Cache(Override(keys, [k \in DOMAIN kv |->
                 IF k \in DOMAIN keys THEN [keys[k] EXCEPT !.bytes = kv[k]]
                                      ELSE Entry(kv[k])]))

\* Mutant: the cache is filled whatever the provider answers.
PutAnyway(kv) ==
    /\ P!Put(token, kv) \/ Denied(token)
    /\ result' = [op |-> "put", ks |-> DOMAIN kv]
    /\ Cache(Override(keys, [k \in DOMAIN kv |-> Entry(kv[k])]))

\* Put goes to the provider first; what it accepted is cached, not decoded.
Put(kv) ==
    /\ DOMAIN kv # {}
    /\ P!Put(token, kv)
    /\ answer'.e = "nil"
    /\ result' = [op |-> "put", ks |-> DOMAIN kv]
    /\ Cache(Override(keys, [k \in DOMAIN kv |-> Entry(kv[k])]))

\* Mutant: Prepare asks for every key, and replaces what the cache holds.
PrepareAll(ks) ==
    /\ ks # {}
    /\ ProviderGet(ks)
    /\ result' = None
    /\ Cache(Override(keys, [k \in ks |-> Entry(answer'.vals[k])]))

\* Prepare asks for the keys that are not cached yet, and caches also that a
\* key does not exist.
Prepare(ks) ==
    LET dst == ks \ DOMAIN keys IN
    /\ dst # {}
    /\ ProviderGet(dst)
    /\ result' = None
    /\ Cache(Override(keys, [k \in dst |-> Entry(answer'.vals[k])]))

\* Decode into a variable of type T writes to new storage, or in place.
Target(T) == (Addresses \ Used(keys, pointer)) \cup
                (IF T \in DOMAIN pointer THEN {pointer[T]} ELSE {})

\* The variable of type T, if the caller keeps it, points to a.
PointTo(T, a) == IF T \in Reused THEN With(pointer, T, a) ELSE pointer

Got(k, T, b) == [op |-> "get", k |-> k, t |-> T, v |-> b]

\* The coder decodes b into a variable of type T, which Get then caches.
Decode(k, T, b) ==
    IF <<b, T>> \in Decodable
    THEN /\ \E a \in Target(T) :
              Store(With(keys, k, [bytes |-> b, elem |-> <<T, a>>]),
                    PointTo(T, a), With(heap, a, b))
         /\ result' = Got(k, T, b)
    ELSE /\ result' = Failed
         /\ UNCHANGED local

\* Get of a key that is not cached asks the provider.
GetMiss(k, T) ==
    /\ k \notin DOMAIN keys
    /\ ProviderGet({k})
    /\ IF answer'.vals[k] = Missing
       THEN Cache(With(keys, k, Entry(Missing))) /\ result' = KeyNotExists
       ELSE Decode(k, T, answer'.vals[k])

\* The decoded value is of this kind: Get assigns it, without the decoder.
\* reflect.Value.Set panics when the types differ all the same.
Ready(k, T) == keys[k].elem # NotReady /\ KindOf[keys[k].elem[1]] = KindOf[T]

\* Get of a cached key does not ask the provider.
GetHit(k, T) ==
    /\ k \in DOMAIN keys
    /\ UNCHANGED provider
    /\ IF keys[k].bytes = Missing
       THEN result' = KeyNotExists /\ UNCHANGED local
       ELSE IF ~Ready(k, T)
       THEN Decode(k, T, keys[k].bytes)
       ELSE IF keys[k].elem[1] # T
       THEN result' = [op |-> "panic"] /\ UNCHANGED local
       ELSE /\ result' = Got(k, T, heap[keys[k].elem[2]])
            /\ Store(keys, PointTo(T, keys[k].elem[2]), heap)

\* Delete takes the token from its caller and does not touch the cache.
Delete(t, ks) ==
    /\ \/ P!Delete(t, ks) /\ answer'.e = "nil"
       \/ Denied(t)
    /\ result' = None
    /\ UNCHANGED local

\* Check, Keys and Destroy only pass the call on.
Pass ==
    /\ \/ P!DestroyByToken(token)
       \/ \E r \in {[op |-> "Check"], [op |-> "Keys"]} : P!Read(token, r)
    /\ result' = None
    /\ UNCHANGED local

\* Other users of the provider, its goroutines, and the clock.
Elsewhere == P!Next /\ result' = None /\ UNCHANGED local

-----------------------------------------------------------------------------
\* What the session of the token shows after a step.
Shown == {<<k, CopyKeys(sessions[token], Keys)[k]>> :
              k \in IF token \in DOMAIN sessions THEN Keys ELSE {}}

Calls ==
    \/ Deny \/ Pass
    \/ \E kv \in Data : Put(kv)
    \/ \E ks \in SUBSET Keys : Prepare(ks)
    \/ \E k \in Keys, T \in Types : GetMiss(k, T) \/ GetHit(k, T)
    \/ \E t \in Tokens, ks \in SUBSET Keys : Delete(t, ks)

Next ==
    /\ UNCHANGED token
    /\ Calls \/ Elsewhere
    /\ held' = held \cup Shown'

Spec == Init /\ [][Next]_vars

-----------------------------------------------------------------------------
(* Properties.                                                             *)

\* What the cache says of a key, that it is missing included, the stored
\* session said at some time: a Put the provider turned down, an error and a
\* failed decode leave nothing behind.
CacheFromProvider ==
    \A k \in DOMAIN keys : <<k, keys[k].bytes>> \in held

\* A handle does not change its mind about a key, whatever others do to the
\* session: only a Put through the handle itself replaces a cached value.
StableReads ==
    [][\A k \in DOMAIN keys :
          /\ k \in DOMAIN keys'
          /\ \/ keys'[k].bytes = keys[k].bytes
             \/ result'.op = "put" /\ k \in result'.ks]_vars

\* Get returns what the cached bytes decode to, also when it returns the value
\* an earlier Get decoded, for callers that pass a variable of their own to
\* each Get.
GetReturnsStored ==
    [][result'.op = "get" /\ result'.t \notin Reused =>
          result'.v = keys'[result'.k].bytes]_vars

\* session_test.go:47-53 changes the slice it got from Get, calls Get again and
\* expects the value that was put: Get returns the stored value whatever
\* variable it is given.
GetReturnsStoredAnyway ==
    [][result'.op = "get" => result'.v = keys'[result'.k].bytes]_vars
=============================================================================
