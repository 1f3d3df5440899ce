-------------------------------- MODULE Redis --------------------------------
(***************************************************************************)
(* The redis provider: one hash per session on a server that drops a key   *)
(* when its time to live is over.  There is no lock.  A reader sends one   *)
(* command; Create, Put, Refresh and Destroy send their last request, a    *)
(* transaction, on the strength of what they learned before it, and other  *)
(* callers, the clock and the deleting goroutine run in between.  A reply  *)
(* may be lost: the client library then sends the transaction again, or    *)
(* the call fails although it took effect.                                 *)
(*                                                                         *)
(* Callers use the tokens a manager gave them: an access token is stored   *)
(* by one Create or Refresh, and nobody presents it before.  Programs that *)
(* share the server are further clients.  Everybody reads one clock.       *)
(***************************************************************************)
EXTENDS Sessions

CONSTANTS
    Second,       \* clock units in a second, the unit of EXPIREAT and EXPIRE
    MetadataKey,  \* opts.metadataKey, the reserved field of every hash
    NoMetadata,   \* stands for the metadata of a hash without that field
    Batch,        \* opts.batch: capacity of ch and largest batch of delete
    Clients,      \* goroutines that call the provider
    NewData       \* bound: the data given to Create and Put

ASSUME RedisAssumption ==
    /\ Second \in Nat \ {0}
    /\ Second <= RefreshTTL
    /\ MetadataKey \notin Keys
    /\ Batch \in Nat \ {0}
    /\ NewData \subseteq Data

VARIABLES
    store,    \* the server: key (an access token) -> hash and time to live
    done,     \* the provider and its client are closed, its context cancelled
    call,     \* the call each client has in progress
    ch,       \* the buffered channel of keys to delete
    deleter,  \* the delete goroutine: where it is, and its batch m
    answer,   \* what the last operation that took effect returned
    now,      \* the clock
    origin,   \* history: the access token with which the session began that
              \* was stored under this access token
    revived   \* history: access tokens stored again after they were gone

server == <<store, origin>>

vars == <<store, done, call, ch, deleter, answer, now, origin, revived>>

-----------------------------------------------------------------------------
(* The server.                                                             *)

Metadata == [access : Tokens, refresh : Tokens,
             accessDeadline : Nat, refreshDeadline : Nat]

ASSUME NoMetadataAssumption == NoMetadata \notin Metadata

\* Mutant: a deadline that lies in the past.
newMetadataStale(p, at) ==
    [access |-> p[1], refresh |-> p[2],
     accessDeadline |-> at - AccessTTL, refreshDeadline |-> at + RefreshTTL]

newMetadata(p, at) ==
    [access |-> p[1], refresh |-> p[2],
     accessDeadline |-> at + AccessTTL, refreshDeadline |-> at + RefreshTTL]

\* A key without time to live has 0; the server drops the others in time.
Hashes == [md : Metadata, data : Data, ttl : Nat]
            \cup [md : {NoMetadata}, data : Data, ttl : Nat]

\* What is left of a time when it is sent in whole seconds.
Whole(at) == at - (at % Second)

\* HSET: fields are set one by one, the others of the hash and its time to
\* live stay.
HSet(s, t, md, kv) ==
    With(s, t, IF t \in DOMAIN s
               THEN [s[t] EXCEPT !.md = md, !.data = Override(@, kv)]
               ELSE [md |-> md, data |-> kv, ttl |-> 0])

\* EXPIREAT: a time that has come drops the key at once.
ExpireAt(s, t, at) ==
    IF t \notin DOMAIN s THEN s
    ELSE IF Whole(at) <= now THEN Without(s, t)
    ELSE [s EXCEPT ![t].ttl = Whole(at)]

\* EXPIRE, in seconds from now.
Expire(s, t, d) ==
    IF t \in DOMAIN s THEN [s EXCEPT ![t].ttl = now + Whole(d)] ELSE s

\* RENAME replaces what is stored under the new name.
Rename(s, t, u) == IF t \in DOMAIN s THEN With(Without(s, t), u, s[t]) ELSE s

\* HDEL: a hash without fields is no key.
HDel(s, t, ks) ==
    IF t \notin DOMAIN s THEN s
    ELSE LET md == IF MetadataKey \in ks THEN NoMetadata ELSE s[t].md
             kv == Restrict(s[t].data, DOMAIN s[t].data \ ks)
         IN  IF md = NoMetadata /\ kv = Empty THEN Without(s, t)
             ELSE [s EXCEPT ![t].md = md, ![t].data = kv]

Del(s, ts) == Restrict(s, DOMAIN s \ ts)

\* The tokens under which there is a session.
Stored == {t \in DOMAIN store : store[t].md # NoMetadata}

Session(t) ==
    LET h == store[t]
    IN  [id |-> IdOf[t], access |-> h.md.access, refresh |-> h.md.refresh,
         accessDeadline |-> h.md.accessDeadline,
         refreshDeadline |-> h.md.refreshDeadline, data |-> h.data]

Dead(t) == t \in Stored => IsDeleted(store[t].md, now)

-----------------------------------------------------------------------------
Idle == [op |-> "idle"]

\* What a call knows before it sends its last request: md is the metadata it
\* read, at the time it read it.
Calls == [op : {"idle"}]
           \cup [op : {"create"}, p : Minted, kv : Data, at : Nat]
           \cup [op : {"put"}, token : Tokens, kv : Data, md : Metadata, at : Nat]
           \cup [op : {"refresh"}, token : Tokens, p : Minted, md : Metadata, at : Nat]
           \cup [op : {"destroy"}, id : Ids, keys : SUBSET Tokens]
           \cup [op : {"send"}, token : Tokens]

Deleters == [pc : {"read", "merge", "del", "exit"}, m : SUBSET Tokens]

\* Keys of an answer may be the reserved one.
RedisAnswers == [e : Errors, vals : Partial(Keys, Values \cup {Missing}),
                 keys : SUBSET (Keys \cup {MetadataKey})]

TypeOK ==
    /\ IsPartial(store, Tokens, Hashes)
    /\ done \in BOOLEAN
    /\ call \in [Clients -> Calls]
    /\ ch \in Seq(Tokens)
    /\ deleter \in Deleters
    /\ answer \in RedisAnswers
    /\ now \in Nat
    /\ IsPartial(origin, Tokens, Tokens)
    /\ revived \subseteq DOMAIN origin

\* New on a server without sessions.
Init ==
    /\ store = Empty
    /\ done = FALSE
    /\ call = [c \in Clients |-> Idle]
    /\ ch = <<>>
    /\ deleter = [pc |-> "read", m |-> {}]
    /\ answer = Err("nil")
    /\ now = 0
    /\ origin = Empty
    /\ revived = {}

-----------------------------------------------------------------------------
(* Calls that are over with one command.                                   *)

Becomes(c, r) == call' = [call EXCEPT ![c] = r]

goroutine == <<ch, deleter>>

Return(s, a) ==
    /\ store' = s
    /\ answer' = a
    /\ UNCHANGED <<done, call, goroutine, now, origin>>

\* c, at rest, calls a provider that is open.
Enter(c) == call[c] = Idle /\ ~done

\* The token t is presented: not before the call that stored it is over.
Known(t) ==
    /\ t \in DOMAIN origin
    /\ \A c \in Clients : call[c].op \in {"create", "refresh"} => call[c].p[1] # t

Reject(c, t) ==
    /\ call[c] = Idle
    /\ ~Valid(t)
    /\ Return(store, Err("ErrTokenInvalid"))

\* There are tokens to give to Refresh that differ in their id.
Mixed == \E t, r \in Tokens : Valid(t) /\ Valid(r) /\ IdOf[t] # IdOf[r]

RefreshReject(c) ==
    /\ call[c] = Idle
    /\ Mixed
    /\ Return(store, Err("ErrTokenIDNotMatched"))

\* Any request of a closed client is refused, the last one of a call too.
Refuse(c) ==
    /\ done
    /\ call[c].op \in {"idle", "create", "put", "refresh", "destroy"}
    /\ answer' = Err("ErrProviderClosed")
    /\ Becomes(c, Idle)
    /\ UNCHANGED <<server, done, goroutine, now>>

\* A reader hands the key t to the delete goroutine before it returns.
pushDelete(c, t) == Becomes(c, [op |-> "send", token |-> t])

\* Check and Get, each with one command, on a session that is not dead.
Read(c, t, r) ==
    /\ Enter(c)
    /\ Known(t)
    /\ ~Dead(t)
    /\ Return(store, IF IsExpired(store[t].md, now) THEN Err("ErrTokenExpired")
                     ELSE Answer(Session(t), r))

\* Mutant: a session is reported when its access token has expired.
ReadMissingEager(c, t) ==
    /\ Enter(c)
    /\ Known(t)
    /\ t \in Stored => IsExpired(store[t].md, now)
    /\ answer' = Err("ErrTokenNotExists")
    /\ pushDelete(c, t)
    /\ UNCHANGED <<server, done, goroutine, now>>

\* Check, Get, and the first half of Put, find no session.  A key with dead
\* metadata is reported, and by Get also one without metadata or none at all.
ReadMissing(c, t) ==
    /\ Enter(c)
    /\ Known(t)
    /\ Dead(t)
    /\ answer' = Err("ErrTokenNotExists")
    /\ pushDelete(c, t) \/ (t \notin Stored /\ UNCHANGED call)
    /\ UNCHANGED <<server, done, goroutine, now>>

\* Keys does not look at the metadata, and does not leave its key out.
KeysOf(c, t) ==
    LET ks == IF t \in DOMAIN store THEN DOMAIN store[t].data ELSE {}
        md == IF t \in Stored THEN {MetadataKey} ELSE {}
    IN  /\ Enter(c)
        /\ Known(t)
        /\ Return(store, [Err("nil") EXCEPT !.keys = ks \cup md])

\* Delete does not look at the metadata either, nor does it spare its key.
Delete(c, t, ks) ==
    /\ Enter(c)
    /\ Known(t)
    /\ Return(HDel(store, t, ks), Err("nil"))

DestroyByToken(c, t) ==
    /\ Enter(c)
    /\ Known(t)
    /\ Return(Del(store, {t}), Err("nil"))

-----------------------------------------------------------------------------
(* Calls with a last request.                                              *)

\* The reply comes, or it is lost and the request may be sent again.
Reply(c) == Becomes(c, Idle) \/ UNCHANGED call

\* The server executed the last request of c.
Executed(c, s, a) ==
    /\ ~done
    /\ store' = s
    /\ answer' = a
    /\ Reply(c)
    /\ UNCHANGED <<done, goroutine, now>>

\* The network fails for good: what was lost is the request or its reply.
Fail(c) ==
    /\ call[c].op \in {"create", "put", "refresh", "destroy"}
    /\ Becomes(c, Idle)
    /\ UNCHANGED <<server, done, goroutine, answer, now>>

\* A pair of tokens goes into one Create or Refresh.
Unused(p) ==
    /\ p[1] \notin DOMAIN origin
    /\ \A c \in Clients : call[c].op \in {"create", "refresh"} => call[c].p # p

\* newMetadata: the deadlines run from here.
CreateCall(c, p, kv) ==
    /\ Enter(c)
    /\ Unused(p)
    /\ Becomes(c, [op |-> "create", p |-> p, kv |-> kv, at |-> now])
    /\ UNCHANGED <<server, done, goroutine, answer, now>>

\* The early return of Create for a session that is dead on arrival.
CreateLate(c) ==
    /\ call[c].op = "create"
    /\ IsDeleted(newMetadata(call[c].p, call[c].at), now)
    /\ answer' = Err("nil")
    /\ Becomes(c, Idle)
    /\ UNCHANGED <<server, done, goroutine, now>>

\* The transaction of Create.
Create(c) ==
    /\ call[c].op = "create"
    /\ LET t  == call[c].p[1]
           md == newMetadata(call[c].p, call[c].at)
           s  == ExpireAt(HSet(store, t, md, call[c].kv), t, md.refreshDeadline)
       IN  /\ Executed(c, Expire(s, t, RefreshTTL), Err("nil"))
           /\ origin' = IF t \in DOMAIN store' THEN With(origin, t, t) ELSE origin

\* HGET of Put on a session that is not dead.
PutCall(c, t, kv) ==
    /\ Enter(c)
    /\ Known(t)
    /\ ~Dead(t)
    /\ IF IsExpired(store[t].md, now)
       THEN Return(store, Err("ErrTokenExpired"))
       ELSE /\ Becomes(c, [op |-> "put", token |-> t, kv |-> kv,
                           md |-> store[t].md, at |-> now])
            /\ UNCHANGED <<server, done, goroutine, answer, now>>

\* Mutant: the time to live is left to the server.
PutNoExpire(c) ==
    /\ call[c].op = "put"
    /\ Executed(c, HSet(store, call[c].token, call[c].md, call[c].kv), Err("nil"))
    /\ UNCHANGED origin

\* The transaction of Put: the values, and the metadata as it was read.
Put(c) ==
    /\ call[c].op = "put"
    /\ LET t  == call[c].token
           md == call[c].md
       IN  Executed(c, ExpireAt(HSet(store, t, md, call[c].kv), t, md.refreshDeadline),
                    Err("nil"))
    /\ UNCHANGED origin

\* HGET of Refresh finds no session.
RefreshMissing(c, t) ==
    /\ Enter(c)
    /\ Known(t)
    /\ t \notin Stored
    /\ Return(store, Err("ErrTokenNotExists"))

\* HGET of Refresh finds a dead session: it is reported, and Refresh returns
\* no error.
RefreshDead(c, t) ==
    /\ Enter(c)
    /\ Known(t)
    /\ t \in Stored /\ Dead(t)
    /\ answer' = Err("nil")
    /\ pushDelete(c, t)
    /\ UNCHANGED <<server, done, goroutine, now>>

\* HGET of Refresh on a session that is not dead.
RefreshCall(c, t, r, p) ==
    /\ Enter(c)
    /\ Known(t)
    /\ ~Dead(t)
    /\ \A s \in {r, p[1]} : IdOf[s] = IdOf[t]
    /\ \/ /\ store[t].md.refresh # r
          /\ Return(store, Err("ErrRefreshTokenNotMatched"))
       \/ /\ store[t].md.refresh = r
          /\ Unused(p)
          /\ Becomes(c, [op |-> "refresh", token |-> t, p |-> p,
                         md |-> store[t].md, at |-> now])
          /\ UNCHANGED <<server, done, goroutine, answer, now>>

\* Mutant: the hash is renamed first, and its metadata written after.
RefreshRenamesFirst(c) ==
    /\ call[c].op = "refresh"
    /\ LET t  == call[c].token
           p  == call[c].p
           md == newMetadata(p, call[c].at)
       IN  /\ Executed(c, ExpireAt(HSet(Rename(store, t, p[1]), t, md, Empty), t,
                                   md.refreshDeadline), Err("nil"))
           /\ origin' = With(origin, p[1], origin[t])

\* Mutant: a new hash takes the place of the old one, without its data.
RefreshAnew(c) ==
    /\ call[c].op = "refresh"
    /\ LET t  == call[c].token
           p  == call[c].p
           md == newMetadata(p, call[c].at)
       IN  /\ Executed(c, ExpireAt(HSet(Without(store, t), p[1], md, Empty), p[1],
                                   md.refreshDeadline), Err("nil"))
           /\ origin' = With(origin, p[1], origin[t])

\* The transaction of Refresh: new metadata, its deadline, the new name.  The
\* server executes all three, though the first finds no hash or the second
\* drops it; then the third fails, and the call with it.
Refresh(c) ==
    /\ call[c].op = "refresh"
    /\ LET t  == call[c].token
           p  == call[c].p
           md == newMetadata(p, call[c].at)
           s  == ExpireAt(HSet(store, t, md, Empty), t, md.refreshDeadline)
       IN  /\ Executed(c, Rename(s, t, p[1]), IF t \in DOMAIN s THEN Err("nil") ELSE answer)
           /\ origin' = IF t \in DOMAIN s THEN With(origin, p[1], origin[t]) ELSE origin

\* KEYS of Destroy; without keys the call is over.
DestroyCall(c, id) ==
    LET keys == {t \in DOMAIN store : IdOf[t] = id} IN
    /\ Enter(c)
    /\ IF keys = {}
       THEN Return(store, Err("nil"))
       ELSE /\ Becomes(c, [op |-> "destroy", id |-> id, keys |-> keys])
            /\ UNCHANGED <<server, done, goroutine, answer, now>>

\* DEL of the keys that were listed.
Destroy(c) ==
    /\ call[c].op = "destroy"
    /\ Executed(c, Del(store, call[c].keys), Err("nil"))
    /\ UNCHANGED origin

-----------------------------------------------------------------------------
(* The delete goroutine, Close, and time.                                  *)

Send(c) ==
    /\ call[c].op = "send"
    /\ Len(ch) < Batch
    /\ ch' = Append(ch, call[c].token)
    /\ Becomes(c, Idle)
    /\ UNCHANGED <<server, done, deleter, answer, now>>

\* pushDelete after Close.
SendClosed(c) ==
    /\ call[c].op = "send"
    /\ done
    /\ Becomes(c, Idle)
    /\ UNCHANGED <<server, done, goroutine, answer, now>>

others == <<origin, done, call, answer, now>>

\* read, and tryRead when there is a key.
DeleteRead ==
    LET m == deleter.m \cup {Head(ch)} IN
    /\ deleter.pc \in {"read", "merge"}
    /\ ch # <<>>
    /\ deleter' = [pc |-> IF Cardinality(m) < Batch THEN "merge" ELSE "del", m |-> m]
    /\ ch' = Tail(ch)
    /\ UNCHANGED <<store, others>>

DeleteClosed ==
    /\ deleter.pc \in {"read", "merge"}
    /\ done
    /\ deleter' = [pc |-> "exit", m |-> {}]
    /\ UNCHANGED <<store, ch, others>>

\* DEL of the batch, when it is full or tryRead took its default.  A closed
\* client refuses it, and nobody looks whether.
DeleteBatch ==
    /\ deleter.pc \in {"merge", "del"}
    /\ deleter.pc = "merge" => ch = <<>> /\ ~done
    /\ store' = IF done THEN store ELSE Del(store, deleter.m)
    /\ deleter' = [pc |-> "read", m |-> {}]
    /\ UNCHANGED <<ch, others>>

Close(c) ==
    /\ Enter(c)
    /\ done' = TRUE
    /\ answer' = Err("nil")
    /\ UNCHANGED <<server, call, goroutine, now>>

\* Time passes, and the server drops the keys whose time to live is over.
Tick ==
    /\ now < MaxTime
    /\ now' = now + 1
    /\ store' = Del(store, {t \in DOMAIN store : store[t].ttl \in 1..now'})
    /\ UNCHANGED <<origin, done, call, goroutine, answer>>

-----------------------------------------------------------------------------
\* Calls that are over, or on their way, after one command or none.
Begin(c) ==
    \/ RefreshReject(c) \/ Close(c)
    \/ \E p \in Minted, kv \in NewData : CreateCall(c, p, kv)
    \/ \E id \in Ids : DestroyCall(c, id)
    \/ \E t \in Tokens :
          \/ Reject(c, t) \/ ReadMissing(c, t) \/ KeysOf(c, t) \/ DestroyByToken(c, t)
          \/ RefreshMissing(c, t) \/ RefreshDead(c, t)
          \/ \E ks \in SUBSET (Keys \cup {MetadataKey}) : Delete(c, t, ks)
    \/ \E t \in Stored :
          \/ \E r \in ReadOps : r.op # "Keys" /\ Read(c, t, r)
          \/ \E kv \in NewData : PutCall(c, t, kv)
          \/ \E r \in Tokens, p \in Minted : RefreshCall(c, t, r, p)

\* Last requests.
Transaction(c) == Create(c) \/ Put(c) \/ Refresh(c) \/ Destroy(c)

Deleting == DeleteRead \/ DeleteClosed \/ DeleteBatch

Next ==
    /\ \/ Tick \/ Deleting
       \/ \E c \in Clients :
             \/ Begin(c) \/ Transaction(c) \/ Refuse(c)
             \/ CreateLate(c) \/ Fail(c) \/ Send(c) \/ SendClosed(c)
    /\ revived' = revived \cup ((Stored' \ Stored) \cap DOMAIN origin)

Spec == Init /\ [][Next]_vars

-----------------------------------------------------------------------------
(* Properties.                                                             *)

\* The transactions of all callers and the renames of Refresh, in any order
\* and repeated, leave each hash with the metadata of the token that is its
\* key.
KeyNamesSession == \A t \in Stored : store[t].md.access = t

\* EXPIREAT goes with every HSET that may make a key: no hash stays on the
\* server for ever, none is dropped a whole second before its refresh deadline.
KeptUntilDeadline ==
    \A t \in DOMAIN store :
        /\ store[t].ttl > now
        /\ t \in Stored => store[t].ttl + Second > store[t].md.refreshDeadline

\* The delete goroutine, which does not look at a key again before it deletes
\* it, takes no session that is not dead, but for one that a transaction of an
\* overlapping call wrote back after it was gone.
PurgeSparesLive ==
    [][deleter.pc # "read" /\ deleter'.pc = "read" =>
          \A t \in Stored \ Stored' : Dead(t) \/ t \in revived]_vars

\* What the last request of c rests on is still so, and the deadline it sends is
\* a second away or more.
Undisturbed(c) ==
    LET r == call[c] IN
    CASE r.op = "create" -> /\ r.p[1] \notin DOMAIN store
                            /\ Whole(r.at + RefreshTTL) > now
      [] r.op = "destroy" -> {t \in DOMAIN store : IdOf[t] = r.id} \subseteq r.keys
      [] OTHER -> /\ r.token \in DOMAIN store
                  /\ store[r.token].md = r.md
                  /\ Whole(r.md.refreshDeadline) > now
                  /\ r.at = now

Disturbed == \E c \in Clients : Transaction(c) /\ ~Undisturbed(c)

\* Keys and Delete answer without a look at the deadlines.
Unchecked ==
    \E c \in Clients, t \in Tokens :
        \/ KeysOf(c, t)
        \/ \E ks \in SUBSET (Keys \cup {MetadataKey}) : Delete(c, t, ks)

PurgeRevived == DeleteBatch /\ deleter.m \cap revived # {}

\* The provider interface, with the sessions of a closed provider out of reach
\* and the reserved key out of the answers.
Abstract == INSTANCE Provider WITH
    MaxSize <- 0,
    sessions <- [t \in IF done THEN {} ELSE Stored |-> Session(t)],
    closed <- done,
    answer <- [answer EXCEPT !.keys = @ \ {MetadataKey}]

\* Provider's clock ticks, and sessions it may purge within a second are gone
\* with it.
Lapse ==
    /\ now' = now + 1
    /\ done' = done /\ answer' = answer
    /\ \A t \in Stored \ Stored' : IsDeleted(store[t].md, now + Second)
    /\ Stored' \subseteq Stored /\ \A t \in Stored' : store'[t] = store[t]

\* A call takes effect at one instant, as Provider says, if between what it
\* read and its last request neither the metadata nor the clock has moved, and
\* up to the second by which the server drops a session early; overlapping Puts
\* and Deletes of one session do not disturb each other.  Out of this are Keys
\* and Delete, and the purge of a session that a disturbed call wrote back.
ImplementsUndisturbed ==
    /\ Abstract!Init
    /\ [][Lapse \/ Disturbed \/ PurgeRevived \/ Abstract!Next \/ Unchecked]_Abstract!vars

\* manager_test.go:23-26: of two Refreshes with the same tokens the second gets
\* ErrTokenNotExists, so a session has one access token at a time.
OneHeir ==
    \A t, u \in Stored : origin[t] = origin[u] => t = u

=============================================================================
