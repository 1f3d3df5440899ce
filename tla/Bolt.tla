--------------------------------- MODULE Bolt ---------------------------------
(***************************************************************************)
(* The bolt provider: sessions in the buckets of a file that outlives the  *)
(* process.  Every operation is one transaction, all of it made under the  *)
(* mutex, so it is one step here; a crash leaves what the last transaction *)
(* committed.  What one step does not cover: a Create makes its session    *)
(* before it has the mutex, a reader reports a dead token after it gave    *)
(* the mutex back, and the exported Clear never gives it back when it      *)
(* finds the provider closed.                                              *)
(*                                                                         *)
(* The provider opens the file itself (opts.db is nil), so after Close     *)
(* nobody can reach the buckets until New opens the file again.            *)
(***************************************************************************)
EXTENDS Sessions, SequencesExt

CONSTANTS
    MaxSize,     \* opts.maxSize given to the first New; no limit when <= 0
    ReopenSize,  \* opts.maxSize given to any later New
    Batch,       \* opts.batch: capacity of ch and largest batch of check
    ClearOn,     \* opts.clear > 0: the sweeping goroutine is started
    Clients,     \* goroutines that call the provider
    NewData,     \* bound: the data given to Create
    MaxSeq,      \* bound: how many sessions are ever stored
    MaxReopens   \* bound: how often the file is opened again

ASSUME BoltAssumption ==
    /\ MaxSize \in Int
    /\ ReopenSize \in Int
    /\ Batch \in Nat \ {0}
    /\ ClearOn \in BOOLEAN
    /\ NewData \subseteq Data

VARIABLES
    db,       \* the buckets metadata, data, ids and lru, the sequence, the count
    maxSize,  \* opts.maxSize of the provider that runs
    done,     \* the provider is closed
    leaked,   \* the mutex was locked by a call that returned without unlocking
    call,     \* the call each client has in progress
    ch,       \* the buffered channel of tokens to purge
    checker,  \* the check goroutine: where it is, and its batch m
    clearer,  \* the clear goroutine runs
    reopens,  \* how often the file was opened again
    answer,   \* what the last operation that took effect returned
    now       \* the clock

vars == <<db, maxSize, done, leaked, call, ch, checker, clearer, reopens, answer, now>>

-----------------------------------------------------------------------------
(* The buckets, and the helpers that change several of them.  A transaction *)
(* fails, and is undone, when delete finds no data bucket for a token that *)
(* has metadata: BucketsAgree says it always finds one.                    *)

Metadata == [id : Ids, access : Tokens, refresh : Tokens,
             accessDeadline : Nat, refreshDeadline : Nat, lru : Nat \ {0}]

IsBuckets(d) ==
    /\ d = [metadata |-> d.metadata, data |-> d.data, ids |-> d.ids,
            lru |-> d.lru, seq |-> d.seq, count |-> d.count]
    /\ IsPartial(d.metadata, Tokens, Metadata)
    /\ IsPartial(d.data, Tokens, Data)
    /\ IsPartial(d.ids, Ids, Seq(Tokens))
    /\ IsPartial(d.lru, Nat \ {0}, Tokens)
    /\ d.seq \in Nat
    /\ d.count \in Nat

EmptyBuckets(seq) ==
    [metadata |-> Empty, data |-> Empty, ids |-> Empty, lru |-> Empty,
     seq |-> seq, count |-> 0]

\* The session of a token, put together from two buckets.
Session(d, t) ==
    LET md == d.metadata[t]
    IN  [id |-> md.id, access |-> md.access, refresh |-> md.refresh,
         accessDeadline |-> md.accessDeadline,
         refreshDeadline |-> md.refreshDeadline, data |-> d.data[t]]

deleteIDS(ids, id, t) ==
    IF id \in DOMAIN ids
    THEN IF ids[id] = <<t>> THEN Without(ids, id)
                            ELSE [ids EXCEPT ![id] = RemoveFirst(@, t)]
    ELSE ids

appendIDS(ids, id, t) ==
    With(ids, id, Append(IF id \in DOMAIN ids THEN ids[id] ELSE <<>>, t))

decrement(n) == IF n > 0 THEN n - 1 ELSE n

\* The token t and all that is stored for it; its entry in lru is k.
drop(d, t, k) ==
    [d EXCEPT !.metadata = Without(@, t), !.data = Without(@, t),
              !.ids = deleteIDS(@, d.metadata[t].id, t),
              !.lru = Without(@, k), !.count = decrement(@)]

delete(d, t) == drop(d, t, d.metadata[t].lru)

destoryToken(d, t) == IF t \in DOMAIN d.metadata THEN delete(d, t) ELSE d

\* deleteTokens, after the list of the id is gone.
unsafeDestroy(d, id) ==
    IF id \in DOMAIN d.ids
    THEN FoldSet(LAMBDA t, e : destoryToken(e, t),
                 [d EXCEPT !.ids = Without(@, id)], Range(d.ids[id]))
    ELSE d

\* putLRU, putMetadata, putData, appendIDS and increment for the session s.
store(d, s) ==
    LET n  == d.seq + 1
        kv == IF s.access \in DOMAIN d.data THEN d.data[s.access] ELSE Empty
    IN  [metadata |-> With(d.metadata, s.access,
                           [id |-> s.id, access |-> s.access, refresh |-> s.refresh,
                            accessDeadline |-> s.accessDeadline,
                            refreshDeadline |-> s.refreshDeadline, lru |-> n]),
         data |-> With(d.data, s.access, Override(kv, s.data)),
         ids |-> appendIDS(d.ids, s.id, s.access),
         lru |-> With(d.lru, n, s.access),
         seq |-> n, count |-> d.count + 1]

\* The entry k of lru goes, with its session if there still is one.
dropEntry(d, k) ==
    IF d.lru[k] \in DOMAIN d.metadata THEN drop(d, d.lru[k], k)
                                      ELSE [d EXCEPT !.lru = Without(@, k)]

dropEntries(d, ks) == FoldSet(LAMBDA k, e : dropEntry(e, k), d, ks)

\* The entries of lru, in key order, up to and with the first whose token has
\* metadata.
unsafePop(d) ==
    dropEntries(d, {k \in DOMAIN d.lru :
        \A j \in DOMAIN d.lru : j < k => d.lru[j] \notin DOMAIN d.metadata})

\* Mutant: off by one.
MakeRoomLate(d) == IF maxSize > 0 /\ d.count > maxSize THEN unsafePop(d) ELSE d

MakeRoom(d) == IF maxSize > 0 /\ d.count >= maxSize THEN unsafePop(d) ELSE d

Live(d, t) == t \in DOMAIN d.metadata /\ ~IsDeleted(d.metadata[t], now)

\* The entries of lru, in key order, before the first whose session is not
\* past its refresh deadline.
swept(d) ==
    dropEntries(d, {k \in DOMAIN d.lru :
        \A j \in DOMAIN d.lru : j <= k => ~Live(d, d.lru[j])})

-----------------------------------------------------------------------------
Idle == [op |-> "idle"]

\* A call is blocked when it waits for a mutex nobody will unlock.
Calls == [op : {"idle", "blocked"}] \cup [op : {"create"}, t : TokenValue]
           \cup [op : {"send"}, token : Tokens]

Checkers == [pc : {"read", "merge", "lock", "exit"}, m : SUBSET Tokens]

TypeOK ==
    /\ IsBuckets(db)
    /\ maxSize \in {MaxSize, ReopenSize}
    /\ done \in BOOLEAN
    /\ leaked \in BOOLEAN
    /\ call \in [Clients -> Calls]
    /\ ch \in Seq(Tokens)
    /\ checker \in Checkers
    /\ clearer \in BOOLEAN
    /\ reopens \in Nat
    /\ answer \in Answers
    /\ now \in Nat

\* New on a file that does not exist yet.
Init ==
    /\ db = EmptyBuckets(0)
    /\ maxSize = MaxSize
    /\ done = FALSE
    /\ leaked = FALSE
    /\ call = [c \in Clients |-> Idle]
    /\ ch = <<>>
    /\ checker = [pc |-> "read", m |-> {}]
    /\ clearer = ClearOn
    /\ reopens = 0
    /\ answer = Err("nil")
    /\ now = 0

-----------------------------------------------------------------------------
(* Calls.                                                                  *)

Becomes(c, r) == call' = [call EXCEPT ![c] = r]

goroutines == <<ch, checker, clearer>>

instance == <<maxSize, done, leaked, reopens, now>>

\* c, at rest, gets the mutex of an open provider.
Enter(c) == call[c] = Idle /\ ~leaked /\ ~done

\* A call that is over, with the buckets as d leaves them.
Return(d, a) ==
    /\ db' = d
    /\ answer' = a
    /\ UNCHANGED <<instance, call, goroutines>>

Reject(c, t) ==
    /\ call[c] = Idle
    /\ ~Valid(t)
    /\ Return(db, Err("ErrTokenInvalid"))

\* Any operation finds the provider closed.  While the mutex is leaked only
\* Close gets to look: it reads done before it asks for the mutex.
Refuse(c) ==
    /\ done
    /\ call[c] = Idle \/ (call[c].op = "create" /\ ~leaked)
    /\ answer' = Err("ErrProviderClosed")
    /\ Becomes(c, Idle)
    /\ UNCHANGED <<db, instance, goroutines>>

\* Any operation but Close asks for the leaked mutex.
Block(c) ==
    /\ leaked
    /\ call[c].op \in {"idle", "create"}
    /\ Becomes(c, [op |-> "blocked"])
    /\ UNCHANGED <<db, instance, answer, goroutines>>

\* The first half of Create.  Bound: no deadline passes MaxTime.
CreateCall(c, p, kv) ==
    /\ call[c] = Idle
    /\ now + RefreshTTL <= MaxTime
    /\ Becomes(c, [op |-> "create", t |-> newTokenValue(p, kv, now)])
    /\ UNCHANGED <<db, instance, answer, goroutines>>

\* The early return of Create for a session that is dead on arrival.
CreateLate(c) ==
    /\ call[c].op = "create"
    /\ IsDeleted(call[c].t, now)
    /\ answer' = Err("nil")
    /\ Becomes(c, Idle)
    /\ UNCHANGED <<db, instance, goroutines>>

\* The transaction of Create.  Bound: MaxSeq.
Create(c) ==
    /\ call[c].op = "create"
    /\ ~leaked /\ ~done
    /\ db.seq < MaxSeq
    /\ db' = store(MakeRoom(destoryToken(db, call[c].t.access)), call[c].t)
    /\ answer' = Err("nil")
    /\ Becomes(c, Idle)
    /\ UNCHANGED <<instance, goroutines>>

Destroy(c, id) == Enter(c) /\ Return(unsafeDestroy(db, id), Err("nil"))

DestroyByToken(c, t) ==
    /\ Enter(c)
    /\ Valid(t)
    /\ Return(destoryToken(db, t), Err("nil"))

\* Check, Get and Keys, in a read transaction under the read lock.
Read(c, t, r) ==
    /\ Enter(c)
    /\ Valid(t)
    /\ Live(db, t)
    /\ Return(db, IF IsExpired(db.metadata[t], now) THEN Err("ErrTokenExpired")
                  ELSE Answer(Session(db, t), r))

\* The same on a token without metadata or past its refresh deadline; the
\* latter is handed to the check goroutine once the lock is released.
ReadMissing(c, t) ==
    /\ Enter(c)
    /\ Valid(t)
    /\ ~Live(db, t)
    /\ answer' = Err("ErrTokenNotExists")
    /\ IF t \in DOMAIN db.metadata
       THEN Becomes(c, [op |-> "send", token |-> t])
       ELSE UNCHANGED call
    /\ UNCHANGED <<db, instance, goroutines>>

\* Put, Delete and Refresh drop what is past its refresh deadline.
Missed(c, t) ==
    /\ Enter(c)
    /\ Valid(t)
    /\ ~Live(db, t)
    /\ Return(destoryToken(db, t), Err("ErrTokenNotExists"))

\* Put and Delete on a session that is there: kv is its new data.
Update(c, t, kv) ==
    /\ Enter(c)
    /\ Valid(t)
    /\ Live(db, t)
    /\ IF IsExpired(db.metadata[t], now)
       THEN Return(db, Err("ErrTokenExpired"))
       ELSE Return([db EXCEPT !.data = With(@, t, kv)], Err("nil"))

Put(c, t, kv) ==
    t \in DOMAIN db.metadata /\ Update(c, t, SetCopy(Session(db, t), kv).data)

Delete(c, t, ks) ==
    t \in DOMAIN db.metadata /\ Update(c, t, DeleteKeys(Session(db, t), ks).data)

\* All the tokens given to Refresh carry the id of the first.
checkID(t, r, p) == \A s \in {r, p[1], p[2]} : IdOf[s] = IdOf[t]

\* There are tokens to give to Refresh that do not.
Mixed == \E t, r \in Tokens, p \in Minted : Valid(t) /\ Valid(r) /\ ~checkID(t, r, p)

RefreshReject(c) ==
    /\ call[c] = Idle
    /\ Mixed
    /\ Return(db, Err("ErrTokenIDNotMatched"))

\* Mutant: the pairs are read after delete took their bucket away.
RefreshNoPairs(c, t, r, p) ==
    /\ Enter(c)
    /\ Valid(t)
    /\ checkID(t, r, p)
    /\ Live(db, t)
    /\ db.metadata[t].refresh = r
    /\ p[1] = t \/ p[1] \notin DOMAIN db.metadata
    /\ now + RefreshTTL <= MaxTime
    /\ db.seq < MaxSeq
    /\ Return(store(delete(db, t),
                    [Refreshed(Session(db, t), p, now) EXCEPT !.data = Empty]),
              Err("nil"))

\* Refresh on a session that is there.  The new access token was just minted:
\* it names no other stored session.  Bounds: MaxTime and MaxSeq.
Refresh(c, t, r, p) ==
    /\ Enter(c)
    /\ Valid(t)
    /\ checkID(t, r, p)
    /\ Live(db, t)
    /\ \/ /\ db.metadata[t].refresh # r
          /\ Return(db, Err("ErrRefreshTokenNotMatched"))
       \/ /\ db.metadata[t].refresh = r
          /\ p[1] = t \/ p[1] \notin DOMAIN db.metadata
          /\ now + RefreshTTL <= MaxTime
          /\ db.seq < MaxSeq
          /\ Return(store(delete(db, t), Refreshed(Session(db, t), p, now)),
                    Err("nil"))

\* Mutant: the count survives.
ClearKeepCount(c) ==
    /\ Enter(c)
    /\ Return([EmptyBuckets(db.seq) EXCEPT !.count = db.count], Err("nil"))

\* Clear empties the buckets; the sequence of lru goes on.
Clear(c) == Enter(c) /\ Return(EmptyBuckets(db.seq), Err("nil"))

\* Clear on a closed provider returns with the mutex locked.
ClearRefused(c) ==
    /\ call[c] = Idle
    /\ done /\ ~leaked
    /\ leaked' = TRUE
    /\ answer' = Err("ErrProviderClosed")
    /\ UNCHANGED <<db, maxSize, done, call, reopens, now, goroutines>>

\* Close closes the channel closed and the file and raises the flag done, all
\* under the mutex: done stands for the three.
Close(c) ==
    /\ Enter(c)
    /\ done' = TRUE
    /\ answer' = Err("nil")
    /\ UNCHANGED <<db, maxSize, leaked, reopens, now, call, goroutines>>

-----------------------------------------------------------------------------
(* The goroutines.                                                         *)

Send(c) ==
    /\ call[c].op = "send"
    /\ Len(ch) < Batch
    /\ ch' = Append(ch, call[c].token)
    /\ Becomes(c, Idle)
    /\ UNCHANGED <<db, instance, answer, checker, clearer>>

SendClosed(c) ==
    /\ call[c].op = "send"
    /\ done
    /\ Becomes(c, Idle)
    /\ UNCHANGED <<db, instance, answer, goroutines>>

\* read, and tryRead when there is a token.
CheckRead ==
    LET m == checker.m \cup {Head(ch)} IN
    /\ checker.pc \in {"read", "merge"}
    /\ ch # <<>>
    /\ checker' = [pc |-> IF Cardinality(m) < Batch THEN "merge" ELSE "lock", m |-> m]
    /\ ch' = Tail(ch)
    /\ UNCHANGED <<db, instance, answer, call, clearer>>

\* The default of tryRead.
CheckMerged ==
    /\ checker.pc = "merge"
    /\ ch = <<>>
    /\ ~done
    /\ checker' = [checker EXCEPT !.pc = "lock"]
    /\ UNCHANGED <<db, instance, answer, call, ch, clearer>>

CheckClosed ==
    /\ checker.pc \in {"read", "merge"}
    /\ done
    /\ checker' = [pc |-> "exit", m |-> {}]
    /\ UNCHANGED <<db, instance, answer, call, ch, clearer>>

\* doCheck gives up its transaction at the first token whose metadata was read
\* without an error: it removes nothing.
doCheck ==
    /\ checker.pc = "lock"
    /\ ~leaked
    /\ checker' = [pc |-> IF done THEN "exit" ELSE "read", m |-> {}]
    /\ UNCHANGED <<db, instance, answer, call, ch, clearer>>

\* A tick of the timer.  One that comes after Close finds the file closed, or
\* waits for the leaked mutex, and changes nothing.
doClear ==
    /\ clearer
    /\ ~leaked /\ ~done
    /\ db' = swept(db)
    /\ UNCHANGED <<instance, answer, call, goroutines>>

ClearClosed ==
    /\ clearer
    /\ done
    /\ clearer' = FALSE
    /\ UNCHANGED <<db, instance, answer, call, ch, checker>>

-----------------------------------------------------------------------------
\* The process ends, at any point or after a Close, and New opens the file in
\* another: the buckets are as the last transaction left them.
Reopen ==
    /\ reopens < MaxReopens
    /\ reopens' = reopens + 1
    /\ maxSize' = ReopenSize
    /\ done' = FALSE
    /\ leaked' = FALSE
    /\ call' = [c \in Clients |-> Idle]
    /\ ch' = <<>>
    /\ checker' = [pc |-> "read", m |-> {}]
    /\ clearer' = ClearOn
    /\ UNCHANGED <<db, answer, now>>

Tick ==
    /\ now < MaxTime
    /\ now' = now + 1
    /\ UNCHANGED <<db, maxSize, done, leaked, reopens, answer, call, goroutines>>

-----------------------------------------------------------------------------
\* Calls that are over, or on their way, without the mutex of an open provider.
Begin(c) ==
    \/ ClearRefused(c)
    \/ \E p \in Minted, kv \in NewData : CreateCall(c, p, kv)
    \/ \E t \in Tokens : Reject(c, t)
    \/ RefreshReject(c)

\* Calls that are over in one transaction.
Transaction(c) ==
    \/ Close(c) \/ Clear(c)
    \/ \E id \in Ids : Destroy(c, id)
    \/ \E t \in Tokens :
          \/ DestroyByToken(c, t) \/ ReadMissing(c, t) \/ Missed(c, t)
          \/ \E r \in ReadOps : Read(c, t, r)
          \/ \E kv \in Data : Put(c, t, kv)
          \/ \E ks \in SUBSET Keys : Delete(c, t, ks)
          \/ \E r \in Tokens, p \in Minted : Refresh(c, t, r, p)

\* Steps by which a call in progress gets on.
Progress(c) == CreateLate(c) \/ Create(c) \/ Send(c) \/ SendClosed(c)

Check == CheckRead \/ CheckMerged \/ CheckClosed \/ doCheck

Sweep == doClear \/ ClearClosed

Next ==
    \/ Tick \/ Reopen \/ Check \/ Sweep
    \/ \E c \in Clients :
          Begin(c) \/ Transaction(c) \/ Refuse(c) \/ Block(c) \/ Progress(c)

Spec == Init /\ [][Next]_vars

\* Goroutines keep running, and the mutex and the channel queue their waiters.
Fairness ==
    /\ WF_vars(Tick)
    /\ SF_vars(Check)
    /\ SF_vars(Sweep)
    /\ \A c \in Clients : SF_vars(call[c] # Idle /\ (Progress(c) \/ Refuse(c)))

FairSpec == Spec /\ Fairness

-----------------------------------------------------------------------------
(* Properties.                                                             *)

\* Every transaction leaves metadata, data, ids, lru and the count with the
\* same sessions: each has one data bucket, one entry in lru that its metadata
\* names, and one entry in the list of its id.  The count that Create compares
\* with maxSize is the number of sessions, after a crash or a Clear too.
BucketsAgree ==
    LET stored == DOMAIN db.metadata IN
    /\ DOMAIN db.data = stored
    /\ \A t \in stored :
          LET md == db.metadata[t] IN
          /\ md.access = t /\ md.id = IdOf[t]
          /\ {k \in DOMAIN db.lru : db.lru[k] = t} = {md.lru}
    /\ Range(db.lru) = stored
    /\ \A k \in DOMAIN db.lru : k <= db.seq
    /\ \A id \in DOMAIN db.ids :
          /\ IsInjective(db.ids[id])
          /\ Range(db.ids[id]) = {t \in stored : IdOf[t] = id}
    /\ \A t \in stored : IdOf[t] \in DOMAIN db.ids
    /\ db.count = Cardinality(stored)

\* WithMaxSize: Create never leaves more than maxSize sessions in the file
\* when every provider that opened the file had the same limit.
WithinMaxSize ==
    MaxSize = ReopenSize /\ MaxSize > 0 => Cardinality(DOMAIN db.metadata) <= MaxSize

\* The provider interface, with the sessions of a closed provider out of
\* reach.
Abstract == INSTANCE Provider WITH
    sessions <- [t \in IF done THEN {} ELSE DOMAIN db.metadata |-> Session(db, t)],
    closed <- done

\* Between two openings of the file, and but for Clear, which the interface
\* does not have, every call takes effect at one instant, as Provider says.
ImplementsProvider ==
    /\ Abstract!Init
    /\ [][Abstract!Next \/ Reopen \/ \E c \in Clients : Clear(c)]_Abstract!vars

\* option.go of the bolt provider calls maxSize the maximum number of tokens
\* saved: a Create that stored its session leaves no more than that.
CreateKeepsWithin ==
    [][\A c \in Clients :
          maxSize > 0 /\ db'.seq > db.seq /\ call[c].op = "create" /\ call'[c] = Idle
              => Cardinality(DOMAIN db'.metadata) <= maxSize]_vars

\* provider_test.go of the bolt provider: after Close, Check, Put, Get, Keys,
\* Delete and a second Close return ErrProviderClosed, so they return.
CallsReturn == \A c \in Clients : call[c] # Idle ~> call[c] = Idle
=============================================================================
