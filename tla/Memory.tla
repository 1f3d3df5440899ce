------------------------------- MODULE Memory -------------------------------
(***************************************************************************)
(* MemoryProvider: sessions in local memory, indexed three ways (by access *)
(* token, by user id, and in a list ordered by insertion), shared by the   *)
(* goroutines that call it, a goroutine that purges the tokens readers     *)
(* found dead (check) and one that sweeps the list on a timer (clear).     *)
(*                                                                         *)
(* One step is what a goroutine does between two points where another may  *)
(* run: the stretch before the mutex is asked for, a critical section, or  *)
(* a channel operation.  Critical sections with a loop (Destroy, check,    *)
(* clear) and Close hold the mutex over several steps, because the clock   *)
(* and the channel move meanwhile.  A section reads the clock once.        *)
(***************************************************************************)
EXTENDS Sessions

CONSTANTS
    MaxSize,   \* opts.maxSize: most sessions stored; no limit when <= 0
    Batch,     \* opts.batch: capacity of ch and largest batch of check
    ClearOn,   \* opts.clear > 0: the sweeping goroutine is started
    Clients,   \* goroutines that call the provider
    Elements   \* bound: addresses for list elements

ASSUME MemoryAssumption ==
    /\ MaxSize \in Int
    /\ Batch \in Int
    /\ ClearOn \in BOOLEAN
    /\ {"free", "check", "clear"} \cap Clients = {}

VARIABLES
    mem,      \* tokens, ids and lru, and elem: the values of the list elements
    closed,   \* the channel closed is closed
    done,     \* the flag done
    lock,     \* who holds the write lock of the mutex m, or "free"
    call,     \* the call each client has in progress
    ch,       \* the buffered channel of tokens to purge
    checker,  \* the check goroutine: where it is, and its batch m
    clearer,  \* the clear goroutine: where it is
    answer,   \* what the last operation that took effect returned
    now       \* the clock

vars == <<mem, closed, done, lock, call, ch, checker, clearer, answer, now>>

-----------------------------------------------------------------------------
(* The indexes, and the helpers that keep them in step.                    *)

IsStore(s) ==
    /\ s = [tokens |-> s.tokens, ids |-> s.ids, lru |-> s.lru, elem |-> s.elem]
    /\ IsPartial(s.tokens, Tokens, Elements)
    /\ IsPartial(s.ids, Ids, Seq(Tokens))
    /\ s.lru \in Seq(Elements)
    /\ IsPartial(s.elem, Elements, TokenValue)

EmptyStore == [tokens |-> Empty, ids |-> Empty, lru |-> <<>>, elem |-> Empty]

\* The index of the first x in the sequence s.
Pos(s, x) == CHOOSE i \in DOMAIN s : s[i] = x /\ \A j \in 1..(i - 1) : s[j] # x

\* copy(strs[i:], strs[i+1:]) and strs[:len(strs)-1].
Splice(s, i) == [j \in 1..(Len(s) - 1) |-> IF j < i THEN s[j] ELSE s[j + 1]]

\* Takes the session t off the list of its id.  The id goes when that list
\* had length last: 1 in unsafePop, 0 (never) in unsafeClear.
Unlist(ids, t, last) ==
    IF t.id \in DOMAIN ids /\ t.access \in Range(ids[t.id])
    THEN IF Len(ids[t.id]) = last
         THEN Without(ids, t.id)
         ELSE [ids EXCEPT ![t.id] = Splice(@, Pos(@, t.access))]
    ELSE ids

\* list.Remove: the element e leaves the list and is garbage.
Remove(s, e) ==
    [tokens |-> s.tokens, ids |-> s.ids,
     lru |-> Splice(s.lru, Pos(s.lru, e)), elem |-> Without(s.elem, e)]

\* list.PushBack of the session t, and its entries in the two maps.
Push(s, e, t) ==
    LET strs == IF t.id \in DOMAIN s.ids THEN s.ids[t.id] ELSE <<>>
    IN  [tokens |-> With(s.tokens, t.access, e),
         ids    |-> With(s.ids, t.id, Append(strs, t.access)),
         lru    |-> Append(s.lru, e),
         elem   |-> With(s.elem, e, t)]

unsafePop(s, e) == [Remove(s, e) EXCEPT !.ids = Unlist(@, s.elem[e], 1)]

DeleteToken(s, t) == [s EXCEPT !.tokens = Without(@, t)]

unsafeDestroyByToken(s, t) ==
    IF t \in DOMAIN s.tokens THEN DeleteToken(unsafePop(s, s.tokens[t]), t) ELSE s

\* Mutant: off by one, the store grows to MaxSize + 1.
MakeRoomLate(s) ==
    IF MaxSize > 0 /\ Len(s.lru) > MaxSize
    THEN DeleteToken(unsafePop(s, Head(s.lru)), s.elem[Head(s.lru)].access)
    ELSE s

\* Create on a full store drops the front of the list.
MakeRoom(s) ==
    IF MaxSize > 0 /\ Len(s.lru) >= MaxSize
    THEN DeleteToken(unsafePop(s, Head(s.lru)), s.elem[Head(s.lru)].access)
    ELSE s

\* Mutant: the sweep forgets the list of the id.
DropFrontKeepId(s) ==
    DeleteToken(Remove(s, Head(s.lru)), s.elem[Head(s.lru)].access)

\* One turn of the loop of unsafeClear.
DropFront(s) ==
    LET t == s.elem[Head(s.lru)]
    IN  DeleteToken([Remove(s, Head(s.lru)) EXCEPT !.ids = Unlist(@, t, 0)], t.access)

-----------------------------------------------------------------------------
Idle == [op |-> "idle"]

Calls == [op : {"idle", "close"}] \cup [op : {"create"}, t : TokenValue]
           \cup [op : {"destroy"}, todo : Seq(Tokens)]
           \cup [op : {"send"}, token : Tokens]

Checkers == [pc : {"read", "merge", "lock", "do", "exit"}, m : SUBSET Tokens]

TypeOK ==
    /\ IsStore(mem)
    /\ closed \in BOOLEAN
    /\ done \in BOOLEAN
    /\ lock \in Clients \cup {"free", "check", "clear"}
    /\ call \in [Clients -> Calls]
    /\ ch \in Seq(Tokens)
    /\ checker \in Checkers
    /\ clearer \in {"wait", "sweep", "off"}
    /\ answer \in Answers
    /\ now \in Nat

\* NewProvider.
Init ==
    /\ mem = EmptyStore
    /\ closed = FALSE
    /\ done = FALSE
    /\ lock = "free"
    /\ call = [c \in Clients |-> Idle]
    /\ ch = <<>>
    /\ checker = [pc |-> "read", m |-> {}]
    /\ clearer = IF ClearOn THEN "wait" ELSE "off"
    /\ answer = Err("nil")
    /\ now = 0

-----------------------------------------------------------------------------
(* Calls.                                                                  *)

Becomes(c, r) == call' = [call EXCEPT ![c] = r]

goroutines == <<ch, checker, clearer>>

\* c, at rest, enters the critical section of an open provider.
Enter(c) == call[c] = Idle /\ lock = "free" /\ ~done

\* A call that is over in one critical section.
Return(a) == answer' = a /\ UNCHANGED <<closed, done, lock, call, now, goroutines>>

\* The session of the token t.
Val(t) == mem.elem[mem.tokens[t]]

\* The token t has a session that is not past its refresh deadline.
Holds(t) == t \in DOMAIN mem.tokens /\ ~IsDeleted(Val(t), now)

\* Split rejects a token: the first thing every operation but Destroy and
\* Close does.
Reject(c, t) ==
    /\ call[c] = Idle
    /\ ~Valid(t)
    /\ Return(Err("ErrTokenInvalid"))
    /\ UNCHANGED mem

\* Any operation, a Create that waited for the mutex included, finds the
\* provider closed.
Refuse(c) ==
    /\ call[c].op \in {"idle", "create"}
    /\ lock = "free"
    /\ done
    /\ answer' = Err("ErrProviderClosed")
    /\ Becomes(c, Idle)
    /\ UNCHANGED <<mem, closed, done, lock, now, goroutines>>

\* The first half of Create: the session and its deadlines are made before
\* the mutex is asked for.  Bound: no deadline passes MaxTime.
CreateCall(c, p, kv) ==
    /\ call[c] = Idle
    /\ now + RefreshTTL <= MaxTime
    /\ Becomes(c, [op |-> "create", t |-> newTokenValue(p, kv, now)])
    /\ UNCHANGED <<mem, closed, done, lock, answer, now, goroutines>>

\* The early return of Create for a session that is dead on arrival.
CreateLate(c) ==
    /\ call[c].op = "create"
    /\ IsDeleted(call[c].t, now)
    /\ answer' = Err("nil")
    /\ Becomes(c, Idle)
    /\ UNCHANGED <<mem, closed, done, lock, now, goroutines>>

\* Mutant: Create does not look at done once it has the mutex.
CreateUnchecked(c) ==
    LET s == MakeRoom(unsafeDestroyByToken(mem, call[c].t.access)) IN
    /\ call[c].op = "create"
    /\ lock = "free"
    /\ \E e \in Elements \ DOMAIN s.elem : mem' = Push(s, e, call[c].t)
    /\ answer' = Err("nil")
    /\ Becomes(c, Idle)
    /\ UNCHANGED <<closed, done, lock, now, goroutines>>

\* Mutant: Create makes room before it drops the session it replaces.
CreateEvictFirst(c) ==
    LET s == unsafeDestroyByToken(MakeRoom(mem), call[c].t.access) IN
    /\ call[c].op = "create"
    /\ lock = "free"
    /\ ~done
    /\ \E e \in Elements \ DOMAIN s.elem : mem' = Push(s, e, call[c].t)
    /\ answer' = Err("nil")
    /\ Becomes(c, Idle)
    /\ UNCHANGED <<closed, done, lock, now, goroutines>>

\* The critical section of Create.
Create(c) ==
    LET s == MakeRoom(unsafeDestroyByToken(mem, call[c].t.access)) IN
    /\ call[c].op = "create"
    /\ lock = "free"
    /\ ~done
    /\ \E e \in Elements \ DOMAIN s.elem : mem' = Push(s, e, call[c].t)
    /\ answer' = Err("nil")
    /\ Becomes(c, Idle)
    /\ UNCHANGED <<closed, done, lock, now, goroutines>>

\* Destroy takes the list of the id away first ...
Destroy(c, id) ==
    /\ Enter(c)
    /\ answer' = Err("nil")
    /\ IF id \in DOMAIN mem.ids
       THEN /\ mem' = [mem EXCEPT !.ids = Without(@, id)]
            /\ lock' = c
            /\ Becomes(c, [op |-> "destroy", todo |-> mem.ids[id]])
       ELSE UNCHANGED <<mem, lock, call>>
    /\ UNCHANGED <<closed, done, now, goroutines>>

\* ... then removes its sessions one by one ...
DestroyNext(c) ==
    /\ call[c].op = "destroy"
    /\ call[c].todo # <<>>
    /\ LET t == Head(call[c].todo)
       IN  mem' = DeleteToken(Remove(mem, mem.tokens[t]), t)
    /\ Becomes(c, [op |-> "destroy", todo |-> Tail(call[c].todo)])
    /\ UNCHANGED <<closed, done, lock, answer, now, goroutines>>

\* ... and unlocks.
DestroyDone(c) ==
    /\ call[c].op = "destroy"
    /\ call[c].todo = <<>>
    /\ lock' = "free"
    /\ Becomes(c, Idle)
    /\ UNCHANGED <<mem, closed, done, answer, now, goroutines>>

DestroyByToken(c, t) ==
    /\ Enter(c)
    /\ Valid(t)
    /\ mem' = unsafeDestroyByToken(mem, t)
    /\ Return(Err("nil"))

\* The critical section of Check, Get and Keys, under the read lock.
Read(c, t, r) ==
    /\ Enter(c)
    /\ Valid(t)
    /\ Holds(t)
    /\ Return(IF IsExpired(Val(t), now) THEN Err("ErrTokenExpired")
              ELSE Answer(Val(t), r))
    /\ UNCHANGED mem

\* The same, when the token has no session or a dead one; a dead one is
\* handed to the check goroutine once the lock is released.
ReadMissing(c, t) ==
    /\ Enter(c)
    /\ Valid(t)
    /\ ~Holds(t)
    /\ answer' = Err("ErrTokenNotExists")
    /\ IF t \in DOMAIN mem.tokens
       THEN Becomes(c, [op |-> "send", token |-> t])
       ELSE UNCHANGED call
    /\ UNCHANGED <<mem, closed, done, lock, now, goroutines>>

\* Put, Delete and Refresh on a token without a session, or with a dead one,
\* which they drop.
Missed(c, t) ==
    /\ Enter(c)
    /\ Valid(t)
    /\ ~Holds(t)
    /\ mem' = unsafeDestroyByToken(mem, t)
    /\ Return(Err("ErrTokenNotExists"))

\* Put and Delete on a session that is there: u is its new value.
Update(c, t, u) ==
    /\ Enter(c)
    /\ Valid(t)
    /\ Holds(t)
    /\ IF IsExpired(Val(t), now)
       THEN Return(Err("ErrTokenExpired")) /\ UNCHANGED mem
       ELSE /\ Return(Err("nil"))
            /\ mem' = [mem EXCEPT !.elem[mem.tokens[t]] = u]

Put(c, t, kv) == t \in DOMAIN mem.tokens /\ Update(c, t, SetCopy(Val(t), kv))

Delete(c, t, ks) == t \in DOMAIN mem.tokens /\ Update(c, t, DeleteKeys(Val(t), ks))

\* All the tokens given to Refresh carry the id of the first.
checkID(t, r, p) == \A s \in {r, p[1], p[2]} : IdOf[s] = IdOf[t]

RefreshReject(c, t, r, p) ==
    /\ call[c] = Idle
    /\ Valid(t) /\ Valid(r)
    /\ ~checkID(t, r, p)
    /\ Return(Err("ErrTokenIDNotMatched"))
    /\ UNCHANGED mem

\* Mutant: the session gets its new tokens before it is popped, so the pop
\* looks for the new access token in the list of the id.
RefreshInPlace(c, t, r, p) ==
    LET u == Refreshed(Val(t), p, now)
        s == DeleteToken(unsafePop([mem EXCEPT !.elem[mem.tokens[t]] = u],
                                   mem.tokens[t]), t)
    IN
    /\ Enter(c)
    /\ Valid(t)
    /\ checkID(t, r, p)
    /\ Holds(t)
    /\ Val(t).refresh = r
    /\ p[1] = t \/ p[1] \notin DOMAIN mem.tokens
    /\ now + RefreshTTL <= MaxTime
    /\ Return(Err("nil"))
    /\ \E e \in Elements \ DOMAIN s.elem : mem' = Push(s, e, u)

\* Refresh on a session that is there.  The new access token was just minted:
\* it names no other stored session.  Bound: no deadline passes MaxTime.
Refresh(c, t, r, p) ==
    LET s == DeleteToken(unsafePop(mem, mem.tokens[t]), t) IN
    /\ Enter(c)
    /\ Valid(t)
    /\ checkID(t, r, p)
    /\ Holds(t)
    /\ \/ /\ Val(t).refresh # r
          /\ Return(Err("ErrRefreshTokenNotMatched"))
          /\ UNCHANGED mem
       \/ /\ Val(t).refresh = r
          /\ p[1] = t \/ p[1] \notin DOMAIN mem.tokens
          /\ now + RefreshTTL <= MaxTime
          /\ Return(Err("nil"))
          /\ \E e \in Elements \ DOMAIN s.elem :
                mem' = Push(s, e, Refreshed(Val(t), p, now))

\* Close signals the channel closed before it empties the store and raises
\* the flag done, all under the mutex.
Close(c) ==
    /\ Enter(c)
    /\ lock' = c
    /\ closed' = TRUE
    /\ Becomes(c, [op |-> "close"])
    /\ UNCHANGED <<mem, done, answer, now, goroutines>>

CloseDone(c) ==
    /\ call[c].op = "close"
    /\ mem' = EmptyStore
    /\ done' = TRUE
    /\ lock' = "free"
    /\ answer' = Err("nil")
    /\ Becomes(c, Idle)
    /\ UNCHANGED <<closed, now, goroutines>>

-----------------------------------------------------------------------------
(* The purge channel and the check goroutine.                              *)

store == <<mem, closed, done, answer, now>>

SendQueue(c) ==
    /\ call[c].op = "send"
    /\ Len(ch) < Batch
    /\ ch' = Append(ch, call[c].token)
    /\ Becomes(c, Idle)
    /\ UNCHANGED <<store, lock, checker, clearer>>

\* After the first token of a batch check looks for more, up to Batch.
Gather(m) == [pc |-> IF Cardinality(m) < Batch THEN "merge" ELSE "lock", m |-> m]

\* An unbuffered channel: the send waits for the receive.
SendHandoff(c) ==
    /\ call[c].op = "send"
    /\ Batch <= 0
    /\ checker.pc = "read"
    /\ checker' = Gather({call[c].token})
    /\ Becomes(c, Idle)
    /\ UNCHANGED <<store, lock, ch, clearer>>

\* Mutant: a blocked sender does not watch closed.
SendDeaf(c) == call[c].op = "send" /\ closed /\ FALSE /\ UNCHANGED vars

\* A sender gives up when closed is closed.
SendClosed(c) ==
    /\ call[c].op = "send"
    /\ closed
    /\ Becomes(c, Idle)
    /\ UNCHANGED <<store, lock, goroutines>>

\* read, and tryRead when there is a token.
CheckRead ==
    /\ checker.pc \in {"read", "merge"}
    /\ ch # <<>>
    /\ checker' = Gather(checker.m \cup {Head(ch)})
    /\ ch' = Tail(ch)
    /\ UNCHANGED <<store, lock, call, clearer>>

\* The default of tryRead.
CheckMerged ==
    /\ checker.pc = "merge"
    /\ ch = <<>>
    /\ ~closed
    /\ checker' = [checker EXCEPT !.pc = "lock"]
    /\ UNCHANGED <<store, lock, call, ch, clearer>>

\* Mutant: only tryRead watches closed.
CheckClosedMerging ==
    /\ checker.pc = "merge"
    /\ closed
    /\ checker' = [pc |-> "exit", m |-> {}]
    /\ UNCHANGED <<store, lock, call, ch, clearer>>

\* read and tryRead when closed is closed.
CheckClosed ==
    /\ checker.pc \in {"read", "merge"}
    /\ closed
    /\ checker' = [pc |-> "exit", m |-> {}]
    /\ UNCHANGED <<store, lock, call, ch, clearer>>

\* Mutant: check returns from a closed provider with the mutex locked.
CheckLockKept ==
    /\ checker.pc = "lock"
    /\ lock = "free"
    /\ lock' = "check"
    /\ checker' = IF done THEN [pc |-> "exit", m |-> {}] ELSE [checker EXCEPT !.pc = "do"]
    /\ UNCHANGED <<store, call, ch, clearer>>

CheckLock ==
    /\ checker.pc = "lock"
    /\ lock = "free"
    /\ IF done
       THEN checker' = [pc |-> "exit", m |-> {}] /\ UNCHANGED lock
       ELSE checker' = [checker EXCEPT !.pc = "do"] /\ lock' = "check"
    /\ UNCHANGED <<store, call, ch, clearer>>

\* Mutant: the token is removed without another look at its session.
CheckTokenBlind(t) ==
    /\ checker.pc = "do"
    /\ t \in checker.m
    /\ checker' = [checker EXCEPT !.m = @ \ {t}]
    /\ mem' = unsafeDestroyByToken(mem, t)
    /\ UNCHANGED <<closed, done, lock, call, ch, clearer, answer, now>>

\* Mutant: the test of the error is inverted and nothing is removed.
CheckTokenIdle(t) ==
    /\ checker.pc = "do"
    /\ t \in checker.m
    /\ checker' = [checker EXCEPT !.m = @ \ {t}]
    /\ UNCHANGED <<mem, closed, done, lock, call, ch, clearer, answer, now>>

\* One turn of the loop of unsafeCheck: by now the token may be live again.
CheckToken(t) ==
    /\ checker.pc = "do"
    /\ t \in checker.m
    /\ checker' = [checker EXCEPT !.m = @ \ {t}]
    /\ mem' = IF Holds(t) THEN mem ELSE unsafeDestroyByToken(mem, t)
    /\ UNCHANGED <<closed, done, lock, call, ch, clearer, answer, now>>

CheckDone ==
    /\ checker.pc = "do"
    /\ checker.m = {}
    /\ checker' = [checker EXCEPT !.pc = "read"]
    /\ lock' = "free"
    /\ UNCHANGED <<store, call, ch, clearer>>

-----------------------------------------------------------------------------
(* The clear goroutine.                                                    *)

\* Mutant: the sweep stops one element early.
FrontDeletedEarly == Len(mem.lru) > 1 /\ IsDeleted(mem.elem[Head(mem.lru)], now)

FrontDeleted == mem.lru # <<>> /\ IsDeleted(mem.elem[Head(mem.lru)], now)

\* A tick of the timer; on a closed provider unsafeClear returns at once.
ClearTick ==
    /\ clearer = "wait"
    /\ lock = "free"
    /\ ~done
    /\ clearer' = "sweep"
    /\ lock' = "clear"
    /\ UNCHANGED <<store, call, ch, checker>>

ClearFront ==
    /\ clearer = "sweep"
    /\ FrontDeleted
    /\ mem' = DropFront(mem)
    /\ UNCHANGED <<closed, done, lock, call, answer, now, goroutines>>

ClearDone ==
    /\ clearer = "sweep"
    /\ ~FrontDeleted
    /\ clearer' = "wait"
    /\ lock' = "free"
    /\ UNCHANGED <<store, call, ch, checker>>

ClearClosed ==
    /\ clearer = "wait"
    /\ closed
    /\ clearer' = "off"
    /\ UNCHANGED <<store, lock, call, ch, checker>>

Tick ==
    /\ now < MaxTime
    /\ now' = now + 1
    /\ UNCHANGED <<mem, closed, done, lock, call, answer, goroutines>>

-----------------------------------------------------------------------------
\* Steps by which a call in progress gets on.
Progress(c) ==
    \/ CreateLate(c) \/ Create(c) \/ DestroyNext(c) \/ DestroyDone(c)
    \/ CloseDone(c) \/ SendQueue(c) \/ SendHandoff(c) \/ SendClosed(c)

Begin(c) ==
    \/ Refuse(c) \/ Close(c)
    \/ \E p \in Minted, kv \in Data : CreateCall(c, p, kv)
    \/ \E id \in Ids : Destroy(c, id)
    \/ \E t \in Tokens :
          \/ Reject(c, t) \/ DestroyByToken(c, t) \/ ReadMissing(c, t) \/ Missed(c, t)
          \/ \E r \in ReadOps : Read(c, t, r)
          \/ \E kv \in Data : Put(c, t, kv)
          \/ \E ks \in SUBSET Keys : Delete(c, t, ks)
          \/ \E r \in Tokens, p \in Minted :
                RefreshReject(c, t, r, p) \/ Refresh(c, t, r, p)

Check == CheckRead \/ CheckMerged \/ CheckClosed \/ CheckLock \/ CheckDone
           \/ \E t \in Tokens : CheckToken(t)

Clear == ClearTick \/ ClearFront \/ ClearDone \/ ClearClosed

Next == Tick \/ Check \/ Clear \/ \E c \in Clients : Begin(c) \/ Progress(c)

Spec == Init /\ [][Next]_vars

\* Goroutines keep running, and sync.RWMutex and channels queue their waiters:
\* a step that waits for either is taken if it can be taken again and again.
Fairness ==
    /\ WF_vars(Tick)
    /\ SF_vars(Check)
    /\ SF_vars(Clear)
    /\ \A c \in Clients : SF_vars(call[c] # Idle /\ (Progress(c) \/ Refuse(c)))

FairSpec == Spec /\ Fairness

-----------------------------------------------------------------------------
(* Properties.                                                             *)

AccessTokens == {p[1] : p \in Minted}

\* The sessions a Destroy in progress has still to remove.
Doomed == UNION {Range(call[c].todo) : c \in {d \in Clients : call[d].op = "destroy"}}

\* The list holds every element once, and no other.
ListExact(s) == IsInjective(s.lru) /\ Range(s.lru) = DOMAIN s.elem

\* tokens leads each access token to the element that carries it, and misses
\* none.
TokensExact(s) ==
    /\ \A t \in DOMAIN s.tokens :
          s.tokens[t] \in DOMAIN s.elem /\ s.elem[s.tokens[t]].access = t
    /\ \A e \in DOMAIN s.elem :
          /\ s.elem[e].access \in DOMAIN s.tokens
          /\ s.tokens[s.elem[e].access] = e
          /\ s.elem[e].id = IdOf[s.elem[e].access]

\* The lists of ids name each of these tokens once, under its id, and no other.
IdsExact(ids, named) ==
    /\ \A id \in DOMAIN ids :
          IsInjective(ids[id]) /\ Range(ids[id]) = {t \in named : IdOf[t] = id}
    /\ \A t \in named : IdOf[t] \in DOMAIN ids

\* MemoryProvider keeps tokens, ids and lru in step through every operation,
\* eviction, purge and sweep, so none of them is left with an entry the
\* others have lost.  A Destroy in progress has already taken the tokens it is
\* about to remove out of ids.
IndexesAgree ==
    /\ ListExact(mem)
    /\ TokensExact(mem)
    /\ IdsExact(mem.ids, DOMAIN mem.tokens \ Doomed)

\* Destroy looks each token of its list up in tokens and passes what it finds
\* to lru.Remove, which does not survive a nil element: every token left in
\* the list is still in tokens, once.
DestroyFindsElements ==
    \A c \in Clients : call[c].op = "destroy" =>
        IsInjective(call[c].todo) /\ Range(call[c].todo) \subseteq DOMAIN mem.tokens

\* No step leaves anybody waiting for good.  A call or goroutine that waits for
\* the mutex waits for one that is inside and goes on without anybody else: no
\* return keeps the mutex, and nobody inside waits for the channel.  A reader
\* that waits to hand over a token has the check goroutine on the other side,
\* or sees the closed channel; and clear sweeps until Close.
NobodyStuck ==
    /\ \/ lock = "free"
       \/ lock = "check" /\ checker.pc = "do"
       \/ lock = "clear" /\ clearer = "sweep"
       \/ \E c \in Clients :
             /\ lock = c
             /\ call[c].op \in {"destroy", "close"}
             /\ call[c].op = "destroy" /\ call[c].todo # <<>> =>
                   Head(call[c].todo) \in DOMAIN mem.tokens
    /\ checker.pc = "exit" \/ (clearer = "off" /\ ClearOn) => closed

\* WithProviderMaxSize: the store never holds more than maxSize sessions.
WithinMaxSize == MaxSize > 0 => Len(mem.lru) <= MaxSize

\* check and clear act on tokens that were dead when somebody looked.  By the
\* time they remove one it may have been refreshed or created again: they
\* never remove a session that is not past its refresh deadline.
BackgroundSparesLive ==
    [][\A t \in DOMAIN mem.tokens :
          lock \in {"check", "clear"} /\ Holds(t) => t \in DOMAIN mem'.tokens]_vars

\* A closed provider stays closed and empty, whatever calls and goroutines
\* were under way when Close ran.
ClosedForGood == [][done => done' /\ mem' = EmptyStore]_vars

\* The provider interface, with a Destroy taking effect when it takes the list
\* of the id away.
Abstract == INSTANCE Provider WITH
    sessions <- [t \in DOMAIN mem.tokens \ Doomed |-> Val(t)],
    closed <- done

\* Every call on MemoryProvider takes effect at one instant, as Provider says.
ImplementsProvider == Abstract!Spec

\* Every call returns: no caller stays behind in the mutex, in the channel to
\* check, or in the loop of Destroy, across a Close too.
CallsReturn == \A c \in Clients : call[c] # Idle ~> call[c] = Idle

\* A dead token a reader handed over is purged, or live again, or the provider
\* is closed.
ReportedPurged ==
    \A t \in AccessTokens :
        (\E c \in Clients : call[c] = [op |-> "send", token |-> t])
            ~> (done \/ Holds(t) \/ t \notin DOMAIN mem.tokens)

\* With the timer on, a session past its refresh deadline leaves the store
\* even if nobody asks for it, and even when a session that was stored before
\* it dies later.
DeadSwept ==
    ClearOn => \A t \in AccessTokens :
        (t \in DOMAIN mem.tokens /\ ~Holds(t))
            ~> (done \/ Holds(t) \/ t \notin DOMAIN mem.tokens)

\* Close ends both goroutines.
GoroutinesEnd == closed ~> (checker.pc = "exit" /\ clearer = "off")
=============================================================================
