------------------------------ MODULE Provider ------------------------------
(***************************************************************************)
(* What the Provider interface promises: a map from access tokens to       *)
(* sessions on which every operation takes effect in one step, whatever    *)
(* locks, indexes, queues and background goroutines stand behind it.  A    *)
(* session that is past its refresh deadline may vanish at any time; any   *)
(* other session goes only because a call asked for it, because a Create   *)
(* found the store full, or because the provider was closed.               *)
(***************************************************************************)
EXTENDS Sessions

CONSTANT MaxSize  \* opts.maxSize: most sessions stored; no limit when <= 0

VARIABLES
    sessions,  \* access token -> session
    closed,    \* Close has returned
    answer,    \* what the last operation that took effect returned
    now        \* the clock

vars == <<sessions, closed, answer, now>>

TypeOK ==
    /\ IsPartial(sessions, Tokens, TokenValue)
    /\ closed \in BOOLEAN
    /\ answer \in Answers
    /\ now \in Time

Init ==
    /\ sessions = Empty
    /\ closed = FALSE
    /\ answer = Err("nil")
    /\ now = 0

Answered(a) == answer' = a /\ UNCHANGED <<closed, now>>

\* Any operation given a malformed token, and Refresh given tokens of
\* different ids, changes nothing.  Both are noticed before the closed flag.
Reject ==
    /\ \E e \in {"ErrTokenInvalid", "ErrTokenIDNotMatched"} : Answered(Err(e))
    /\ UNCHANGED sessions

\* Every operation on a closed provider.
Refuse ==
    /\ closed
    /\ Answered(Err("ErrProviderClosed"))
    /\ UNCHANGED sessions

\* A call on t finds no session.  A session past its refresh deadline counts
\* as none, and may be dropped on the occasion.
NotExists(t) ==
    /\ ~closed
    /\ t \in DOMAIN sessions => IsDeleted(sessions[t], now)
    /\ sessions' \in {sessions, Without(sessions, t)}
    /\ Answered(Err("ErrTokenNotExists"))

\* The deadlines of a new session run from a moment before it is stored; a
\* full store gives up exactly one other session.
Create(p, kv, at) ==
    LET others == DOMAIN sessions \ {p[1]} IN
    /\ ~closed
    /\ Answered(Err("nil"))
    /\ \E kept \in SUBSET others :
          /\ IF MaxSize > 0 /\ Cardinality(others) >= MaxSize
             THEN \E v \in others : kept = others \ {v}
             ELSE kept = others
          /\ sessions' = With(Restrict(sessions, kept), p[1],
                              newTokenValue(p, kv, at))

\* A session that would already be past its refresh deadline is not stored,
\* and Create does not say so.
CreateLate(at) ==
    /\ at + RefreshTTL <= now
    /\ Answered(Err("nil"))
    /\ UNCHANGED sessions

Destroy(id) ==
    /\ ~closed
    /\ Answered(Err("nil"))
    /\ sessions' = RestrictDomain(sessions, LAMBDA t : sessions[t].id # id)

DestroyByToken(t) ==
    /\ ~closed
    /\ Answered(Err("nil"))
    /\ sessions' = Without(sessions, t)

\* Check, Get and Keys.
Read(t, r) ==
    /\ ~closed
    /\ t \in DOMAIN sessions
    /\ ~IsDeleted(sessions[t], now)
    /\ Answered(IF IsExpired(sessions[t], now) THEN Err("ErrTokenExpired")
                ELSE Answer(sessions[t], r))
    /\ UNCHANGED sessions

\* Put and Delete: u is the session with the change applied.
Update(t, u) ==
    /\ ~closed
    /\ t \in DOMAIN sessions
    /\ ~IsDeleted(sessions[t], now)
    /\ IF IsExpired(sessions[t], now)
       THEN Answered(Err("ErrTokenExpired")) /\ UNCHANGED sessions
       ELSE Answered(Err("nil")) /\ sessions' = [sessions EXCEPT ![t] = u]

Put(t, kv) == t \in DOMAIN sessions /\ Update(t, SetCopy(sessions[t], kv))

Delete(t, ks) == t \in DOMAIN sessions /\ Update(t, DeleteKeys(sessions[t], ks))

\* The session moves to a new pair of tokens; the old access token is gone.
Refresh(t, r, p) ==
    /\ ~closed
    /\ t \in DOMAIN sessions
    /\ ~IsDeleted(sessions[t], now)
    /\ IF sessions[t].refresh # r
       THEN Answered(Err("ErrRefreshTokenNotMatched")) /\ UNCHANGED sessions
       ELSE /\ Answered(Err("nil"))
            /\ sessions' = With(Without(sessions, t), p[1],
                                Refreshed(sessions[t], p, now))

\* Sessions past their refresh deadline disappear.
Purge ==
    /\ \E gone \in SUBSET {t \in DOMAIN sessions : IsDeleted(sessions[t], now)} :
          sessions' = Restrict(sessions, DOMAIN sessions \ gone)
    /\ UNCHANGED <<closed, answer, now>>

Close ==
    /\ ~closed
    /\ closed' = TRUE
    /\ sessions' = Empty
    /\ answer' = Err("nil")
    /\ UNCHANGED now

Tick ==
    /\ now < MaxTime
    /\ now' = now + 1
    /\ UNCHANGED <<sessions, closed, answer>>

Next ==
    \/ Reject \/ Refuse \/ Close \/ Tick
    \/ \E id \in Ids : Destroy(id)
    \/ \E t \in Tokens : NotExists(t) \/ DestroyByToken(t)
    \/ \E t \in DOMAIN sessions :
          \/ \E r \in ReadOps : Read(t, r)
          \/ \E kv \in Data : Put(t, kv)
          \/ \E ks \in SUBSET Keys : Delete(t, ks)
          \/ \E r \in Tokens, p \in Minted : Refresh(t, r, p)
    \/ Purge
    \/ \E at \in 0..now : CreateLate(at)
    \/ \E p \in Minted, kv \in Data, at \in 0..now : Create(p, kv, at)

Spec == Init /\ [][Next]_vars
=============================================================================
