------------------------------ MODULE Manager ------------------------------
(***************************************************************************)
(* LocalManager: it mints signed tokens, checks the ones it is handed, and *)
(* turns its calls into calls on a Provider.  Manager keeps no state and   *)
(* takes no lock: between minting the tokens of a Create or a Refresh and  *)
(* the provider's call that stores them, other clients, the clock and the  *)
(* provider's goroutines run.  The provider is the module Provider, which  *)
(* Memory implements.                                                      *)
(***************************************************************************)
EXTENDS Sessions

CONSTANTS
    MaxSize,    \* opts.maxSize of the provider
    Clients,    \* goroutines that call the manager
    Canonical   \* a token, its signature spelled as Sign does

ASSUME ManagerAssumption ==
    /\ Canonical \in [Tokens -> Tokens]
    /\ \A p \in Minted : Canonical[p[1]] = p[1] /\ Canonical[p[2]] = p[2]

VARIABLES
    sessions, closed, answer, now,  \* the provider
    issued,  \* the token pairs minted so far
    call,    \* the Create or Refresh each client has in progress
    origin   \* history: the access token with which the session began that
             \* was stored under this access token

provider == <<sessions, closed, answer, now>>

vars == <<provider, issued, call, origin>>

P == INSTANCE Provider

Idle == [op |-> "idle"]

Calls == [op : {"idle"}]
           \cup [op : {"create"}, p : Minted, kv : Data, at : Time]
           \cup [op : {"refresh"}, p : Minted, access : Tokens,
                  refresh : Tokens]

TypeOK ==
    /\ P!TypeOK
    /\ issued \subseteq Minted
    /\ call \in [Clients -> Calls]
    /\ IsPartial(origin, Tokens, Tokens)

Init ==
    /\ P!Init
    /\ issued = {}
    /\ call = [c \in Clients |-> Idle]
    /\ origin = Empty

-----------------------------------------------------------------------------
(* Tokens.                                                                 *)

\* Mutant: session ids are taken again when no session or call uses them.
MintUnstored(p) ==
    /\ p[1] \notin DOMAIN sessions
    /\ \A c \in Clients : call[c].op # "idle" => call[c].p # p
    /\ issued' = issued \cup {p}

\* Mutant: two mints may give the same session ids.
MintAgain(p) == p \in Minted /\ UNCHANGED issued

\* CreateToken: every session id is new.
Mint(p) == p \in Minted \ issued /\ issued' = issued \cup {p}

\* Verify accepts what Sign signed, the tokens CreateToken made, in any spelling
\* of the signature that decodes to the same bytes.
Verifies(t) == \E p \in issued : Canonical[t] \in {p[1], p[2]}

\* The error with which Split and Verify, in this order, reject a token.
Rejection(t) == IF Valid(t) THEN "ErrSignatureInvalid" ELSE "ErrTokenInvalid"

-----------------------------------------------------------------------------
(* Calls.                                                                  *)

Becomes(c, r) == call' = [call EXCEPT ![c] = r]

\* Create up to the call on the provider.
CreateCall(c, p, kv) ==
    /\ call[c] = Idle
    /\ Mint(p)
    /\ Becomes(c, [op |-> "create", p |-> p, kv |-> kv, at |-> now])
    /\ UNCHANGED <<provider, origin>>

\* coder.Encode fails: Create returns, and its tokens are never stored.
CreateFails(c) ==
    /\ call[c].op = "create"
    /\ Becomes(c, Idle)
    /\ UNCHANGED <<provider, issued, origin>>

\* If the new access token is in the store, its session began with root.
Traced(root, p) ==
    origin' = IF p[1] \in DOMAIN sessions' THEN With(origin, p[1], root)
              ELSE origin

\* The call on the provider takes effect, and Create returns.  The deadlines
\* run from some moment of the call.
Create(c) ==
    /\ call[c].op = "create"
    /\ LET p == call[c].p IN
       /\ \/ P!Refuse
          \/ \E at \in call[c].at..now :
                P!Create(p, call[c].kv, at) \/ P!CreateLate(at)
       /\ Traced(p[1], p)
    /\ Becomes(c, Idle)
    /\ UNCHANGED issued

\* Refresh rejects its arguments: a token without a signature of this manager,
\* or tokens of two ids.
RefreshReject(c, a, r) ==
    /\ call[c] = Idle
    /\ answer' = Err(IF ~Verifies(a) THEN Rejection(a)
                     ELSE IF ~Verifies(r) THEN Rejection(r)
                     ELSE "ErrTokenIDNotMatched")
    /\ Verifies(a) /\ Verifies(r) => IdOf[a] # IdOf[r]
    /\ UNCHANGED <<sessions, closed, now, issued, call, origin>>

\* Refresh up to the call on the provider.
RefreshCall(c, a, r, p) ==
    /\ call[c] = Idle
    /\ Verifies(a) /\ Verifies(r)
    /\ IdOf[a] = IdOf[r]
    /\ Mint(p)
    /\ IdOf[p[1]] = IdOf[a]
    /\ Becomes(c, [op |-> "refresh", p |-> p, access |-> a, refresh |-> r])
    /\ UNCHANGED <<provider, origin>>

\* Mutant: the session is stored under its new token and stays under the old.
RefreshForks(c) ==
    /\ call[c].op = "refresh"
    /\ LET p == call[c].p
           a == call[c].access
       IN  /\ a \in DOMAIN sessions
           /\ ~IsDeleted(sessions[a], now)
           /\ sessions[a].refresh = call[c].refresh
           /\ sessions' = With(sessions, p[1], Refreshed(sessions[a], p, now))
           /\ Traced(origin[a], p)
    /\ Becomes(c, Idle)
    /\ UNCHANGED <<closed, answer, now, issued>>

\* Mutant: a session that is not there any more is created again.
RefreshOrCreate(c) ==
    /\ call[c].op = "refresh"
    /\ LET p == call[c].p
           a == call[c].access
       IN  /\ \/ P!Refuse
              \/ P!Refresh(a, call[c].refresh, p)
              \/ a \in DOMAIN origin \ DOMAIN sessions /\ P!Create(p, Empty, now)
           /\ Traced(origin[a], p)
    /\ Becomes(c, Idle)
    /\ UNCHANGED issued

\* Mutant: the provider is given the old refresh token as the new one.
RefreshKeepsRefresh(c) ==
    /\ call[c].op = "refresh"
    /\ LET p == call[c].p
           a == call[c].access
       IN  /\ \/ P!Refuse \/ P!NotExists(a)
              \/ P!Refresh(a, call[c].refresh, <<p[1], call[c].refresh>>)
           /\ Traced(origin[a], p)
    /\ Becomes(c, Idle)
    /\ UNCHANGED issued

\* The call on the provider takes effect, and Refresh returns.
Refresh(c) ==
    /\ call[c].op = "refresh"
    /\ LET p == call[c].p
           a == call[c].access
       IN  /\ \/ P!Refuse \/ P!NotExists(a)
              \/ P!Refresh(a, call[c].refresh, p)
           /\ Traced(origin[a], p)
    /\ Becomes(c, Idle)
    /\ UNCHANGED issued

\* Calls that go straight to the provider and are over with it.
Direct(c) == call[c] = Idle /\ UNCHANGED <<issued, call, origin>>

Destroy(c, id) == Direct(c) /\ (P!Refuse \/ P!Destroy(id))

DestroyByToken(c, t) ==
    /\ Direct(c)
    /\ IF Valid(t) THEN P!Refuse \/ P!DestroyByToken(t) ELSE P!Reject

\* Manager.Get opens a session without asking the provider.
Get(t) == Valid(t) /\ Verifies(t)

\* A call on a session that Get opened.
Use(c, t) ==
    /\ Direct(c)
    /\ Get(t)
    /\ \/ P!Refuse \/ P!NotExists(t)
       \/ P!DestroyByToken(t)
       \/ \E r \in ReadOps : P!Read(t, r)
       \/ \E kv \in Data : P!Put(t, kv)
       \/ \E ks \in SUBSET Keys : P!Delete(t, ks)

\* The provider's goroutines, its owner, and the clock.
Background == (P!Purge \/ P!Close \/ P!Tick) /\ UNCHANGED <<issued, call, origin>>

-----------------------------------------------------------------------------
Next ==
    \/ Background
    \/ \E c \in Clients :
          \/ CreateFails(c) \/ Create(c) \/ Refresh(c)
          \/ \E p \in Minted, kv \in Data : CreateCall(c, p, kv)
          \/ \E id \in Ids : Destroy(c, id)
          \/ \E t \in Tokens :
                \/ DestroyByToken(c, t) \/ Use(c, t)
                \/ \E r \in Tokens :
                      \/ RefreshReject(c, t, r)
                      \/ \E p \in Minted : RefreshCall(c, t, r, p)

Spec == Init /\ [][Next]_vars

-----------------------------------------------------------------------------
(* Properties.                                                             *)

\* Whatever calls overlap, a session is stored under an access token this
\* manager signed, with the refresh token signed in the same breath and the
\* id that both carry.
SessionsIssued ==
    \A t \in DOMAIN sessions :
        /\ sessions[t].access = t
        /\ <<t, sessions[t].refresh>> \in issued
        /\ sessions[t].id = IdOf[t]

\* The access token a Create or Refresh in progress is about to store belongs
\* to that call alone and was never in the store: MemoryProvider's Refresh
\* pushes it without a look at what is there.
PendingUnused ==
    \A c \in Clients : call[c] # Idle =>
        /\ call[c].p \in issued
        /\ call[c].p[1] \notin DOMAIN origin
        /\ \A d \in Clients \ {c} : call[d] # Idle => call[d].p # call[c].p

\* Two Refreshes of one session that overlap do not both succeed: a session
\* has one access token at a time.
OneHeir ==
    \A t, u \in DOMAIN sessions :
        {t, u} \subseteq DOMAIN origin /\ origin[t] = origin[u] => t = u

Alive(o, ss, org) == \E t \in DOMAIN ss \cap DOMAIN org : org[t] = o

\* A session that was destroyed, evicted or purged does not come back under
\* another token, although a Refresh of it may be under way.
DestroyedStayGone ==
    [][\A o \in Range(origin) :
          ~Alive(o, sessions, origin) => ~Alive(o, sessions', origin')]_vars

\* An access token that was replaced, or whose session ended, is never good
\* again.
TokensRetire ==
    [][\A t \in DOMAIN origin \ DOMAIN sessions : t \notin DOMAIN sessions']_vars
=============================================================================
