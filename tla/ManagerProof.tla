---------------------------- MODULE ManagerProof ----------------------------
(***************************************************************************)
(* Proofs about Manager, for every number of clients, tokens and values,   *)
(* over any provider that does what Provider says.                         *)
(*                                                                         *)
(* OneHeir follows from the freshness of the tokens in progress, which in  *)
(* turn needs that whatever was stored has an origin and was issued: IInv. *)
(***************************************************************************)
EXTENDS ManagerTokens, SessionsProof, TokenProof, TLAPS

-----------------------------------------------------------------------------
\* Whatever is stored was traced, to a token that was itself stored.
OriginsKnown ==
    /\ DOMAIN sessions \subseteq DOMAIN origin
    /\ \A t \in DOMAIN origin : origin[t] \in DOMAIN origin

\* What was ever stored was issued.
OriginsIssued == \A t \in DOMAIN origin : \E p \in issued : p[1] = t

\* A session keeps its id over its Refreshes.
OriginsSameId == \A t \in DOMAIN origin : IdOf[origin[t]] = IdOf[t]

\* A Refresh in progress carries new tokens of the id of the old ones.
RefreshSameId ==
    \A c \in Clients :
        call[c].op = "refresh" => IdOf[call[c].p[1]] = IdOf[call[c].access]

IInv ==
    /\ TypeOK
    /\ SessionsIssued
    /\ PendingUnused
    /\ OneHeir
    /\ OriginsKnown
    /\ OriginsIssued
    /\ OriginsSameId
    /\ RefreshSameId

\* The provider drops sessions and changes the data of others.
Kept ==
    /\ DOMAIN sessions' \subseteq DOMAIN sessions
    /\ \A t \in DOMAIN sessions' :
          /\ sessions'[t].access = sessions[t].access
          /\ sessions'[t].refresh = sessions[t].refresh
          /\ sessions'[t].id = sessions[t].id

-----------------------------------------------------------------------------
(* The provider.                                                           *)

\* The provider's names for sessions, answers and maps are the manager's.
LEMMA Names ==
    /\ P!TokenValue = TokenValue
    /\ P!Answers = Answers
    /\ P!Time = Time
    /\ P!Empty = Empty
    /\ \A f, S, T : P!IsPartial(f, S, T) <=> IsPartial(f, S, T)
    /\ \A f, D : P!Restrict(f, D) = Restrict(f, D)
    /\ \A f, x : P!Without(f, x) = Without(f, x)
    /\ \A f, x, y : P!With(f, x, y) = With(f, x, y)
    /\ \A e : P!Err(e) = Err(e)
    /\ \A u, at : P!IsExpired(u, at) = IsExpired(u, at)
    /\ \A u, at : P!IsDeleted(u, at) = IsDeleted(u, at)
    /\ \A u, r : P!Answer(u, r) = Answer(u, r)
    /\ \A u, kv : P!SetCopy(u, kv) = SetCopy(u, kv)
    /\ \A u, ks : P!DeleteKeys(u, ks) = DeleteKeys(u, ks)
    /\ \A p, kv, at : P!newTokenValue(p, kv, at) = newTokenValue(p, kv, at)
    /\ \A u, p, at : P!Refreshed(u, p, at) = Refreshed(u, p, at)
BY DEF P!TokenValue, TokenValue, P!Data, Data, P!Partial, Partial, P!Answers, Answers,
       P!Errors, Errors, P!Time, Time, P!Empty, Empty, P!IsPartial, IsPartial,
       P!Restrict, Restrict, P!Without, Without, P!With, With, P!Err, Err,
       P!IsExpired, IsExpired, P!IsDeleted, IsDeleted, P!Answer, Answer,
       P!CopyKeys, CopyKeys, P!SetCopy, SetCopy, P!Override, Override,
       P!DeleteKeys, DeleteKeys, P!newTokenValue, newTokenValue, P!Refreshed, Refreshed

\* The provider's operations that store no session.
Storeless ==
    \/ P!Reject \/ P!Refuse \/ P!Purge \/ P!Close \/ P!Tick
    \/ \E at \in Time : P!CreateLate(at)
    \/ \E id \in Ids : P!Destroy(id)
    \/ \E t \in Tokens :
          \/ P!NotExists(t) \/ P!DestroyByToken(t)
          \/ \E r \in ReadOps : P!Read(t, r)
          \/ \E kv \in Data : P!Put(t, kv)
          \/ \E ks \in SUBSET Keys : P!Delete(t, ks)

\* Operations that store no session keep the provider's types.
LEMMA StorelessStep ==
    ASSUME P!TypeOK, Storeless
    PROVE  P!TypeOK' /\ Kept
<1> USE Names DEF P!TypeOK
<1>1. IsPartial(sessions, Tokens, TokenValue)
  OBVIOUS
<1>2. ASSUME NEW D \in SUBSET DOMAIN sessions, sessions' = Restrict(sessions, D)
      PROVE  IsPartial(sessions', Tokens, TokenValue) /\ Kept
  BY <1>1, <1>2, RestrictFacts DEF Kept
<1>3. ASSUME UNCHANGED sessions
      PROVE  IsPartial(sessions', Tokens, TokenValue) /\ Kept
  BY <1>1, <1>3 DEF Kept
<1>4. ASSUME NEW e \in Errors
      PROVE  Err(e) \in Answers
  BY ErrType
<1>5. {"nil", "ErrTokenInvalid", "ErrTokenIDNotMatched", "ErrProviderClosed",
       "ErrTokenNotExists", "ErrTokenExpired", "ErrRefreshTokenNotMatched"} \subseteq Errors
  BY DEF Errors
<1>6. ASSUME NEW t \in Tokens, NEW u \in TokenValue, P!Update(t, u),
             u.access = sessions[t].access, u.refresh = sessions[t].refresh,
             u.id = sessions[t].id
      PROVE  P!TypeOK' /\ Kept
  <2>1. CASE IsExpired(sessions[t], now)
    BY <1>3, <1>4, <1>5, <1>6, <2>1 DEF P!Update, P!Answered
  <2>2. CASE ~IsExpired(sessions[t], now)
    <3>1. t \in DOMAIN sessions /\ sessions' = [sessions EXCEPT ![t] = u]
      BY <1>6, <2>2 DEF P!Update
    <3>2. IsPartial(sessions', Tokens, TokenValue) /\ Kept
      BY <1>1, <1>6, <3>1 DEF IsPartial, Kept
    <3> QED
      BY <1>4, <1>5, <1>6, <2>2, <3>2 DEF P!Update, P!Answered
  <2> QED
    BY <2>1, <2>2
<1>7. CASE P!Reject
  BY <1>3, <1>4, <1>5, <1>7 DEF P!Reject, P!Answered
<1>8. CASE P!Refuse
  BY <1>3, <1>4, <1>5, <1>8 DEF P!Refuse, P!Answered
<1>9. CASE P!Purge
  BY <1>2, <1>9 DEF P!Purge
<1>10. CASE P!Close
  <2>1. IsPartial(Empty, Tokens, TokenValue)
    BY DEF Empty, IsPartial
  <2>2. DOMAIN Empty = {}
    BY DEF Empty
  <2> QED
    BY <2>1, <2>2, <1>4, <1>5, <1>10 DEF P!Close, Kept
<1>11. CASE P!Tick
  <2>1. now' \in Time
    BY <1>11, TTLAssumption DEF P!Tick, Time
  <2> QED
    BY <2>1, <1>3, <1>11 DEF P!Tick
<1>12. ASSUME NEW at \in Time, P!CreateLate(at)
       PROVE  P!TypeOK' /\ Kept
  BY <1>3, <1>4, <1>5, <1>12 DEF P!CreateLate, P!Answered
<1>13. ASSUME NEW id \in Ids, P!Destroy(id)
       PROVE  P!TypeOK' /\ Kept
  <2>1. PICK D \in SUBSET DOMAIN sessions : sessions' = Restrict(sessions, D)
    BY <1>13 DEF P!Destroy, P!RestrictDomain, P!Restrict, Restrict
  <2> QED
    BY <2>1, <1>2, <1>4, <1>5, <1>13 DEF P!Destroy, P!Answered
<1>14. ASSUME NEW t \in Tokens, P!NotExists(t)
       PROVE  P!TypeOK' /\ Kept
  BY <1>2, <1>3, <1>4, <1>5, <1>14 DEF P!NotExists, P!Answered, Without
<1>15. ASSUME NEW t \in Tokens, P!DestroyByToken(t)
       PROVE  P!TypeOK' /\ Kept
  BY <1>2, <1>4, <1>5, <1>15 DEF P!DestroyByToken, P!Answered, Without
<1>16. ASSUME NEW t \in Tokens, NEW r \in ReadOps, P!Read(t, r)
       PROVE  P!TypeOK' /\ Kept
  <2>1. sessions[t] \in TokenValue
    BY <1>1, <1>16 DEF P!Read, IsPartial
  <2>2. answer' \in Answers
    BY <2>1, <1>4, <1>5, <1>16, AnswerType DEF P!Read, P!Answered
  <2> QED
    BY <2>2, <1>3, <1>16 DEF P!Read, P!Answered
<1>17. ASSUME NEW t \in Tokens, NEW kv \in Data, P!Put(t, kv)
       PROVE  P!TypeOK' /\ Kept
  <2>1. sessions[t] \in TokenValue
    BY <1>1, <1>17 DEF P!Put, IsPartial
  <2> QED
    BY <2>1, <1>6, <1>17, WriteFacts DEF P!Put
<1>18. ASSUME NEW t \in Tokens, NEW ks \in SUBSET Keys, P!Delete(t, ks)
       PROVE  P!TypeOK' /\ Kept
  <2>1. sessions[t] \in TokenValue
    BY <1>1, <1>18 DEF P!Delete, IsPartial
  <2> QED
    BY <2>1, <1>6, <1>18, WriteFacts DEF P!Delete
<1> QED
  BY <1>7, <1>8, <1>9, <1>10, <1>11, <1>12, <1>13, <1>14, <1>15, <1>16, <1>17, <1>18
     DEF Storeless

\* A Create that takes effect drops sessions at most, and stores one.
LEMMA CreateStep ==
    ASSUME P!TypeOK, NEW p \in Minted, NEW kv \in Data, NEW at \in Nat, P!Create(p, kv, at)
    PROVE  /\ P!TypeOK'
           /\ p[1] \in DOMAIN sessions'
           /\ sessions'[p[1]].access = p[1]
           /\ sessions'[p[1]].refresh = p[2]
           /\ sessions'[p[1]].id = IdOf[p[1]]
           /\ DOMAIN sessions' \subseteq DOMAIN sessions \cup {p[1]}
           /\ \A t \in DOMAIN sessions' \ {p[1]} : sessions'[t] = sessions[t]
<1> USE Names
<1>1. IsPartial(sessions, Tokens, TokenValue)
  BY DEF P!TypeOK
<1>2. PICK kept \in SUBSET DOMAIN sessions :
          sessions' = With(Restrict(sessions, kept), p[1], newTokenValue(p, kv, at))
  BY DEF P!Create
<1>3. IsPartial(Restrict(sessions, kept), Tokens, TokenValue)
  BY <1>1, RestrictFacts
<1>4. IsPartial(sessions', Tokens, TokenValue)
  BY <1>2, <1>3, MintFacts, PartialStep
<1>5. answer' \in Answers /\ UNCHANGED <<closed, now>>
  BY ErrType DEF P!Create, P!Answered, Errors
<1>6. P!TypeOK'
  BY <1>4, <1>5 DEF P!TypeOK
<1>7. /\ DOMAIN sessions' = kept \cup {p[1]}
      /\ sessions'[p[1]] = newTokenValue(p, kv, at)
      /\ \A t \in kept \ {p[1]} : sessions'[t] = sessions[t]
  BY <1>2 DEF With, Restrict
<1> QED
  BY <1>6, <1>7 DEF newTokenValue

\* A Refresh fails and changes nothing, or moves one session to its new token.
LEMMA RefreshStep ==
    ASSUME P!TypeOK, NEW a \in Tokens, NEW r, NEW p \in Minted, P!Refresh(a, r, p)
    PROVE  /\ P!TypeOK'
           /\ \/ UNCHANGED sessions
              \/ /\ a \in DOMAIN sessions
                 /\ sessions'[p[1]].access = p[1]
                 /\ sessions'[p[1]].refresh = p[2]
                 /\ sessions'[p[1]].id = sessions[a].id
                 /\ DOMAIN sessions' = (DOMAIN sessions \ {a}) \cup {p[1]}
                 /\ \A t \in DOMAIN sessions' \ {p[1]} : sessions'[t] = sessions[t]
<1> USE Names
<1>1. IsPartial(sessions, Tokens, TokenValue) /\ now \in Nat
  BY DEF P!TypeOK, Time
<1>2. answer' \in Answers /\ UNCHANGED <<closed, now>>
  BY ErrType DEF P!Refresh, P!Answered, Errors
<1>3. CASE UNCHANGED sessions
  BY <1>1, <1>2, <1>3 DEF P!TypeOK
<1>4. CASE ~UNCHANGED sessions
  <2>1. /\ a \in DOMAIN sessions
        /\ sessions' = With(Without(sessions, a), p[1], Refreshed(sessions[a], p, now))
    BY <1>4 DEF P!Refresh
  <2>2. sessions[a] \in TokenValue
    BY <1>1, <2>1 DEF IsPartial
  <2>3. IsPartial(sessions', Tokens, TokenValue)
    BY <1>1, <2>1, <2>2, MintFacts, PartialStep
  <2>4. P!TypeOK'
    BY <1>2, <2>3 DEF P!TypeOK
  <2>5. /\ DOMAIN sessions' = (DOMAIN sessions \ {a}) \cup {p[1]}
        /\ sessions'[p[1]] = Refreshed(sessions[a], p, now)
        /\ \A t \in DOMAIN sessions \ {a, p[1]} : sessions'[t] = sessions[t]
    BY <2>1 DEF With, Without, Restrict
  <2> QED
    BY <2>1, <2>2, <2>4, <2>5 DEF Refreshed, TokenValue
<1> QED
  BY <1>3, <1>4

-----------------------------------------------------------------------------
(* Steps of the manager.                                                   *)

LEMMA InitIInv == Init => IInv
<1> SUFFICES ASSUME Init PROVE IInv
  OBVIOUS
<1>1. P!TypeOK
  <2>1. IsPartial(Empty, Tokens, TokenValue) /\ 0 \in Time /\ Err("nil") \in Answers
    BY TTLAssumption, ErrType DEF IsPartial, Empty, Time, Errors
  <2> QED
    BY <2>1, Names DEF Init, P!Init, P!TypeOK
<1>2. DOMAIN sessions = {} /\ DOMAIN origin = {}
  BY Names DEF Init, P!Init, Empty
<1>3. TypeOK
  BY <1>1 DEF Init, TypeOK, Calls, Idle, IsPartial, Empty
<1> QED
  BY <1>2, <1>3 DEF Init, IInv, SessionsIssued, PendingUnused, OneHeir, OriginsKnown,
                    OriginsIssued, OriginsSameId, RefreshSameId, Idle

\* What a step does to the calls: none, one begins with a new pair of tokens,
\* or one ends.
Begins(c, p) ==
    /\ call[c] = Idle
    /\ p \in Minted \ issued
    /\ issued' = issued \cup {p}
    /\ call' = [call EXCEPT ![c] = call'[c]]
    /\ call'[c] \in Calls
    /\ call'[c].op # "idle"
    /\ call'[c].p = p
    /\ call'[c].op = "refresh" => IdOf[p[1]] = IdOf[call'[c].access]
    /\ UNCHANGED <<sessions, closed, answer, now, origin>>

\* A step without a new session.
Quiet ==
    /\ P!TypeOK'
    /\ Kept
    /\ UNCHANGED <<issued, origin>>
    /\ \/ UNCHANGED call
       \/ \E c \in Clients : call' = [call EXCEPT ![c] = Idle]

\* The call of c ends with a session under its new token, from the root o.
Stores(c, o) ==
    LET p == call[c].p IN
    /\ call[c] # Idle
    /\ P!TypeOK'
    /\ p[1] \in DOMAIN sessions'
    /\ sessions'[p[1]].access = p[1]
    /\ sessions'[p[1]].refresh = p[2]
    /\ sessions'[p[1]].id = IdOf[p[1]]
    /\ DOMAIN sessions' \subseteq DOMAIN sessions \cup {p[1]}
    /\ \A t \in DOMAIN sessions' \ {p[1]} : sessions'[t] = sessions[t]
    /\ origin' = With(origin, p[1], o)
    /\ \/ o = p[1]
       \/ \E a \in DOMAIN sessions \ DOMAIN sessions' : o = origin[a]
    /\ IdOf[o] = IdOf[p[1]]
    /\ call' = [call EXCEPT ![c] = Idle]
    /\ UNCHANGED issued

\* A plain operation of the provider is a quiet step.
LEMMA StorelessQuiet ==
    ASSUME TypeOK, Storeless, UNCHANGED <<issued, origin>>,
           UNCHANGED call \/ \E c \in Clients : call' = [call EXCEPT ![c] = Idle]
    PROVE  Quiet
BY StorelessStep DEF Quiet, TypeOK

\* A step that leaves the provider alone.
LEMMA StillQuiet ==
    ASSUME TypeOK, UNCHANGED <<sessions, closed, now, issued, origin>>, answer' \in Answers,
           UNCHANGED call \/ \E c \in Clients : call' = [call EXCEPT ![c] = Idle]
    PROVE  Quiet
BY Names DEF Quiet, TypeOK, P!TypeOK, Kept

\* A call in progress holds tokens that were minted together.
LEMMA CallFields ==
    ASSUME TypeOK, NEW c \in Clients
    PROVE  /\ call[c].op \in {"idle", "create", "refresh"}
           /\ call[c].op = "idle" <=> call[c] = Idle
           /\ call[c].op # "idle" => call[c].p \in Minted
           /\ call[c].op = "create" => call[c].kv \in Data /\ call[c].at \in Nat
           /\ call[c].op = "refresh" => call[c].access \in Tokens
<1>1. call[c] \in Calls
  BY DEF TypeOK
<1> QED
  BY <1>1 DEF Calls, Idle, Time

\* The provider's part of Create and Refresh, and what they do to the origins.
LEMMA CreateStores ==
    ASSUME IInv, NEW c \in Clients, Create(c)
    PROVE  Quiet \/ Stores(c, call[c].p[1])
<1> DEFINE p == call[c].p
<1>1. /\ p \in Minted /\ call[c].kv \in Data /\ call[c].at \in Nat /\ now \in 0..MaxTime
      /\ call[c] # Idle
      /\ P!TypeOK /\ TypeOK
  BY CallFields, Names DEF IInv, Create, TypeOK, P!TypeOK, Time, Idle
<1>2. p[1] \notin DOMAIN origin /\ p[1] \notin DOMAIN sessions
  BY <1>1 DEF IInv, PendingUnused, OriginsKnown
<1>3. /\ call' = [call EXCEPT ![c] = Idle] /\ UNCHANGED issued
      /\ Traced(p[1], p)
  BY DEF Create, Becomes
<1>4. ASSUME P!Refuse \/ \E at \in Time : P!CreateLate(at)
      PROVE  Quiet
  <2>1. Storeless
    BY <1>4 DEF Storeless
  <2>2. DOMAIN sessions' \subseteq DOMAIN sessions
    BY <2>1, <1>1, StorelessStep DEF Kept
  <2> QED
    BY <2>1, <2>2, <1>1, <1>2, <1>3, StorelessQuiet DEF Traced
<1>5. ASSUME NEW at \in Nat, P!Create(p, call[c].kv, at)
      PROVE  Stores(c, p[1])
  <2> HIDE DEF p
  <2>1. /\ P!TypeOK'
        /\ p[1] \in DOMAIN sessions'
        /\ sessions'[p[1]].access = p[1]
        /\ sessions'[p[1]].refresh = p[2]
        /\ sessions'[p[1]].id = IdOf[p[1]]
        /\ DOMAIN sessions' \subseteq DOMAIN sessions \cup {p[1]}
        /\ \A t \in DOMAIN sessions' \ {p[1]} : sessions'[t] = sessions[t]
    BY <1>1, <1>5, CreateStep
  <2> QED
    BY <2>1, <1>1, <1>3 DEF Stores, Traced, p
<1>6. \A at \in call[c].at..now : at \in Nat /\ at \in Time
  BY <1>1, TTLAssumption DEF Time
<1> QED
  BY <1>4, <1>5, <1>6 DEF Create

LEMMA RefreshStores ==
    ASSUME IInv, NEW c \in Clients, Refresh(c)
    PROVE  Quiet \/ Stores(c, origin[call[c].access])
<1> DEFINE p == call[c].p
           a == call[c].access
<1>1. /\ p \in Minted /\ a \in Tokens
      /\ call[c] # Idle
      /\ IdOf[p[1]] = IdOf[a]
      /\ P!TypeOK /\ TypeOK
  BY CallFields DEF IInv, Refresh, TypeOK, Idle, RefreshSameId
<1>2. p[1] \notin DOMAIN origin /\ p[1] \notin DOMAIN sessions
  BY <1>1 DEF IInv, PendingUnused, OriginsKnown
<1>3. /\ call' = [call EXCEPT ![c] = Idle] /\ UNCHANGED issued
      /\ Traced(origin[a], p)
  BY DEF Refresh, Becomes
<1>4. ASSUME P!Refuse \/ P!NotExists(a)
      PROVE  Quiet
  <2>1. Storeless
    BY <1>1, <1>4 DEF Storeless
  <2>2. DOMAIN sessions' \subseteq DOMAIN sessions
    BY <2>1, <1>1, StorelessStep DEF Kept
  <2> QED
    BY <2>1, <2>2, <1>1, <1>2, <1>3, StorelessQuiet DEF Traced
<1>5. ASSUME P!Refresh(a, call[c].refresh, p)
      PROVE  Quiet \/ Stores(c, origin[a])
  <2> HIDE DEF p, a
  <2>1. P!TypeOK'
    BY <1>1, <1>5, RefreshStep
  <2>2. CASE UNCHANGED sessions
    BY <2>1, <2>2, <1>2, <1>3 DEF Quiet, Kept, Traced
  <2>3. CASE ~UNCHANGED sessions
    <3>1. /\ a \in DOMAIN sessions
          /\ sessions'[p[1]].access = p[1]
          /\ sessions'[p[1]].refresh = p[2]
          /\ sessions'[p[1]].id = sessions[a].id
          /\ DOMAIN sessions' = (DOMAIN sessions \ {a}) \cup {p[1]}
          /\ \A t \in DOMAIN sessions' \ {p[1]} : sessions'[t] = sessions[t]
      BY <1>1, <1>5, <2>3, RefreshStep
    <3>2. sessions[a].id = IdOf[a] /\ a # p[1]
      BY <3>1, <1>2 DEF IInv, SessionsIssued
    <3>3. origin' = With(origin, p[1], origin[a])
      BY <3>1, <1>3 DEF Traced
    <3>4. IdOf[origin[a]] = IdOf[a]
      BY <3>1 DEF IInv, OriginsKnown, OriginsSameId
    <3> QED
      BY <2>1, <3>1, <3>2, <3>3, <3>4, <1>1, <1>3 DEF Stores, p
  <2> QED
    BY <2>2, <2>3
<1> QED
  BY <1>4, <1>5 DEF Refresh

\* Every step begins a call, stores a session, or is quiet.
LEMMA StepKinds ==
    ASSUME IInv, Next
    PROVE  \/ Quiet
           \/ \E c \in Clients, p \in Minted : Begins(c, p)
           \/ \E c \in Clients : \E o : Stores(c, o)
<1> USE DEF IInv
<1>1. CASE Background
  BY <1>1, StorelessQuiet DEF Background, Storeless
<1>2. ASSUME NEW c \in Clients, CreateFails(c)
      PROVE  Quiet
  <2>1. answer' \in Answers
    BY <1>2, Names DEF CreateFails, provider, TypeOK, P!TypeOK
  <2> QED
    BY <2>1, <1>2, StillQuiet DEF CreateFails, Becomes, provider
<1>3. ASSUME NEW c \in Clients, NEW id \in Ids, Destroy(c, id)
      PROVE  Quiet
  BY <1>3, StorelessQuiet DEF Destroy, Direct, Storeless
<1>4. ASSUME NEW c \in Clients, NEW t \in Tokens, DestroyByToken(c, t) \/ Use(c, t)
      PROVE  Quiet
  <2>1. Storeless /\ UNCHANGED <<issued, call, origin>>
    BY <1>4 DEF DestroyByToken, Use, Direct, Storeless
  <2> QED
    BY <2>1, StorelessQuiet
<1>5. ASSUME NEW c \in Clients, NEW t \in Tokens, NEW r \in Tokens, RefreshReject(c, t, r)
      PROVE  Quiet
  <2>1. answer' \in Answers
    BY <1>5, ErrType DEF RefreshReject, Rejection, Errors
  <2> QED
    BY <2>1, <1>5, StillQuiet DEF RefreshReject
<1>6. ASSUME NEW c \in Clients, NEW p \in Minted, NEW kv \in Data, CreateCall(c, p, kv)
      PROVE  Begins(c, p)
  <2>1. call'[c] = [op |-> "create", p |-> p, kv |-> kv, at |-> now]
    BY <1>6 DEF CreateCall, Becomes, TypeOK
  <2>2. call'[c] \in Calls
    BY <2>1, Names DEF Calls, TypeOK, P!TypeOK
  <2> QED
    BY <2>1, <2>2, <1>6 DEF Begins, CreateCall, Becomes, Mint, provider
<1>7. ASSUME NEW c \in Clients, NEW t \in Tokens, NEW r \in Tokens, NEW p \in Minted,
             RefreshCall(c, t, r, p)
      PROVE  Begins(c, p)
  <2>1. call'[c] = [op |-> "refresh", p |-> p, access |-> t, refresh |-> r]
    BY <1>7 DEF RefreshCall, Becomes, TypeOK
  <2>2. call'[c] \in Calls
    BY <2>1 DEF Calls
  <2> QED
    BY <2>1, <2>2, <1>7 DEF Begins, RefreshCall, Becomes, Mint, provider
<1> QED
  BY <1>1, <1>2, <1>3, <1>4, <1>5, <1>6, <1>7, CreateStores, RefreshStores DEF Next

-----------------------------------------------------------------------------
(* The invariant.                                                          *)

LEMMA QuietKeeps ==
    ASSUME IInv, Quiet
    PROVE  IInv'
<1> USE DEF IInv, Quiet
<1>1. \A c \in Clients : call'[c] = call[c] \/ call'[c] = Idle
  BY DEF TypeOK
<1>2. TypeOK'
  <2>1. call' \in [Clients -> Calls]
    BY DEF TypeOK, Calls, Idle
  <2> QED
    BY <2>1 DEF TypeOK
<1>3. SessionsIssued'
  BY DEF SessionsIssued, Kept
<1>4. PendingUnused'
  BY <1>1 DEF PendingUnused
<1>5. OneHeir'
  BY DEF OneHeir, Kept
<1>6. OriginsKnown' /\ OriginsIssued' /\ OriginsSameId'
  BY DEF OriginsKnown, OriginsIssued, OriginsSameId, Kept
<1>7. RefreshSameId'
  BY <1>1 DEF RefreshSameId, Idle
<1> QED
  BY <1>2, <1>3, <1>4, <1>5, <1>6, <1>7

LEMMA BeginsKeeps ==
    ASSUME IInv, NEW c \in Clients, NEW p \in Minted, Begins(c, p)
    PROVE  IInv'
<1> USE DEF IInv, Begins
<1>1. /\ \A d \in Clients \ {c} : call'[d] = call[d]
      /\ call' \in [Clients -> Calls]
  BY DEF TypeOK
<1>2. TypeOK'
  BY <1>1, Names DEF TypeOK, P!TypeOK
<1>3. SessionsIssued'
  BY DEF SessionsIssued
<1>4. p[1] \notin DOMAIN origin
  <2>1. \A q \in issued : q \in Minted /\ q # p
    BY DEF TypeOK
  <2> QED
    BY <2>1, MintedAssumption DEF OriginsIssued
<1>5. PendingUnused'
  BY <1>1, <1>4 DEF PendingUnused
<1>6. OneHeir'
  BY DEF OneHeir
<1>7. OriginsKnown' /\ OriginsIssued' /\ OriginsSameId'
  BY DEF OriginsKnown, OriginsIssued, OriginsSameId
<1>8. RefreshSameId'
  BY <1>1 DEF RefreshSameId
<1> QED
  BY <1>2, <1>3, <1>5, <1>6, <1>7, <1>8

\* The old token gives its place to the new one, so that the root keeps one heir.
LEMMA StoresKeeps ==
    ASSUME IInv, NEW c \in Clients, NEW o, Stores(c, o)
    PROVE  IInv'
<1> DEFINE p == call[c].p
<1>1. /\ p \in issued /\ p \in Minted /\ p[1] \in Tokens
      /\ p[1] \notin DOMAIN origin
      /\ \A d \in Clients \ {c} : call[d] # Idle => call[d].p # p
  BY MintedAssumption DEF IInv, PendingUnused, Stores, TypeOK
<1>2. /\ DOMAIN origin' = DOMAIN origin \cup {p[1]}
      /\ origin'[p[1]] = o
      /\ \A t \in DOMAIN origin : origin'[t] = origin[t]
  BY <1>1 DEF Stores, With
<1>3. \/ o = p[1]
      \/ \E a \in DOMAIN sessions \ DOMAIN sessions' : o = origin[a]
  BY DEF Stores
<1>4. o \in DOMAIN origin' /\ o \in Tokens
  BY <1>1, <1>2, <1>3 DEF IInv, OriginsKnown, TypeOK, IsPartial
<1>5. /\ call'[c] = Idle
      /\ \A d \in Clients \ {c} : call'[d] = call[d]
      /\ call' \in [Clients -> Calls]
  BY DEF IInv, TypeOK, Stores, Calls, Idle
<1>6. UNCHANGED issued
  BY DEF Stores
<1>7. /\ DOMAIN sessions' \subseteq DOMAIN sessions \cup {p[1]}
      /\ \A t \in DOMAIN sessions' \ {p[1]} : sessions'[t] = sessions[t]
      /\ sessions'[p[1]].access = p[1]
      /\ sessions'[p[1]].refresh = p[2]
      /\ sessions'[p[1]].id = IdOf[p[1]]
  BY DEF Stores
<1>8. TypeOK'
  <2>1. IsPartial(origin', Tokens, Tokens)
    BY <1>1, <1>4, PartialStep DEF IInv, TypeOK, Stores
  <2> QED
    BY <2>1, <1>5, <1>6 DEF IInv, TypeOK, Stores
<1>9. SessionsIssued'
  <2>1. p = <<p[1], p[2]>>
    BY <1>1, MintedAssumption
  <2> HIDE DEF p
  <2> QED
    BY <2>1, <1>1, <1>6, <1>7 DEF IInv, SessionsIssued
<1>10. PendingUnused'
  <2> SUFFICES ASSUME NEW d \in Clients, call'[d] # Idle
               PROVE  /\ call'[d].p \in issued'
                      /\ call'[d].p[1] \notin DOMAIN origin'
                      /\ \A e \in Clients \ {d} : call'[e] # Idle => call'[e].p # call'[d].p
    BY DEF PendingUnused
  <2>1. d # c /\ call'[d] = call[d] /\ call[d].p # p
    BY <1>1, <1>5
  <2>2. call[d].p \in issued /\ call[d].p \in Minted /\ call[d].p[1] \notin DOMAIN origin
    BY <2>1 DEF IInv, PendingUnused, TypeOK
  <2>3. call[d].p[1] # p[1]
    BY <1>1, <2>1, <2>2, MintedAssumption
  <2> QED
    BY <1>2, <1>5, <1>6, <2>1, <2>2, <2>3 DEF IInv, PendingUnused
<1>11. OneHeir'
  <2> HIDE DEF p
  <2> SUFFICES ASSUME NEW t \in DOMAIN sessions', NEW u \in DOMAIN sessions',
                      {t, u} \subseteq DOMAIN origin', origin'[t] = origin'[u]
               PROVE  t = u
    BY DEF OneHeir
  <2>1. ASSUME NEW x \in DOMAIN sessions', x # p[1]
        PROVE  x \in DOMAIN sessions /\ x \in DOMAIN origin /\ origin[x] # o
    <3>1. x \in DOMAIN sessions /\ x \in DOMAIN origin
      BY <2>1, <1>7 DEF IInv, OriginsKnown
    <3>2. origin[x] # o
      BY <3>1, <2>1, <1>1, <1>3 DEF IInv, OneHeir, OriginsKnown
    <3> QED
      BY <3>1, <3>2
  <2> QED
    BY <2>1, <1>2 DEF IInv, OneHeir
<1>12. OriginsKnown'
  BY <1>2, <1>4, <1>7 DEF IInv, OriginsKnown
<1>13. OriginsIssued'
  BY <1>1, <1>2, <1>6 DEF IInv, OriginsIssued
<1>14. OriginsSameId'
  BY <1>1, <1>2 DEF IInv, OriginsSameId, Stores
<1>15. RefreshSameId'
  BY <1>5 DEF IInv, RefreshSameId, Idle
<1> QED
  BY <1>8, <1>9, <1>10, <1>11, <1>12, <1>13, <1>14, <1>15 DEF IInv

LEMMA IInvStep == IInv /\ [Next]_vars => IInv'
<1> SUFFICES ASSUME IInv, [Next]_vars PROVE IInv'
  OBVIOUS
<1>1. CASE Next
  BY <1>1, StepKinds, QuietKeeps, BeginsKeeps, StoresKeeps
<1>2. CASE UNCHANGED vars
  BY <1>2 DEF vars, provider, IInv, TypeOK, P!TypeOK, SessionsIssued, PendingUnused, OneHeir,
              OriginsKnown, OriginsIssued, OriginsSameId, RefreshSameId
<1> QED
  BY <1>1, <1>2

LEMMA IInvAlways == Spec => []IInv
BY InitIInv, IInvStep, PTL DEF Spec

-----------------------------------------------------------------------------
(* Theorems.                                                               *)

\* Every variable of Manager keeps its type.
THEOREM TypeCorrect == Spec => []TypeOK
<1>1. IInv => TypeOK
  BY DEF IInv
<1> QED
  BY <1>1, IInvAlways, PTL

\* Every stored session has the tokens of one CreateToken and their id.
THEOREM StoredAsIssued == Spec => []SessionsIssued
<1>1. IInv => SessionsIssued
  BY DEF IInv
<1> QED
  BY <1>1, IInvAlways, PTL

\* No call stores under an access token that is or was in the store.
THEOREM PendingStaysUnused == Spec => []PendingUnused
<1>1. IInv => PendingUnused
  BY DEF IInv
<1> QED
  BY <1>1, IInvAlways, PTL

\* Refreshes that overlap leave a session with one access token.
THEOREM OneHeirOnly == Spec => []OneHeir
<1>1. IInv => OneHeir
  BY DEF IInv
<1> QED
  BY <1>1, IInvAlways, PTL

\* A session that is gone is not stored again under a token of its own.
LEMMA GoneStep ==
    ASSUME IInv, [Next]_vars, NEW r \in Range(origin), ~Alive(r, sessions, origin)
    PROVE  ~Alive(r, sessions', origin')
<1>1. r \in DOMAIN origin
  BY DEF IInv, OriginsKnown, Range
<1>2. CASE Quiet
  BY <1>2 DEF Quiet, Kept, Alive
<1>3. ASSUME NEW c \in Clients, NEW p \in Minted, Begins(c, p)
      PROVE  ~Alive(r, sessions', origin')
  BY <1>3 DEF Begins, Alive
<1>4. ASSUME NEW c \in Clients, NEW o, Stores(c, o)
      PROVE  ~Alive(r, sessions', origin')
  <2> DEFINE n == call[c].p[1]
  <2>1. /\ n \notin DOMAIN origin
        /\ origin' = With(origin, n, o)
        /\ DOMAIN sessions' \subseteq DOMAIN sessions \cup {n}
        /\ o = n \/ \E a \in DOMAIN sessions : o = origin[a]
    BY <1>4 DEF Stores, IInv, PendingUnused
  <2>2. o # r
    BY <2>1, <1>1 DEF Alive, IInv, OriginsKnown
  <2> HIDE DEF n
  <2> QED
    BY <2>1, <2>2 DEF Alive, With
<1>5. CASE UNCHANGED vars
  BY <1>5 DEF vars, provider
<1> QED
  BY <1>2, <1>3, <1>4, <1>5, StepKinds

\* A session that was destroyed, evicted or purged does not come back, although
\* a Refresh of it may be under way.
THEOREM GoneForGood == Spec => DestroyedStayGone
<1>1. IInv /\ [Next]_vars =>
        [\A o \in Range(origin) :
            ~Alive(o, sessions, origin) => ~Alive(o, sessions', origin')]_vars
  BY GoneStep
<1> QED
  BY <1>1, IInvAlways, PTL DEF Spec, DestroyedStayGone

\* An access token that was replaced, or whose session ended, is never good again.
THEOREM TokensRetireForGood == Spec => TokensRetire
<1>1. ASSUME IInv, [Next]_vars
      PROVE  \A t \in DOMAIN origin \ DOMAIN sessions : t \notin DOMAIN sessions'
  <2>1. CASE Quiet
    BY <2>1 DEF Quiet, Kept
  <2>2. ASSUME NEW c \in Clients, NEW p \in Minted, Begins(c, p)
        PROVE  DOMAIN sessions' = DOMAIN sessions
    BY <2>2 DEF Begins
  <2>3. ASSUME NEW c \in Clients, NEW o, Stores(c, o)
        PROVE  \A t \in DOMAIN origin \ DOMAIN sessions : t \notin DOMAIN sessions'
    BY <2>3, <1>1 DEF Stores, IInv, PendingUnused
  <2>4. CASE UNCHANGED vars
    BY <2>4 DEF vars, provider
  <2> QED
    BY <1>1, <2>1, <2>2, <2>3, <2>4, StepKinds
<1>2. IInv /\ [Next]_vars =>
        [\A t \in DOMAIN origin \ DOMAIN sessions : t \notin DOMAIN sessions']_vars
  BY <1>1
<1> QED
  BY <1>2, IInvAlways, PTL DEF Spec, TokensRetire

-----------------------------------------------------------------------------
(* The strings of the tokens.                                              *)

\* Two users have two encoded ids.
LEMMA EidInjective == \A u, v : eid(u) = eid(v) => u = v
BY DEF eid, EncodeSegment

\* The string of a token is a sequence of its pieces.
LEMMA TextIsString ==
    ASSUME NEW t \in Tokens
    PROVE  Text[t] \in Seq(Range(Text[t]))
<1> DEFINE s == Text[t]
           n == Len(Text[t])
<1>1. n \in Nat /\ s = [i \in 1..n |-> s[i]]
  BY TextAssumption
<1> HIDE DEF s, n
<1>2. s \in [1..n -> Range(s)]
  BY <1>1 DEF Range
<1>3. s \in Seq(Range(s))
  BY <1>1, <1>2, SeqDef
<1> QED
  BY <1>3 DEF s

\* A string that is accepted is accepted in any other spelling of its signature.
LEMMA RespelledAccepted ==
    ASSUME NEW S, NEW s \in Seq(S), NEW T, NEW t \in Seq(T), Accepted(t), Respelled(s, t)
    PROVE  Accepted(s)
<1> DEFINE n == Len(t)
<1>1. n \in Nat /\ n >= 3 /\ Len(s) = n
  BY LenProperties DEF Accepted, Split, Invalid, Respelled
<1> HIDE DEF n
<1>2. SubSeq(s, n, n) = <<s[n]>> /\ SubSeq(t, n, n) = <<t[n]>>
  BY <1>1, OnePiece DEF n
<1>3. /\ Split(s).ok /\ Split(s).signature = <<s[n]>>
      /\ Split(t).signature = <<t[n]>>
  BY <1>1, <1>2 DEF Split, n
<1>4. t[n].bytes = Mac(SubSeq(t, 1, n - 1))
  BY <1>3 DEF Accepted, Verify, n
<1>5. Verify(SubSeq(s, 1, n - 1), <<s[n]>>)
  BY <1>4 DEF Respelled, Verify, IsSegment, n
<1> QED
  BY <1>1, <1>3, <1>5 DEF Accepted

\* Get and Refresh of the manager let through exactly the strings that CreateToken
\* made, in any spelling of the signature: what Verifies says of tokens is what
\* Split and Verify of the signing method say of their strings.  Nobody else has
\* the key; what is to prove is that a spelling never makes them refuse a token.
THEOREM AcceptedIsSigned ==
    \A t \in Tokens : Accepted(Text[t]) <=> Canonical[t] \in Signed
<1> SUFFICES ASSUME NEW t \in Tokens, Canonical[t] \in Signed PROVE Accepted(Text[t])
  BY SignedAssumption
<1>1. Canonical[t] \in Tokens
  BY ManagerAssumption
<1>2. PICK b \in Uuids : Text[Canonical[t]] = createToken(eid(Owner[Canonical[t]]), b)
  BY TextAssumption
<1>3. Accepted(Text[Canonical[t]])
  BY <1>2, TokenTellsItsUser
<1>4. CASE Canonical[t] = t
  BY <1>3, <1>4
<1>5. CASE Respelled(Text[t], Text[Canonical[t]])
  BY <1>1, <1>3, <1>5, TextIsString, RespelledAccepted
<1> QED
  BY <1>4, <1>5, SignedAssumption

\* What CreateToken made in the name of a user carries the id of that user.
LEMMA OwnersId ==
    ASSUME NEW t \in Signed
    PROVE  IdOf[t] = eid(Owner[t]) /\ Owner[t] \in Users
<1>1. t \in Tokens
  BY MintedAssumption DEF Signed
<1>2. PICK b \in Uuids : Text[t] = createToken(eid(Owner[t]), b)
  BY TextAssumption
<1>3. Split(Text[t]).ok /\ Split(Text[t]).id = eid(Owner[t])
  BY <1>2, TokenTellsItsUser
<1> QED
  BY <1>1, <1>3, TextAssumption

\* A stored session has the id of the user for whom it was created.
LEMMA SessionsId ==
    ASSUME IInv, NEW t \in DOMAIN sessions
    PROVE  sessions[t].id = eid(Owner[origin[t]])
<1>1. t \in DOMAIN origin /\ origin[t] \in DOMAIN origin
  BY DEF IInv, OriginsKnown
<1>2. origin[t] \in Signed
  BY <1>1 DEF IInv, TypeOK, OriginsIssued, Signed
<1>3. sessions[t].id = IdOf[t] /\ IdOf[t] = IdOf[origin[t]]
  BY <1>1 DEF IInv, SessionsIssued, OriginsSameId
<1> QED
  BY <1>2, <1>3, OwnersId

\* The provider's Destroy takes the sessions with the id, and no others.
LEMMA DestroyTakes ==
    ASSUME NEW id, P!Destroy(id)
    PROVE  DOMAIN sessions' = {t \in DOMAIN sessions : sessions[t].id # id}
BY DEF P!Destroy, P!RestrictDomain, P!Restrict

\* Destroy by the id of a user takes the sessions created for this user, and no
\* others, whatever strings the ids are and however often a session was refreshed.
THEOREM DestroyReachesItsUser == Spec => DestroyReachesOwn
<1>1. ASSUME IInv, NEW u \in Users, NEW c \in Clients, Destroy(c, eid(u)), answer'.e = "nil"
      PROVE  DOMAIN sessions' = {t \in DOMAIN sessions : Owner[origin[t]] # u}
  <2>1. ~P!Refuse
    BY <1>1, Names DEF P!Refuse, P!Answered, Err
  <2>2. DOMAIN sessions' = {t \in DOMAIN sessions : sessions[t].id # eid(u)}
    BY <1>1, <2>1, DestroyTakes DEF Destroy
  <2>3. \A t \in DOMAIN sessions : sessions[t].id = eid(u) <=> Owner[origin[t]] = u
    BY <1>1, SessionsId, EidInjective
  <2> QED
    BY <2>2, <2>3
<1>2. IInv /\ [Next]_vars =>
        [\A u \in Users :
            (\E c \in Clients : Destroy(c, eid(u))) /\ answer'.e = "nil" =>
                DOMAIN sessions' = {t \in DOMAIN sessions : Owner[origin[t]] # u}]_vars
  BY <1>1
<1> QED
  BY <1>2, IInvAlways, PTL DEF Spec, DestroyReachesOwn
=============================================================================
