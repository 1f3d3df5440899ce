# A verification project for sessionid

`sessionid` issues signed token pairs for users, keeps a session (key-value
data with two deadlines) behind each access token, and stores the sessions in a
pluggable provider: memory, a bolt file, or redis. This directory holds TLA+
models of it, TLC configurations that check them, and TLAPS proofs.

## 1. The system

| Component | Source | State | Operations |
|---|---|---|---|
| Token strings | `token.go`, `cryptoer/` | a registry of methods, written by `init` | CreateToken, Join, Split, Sign, Verify, Encode, Decode |
| Manager | `manager.go`, `token.go` | none of its own | Create, Destroy, DestroyByToken, Get, Refresh |
| Session handle | `session.go` | token, cache `keys` (bytes and decoded values) | Put, Prepare, Get, Keys, Delete, Check, Destroy |
| Provider interface | `provider.go:18-43` | - | Create, Destroy, DestroyByToken, Check, Put, Get, Keys, Delete, Refresh, Close |
| Memory provider | `provider.go`, `provider_option.go` | `tokens`, `ids`, `lru`, `ch`, `closed`, `done`, a mutex, two goroutines | the interface, `check`, `clear` |
| Bolt provider | `provider/bolt/` | four buckets and a count in a file, `ch`, `closed`, `done`, a mutex, two goroutines | the interface, `Clear`, `check`, `clear`, reopen |
| Redis provider | `provider/redis/` | one hash per session on a shared server, `ch`, a context, `done` | the interface, a deleting goroutine |
| Coders | `coder.go` | none | Encode, Decode (gob, JSON, XML) |

How they interact: a caller asks the manager for a session. The manager mints a
pair of signed tokens and calls the provider with them; it verifies the
signature of the tokens it is handed before it refreshes or opens a session. A
session handle calls the provider with its token and caches what it learns.
Providers are called by any number of goroutines at once; the memory and bolt
providers guard their indexes with one mutex, redis has no lock and relies on the
server's transactions. Readers that find a dead session pass its token over a
channel to a goroutine that purges it; in memory and bolt a timer drives a sweep,
in redis the server drops keys when their time is over. `Close` ends the
goroutines through the channel `closed` or the context, and later calls are
refused through the flag `done`.

What is hard, and what makes each part correct:

* **Token strings.** A user's id may be any string, one with separators included,
  and the provider files a session under the id it finds in the token. It is
  correct if that is the id `Destroy` uses, for every user and no other.
* **Memory provider.** Three indexes of one set of sessions are updated by ten
  code paths; `Destroy` does not survive an entry that one index has and another
  has lost. Deadlines are stamped outside the mutex. The purge acts on what a
  reader saw earlier. `Close` races with calls, senders and goroutines. It is
  correct if the indexes agree, each call takes effect at one instant as the
  interface says, background work spares live sessions, and everybody gets out
  at `Close`.
* **Manager.** A Create or Refresh is a mint followed by a provider call, and
  others run in between. It is correct if overlapping calls never fork a
  session, revive a destroyed one, or store a session under tokens that were
  not minted together.
* **Session handle.** A cache without invalidation, which shares decoded values
  with its callers. It is correct if it holds only what the session once showed,
  changes only at a Put, and Get returns what the cached bytes decode to.
* **Bolt provider.** Four buckets and a count describe one set of sessions in a
  file that outlives the process: whatever leaves them apart is there for good.
  It is correct if every transaction leaves them together, over crashes, reopens
  and `Clear`, if calls keep the promises of the interface, and if they return.
* **Redis provider.** Read, then write in another transaction, against a server
  that several programs share, drops keys by itself and may lose a reply after it
  did the work. It is correct if each hash stands under the token its metadata
  names and has a time to live, the purge spares live sessions, and a call that
  nobody disturbs takes effect as the interface says.

## 2. The modules

```
Token      the strings of tokens           TokenProof    its theorems
Sessions   vocabulary: tokens, sessions,   SessionsProof lemmas on it
           deadlines, data, errors
  Provider   what the interface promises (abstract)
  Memory     MemoryProvider              -- implements Provider
    MemoryProof       safety, with the inductive invariant
    MemoryRefinement  Memory implements Provider
    MCMemory          instances for TLC
  Bolt       the bolt provider           -- implements Provider between openings
    BoltProof, MCBolt
  Redis      the redis provider          -- implements Provider where undisturbed
    RedisProof, MCRedis
  Manager    LocalManager over INSTANCE Provider
    ManagerTokens                           and over the strings of Token
    ManagerProof, MCManager
  Session    one handle over INSTANCE Provider
    SessionProof, MCSession
```

**Token.** What counts in a token string is where its separators are, so a string
is the sequence of the pieces between them, and joining is concatenation. base64
gives one piece; decoding is not strict, so one and the same byte string has
several spellings. The HMAC is taken to be injective. `eid`, `createToken`,
`Split` and `Accepted` are what the manager and the providers do with strings;
`Encode` and `Decode` are the helpers of package `cryptoer`, a second form of
tokens. The other modules take tokens as opaque. `ManagerTokens` puts Manager on
strings: `TextAssumption` says that the tokens are made by `createToken` for their
`Owner` and that `IdOf` is what `Split` finds in them, `SignedAssumption` that only
the manager has the key. `MCManager` builds such tokens, and the theorem
`AcceptedIsSigned` says that Manager accepts the tokens that `Verify` accepts, whatever
the spelling of their signature.

**Sessions.** A token is opaque; `IdOf` gives the id that `Split` finds in it,
`NoId` where `Split` fails. `Minted` is the supply of pairs for `CreateToken`.
`tokenValue`'s methods are operators on records. Time is a counter; a deadline
is passed when it is not after the clock, as in `IsExpired` and `IsDeleted`.
`TTLAssumption` (access at most refresh) is what the option setters keep up.
Byte slices are values: `SetCopy` and `CopyKeys` copy, so nothing is shared.

**Provider.** A map from access tokens to sessions. Every operation is one step.
`Create` on a full store drops exactly one other session, any one. A session past
its refresh deadline may vanish whenever (`Purge`, `NotExists`). `CreateLate` is
the silent success of a Create whose session is dead on arrival.

**Memory.** `mem` holds the three indexes and the values of the list elements;
`call` what each client is in the middle of; `lock` who is inside the mutex.

| Code | In the model |
|---|---|
| a call that is over in one critical section | one action (`DestroyByToken`, `Read`, `Update`, `Refresh`, ...) |
| `Create` | `CreateCall` (stamp the deadlines), then `Create`, or `CreateLate`, or `Refuse` |
| `Destroy` | `Destroy` (take the list of the id), `DestroyNext` per token, `DestroyDone` (unlock) |
| readers that meet a dead session | `ReadMissing`, then `SendQueue`, `SendHandoff` or `SendClosed` |
| `Close` | `Close` (signal), `CloseDone` (empty the store, raise `done`, unlock) |
| `check`, `read`, `tryRead`, `unsafeCheck` | `CheckRead`, `CheckMerged`, `CheckClosed`, `CheckLock`, `CheckToken`, `CheckDone` |
| `clear`, `unsafeClear` | `ClearTick`, `ClearFront`, `ClearDone`, `ClearClosed` |

Readers never overlap a writer and do not write, so a read section is one step.
Sections with loops keep the mutex over several steps because the clock and the
channel move meanwhile. A section reads the clock once: where the code reads it
twice (`IsDeleted`, then `IsExpired`) it sees two instants of the same section,
and as access deadlines are not later than refresh deadlines, the pair of answers
is one that some single instant gives. `Refresh` is given an access token that is
not in the store (or the one it replaces, which the provider's test does); the
manager guarantees that, see `PendingUnused`.

**Bolt.** `db` holds the buckets `metadata`, `data`, `ids` and `lru`, the sequence
of `lru` and the count; it is the part a crash leaves. The helpers of the code
(`delete`, `destoryToken`, `unsafeDestroy`, `unsafePop`, ...) are operators from
buckets to buckets. Every operation is one transaction, made whole under the
mutex, so it is one step and reads the clock once; `doClear` stops at the first
live entry, so doing it at its last instant changes nothing. `CreateCall` stamps
the deadlines before the mutex; `ReadMissing`, `Send` and `SendClosed` report a
dead token after it. `doCheck` removes nothing, as in the code, whose test of the
error is inverted (`provider.go:243`). `leaked` is the mutex that the exported
`Clear` keeps when it finds the provider closed (`ClearRefused`); who asks for it
then stays in `Block`. `Close` closes the channel and the file and raises `done`
in one critical section. `Reopen` is the end of the process at any moment,
followed by `New` on the same file, with `ReopenSize` for `maxSize`. A transaction
fails when `delete` finds no data bucket for a token with metadata;
`BucketsAgree` excludes that, so no action models the rollback. External and
assumed: the engine commits a transaction whole or not at all, I/O succeeds, and
deleting an absent key is no error. Restrictions: `opts.db` is nil, so nobody
reaches the file after `Close`, and `Batch >= 1` (Memory has the unbuffered
channel).

**Redis.** `store` is the server: for each key a hash (the metadata under the
reserved field, and the data) and the time it lives to.

| Code | In the model |
|---|---|
| Check, Get, Keys, Delete, DestroyByToken: one command | one action (`Read`, `ReadMissing`, `KeysOf`, `Delete`, `DestroyByToken`) |
| Create | `CreateCall` (the deadlines run), then `Create`: HSET, EXPIREAT, EXPIRE, or `CreateLate` |
| Put | `PutCall` (HGET), then `Put`: HSET of what was read, EXPIREAT |
| Refresh | `RefreshCall`, or a return after HGET, then `Refresh`: HSET, EXPIREAT, RENAME |
| Destroy | `DestroyCall` (KEYS), then `Destroy`: DEL |
| the library resends a transaction whose reply was lost | `Reply` leaves the call in progress |
| the library gives up | `Fail` |
| `pushDelete`, `delete`, `doDelete` | `Send`, and the actions of `deleter`; the batch is deleted without another look |
| the server drops keys in time | `Tick` |

Between any two requests other clients, the clock, the goroutine and `Close` run.
The server's commands are external (`HSet`, `ExpireAt`, `Expire`, `Rename`,
`HDel`, `Del`), with what matters of each: EXPIREAT of a time that has come drops
the key at once; EXPIRE and EXPIREAT take whole seconds (`Second` clock units);
HDEL of the last field drops the key; RENAME replaces. Callers use the tokens a
manager gave them: an access token goes into one Create or Refresh and is
presented only when that call is over, and a refresh token is never presented as
an access token. There is one clock, and a reply is checked at the time the
command ran. One provider process is modelled, with other programs on the same
server as further clients; their purges would be more of the same. Not modelled:
`Batch <= 0` (an unbuffered channel), the gap between Close's cancel and the
closing of the client (one step), and the refusal of the reserved key by Put and
Get (`checkKey`). `origin` and `revived` are history variables: with which token
a session began, and which tokens were stored again after they were gone.

**Manager.** `issued` is what was minted so far: a mint is always new, and
`Verifies` accepts what was minted. A token may also be presented in another
spelling of its signature, which `Verify` accepts and no provider knows:
`Canonical` leads it back to the token that was minted. `Rejection` stands for
every way a token fails before the provider is called. `call` holds the Create or
Refresh in progress. `origin` is a history variable: for every access token that
was ever stored, the token its session began with. `Use` stands for the calls on
session handles that Get opened.

**Session.** One handle; everybody else is `Elsewhere`, a step of Provider.
Handles share nothing but the provider and serve one goroutine, so one handle and
an arbitrary environment is the general case, and the bookkeeping after a
provider call can be one step with it. `keys` is the cache; decoded values live
in `heap` at addresses that cache entries and the caller's variables (`pointer`)
may share. `Reused` names the slice types whose variable the caller passes again
and again. `held` is a history variable: what the stored session has shown.
A failed decode is taken to leave its target alone.

## 3. The runs

| Run | Instance | What it shows |
|---|---|---|
| `memory_safety` | 2 clients, 3 sessions of 2 users, room for 2, batch 1, time 0..2 | `IndexesAgree`, `DestroyFindsElements`, `WithinMaxSize`, `BackgroundSparesLive`, `ClosedForGood`, `NobodyStuck` |
| `memory_refines` | 1 client, one key, access 1 and refresh 2, batch 2, time 0..3 | `ImplementsProvider`: every step is a step of Provider, or invisible |
| `memory_calls` | 2 clients, unbuffered channel, no timer | `CallsReturn`, `ReportedPurged` (liveness) |
| `memory_dead_swept` | 2 clients, unbuffered channel, timer on | `DeadSwept`, `GoroutinesEnd` (liveness) |
| `manager_safety` | 2 clients, 3 pairs of user `x`, 1 of user `x.y`, a token in another spelling, a forged and a malformed one, room for 2, access 1 and refresh 2, time 0..2 | `SessionsIssued`, `PendingUnused`, `OneHeir`, `DestroyedStayGone`, `TokensRetire`, `DestroyReachesOwn` |
| `session_cache` | 2 keys, 2 values, a reused slice type and another kind | `CacheFromProvider`, `GetReturnsStored`, `StableReads` |
| `bolt_safety` | 2 clients, 3 pairs of 2 users, room for 2, three stores, access 1 and refresh 2, time 0..3, batch 2, one reopen | `BucketsAgree`, `WithinMaxSize`, `ImplementsProvider` |
| `redis_safety` | 2 clients, 2 pairs of one user, a token of another, access 1 and refresh 2 units, 2 units to a second, time 0..2, batch 2 | `KeyNamesSession`, `KeptUntilDeadline`, `PurgeSparesLive`, `ImplementsUndisturbed` |
| `session_alias` | 2 keys, 2 values, a reused slice type | violates `GetReturnsStoredAnyway` |
| `bolt_max_size` | 1 client, room for 2, then for 1 | violates `CreateKeepsWithin` |
| `bolt_clear_lock` | 1 client, fairness | violates `CallsReturn` |
| `redis_fork` | 2 clients, 3 pairs of one user | violates `OneHeir` |

Each passing run also checks the type invariant of its module, where the run is
about safety.

Bounds. The clock stops at `MaxTime`; a Create or Refresh in Memory happens only
while its deadlines lie within it. That leaves room for a session to be created,
to die, and for another to be created while it is dead or after. Three sessions
of two users in room for two give eviction within a user and across users; two
sessions of one user give `Destroy` a list to walk. Two clients are enough for
every pairwise race, and the goroutines run beside them. In Manager three pairs
of one user are a Create and two competing Refreshes. Addresses are more than
cache entries and variables can hold at once. `memory_refines` has one client
because the mutex makes the sections of several clients atomic (`memory_safety`
runs two, and the theorem has any number); the goroutines and the calls of the
client still interleave. In Redis two pairs are a session and the one it is
refreshed to, which is all one Refresh and a resent transaction need; `redis_fork`
has the third, for the competing Refresh. A second of two units is longer than the
access deadline and as long as the refresh deadline, so that truncation matters in
every EXPIREAT.

`SYMMETRY` permutes clients, element or storage addresses, keys, and token pairs
of one user; the specifications treat them alike, and no liveness property is
checked under it. In `MCManager` the token in another spelling belongs to the user
with one pair, so the pairs of the other stay interchangeable. `VIEW Unanswered`
leaves out the variable `answer` (in Session also `result`), which no step reads;
the invariants checked under the view do not read it beyond its type, and action
properties are evaluated on every step.

`MCBolt!Observed` also leaves out which tokens wait for the purge (it removes
nothing, so they change no other step) and, once the provider is closed, what its
goroutines do (they reach nothing that others see). `MCRedis!Observed` forgets the
server once the provider is closed, for nobody writes to it any more. `MaxSeq`
bounds how many sessions a bolt file ever gets: three fill room for two and evict
once. `NewData` is the data Create (in Redis also Put) is given; in Bolt Put and
Delete make the other data.

Deadlock is checked in every run but those of Bolt's safety and lock and those of
Redis. In Bolt every client may come to wait for the mutex that `Clear` leaked,
and nothing else is left to happen. In Redis a closed provider with spent tokens
may really have nothing left to do.

Fairness (`Memory!Fairness`, `Bolt!Fairness`). Goroutines are scheduled and the
clock runs: weak fairness of `Tick`. `sync.RWMutex` does not starve a waiter, and
a channel serves its waiting senders in order, so a step that waits for either is
taken if it can be taken again and again: strong fairness of `check`, of `clear`
and of each call in progress. A client is never obliged to begin a call.

## 4. What the violations show

* `session_alias` - `Get(k1, &x)`, `Get(k2, &x)`, `Get(k1, &x)`: the third call
  returns the value of `k2`. The second Get decodes into storage that `x` shares
  with the cached value of `k1`. `session_test.go:47-53` expects a write to the
  result of a Get not to show in the next one; it writes the value that is there
  already, and so does not notice.
* `bolt_max_size` - a file with two sessions, opened again with `WithMaxSize(1)`:
  the next Create drops one and adds one, and two stay (`provider.go:311-317`
  against `option.go:97`).
* `bolt_clear_lock` - `Close`, then `Clear`: `Clear` returns `ErrProviderClosed`
  with the mutex locked (`provider.go:882-884`), and the next `Check`, which
  should return the same error (`provider_test.go:182-183`), never returns.
* `redis_fork` - two Refreshes with the same tokens read the same metadata; the
  first moves the session, the HSET of the second makes the old key anew and
  moves it to its own token. Both succeed, and the session goes on under two
  access tokens, one of them without its data. `manager_test.go:23-26` expects
  the second to get `ErrTokenNotExists`; over Memory, `manager_safety` and the
  theorem `OneHeirOnly` show that it does.

## 5. The proofs

All theorems hold for every set of clients, tokens, ids, keys and values, every
limit, batch, deadline and clock, under the named assumptions on constants
(`TokenAssumption`, `MintedAssumption`, `TTLAssumption`, and `MemoryAssumption`,
`BoltAssumption`, `ManagerAssumption`, `RedisAssumption` and `NoMetadataAssumption`,
or `SessionAssumption`; `TextAssumption` and `SignedAssumption` where strings come
in), which TLC evaluates in the runs.

| Module | Theorem | Property |
|---|---|---|
| `MemoryProof` | `TypeCorrect` | `TypeOK` |
| | `IndexesStayInStep` | `IndexesAgree` |
| | `DestroyIsSafe` | `DestroyFindsElements` |
| | `SizeIsBounded` | `WithinMaxSize` |
| | `ClosedStaysClosed` | `ClosedForGood` |
| | `BackgroundIsSafe` | `BackgroundSparesLive` |
| | `NobodyIsStuck` | `NobodyStuck` |
| `MemoryRefinement` | `MemoryImplementsProvider` | `ImplementsProvider` |
| `BoltProof` | `TypeCorrect` | `TypeOK` |
| | `BucketsStayInStep` | `BucketsAgree` |
| | `LimitKept` | `WithinMaxSize` |
| | `BoltImplementsProvider` | `ImplementsProvider`, if `MaxSize = ReopenSize` |
| `ManagerProof` | `TypeCorrect` | `TypeOK` |
| | `StoredAsIssued` | `SessionsIssued` |
| | `PendingStaysUnused` | `PendingUnused` |
| | `OneHeirOnly` | `OneHeir` |
| | `GoneForGood` | `DestroyedStayGone` |
| | `TokensRetireForGood` | `TokensRetire` |
| | `AcceptedIsSigned` | Manager accepts what `Verify` accepts (that it accepts no more is `SignedAssumption`) |
| | `DestroyReachesItsUser` | `DestroyReachesOwn` |
| `RedisProof` | `TypeCorrect` | `TypeOK` |
| | `KeysNameSessions` | `KeyNamesSession` |
| | `HashesAreKept` | `KeptUntilDeadline` |
| | `PurgeIsSafe` | `PurgeSparesLive` |
| | `RedisImplementsUndisturbed` | `ImplementsUndisturbed` |
| `SessionProof` | `TypeCorrect` | `TypeOK` |
| | `CacheTellsTheStore` | `CacheFromProvider` |
| | `ReadsAreStable` | `StableReads` |
| | `GetTellsTheCache` | `GetReturnsStored` |
| `TokenProof` | `TokenTellsItsUser` | the id in a token is the one `Destroy` uses |
| | `DecodeUndoesEncode` | `Decode` gives back what `Encode` was given |

**Memory.** None of the properties is inductive alone. `DestroyNext` finds its
element only because the indexes agreed when `Destroy` took the list away and
nobody touched them since; the indexes agree during a `Destroy` only if the tokens
it has still to remove are left out of account. The inductive invariant `IInv` is
therefore: the types; who holds the mutex is inside a section and nobody else is
(`Mutex`); a session that waits to be stored carries the id of its token
(`CreatesExact`); nothing is stored and nobody is inside once `done` is set
(`DoneEmpty`); the goroutines work until Close (`WorkUntilClose`); the indexes
agree up to the doomed tokens (`Sound(mem, Doomed)`); and the two properties on
Destroy and the limit. The lemmas go bottom-up: what
splicing, appending and dropping the head do to a sequence without repetitions;
what `Unlist` does to the lists of ids; that taking a session out (`TakeOut`),
pushing one (`PushSound`) and replacing a value (`SetSound`) keep a store sound,
from which every helper of the code follows; then one lemma per part of the
invariant and kind of step, and `IInvStep`.

**Memory implements Provider.** The mapping takes Provider's sessions to be those
`tokens` leads to, without the ones a Destroy in progress has still to remove
(`abs`): a Destroy takes effect when it takes the list of the id. While no client
stays in the mutex this is the whole store (`FreeNow`, `FreeNext`). What each
helper does to it is one lemma (`ViewOut` and those after it), each action of
Provider is said of `abs` once (`Rejects`, ..., `Creates`), and then every action
of Memory is one of them or invisible. Beyond `IInv` this needs that a waiting
Create carries a session made by `newTokenValue` some time ago (`CreatesMade`),
and that the list is as long as the set of sessions (`SessionCount`), so that
Memory evicts when Provider does.

**Bolt.** A transaction may drop many sessions: `unsafeDestroy` those of a list,
`unsafePop` and `swept` those of a run of lru entries, each by `FoldSet`. The
library unfolds a fold at an element CHOOSE picks, so the proof begins with the
induction that goes with it: what holds of {} and passes from `s \ {Pick(s)}` to
`s` holds of every finite set (`PickInduction`, from the well-foundedness of the
strict subsets; `PickRecursion` for the fold itself). `IInv` is the types, the
origin of the session a Create carries (`CreatesOK`), the limit (`Within`), and
`Good(db)`, which is `BucketsAgree` with types; one lemma per helper says that
`Good` stays and which sessions are gone (`DropOK`, `StoreOK`, `UnsafeDestroyOK`,
`UnsafePopOK`, `SweptOK`). `unsafePop` drops exactly one session only because
no entry of lru points to a missing one. The loop over the list of an id runs
after the list was taken out, on buckets that do not agree: `Cut` says exactly
what they are when some of the tokens are gone, and they agree again at the end.
`BoltImplementsProvider` puts the same lemmas
together as Memory's does; it supposes one limit for all openings, because
`Provider` has one, and leaves `Clear` and `Reopen` out, as the run does.

**Manager.** `OneHeir` rests on the freshness of the tokens in progress, which
rests on the history: `IInv` adds to the checked invariants that whatever is
stored was traced (`OriginsKnown`), that whatever was stored was issued
(`OriginsIssued`), that a Refresh in progress carries new tokens of the id of
the old ones (`RefreshSameId`), and that a session has the id it began with
(`OriginsSameId`). The provider enters through `Kept`: whatever it
does, it drops sessions and changes the data of others, but for the call that
stores. `DestroyReachesItsUser` joins this with `TokenTellsItsUser`: a session has
the id in the token it began with, that id is what `eid` made of the user it was
created for, and `eid` takes no two users to one id (`EidInjective`).

**Redis.** `IInv` is: the types; the hashes stand under their token, with a time
to live in step with their deadline (`StoreOK`); a call about to store has its new
token for itself (`PendingOK`); a Put in progress writes back the metadata that is
stored, if anything is, and that any other Put of the token writes (`PutsOK`);
what waits for the purge is dead or was stored again by an earlier call
(`ReportedOK`); what a call looked at before its last request (`LookedOK`): the
session of a Put had not expired, the tokens of a Refresh have one id, the keys of
a Destroy are of its id. A transaction that is sent twice is the same step twice.

**Redis implements Provider where undisturbed.** The mapping takes Provider's
sessions to be the hashes with metadata (`abs`), and its answers to be those without the
reserved key (`clean`). A transaction that `Undisturbed` admits writes to the hash
it read (`Overwritten`, `WrittenShown`), so that with `LookedOK` it is Provider's
Create, Put, Refresh or Destroy at the moment the server runs it. `ReportedOK` makes a batch
of the delete goroutine Provider's Purge, `StoreOK` the server's expiry a purge of what
has less than a second left (`Lapse`). That Refresh of a dead session answers without
error is Provider's Create that comes too late.

**Session.** `IInv` is the types, the origin of what is cached
(`CacheFromProvider`), and `LocalOK`: storage that holds a value decoded for a
variable of the caller's own is shared by no variable that is passed again and by
no other cache entry. `GetReturnsStored` follows from the last.

Only model-checked: liveness, that is `CallsReturn`, `ReportedPurged`, `DeadSwept` and
`GoroutinesEnd` (fairness and ENABLED are out of the prover's reach). `NobodyStuck`
is what the first and the last need of safety: there is no state in which everybody
waits for somebody else.

## 6. Not modelled

* The registry of signing methods (written by `init`, read under a lock
  afterwards), keys of a wrong type, and hashes that are not linked in.
* `SessionID` of package `cryptoer` and `newSessionID`: random bytes, taken to be
  new each time.
* The formats of the coders, of gob metadata, base64 and the HMAC: external code,
  modelled by what the callers rely on.
* Options: constants here; the setters are configuration without behaviour.
* Contexts of single calls: the memory provider ignores them, bolt looks at none,
  and in redis a cancelled call is one that fails (`Fail`).
* Two goroutines on one session handle: the handle is documented nowhere as safe
  for that, and a data race on its map is a crash of the program.

## 7. Plan

1. Bolt, what is left: its liveness (`DeadSwept` with the timer, the goroutines
   end at Close when no Clear follows), and a file shared through `WithDB`.
2. A composition of Manager with Memory in place of Provider. The two theorems
   already meet: Memory implements Provider, and Manager's safety is proved over
   any step of Provider; what the composition adds is that Manager's tokens
   satisfy the guard of Memory's Refresh, which `PendingUnused` says.
