# Formal models of fwends

fwends stores *packs*: a title and, for each (role, string) pair, an image
and/or an audio clip. A Go backend keeps packs in Postgres, media in an S3
bucket and sessions in Redis; a React frontend talks to it through nginx. This
directory holds TLA+ models of the backend and of the part of the frontend that
keeps state, the TLC configurations that check them, and proofs of their main
properties. Paths below are relative to the repository; `packs.go` is
`fwends-backend/api/packs.go`, `auth.js` is `fwends-frontend/src/api/auth.js`.

    tlc -config resources_faults.cfg MCPackResources     # check a run
    tlapm PackResources_proofs.tla                        # check the proofs

## The system

| Component | State | Operations | Talks to |
|---|---|---|---|
| Pack API (`packs.go`) | tables `packs`, `pack_resources` | create, retitle, get, list, delete pack / role / string, upload into a slot | Postgres, S3, id generator |
| Media upload and pruning (`packs.go:317-417`, `756-804`) | tables `resources`, `pruned_resources`, the bucket, goroutines in memory | INSERT, PutObject, transaction; move row, DeleteObject, delete row | Postgres, S3 |
| Id generator (`util/snowflake.go`, `util/podindex.go`) | an atomic counter, the pod index | `GenID` | clock, host name |
| Health API (`api/health.go`) | four goroutines, three channels, a context | `GET /api/health` | Postgres, Redis, S3 |
| Auth API (`api/auth.go`) | sessions in Redis, table `admins` | config, verify, authenticate | Redis, Postgres, Google |
| Handler wrappers (`handler/`) | captured status of one response | wrap, write, default response | every handler |
| Browser auth client (`fwends-frontend/src/api/`) | module-level flag, presence cookie, cached promises | prompt, clear, credential callback | Auth API |
| Browser components | React state | rendering, two timers | auth client |
| Start, configuration, clients, nginx, Kubernetes | none after start | | |

How they interact. Requests run concurrently, each in a goroutine of its own,
and share nothing in memory but the id counter; they meet in Postgres, where
transactions are SERIALIZABLE (uploads and deletions), REPEATABLE READ (get),
READ COMMITTED (pruning) or single statements (create, retitle). S3 knows
nothing of transactions: an object is announced in `resources` before it is
stored and moved to `pruned_resources` before it is deleted. Pruning runs in
goroutines that outlive their request and that nobody restarts.

What is hard, and what makes each part correct:

- *Pack tables.* Handlers read, decide and write in several statements while
  others commit, and retry in loops. `packs.hash` is recomputed in some paths
  only. Correct: the hash always describes the slots, a slot has a pack, two
  slots never share a resource, replies are consistent, every resource that
  leaves a slot is handed to exactly one pruner, the loops end.
- *Media.* Any of a dozen calls may fail with its effect done or not; the
  process may die between any two. Correct: a slot never points at media that
  is gone; every object in the bucket is known to the database; garbage goes
  away when nothing fails.
- *Ids.* Callers race on the counter, the clock is read separately, the counter
  wraps around and restarts with the process. Correct: no two ids are equal.
- *Health.* Answers, timeout and disconnect race. Correct: the handler returns,
  its reply is accurate, its goroutines end.
- *Reads.* Rows come one by one over a connection that may end early, and
  neither their order nor the collation is the code's. Correct: a 200 carries
  everything, a 404 is about a pack that does not exist.
- *Wrappers.* A handler writes, returns a status, or both, and the client may
  leave at any time; three places look at what was written or whether the
  client is there. Correct: who stays gets one response, with the status the
  handler meant, and the log tells what was sent.
- *Auth.* A session is a key in Redis, a cookie the script cannot read, a cookie
  that marks its presence, a flag in each page and a state in each component;
  each changes at times of its own, and `authClear` changes three of the five.
  Correct: a page is authenticated on the backend's word only, and stays signed
  out once it signed out.

## The modules

| Module | Models | Form |
|---|---|---|
| `PackStore` | the pack tables as each operation leaves them | abstract specification: one action per operation |
| `PackTransactions` | the statements of those operations, snapshots, conflicts, retries | refines `PackStore` (`Implements`) |
| `PackResources` | uploads, bucket, pruning goroutines, faults, crashes | extends `PackStore`, whose actions are its transactions |
| `Snowflake` | `GenID` on several pods | |
| `HealthCheck` | one health request | |
| `AuthSessions` | sessions in Redis, `GET` and `POST /api/auth` | actions and variables of its own, extended by the next |
| `AuthClient` | tabs, cookies, the flag and who shows it | extends `AuthSessions`: the requests of one are the other's |
| `StatusHandler` | the wrappers around any handler | the handler may call its writer and return in any way |
| `PackContents` | the bytes that are hashed, the grouping of rows, the counts | functions and their reference definitions |
| `PackReads` | the two GET handlers inside the wrappers | extends both: the wrappers around GET and around any other route |
| `MC*` | symmetry sets, fault sets and ids for TLC | |
| `*_proofs` | theorems about the module of that name | |

### PackStore

`packs`, `title`, `hash` and `slots` are the tables; `slots` maps a primary key
of `pack_resources` to a resource or `None`. `packIds` and `freed` are history:
ids the generator gave out, and resources a committed operation returned to its
handler for pruning. The SHA-256 of `updatePackHash` is represented by what it
digests, the set of (role, string) pairs: the code writes them sorted and with
the separator bytes 0 and 1, which `^[a-z0-9_]{1,63}$` excludes from ids. As in
the code, `PutRow` recomputes the hash only when the slot was empty and the
deletion of a role or a string only when it deleted something.

### PackTransactions

A request `t` has a statement to send next (`pc`), a snapshot with its own
writes on top (`view`), the rows it wrote, and the rows others have committed
since its snapshot (`changed`). `Select`, `Put`, `Delete`, `Drop`, `ReadHash`,
`StoreHash`, `Commit` are the statements of `packs.go:419-748` and `806-852`;
`Retry` is the `continue` of the four loops, `Fail` any other error;
`ReadDetails` and `ReadResources` are the two queries of GET; `SetTitle` and
`CreatePack` are single statements.

Postgres is modelled as snapshot isolation: at COMMIT a transaction fails if a
row it wrote was changed since its snapshot, and it may fail earlier once
anything was committed since. SERIALIZABLE allows fewer behaviours than that, so
what is shown holds for it, and it shows that the properties do not rest on
predicate locks. Row locks are not modelled; an error that comes from one is
`Fail`. That a write is refused at COMMIT instead of at
its statement changes no outcome: the transaction is rolled back in both cases.
A COMMIT that took effect but reported an error is in `PackResources`, not here.

`Implements` maps the committed tables to those of `PackStore`, and `freed` to
the ids returned to requests whose commit succeeded.

### PackResources

An upload is named by the id `GenID` returned; `upload[r]` names the call its
handler makes next. `InsertRow`, `PutObject` and `Commit` are the calls of
`packs.go:317-377`; each has a failing variant with its effect done or not done
(`InsertFails`, `PutFails`, `CommitFails`, `CommitLost`), and every failure
takes the deferred function along (`FailUpload`). `PackNotFound` is a pack
deleted since the check at `packs.go:338`. A member of `prunes` is a running
`pruneResource`; its stages are its three calls. `PruneRefused` is the foreign
key of `pack_resources.resource_id`, which makes the DELETE at `packs.go:765`
fail while a slot refers to the row; its mirror image is the conjunct
`r \in resources` of `PutSlot`. `Faults` says what may go wrong.

Abstractions. A transaction is one step, which `PackTransactions` justifies. The
commit and the `go` statement after it are one step too: a crash between them
leaves the same state as a crash right after both. A failed INSERT is resolved
at once; only a PutObject may take effect later (`inflight`), because a
cancelled upload may leave S3 at work. Goroutines with the same id and reason
are the same element of `prunes`; every id is displaced at most once and its
upload fails at most once, so there are no others. Authentication is not
checked by the pack routes and does not appear.

### Snowflake

`TakeNumber` is `atomic.AddInt64`, `ReadClock` the rest of `GenID`: callers
pause in between. `Id` keeps the mask of `snowflake.go:34`, one bit wider than
the sequence, and its collision with the pod index. `WithinLoad` is an
assumption about the callers, not code: the counter does not come round to a
number while an id with that number carries the current millisecond or its
call is still running. A restart takes at least a millisecond, clocks agree
and do not step back. The fields are given by how many values they have
(`MachineCount`, `SequenceCount`, `TimeCount`, which are 2^10, 2^12 and 2^41 in
the code), as none of the arithmetic depends on their being powers of two beyond
the number of pods being even. The result is an `int64`: the time is not masked,
so when it needs one bit more than its 41 the sign bit is set. `Signed` keeps
that, and uniqueness survives it; nothing else would notice but a reader of the
ids.

### HealthCheck

`Ask` is a check, `Receive` the rendezvous on its unbuffered channel, `Wait` the
goroutine that calls `finish`, `Timeout` the three seconds, `Reply` and `GiveUp`
the two ways out of the loop. `select` picks any ready case, so `Reply` does not
wait for answers that are ready.

### AuthSessions and AuthClient

`sessions` are the keys in Redis; `verify[t]` and `login[t]` say how far the
`GET` and the `POST` of tab `t` got. `CheckAdmin` is Google's verdict and the
query of table `admins`, `CreateSession` the `SETNX`, `CreateFails` the same
with an error or a taken id, after which a session may exist that no browser
knows. Every step of the server is followed by an arrival in the tab, and
arrivals come in any order.

In the browser `cookie` and `presence` are shared by all tabs; `flag`
(`authenticatedGlobal`), `config`, `client` (the promises) and `view`/`shown` (a
component that uses `useAuthStatus`) are each page's own. `Load` is the module
body of `auth.js` when a page is loaded; `RestartBrowser` drops the presence
cookie, which `auth.js:64` sets without an expiry, and keeps the other.
`vouched`, `cleared` and `late` are history.

Abstractions. An answer that is an error counts as `false`: `jsonRequest` throws
and both leave the flag alone. A refused sign-in is only logged and so is no
stage. A configuration that cannot be fetched stays `"pending"`. Loading
Google's script and waiting for the configuration is one step, and an attempt
that failed stays failed (`lazyPromise` keeps the rejected promise). A tab has
one sign-in at a time, and one component. A sign-out in one tab does not reach
the pages in other tabs: they keep their flag, in the model as in the code;
`ClearSticks` is about becoming authenticated, not about being so still.

### StatusHandler, PackContents, PackReads

`pc` runs from the handler through `LogResult`, `Compare`, `Select` and the
default response to `Finish`, which is net/http; `Write` and `WriteHeader` are
the methods of `responseWriterCapture` on top of net/http's rule that the first
status stays. `Disconnect` may come between any two steps. In `StatusHandler`
the handler calls its writer in any way and returns any status, `staticHandler`
(which leaves its status to the return value) and `errorHandler` among them: what
holds there holds for every handler. `PackReads` is a case of it by the way it is
put together, from the same actions.

A request of `PackReads` is for one of two reads or, with `Other`, for any other
route, whose handler may mix and repeat its calls (and for which `contents`, of no
use there, is empty). The reads are `ListPacks` and `GetPack`: a query whose result
is any order of the rows that `ORDER BY` allows (`Sorted`; the order of the two
classes of a string is open, and the list has no order at all), a loop, and the
encoding of `Body`. `EndsEarly` is when `rows.Next` may return false
although there is a row: the request's context is done, or, with `Lossy`, the
connection broke. Nobody asks `rows.Err`.

In `PackContents` ids are sequences of bytes; `Collation` is their order in the
database, which need not be that of their bytes. `HashInput` is the byte string
that `updatePackHash` digests and `Decode` reads it back, which justifies that
`PackStore` takes the digest for a set of pairs. `View` is the grouping of
`getPackResources`, `Summary` a row of `ListPacks`; `Shows` and `Lists` say what
they should be. A resource is named by its slot. When the hash
is recomputed is the business of `PackStore`; here it is computed for whatever
is stored.

## What the runs check

| Run | Shows | Instance |
|---|---|---|
| `resources_faults` | `ReferencedHasObject`, `ObjectsTracked`, `SlotsExclusive`, `HashMatches`, `DeletedLast` under every fault, crashes included, but late puts | 1 pack, 2 strings, 3 uploads |
| `resources_reclaim` | `Accounted` and, under fairness, `Reclaimed`, while uploads may fail and pruning does not | same |
| `resources_late_put` | violation of `ObjectsTracked` | 1 slot, 2 uploads |
| `transactions_safety` | `HashMatches`, `SlotsSound`, `ReplyConsistent`, `Implements` | 4 requests, 2 strings |
| `transactions_answered` | `Answered` under fairness, `Implements` with two titles | 3 requests, 1 string |
| `snowflake_per_pod` | `UniquePerPod` | 2 pods, fields of 2 values, 5 calls, 3 ms |
| `snowflake_two_pods` | violation of `UniqueIds` | same, 6 calls |
| `health_check` | `BodyAccurate`, `Returns` | 3 services |
| `health_wait` | violation of `WaitEnds` | 3 services |
| `auth_client` | `FlagJustified`, `ClearSticks`, `ShownIsFlag` | 2 tabs, 1 session |
| `read_requests` | `StatusCaptured`, `Responded`, `LogTells` around any handler; `ReplyWhole`, `NotFoundMeant`, `HashDecodes` | 2 packs, 2 ids, 4 rows |
| `read_truncated` | violation of `PackReplyWhole`, the part of `ReplyWhole` about one pack | same, `Lossy` |

Bounds and why they are enough. Two slots of one pack let an upload race one to
the same slot, one to another slot of the pack, and a deletion of either or of
both. Three uploads give a resource that is displaced while it is being pruned
for a lost commit, and a third one that displaces again. Four requests are
enough for two writers that conflict, a third that commits in between and a
reader. Packs do not interact, so one is checked; a deleted pack's id is not
reused. Roles and classes act like strings on the primary key: one each. With
one sequence bit the mask keeps four values, so the fifth call wraps around; with
one bit for the time the sign flips at time 2, within the run. Two tabs let one
sign out while the other verifies, signs in or is reloaded; with one session a
key that expires can be drawn again, which is the worst case for a cookie that
still holds it. Of the two ids one is the beginning of the other and the
collation puts it second; four rows over two roles, two strings and two classes
reach every pair of neighbours that the grouping distinguishes, and a pack that
is missing, empty or beside another one. The proofs remove all of these bounds
where they exist. `MaxTime`, `MaxCalls` and `MaxRows` cap the clock, the calls
and the rows; nothing else is capped. Resources, packs and tabs are symmetric:
no property orders them. Symmetry is not used with liveness. Deadlock is not
checked anywhere, as every model may stop: clients need not send anything.

Fairness. Go schedules every goroutine and every call returns, with a result or
an error, so handlers and goroutines that can step eventually do (weak
fairness, per upload, per pruned id, per request, per health goroutine). There
is no fairness on requests, faults, crashes or disconnects, and none that makes
a call succeed. The auth and read models state safety only and have none. `Answered` needs none for commits either: the number of requests
is finite and a retry needs somebody else's commit.

`Reclaimed` is checked without the faults that the code has no answer to. After
a crash, an error in `pruneResource` or a lost outcome of a deletion, garbage
stays: nothing sweeps `resources` or `pruned_resources`. What survives even then
is that the garbage can be found (`ObjectsTracked`) and is in no slot.

### Disagreements found

1. `resources_late_put`: `packs.go:397` inserts a row "to mark possble existance
   of resource in s3". An upload that fails on the backend's side starts a prune
   (`packs.go:351`) that may finish before S3 completes the upload; the object
   is then in no table.
2. `snowflake_two_pods`: the mask at `snowflake.go:34` is `1 << (sequenceBits +
   1)` minus one, 13 bits for a 12-bit field. An even pod whose counter has
   bit 12 set issues the ids of its odd neighbour. One replica is deployed
   (`kubernetes/services/fwends-backend.yaml`), where `UniquePerPod` holds and
   the extra bit even doubles the sequence on pod 0.
3. `read_truncated`: `packs.go:159` uses a transaction "to ensure consistent
   state", but the loops at `packs.go:227` and `:67` end when `rows.Next` returns
   false and do not ask `rows.Err`; a connection that breaks before the last row
   makes a 200 with some of the roles, or none, next to the hash of all of them. A client
   that disconnects has the same effect on the loop, but does not get the
   response; `NotFoundMeant` and `ReplyWhole` hold without `Lossy`.
4. `health_wait`: `health.go:37` promises that the wait group calls `finish`
   "when all services have responded". After the handler has left its loop the
   checks block forever on unbuffered channels.

## What is proved

`tlapm` checks, for every value of the constants:

- `StoreHashMatches`, `StoreSlotsSound`: from `StoreSpec`, the hash matches the
  slots, slots have packs and are exclusive. The inductive invariant `StoreInv`
  is their conjunction with the type invariant; the work is in showing that a
  slot that was in use already contributes its pair to the digest, so that
  replacing its resource changes nothing.
- `ResourcesTypeOK`, `ResourcesReferenced`, `ResourcesExclusive`,
  `ResourcesHashMatches`, `ResourcesDeletedLast`: from `Spec` of `PackResources`, under any set of
  faults. `ReferencedHasObject` is not inductive: nothing in it keeps a prune
  away from a slot. `LifeInv` adds, per resource, what its upload's stage says
  of slots, objects and `freed` (`UploadOK`), that whatever a slot refers to is
  in `resources` and in the bucket and its upload is over (`ReferencedOK`), and
  that a goroutine past its first stage works on an id that no slot can refer
  to any more, because its row has left `resources` and its upload is over
  (`PruneOK`).
- `ResourcesImplementStore`: every step is a step of `PackStore` or leaves its
  variables alone. `PackStore` demands fresh ids; `PackResources` has no such
  guard, and that ids are fresh follows from `LifeInv`. It is what carries the
  theorems of `PackStore` over.
- `ResourcesTracked`: if `"latePut"` is not in `Faults`, `ObjectsTracked` holds;
  `TrackInv` adds that an upload cut off by a crash, which S3 may still
  complete, keeps its row and has no goroutine, and that a goroutine about to
  delete the row of `pruned_resources` has deleted the object for good. The run
  `resources_late_put` shows that the assumption is needed.
- `ResourcesAccounted`: under `RequestsFailOnly` (no crash, no lost commit, no
  error while pruning) `Accounted` holds. It is inductive beside `LifeInv`, which
  says that a referenced row has a finished upload; the work is in the slots: what
  stops being referenced in a step is what that step hands to goroutines.
- `TransactionsTypeOK`, `TransactionsHashMatches`, `TransactionsSlotsSound`,
  `TransactionsReplyConsistent`, `TransactionsImplement`: from `Spec` of
  `PackTransactions`, for any number of requests, packs and slots. The last one is
  the step from statements to atomic operations, which `PackStore` and
  `PackResources` rest on: a successful COMMIT is one operation of `PackStore`, and
  every other statement, retry and failure stutters. See below.
- `SnowflakeTypeOK`, `SnowflakeUniquePerPod`: from `Spec` of `Snowflake`, for fields
  of any size. `SnowflakeInv` says that the numbers of a pod that are live (taken
  by a running call or answered in the present millisecond) lie below the counter
  and less than a field apart (`LiveOK`), which is what `WithinLoad` has to
  guarantee, and that the ids of one millisecond keep that distance when it is over
  (`Spread`); distinct numbers are distinct because `LiveOK` puts the live ones below
  the counter and a restart outlasts the millisecond. The arithmetic is in the
  lemmas: an `int64` tells its timestamp, machine part and sequence part
  (`IdTells`), also when it is negative, and two numbers less than a field apart that agree in both parts are equal
  (`SamePlace`), although the mask lets a bit of the number into the machine part.
- `HealthTypeOK`, `HealthBodyAccurate`: from `Spec` of `HealthCheck`, for any set of
  services. `HealthInv` adds that an entry of the reply is what its service said,
  once that was received and false until then, and that the wait group ends the
  wait only after everything was received.
- `AuthTypeOK`, `AuthFlagJustified`, `AuthShownIsFlag`, `AuthClearSticks`: from
  `Spec` of `AuthClient`, for any number of tabs and sessions. `FlagJustified`
  needs `VouchedOK`: an answer on its way that will set the flag was given for
  a live session. `AuthClearSticks` needs `ClearedOK`: after a sign-out the
  presence cookie is gone, authentication is on, and nobody waits for an answer
  but the tabs that waited then; that authentication is on follows from the
  guard of the button that signs out.
- `WrappedCaptured`, `WrappedResponded`, `WrappedLogTells`: from `Wrapped` of
  `StatusHandler`, for any statuses and any handler. `WrapInv` relates, stage by
  stage, the captured status, the one on the wire and whose body was written.
  `WrapInv` says in particular that the log has a mismatch only from `Compare` on
  and only if the handler wrote another status than it returned, and that a
  response is left empty only after the client left.
- `ReadsResponded`: the same of `PackReads`, for any packs, ids and contents. It
  rests on the lemma `ReadsAreWrapped`.
- `ReadsTypeOK`, and `ReadsNotFoundMeant` if the connection to Postgres does not
  break (`~Lossy`; the code cannot tell a broken one from a missing row). Its
  invariant says that only `PackNotFound` makes a 404, and only when the pack is
  missing or the client is gone, which it then stays.
- `ReadsReplyWhole`: with the same hypothesis, `ReplyWhole`. Its invariant `ReplyInv`
  says that a client that stays gets a reply only from a result that was read to
  its end; what such a reply shows is a matter of the functions. The list has every
  pack once, because its result is an injection between sets of the same size, and
  `COUNT(DISTINCT role_id || '-' || string_id)` counts pairs, because the dash tells
  where the role ends (`JoinedApart`), which rests on `IdsAssumption`. A pack shows
  its slots (`ViewShows`). See below.
- `ReadsHashDecodes`: `HashDecodes`, under no hypothesis: what `updatePackHash`
  digests tells the pairs of the pack. See below.

### From statements to atomic operations

`TransactionsInv` holds the invariant of `PackStore` for the committed tables and,
for every request, six parts. `ControlOK` says which requests are inside a
transaction, and that outside of one nothing is written. `FreshOK` keeps the id
of an upload that has not committed out of every table and every other request's
view. `SnapshotOK` is what snapshot isolation promises: a row that nobody has
committed since the snapshot is committed as it was seen, apart from the
transaction's own writes; a pack whose row nobody has committed still exists and
has the same slots in use, because who fills or empties one writes that row.
`UploadOK` and `DeleteOK` say, statement by statement, what the view looks like and
which ids are about to be returned, `GetOK` what a reply holds so far.

At COMMIT nobody has changed a row the transaction wrote, so those rows hold what
the view saw before, and the view's new contents are one operation's effect. The
hash is the delicate part, because digest and slots are different rows. A
transaction that stores a digest writes the row of the pack, and so does every
transaction that changes which slots of the pack are in use: two of them
conflict on that row, and the second computed its digest from slots nobody has
touched. A transaction that does not write the row replaces the resource of a
slot that was in use, and the digest does not depend on which resource that is.
No predicate lock is needed for any of this, only the first-committer rule on
rows.

### What the loops compute

`View` and `HashInput` fold over the rows, as the loops of `getPackResources` and
`updatePackHash` do. Induction over the rows is `UpTo`: a set of numbers that has
0, and with every `k` below `n` also `k + 1`, has all numbers up to `n`. It is
proved on a least counterexample and takes a set, where the library's theorem
takes an operator, so it can be cited. `ViewSteps` and `HashSteps` show that the
fold exists and does one row at a time; the rest is what holds after each row.

For `View` that is `Grouped`: after `k` rows every row read so far stands in its
place, and every place has such a row. A row is compared with the previous
one only, so this needs that a role that was left does not come back, and
neither does a string within its role (`Contiguous`). That is where `ORDER BY`
is needed, and any order of the ids will do. The last role and string are then
the only ones that a row can belong to, and the classes of a string may come in
either order.

For the digest it is `Hashed`: every byte 1 stands for a pair of the pack, and
every pair stands somewhere, its string between a 1 and the next separator and its
role behind the last 0 before it. `HashedTo` adds that a string whose role was
omitted still stands under it. Ids have no bytes 0 and 1 (`IdsAssumption`, which
is `packs.go:875`), so what is appended moves nothing (`StandsStays`), and
`Decode` reads the pairs back (`HashedDecodes`). `HashInput` takes some sorted
result; there is one for every finite set of pairs (`SortedExists`). The order
decides which digest a pack gets, not whether it tells the pairs.

### Assumptions and limits

The assumptions are on constants: `NoneAssumption` and `NoSessionAssumption` (the
null value is no resource, no session, no table), `FaultsAssumption`,
`StatusesAssumption` (200 is a status, 0 is none), `ReadsAssumption` (so are 404
and 500; packs are finitely many), `IdsAssumption` (the pattern of ids),
`FieldsAssumption` (the fields of an id have values, and the number of pods is
even), `MachinesAssumption` (`NewSnowflakeGenerator` rejects other indexes) and
`BoundsAssumption`, whose one condition on the code is that the clock is before
the year 2109, when the timestamp would come round. Four theorems have a
hypothesis of their own: `ResourcesTracked` has `"latePut" \notin Faults`,
`ResourcesAccounted` has `RequestsFailOnly`, and `ReadsNotFoundMeant` and
`ReadsReplyWhole` have `~Lossy`; what each excludes is a case that the code does
not handle.

`TransactionsInv`, `SnowflakeInv`, `HealthInv`, `LifeInv`, `TrackInv`, `WrapInv` and `ReplyInv`
were checked with TLC on the instances of the runs before they were proved.

Every invariant and every action property of a passing run is the property of a
theorem. Only model-checked: liveness (`Reclaimed`, `Answered`, `Returns`) under the
fairness stated above, which is beyond the prover, as is `ENABLED`.

## What is not modelled

- Request validation (`packs.go:105`, `323-335`): it rejects before any effect.
- `rows.Err` after the loops of deletions and of the hash (`packs.go:565`, `643`,
  `824`): an iteration that ends early there is in a transaction that cannot
  commit any more, so it ends as `Fail`. The one effect is that a serialization
  failure reported between rows is not retried.
- Row locks, predicate locks.
- Ids colliding inside the pack tables: `PackStore` and its users take ids to be
  fresh, which `UniquePerPod` supports for one pod and `UniqueIds` refutes for
  two.
- What the default response says in debug mode. `status_handler.go:60` promises
  the error, but an `error` made by `errors.New` or `fmt.Errorf` has no exported
  field and is encoded as `{}`.
- Log levels and fields; the event `"prompt"` and the hooks that only pass a
  promise on (`auth.js:83`, `106-139`); the timer of `dynamicScriptLoad`, of which
  `PromptFails` is the effect.
- Google, and table `admins` beyond its one answer: `CheckAdmin` takes either.
- Configuration, nginx, Kubernetes, rendering: no state that changes or no logic
  of its own.

## Plan

Done, in the order of how much depends on them: `PackStore`, `PackResources`,
`PackTransactions`, `Snowflake`, `HealthCheck`, `AuthSessions`, `AuthClient`,
`StatusHandler`, `PackContents`, `PackReads`, and the theorems above, which state
every safety property of a passing run. What a further extension would take up is
named under "What is not modelled": first the ids that collide inside the
pack tables, which two pods, or one beyond its load, can bring about.
