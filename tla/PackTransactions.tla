-------------------------- MODULE PackTransactions --------------------------
(***************************************************************************)
(* The statements behind the operations of PackStore, as the handlers of   *)
(* fwends-backend/api/packs.go send them to Postgres: transactions of      *)
(* several statements on a private snapshot, retried when Postgres reports *)
(* a serialization failure, beside single statements that commit at once.  *)
(*                                                                         *)
(* Of what SERIALIZABLE promises only this much is used: a transaction     *)
(* reads the snapshot its first statement took plus its own writes, and it *)
(* commits only if no row it wrote was changed by a transaction that       *)
(* committed in between. That is snapshot isolation; the real isolation    *)
(* level allows fewer behaviours.                                          *)
(***************************************************************************)
EXTENDS FiniteSets

CONSTANTS
    Packs, Roles, Strings, Classes, Titles, Resources, None

VARIABLES
    packIds,    \* pack ids the generator has handed out
    packs,      \* the committed table packs: its keys,
    title,      \*   its column title
    hash,       \*   and its column hash
    slots,      \* the committed table pack_resources
    pc,         \* pc[t]: the statement that request t sends next
    op,         \* op[t]: what request t asks for
    view,       \* view[t]: the tables as the transaction of t sees them
    wrote,      \* wrote[t]: the rows it wrote
    changed,    \* changed[t]: the rows others committed since its snapshot
    ids,        \* ids[t]: the resources its statements took out of a slot
    digest,     \* digest[t]: the hash it computed
    reply       \* reply[t]: the body of the response to GET

tables == <<packIds, packs, title, hash, slots>>
vars == <<tables, pc, op, view, wrote, changed, ids, digest, reply>>

\* A request is named by the resource id that GenID gives it if it is an
\* upload: no two requests share one.
Requests == Resources

\* The ids that transactions known to be committed returned to their handlers.
Returned == UNION {ids[t] : t \in {u \in Requests : pc[u] = "done"}}

Store == INSTANCE PackStore WITH freed <- Returned

Slot == Store!Slot

\* rows are the keys that the request addresses in pack_resources.
Upload(s) == [kind |-> "upload", pack |-> s.pack, rows |-> {s}]
DeletePack(p) == [kind |-> "deletePack", pack |-> p, rows |-> Store!OfPack(p)]
DeleteSlots(p, S) == [kind |-> "deleteSlots", pack |-> p, rows |-> S]
GetPack(p) == [kind |-> "get", pack |-> p, rows |-> Store!OfPack(p)]
UpdatePack(p) == [kind |-> "update", pack |-> p, rows |-> {}]

Ops ==
    UNION { {Upload(s) : s \in Slot},
            {DeletePack(p) : p \in Packs},
            {DeleteSlots(p, Store!OfRole(p, o)) : p \in Packs, o \in Roles},
            {DeleteSlots(p, Store!OfString(p, o, x)) :
                p \in Packs, o \in Roles, x \in Strings},
            {GetPack(p) : p \in Packs},
            {UpdatePack(p) : p \in Packs} }

\* The statement each kind of request begins with.
First(o) ==
    CASE o.kind = "upload" -> "select"
      [] o.kind \in {"deletePack", "deleteSlots"} -> "delete"
      [] o.kind = "get" -> "details"
      [] o.kind = "update" -> "title"

\* Rows, for conflicts between transactions.
PackRow(p) == <<"packs", p>>
SlotRow(s) == <<"pack_resources", s>>
Rows == {PackRow(p) : p \in Packs} \cup {SlotRow(s) : s \in Slot}

Tables == [packs : SUBSET Packs, title : [Packs -> Titles \cup {None}],
           hash : [Packs -> Store!Digests],
           slots : [Slot -> Resources \cup {None}]]

\* The null value is neither a resource nor a snapshot.
ASSUME NoneAssumption == None \notin Resources \cup Tables

Committed == [packs |-> packs, title |-> title, hash |-> hash, slots |-> slots]

InTransaction(t) == view[t] # None

-----------------------------------------------------------------------------

RequestsTypeOK ==
    /\ pc \in [Requests ->
                 {"idle", "select", "put", "delete", "drop", "hash", "store",
                  "commit", "details", "resources", "title", "done", "failed"}]
    /\ op \in [Requests -> Ops \cup {None}]
    /\ view \in [Requests -> Tables \cup {None}]
    /\ wrote \in [Requests -> SUBSET Rows]
    /\ changed \in [Requests -> SUBSET Rows]
    /\ ids \in [Requests -> SUBSET Resources]
    /\ digest \in [Requests -> Store!Digests]
    /\ reply \in [Requests ->
                    [hash : Store!Digests, slots : SUBSET Slot] \cup {None}]

TypeOK == Store!StoreTypeOK /\ RequestsTypeOK

Init ==
    /\ packIds = {}
    /\ packs = {}
    /\ title = [p \in Packs |-> None]
    /\ hash = [p \in Packs |-> {}]
    /\ slots = [s \in Slot |-> None]
    /\ pc = [t \in Requests |-> "idle"]
    /\ op = [t \in Requests |-> None]
    /\ view = [t \in Requests |-> None]
    /\ wrote = [t \in Requests |-> {}]
    /\ changed = [t \in Requests |-> {}]
    /\ ids = [t \in Requests |-> {}]
    /\ digest = [t \in Requests |-> {}]
    /\ reply = [t \in Requests |-> None]

-----------------------------------------------------------------------------
(* What every transaction does.                                            *)

Goto(t, s) == pc' = [pc EXCEPT ![t] = s]

\* What a statement of t reads: the committed tables if it is the first one of
\* its transaction, the snapshot with the writes of t on top afterwards.
Seen(t) == IF InTransaction(t) THEN view[t] ELSE Committed

\* A statement leaves the tables as v in the eyes of t, having written rows R.
Execute(t, v, R) ==
    /\ view' = [view EXCEPT ![t] = v]
    /\ wrote' = [wrote EXCEPT ![t] = @ \cup R]

Leave(t) ==
    /\ view' = [view EXCEPT ![t] = None]
    /\ wrote' = [wrote EXCEPT ![t] = {}]
    /\ digest' = [digest EXCEPT ![t] = {}]

\* Rows R were committed: the other open transactions have a stale snapshot.
Publish(t, R) ==
    changed' = [u \in Requests |->
                  IF u = t THEN {}
                  ELSE IF InTransaction(u) THEN changed[u] \cup R
                  ELSE changed[u]]

\* Mutant: READ COMMITTED, where a write on top of a newer row is no failure.
ConflictNever(t) == FALSE

\* Mutant: only rows of packs are compared.
ConflictOnPacks(t) ==
    wrote[t] \cap changed[t] \cap {PackRow(p) : p \in Packs} # {}

Conflict(t) == wrote[t] \cap changed[t] # {}

\* Mutant: the title of the snapshot is stored along with the rest.
CommitWithTitle(t) ==
    LET v == view[t]
        packWritten == {p \in Packs : PackRow(p) \in wrote[t]}
    IN
    /\ pc[t] = "commit"
    /\ ~Conflict(t)
    /\ packs' = packs \ (packWritten \ v.packs)
    /\ title' = v.title
    /\ hash' = [p \in Packs |-> IF p \in packWritten THEN v.hash[p] ELSE hash[p]]
    /\ slots' = [s \in Slot |->
                   IF SlotRow(s) \in wrote[t] THEN v.slots[s] ELSE slots[s]]
    /\ Publish(t, wrote[t])
    /\ Goto(t, "done")
    /\ Leave(t)
    /\ UNCHANGED <<packIds, op, ids, reply>>

\* COMMIT: the rows t wrote become visible.
Commit(t) ==
    LET v == view[t]
        packWritten == {p \in Packs : PackRow(p) \in wrote[t]}
    IN
    /\ pc[t] = "commit"
    /\ ~Conflict(t)
    /\ packs' = packs \ (packWritten \ v.packs)
    /\ title' = [p \in Packs |-> IF p \in packWritten THEN v.title[p] ELSE title[p]]
    /\ hash' = [p \in Packs |-> IF p \in packWritten THEN v.hash[p] ELSE hash[p]]
    /\ slots' = [s \in Slot |->
                   IF SlotRow(s) \in wrote[t] THEN v.slots[s] ELSE slots[s]]
    /\ Publish(t, wrote[t])
    /\ Goto(t, "done")
    /\ Leave(t)
    /\ UNCHANGED <<packIds, op, ids, reply>>

\* Mutant: the handler retries in the transaction that failed.
RetrySameSnapshot(t) ==
    /\ InTransaction(t)
    /\ op[t].kind # "get"
    /\ changed[t] # {}
    /\ Goto(t, First(op[t]))
    /\ UNCHANGED <<tables, op, view, wrote, changed, ids, digest, reply>>

\* A serialization failure, at COMMIT or at an earlier statement, which needs
\* a concurrent commit. The handler starts over with a new transaction.
Retry(t) ==
    /\ InTransaction(t)
    /\ op[t].kind # "get"
    /\ changed[t] # {}
    /\ Goto(t, First(op[t]))
    /\ Leave(t)
    /\ changed' = [changed EXCEPT ![t] = {}]
    /\ ids' = [ids EXCEPT ![t] = {}]
    /\ UNCHANGED <<tables, op, reply>>

\* Any other error, or the client gave up: rollback, no retry.
Fail(t) ==
    /\ pc[t] \notin {"idle", "done", "failed"}
    /\ Goto(t, "failed")
    /\ Leave(t)
    /\ changed' = [changed EXCEPT ![t] = {}]
    /\ ids' = [ids EXCEPT ![t] = {}]
    /\ reply' = [reply EXCEPT ![t] = None]
    /\ UNCHANGED <<tables, op>>

-----------------------------------------------------------------------------
(* Upload.                                                                 *)

\* Does the pack exist, and what is in the slot? A missing pack is a 404.
Select(t) ==
    LET v == Seen(t) IN
    /\ pc[t] = "select"
    /\ IF op[t].pack \in v.packs
         THEN /\ Execute(t, v, {})
              /\ ids' = [ids EXCEPT ![t] = Store!Held(v.slots, op[t].rows)]
              /\ Goto(t, "put")
              /\ UNCHANGED <<changed, digest>>
         ELSE /\ Goto(t, "failed")
              /\ Leave(t)
              /\ changed' = [changed EXCEPT ![t] = {}]
              /\ UNCHANGED ids
    /\ UNCHANGED <<tables, op, reply>>

\* UPDATE the slot if it held a resource, INSERT it otherwise; only then is
\* the hash computed anew.
Put(t) ==
    LET v == Seen(t)
        s == CHOOSE x \in op[t].rows : TRUE
    IN
    /\ pc[t] = "put"
    /\ Execute(t, [v EXCEPT !.slots[s] = t], {SlotRow(s)})
    /\ Goto(t, IF ids[t] = {} THEN "hash" ELSE "commit")
    /\ UNCHANGED <<tables, op, changed, ids, digest, reply>>

-----------------------------------------------------------------------------
(* updatePackHash: read the roles and strings, then store their digest.    *)

ReadHash(t) ==
    LET v == Seen(t) IN
    /\ pc[t] = "hash"
    /\ digest' = [digest EXCEPT ![t] = Store!Digest(v.slots, op[t].pack)]
    /\ Goto(t, "store")
    /\ UNCHANGED <<tables, op, view, wrote, changed, ids, reply>>

StoreHash(t) ==
    LET p == op[t].pack IN
    /\ pc[t] = "store"
    /\ Execute(t, [Seen(t) EXCEPT !.hash[p] = digest[t]], {PackRow(p)})
    /\ Goto(t, "commit")
    /\ UNCHANGED <<tables, op, changed, ids, digest, reply>>

-----------------------------------------------------------------------------
(* The deletions.                                                          *)

\* Mutant: the ids returned are those of the whole pack.
DeleteReturnsPack(t) ==
    LET v == Seen(t)
        S == op[t].rows
        held == Store!Held(v.slots, Store!OfPack(op[t].pack))
    IN
    /\ pc[t] = "delete"
    /\ Execute(t, [v EXCEPT !.slots = Store!Emptied(@, S)],
               {SlotRow(s) : s \in S \cap Store!InUse(v.slots)})
    /\ ids' = [ids EXCEPT ![t] = held]
    /\ Goto(t, IF op[t].kind = "deletePack" THEN "drop"
               ELSE IF held # {} THEN "hash" ELSE "commit")
    /\ UNCHANGED <<tables, op, changed, digest, reply>>

\* DELETE FROM pack_resources ... RETURNING resource_id
Delete(t) ==
    LET v == Seen(t)
        S == op[t].rows
        held == Store!Held(v.slots, S)
    IN
    /\ pc[t] = "delete"
    /\ Execute(t, [v EXCEPT !.slots = Store!Emptied(@, S)],
               {SlotRow(s) : s \in S \cap Store!InUse(v.slots)})
    /\ ids' = [ids EXCEPT ![t] = held]
    /\ Goto(t, IF op[t].kind = "deletePack" THEN "drop"
               ELSE IF held # {} THEN "hash" ELSE "commit")
    /\ UNCHANGED <<tables, op, changed, digest, reply>>

\* DELETE FROM packs, which may find no row.
Drop(t) ==
    LET v == Seen(t)
        p == op[t].pack
    IN
    /\ pc[t] = "drop"
    /\ IF p \in v.packs
         THEN Execute(t, [v EXCEPT !.packs = @ \ {p}, !.title[p] = None,
                                   !.hash[p] = {}], {PackRow(p)})
         ELSE Execute(t, v, {})
    /\ Goto(t, "commit")
    /\ UNCHANGED <<tables, op, changed, ids, digest, reply>>

-----------------------------------------------------------------------------
(* Requests that read, or that send a single statement.                    *)

\* The two queries of GET run in one REPEATABLE READ transaction.
ReadDetails(t) ==
    LET v == Seen(t)
        p == op[t].pack
    IN
    /\ pc[t] = "details"
    /\ IF p \in v.packs
         THEN /\ Execute(t, v, {})
              /\ reply' = [reply EXCEPT ![t] = [hash |-> v.hash[p], slots |-> {}]]
              /\ Goto(t, "resources")
         ELSE /\ Goto(t, "failed")
              /\ UNCHANGED <<view, wrote, reply>>
    /\ UNCHANGED <<tables, op, changed, ids, digest>>

\* Mutant: the second query sees what was committed since the first.
ReadResourcesLatest(t) ==
    /\ pc[t] = "resources"
    /\ reply' = [reply EXCEPT ![t].slots = Store!InUse(slots) \cap op[t].rows]
    /\ Goto(t, "done")
    /\ Leave(t)
    /\ changed' = [changed EXCEPT ![t] = {}]
    /\ UNCHANGED <<tables, op, ids>>

ReadResources(t) ==
    /\ pc[t] = "resources"
    /\ reply' = [reply EXCEPT ![t].slots = Store!InUse(Seen(t).slots) \cap op[t].rows]
    /\ Goto(t, "done")
    /\ Leave(t)
    /\ changed' = [changed EXCEPT ![t] = {}]
    /\ UNCHANGED <<tables, op, ids>>

\* UPDATE packs SET title, committed at once; a missing row is a 404.
SetTitle(t) ==
    LET p == op[t].pack IN
    /\ pc[t] = "title"
    /\ IF p \in packs
         THEN /\ \E n \in Titles : title' = [title EXCEPT ![p] = n]
              /\ Publish(t, {PackRow(p)})
              /\ Goto(t, "done")
         ELSE /\ Goto(t, "failed")
              /\ UNCHANGED <<title, changed>>
    /\ UNCHANGED <<packIds, packs, hash, slots, op, view, wrote, ids, digest, reply>>

\* Mutant: the id is not taken from the generator.
CreatePackOwnId(p, n) ==
    /\ p \notin packIds
    /\ packs' = packs \cup {p}
    /\ title' = [title EXCEPT ![p] = n]
    /\ hash' = [hash EXCEPT ![p] = {}]
    /\ UNCHANGED <<packIds, slots, pc, op, view, wrote, changed, ids, digest, reply>>

\* INSERT INTO packs with a fresh id.
CreatePack(p, n) ==
    /\ p \notin packIds
    /\ packIds' = packIds \cup {p}
    /\ packs' = packs \cup {p}
    /\ title' = [title EXCEPT ![p] = n]
    /\ hash' = [hash EXCEPT ![p] = {}]
    /\ UNCHANGED <<slots, pc, op, view, wrote, changed, ids, digest, reply>>

-----------------------------------------------------------------------------

Begin(t, o) ==
    /\ pc[t] = "idle"
    /\ op' = [op EXCEPT ![t] = o]
    /\ Goto(t, First(o))
    /\ UNCHANGED <<tables, view, wrote, changed, ids, digest, reply>>

Step(t) ==
    \/ Select(t) \/ Put(t)
    \/ Delete(t) \/ Drop(t)
    \/ ReadHash(t) \/ StoreHash(t)
    \/ Commit(t) \/ Retry(t) \/ Fail(t)
    \/ ReadDetails(t) \/ ReadResources(t)
    \/ SetTitle(t)

Next ==
    \/ \E p \in Packs, n \in Titles : CreatePack(p, n)
    \/ \E t \in Requests : Step(t) \/ \E o \in Ops : Begin(t, o)

Spec == Init /\ [][Next]_vars

\* A request that was accepted keeps running: Postgres answers every statement.
FairSpec == Spec /\ \A t \in Requests : WF_vars(Step(t))

-----------------------------------------------------------------------------
(* Properties.                                                             *)

\* The committed hash of a pack is the digest of its committed slots, although
\* it was computed from a snapshot while other requests were changing slots.
HashMatches == Store!HashMatches

\* No committed slot outlives its pack, no resource is in two slots, and none
\* is in a slot after a committed request returned it for pruning.
SlotsSound == Store!SlotsHavePack /\ Store!SlotsExclusive

\* A reply to GET /api/packs/:pack_id is a consistent state of the pack
\* (packs.go:159): the hash in it is the digest of the slots in it.
ReplyConsistent ==
    \A t \in Requests :
        op[t] # None /\ op[t].kind = "get" /\ pc[t] = "done" =>
            reply[t].hash = {<<s.role, s.string>> : s \in reply[t].slots}

\* The requests implement the atomic operations of PackStore: in particular
\* every resource that leaves a slot is returned to exactly one committed
\* request, and a new title survives whatever hash is written around it.
Implements == Store!StoreSpec

\* The retry loops end: an accepted request is eventually answered.
Answered ==
    \A t \in Requests : pc[t] # "idle" ~> pc[t] \in {"done", "failed"}
=============================================================================
