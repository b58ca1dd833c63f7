--------------------------- MODULE PackResources ---------------------------
(***************************************************************************)
(* The life of an uploaded media object: the row that announces it in      *)
(* table resources, the object in the S3 bucket, the pack slot that ends   *)
(* up pointing at it, and the background goroutines that prune it when its *)
(* upload fails or when another operation takes it out of its slot         *)
(* (fwends-backend/api/packs.go).                                          *)
(*                                                                         *)
(* An upload is named by the id GenID gave it. Transactions on the pack    *)
(* tables are the atomic operations of PackStore; PackTransactions         *)
(* justifies that.                                                         *)
(***************************************************************************)
EXTENDS PackStore

CONSTANT
    Faults      \* what may go wrong, a subset of FaultKinds

FaultKinds ==
    { "crash",         \* the backend process dies, with all its goroutines
      "insert",        \* INSERT INTO resources reports an error
      "put",           \* PutObject reports an error
      "txn",           \* the pack transaction reports an error and rolled back
      "commitLost",    \* it reports an error although it was committed
      "pruneTx",       \* the transaction of pruneResource reports an error
      "deleteObject",  \* DeleteObject reports an error
      "prunedRow",     \* DELETE FROM pruned_resources reports an error
      "latePut" }      \* S3 completes a PutObject whose caller gave up on it

ASSUME FaultsAssumption == Faults \subseteq FaultKinds

VARIABLES
    upload,     \* upload[r]: how far the handler of upload r got
    target,     \* target[r]: the slot that upload r is for
    resources,  \* table resources: ids of objects that may be in use
    pruned,     \* table pruned_resources: ids of objects on their way out
    objects,    \* keys of the objects in the S3 media bucket
    inflight,   \* PutObject calls abandoned by their caller, S3 still at work
    prunes      \* the running pruneResource goroutines

vars == <<store, upload, target, resources, pruned, objects, inflight, prunes>>

\* "insert", "put" and "txn" name the call the handler makes next.
UploadStages == {"unissued", "insert", "put", "txn", "over"}
Running == {"insert", "put", "txn"}

\* A goroutine was started because its own upload failed or because an
\* operation displaced the resource; "move", "object" and "row" name the call
\* it makes next: the transaction that moves the row from resources to
\* pruned_resources, DeleteObject, and the delete from pruned_resources.
Prune == [id : Resources, why : {"failed", "displaced"},
          stage : {"move", "object", "row"}]

Goroutines(ids, w) == {[id |-> r, why |-> w, stage |-> "move"] : r \in ids}

Referenced == Held(slots, Slot)

-----------------------------------------------------------------------------

TypeOK ==
    /\ StoreTypeOK
    /\ upload \in [Resources -> UploadStages]
    /\ target \in [Resources -> Slot \cup {None}]
    /\ resources \subseteq Resources
    /\ pruned \subseteq Resources
    /\ objects \subseteq Resources
    /\ inflight \subseteq Resources
    /\ prunes \subseteq Prune

Init ==
    /\ StoreInit
    /\ upload = [r \in Resources |-> "unissued"]
    /\ target = [r \in Resources |-> None]
    /\ resources = {}
    /\ pruned = {}
    /\ objects = {}
    /\ inflight = {}
    /\ prunes = {}

-----------------------------------------------------------------------------
(* The upload handler.                                                     *)

\* The pack is there and GenID returned r; from here on the deferred function
\* prunes r unless the transaction was seen to commit.
BeginUpload(r, s) ==
    /\ upload[r] = "unissued"
    /\ s.pack \in packs
    /\ upload' = [upload EXCEPT ![r] = "insert"]
    /\ target' = [target EXCEPT ![r] = s]
    /\ UNCHANGED <<store, resources, pruned, objects, inflight, prunes>>

\* Mutant: the handler returns an error without having deferred the prune.
FailUploadNoPrune(r) ==
    /\ upload' = [upload EXCEPT ![r] = "over"]
    /\ UNCHANGED <<target, pruned, prunes>>

\* The deferred function: the handler returns an error and leaves a goroutine.
FailUpload(r) ==
    /\ upload' = [upload EXCEPT ![r] = "over"]
    /\ prunes' = prunes \cup Goroutines({r}, "failed")
    /\ UNCHANGED <<target, pruned>>

InsertRow(r) ==
    /\ upload[r] = "insert"
    /\ resources' = resources \cup {r}
    /\ upload' = [upload EXCEPT ![r] = "put"]
    /\ UNCHANGED <<store, target, pruned, objects, inflight, prunes>>

\* The row may be there although the caller got an error.
InsertFails(r) ==
    /\ "insert" \in Faults
    /\ upload[r] = "insert"
    /\ resources' \in {resources, resources \cup {r}}
    /\ FailUpload(r)
    /\ UNCHANGED <<store, objects, inflight>>

PutObject(r) ==
    /\ upload[r] = "put"
    /\ objects' = objects \cup {r}
    /\ upload' = [upload EXCEPT ![r] = "txn"]
    /\ UNCHANGED <<store, target, resources, pruned, inflight, prunes>>

\* The object is stored, is not, or will be.
PutFails(r) ==
    /\ "put" \in Faults
    /\ upload[r] = "put"
    /\ \/ objects' \in {objects, objects \cup {r}} /\ UNCHANGED inflight
       \/ /\ "latePut" \in Faults
          /\ inflight' = inflight \cup {r}
          /\ UNCHANGED objects
    /\ FailUpload(r)
    /\ UNCHANGED <<store, resources>>

LatePut(r) ==
    /\ r \in inflight
    /\ objects' = objects \cup {r}
    /\ inflight' = inflight \ {r}
    /\ UNCHANGED <<store, upload, target, resources, pruned, prunes>>

\* The transaction, retries included; the foreign key on resource_id wants the
\* row of table resources.
PutSlot(r) ==
    /\ upload[r] = "txn"
    /\ r \in resources
    /\ PutRow(target[r], r)

\* Mutant: the resource that was displaced is not pruned.
CommitForgetsPrevious(r) ==
    /\ PutSlot(r)
    /\ upload' = [upload EXCEPT ![r] = "over"]
    /\ UNCHANGED <<target, resources, pruned, objects, inflight, prunes>>

Commit(r) ==
    /\ PutSlot(r)
    /\ upload' = [upload EXCEPT ![r] = "over"]
    /\ prunes' = prunes \cup Goroutines(Held(slots, {target[r]}), "displaced")
    /\ UNCHANGED <<target, resources, pruned, objects, inflight>>

\* The pack was deleted since BeginUpload.
PackNotFound(r) ==
    /\ upload[r] = "txn"
    /\ target[r].pack \notin packs
    /\ FailUpload(r)
    /\ UNCHANGED <<store, resources, objects, inflight>>

CommitFails(r) ==
    /\ "txn" \in Faults
    /\ upload[r] = "txn"
    /\ FailUpload(r)
    /\ UNCHANGED <<store, resources, objects, inflight>>

\* Committed, but the handler does not know: it prunes its own resource and
\* nobody prunes the one it displaced.
CommitLost(r) ==
    /\ "commitLost" \in Faults
    /\ PutSlot(r)
    /\ FailUpload(r)
    /\ UNCHANGED <<resources, objects, inflight>>

-----------------------------------------------------------------------------
(* The other pack operations. The deletions start one goroutine for each   *)
(* id their transaction returned, unless they lost its outcome.            *)

media == <<upload, target, resources, pruned, objects, inflight>>

CreateOrUpdate ==
    /\ \E p \in Packs, t \in Titles : CreatePack(p, t) \/ UpdatePack(p, t)
    /\ UNCHANGED <<media, prunes>>

PruneHeld(S) ==
    /\ \/ prunes' = prunes \cup Goroutines(Held(slots, S), "displaced")
       \/ "commitLost" \in Faults /\ UNCHANGED prunes
    /\ UNCHANGED media

PackDeletion == \E p \in Packs : DeletePack(p) /\ PruneHeld(OfPack(p))

RoleDeletion ==
    \E p \in Packs, o \in Roles : DeletePackRole(p, o) /\ PruneHeld(OfRole(p, o))

StringDeletion ==
    \E p \in Packs, o \in Roles, t \in Strings :
        DeletePackString(p, o, t) /\ PruneHeld(OfString(p, o, t))

Delete == PackDeletion \/ RoleDeletion \/ StringDeletion

-----------------------------------------------------------------------------
(* pruneResource, run by goroutine g. Any error ends it.                   *)

others == <<store, upload, target, inflight>>

Advance(g, s) == prunes' = (prunes \ {g}) \cup {[g EXCEPT !.stage = s]}
Stop(g) == prunes' = prunes \ {g}

\* Mutant: no foreign key protects a row in use.
MoveRowUnchecked(r) ==
    /\ resources' = resources \ {r}
    /\ pruned' = pruned \cup ({r} \cap resources)
    /\ UNCHANGED objects

\* Mutant: the row is deleted but not inserted into pruned_resources.
MoveRowDrops(r) ==
    /\ r \notin Referenced
    /\ resources' = resources \ {r}
    /\ UNCHANGED <<pruned, objects>>

\* One transaction deletes the row from resources, which the foreign key of
\* pack_resources refuses while a slot refers to it, and if there was a row
\* inserts it into pruned_resources.
MoveRow(r) ==
    /\ r \notin Referenced
    /\ resources' = resources \ {r}
    /\ pruned' = pruned \cup ({r} \cap resources)
    /\ UNCHANGED objects

PruneMove(g) ==
    /\ g.stage = "move"
    /\ MoveRow(g.id)
    /\ Advance(g, "object")
    /\ UNCHANGED others

\* Mutant: the error of the refused transaction is ignored.
PruneRefusedContinues(g) ==
    /\ g.stage = "move"
    /\ g.id \in Referenced
    /\ Advance(g, "object")
    /\ UNCHANGED <<others, resources, pruned, objects>>

PruneRefused(g) ==
    /\ g.stage = "move"
    /\ g.id \in Referenced
    /\ Stop(g)
    /\ UNCHANGED <<others, resources, pruned, objects>>

\* The transaction may have been committed although the caller got an error.
PruneMoveFails(g) ==
    /\ "pruneTx" \in Faults
    /\ g.stage = "move"
    /\ MoveRow(g.id) \/ UNCHANGED <<resources, pruned, objects>>
    /\ Stop(g)
    /\ UNCHANGED others

\* Also when the transaction found no row.
PruneObject(g) ==
    /\ g.stage = "object"
    /\ objects' = objects \ {g.id}
    /\ Advance(g, "row")
    /\ UNCHANGED <<others, resources, pruned>>

PruneObjectFails(g) ==
    /\ "deleteObject" \in Faults
    /\ g.stage = "object"
    /\ objects' \in {objects, objects \ {g.id}}
    /\ Stop(g)
    /\ UNCHANGED <<others, resources, pruned>>

PruneRow(g) ==
    /\ g.stage = "row"
    /\ \/ pruned' = pruned \ {g.id}
       \/ "prunedRow" \in Faults /\ UNCHANGED pruned
    /\ Stop(g)
    /\ UNCHANGED <<others, resources, objects>>

-----------------------------------------------------------------------------

\* The process is killed and restarted: handlers and goroutines are gone, what
\* they stored stays. S3 may still be at work on the calls that were cut off.
Crash ==
    /\ "crash" \in Faults
    /\ upload' = [r \in Resources |->
                    IF upload[r] \in Running THEN "over" ELSE upload[r]]
    /\ prunes' = {}
    /\ inflight' = inflight \cup {r \in Resources : upload[r] = "put"}
    /\ UNCHANGED <<store, target, resources, pruned, objects>>

\* S3 drops a call that was cut off.
DropPut(r) ==
    /\ r \in inflight
    /\ inflight' = inflight \ {r}
    /\ UNCHANGED <<store, upload, target, resources, pruned, objects, prunes>>

UploadStep(r) ==
    \/ InsertRow(r) \/ InsertFails(r)
    \/ PutObject(r) \/ PutFails(r)
    \/ Commit(r) \/ PackNotFound(r) \/ CommitFails(r) \/ CommitLost(r)

PruneStep(g) ==
    \/ PruneMove(g) \/ PruneRefused(g) \/ PruneMoveFails(g)
    \/ PruneObject(g) \/ PruneObjectFails(g)
    \/ PruneRow(g)

Next ==
    \/ CreateOrUpdate
    \/ Delete
    \/ \E r \in Resources, s \in Slot : BeginUpload(r, s)
    \/ \E r \in Resources : UploadStep(r) \/ LatePut(r) \/ DropPut(r)
    \/ \E g \in prunes : PruneStep(g)
    \/ Crash

Spec == Init /\ [][Next]_vars

\* Handlers and goroutines that can take a step eventually do: their calls
\* return, with a result or with an error. Requests need never arrive.
Fairness ==
    /\ \A r \in Resources : WF_vars(UploadStep(r))
    /\ \A r \in Resources :
          WF_vars(\E g \in prunes : g.id = r /\ PruneStep(g))

FairSpec == Spec /\ Fairness

-----------------------------------------------------------------------------
(* Properties.                                                             *)

\* A pack never shows media that is gone: whatever fails or crashes, in every
\* interleaving of uploads, deletions and prunes, the object behind a slot is
\* in the bucket.
ReferencedHasObject == Referenced \subseteq objects

\* Every object can be found from the database: it is announced in resources
\* before it is stored (packs.go:397), and it leaves pruned_resources after it
\* was deleted.
ObjectsTracked == objects \subseteq resources \cup pruned

\* No row waits for nobody: a row of resources is in use, or its upload is
\* still running, or a goroutine is about to move it; a row of pruned_resources
\* has a goroutine that will delete it.
Accounted ==
    /\ \A r \in resources :
          \/ r \in Referenced
          \/ upload[r] \in Running
          \/ \E g \in prunes : g.id = r /\ g.stage = "move"
    /\ \A r \in pruned :
          \E g \in prunes : g.id = r /\ g.stage \in {"object", "row"}

\* An object is only deleted after its upload is over and its row was moved
\* out of table resources, where a slot could have been pointed at it.
DeletedLast ==
    [][\A r \in objects \ objects' : upload[r] = "over" /\ r \notin resources]_vars

\* Media that no slot refers to once its upload is over goes away for good,
\* from the bucket and from both tables.
Reclaimed ==
    \A r \in Resources :
        upload[r] = "over" /\ r \notin Referenced
            ~> [](r \notin objects \cup resources \cup pruned)
=============================================================================
