------------------------ MODULE PackResources_proofs ------------------------
(***************************************************************************)
(* The media of a pack are never lost, for any number of packs, roles,     *)
(* strings and uploads and for any combination of faults.                  *)
(***************************************************************************)
EXTENDS PackResources, PackStore_proofs

\* What upload r has stored so far, by its stage.
UploadOK(r) ==
    /\ upload[r] \in Running => target[r] \in Slot
    /\ upload[r] \in {"unissued", "insert"} => r \notin resources
    /\ upload[r] \in {"put", "txn"} => r \in resources
    /\ upload[r] = "txn" => r \in objects

\* A resource in a slot has its row and its object, and its upload is over.
ReferencedOK(r) == r \in objects /\ r \in resources /\ upload[r] = "over"

\* A goroutine prunes what no upload works on, and before it comes to the
\* object the row is gone. No row of a finished upload is ever inserted again,
\* so the foreign key protects every resource that is in a slot.
PruneOK(g) ==
    /\ upload[g.id] = "over"
    /\ g.stage # "move" => g.id \notin resources

LifeInv ==
    /\ TypeOK
    /\ StoreInv
    /\ \A r \in Resources : UploadOK(r)
    /\ \A r \in Referenced : ReferencedOK(r)
    /\ \A r \in freed : upload[r] = "over"
    /\ \A g \in prunes : PruneOK(g)

-----------------------------------------------------------------------------
(* The slots and the goroutines.                                           *)

LEMMA ReferencedType == StoreTypeOK => Referenced \subseteq Resources
BY HeldType DEF Referenced, StoreTypeOK

\* Whatever a set of slots holds is referenced.
LEMMA HeldReferenced == \A S : Held(slots, S) \subseteq Referenced
BY DEF Held, Referenced, InUse

LEMMA ReferencedUnchanged == UNCHANGED store => Referenced' = Referenced
BY DEF store, Referenced, Held, InUse

\* Putting r into a slot makes at most r referenced.
LEMMA ReferencedPut ==
    ASSUME StoreTypeOK, NEW s \in Slot, NEW r \in Resources, PutRow(s, r)
    PROVE  Referenced' \subseteq Referenced \cup {r}
<1> SUFFICES ASSUME NEW x \in Slot, slots'[x] # None
             PROVE  slots'[x] \in Referenced \cup {r}
  BY DEF Referenced, Held, InUse
<1>1. slots \in [Slot -> Resources \cup {None}]
  BY DEF StoreTypeOK
<1>2. slots'[x] = IF x = s THEN r ELSE slots[x]
  BY <1>1 DEF PutRow
<1>3. slots[x] # None => slots[x] \in Referenced
  BY DEF Referenced, Held, InUse
<1> QED  BY <1>2, <1>3

\* Emptying slots makes nothing referenced.
LEMMA ReferencedEmptied ==
    ASSUME NEW S, slots' = Emptied(slots, S)
    PROVE  Referenced' \subseteq Referenced
<1> SUFFICES ASSUME NEW x \in Slot, slots'[x] # None
             PROVE  slots'[x] \in Referenced
  BY DEF Referenced, Held, InUse
<1>1. slots'[x] = slots[x]
  BY DEF Emptied
<1> QED  BY <1>1 DEF Referenced, Held, InUse

\* The goroutines that an operation starts.
LEMMA GoroutinesType ==
    ASSUME NEW ids \in SUBSET Resources, NEW w \in {"failed", "displaced"}
    PROVE  /\ Goroutines(ids, w) \subseteq Prune
           /\ \A g \in Goroutines(ids, w) : g.id \in ids /\ g.stage = "move"
BY DEF Goroutines, Prune

LEMMA StoreInvUnchanged == StoreInv /\ UNCHANGED store => StoreInv'
BY DEF store, StoreInv, StoreTypeOK, HashMatches, Digest, InUse,
       SlotsHavePack, SlotsExclusive

-----------------------------------------------------------------------------

LEMMA LifeInit == Init => LifeInv
<1> SUFFICES ASSUME Init PROVE LifeInv
  OBVIOUS
<1> USE DEF Init
<1>1. StoreInv
  BY StoreInitInv
<1>2. Referenced = {}
  BY DEF StoreInit, Referenced, Held, InUse
<1>3. TypeOK
  BY <1>1 DEF TypeOK, StoreInv, UploadStages
<1>4. \A r \in Resources : UploadOK(r)
  BY DEF UploadOK, Running
<1> QED  BY <1>1, <1>2, <1>3, <1>4 DEF LifeInv, StoreInit

LEMMA BeginUploadLife ==
    ASSUME LifeInv, NEW r \in Resources, NEW s \in Slot, BeginUpload(r, s)
    PROVE  LifeInv'
<1> USE DEF BeginUpload
<1>1. StoreInv' /\ Referenced' = Referenced /\ freed' = freed
  BY StoreInvUnchanged, ReferencedUnchanged DEF LifeInv, store
<1>2. TypeOK'
  BY <1>1 DEF LifeInv, TypeOK, StoreInv, UploadStages
<1>3. \A q \in Resources : UploadOK(q)'
  BY DEF LifeInv, UploadOK, TypeOK, Running
<1>4. \A q \in Referenced' : ReferencedOK(q)'
  BY <1>1, ReferencedType DEF LifeInv, ReferencedOK, TypeOK
<1>5. \A q \in freed' : upload'[q] = "over"
  BY <1>1 DEF LifeInv, TypeOK
<1>6. \A g \in prunes' : PruneOK(g)'
  BY DEF LifeInv, PruneOK, TypeOK, Prune
<1> QED  BY <1>1, <1>2, <1>3, <1>4, <1>5, <1>6 DEF LifeInv

\* The calls of the upload handler that succeed before its transaction.
LEMMA UploadProceedsLife ==
    ASSUME LifeInv, NEW r \in Resources, InsertRow(r) \/ PutObject(r)
    PROVE  LifeInv'
<1> USE DEF InsertRow, PutObject
<1>1. StoreInv' /\ Referenced' = Referenced /\ freed' = freed
  BY StoreInvUnchanged, ReferencedUnchanged DEF LifeInv, store
<1>2. TypeOK'
  BY <1>1 DEF LifeInv, TypeOK, StoreInv, UploadStages
<1>3. \A q \in Resources : UploadOK(q)'
  BY DEF LifeInv, UploadOK, TypeOK, Running
<1>4. \A q \in Referenced' : ReferencedOK(q)'
  BY <1>1, ReferencedType DEF LifeInv, ReferencedOK, TypeOK
<1>5. \A q \in freed' : upload'[q] = "over"
  BY <1>1 DEF LifeInv, TypeOK, StoreTypeOK
<1>6. \A g \in prunes' : PruneOK(g)'
  BY DEF LifeInv, PruneOK, TypeOK, Prune
<1> QED  BY <1>1, <1>2, <1>3, <1>4, <1>5, <1>6 DEF LifeInv

\* The errors of the upload handler that leave the pack tables alone.
LEMMA UploadFailsLife ==
    ASSUME LifeInv, NEW r \in Resources,
           InsertFails(r) \/ PutFails(r) \/ PackNotFound(r) \/ CommitFails(r)
    PROVE  LifeInv'
<1> USE DEF InsertFails, PutFails, PackNotFound, CommitFails, FailUpload
<1>1. StoreInv' /\ Referenced' = Referenced /\ freed' = freed
  BY StoreInvUnchanged, ReferencedUnchanged DEF LifeInv, store
<1>2. /\ upload[r] \in Running
      /\ upload' = [upload EXCEPT ![r] = "over"]
      /\ target' = target
      /\ objects \subseteq objects' /\ objects' \subseteq objects \cup {r}
      /\ resources \subseteq resources' /\ resources' \subseteq resources \cup {r}
      /\ prunes' = prunes \cup Goroutines({r}, "failed")
      /\ pruned' = pruned /\ inflight' \subseteq inflight \cup {r}
  BY DEF Running
<1> HIDE DEF InsertFails, PutFails, PackNotFound, CommitFails, FailUpload
<1>3. /\ Goroutines({r}, "failed") \subseteq Prune
      /\ \A g \in Goroutines({r}, "failed") : g.id = r /\ g.stage = "move"
  BY GoroutinesType
<1>4. TypeOK'
  BY <1>1, <1>2, <1>3 DEF LifeInv, TypeOK, StoreInv, UploadStages
<1>5. \A q \in Resources : UploadOK(q)'
  BY <1>2 DEF LifeInv, UploadOK, TypeOK, Running
<1>6. \A q \in Referenced' : ReferencedOK(q)'
  BY <1>1, <1>2, ReferencedType DEF LifeInv, ReferencedOK, TypeOK, Running
<1>7. \A q \in freed' : upload'[q] = "over"
  BY <1>1, <1>2 DEF LifeInv, TypeOK
<1>8. \A g \in prunes' : PruneOK(g)'
  BY <1>2, <1>3 DEF LifeInv, PruneOK, TypeOK, Prune, Running
<1> QED  BY <1>1, <1>4, <1>5, <1>6, <1>7, <1>8 DEF LifeInv

\* An upload whose transaction may commit has an id no slot ever held.
LEMMA PutSlotPuts ==
    ASSUME LifeInv, NEW r \in Resources, PutSlot(r)
    PROVE  target[r] \in Slot /\ PutResource(target[r], r)
<1>1. target[r] \in Slot
  BY DEF PutSlot, LifeInv, UploadOK, Running
<1>2. r \notin freed /\ r \notin Referenced
  BY DEF PutSlot, LifeInv, ReferencedOK
<1> QED  BY <1>1, <1>2 DEF PutResource, PutSlot, Referenced

\* Whether or not the handler learns of it.
LEMMA CommitLife ==
    ASSUME LifeInv, NEW r \in Resources, Commit(r) \/ CommitLost(r)
    PROVE  LifeInv'
<1>1. PutSlot(r)
  BY DEF Commit, CommitLost
<1>2. target[r] \in Slot /\ PutRow(target[r], r) /\ upload[r] = "txn"
  BY <1>1, PutSlotPuts DEF PutSlot
<1>3. StoreInv'
  BY <1>1, PutSlotPuts, PutResourceInv DEF LifeInv
<1>4. Referenced' \subseteq Referenced \cup {r} /\ freed' \subseteq freed \cup Referenced
  BY <1>2, ReferencedPut, HeldReferenced DEF LifeInv, TypeOK, PutRow
<1>5. PICK ids \in SUBSET (Referenced \cup {r}) :
        \E w \in {"failed", "displaced"} : prunes' = prunes \cup Goroutines(ids, w)
  BY HeldReferenced DEF Commit, CommitLost, FailUpload
<1>6. ids \in SUBSET Resources
  BY ReferencedType DEF LifeInv, TypeOK
<1>7. /\ upload' = [upload EXCEPT ![r] = "over"]
      /\ UNCHANGED <<target, resources, pruned, objects, inflight>>
  BY DEF Commit, CommitLost, FailUpload
<1>8. PICK new : /\ prunes' = prunes \cup new
                 /\ new \subseteq Prune
                 /\ \A g \in new : g.id \in ids /\ g.stage = "move"
  BY <1>5, <1>6, GoroutinesType
<1>9. TypeOK'
  BY <1>3, <1>7, <1>8 DEF LifeInv, TypeOK, StoreInv, UploadStages
<1>10. \A q \in Resources : UploadOK(q)'
  BY <1>7 DEF LifeInv, UploadOK, TypeOK, Running
<1>11. \A q \in Referenced' : ReferencedOK(q)'
  <2>1. r \in objects /\ r \in resources
    BY <1>2 DEF LifeInv, UploadOK
  <2> QED  BY <1>4, <1>7, <2>1, ReferencedType DEF LifeInv, ReferencedOK, TypeOK
<1>12. \A q \in freed' : upload'[q] = "over"
  BY <1>4, <1>7, ReferencedType DEF LifeInv, TypeOK, ReferencedOK
<1>13. \A g \in prunes' : PruneOK(g)'
  BY <1>5, <1>6, <1>7, <1>8 DEF LifeInv, PruneOK, TypeOK, Prune, ReferencedOK
<1> QED  BY <1>3, <1>9, <1>10, <1>11, <1>12, <1>13 DEF LifeInv

\* Creating and retitling packs touches no slot.
LEMMA CreateOrUpdateLife ==
    ASSUME LifeInv, CreateOrUpdate
    PROVE  LifeInv'
<1>1. StoreInv'
  BY CreatePackInv, UpdatePackInv DEF LifeInv, CreateOrUpdate
<1>2. slots' = slots /\ freed' = freed
  BY DEF CreateOrUpdate, CreatePack, UpdatePack
<1>3. Referenced' = Referenced
  BY <1>2 DEF Referenced, Held, InUse
<1> QED  BY <1>1, <1>2, <1>3
         DEF LifeInv, CreateOrUpdate, media, TypeOK, StoreInv, UploadOK,
             ReferencedOK, PruneOK

\* A deletion hands referenced ids to goroutines and leaves fewer referenced.
LEMMA DeleteLife ==
    ASSUME LifeInv, Delete
    PROVE  LifeInv'
<1>1. PICK S : /\ slots' = Emptied(slots, S)
               /\ freed' = freed \cup Held(slots, S)
               /\ PruneHeld(S)
               /\ StoreInv'
  <2>1. ASSUME NEW p \in Packs, DeletePack(p), PruneHeld(OfPack(p))
        PROVE  \E S : /\ slots' = Emptied(slots, S)
                      /\ freed' = freed \cup Held(slots, S)
                      /\ PruneHeld(S)
                      /\ StoreInv'
    BY <2>1, DeletePackInv DEF LifeInv, DeletePack
  <2>2. ASSUME NEW p \in Packs, NEW T \in SUBSET OfPack(p),
               DeleteSlots(p, T), PruneHeld(T)
        PROVE  \E S : /\ slots' = Emptied(slots, S)
                      /\ freed' = freed \cup Held(slots, S)
                      /\ PruneHeld(S)
                      /\ StoreInv'
    BY <2>2, DeleteSlotsInv DEF LifeInv, DeleteSlots
  <2>3. \A p, o, t : OfRole(p, o) \subseteq OfPack(p) /\ OfString(p, o, t) \subseteq OfPack(p)
    BY DEF OfRole, OfString
  <2> QED  BY <2>1, <2>2, <2>3
           DEF Delete, PackDeletion, RoleDeletion, StringDeletion, DeletePackRole,
                                DeletePackString
<1>2. Held(slots, S) \subseteq Referenced /\ Referenced \subseteq Resources
  BY HeldReferenced, ReferencedType DEF LifeInv, TypeOK
<1>3. Referenced' \subseteq Referenced
  BY <1>1, ReferencedEmptied
<1>4. /\ prunes' \subseteq Prune
      /\ \A g \in prunes' : g \notin prunes => g.id \in Referenced /\ g.stage = "move"
  <2>1. CASE prunes' = prunes \cup Goroutines(Held(slots, S), "displaced")
    BY <1>2, <2>1, GoroutinesType DEF LifeInv, TypeOK
  <2>2. CASE UNCHANGED prunes
    BY <2>2 DEF LifeInv, TypeOK
  <2> QED  BY <1>1, <2>1, <2>2 DEF PruneHeld
<1>5. UNCHANGED <<upload, target, resources, pruned, objects, inflight>>
  BY <1>1 DEF PruneHeld, media
<1>6. TypeOK'
  BY <1>1, <1>4, <1>5 DEF LifeInv, TypeOK, StoreInv
<1>7. \A q \in Resources : UploadOK(q)'
  BY <1>5 DEF LifeInv, UploadOK
<1>8. \A q \in Referenced' : ReferencedOK(q)'
  BY <1>3, <1>5 DEF LifeInv, ReferencedOK
<1>9. \A q \in freed' : upload'[q] = "over"
  BY <1>1, <1>2, <1>5 DEF LifeInv, ReferencedOK
<1>10. \A g \in prunes' : PruneOK(g)'
  BY <1>4, <1>5 DEF LifeInv, PruneOK, ReferencedOK
<1> QED  BY <1>1, <1>6, <1>7, <1>8, <1>9, <1>10 DEF LifeInv

-----------------------------------------------------------------------------

\* What every step of pruneResource leaves alone, and how far it gets: it may
\* take its own id out of resources, if no slot refers to it, and out of the
\* bucket, once the row is gone.
PruneEffect(g) ==
    /\ UNCHANGED <<store, upload, target, inflight>>
    /\ \/ /\ resources' = resources /\ UNCHANGED objects
       \/ /\ g.stage = "move" /\ g.id \notin Referenced
          /\ resources' = resources \ {g.id} /\ UNCHANGED objects
       \/ /\ g.stage = "object"
          /\ resources' = resources /\ objects' \in {objects, objects \ {g.id}}
    /\ pruned' \in {pruned, pruned \cup ({g.id} \cap resources), pruned \ {g.id}}
    /\ \/ prunes' = prunes \ {g}
       \/ \E s \in {"object", "row"} :
             /\ prunes' = (prunes \ {g}) \cup {[g EXCEPT !.stage = s]}
             /\ g.stage = "move" => resources' = resources \ {g.id}

LEMMA PruneStepEffect ==
    ASSUME NEW g \in prunes, PruneStep(g)
    PROVE  PruneEffect(g)
BY DEF PruneStep, PruneMove, PruneRefused, PruneMoveFails, PruneObject,
       PruneObjectFails, PruneRow, MoveRow, Advance, Stop, others, PruneEffect

LEMMA PruneStepLife ==
    ASSUME LifeInv, NEW g \in prunes, PruneStep(g)
    PROVE  LifeInv'
<1> USE DEF PruneEffect
<1>1. PruneEffect(g)
  BY PruneStepEffect
<1>2. /\ g \in Prune /\ g.id \in Resources
      /\ upload[g.id] = "over"
      /\ g.stage # "move" => g.id \notin resources
  BY DEF LifeInv, TypeOK, Prune, PruneOK
<1>3. StoreInv' /\ Referenced' = Referenced /\ freed' = freed
  BY <1>1, StoreInvUnchanged, ReferencedUnchanged DEF LifeInv, store
<1>4. \A s \in {"object", "row"} :
        LET h == [g EXCEPT !.stage = s]
        IN  h \in Prune /\ h.id = g.id /\ h.stage = s
  BY <1>2 DEF Prune
<1>5. TypeOK'
  <2>1. prunes' \subseteq Prune
    BY <1>1, <1>4 DEF LifeInv, TypeOK
  <2> QED  BY <1>1, <1>2, <1>3, <2>1 DEF LifeInv, TypeOK, StoreInv
<1>6. \A q \in Resources : UploadOK(q)'
  BY <1>1, <1>2 DEF LifeInv, UploadOK
<1>7. \A q \in Referenced' : ReferencedOK(q)'
  BY <1>1, <1>2, <1>3 DEF LifeInv, ReferencedOK
<1>8. \A q \in freed' : upload'[q] = "over"
  BY <1>1, <1>3 DEF LifeInv
<1>9. \A h \in prunes' : PruneOK(h)'
  <2> SUFFICES ASSUME NEW h \in prunes'
               PROVE  upload[h.id] = "over" /\ (h.stage # "move" => h.id \notin resources')
    BY <1>1 DEF PruneOK
  <2>1. CASE h \in prunes
    BY <1>1, <2>1 DEF LifeInv, PruneOK
  <2>2. CASE h \notin prunes
    BY <1>1, <1>2, <1>4, <2>2
  <2> QED  BY <2>1, <2>2
<1> QED  BY <1>3, <1>5, <1>6, <1>7, <1>8, <1>9 DEF LifeInv

\* Crashes, and what S3 does on its own, only add objects.
LEMMA OutsideLife ==
    ASSUME LifeInv, Crash \/ \E r \in Resources : LatePut(r) \/ DropPut(r)
    PROVE  LifeInv'
<1> USE DEF Crash, LatePut, DropPut
<1>1. StoreInv' /\ Referenced' = Referenced /\ freed' = freed
  BY StoreInvUnchanged, ReferencedUnchanged DEF LifeInv, store
<1>2. /\ \A q \in Resources : \/ upload'[q] = upload[q]
                              \/ upload[q] \in Running /\ upload'[q] = "over"
      /\ upload' \in [Resources -> UploadStages]
      /\ prunes' \subseteq prunes
      /\ objects \subseteq objects' /\ objects' \subseteq Resources
      /\ inflight' \subseteq Resources
      /\ UNCHANGED <<target, resources, pruned>>
  BY DEF LifeInv, TypeOK, UploadStages
<1> HIDE DEF Crash, LatePut, DropPut
<1>3. TypeOK'
  BY <1>1, <1>2 DEF LifeInv, TypeOK, StoreInv
<1>4. \A q \in Resources : UploadOK(q)'
  BY <1>2 DEF LifeInv, UploadOK, Running
<1>5. \A q \in Referenced' : ReferencedOK(q)'
  BY <1>1, <1>2, ReferencedType DEF LifeInv, TypeOK, ReferencedOK, Running
<1>6. \A q \in freed' : upload'[q] = "over"
  BY <1>1, <1>2 DEF LifeInv, TypeOK, StoreTypeOK, Running
<1>7. \A g \in prunes' : PruneOK(g)'
  BY <1>2 DEF LifeInv, TypeOK, Prune, PruneOK, Running
<1> QED  BY <1>1, <1>3, <1>4, <1>5, <1>6, <1>7 DEF LifeInv

LEMMA LifeStep == LifeInv /\ [Next]_vars => LifeInv'
<1> SUFFICES ASSUME LifeInv, [Next]_vars PROVE LifeInv'
  OBVIOUS
<1>1. ASSUME NEW r \in Resources, UploadStep(r)
      PROVE  LifeInv'
  BY <1>1, UploadProceedsLife, UploadFailsLife, CommitLife DEF UploadStep
<1>2. CASE UNCHANGED vars
  <2>1. StoreInv' /\ Referenced' = Referenced
    BY <1>2, StoreInvUnchanged, ReferencedUnchanged DEF LifeInv, vars
  <2> QED  BY <1>2, <2>1
           DEF vars, store, LifeInv, TypeOK, StoreInv, UploadOK, ReferencedOK, PruneOK
<1> QED  BY <1>1, <1>2, CreateOrUpdateLife, DeleteLife, BeginUploadLife,
            OutsideLife, PruneStepLife
         DEF Next

LEMMA LifeAlways == Spec => []LifeInv
BY LifeInit, LifeStep, PTL DEF Spec

-----------------------------------------------------------------------------

\* Every variable keeps its type.
THEOREM ResourcesTypeOK == Spec => []TypeOK
<1>1. LifeInv => TypeOK
  BY DEF LifeInv
<1> QED  BY <1>1, LifeAlways, PTL

\* The object of every resource that a slot refers to is in the bucket, with
\* any number of concurrent uploads, deletions and prunes and with all faults,
\* a PutObject that takes effect late included.
THEOREM ResourcesReferenced == Spec => []ReferencedHasObject
<1>1. LifeInv => ReferencedHasObject
  BY DEF LifeInv, ReferencedHasObject, ReferencedOK
<1> QED  BY <1>1, LifeAlways, PTL

\* No resource is in two slots or in a slot after it was freed.
THEOREM ResourcesExclusive == Spec => []SlotsExclusive
<1>1. LifeInv => SlotsExclusive
  BY DEF LifeInv, StoreInv
<1> QED  BY <1>1, LifeAlways, PTL

\* The hash of every pack is that of the slots it has now.
THEOREM ResourcesHashMatches == Spec => []HashMatches
<1>1. LifeInv => HashMatches
  BY DEF LifeInv, StoreInv
<1> QED  BY <1>1, LifeAlways, PTL

-----------------------------------------------------------------------------
(* Steps, seen from the bucket and from the pack tables.                   *)

\* Only a goroutine that moved the row away deletes an object.
LEMMA DeletesLast ==
    ASSUME LifeInv, [Next]_vars
    PROVE  \A r \in objects \ objects' : upload[r] = "over" /\ r \notin resources
<1>1. ASSUME NEW g \in prunes, PruneStep(g), NEW r \in objects \ objects'
      PROVE  upload[r] = "over" /\ r \notin resources
  <2>1. g.stage = "object" /\ r = g.id
    BY <1>1, PruneStepEffect DEF PruneEffect
  <2> QED  BY <2>1 DEF LifeInv, PruneOK
<1>2. CASE ~ \E g \in prunes : PruneStep(g)
  <2>1. objects \subseteq objects'
    BY <1>2
    DEF Next, vars, CreateOrUpdate, Delete, PackDeletion, RoleDeletion,
        StringDeletion, PruneHeld, media, BeginUpload,
        UploadStep, InsertRow, InsertFails, PutObject, PutFails, Commit,
        PackNotFound, CommitFails, CommitLost, LatePut, DropPut, Crash
  <2> QED  BY <2>1
<1> QED  BY <1>1, <1>2

\* An object is only deleted after its upload is over and its row is gone.
THEOREM ResourcesDeletedLast == Spec => DeletedLast
BY LifeAlways, DeletesLast, PTL DEF Spec, DeletedLast

\* Each step is one operation on the pack tables or leaves them alone.
LEMMA StepsImplement == LifeInv /\ [Next]_vars => [StoreNext]_store
<1> SUFFICES ASSUME LifeInv, [Next]_vars PROVE [StoreNext]_store
  OBVIOUS
<1>1. ASSUME NEW r \in Resources, UploadStep(r)
      PROVE  [StoreNext]_store
  <2>1. CASE Commit(r) \/ CommitLost(r)
    <3>1. PutSlot(r)
      BY <2>1 DEF Commit, CommitLost
    <3>2. target[r] \in Slot /\ PutResource(target[r], r)
      BY <3>1, PutSlotPuts
    <3> QED  BY <3>2 DEF StoreNext
  <2>2. CASE ~(Commit(r) \/ CommitLost(r))
    BY <1>1, <2>2
    DEF UploadStep, InsertRow, InsertFails, PutObject, PutFails, PackNotFound,
        CommitFails
  <2> QED  BY <2>1, <2>2
<1>2. CASE CreateOrUpdate
  BY <1>2 DEF CreateOrUpdate, StoreNext
<1>3. CASE Delete
  BY <1>3 DEF Delete, PackDeletion, RoleDeletion, StringDeletion, StoreNext
<1>4. ASSUME NEW g \in prunes, PruneStep(g)
      PROVE  [StoreNext]_store
  BY <1>4, PruneStepEffect DEF PruneEffect
<1>5. ASSUME \/ Crash
             \/ UNCHANGED vars
             \/ \E r \in Resources : LatePut(r) \/ DropPut(r)
             \/ \E r \in Resources, s \in Slot : BeginUpload(r, s)
      PROVE  [StoreNext]_store
  BY <1>5 DEF Crash, vars, LatePut, DropPut, BeginUpload
<1> QED  BY <1>1, <1>2, <1>3, <1>4, <1>5 DEF Next

\* The life of the media implements the abstract store: whatever faults there
\* are, the pack tables only ever change by its atomic operations.
THEOREM ResourcesImplementStore == Spec => StoreSpec
<1>1. Init => StoreInit
  BY DEF Init
<1> QED  BY <1>1, LifeAlways, StepsImplement, PTL DEF Spec, StoreSpec

-----------------------------------------------------------------------------
(* Unless S3 completes calls after their caller gave up, every object is   *)
(* found from the database.                                                *)

\* A PutObject that a crash cut off has its row, and nothing prunes it.
InflightOK(r) ==
    /\ r \in resources /\ upload[r] = "over" /\ r \notin Referenced
    /\ \A g \in prunes : g.id # r

\* Once a goroutine has deleted the object, the object does not come back.
TrackInv ==
    /\ LifeInv
    /\ ObjectsTracked
    /\ \A r \in inflight : InflightOK(r)
    /\ \A g \in prunes : g.stage = "row" => g.id \notin objects

LEMMA TrackInit == Init => TrackInv
<1>1. Init => ObjectsTracked /\ inflight = {} /\ prunes = {}
  BY DEF Init, ObjectsTracked
<1> QED  BY <1>1, LifeInit DEF TrackInv

\* What a running upload changes: its own object and row appear, and new
\* goroutines are for itself or for what it displaced.
LEMMA UploadStepEffect ==
    ASSUME "latePut" \notin Faults, LifeInv, NEW r \in Resources, UploadStep(r)
    PROVE  /\ upload[r] \in Running
           /\ \A q \in Resources \ {r} : upload'[q] = upload[q]
           /\ resources \subseteq resources' /\ UNCHANGED <<pruned, inflight>>
           /\ objects' \subseteq objects \cup ({r} \cap resources)
           /\ Referenced' \subseteq Referenced \cup {r}
           /\ \A g \in prunes' \ prunes : /\ g.id \in Referenced \cup {r}
                                          /\ g.stage = "move"
<1>1. CASE InsertRow(r) \/ PutObject(r)
  <2>1. Referenced' = Referenced
    BY <1>1, ReferencedUnchanged DEF InsertRow, PutObject
  <2>2. upload[r] = "put" => r \in resources
    BY DEF LifeInv, UploadOK
  <2> QED  BY <1>1, <2>1, <2>2
           DEF LifeInv, TypeOK, InsertRow, PutObject, Running
<1>2. CASE InsertFails(r) \/ PutFails(r) \/ PackNotFound(r) \/ CommitFails(r)
  <2>1. Referenced' = Referenced
    BY <1>2, ReferencedUnchanged DEF InsertFails, PutFails, PackNotFound, CommitFails
  <2>2. upload[r] = "put" => r \in resources
    BY DEF LifeInv, UploadOK
  <2>3. /\ upload' = [upload EXCEPT ![r] = "over"]
        /\ prunes' = prunes \cup Goroutines({r}, "failed")
        /\ UNCHANGED <<pruned, inflight>>
    BY <1>2 DEF InsertFails, PutFails, PackNotFound, CommitFails, FailUpload
  <2>4. \A g \in Goroutines({r}, "failed") : g.id = r /\ g.stage = "move"
    BY GoroutinesType
  <2>5. /\ upload[r] \in Running
        /\ resources \subseteq resources'
        /\ objects' \subseteq objects \cup ({r} \cap resources)
    BY <1>2, <2>2 DEF InsertFails, PutFails, PackNotFound, CommitFails, Running
  <2> QED  BY <2>1, <2>3, <2>4, <2>5 DEF LifeInv, TypeOK
<1>3. CASE Commit(r) \/ CommitLost(r)
  <2>1. PutSlot(r)
    BY <1>3 DEF Commit, CommitLost
  <2>2. Referenced' \subseteq Referenced \cup {r}
    BY <2>1, PutSlotPuts, ReferencedPut DEF LifeInv, TypeOK, PutSlot
  <2>3. Referenced \subseteq Resources
    BY ReferencedType DEF LifeInv, TypeOK
  <2>4. PICK ids \in SUBSET (Referenced \cup {r}) :
          \E w \in {"failed", "displaced"} : prunes' = prunes \cup Goroutines(ids, w)
    BY <1>3, HeldReferenced DEF Commit, CommitLost, FailUpload
  <2>5. \A g \in prunes' \ prunes : g.id \in ids /\ g.stage = "move"
    BY <2>3, <2>4, GoroutinesType
  <2>6. /\ upload' = [upload EXCEPT ![r] = "over"]
        /\ UNCHANGED <<resources, pruned, objects, inflight>>
    BY <1>3 DEF Commit, CommitLost, FailUpload
  <2> QED  BY <2>1, <2>2, <2>4, <2>5, <2>6 DEF PutSlot, Running, LifeInv, TypeOK
<1> QED  BY <1>1, <1>2, <1>3 DEF UploadStep

LEMMA UploadStepTrack ==
    ASSUME "latePut" \notin Faults, TrackInv, LifeInv',
           NEW r \in Resources, UploadStep(r)
    PROVE  TrackInv'
<1> USE DEF TrackInv
<1>1. /\ upload[r] \in Running
      /\ \A q \in Resources \ {r} : upload'[q] = upload[q]
      /\ resources \subseteq resources' /\ UNCHANGED <<pruned, inflight>>
      /\ objects' \subseteq objects \cup ({r} \cap resources)
      /\ Referenced' \subseteq Referenced \cup {r}
      /\ \A g \in prunes' \ prunes : /\ g.id \in Referenced \cup {r}
                                     /\ g.stage = "move"
  BY UploadStepEffect
<1>2. ObjectsTracked'
  BY <1>1 DEF ObjectsTracked
<1>3. \A q \in inflight' : InflightOK(q)'
  BY <1>1 DEF InflightOK, LifeInv, TypeOK, Running
<1>4. \A g \in prunes' : g.stage = "row" => g.id \notin objects'
  <2> SUFFICES ASSUME NEW g \in prunes', g.stage = "row"
               PROVE  g.id \notin objects'
    OBVIOUS
  <2>1. g \in prunes /\ g.id # r
    BY <1>1 DEF LifeInv, PruneOK, Running
  <2> QED  BY <1>1, <2>1
<1> QED  BY <1>2, <1>3, <1>4

LEMMA DeleteTrack ==
    ASSUME TrackInv, LifeInv', Delete
    PROVE  TrackInv'
<1> USE DEF TrackInv
<1>1. PICK S : slots' = Emptied(slots, S) /\ PruneHeld(S)
  BY DEF Delete, PackDeletion, RoleDeletion, StringDeletion, DeletePack,
         DeletePackRole, DeletePackString, DeleteSlots
<1>2. Referenced' \subseteq Referenced
  BY <1>1, ReferencedEmptied
<1>3. \A g \in prunes' \ prunes : g.id \in Referenced /\ g.stage = "move"
  <2>1. Held(slots, S) \subseteq Referenced /\ Referenced \subseteq Resources
    BY HeldReferenced, ReferencedType DEF LifeInv, TypeOK
  <2>2. \A g \in Goroutines(Held(slots, S), "displaced") :
          g.id \in Referenced /\ g.stage = "move"
    BY <2>1, GoroutinesType
  <2> QED  BY <1>1, <2>2 DEF PruneHeld
<1>4. UNCHANGED <<upload, resources, pruned, objects, inflight>>
  BY <1>1 DEF PruneHeld, media
<1> QED  BY <1>2, <1>3, <1>4 DEF ObjectsTracked, InflightOK

\* The row leaves pruned_resources only after the object was deleted, and no
\* call still at work on the object has a goroutine.
LEMMA PruneStepTrack ==
    ASSUME TrackInv, LifeInv', NEW g \in prunes, PruneStep(g)
    PROVE  TrackInv'
<1> USE DEF TrackInv
<1>1. PruneEffect(g)
  BY PruneStepEffect
<1>2. g \in Prune /\ g.id \in Resources /\ g.id \notin inflight
  BY DEF LifeInv, TypeOK, Prune, InflightOK
<1>3. Referenced' = Referenced
  BY <1>1, ReferencedUnchanged DEF PruneEffect
<1>4. ObjectsTracked'
  <2>1. CASE PruneRow(g)
    BY <2>1 DEF PruneRow, ObjectsTracked, others
  <2>2. CASE PruneMove(g) \/ PruneMoveFails(g)
    BY <2>2 DEF PruneMove, PruneMoveFails, MoveRow, ObjectsTracked, others
  <2>3. CASE PruneRefused(g) \/ PruneObject(g) \/ PruneObjectFails(g)
    BY <2>3 DEF PruneRefused, PruneObject, PruneObjectFails, ObjectsTracked, others
  <2> QED  BY <2>1, <2>2, <2>3 DEF PruneStep
<1>5. \A r \in inflight' : InflightOK(r)'
  <2>1. \A h \in prunes' : h \in prunes \/ h.id = g.id
    BY <1>1, <1>2 DEF PruneEffect, Prune
  <2> QED  BY <1>1, <1>2, <1>3, <2>1 DEF PruneEffect, InflightOK
<1>6. \A h \in prunes' : h.stage = "row" => h.id \notin objects'
  <2>1. objects' \subseteq objects
    BY <1>1 DEF PruneEffect
  <2>2. ASSUME NEW h \in prunes', h \notin prunes, h.stage = "row"
        PROVE  h.id \notin objects'
    BY <1>2, <2>2
    DEF PruneStep, PruneMove, PruneRefused, PruneMoveFails, PruneObject,
        PruneObjectFails, PruneRow, Advance, Stop, Prune
  <2> QED  BY <2>1, <2>2
<1> QED  BY <1>4, <1>5, <1>6

LEMMA OutsideTrack ==
    ASSUME TrackInv, LifeInv',
           Crash \/ \E r \in Resources : LatePut(r) \/ DropPut(r)
    PROVE  TrackInv'
<1> USE DEF TrackInv
<1>1. Referenced' = Referenced
  BY ReferencedUnchanged DEF Crash, LatePut, DropPut
<1>2. CASE Crash
  <2>1. \A r \in Resources : upload[r] = "put" => r \in resources /\ r \notin Referenced
    BY DEF LifeInv, UploadOK, ReferencedOK
  <2> QED  BY <1>1, <1>2, <2>1
           DEF Crash, LifeInv, TypeOK, ObjectsTracked, InflightOK, Running
<1>3. ASSUME NEW r \in Resources, LatePut(r) \/ DropPut(r)
      PROVE  TrackInv'
  BY <1>1, <1>3 DEF LatePut, DropPut, ObjectsTracked, InflightOK
<1> QED  BY <1>2, <1>3

LEMMA TrackStep ==
    "latePut" \notin Faults /\ TrackInv /\ [Next]_vars => TrackInv'
<1> SUFFICES ASSUME "latePut" \notin Faults, TrackInv, [Next]_vars
             PROVE  TrackInv'
  OBVIOUS
<1>1. LifeInv'
  BY LifeStep DEF TrackInv
<1>2. CASE CreateOrUpdate
  <2>1. slots' = slots /\ UNCHANGED <<media, prunes>>
    BY <1>2 DEF CreateOrUpdate, CreatePack, UpdatePack
  <2>2. Referenced' = Referenced
    BY <2>1 DEF Referenced, Held, InUse
  <2> QED  BY <1>1, <2>1, <2>2 DEF media, TrackInv, ObjectsTracked, InflightOK
<1>3. ASSUME NEW r \in Resources, NEW s \in Slot, BeginUpload(r, s)
      PROVE  TrackInv'
  <2>1. Referenced' = Referenced
    BY <1>3, ReferencedUnchanged DEF BeginUpload
  <2> QED  BY <1>1, <1>3, <2>1
           DEF BeginUpload, TrackInv, ObjectsTracked, InflightOK, LifeInv, TypeOK
<1>4. CASE UNCHANGED vars
  <2>1. Referenced' = Referenced
    BY <1>4, ReferencedUnchanged DEF vars
  <2> QED  BY <1>1, <1>4, <2>1 DEF vars, TrackInv, ObjectsTracked, InflightOK
<1> QED  BY <1>1, <1>2, <1>3, <1>4, UploadStepTrack, DeleteTrack, PruneStepTrack,
            OutsideTrack
         DEF Next

\* Every object in the bucket has a row in resources or in pruned_resources,
\* through every failure and crash, if no PutObject takes effect after its
\* caller was told that it failed.
THEOREM ResourcesTracked ==
    ASSUME "latePut" \notin Faults
    PROVE  Spec => []ObjectsTracked
<1>1. TrackInv /\ [Next]_vars => TrackInv'
  BY TrackStep
<1>2. TrackInv => ObjectsTracked
  BY DEF TrackInv
<1> QED  BY <1>1, <1>2, TrackInit, PTL DEF Spec

-----------------------------------------------------------------------------
(* No row waits for nobody, as long as only requests fail: their handlers  *)
(* know what the database did, and pruning runs to its end.                *)

RequestsFailOnly ==
    Faults \cap {"crash", "commitLost", "pruneTx", "deleteObject", "prunedRow"} = {}

\* A goroutine that an operation starts is about to move its id's row.
LEMMA GoroutinesMove ==
    ASSUME NEW ids, NEW r \in ids, NEW w
    PROVE  \E g \in Goroutines(ids, w) : g.id = r /\ g.stage = "move"
<1> DEFINE g == [id |-> r, why |-> w, stage |-> "move"]
<1>1. g \in Goroutines(ids, w) /\ g.id = r /\ g.stage = "move"
  BY DEF Goroutines
<1> QED  BY <1>1

\* Only what an operation takes out of its slots stops being referenced.
LEMMA ReferencedKept ==
    ASSUME StoreTypeOK, NEW S \in SUBSET Slot,
           \A s \in Slot \ S : slots'[s] = slots[s]
    PROVE  Referenced \subseteq Referenced' \cup Held(slots, S)
<1> SUFFICES ASSUME NEW s \in Slot, slots[s] # None, s \notin S
             PROVE  slots[s] \in Referenced'
  BY DEF Referenced, Held, InUse
<1> QED  BY DEF Referenced, Held, InUse

\* Rows stay accounted for by the goroutines that were there, if nothing is
\* referenced any less and nothing was inserted or pruned.
LEMMA AccountedKept ==
    ASSUME LifeInv, Accounted,
           UNCHANGED <<resources, pruned>>, prunes \subseteq prunes',
           \A r \in Resources : upload[r] \in Running => upload'[r] \in Running,
           \A r \in Referenced \ Referenced' :
              \E g \in prunes' : g.id = r /\ g.stage = "move"
    PROVE  Accounted'
BY DEF Accounted, LifeInv, TypeOK

\* A handler that gives up leaves a goroutine for the row it may have inserted.
LEMMA UploadFailsAccounted ==
    ASSUME LifeInv, Accounted, NEW r \in Resources,
           InsertFails(r) \/ PutFails(r) \/ PackNotFound(r) \/ CommitFails(r)
    PROVE  Accounted'
<1> USE DEF InsertFails, PutFails, PackNotFound, CommitFails
<1>1. Referenced' = Referenced
  BY ReferencedUnchanged
<1>2. /\ upload' = [upload EXCEPT ![r] = "over"]
      /\ prunes' = prunes \cup Goroutines({r}, "failed")
      /\ pruned' = pruned /\ resources' \subseteq resources \cup {r}
  BY DEF FailUpload
<1> HIDE DEF InsertFails, PutFails, PackNotFound, CommitFails
<1>3. \E g \in prunes' : g.id = r /\ g.stage = "move"
  BY <1>2, GoroutinesMove
<1> QED  BY <1>1, <1>2, <1>3 DEF Accounted, LifeInv, TypeOK

\* The new resource is referenced, the one it displaced has a goroutine.
LEMMA CommitAccounted ==
    ASSUME LifeInv, Accounted, NEW r \in Resources, Commit(r)
    PROVE  Accounted'
<1>1. target[r] \in Slot /\ PutRow(target[r], r)
  BY PutSlotPuts DEF Commit, PutSlot
<1>2. slots' = [slots EXCEPT ![target[r]] = r]
  BY <1>1 DEF PutRow
<1>3. Referenced \subseteq Referenced' \cup Held(slots, {target[r]})
  BY <1>1, <1>2, ReferencedKept DEF LifeInv, TypeOK, StoreTypeOK
<1>4. r \in Referenced'
  <2>1. slots'[target[r]] = r
    BY <1>1, <1>2 DEF LifeInv, TypeOK, StoreTypeOK
  <2>2. r # None
    BY NoneAssumption
  <2> QED  BY <1>1, <2>1, <2>2 DEF Referenced, Held, InUse
<1>5. /\ upload' = [upload EXCEPT ![r] = "over"]
      /\ prunes' = prunes \cup Goroutines(Held(slots, {target[r]}), "displaced")
      /\ UNCHANGED <<resources, pruned>>
  BY DEF Commit
<1>6. \A q \in Held(slots, {target[r]}) :
        \E g \in prunes' : g.id = q /\ g.stage = "move"
  BY <1>5, GoroutinesMove
<1> SUFFICES ASSUME NEW q \in resources
             PROVE  \/ q \in Referenced'
                    \/ upload'[q] \in Running
                    \/ \E g \in prunes' : g.id = q /\ g.stage = "move"
  BY <1>5 DEF Accounted
<1>7. CASE q = r \/ q \in Referenced
  BY <1>3, <1>4, <1>6, <1>7
<1>8. CASE q # r /\ q \notin Referenced
  <2>1. upload'[q] = upload[q]
    BY <1>5, <1>8 DEF LifeInv, TypeOK
  <2> QED  BY <1>5, <1>8, <2>1 DEF Accounted
<1> QED  BY <1>7, <1>8

\* A deletion starts a goroutine for everything it takes out of a slot.
LEMMA DeleteAccounted ==
    ASSUME RequestsFailOnly, LifeInv, Accounted, Delete
    PROVE  Accounted'
<1>1. PICK S \in SUBSET Slot : slots' = Emptied(slots, S) /\ PruneHeld(S)
  <2>1. \A p, o, t : /\ OfPack(p) \subseteq Slot
                     /\ OfRole(p, o) \subseteq Slot
                     /\ OfString(p, o, t) \subseteq Slot
    BY DEF OfPack, OfRole, OfString
  <2> QED  BY <2>1
           DEF Delete, PackDeletion, RoleDeletion, StringDeletion, DeletePack,
               DeletePackRole, DeletePackString, DeleteSlots
<1>2. Referenced \subseteq Referenced' \cup Held(slots, S)
  BY <1>1, ReferencedKept DEF LifeInv, TypeOK, Emptied
<1>3. /\ prunes' = prunes \cup Goroutines(Held(slots, S), "displaced")
      /\ UNCHANGED <<upload, resources, pruned>>
  BY <1>1 DEF PruneHeld, media, RequestsFailOnly
<1>4. \A q \in Held(slots, S) : \E g \in prunes' : g.id = q /\ g.stage = "move"
  BY <1>3, GoroutinesMove
<1> QED  BY <1>2, <1>3, <1>4, AccountedKept

\* A goroutine leaves the row it answers for to itself, to the slot that
\* refused the move, or to nobody, the row being gone.
LEMMA PruneStepAccounted ==
    ASSUME RequestsFailOnly, LifeInv, Accounted, NEW g \in prunes, PruneStep(g)
    PROVE  Accounted'
<1>1. PruneMove(g) \/ PruneRefused(g) \/ PruneObject(g) \/ PruneRow(g)
  BY DEF PruneStep, PruneMoveFails, PruneObjectFails, RequestsFailOnly
<1>2. Referenced' = Referenced /\ upload' = upload
  BY <1>1, ReferencedUnchanged DEF PruneMove, PruneRefused, PruneObject, PruneRow, others
<1>3. \A s \in {"object", "row"} :
        LET h == [g EXCEPT !.stage = s]
        IN  h.id = g.id /\ h.stage = s
  BY DEF LifeInv, TypeOK, Prune
<1>4. CASE PruneMove(g)
  <2>1. /\ resources' = resources \ {g.id} /\ pruned' \subseteq pruned \cup {g.id}
        /\ prunes' = (prunes \ {g}) \cup {[g EXCEPT !.stage = "object"]}
        /\ g.stage = "move"
    BY <1>4 DEF PruneMove, MoveRow, Advance
  <2>2. \E h \in prunes' : h.id = g.id /\ h.stage = "object"
    BY <2>1, <1>3
  <2> QED  BY <1>2, <2>1, <2>2 DEF Accounted
<1>5. CASE PruneRefused(g)
  BY <1>2, <1>5 DEF PruneRefused, Stop, Accounted
<1>6. CASE PruneObject(g)
  <2>1. /\ UNCHANGED <<resources, pruned>>
        /\ prunes' = (prunes \ {g}) \cup {[g EXCEPT !.stage = "row"]}
        /\ g.stage = "object"
    BY <1>6 DEF PruneObject, Advance
  <2>2. \E h \in prunes' : h.id = g.id /\ h.stage = "row"
    BY <2>1, <1>3
  <2> QED  BY <1>2, <2>1, <2>2 DEF Accounted
<1>7. CASE PruneRow(g)
  BY <1>2, <1>7 DEF PruneRow, Stop, RequestsFailOnly, Accounted
<1> QED  BY <1>1, <1>4, <1>5, <1>6, <1>7

LEMMA AccountedStep ==
    RequestsFailOnly /\ LifeInv /\ Accounted /\ [Next]_vars => Accounted'
<1> SUFFICES ASSUME RequestsFailOnly, LifeInv, Accounted, [Next]_vars
             PROVE  Accounted'
  OBVIOUS
<1>1. ASSUME NEW r \in Resources, UploadStep(r)
      PROVE  Accounted'
  <2>1. CASE InsertRow(r) \/ PutObject(r)
    <3>1. Referenced' = Referenced
      BY <2>1, ReferencedUnchanged DEF InsertRow, PutObject
    <3> QED  BY <2>1, <3>1
             DEF InsertRow, PutObject, Accounted, LifeInv, TypeOK, Running
  <2>2. ~CommitLost(r)
    BY DEF CommitLost, RequestsFailOnly
  <2> QED  BY <1>1, <2>1, <2>2, UploadFailsAccounted, CommitAccounted DEF UploadStep
<1>2. CASE CreateOrUpdate
  <2>1. slots' = slots /\ UNCHANGED <<media, prunes>>
    BY <1>2 DEF CreateOrUpdate, CreatePack, UpdatePack
  <2>2. Referenced' = Referenced
    BY <2>1 DEF Referenced, Held, InUse
  <2> QED  BY <2>1, <2>2, AccountedKept DEF media
<1>3. ASSUME NEW r \in Resources, NEW s \in Slot, BeginUpload(r, s)
      PROVE  Accounted'
  <2>1. Referenced' = Referenced
    BY <1>3, ReferencedUnchanged DEF BeginUpload
  <2>2. \A q \in Resources : upload[q] \in Running => upload'[q] \in Running
    BY <1>3 DEF BeginUpload, LifeInv, TypeOK, Running
  <2> QED  BY <1>3, <2>1, <2>2, AccountedKept DEF BeginUpload
<1>4. ASSUME UNCHANGED vars \/ \E r \in Resources : LatePut(r) \/ DropPut(r)
      PROVE  Accounted'
  <2>1. UNCHANGED <<store, upload, resources, pruned, prunes>>
    BY <1>4 DEF vars, LatePut, DropPut
  <2>2. Referenced' = Referenced
    BY <2>1, ReferencedUnchanged
  <2> QED  BY <2>1, <2>2, AccountedKept
<1>5. ~Crash
  BY DEF Crash, RequestsFailOnly
<1> QED  BY <1>1, <1>2, <1>3, <1>4, <1>5, DeleteAccounted, PruneStepAccounted
         DEF Next

\* A row of resources is in use, in the hands of its upload or of a goroutine
\* that will move it, and a row of pruned_resources has a goroutine that will
\* delete it, whatever requests fail (late PutObject calls included).
THEOREM ResourcesAccounted ==
    ASSUME RequestsFailOnly
    PROVE  Spec => []Accounted
<1>1. Init => Accounted
  BY DEF Init, Accounted
<1>2. LifeInv /\ Accounted /\ [Next]_vars => Accounted'
  BY AccountedStep
<1> QED  BY <1>1, <1>2, LifeAlways, PTL DEF Spec
=============================================================================
