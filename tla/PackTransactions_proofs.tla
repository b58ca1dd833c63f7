----------------------- MODULE PackTransactions_proofs -----------------------
(***************************************************************************)
(* The statements of concurrent transactions amount to the atomic          *)
(* operations of PackStore, for any number of requests, packs and slots.   *)
(***************************************************************************)
EXTENDS PackTransactions, TLAPS

\* The theorems about the atomic operations, on the tables as they are here.
StoreProofs == INSTANCE PackStore_proofs WITH freed <- Returned

-----------------------------------------------------------------------------
(* The inductive invariant.                                                *)

\* What the committed tables satisfy, which is what PackStore is proved to keep.
StoreInv ==
    /\ Store!StoreTypeOK
    /\ Store!HashMatches
    /\ Store!SlotsHavePack
    /\ Store!SlotsExclusive

\* Requests at the stages they reach, inside a transaction or not.
ControlOK(t) ==
    /\ view[t] # None <=>
          pc[t] \in {"put", "drop", "hash", "store", "commit", "resources"}
    /\ view[t] = None => wrote[t] = {} /\ changed[t] = {}
    /\ pc[t] # "idle" => op[t] \in Ops
    /\ pc[t] \in {"select", "put"} => op[t].kind = "upload"
    /\ pc[t] = "delete" => op[t].kind \in {"deletePack", "deleteSlots"}
    /\ pc[t] = "drop" => op[t].kind = "deletePack"
    /\ pc[t] \in {"hash", "store"} => op[t].kind \in {"upload", "deleteSlots"}
    /\ pc[t] = "commit" => op[t].kind \in {"upload", "deletePack", "deleteSlots"}
    /\ pc[t] \in {"details", "resources"} => op[t].kind = "get"
    /\ pc[t] = "title" => op[t].kind = "update"
    /\ pc[t] \in {"idle", "select", "delete", "details", "title", "resources", "failed"}
          => ids[t] = {}

\* Until its commit, the id of an upload is nowhere but in its own view.
FreshOK(t) ==
    pc[t] # "done" =>
        /\ \A s \in Slot : slots[s] # t
        /\ \A u \in Requests : t \notin ids[u]
        /\ \A u \in Requests \ {t} :
              view[u] # None => \A s \in Slot : view[u].slots[s] # t

SlotsWritten(t) == {s \in Slot : SlotRow(s) \in wrote[t]}

\* What the view of a transaction and the committed tables have in common.
\* The row of a pack stands for more than itself: as long as nobody committed
\* it, no slot of the pack was filled or emptied, because who fills or empties
\* one stores a new hash or drops the pack.
SnapshotOK(t) ==
    LET v == view[t] IN
    v # None =>
        /\ v.packs \subseteq packIds
        /\ \A s \in Slot : v.slots[s] # None => s.pack \in v.packs
        /\ \A s \in Slot :
              SlotRow(s) \notin wrote[t] \cup changed[t] => v.slots[s] = slots[s]
        /\ \A p \in Packs : PackRow(p) \in wrote[t] => p \in packIds
        /\ \A p \in Packs :
              (p \in v.packs \/ PackRow(p) \in wrote[t]) /\ PackRow(p) \notin changed[t] =>
                  /\ p \in packs
                  /\ p \in v.packs => v.title[p] = title[p]
                  /\ \A s \in Store!OfPack(p) :
                        SlotRow(s) \notin wrote[t] => (v.slots[s] = None <=> slots[s] = None)

\* An upload has put its id into the slot and, if that was empty, is on its way
\* to store the new digest.
UploadOK(t) ==
    LET v == view[t]
        p == op[t].pack
    IN
    v # None /\ op[t].kind = "upload" =>
        /\ p \in v.packs
        /\ pc[t] = "put" => wrote[t] = {} /\ ids[t] = Store!Held(v.slots, op[t].rows)
        /\ pc[t] # "put" =>
              /\ \A s \in op[t].rows :
                    /\ v.slots[s] = t
                    /\ SlotRow(s) \notin changed[t] => ids[t] = Store!Held(slots, {s})
              /\ SlotsWritten(t) = op[t].rows
        /\ pc[t] \in {"hash", "store"} => ids[t] = {}
        /\ pc[t] = "store" => digest[t] = Store!Digest(v.slots, p)
        /\ pc[t] = "commit" /\ ids[t] = {} => v.hash[p] = Store!Digest(v.slots, p)
        /\ \A q \in Packs : PackRow(q) \in wrote[t] <=>
              q = p /\ pc[t] = "commit" /\ ids[t] = {}

\* A deletion has emptied its rows, and returns what they held if nobody else
\* has committed one of them.
DeleteOK(t) ==
    LET v == view[t]
        p == op[t].pack
    IN
    v # None /\ op[t].kind \in {"deletePack", "deleteSlots"} =>
        /\ SlotsWritten(t) \subseteq op[t].rows
        /\ \A s \in op[t].rows : v.slots[s] = None
        /\ ids[t] = {} <=> SlotsWritten(t) = {}
        /\ ~Conflict(t) =>
              /\ ids[t] = {slots[s] : s \in SlotsWritten(t)}
              /\ \A s \in SlotsWritten(t) : slots[s] # None
        /\ pc[t] \in {"hash", "store"} => ids[t] # {} /\ p \in v.packs
        /\ pc[t] = "drop" /\ ids[t] # {} => p \in v.packs
        /\ pc[t] = "store" => digest[t] = Store!Digest(v.slots, p)
        /\ \A q \in Packs : PackRow(q) \in wrote[t] => q = p /\ pc[t] = "commit"
        /\ pc[t] = "commit" /\ PackRow(p) \notin wrote[t] => ids[t] = {}
        /\ pc[t] = "commit" /\ PackRow(p) \in wrote[t] =>
              IF op[t].kind = "deletePack"
                THEN p \notin v.packs /\ v.title[p] = None /\ v.hash[p] = {}
                ELSE p \in v.packs /\ v.hash[p] = Store!Digest(v.slots, p) /\ ids[t] # {}

\* GET has read the hash of the slots it is about to read.
GetOK(t) ==
    pc[t] \in {"resources", "done"} /\ op[t].kind = "get" =>
        /\ pc[t] = "resources" =>
              /\ wrote[t] = {}
              /\ reply[t] \in [hash : Store!Digests, slots : SUBSET Slot]
              /\ reply[t].hash = Store!Digest(view[t].slots, op[t].pack)
        /\ pc[t] = "done" =>
              reply[t].hash = {<<s.role, s.string>> : s \in reply[t].slots}

RequestOK(t) ==
    /\ ControlOK(t)
    /\ FreshOK(t)
    /\ SnapshotOK(t)
    /\ UploadOK(t)
    /\ DeleteOK(t)
    /\ GetOK(t)

TransactionsInv == TypeOK /\ StoreInv /\ \A t \in Requests : RequestOK(t)

-----------------------------------------------------------------------------
(* The bridge to PackStore.                                                *)

LEMMA NullIsNoResource == None \notin Resources
  BY NoneAssumption

\* The initial tables satisfy what PackStore is proved to keep.
LEMMA StoreBegins == Store!StoreInit => StoreInv
<1>1. StoreProofs!StoreInit => StoreProofs!StoreInv
  BY StoreProofs!StoreInitInv, NullIsNoResource
<1>2. Store!StoreInit => StoreProofs!StoreInit
  BY DEF Store!StoreInit, StoreProofs!StoreInit, Store!Slot, StoreProofs!Slot
<1>3. StoreProofs!StoreInv => StoreInv
  BY DEF StoreProofs!StoreInv, StoreInv,
         Store!StoreTypeOK, Store!HashMatches, Store!SlotsHavePack, Store!SlotsExclusive,
         StoreProofs!StoreTypeOK, StoreProofs!HashMatches, StoreProofs!SlotsHavePack,
         StoreProofs!SlotsExclusive, Store!Digest, StoreProofs!Digest, Store!InUse,
         StoreProofs!InUse, Store!Slot, StoreProofs!Slot, Store!Digests, StoreProofs!Digests
<1> QED
  BY <1>1, <1>2, <1>3

\* Each of its operations keeps it.
LEMMA StoreSteps == StoreInv /\ [Store!StoreNext]_(Store!store) => StoreInv'
<1>1. StoreProofs!StoreInv /\ [StoreProofs!StoreNext]_(StoreProofs!store)
        => StoreProofs!StoreInv'
  BY StoreProofs!StoreStepInv, NullIsNoResource
<1>2. StoreInv <=> StoreProofs!StoreInv
  BY DEF StoreProofs!StoreInv, StoreInv,
         Store!StoreTypeOK, Store!HashMatches, Store!SlotsHavePack, Store!SlotsExclusive,
         StoreProofs!StoreTypeOK, StoreProofs!HashMatches, StoreProofs!SlotsHavePack,
         StoreProofs!SlotsExclusive, Store!Digest, StoreProofs!Digest, Store!InUse,
         StoreProofs!InUse, Store!Slot, StoreProofs!Slot, Store!Digests, StoreProofs!Digests
<1>3. StoreInv' <=> StoreProofs!StoreInv'
  BY DEF StoreProofs!StoreInv, StoreInv,
         Store!StoreTypeOK, Store!HashMatches, Store!SlotsHavePack, Store!SlotsExclusive,
         StoreProofs!StoreTypeOK, StoreProofs!HashMatches, StoreProofs!SlotsHavePack,
         StoreProofs!SlotsExclusive, Store!Digest, StoreProofs!Digest, Store!InUse,
         StoreProofs!InUse, Store!Slot, StoreProofs!Slot, Store!Digests, StoreProofs!Digests
<1>4. [Store!StoreNext]_(Store!store) => [StoreProofs!StoreNext]_(StoreProofs!store)
  BY DEF Store!store, StoreProofs!store, Store!StoreNext, StoreProofs!StoreNext,
         Store!CreatePack, StoreProofs!CreatePack, Store!UpdatePack, StoreProofs!UpdatePack,
         Store!PutResource, StoreProofs!PutResource, Store!PutRow, StoreProofs!PutRow,
         Store!DeletePack, StoreProofs!DeletePack, Store!DeleteSlots, StoreProofs!DeleteSlots,
         Store!DeletePackRole, StoreProofs!DeletePackRole,
         Store!DeletePackString, StoreProofs!DeletePackString,
         Store!OfPack, StoreProofs!OfPack, Store!OfRole, StoreProofs!OfRole,
         Store!OfString, StoreProofs!OfString, Store!Held, StoreProofs!Held,
         Store!Emptied, StoreProofs!Emptied, Store!Digest, StoreProofs!Digest,
         Store!InUse, StoreProofs!InUse, Store!Slot, StoreProofs!Slot
<1> QED
  BY <1>1, <1>2, <1>3, <1>4

-----------------------------------------------------------------------------
(* Rows, operations and slots.                                             *)

\* Rows of different keys or tables differ.
LEMMA RowsDiffer ==
    /\ \A p, q \in Packs : PackRow(p) = PackRow(q) => p = q
    /\ \A s, x \in Slot : SlotRow(s) = SlotRow(x) => s = x
    /\ \A p \in Packs, s \in Slot : PackRow(p) # SlotRow(s)
    /\ \A p \in Packs : PackRow(p) \in Rows
    /\ \A s \in Slot : SlotRow(s) \in Rows
  BY DEF PackRow, SlotRow, Rows

\* What each kind of request addresses.
LEMMA OpForms ==
    ASSUME NEW o \in Ops
    PROVE  /\ o.pack \in Packs
           /\ o.kind \in {"upload", "deletePack", "deleteSlots", "get", "update"}
           /\ o.rows \subseteq Store!OfPack(o.pack)
           /\ o.kind = "upload" => \E s \in Slot : o.rows = {s} /\ s.pack = o.pack
           /\ o.kind \in {"deletePack", "get"} => o.rows = Store!OfPack(o.pack)
           /\ o.kind = "deleteSlots" =>
                 \E r \in Roles :
                    \/ o.rows = Store!OfRole(o.pack, r)
                    \/ \E x \in Strings : o.rows = Store!OfString(o.pack, r, x)
<1> USE DEF Slot
<1>1. CASE \E s \in Slot : o = Upload(s)
  BY <1>1 DEF Upload, Store!OfPack, Store!Slot
<1>2. CASE \E p \in Packs : o = DeletePack(p)
  BY <1>2 DEF DeletePack
<1>3. CASE \E p \in Packs, r \in Roles : o = DeleteSlots(p, Store!OfRole(p, r))
  <2>1. PICK p \in Packs, r \in Roles : o = DeleteSlots(p, Store!OfRole(p, r))
    BY <1>3
  <2>2. Store!OfRole(p, r) \subseteq Store!OfPack(p)
    BY DEF Store!OfRole
  <2> QED
    BY <2>1, <2>2 DEF DeleteSlots
<1>4. CASE \E p \in Packs, r \in Roles, x \in Strings :
              o = DeleteSlots(p, Store!OfString(p, r, x))
  <2>1. PICK p \in Packs, r \in Roles, x \in Strings :
                o = DeleteSlots(p, Store!OfString(p, r, x))
    BY <1>4
  <2>2. Store!OfString(p, r, x) \subseteq Store!OfPack(p)
    BY DEF Store!OfString, Store!OfRole
  <2> QED
    BY <2>1, <2>2 DEF DeleteSlots
<1>5. CASE \E p \in Packs : o = GetPack(p)
  BY <1>5 DEF GetPack
<1>6. CASE \E p \in Packs : o = UpdatePack(p)
  BY <1>6 DEF UpdatePack
<1> QED
  BY <1>1, <1>2, <1>3, <1>4, <1>5, <1>6 DEF Ops

\* Digests of a pack agree on tables with the same slots in use in that pack.
LEMMA DigestDepends ==
    ASSUME NEW f, NEW g, NEW p,
           \A s \in Store!OfPack(p) : f[s] = None <=> g[s] = None
    PROVE  Store!Digest(f, p) = Store!Digest(g, p)
<1>1. {x \in Store!InUse(f) : x.pack = p} = {x \in Store!InUse(g) : x.pack = p}
  BY DEF Store!InUse, Store!OfPack
<1> QED
  BY <1>1 DEF Store!Digest

LEMMA DigestType ==
    ASSUME NEW f, NEW p
    PROVE  Store!Digest(f, p) \in Store!Digests
  BY DEF Store!Digest, Store!Digests, Store!InUse, Store!Slot

LEMMA SlotsOfPack == \A p : \A s : s \in Store!OfPack(p) <=> s \in Slot /\ s.pack = p
  BY DEF Store!OfPack, Slot

-----------------------------------------------------------------------------
(* Steps of a request that nobody else can see.                            *)

Same(u) ==
    /\ pc'[u] = pc[u] /\ op'[u] = op[u]
    /\ view'[u] = view[u] /\ wrote'[u] = wrote[u] /\ changed'[u] = changed[u]
    /\ ids'[u] = ids[u] /\ digest'[u] = digest[u] /\ reply'[u] = reply[u]

Private(t) ==
    /\ UNCHANGED tables
    /\ \A u \in Requests \ {t} : Same(u)
    /\ pc[t] # "done" /\ (pc'[t] = "done" => ids'[t] = {})

\* Ids of uploads that are not committed stay out of what t sees and returns.
KeepsFresh(t) ==
    \A u \in Requests :
        pc[u] # "done" =>
            /\ u \notin ids'[t]
            /\ u # t /\ view'[t] # None => \A s \in Slot : view'[t].slots[s] # u

\* What the invariant says of a request apart from FreshOK.
OwnOK(t) == ControlOK(t) /\ SnapshotOK(t) /\ UploadOK(t) /\ DeleteOK(t) /\ GetOK(t)

\* A request stands where it stood if neither it nor the tables changed.
LEMMA SameKeeps ==
    ASSUME NEW u \in Requests, OwnOK(u), UNCHANGED tables, Same(u)
    PROVE  OwnOK(u)'
<1> USE DEF Same, tables
<1>1. ControlOK(u)'
  BY DEF OwnOK, ControlOK
<1>2. SnapshotOK(u)'
  BY DEF OwnOK, SnapshotOK
<1>3. UploadOK(u)'
  BY DEF OwnOK, UploadOK, SlotsWritten
<1>4. DeleteOK(u)'
  BY DEF OwnOK, DeleteOK, SlotsWritten, Conflict
<1>5. GetOK(u)'
  BY DEF OwnOK, GetOK
<1> QED
  BY <1>1, <1>2, <1>3, <1>4, <1>5 DEF OwnOK

\* It is enough to look at the request that takes the step.
LEMMA PrivateKeeps ==
    ASSUME TransactionsInv, NEW t \in Requests, Private(t), KeepsFresh(t),
           RequestsTypeOK', OwnOK(t)'
    PROVE  TransactionsInv' /\ UNCHANGED Store!store
<1>1. UNCHANGED tables /\ \A u \in Requests \ {t} : Same(u)
  BY DEF Private
<1>2. Returned' = Returned
  <2>1. {u \in Requests : pc'[u] = "done"} \in
            {{u \in Requests : pc[u] = "done"}, {u \in Requests : pc[u] = "done"} \cup {t}}
    BY <1>1 DEF Same, Private
  <2>2. \A u \in Requests : pc[u] = "done" => u # t /\ ids'[u] = ids[u]
    BY <1>1 DEF Same, Private
  <2>3. pc'[t] = "done" => ids'[t] = {}
    BY DEF Private
  <2>4. ASSUME NEW r
        PROVE  r \in Returned' <=> r \in Returned
    <3>1. r \in Returned <=> \E u \in Requests : pc[u] = "done" /\ r \in ids[u]
      BY DEF Returned
    <3>2. r \in Returned' <=> \E u \in Requests : pc'[u] = "done" /\ r \in ids'[u]
      BY DEF Returned
    <3>3. \A u \in Requests \ {t} : pc'[u] = pc[u] /\ ids'[u] = ids[u]
      BY <1>1 DEF Same
    <3> QED
      BY <2>2, <2>3, <3>1, <3>2, <3>3
  <2> QED
    BY <2>4
<1>3. UNCHANGED Store!store
  BY <1>1, <1>2 DEF tables, Store!store
<1>4. StoreInv'
  BY <1>3, StoreSteps DEF TransactionsInv
<1>5. TypeOK'
  BY <1>4 DEF StoreInv, TypeOK
<1>6. \A u \in Requests \ {t} : OwnOK(u)'
  BY <1>1, SameKeeps DEF TransactionsInv, RequestOK, OwnOK
<1>7. \A u \in Requests : FreshOK(u)'
  <2> SUFFICES ASSUME NEW u \in Requests, pc'[u] # "done"
               PROVE  /\ \A s \in Slot : slots'[s] # u
                      /\ \A w \in Requests : u \notin ids'[w]
                      /\ \A w \in Requests \ {u} :
                            view'[w] # None => \A s \in Slot : view'[w].slots[s] # u
    BY DEF FreshOK
  <2>1. pc[u] # "done"
    BY <1>1 DEF Same, Private
  <2>2. FreshOK(u)
    BY DEF TransactionsInv, RequestOK
  <2>3. \A s \in Slot : slots'[s] # u
    BY <1>1, <2>1, <2>2 DEF FreshOK, tables
  <2>4. \A w \in Requests : u \notin ids'[w]
    BY <1>1, <2>1, <2>2 DEF FreshOK, Same, KeepsFresh
  <2>5. \A w \in Requests \ {u} : view'[w] # None => \A s \in Slot : view'[w].slots[s] # u
    BY <1>1, <2>1, <2>2 DEF FreshOK, Same, KeepsFresh
  <2> QED
    BY <2>3, <2>4, <2>5
<1> QED
  BY <1>3, <1>4, <1>5, <1>6, <1>7 DEF TransactionsInv, RequestOK, OwnOK

\* Outside a transaction little is left to say.
LEMMA OutsideOwn ==
    ASSUME NEW t \in Requests, view'[t] = None, ControlOK(t)', GetOK(t)'
    PROVE  OwnOK(t)'
<1>1. SnapshotOK(t)' /\ UploadOK(t)' /\ DeleteOK(t)'
  BY DEF SnapshotOK, UploadOK, DeleteOK
<1> QED
  BY <1>1 DEF OwnOK

\* What the invariant gives the request that takes a step.
LEMMA Facts ==
    ASSUME TransactionsInv, NEW t \in Requests
    PROVE  /\ RequestsTypeOK /\ Store!StoreTypeOK /\ StoreInv
           /\ OwnOK(t) /\ ControlOK(t) /\ SnapshotOK(t)
           /\ UploadOK(t) /\ DeleteOK(t) /\ GetOK(t)
  BY DEF TransactionsInv, TypeOK, RequestOK, OwnOK

LEMMA BeginKeeps ==
    ASSUME TransactionsInv, NEW t \in Requests, NEW o \in Ops, Begin(t, o)
    PROVE  TransactionsInv' /\ UNCHANGED Store!store
<1> USE DEF Begin, Goto
<1>1. RequestsTypeOK /\ ControlOK(t) /\ \A u \in Requests : FreshOK(u)
  BY Facts DEF TransactionsInv, RequestOK
<1>2. /\ pc[t] = "idle" /\ pc'[t] = First(o) /\ op'[t] = o
      /\ view'[t] = None /\ wrote'[t] = {} /\ changed'[t] = {} /\ ids'[t] = {}
  BY <1>1 DEF RequestsTypeOK, ControlOK
<1>3. o.kind \in {"upload", "deletePack", "deleteSlots", "get", "update"}
  BY OpForms
<1>4. First(o) \in {"select", "delete", "details", "title"}
  BY <1>3 DEF First
<1>5. Private(t)
  BY <1>1, <1>2, <1>4 DEF Private, Same, RequestsTypeOK, tables
<1>6. KeepsFresh(t)
  BY <1>2 DEF KeepsFresh
<1>7. RequestsTypeOK'
  BY <1>1, <1>4 DEF RequestsTypeOK
<1>8. ControlOK(t)'
  BY <1>2, <1>3, <1>4 DEF ControlOK, First
<1>9. GetOK(t)'
  BY <1>2, <1>4 DEF GetOK
<1> QED
  BY <1>2, <1>5, <1>6, <1>7, <1>8, <1>9, OutsideOwn, PrivateKeeps

\* The four retry loops begin with nothing left of the transaction that failed.
LEMMA RetryKeeps ==
    ASSUME TransactionsInv, NEW t \in Requests, Retry(t)
    PROVE  TransactionsInv' /\ UNCHANGED Store!store
<1> USE DEF Retry, Goto, Leave, InTransaction
<1>1. RequestsTypeOK /\ ControlOK(t)
  BY Facts
<1>2. /\ pc[t] \in {"put", "drop", "hash", "store", "commit"}
      /\ op[t] \in Ops /\ op[t].kind \in {"upload", "deletePack", "deleteSlots"}
  BY <1>1 DEF ControlOK
<1>3. /\ pc'[t] = First(op[t]) /\ op'[t] = op[t]
      /\ view'[t] = None /\ wrote'[t] = {} /\ changed'[t] = {} /\ ids'[t] = {}
  BY <1>1 DEF RequestsTypeOK
<1>4. First(op[t]) \in {"select", "delete"}
  BY <1>2 DEF First
<1>5. Private(t)
  BY <1>1, <1>2, <1>3, <1>4 DEF Private, Same, RequestsTypeOK, tables
<1>6. KeepsFresh(t)
  BY <1>3 DEF KeepsFresh
<1>7. RequestsTypeOK'
  BY <1>1, <1>4 DEF RequestsTypeOK, Store!Digests
<1>8. ControlOK(t)'
  BY <1>2, <1>3, <1>4 DEF ControlOK, First
<1>9. GetOK(t)'
  BY <1>2, <1>3, <1>4 DEF GetOK
<1> QED
  BY <1>3, <1>5, <1>6, <1>7, <1>8, <1>9, OutsideOwn, PrivateKeeps

LEMMA FailKeeps ==
    ASSUME TransactionsInv, NEW t \in Requests, Fail(t)
    PROVE  TransactionsInv' /\ UNCHANGED Store!store
<1> USE DEF Fail, Goto, Leave
<1>1. RequestsTypeOK /\ ControlOK(t)
  BY Facts
<1>2. /\ pc'[t] = "failed" /\ op'[t] = op[t] /\ op[t] \in Ops
      /\ view'[t] = None /\ wrote'[t] = {} /\ changed'[t] = {} /\ ids'[t] = {}
  BY <1>1 DEF RequestsTypeOK, ControlOK
<1>3. Private(t)
  BY <1>1, <1>2 DEF Private, Same, RequestsTypeOK, tables
<1>4. KeepsFresh(t)
  BY <1>2 DEF KeepsFresh
<1>5. RequestsTypeOK'
  BY <1>1 DEF RequestsTypeOK, Store!Digests
<1>6. ControlOK(t)' /\ GetOK(t)'
  BY <1>2 DEF ControlOK, GetOK
<1> QED
  BY <1>2, <1>3, <1>4, <1>5, <1>6, OutsideOwn, PrivateKeeps

\* A snapshot of the committed tables.
LEMMA CommittedType == Store!StoreTypeOK => Committed \in Tables
  BY DEF Store!StoreTypeOK, Committed, Tables, Slot

\* A transaction that has just begun sees the committed tables.
LEMMA FirstSeen ==
    ASSUME TransactionsInv, NEW t \in Requests, pc[t] \in {"select", "delete", "details"}
    PROVE  /\ Seen(t) = Committed /\ Committed \in Tables /\ Committed # None
           /\ wrote[t] = {} /\ changed[t] = {} /\ ids[t] = {} /\ op[t] \in Ops
  BY Facts, CommittedType, NoneAssumption DEF ControlOK, Seen, InTransaction

\* Resources in slots and the ids taken from slots belong to committed uploads.
LEMMA HeldFresh ==
    ASSUME TransactionsInv, NEW u \in Requests, pc[u] # "done", NEW S
    PROVE  u \notin Store!Held(slots, S)
<1>1. \A s \in Slot : slots[s] # u
  BY DEF TransactionsInv, RequestOK, FreshOK
<1> QED
  BY <1>1 DEF Store!Held, Store!InUse, Slot

LEMMA HeldType ==
    ASSUME NEW table \in [Slot -> Resources \cup {None}], NEW S
    PROVE  Store!Held(table, S) \subseteq Resources
  BY DEF Store!Held, Store!InUse, Slot

LEMMA SelectKeeps ==
    ASSUME TransactionsInv, NEW t \in Requests, Select(t)
    PROVE  TransactionsInv' /\ UNCHANGED Store!store
<1> USE DEF Select, Goto
<1>1. RequestsTypeOK /\ ControlOK(t) /\ Store!StoreTypeOK
  BY Facts
<1>2. /\ Seen(t) = Committed /\ Committed \in Tables /\ Committed # None
      /\ wrote[t] = {} /\ changed[t] = {} /\ ids[t] = {} /\ op[t] \in Ops
  BY FirstSeen
<1>3. op[t].kind = "upload" /\ op'[t] = op[t] /\ pc[t] = "select"
  BY <1>1 DEF ControlOK
<1>4. CASE op[t].pack \notin packs
  <2>1. ~(op[t].pack \in Seen(t).packs)
    BY <1>2, <1>4 DEF Committed
  <2>2. /\ pc'[t] = "failed" /\ view'[t] = None /\ wrote'[t] = {}
        /\ changed'[t] = {} /\ ids'[t] = {}
    BY <1>1, <1>2, <2>1 DEF RequestsTypeOK, Leave
  <2>3. Private(t)
    BY <1>1, <1>3, <2>1, <2>2 DEF Private, Same, RequestsTypeOK, tables, Leave
  <2>4. KeepsFresh(t)
    BY <2>2 DEF KeepsFresh
  <2>5. RequestsTypeOK'
    BY <1>1, <2>1 DEF RequestsTypeOK, Store!Digests, Leave
  <2>6. ControlOK(t)' /\ GetOK(t)'
    BY <1>2, <1>3, <2>2 DEF ControlOK, GetOK
  <2> QED
    BY <2>2, <2>3, <2>4, <2>5, <2>6, OutsideOwn, PrivateKeeps
<1>5. CASE op[t].pack \in packs
  <2>1. op[t].pack \in Seen(t).packs
    BY <1>2, <1>5 DEF Committed
  <2>2. /\ pc'[t] = "put" /\ view'[t] = Committed /\ wrote'[t] = {}
        /\ changed'[t] = {} /\ ids'[t] = Store!Held(slots, op[t].rows)
    BY <1>1, <1>2, <2>1 DEF RequestsTypeOK, Execute, Committed
  <2>3. Private(t)
    BY <1>1, <1>3, <2>1, <2>2 DEF Private, Same, RequestsTypeOK, tables, Execute
  <2>4. KeepsFresh(t)
    BY <2>2, HeldFresh DEF KeepsFresh, Committed, TransactionsInv, RequestOK, FreshOK
  <2>5. RequestsTypeOK'
    <3>1. Store!Held(slots, op[t].rows) \in SUBSET Resources
      BY <1>1, HeldType DEF Store!StoreTypeOK, Slot
    <3>2. ids' = [ids EXCEPT ![t] = Store!Held(slots, op[t].rows)]
      BY <1>2, <2>1 DEF Committed
    <3> QED
      BY <1>1, <1>2, <2>1, <3>1, <3>2 DEF RequestsTypeOK, Execute
  <2>6. ControlOK(t)' /\ GetOK(t)' /\ DeleteOK(t)'
    BY <1>2, <1>3, <2>2 DEF ControlOK, GetOK, DeleteOK
  <2>7. SnapshotOK(t)'
    BY <1>1, <1>3, <2>2, Facts
    DEF SnapshotOK, Committed, StoreInv, Store!StoreTypeOK, Store!SlotsHavePack,
        Store!InUse, Slot, tables
  <2>8. UploadOK(t)'
    <3>1. ~\E q \in Packs : PackRow(q) \in wrote'[t]
      BY <2>2
    <3> QED
      BY <1>3, <1>5, <2>2, <3>1 DEF UploadOK, Committed
  <2> QED
    BY <2>3, <2>4, <2>5, <2>6, <2>7, <2>8, PrivateKeeps DEF OwnOK
<1> QED
  BY <1>4, <1>5

\* INSERT or UPDATE: the slot holds the id of the upload, in its own view.
LEMMA PutKeeps ==
    ASSUME TransactionsInv, NEW t \in Requests, Put(t)
    PROVE  TransactionsInv' /\ UNCHANGED Store!store
<1>1. RequestsTypeOK /\ ControlOK(t) /\ SnapshotOK(t) /\ UploadOK(t)
  BY Facts
<1>2. /\ view[t] # None /\ view[t] \in Tables /\ op[t] \in Ops
      /\ op[t].kind = "upload" /\ pc[t] = "put"
  BY <1>1 DEF Put, ControlOK, RequestsTypeOK
<1>3. /\ wrote[t] = {} /\ op[t].pack \in view[t].packs
      /\ ids[t] = Store!Held(view[t].slots, op[t].rows)
  BY <1>1, <1>2 DEF UploadOK
<1>4. PICK s \in Slot : op[t].rows = {s} /\ s.pack = op[t].pack
  BY <1>2, OpForms
<1>5. op[t].pack \in Packs
  BY <1>2, OpForms
<1> DEFINE v == view[t]
           w == [v EXCEPT !.slots[s] = t]
<1>6. (CHOOSE x \in op[t].rows : TRUE) = s
  BY <1>4
<1>7. /\ w \in Tables /\ w # None
      /\ w.packs = v.packs /\ w.title = v.title /\ w.hash = v.hash
      /\ w.slots = [v.slots EXCEPT ![s] = t]
      /\ v.slots \in [Slot -> Resources \cup {None}]
  BY <1>2, NoneAssumption DEF Tables, Requests
<1>8. /\ view' = [view EXCEPT ![t] = w]
      /\ wrote' = [wrote EXCEPT ![t] = @ \cup {SlotRow(s)}]
      /\ pc' = [pc EXCEPT ![t] = IF ids[t] = {} THEN "hash" ELSE "commit"]
      /\ UNCHANGED <<tables, op, changed, ids, digest, reply>>
  BY <1>2, <1>6 DEF Put, Execute, Goto, Seen, InTransaction
<1>9. /\ view'[t] = w /\ wrote'[t] = {SlotRow(s)} /\ op'[t] = op[t]
      /\ pc'[t] = IF ids[t] = {} THEN "hash" ELSE "commit"
      /\ changed'[t] = changed[t] /\ ids'[t] = ids[t] /\ reply'[t] = reply[t]
  BY <1>1, <1>3, <1>8 DEF RequestsTypeOK
<1>10. /\ w.slots[s] = t /\ t # None
       /\ \A x \in Slot : x # s => w.slots[x] = v.slots[x]
  BY <1>7, NoneAssumption DEF Requests
<1>11. Private(t)
  BY <1>1, <1>2, <1>8, <1>9 DEF Private, Same, RequestsTypeOK
<1>12. KeepsFresh(t)
  BY <1>2, <1>9, <1>10 DEF KeepsFresh, TransactionsInv, RequestOK, FreshOK
<1>13. RequestsTypeOK'
  BY <1>1, <1>4, <1>7, <1>8, RowsDiffer DEF RequestsTypeOK
<1>14. ControlOK(t)' /\ GetOK(t)' /\ DeleteOK(t)'
  BY <1>2, <1>7, <1>9 DEF ControlOK, GetOK, DeleteOK
<1>15. SnapshotOK(t)'
  <2>1. \A x \in Slot : SlotRow(x) \in wrote'[t] <=> x = s
    BY <1>9, RowsDiffer
  <2>2. \A p \in Packs : PackRow(p) \notin wrote'[t]
    BY <1>9, RowsDiffer
  <2>3. \A p \in Packs : Store!OfPack(p) \subseteq Slot
    BY SlotsOfPack
  <2>4. UNCHANGED <<packIds, packs, title, slots>>
    BY <1>8 DEF tables
  <2> QED
    BY <1>1, <1>2, <1>3, <1>4, <1>7, <1>9, <1>10, <2>1, <2>2, <2>3, <2>4 DEF SnapshotOK
<1>16. UploadOK(t)'
  <2>1. SlotsWritten(t)' = op[t].rows
    BY <1>4, <1>9, RowsDiffer DEF SlotsWritten
  <2>2. \A p \in Packs : PackRow(p) \notin wrote'[t]
    BY <1>9, RowsDiffer
  <2>3. SlotRow(s) \notin changed[t] => v.slots[s] = slots[s]
    BY <1>1, <1>2, <1>3 DEF SnapshotOK
  <2>4. v.slots[s] = slots[s] => Store!Held(v.slots, {s}) = Store!Held(slots, {s})
    BY DEF Store!Held, Store!InUse
  <2>5. slots' = slots
    BY <1>8 DEF tables
  <2> QED
    BY <1>2, <1>3, <1>4, <1>7, <1>9, <1>10, <2>1, <2>2, <2>3, <2>4, <2>5 DEF UploadOK
<1> QED
  BY <1>11, <1>12, <1>13, <1>14, <1>15, <1>16, PrivateKeeps DEF OwnOK

-----------------------------------------------------------------------------
(* updatePackHash.                                                         *)

LEMMA ReadHashKeeps ==
    ASSUME TransactionsInv, NEW t \in Requests, ReadHash(t)
    PROVE  TransactionsInv' /\ UNCHANGED Store!store
<1>1. /\ RequestsTypeOK /\ ControlOK(t) /\ SnapshotOK(t)
      /\ UploadOK(t) /\ DeleteOK(t) /\ FreshOK(t)
  BY Facts DEF TransactionsInv, RequestOK
<1>2. /\ view[t] # None /\ op[t] \in Ops /\ pc[t] = "hash"
      /\ op[t].kind \in {"upload", "deleteSlots"}
  BY <1>1 DEF ReadHash, ControlOK
<1>3. Seen(t) = view[t]
  BY <1>2 DEF Seen, InTransaction
<1> DEFINE d == Store!Digest(view[t].slots, op[t].pack)
<1>4. d \in Store!Digests
  BY DigestType
<1> HIDE DEF d
<1>5. /\ digest' = [digest EXCEPT ![t] = d]
      /\ pc' = [pc EXCEPT ![t] = "store"]
      /\ UNCHANGED <<tables, op, view, wrote, changed, ids, reply>>
  BY <1>3 DEF ReadHash, Goto, d
<1>6. /\ pc'[t] = "store" /\ digest'[t] = d
      /\ UNCHANGED <<packIds, packs, title, hash, slots>>
  BY <1>1, <1>5 DEF RequestsTypeOK, tables
<1>7. Private(t)
  BY <1>1, <1>2, <1>5, <1>6 DEF Private, Same, RequestsTypeOK
<1>8. KeepsFresh(t)
  BY <1>5 DEF KeepsFresh, TransactionsInv, RequestOK, FreshOK
<1>9. RequestsTypeOK'
  BY <1>1, <1>4, <1>5 DEF RequestsTypeOK
<1>10. ControlOK(t)' /\ GetOK(t)'
  BY <1>1, <1>2, <1>5, <1>6 DEF ControlOK, GetOK
<1>11. SnapshotOK(t)'
  BY <1>1, <1>5, <1>6 DEF SnapshotOK
<1>12. UploadOK(t)'
  BY <1>1, <1>2, <1>5, <1>6 DEF UploadOK, SlotsWritten, d
<1>13. DeleteOK(t)'
  BY <1>1, <1>2, <1>5, <1>6 DEF DeleteOK, SlotsWritten, Conflict, d
<1> QED
  BY <1>7, <1>8, <1>9, <1>10, <1>11, <1>12, <1>13, PrivateKeeps DEF OwnOK

\* UPDATE packs SET hash: the row of the pack joins those that t wrote.
LEMMA StoreHashKeeps ==
    ASSUME TransactionsInv, NEW t \in Requests, StoreHash(t)
    PROVE  TransactionsInv' /\ UNCHANGED Store!store
<1>1. /\ RequestsTypeOK /\ ControlOK(t) /\ SnapshotOK(t)
      /\ UploadOK(t) /\ DeleteOK(t)
  BY Facts
<1>2. /\ view[t] # None /\ view[t] \in Tables /\ op[t] \in Ops /\ pc[t] = "store"
      /\ op[t].kind \in {"upload", "deleteSlots"}
  BY <1>1 DEF StoreHash, ControlOK, RequestsTypeOK
<1> DEFINE v == view[t]
           p == op[t].pack
           w == [v EXCEPT !.hash[p] = digest[t]]
<1>3. p \in Packs
  BY <1>2, OpForms
<1>4. /\ w \in Tables /\ w # None
      /\ w.packs = v.packs /\ w.title = v.title /\ w.slots = v.slots
      /\ w.hash[p] = digest[t]
  <2>1. digest[t] \in Store!Digests
    BY <1>1 DEF RequestsTypeOK
  <2>2. /\ v = [packs |-> v.packs, title |-> v.title, hash |-> v.hash, slots |-> v.slots]
        /\ v.hash \in [Packs -> Store!Digests]
    BY <1>2 DEF Tables
  <2>3. w = [packs |-> v.packs, title |-> v.title,
             hash |-> [v.hash EXCEPT ![p] = digest[t]], slots |-> v.slots]
    BY <2>2
  <2>4. [v.hash EXCEPT ![p] = digest[t]] \in [Packs -> Store!Digests]
    BY <2>1, <2>2
  <2>5. w \in Tables
    BY <1>2, <2>3, <2>4 DEF Tables
  <2> QED
    BY <1>3, <2>2, <2>3, <2>5, NoneAssumption
<1>5. Seen(t) = v
  BY <1>2 DEF Seen, InTransaction
<1>6. /\ view' = [view EXCEPT ![t] = w]
      /\ wrote' = [wrote EXCEPT ![t] = @ \cup {PackRow(p)}]
      /\ pc' = [pc EXCEPT ![t] = "commit"]
      /\ UNCHANGED <<tables, op, changed, ids, digest, reply>>
  BY <1>5 DEF StoreHash, Execute, Goto
<1>7. /\ view'[t] = w /\ wrote'[t] = wrote[t] \cup {PackRow(p)} /\ pc'[t] = "commit"
      /\ op'[t] = op[t] /\ ids'[t] = ids[t] /\ changed'[t] = changed[t]
      /\ UNCHANGED <<packIds, packs, title, hash, slots>>
  BY <1>1, <1>6 DEF RequestsTypeOK, tables
<1> HIDE DEF w
<1>8. Private(t)
  BY <1>1, <1>2, <1>6, <1>7 DEF Private, Same, RequestsTypeOK
<1>9. KeepsFresh(t)
  BY <1>2, <1>4, <1>7 DEF KeepsFresh, TransactionsInv, RequestOK, FreshOK
<1>10. RequestsTypeOK'
  BY <1>1, <1>3, <1>4, <1>6, RowsDiffer DEF RequestsTypeOK
<1>11. ControlOK(t)' /\ GetOK(t)'
  BY <1>2, <1>4, <1>7 DEF ControlOK, GetOK
<1>12. \A s \in Slot : SlotRow(s) \in wrote'[t] <=> SlotRow(s) \in wrote[t]
  BY <1>3, <1>7, RowsDiffer
<1>13. \A q \in Packs : PackRow(q) \in wrote'[t] <=> PackRow(q) \in wrote[t] \/ q = p
  BY <1>3, <1>7, RowsDiffer
<1>14. SlotsWritten(t)' = SlotsWritten(t)
  BY <1>12 DEF SlotsWritten
<1>15. p \in v.packs /\ digest[t] = Store!Digest(v.slots, p)
  BY <1>1, <1>2 DEF UploadOK, DeleteOK
<1>16. SnapshotOK(t)'
  <2>1. \A q \in Packs : Store!OfPack(q) \subseteq Slot
    BY SlotsOfPack
  <2> QED
    BY <1>1, <1>2, <1>4, <1>7, <1>12, <1>13, <1>15, <2>1 DEF SnapshotOK
<1>17. UploadOK(t)'
  BY <1>1, <1>2, <1>4, <1>7, <1>13, <1>14, <1>15 DEF UploadOK
<1>18. DeleteOK(t)'
  <2>1. ~Conflict(t)' => ~Conflict(t)
    BY <1>7 DEF Conflict
  <2> QED
    BY <1>1, <1>2, <1>3, <1>4, <1>7, <1>13, <1>14, <1>15, <2>1 DEF DeleteOK
<1> QED
  BY <1>8, <1>9, <1>10, <1>11, <1>16, <1>17, <1>18, PrivateKeeps DEF OwnOK

-----------------------------------------------------------------------------
(* The deletions.                                                          *)

LEMMA DeleteKeeps ==
    ASSUME TransactionsInv, NEW t \in Requests, Delete(t)
    PROVE  TransactionsInv' /\ UNCHANGED Store!store
<1>1. RequestsTypeOK /\ ControlOK(t) /\ Store!StoreTypeOK /\ StoreInv
  BY Facts
<1>2. /\ pc[t] = "delete" /\ op[t].kind \in {"deletePack", "deleteSlots"}
  BY <1>1 DEF Delete, ControlOK
<1>3. /\ Seen(t) = Committed /\ Committed \in Tables
      /\ wrote[t] = {} /\ changed[t] = {} /\ op[t] \in Ops
  BY <1>2, FirstSeen
<1> DEFINE S == op[t].rows
           R == {SlotRow(s) : s \in S \cap Store!InUse(slots)}
           w == [Committed EXCEPT !.slots = Store!Emptied(@, S)]
           held == Store!Held(slots, S)
<1>4. Committed.slots = slots
  BY DEF Committed
<1>5. op[t].pack \in Packs /\ S \subseteq Slot /\ \A s \in S : s.pack = op[t].pack
  BY <1>3, OpForms, SlotsOfPack
<1>6. Store!Emptied(slots, S) = [s \in Slot |-> IF s \in S THEN None ELSE slots[s]]
  BY DEF Store!Emptied, Slot
<1>7. /\ w \in Tables /\ w # None
      /\ w.packs = packs /\ w.title = title /\ w.hash = hash
      /\ w.slots = [s \in Slot |-> IF s \in S THEN None ELSE slots[s]]
  BY <1>1, <1>3, <1>6, NoneAssumption DEF Tables, Committed, Store!StoreTypeOK, Slot
<1>8. /\ view' = [view EXCEPT ![t] = w]
      /\ wrote' = [wrote EXCEPT ![t] = @ \cup R]
      /\ ids' = [ids EXCEPT ![t] = held]
      /\ pc' = [pc EXCEPT ![t] = IF op[t].kind = "deletePack" THEN "drop"
                                 ELSE IF held # {} THEN "hash" ELSE "commit"]
      /\ UNCHANGED <<tables, op, changed, digest, reply>>
  BY <1>3, <1>4 DEF Delete, Execute, Goto
<1>9. /\ view'[t] = w /\ wrote'[t] = R /\ ids'[t] = held
      /\ pc'[t] = (IF op[t].kind = "deletePack" THEN "drop"
                   ELSE IF held # {} THEN "hash" ELSE "commit")
      /\ op'[t] = op[t] /\ changed'[t] = {}
      /\ UNCHANGED <<packIds, packs, title, hash, slots>>
  BY <1>1, <1>3, <1>8 DEF RequestsTypeOK, tables
<1>10. held = {slots[s] : s \in S \cap Store!InUse(slots)}
  BY DEF Store!Held
<1>11. Store!InUse(slots) = {s \in Slot : slots[s] # None}
  BY DEF Store!InUse, Slot
<1>12. /\ \A s \in Slot : SlotRow(s) \in R <=> s \in S /\ slots[s] # None
       /\ \A q \in Packs : PackRow(q) \notin R
  BY <1>5, <1>11, RowsDiffer
<1>13. SlotsWritten(t)' = S \cap Store!InUse(slots)
  BY <1>5, <1>9, <1>11, <1>12 DEF SlotsWritten
<1>14. R \subseteq Rows
  BY <1>5, RowsDiffer
<1>15. held \subseteq Resources
  BY <1>1, HeldType DEF Store!StoreTypeOK, Slot
<1>16. \A s \in Slot : slots[s] # None => s.pack \in packs
  BY <1>1, <1>11 DEF StoreInv, Store!SlotsHavePack
<1>17. KeepsFresh(t)
  BY <1>7, <1>9, HeldFresh, NoneAssumption
  DEF KeepsFresh, TransactionsInv, RequestOK, FreshOK, Requests
<1> HIDE DEF w, R, held
<1>18. Private(t)
  BY <1>1, <1>2, <1>8, <1>9 DEF Private, Same, RequestsTypeOK
<1>19. RequestsTypeOK'
  BY <1>1, <1>7, <1>8, <1>14, <1>15 DEF RequestsTypeOK
<1>20. ControlOK(t)' /\ GetOK(t)' /\ UploadOK(t)'
  BY <1>2, <1>3, <1>7, <1>9 DEF ControlOK, GetOK, UploadOK
<1>21. SnapshotOK(t)'
  <2>1. \A q \in Packs : Store!OfPack(q) \subseteq Slot
    BY SlotsOfPack
  <2> QED
    BY <1>1, <1>5, <1>7, <1>9, <1>12, <1>16, <2>1 DEF SnapshotOK, Store!StoreTypeOK
<1>22. DeleteOK(t)'
  <2>1. held = {} <=> S \cap Store!InUse(slots) = {}
    BY <1>10
  <2>2. held # {} => op[t].pack \in packs
    BY <1>5, <1>10, <1>11, <1>16
  <2>3. \A s \in S : w.slots[s] = None
    BY <1>5, <1>7
  <2>4. ids'[t] = {slots'[s] : s \in SlotsWritten(t)'}
    BY <1>9, <1>10, <1>13
  <2>5. /\ \A s \in SlotsWritten(t)' : slots'[s] # None
        /\ SlotsWritten(t)' \subseteq S
        /\ ids'[t] = {} <=> SlotsWritten(t)' = {}
    BY <1>9, <1>11, <1>13, <2>1
  <2>6. pc'[t] # "store" /\ (pc'[t] = "commit" => ids'[t] = {})
    BY <1>2, <1>9
  <2>7. pc'[t] \in {"hash", "drop"} /\ ids'[t] # {} => op[t].pack \in w.packs
    BY <1>7, <1>9, <2>2
  <2>8. pc'[t] = "hash" => ids'[t] # {}
    BY <1>9
  <2>9. \A q \in Packs : PackRow(q) \notin wrote'[t]
    BY <1>9, <1>12
  <2>10. op'[t] = op[t] /\ view'[t] = w
    BY <1>9
  <2> QED
    BY <1>5, <2>3, <2>4, <2>5, <2>6, <2>7, <2>8, <2>9, <2>10 DEF DeleteOK
<1> QED
  BY <1>17, <1>18, <1>19, <1>20, <1>21, <1>22, PrivateKeeps DEF OwnOK

\* DELETE FROM packs: a row that is not there is not written either, and then
\* the pack had no slots.
LEMMA DropKeeps ==
    ASSUME TransactionsInv, NEW t \in Requests, Drop(t)
    PROVE  TransactionsInv' /\ UNCHANGED Store!store
<1>1. /\ RequestsTypeOK /\ ControlOK(t) /\ SnapshotOK(t) /\ DeleteOK(t)
  BY Facts
<1>2. /\ view[t] # None /\ view[t] \in Tables /\ op[t] \in Ops /\ pc[t] = "drop"
      /\ op[t].kind = "deletePack"
  BY <1>1 DEF Drop, ControlOK, RequestsTypeOK
<1> DEFINE v == view[t]
           p == op[t].pack
           present == p \in v.packs
           w == IF present
                  THEN [v EXCEPT !.packs = @ \ {p}, !.title[p] = None, !.hash[p] = {}]
                  ELSE v
           R == IF present THEN {PackRow(p)} ELSE {}
<1>3. p \in Packs /\ op[t].rows = Store!OfPack(p)
  BY <1>2, OpForms
<1>4. /\ w \in Tables /\ w # None /\ w.slots = v.slots /\ w.packs = v.packs \ {p}
      /\ present => w.title[p] = None /\ w.hash[p] = {}
      /\ \A q \in Packs : q # p => w.title[q] = v.title[q]
  <2>1. /\ v = [packs |-> v.packs, title |-> v.title, hash |-> v.hash, slots |-> v.slots]
        /\ v.packs \subseteq Packs
        /\ v.title \in [Packs -> Titles \cup {None}]
        /\ v.hash \in [Packs -> Store!Digests]
        /\ v.slots \in [Slot -> Resources \cup {None}]
    BY <1>2 DEF Tables
  <2>2. CASE present
    <3>1. w = [packs |-> v.packs \ {p}, title |-> [v.title EXCEPT ![p] = None],
               hash |-> [v.hash EXCEPT ![p] = {}], slots |-> v.slots]
      BY <2>1, <2>2
    <3>2. {} \in Store!Digests
      BY DEF Store!Digests
    <3>3. /\ [v.title EXCEPT ![p] = None] \in [Packs -> Titles \cup {None}]
          /\ [v.hash EXCEPT ![p] = {}] \in [Packs -> Store!Digests]
      BY <2>1, <3>2
    <3>4. w \in Tables
      BY <2>1, <3>1, <3>3 DEF Tables
    <3> QED
      BY <1>3, <2>1, <3>1, <3>4, NoneAssumption
  <2>3. CASE ~present
    BY <1>2, <2>3
  <2> QED
    BY <2>2, <2>3
<1>5. Seen(t) = v
  BY <1>2 DEF Seen, InTransaction
<1>6. /\ view' = [view EXCEPT ![t] = w]
      /\ wrote' = [wrote EXCEPT ![t] = @ \cup R]
      /\ pc' = [pc EXCEPT ![t] = "commit"]
      /\ UNCHANGED <<tables, op, changed, ids, digest, reply>>
  BY <1>5 DEF Drop, Execute, Goto
<1>7. /\ view'[t] = w /\ wrote'[t] = wrote[t] \cup R /\ pc'[t] = "commit"
      /\ op'[t] = op[t] /\ ids'[t] = ids[t] /\ changed'[t] = changed[t]
      /\ UNCHANGED <<packIds, packs, title, hash, slots>>
  BY <1>1, <1>6 DEF RequestsTypeOK, tables
<1> HIDE DEF w
<1>8. Private(t)
  BY <1>1, <1>2, <1>6, <1>7 DEF Private, Same, RequestsTypeOK
<1>9. KeepsFresh(t)
  BY <1>2, <1>4, <1>7 DEF KeepsFresh, TransactionsInv, RequestOK, FreshOK
<1>10. RequestsTypeOK'
  BY <1>1, <1>3, <1>4, <1>6, RowsDiffer DEF RequestsTypeOK
<1>11. ControlOK(t)' /\ GetOK(t)' /\ UploadOK(t)'
  BY <1>2, <1>4, <1>7 DEF ControlOK, GetOK, UploadOK
<1>12. \A s \in Slot : SlotRow(s) \in wrote'[t] <=> SlotRow(s) \in wrote[t]
  BY <1>3, <1>7, RowsDiffer
<1>13. \A q \in Packs : PackRow(q) \in wrote'[t] <=> q = p /\ present
  BY <1>1, <1>2, <1>3, <1>7, RowsDiffer DEF DeleteOK
<1>14. SlotsWritten(t)' = SlotsWritten(t)
  BY <1>12 DEF SlotsWritten
<1>15. \A s \in Slot : s.pack = p => v.slots[s] = None
  BY <1>1, <1>2, <1>3, SlotsOfPack DEF DeleteOK
<1>16. SnapshotOK(t)'
  <2>1. \A q \in Packs : Store!OfPack(q) \subseteq Slot
    BY SlotsOfPack
  <2> QED
    BY <1>1, <1>2, <1>3, <1>4, <1>7, <1>12, <1>13, <1>15, <2>1 DEF SnapshotOK
<1>17. DeleteOK(t)'
  <2>1. ~Conflict(t)' => ~Conflict(t)
    BY <1>7 DEF Conflict
  <2> QED
    BY <1>1, <1>2, <1>3, <1>4, <1>7, <1>13, <1>14, <2>1 DEF DeleteOK
<1> QED
  BY <1>8, <1>9, <1>10, <1>11, <1>16, <1>17, PrivateKeeps DEF OwnOK

-----------------------------------------------------------------------------
(* GET.                                                                    *)

LEMMA ReadDetailsKeeps ==
    ASSUME TransactionsInv, NEW t \in Requests, ReadDetails(t)
    PROVE  TransactionsInv' /\ UNCHANGED Store!store
<1> DEFINE p == op[t].pack
<1>1. RequestsTypeOK /\ ControlOK(t) /\ Store!StoreTypeOK /\ StoreInv
  BY Facts
<1>2. /\ Seen(t) = Committed /\ Committed \in Tables /\ Committed # None
      /\ wrote[t] = {} /\ changed[t] = {} /\ ids[t] = {} /\ op[t] \in Ops
      /\ Committed.packs = packs /\ Committed.hash = hash
      /\ Committed.slots = slots /\ Committed.title = title
  BY FirstSeen DEF ReadDetails, Committed
<1>3. op[t].kind = "get" /\ pc[t] = "details" /\ view[t] = None
  BY <1>1 DEF ReadDetails, ControlOK
<1>4. /\ op'[t] = op[t] /\ changed'[t] = {} /\ ids'[t] = {} /\ wrote'[t] = {}
      /\ UNCHANGED <<packIds, packs, title, hash, slots>>
  <2>1. wrote' = [wrote EXCEPT ![t] = @ \cup {}] \/ UNCHANGED wrote
    BY DEF ReadDetails, Execute
  <2> QED
    BY <1>1, <1>2, <2>1 DEF ReadDetails, RequestsTypeOK, tables
<1>5. CASE p \notin packs
  <2>1. /\ pc' = [pc EXCEPT ![t] = "failed"]
        /\ UNCHANGED <<tables, op, view, wrote, changed, ids, digest, reply>>
    BY <1>2, <1>5 DEF ReadDetails, Goto
  <2>2. Private(t)
    BY <1>1, <1>3, <2>1 DEF Private, Same, RequestsTypeOK
  <2>3. KeepsFresh(t)
    BY <1>3, <1>4, <2>1 DEF KeepsFresh
  <2>4. RequestsTypeOK'
    BY <1>1, <2>1 DEF RequestsTypeOK
  <2>5. view'[t] = None /\ ControlOK(t)' /\ GetOK(t)'
    BY <1>1, <1>2, <1>3, <1>4, <2>1 DEF ControlOK, GetOK, RequestsTypeOK
  <2> QED
    BY <2>2, <2>3, <2>4, <2>5, OutsideOwn, PrivateKeeps
<1>6. CASE p \in packs
  <2> DEFINE answer == [hash |-> hash[p], slots |-> {}]
  <2>1. /\ view' = [view EXCEPT ![t] = Committed]
        /\ wrote' = [wrote EXCEPT ![t] = @ \cup {}]
        /\ reply' = [reply EXCEPT ![t] = answer]
        /\ pc' = [pc EXCEPT ![t] = "resources"]
        /\ UNCHANGED <<tables, op, changed, ids, digest>>
    BY <1>2, <1>6 DEF ReadDetails, Goto, Execute
  <2>2. p \in Packs /\ hash[p] = Store!Digest(slots, p) /\ hash[p] \in Store!Digests
    BY <1>1, <1>2, <1>6, OpForms, DigestType DEF StoreInv, Store!HashMatches
  <2>3. answer \in [hash : Store!Digests, slots : SUBSET Slot]
    BY <2>2
  <2>4. view'[t] = Committed /\ pc'[t] = "resources" /\ reply'[t] = answer
    BY <1>1, <2>1 DEF RequestsTypeOK
  <2>5. Private(t)
    BY <1>1, <1>3, <2>1, <2>4 DEF Private, Same, RequestsTypeOK
  <2>6. KeepsFresh(t)
    BY <1>2, <1>4, <2>4 DEF KeepsFresh, TransactionsInv, RequestOK, FreshOK
  <2>7. RequestsTypeOK'
    BY <1>1, <1>2, <2>1, <2>3 DEF RequestsTypeOK
  <2>8. ControlOK(t)' /\ UploadOK(t)' /\ DeleteOK(t)'
    BY <1>2, <1>3, <1>4, <2>4 DEF ControlOK, UploadOK, DeleteOK
  <2>9. GetOK(t)'
    BY <1>2, <1>4, <2>2, <2>3, <2>4 DEF GetOK
  <2>10. SnapshotOK(t)'
    BY <1>1, <1>2, <1>4, <2>4
    DEF SnapshotOK, StoreInv, Store!StoreTypeOK, Store!SlotsHavePack, Store!InUse, Slot
  <2> QED
    BY <2>5, <2>6, <2>7, <2>8, <2>9, <2>10, PrivateKeeps DEF OwnOK
<1> QED
  BY <1>5, <1>6

LEMMA ReadResourcesKeeps ==
    ASSUME TransactionsInv, NEW t \in Requests, ReadResources(t)
    PROVE  TransactionsInv' /\ UNCHANGED Store!store
<1> DEFINE p == op[t].pack
           T == Store!InUse(view[t].slots) \cap op[t].rows
           answer == [reply[t] EXCEPT !.slots = T]
<1>1. RequestsTypeOK /\ ControlOK(t) /\ GetOK(t)
  BY Facts
<1>2. /\ view[t] # None /\ view[t] \in Tables /\ op[t] \in Ops
      /\ pc[t] = "resources" /\ op[t].kind = "get" /\ ids[t] = {}
  BY <1>1 DEF ReadResources, ControlOK, RequestsTypeOK
<1>3. /\ reply[t] \in [hash : Store!Digests, slots : SUBSET Slot]
      /\ reply[t].hash = Store!Digest(view[t].slots, p)
  BY <1>1, <1>2 DEF GetOK
<1>4. p \in Packs /\ op[t].rows = Store!OfPack(p)
  BY <1>2, OpForms
<1>5. T \in SUBSET Slot /\ T = {x \in Store!InUse(view[t].slots) : x.pack = p}
  BY <1>4, SlotsOfPack DEF Store!InUse, Slot
<1>6. /\ answer \in [hash : Store!Digests, slots : SUBSET Slot]
      /\ answer.hash = {<<s.role, s.string>> : s \in answer.slots}
  BY <1>3, <1>5 DEF Store!Digest
<1>7. Seen(t) = view[t]
  BY <1>2 DEF Seen, InTransaction
<1>8. /\ reply' = [reply EXCEPT ![t] = answer]
      /\ pc' = [pc EXCEPT ![t] = "done"]
      /\ view' = [view EXCEPT ![t] = None]
      /\ wrote' = [wrote EXCEPT ![t] = {}]
      /\ digest' = [digest EXCEPT ![t] = {}]
      /\ changed' = [changed EXCEPT ![t] = {}]
      /\ UNCHANGED <<tables, op, ids>>
  BY <1>7 DEF ReadResources, Goto, Leave
<1> HIDE DEF answer
<1>9. /\ pc'[t] = "done" /\ reply'[t] = answer /\ op'[t] = op[t]
      /\ view'[t] = None /\ wrote'[t] = {} /\ changed'[t] = {} /\ ids'[t] = {}
  BY <1>1, <1>2, <1>8 DEF RequestsTypeOK
<1>10. Private(t)
  BY <1>1, <1>2, <1>8, <1>9 DEF Private, Same, RequestsTypeOK
<1>11. KeepsFresh(t)
  BY <1>9 DEF KeepsFresh
<1>12. RequestsTypeOK'
  BY <1>1, <1>6, <1>8 DEF RequestsTypeOK, Store!Digests
<1>13. ControlOK(t)' /\ GetOK(t)'
  BY <1>2, <1>6, <1>9 DEF ControlOK, GetOK
<1> QED
  BY <1>9, <1>10, <1>11, <1>12, <1>13, OutsideOwn, PrivateKeeps

-----------------------------------------------------------------------------
(* Steps that change the committed tables.                                 *)

\* Rows R are all that changed, as far as SnapshotOK looks at the tables.
Published(R) ==
    /\ packIds \subseteq packIds'
    /\ \A s \in Slot : SlotRow(s) \notin R => slots'[s] = slots[s]
    /\ \A p \in Packs : p \in packs /\ PackRow(p) \notin R =>
          /\ p \in packs' /\ title'[p] = title[p]
          /\ \A s \in Store!OfPack(p) : slots'[s] = None <=> slots[s] = None

\* What a step that publishes R does to a request that does not take it.
Told(u, R) ==
    /\ pc'[u] = pc[u] /\ op'[u] = op[u] /\ view'[u] = view[u] /\ wrote'[u] = wrote[u]
    /\ ids'[u] = ids[u] /\ digest'[u] = digest[u] /\ reply'[u] = reply[u]
    /\ changed'[u] = IF view[u] # None THEN changed[u] \cup R ELSE changed[u]

\* The others keep their place, with a snapshot they know to be older.
LEMMA OthersKeep ==
    ASSUME NEW u \in Requests, OwnOK(u), NEW R, Published(R), Told(u, R),
           RequestsTypeOK
    PROVE  OwnOK(u)'
<1>1. /\ pc'[u] = pc[u] /\ op'[u] = op[u] /\ view'[u] = view[u] /\ wrote'[u] = wrote[u]
      /\ ids'[u] = ids[u] /\ digest'[u] = digest[u] /\ reply'[u] = reply[u]
  BY DEF Told
<1>2. CASE view[u] = None
  <2>1. ControlOK(u)' /\ GetOK(u)'
    BY <1>1, <1>2 DEF OwnOK, ControlOK, GetOK, Told
  <2> QED
    BY <1>1, <1>2, <2>1, OutsideOwn
<1>3. CASE view[u] # None
  <2>1. changed'[u] = changed[u] \cup R
    BY <1>3 DEF Told
  <2>2. ControlOK(u)' /\ GetOK(u)'
    BY <1>1, <1>3 DEF OwnOK, ControlOK, GetOK
  <2>3. SnapshotOK(u)'
    BY <1>1, <1>3, <2>1, SlotsOfPack DEF OwnOK, SnapshotOK, Published
  <2>4. UploadOK(u)'
    <3>1. ASSUME NEW s \in Slot, SlotRow(s) \notin changed'[u]
          PROVE  Store!Held(slots', {s}) = Store!Held(slots, {s})
      BY <2>1, <3>1 DEF Published, Store!Held, Store!InUse
    <3>2. view[u] # None /\ op[u].kind = "upload" => op[u] \in Ops
      BY DEF OwnOK, ControlOK
    <3>3. op[u] \in Ops => op[u].rows \subseteq Slot
      BY OpForms, SlotsOfPack
    <3> QED
      BY <1>1, <2>1, <3>1, <3>2, <3>3 DEF OwnOK, UploadOK, SlotsWritten
  <2>5. DeleteOK(u)'
    <3>1. SlotsWritten(u)' = SlotsWritten(u)
      BY <1>1 DEF SlotsWritten
    <3>2. ~Conflict(u)' => ~Conflict(u) /\ \A s \in SlotsWritten(u) : slots'[s] = slots[s]
      BY <1>1, <2>1 DEF Conflict, SlotsWritten, Published
    <3>3. ~Conflict(u)' => {slots'[s] : s \in SlotsWritten(u)} = {slots[s] : s \in SlotsWritten(u)}
      BY <3>2
    <3> QED
      BY <1>1, <3>1, <3>2, <3>3 DEF OwnOK, DeleteOK
  <2> QED
    BY <2>2, <2>3, <2>4, <2>5 DEF OwnOK
<1> QED
  BY <1>2, <1>3

\* A request that is done has returned its ids.
LEMMA ReturnedGrows ==
    ASSUME NEW t \in Requests, pc[t] # "done", pc'[t] = "done",
           \A u \in Requests \ {t} : pc'[u] = pc[u] /\ ids'[u] = ids[u]
    PROVE  Returned' = Returned \cup ids'[t]
<1> SUFFICES ASSUME NEW r
             PROVE  r \in Returned' <=> r \in Returned \cup ids'[t]
  OBVIOUS
<1>1. r \in Returned <=> \E u \in Requests : pc[u] = "done" /\ r \in ids[u]
  BY DEF Returned
<1>2. r \in Returned' <=> \E u \in Requests : pc'[u] = "done" /\ r \in ids'[u]
  BY DEF Returned
<1> QED
  BY <1>1, <1>2

\* What has to be shown of the step by which t ends its request.
LEMMA EndKeeps ==
    ASSUME TransactionsInv, NEW t \in Requests, NEW R,
           Published(R), \A u \in Requests \ {t} : Told(u, R),
           pc[t] # "done", pc'[t] = "done", ids'[t] = ids[t], op'[t] = op[t],
           op[t] \in Ops, op[t].kind # "get",
           view'[t] = None, wrote'[t] = {}, changed'[t] = {},
           \A s \in Slot : slots'[s] \in {slots[s], t, None},
           RequestsTypeOK', [Store!StoreNext]_(Store!store)
    PROVE  TransactionsInv'
<1>1. StoreInv' /\ TypeOK'
  BY StoreSteps DEF TransactionsInv, StoreInv, TypeOK
<1>2. \A u \in Requests \ {t} : OwnOK(u)'
  BY Facts, OthersKeep
<1>3. OwnOK(t)'
  <2>1. ControlOK(t)' /\ GetOK(t)'
    BY DEF ControlOK, GetOK
  <2> QED
    BY <2>1, OutsideOwn
<1>4. \A u \in Requests : FreshOK(u)'
  <2> SUFFICES ASSUME NEW u \in Requests, pc'[u] # "done"
               PROVE  FreshOK(u)'
    BY DEF FreshOK
  <2>1. u # t /\ pc[u] # "done" /\ u # None
    BY NoneAssumption DEF Told, Requests
  <2>2. FreshOK(u)
    BY DEF TransactionsInv, RequestOK
  <2>3. \A s \in Slot : slots'[s] # u
    BY <2>1, <2>2 DEF FreshOK
  <2>4. \A w \in Requests : ids'[w] = ids[w]
    BY DEF Told
  <2>5. \A w \in Requests : view'[w] # None => view'[w] = view[w]
    BY DEF Told
  <2> QED
    BY <2>1, <2>2, <2>3, <2>4, <2>5 DEF FreshOK
<1> QED
  BY <1>1, <1>2, <1>3, <1>4 DEF TransactionsInv, RequestOK, OwnOK

\* PUT /api/packs/:pack_id is UpdatePack, unless it finds no pack.
LEMMA SetTitleKeeps ==
    ASSUME TransactionsInv, NEW t \in Requests, SetTitle(t)
    PROVE  TransactionsInv' /\ [Store!StoreNext]_(Store!store)
<1> DEFINE p == op[t].pack
<1>1. RequestsTypeOK /\ ControlOK(t) /\ Store!StoreTypeOK
  BY Facts
<1>2. /\ pc[t] = "title" /\ op[t] \in Ops /\ op[t].kind = "update" /\ ids[t] = {}
      /\ view[t] = None /\ wrote[t] = {} /\ changed[t] = {}
  BY <1>1 DEF SetTitle, ControlOK
<1>3. p \in Packs
  BY <1>2, OpForms
<1>4. CASE p \notin packs
  <2>1. /\ pc' = [pc EXCEPT ![t] = "failed"]
        /\ UNCHANGED <<tables, op, view, wrote, changed, ids, digest, reply>>
    BY <1>4 DEF SetTitle, Goto, tables
  <2>2. pc'[t] = "failed"
    BY <1>1, <2>1 DEF RequestsTypeOK
  <2>3. Private(t)
    BY <1>1, <1>2, <2>1, <2>2 DEF Private, Same, RequestsTypeOK
  <2>4. KeepsFresh(t)
    BY <1>2, <2>1 DEF KeepsFresh
  <2>5. RequestsTypeOK'
    BY <1>1, <2>1 DEF RequestsTypeOK
  <2>6. view'[t] = None /\ ControlOK(t)' /\ GetOK(t)'
    BY <1>2, <2>1, <2>2 DEF ControlOK, GetOK
  <2> QED
    BY <2>3, <2>4, <2>5, <2>6, OutsideOwn, PrivateKeeps
<1>5. CASE p \in packs
  <2>1. PICK n \in Titles : title' = [title EXCEPT ![p] = n]
    BY <1>5 DEF SetTitle
  <2>2. /\ pc' = [pc EXCEPT ![t] = "done"]
        /\ changed' = [u \in Requests |->
                         IF u = t THEN {}
                         ELSE IF view[u] # None THEN changed[u] \cup {PackRow(p)}
                         ELSE changed[u]]
        /\ UNCHANGED <<packIds, packs, hash, slots, op, view, wrote, ids, digest, reply>>
    BY <1>5 DEF SetTitle, Goto, Publish, InTransaction
  <2>3. pc'[t] = "done" /\ changed'[t] = {}
    BY <1>1, <2>2 DEF RequestsTypeOK
  <2>4. \A u \in Requests \ {t} : Told(u, {PackRow(p)})
    BY <1>1, <2>2 DEF Told, RequestsTypeOK
  <2>5. Published({PackRow(p)})
    BY <1>1, <2>1, <2>2 DEF Published, Store!StoreTypeOK
  <2>6. RequestsTypeOK'
    <3>1. PackRow(p) \in Rows
      BY <1>3, RowsDiffer
    <3>2. changed' \in [Requests -> SUBSET Rows]
      BY <1>1, <2>2, <3>1 DEF RequestsTypeOK
    <3> QED
      BY <1>1, <2>2, <3>2 DEF RequestsTypeOK
  <2>7. Returned' = Returned
    BY <1>2, <2>2, <2>3, <2>4, ReturnedGrows DEF Told
  <2>8. Store!UpdatePack(p, n)
    BY <1>5, <2>1, <2>2, <2>7 DEF Store!UpdatePack
  <2>9. [Store!StoreNext]_(Store!store)
    BY <1>3, <2>1, <2>8 DEF Store!StoreNext
  <2>10. Published({PackRow(p)}) /\ (\A u \in Requests \ {t} : Told(u, {PackRow(p)})) =>
            TransactionsInv'
    BY <1>2, <2>2, <2>3, <2>6, <2>9, EndKeeps
  <2> QED
    BY <2>4, <2>5, <2>9, <2>10
<1> QED
  BY <1>4, <1>5

\* POST /api/packs/ writes a row that no snapshot holds.
LEMMA CreatePackKeeps ==
    ASSUME TransactionsInv, NEW p \in Packs, NEW n \in Titles, CreatePack(p, n)
    PROVE  TransactionsInv' /\ [Store!StoreNext]_(Store!store)
<1> USE DEF CreatePack
<1>1. RequestsTypeOK /\ Store!StoreTypeOK
  BY DEF TransactionsInv, TypeOK
<1>2. Returned' = Returned
  BY DEF Returned
<1>3. [Store!StoreNext]_(Store!store)
  BY <1>2 DEF Store!CreatePack, Store!StoreNext
<1>4. StoreInv' /\ TypeOK'
  <2>1. StoreInv'
    BY <1>3, StoreSteps DEF TransactionsInv
  <2>2. RequestsTypeOK'
    BY <1>1 DEF RequestsTypeOK
  <2> QED
    BY <2>1, <2>2 DEF StoreInv, TypeOK
<1>5. Published({})
  BY <1>1 DEF Published, Store!StoreTypeOK
<1>6. \A u \in Requests : Told(u, {})
  BY DEF Told
<1>7. \A u \in Requests : OwnOK(u)'
  BY <1>5, <1>6, Facts, OthersKeep
<1>8. \A u \in Requests : FreshOK(u)'
  BY DEF TransactionsInv, RequestOK, FreshOK
<1> QED
  BY <1>3, <1>4, <1>7, <1>8 DEF TransactionsInv, RequestOK, OwnOK

-----------------------------------------------------------------------------
(* COMMIT.                                                                 *)

\* What a transaction that may commit knows of the committed tables: it wrote
\* no row but slots it addressed and the row of their pack, and none of these
\* changed since its snapshot.
LEMMA CommitFacts ==
    ASSUME TransactionsInv, NEW t \in Requests, Commit(t), NEW p, p = op[t].pack
    PROVE  /\ view[t] \in Tables /\ op[t] \in Ops /\ p \in Packs
           /\ op[t].kind \in {"upload", "deletePack", "deleteSlots"}
           /\ op[t].rows \subseteq Slot /\ \A s \in op[t].rows : s.pack = p
           /\ SlotsWritten(t) \subseteq op[t].rows
           /\ \A q \in Packs : PackRow(q) \in wrote[t] => q = p
           /\ \A q \in Packs : q # p =>
                 (q \in packs' <=> q \in packs) /\ title'[q] = title[q] /\ hash'[q] = hash[q]
           /\ PackRow(p) \notin wrote[t] =>
                 packs' = packs /\ title' = title /\ hash' = hash
           /\ PackRow(p) \in wrote[t] =>
                 /\ p \in packs
                 /\ p \in view[t].packs => view[t].title[p] = title[p]
                 /\ \A s \in op[t].rows : s \notin SlotsWritten(t) =>
                       (view[t].slots[s] = None <=> slots[s] = None)
                 /\ \A s \in Store!OfPack(p) : view[t].slots[s] = None <=> slots'[s] = None
                 /\ packs' = IF p \in view[t].packs THEN packs ELSE packs \ {p}
                 /\ title' = [title EXCEPT ![p] = view[t].title[p]]
                 /\ hash' = [hash EXCEPT ![p] = view[t].hash[p]]
           /\ slots' = [s \in Slot |-> IF s \in SlotsWritten(t) THEN view[t].slots[s]
                                       ELSE slots[s]]
           /\ packIds' = packIds /\ Returned' = Returned \cup ids[t]
<1> DEFINE v == view[t]
           packWritten == {q \in Packs : PackRow(q) \in wrote[t]}
<1>1. /\ RequestsTypeOK /\ Store!StoreTypeOK
      /\ ControlOK(t) /\ SnapshotOK(t) /\ UploadOK(t) /\ DeleteOK(t)
  BY Facts
<1>2. /\ v # None /\ v \in Tables /\ op[t] \in Ops /\ pc[t] = "commit"
      /\ op[t].kind \in {"upload", "deletePack", "deleteSlots"}
  BY <1>1 DEF Commit, ControlOK, RequestsTypeOK
<1>3. p \in Packs /\ op[t].rows \subseteq Slot /\ \A s \in op[t].rows : s.pack = p
  BY <1>2, OpForms, SlotsOfPack
<1>4. SlotsWritten(t) \subseteq op[t].rows
  BY <1>1, <1>2 DEF UploadOK, DeleteOK
<1>5. \A q \in Packs : PackRow(q) \in wrote[t] => q = p
  BY <1>1, <1>2 DEF UploadOK, DeleteOK
<1>6. /\ packs' = packs \ (packWritten \ v.packs)
      /\ title' = [q \in Packs |-> IF q \in packWritten THEN v.title[q] ELSE title[q]]
      /\ hash' = [q \in Packs |-> IF q \in packWritten THEN v.hash[q] ELSE hash[q]]
      /\ slots' = [s \in Slot |-> IF s \in SlotsWritten(t) THEN v.slots[s] ELSE slots[s]]
      /\ packIds' = packIds
  BY DEF Commit, SlotsWritten
<1>7. title \in [Packs -> Titles \cup {None}] /\ hash \in [Packs -> Store!Digests]
      /\ packs \subseteq Packs
  BY <1>1 DEF Store!StoreTypeOK
<1>8. \A q \in Packs : q # p =>
         (q \in packs' <=> q \in packs) /\ title'[q] = title[q] /\ hash'[q] = hash[q]
  BY <1>5, <1>6
<1>9. PackRow(p) \notin wrote[t] => packs' = packs /\ title' = title /\ hash' = hash
  <2> SUFFICES ASSUME PackRow(p) \notin wrote[t]
               PROVE  packs' = packs /\ title' = title /\ hash' = hash
    OBVIOUS
  <2>1. packWritten = {}
    BY <1>5
  <2> HIDE DEF packWritten
  <2> QED
    BY <1>6, <1>7, <2>1
<1>10. ASSUME PackRow(p) \in wrote[t]
       PROVE  /\ p \in packs
              /\ p \in v.packs => v.title[p] = title[p]
              /\ \A s \in Store!OfPack(p) : s \notin SlotsWritten(t) =>
                    (v.slots[s] = None <=> slots[s] = None)
              /\ \A s \in Store!OfPack(p) : v.slots[s] = None <=> slots'[s] = None
              /\ packs' = IF p \in v.packs THEN packs ELSE packs \ {p}
              /\ title' = [title EXCEPT ![p] = v.title[p]]
              /\ hash' = [hash EXCEPT ![p] = v.hash[p]]
  <2>1. PackRow(p) \notin changed[t]
    BY <1>10 DEF Commit, Conflict
  <2>2. packWritten = {p}
    BY <1>3, <1>5, <1>10
  <2>3. /\ p \in packs
        /\ p \in v.packs => v.title[p] = title[p]
        /\ \A s \in Store!OfPack(p) : SlotRow(s) \notin wrote[t] =>
              (v.slots[s] = None <=> slots[s] = None)
    BY <1>1, <1>2, <1>3, <1>10, <2>1 DEF SnapshotOK
  <2>4. \A s \in Store!OfPack(p) : s \in Slot /\ (s \in SlotsWritten(t) <=> SlotRow(s) \in wrote[t])
    BY SlotsOfPack DEF SlotsWritten
  <2>5. \A s \in Store!OfPack(p) : v.slots[s] = None <=> slots'[s] = None
    BY <1>6, <2>3, <2>4
  <2> HIDE DEF packWritten
  <2>6. packs' = IF p \in v.packs THEN packs ELSE packs \ {p}
    BY <1>6, <2>2
  <2>7. /\ title' = [title EXCEPT ![p] = v.title[p]]
        /\ hash' = [hash EXCEPT ![p] = v.hash[p]]
    BY <1>6, <1>7, <2>2
  <2> QED
    BY <2>3, <2>4, <2>5, <2>6, <2>7
<1>11. Returned' = Returned \cup ids[t]
  <2>1. pc'[t] = "done" /\ \A u \in Requests \ {t} : pc'[u] = pc[u] /\ ids'[u] = ids[u]
    BY <1>1 DEF Commit, Goto, RequestsTypeOK
  <2>2. pc[t] # "done" /\ ids'[t] = ids[t]
    BY DEF Commit
  <2> QED
    BY <2>1, <2>2, ReturnedGrows
<1>12. \A s \in op[t].rows : s \in Store!OfPack(p)
  BY <1>3, SlotsOfPack
<1> QED
  BY <1>2, <1>3, <1>4, <1>5, <1>6, <1>8, <1>9, <1>10, <1>11, <1>12

\* A committed upload is PutResource.
LEMMA CommitUpload ==
    ASSUME TransactionsInv, NEW t \in Requests, Commit(t), op[t].kind = "upload"
    PROVE  /\ Store!StoreNext
           /\ PackRow(op[t].pack) \notin wrote[t] =>
                 \A s \in Slot : slots'[s] = None <=> slots[s] = None
<1> DEFINE p == op[t].pack
           v == view[t]
<1>1. /\ ControlOK(t) /\ UploadOK(t) /\ StoreInv /\ Store!StoreTypeOK /\ FreshOK(t)
  BY Facts DEF TransactionsInv, RequestOK
<1>2. v # None /\ op[t] \in Ops /\ pc[t] = "commit"
  BY <1>1 DEF Commit, ControlOK
<1>3. PICK s \in Slot : op[t].rows = {s} /\ s.pack = p
  BY <1>2, OpForms
<1>4. /\ SlotsWritten(t) = {s} /\ v.slots[s] = t /\ p \in v.packs /\ p \in Packs
      /\ PackRow(p) \in wrote[t] <=> ids[t] = {}
      /\ ids[t] = {} => v.hash[p] = Store!Digest(v.slots, p)
      /\ SlotRow(s) \notin changed[t] => ids[t] = Store!Held(slots, {s})
  BY <1>1, <1>2, <1>3, OpForms DEF UploadOK
<1>5. ids[t] = Store!Held(slots, {s})
  BY <1>3, <1>4 DEF Commit, Conflict, SlotsWritten
<1>6. slots' = [slots EXCEPT ![s] = t]
  BY <1>1, <1>4, CommitFacts DEF Store!StoreTypeOK, Slot
<1>7. ids[t] = {} <=> slots[s] = None
  BY <1>3, <1>5 DEF Store!Held, Store!InUse, Slot
<1>8. slots[s] # None => p \in packs
  BY <1>1, <1>3 DEF StoreInv, Store!SlotsHavePack, Store!InUse, Slot
<1>9. p \in packs /\ packs' = packs /\ title' = title
  <2>1. CASE ids[t] = {}
    <3>1. p \in packs /\ packs' = packs
      BY <1>4, <2>1, CommitFacts
    <3>2. title' = [title EXCEPT ![p] = title[p]]
      BY <1>4, <2>1, CommitFacts
    <3> QED
      BY <1>1, <3>1, <3>2 DEF Store!StoreTypeOK
  <2>2. CASE ids[t] # {}
    BY <1>4, <1>7, <1>8, <2>2, CommitFacts
  <2> QED
    BY <2>1, <2>2
<1>10. hash' = IF slots[s] = None THEN [hash EXCEPT ![s.pack] = Store!Digest(slots', s.pack)]
               ELSE hash
  <2>1. CASE ids[t] = {}
    <3>1. \A x \in Store!OfPack(p) : v.slots[x] = None <=> slots'[x] = None
      BY <1>4, <2>1, CommitFacts
    <3>2. Store!Digest(v.slots, p) = Store!Digest(slots', p)
      BY <3>1, DigestDepends
    <3>3. hash' = [hash EXCEPT ![p] = v.hash[p]]
      BY <1>4, <2>1, CommitFacts
    <3> QED
      BY <1>3, <1>4, <1>7, <2>1, <3>2, <3>3
  <2>2. CASE ids[t] # {}
    BY <1>4, <1>7, <2>2, CommitFacts
  <2> QED
    BY <2>1, <2>2
<1>11. packIds' = packIds /\ Returned' = Returned \cup Store!Held(slots, {s})
  BY <1>5, CommitFacts
<1>12. t \notin Returned \cup Store!Held(slots, Store!Slot)
  <2>1. t \notin Returned
    BY <1>1, <1>2 DEF FreshOK, Returned
  <2>2. t \notin Store!Held(slots, Store!Slot)
    BY <1>1, <1>2 DEF FreshOK, Store!Held, Store!InUse, Slot
  <2> QED
    BY <2>1, <2>2
<1>13. Store!PutResource(s, t)
  BY <1>3, <1>6, <1>9, <1>10, <1>11, <1>12 DEF Store!PutResource, Store!PutRow
<1>14. Store!StoreNext
  BY <1>13 DEF Store!StoreNext, Slot, Requests
<1>15. t # None
  BY NoneAssumption DEF Requests
<1> QED
  BY <1>1, <1>4, <1>6, <1>7, <1>14, <1>15 DEF Store!StoreTypeOK, Slot

\* What a deletion that may commit took out of the rows it addressed.
LEMMA CommitDeletion ==
    ASSUME TransactionsInv, NEW t \in Requests, Commit(t),
           op[t].kind \in {"deletePack", "deleteSlots"}, PackRow(op[t].pack) \in wrote[t]
    PROVE  /\ slots' = Store!Emptied(slots, op[t].rows)
           /\ ids[t] = Store!Held(slots, op[t].rows)
<1> DEFINE v == view[t]
           S == op[t].rows
           W == SlotsWritten(t)
<1>1. ControlOK(t) /\ DeleteOK(t) /\ Store!StoreTypeOK
  BY Facts
<1>2. v # None /\ op[t] \in Ops /\ pc[t] = "commit"
  BY <1>1 DEF Commit, ControlOK
<1>3. /\ S \subseteq Slot /\ W \subseteq S
      /\ \A s \in S : s \notin W => (v.slots[s] = None <=> slots[s] = None)
      /\ slots' = [s \in Slot |-> IF s \in W THEN v.slots[s] ELSE slots[s]]
  BY CommitFacts
<1>4. /\ \A s \in S : v.slots[s] = None
      /\ ids[t] = {slots[s] : s \in W} /\ \A s \in W : slots[s] # None
  BY <1>1, <1>2 DEF DeleteOK, Commit
<1>5. slots' = [s \in Slot |-> IF s \in S THEN None ELSE slots[s]]
  BY <1>3, <1>4
<1>6. S \cap Store!InUse(slots) = W
  BY <1>3, <1>4 DEF Store!InUse, Slot
<1> QED
  BY <1>4, <1>5, <1>6 DEF Store!Emptied, Store!Held, Slot

\* A deletion whose transaction did not write the row of the pack found nothing.
LEMMA CommitNothing ==
    ASSUME TransactionsInv, NEW t \in Requests, Commit(t),
           op[t].kind \in {"deletePack", "deleteSlots"}, PackRow(op[t].pack) \notin wrote[t]
    PROVE  UNCHANGED Store!store
<1>1. ControlOK(t) /\ DeleteOK(t) /\ Store!StoreTypeOK
  BY Facts
<1>2. view[t] # None /\ op[t] \in Ops /\ pc[t] = "commit"
  BY <1>1 DEF Commit, ControlOK
<1>3. ids[t] = {} /\ SlotsWritten(t) = {}
  BY <1>1, <1>2 DEF DeleteOK
<1>4. slots' = [s \in Slot |-> slots[s]]
  BY <1>3, CommitFacts
<1>5. slots' = slots
  BY <1>1, <1>4 DEF Store!StoreTypeOK, Slot
<1>6. packIds' = packIds /\ Returned' = Returned
  <2>1. packIds' = packIds /\ Returned' = Returned \cup ids[t]
    BY CommitFacts
  <2> QED
    BY <1>3, <2>1
<1>7. packs' = packs /\ title' = title /\ hash' = hash
  BY CommitFacts
<1> QED
  BY <1>5, <1>6, <1>7 DEF Store!store

LEMMA CommitDeletePack ==
    ASSUME TransactionsInv, NEW t \in Requests, Commit(t), op[t].kind = "deletePack"
    PROVE  [Store!StoreNext]_(Store!store)
<1> DEFINE p == op[t].pack
           v == view[t]
<1>1. CASE PackRow(p) \in wrote[t]
  <2>1. ControlOK(t) /\ DeleteOK(t)
    BY Facts
  <2>2. v # None /\ op[t] \in Ops /\ pc[t] = "commit"
    BY <2>1 DEF Commit, ControlOK
  <2>3. op[t].rows = Store!OfPack(p)
    BY <2>2, OpForms
  <2>4. p \notin v.packs /\ v.title[p] = None /\ v.hash[p] = {}
    BY <1>1, <2>1, <2>2 DEF DeleteOK
  <2>5. slots' = Store!Emptied(slots, Store!OfPack(p)) /\ ids[t] = Store!Held(slots, Store!OfPack(p))
    BY <1>1, <2>3, CommitDeletion
  <2>6. /\ p \in packs /\ packs' = packs \ {p}
        /\ title' = [title EXCEPT ![p] = None] /\ hash' = [hash EXCEPT ![p] = {}]
    BY <1>1, <2>4, CommitFacts
  <2>7. p \in Packs /\ packIds' = packIds /\ Returned' = Returned \cup ids[t]
    BY CommitFacts
  <2>8. Store!DeletePack(p)
    BY <2>5, <2>6, <2>7 DEF Store!DeletePack
  <2> QED
    BY <2>7, <2>8 DEF Store!StoreNext
<1>2. CASE PackRow(p) \notin wrote[t]
  BY <1>2, CommitNothing
<1> QED
  BY <1>1, <1>2

LEMMA CommitDeleteSlots ==
    ASSUME TransactionsInv, NEW t \in Requests, Commit(t), op[t].kind = "deleteSlots"
    PROVE  [Store!StoreNext]_(Store!store)
<1> DEFINE p == op[t].pack
           v == view[t]
           S == op[t].rows
<1>1. CASE PackRow(p) \in wrote[t]
  <2>1. ControlOK(t) /\ DeleteOK(t) /\ Store!StoreTypeOK
    BY Facts
  <2>2. v # None /\ op[t] \in Ops /\ pc[t] = "commit"
    BY <2>1 DEF Commit, ControlOK
  <2>3. p \in v.packs /\ v.hash[p] = Store!Digest(v.slots, p) /\ ids[t] # {}
    BY <1>1, <2>1, <2>2 DEF DeleteOK
  <2>4. slots' = Store!Emptied(slots, S) /\ ids[t] = Store!Held(slots, S)
    BY <1>1, CommitDeletion
  <2>5. /\ packs' = packs /\ title' = [title EXCEPT ![p] = title[p]]
        /\ hash' = [hash EXCEPT ![p] = v.hash[p]]
        /\ \A s \in Store!OfPack(p) : v.slots[s] = None <=> slots'[s] = None
    BY <1>1, <2>3, CommitFacts
  <2>6. title' = title
    BY <2>1, <2>5 DEF Store!StoreTypeOK
  <2>7. Store!Digest(v.slots, p) = Store!Digest(slots', p)
    BY <2>5, DigestDepends
  <2>8. p \in Packs /\ packIds' = packIds /\ Returned' = Returned \cup ids[t]
    BY CommitFacts
  <2>9. Store!DeleteSlots(p, S)
    BY <2>3, <2>4, <2>5, <2>6, <2>7, <2>8 DEF Store!DeleteSlots
  <2>10. \E r \in Roles :
            \/ S = Store!OfRole(p, r)
            \/ \E x \in Strings : S = Store!OfString(p, r, x)
    BY <2>2, OpForms
  <2>11. \E r \in Roles :
            \/ Store!DeletePackRole(p, r)
            \/ \E x \in Strings : Store!DeletePackString(p, r, x)
    BY <2>9, <2>10 DEF Store!DeletePackRole, Store!DeletePackString
  <2> QED
    BY <2>8, <2>11 DEF Store!StoreNext
<1>2. CASE PackRow(p) \notin wrote[t]
  BY <1>2, CommitNothing
<1> QED
  BY <1>1, <1>2

LEMMA CommitKeeps ==
    ASSUME TransactionsInv, NEW t \in Requests, Commit(t)
    PROVE  TransactionsInv' /\ [Store!StoreNext]_(Store!store)
<1> DEFINE p == op[t].pack
           W == wrote[t]
<1>1. /\ RequestsTypeOK /\ ControlOK(t) /\ UploadOK(t) /\ DeleteOK(t)
      /\ Store!StoreTypeOK
  BY Facts
<1>2. /\ view[t] # None /\ op[t] \in Ops /\ pc[t] = "commit"
      /\ op[t].kind \in {"upload", "deletePack", "deleteSlots"}
  BY <1>1 DEF Commit, ControlOK
<1>3. [Store!StoreNext]_(Store!store)
  BY <1>2, CommitUpload, CommitDeletePack, CommitDeleteSlots
<1>4. /\ pc' = [pc EXCEPT ![t] = "done"]
      /\ changed' = [u \in Requests |->
                       IF u = t THEN {}
                       ELSE IF view[u] # None THEN changed[u] \cup W
                       ELSE changed[u]]
      /\ view' = [view EXCEPT ![t] = None]
      /\ wrote' = [wrote EXCEPT ![t] = {}]
      /\ digest' = [digest EXCEPT ![t] = {}]
      /\ UNCHANGED <<op, ids, reply>>
  BY DEF Commit, Goto, Leave, Publish, InTransaction
<1>5. /\ pc'[t] = "done" /\ view'[t] = None /\ wrote'[t] = {} /\ changed'[t] = {}
      /\ op'[t] = op[t] /\ ids'[t] = ids[t]
  BY <1>1, <1>4 DEF RequestsTypeOK
<1>6. \A u \in Requests \ {t} : Told(u, W)
  BY <1>1, <1>4 DEF Told, RequestsTypeOK
<1>7. RequestsTypeOK'
  <2>1. W \subseteq Rows
    BY <1>1 DEF RequestsTypeOK
  <2>2. changed' \in [Requests -> SUBSET Rows]
    BY <1>1, <1>4, <2>1 DEF RequestsTypeOK
  <2>3. {} \in Store!Digests
    BY DEF Store!Digests
  <2> QED
    BY <1>1, <1>4, <2>2, <2>3 DEF RequestsTypeOK
<1>8. Published(W)
  <2>1. packIds' = packIds
    BY CommitFacts
  <2>2. slots' = [s \in Slot |-> IF s \in SlotsWritten(t) THEN view[t].slots[s] ELSE slots[s]]
    BY CommitFacts
  <2>3. \A s \in Slot : s \in SlotsWritten(t) => s.pack = p
    BY CommitFacts
  <2>4. PackRow(p) \notin W => packs' = packs /\ title' = title
    BY CommitFacts
  <2>5. PackRow(p) \notin W => \A s \in Slot : slots'[s] = None <=> slots[s] = None
    <3>1. CASE op[t].kind = "upload"
      BY <3>1, CommitUpload
    <3>2. CASE op[t].kind \in {"deletePack", "deleteSlots"}
      BY <3>2, CommitNothing DEF Store!store
    <3> QED
      BY <1>2, <3>1, <3>2
  <2>6. \A q \in Packs : q # p => (q \in packs' <=> q \in packs) /\ title'[q] = title[q]
    BY CommitFacts
  <2>7. \A q \in Packs : q # p =>
           \A s \in Store!OfPack(q) : slots'[s] = slots[s]
    BY <2>2, <2>3, SlotsOfPack
  <2>8. \A s \in Slot : SlotRow(s) \notin W => slots'[s] = slots[s]
    BY <2>2 DEF SlotsWritten
  <2>9. \A q \in Packs : \A s \in Store!OfPack(q) : s \in Slot
    BY SlotsOfPack
  <2> QED
    BY <2>1, <2>4, <2>5, <2>6, <2>7, <2>8, <2>9 DEF Published
<1>9. \A s \in Slot : slots'[s] \in {slots[s], t, None}
  <2>1. \A s \in SlotsWritten(t) : view[t].slots[s] \in {t, None}
    <3>1. SlotsWritten(t) \subseteq op[t].rows
      BY CommitFacts
    <3> QED
      BY <1>1, <1>2, <3>1 DEF UploadOK, DeleteOK
  <2> QED
    BY <2>1, CommitFacts
<1>10. Published(W) /\ (\A u \in Requests \ {t} : Told(u, W)) => TransactionsInv'
  BY <1>2, <1>3, <1>5, <1>7, <1>9, EndKeeps
<1> QED
  BY <1>3, <1>6, <1>8, <1>10

-----------------------------------------------------------------------------
(* The theorems.                                                           *)

LEMMA InitKeeps == Init => TransactionsInv /\ Store!StoreInit
<1> SUFFICES ASSUME Init
             PROVE  TransactionsInv /\ Store!StoreInit
  OBVIOUS
<1> USE DEF Init
<1>1. Returned = {}
  BY DEF Returned
<1>2. Store!StoreInit
  BY <1>1 DEF Store!StoreInit, Slot
<1>3. StoreInv
  BY <1>2, StoreBegins
<1>4. RequestsTypeOK
  BY DEF RequestsTypeOK, Store!Digests
<1>5. \A t \in Requests : None # t
  BY NoneAssumption DEF Requests
<1>6. ASSUME NEW t \in Requests
      PROVE  RequestOK(t)
  <2>1. ControlOK(t) /\ GetOK(t)
    BY DEF ControlOK, GetOK
  <2>2. FreshOK(t)
    BY <1>5 DEF FreshOK
  <2>3. SnapshotOK(t) /\ UploadOK(t) /\ DeleteOK(t)
    BY DEF SnapshotOK, UploadOK, DeleteOK
  <2> QED
    BY <2>1, <2>2, <2>3 DEF RequestOK
<1> QED
  BY <1>2, <1>3, <1>4, <1>6 DEF TransactionsInv, TypeOK, StoreInv

LEMMA NextKeeps ==
    ASSUME TransactionsInv, Next
    PROVE  TransactionsInv' /\ [Store!StoreNext]_(Store!store)
<1>1. CASE \E p \in Packs, n \in Titles : CreatePack(p, n)
  BY <1>1, CreatePackKeeps
<1>2. ASSUME NEW t \in Requests, NEW o \in Ops, Begin(t, o)
      PROVE  TransactionsInv' /\ [Store!StoreNext]_(Store!store)
  BY <1>2, BeginKeeps
<1>3. ASSUME NEW t \in Requests, Step(t)
      PROVE  TransactionsInv' /\ [Store!StoreNext]_(Store!store)
  BY <1>3, SelectKeeps, PutKeeps, DeleteKeeps, DropKeeps, ReadHashKeeps, StoreHashKeeps,
     CommitKeeps, RetryKeeps, FailKeeps, ReadDetailsKeeps, ReadResourcesKeeps, SetTitleKeeps
  DEF Step
<1> QED
  BY <1>1, <1>2, <1>3 DEF Next

LEMMA StutterKeeps ==
    ASSUME TransactionsInv, UNCHANGED vars
    PROVE  TransactionsInv' /\ UNCHANGED Store!store
<1> USE DEF vars, tables
<1>1. Returned' = Returned
  BY DEF Returned
<1>2. UNCHANGED Store!store
  BY <1>1 DEF Store!store
<1>3. StoreInv' /\ TypeOK'
  <2>1. StoreInv'
    BY <1>2, StoreSteps DEF TransactionsInv
  <2>2. RequestsTypeOK'
    BY DEF TransactionsInv, TypeOK, RequestsTypeOK
  <2> QED
    BY <2>1, <2>2 DEF StoreInv, TypeOK
<1>4. \A u \in Requests : OwnOK(u)'
  BY Facts, SameKeeps DEF Same
<1>5. \A u \in Requests : FreshOK(u)'
  BY DEF TransactionsInv, RequestOK, FreshOK
<1> QED
  BY <1>2, <1>3, <1>4, <1>5 DEF TransactionsInv, RequestOK, OwnOK

\* All that the theorems below need, in every state that can be reached.
LEMMA AlwaysInv == Spec => []TransactionsInv
<1>1. Init => TransactionsInv
  BY InitKeeps
<1>2. TransactionsInv /\ [Next]_vars => TransactionsInv'
  BY NextKeeps, StutterKeeps
<1> QED
  BY <1>1, <1>2, PTL DEF Spec

\* Requests, snapshots and rows stay what they are taken for.
THEOREM TransactionsTypeOK == Spec => []TypeOK
<1>1. TransactionsInv => TypeOK
  BY DEF TransactionsInv
<1> QED
  BY <1>1, AlwaysInv, PTL

\* updatePackHash stores a digest it computed from the snapshot of its own
\* transaction. However the statements of any number of requests interleave,
\* the committed hash of every pack is the digest of its committed slots.
THEOREM TransactionsHashMatches == Spec => []HashMatches
<1>1. TransactionsInv => HashMatches
  BY DEF TransactionsInv, StoreInv, HashMatches
<1> QED
  BY <1>1, AlwaysInv, PTL

\* No committed slot outlives its pack, and the ids that committed requests
\* returned to be pruned are in no slot.
THEOREM TransactionsSlotsSound == Spec => []SlotsSound
<1>1. TransactionsInv => SlotsSound
  BY DEF TransactionsInv, StoreInv, SlotsSound
<1> QED
  BY <1>1, AlwaysInv, PTL

\* The two queries of GET /api/packs/:pack_id answer with the hash of the
\* slots they list.
THEOREM TransactionsReplyConsistent == Spec => []ReplyConsistent
<1>1. TransactionsInv => ReplyConsistent
  BY DEF TransactionsInv, RequestOK, GetOK, ReplyConsistent
<1> QED
  BY <1>1, AlwaysInv, PTL

\* The handlers of packs.go, which send several statements each, retry and give
\* up, change the tables as the atomic operations of PackStore do: the commit
\* of an upload is PutResource, that of a deletion DeletePack, DeletePackRole or
\* DeletePackString, and no other statement of a transaction shows.
THEOREM TransactionsImplement == Spec => Implements
<1>1. Init => Store!StoreInit
  BY InitKeeps
<1>2. TransactionsInv /\ [Next]_vars => [Store!StoreNext]_(Store!store)
  BY NextKeeps, StutterKeeps
<1> QED
  BY <1>1, <1>2, AlwaysInv, PTL DEF Spec, Implements, Store!StoreSpec
=============================================================================
