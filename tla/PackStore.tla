----------------------------- MODULE PackStore -----------------------------
(***************************************************************************)
(* What the pack tables of Postgres promise the handlers of                *)
(* fwends-backend/api/packs.go: every operation on a pack takes effect at  *)
(* once, and the hash column of a pack always describes its contents.      *)
(* The statements the handlers really run are in PackTransactions; what    *)
(* becomes of the media the rows point at is in PackResources.             *)
(***************************************************************************)
EXTENDS FiniteSets

CONSTANTS
    Packs,      \* pack ids
    Roles,      \* role ids
    Strings,    \* string ids
    Classes,    \* resource classes: image and audio
    Titles,     \* pack titles
    Resources,  \* resource ids
    None        \* no resource (SQL NULL)

ASSUME NoneAssumption == None \notin Resources

VARIABLES
    packIds,    \* pack ids the generator has handed out
    packs,      \* pack ids that have a row in table packs
    title,      \* column packs.title
    hash,       \* column packs.hash
    slots,      \* table pack_resources: the resource in each slot, or None
    freed       \* resource ids a committed operation took out of a slot and
                \* returned to its caller, who must prune them

store == <<packIds, packs, title, hash, slots, freed>>

\* The primary key of pack_resources.
Slot == [pack : Packs, role : Roles, string : Strings, class : Classes]

\* The SHA-256 in packs.hash digests the sorted, distinct (role, string) pairs
\* of a pack with separators no id can contain; it is represented by the set of
\* pairs, which it determines and which determines it.
Digests == SUBSET (Roles \X Strings)

InUse(table) == {s \in Slot : table[s] # None}

Digest(table, p) ==
    {<<s.role, s.string>> : s \in {x \in InUse(table) : x.pack = p}}

OfPack(p) == {s \in Slot : s.pack = p}
OfRole(p, o) == {s \in OfPack(p) : s.role = o}
OfString(p, o, t) == {s \in OfRole(p, o) : s.string = t}

\* The resources that the slots of a set hold.
Held(table, S) == {table[s] : s \in S \cap InUse(table)}

Emptied(table, S) == [s \in Slot |-> IF s \in S THEN None ELSE table[s]]

-----------------------------------------------------------------------------

StoreTypeOK ==
    /\ packIds \subseteq Packs
    /\ packs \subseteq packIds
    /\ title \in [Packs -> Titles \cup {None}]
    /\ hash \in [Packs -> Digests]
    /\ slots \in [Slot -> Resources \cup {None}]
    /\ freed \subseteq Resources

StoreInit ==
    /\ packIds = {}
    /\ packs = {}
    /\ title = [p \in Packs |-> None]
    /\ hash = [p \in Packs |-> {}]
    /\ slots = [s \in Slot |-> None]
    /\ freed = {}

\* Mutant: the id is not taken from the generator.
CreatePackOwnId(p, t) ==
    /\ p \notin packIds
    /\ packs' = packs \cup {p}
    /\ title' = [title EXCEPT ![p] = t]
    /\ hash' = [hash EXCEPT ![p] = {}]
    /\ UNCHANGED <<packIds, slots, freed>>

\* POST /api/packs/: a row with a fresh id, the digest of nothing as its hash.
CreatePack(p, t) ==
    /\ p \notin packIds
    /\ packIds' = packIds \cup {p}
    /\ packs' = packs \cup {p}
    /\ title' = [title EXCEPT ![p] = t]
    /\ hash' = [hash EXCEPT ![p] = {}]
    /\ UNCHANGED <<slots, freed>>

\* PUT /api/packs/:pack_id
UpdatePack(p, t) ==
    /\ p \in packs
    /\ title' = [title EXCEPT ![p] = t]
    /\ UNCHANGED <<packIds, packs, hash, slots, freed>>

\* Mutant: the transaction returns the new id instead of the previous one.
PutRowReturnsNew(s, r) ==
    /\ s.pack \in packs
    /\ slots' = [slots EXCEPT ![s] = r]
    /\ hash' = [hash EXCEPT ![s.pack] = Digest(slots', s.pack)]
    /\ freed' = freed \cup {r}
    /\ UNCHANGED <<packIds, packs, title>>

\* PUT /api/packs/:pack_id/:role_id/:string_id: point the slot at the uploaded
\* resource. The hash changes only when the slot was empty.
PutRow(s, r) ==
    /\ s.pack \in packs
    /\ slots' = [slots EXCEPT ![s] = r]
    /\ hash' = IF slots[s] = None
                 THEN [hash EXCEPT ![s.pack] = Digest(slots', s.pack)]
                 ELSE hash
    /\ freed' = freed \cup Held(slots, {s})
    /\ UNCHANGED <<packIds, packs, title>>

\* Every upload has an id of its own, so r was never in a slot before.
PutResource(s, r) ==
    /\ r \notin freed \cup Held(slots, Slot)
    /\ PutRow(s, r)

\* DELETE /api/packs/:pack_id: the slots of the pack, then its row.
DeletePack(p) ==
    /\ p \in packs
    /\ slots' = Emptied(slots, OfPack(p))
    /\ freed' = freed \cup Held(slots, OfPack(p))
    /\ packs' = packs \ {p}
    /\ title' = [title EXCEPT ![p] = None]
    /\ hash' = [hash EXCEPT ![p] = {}]
    /\ UNCHANGED packIds

\* Mutant: the hash is left for the next upload to recompute.
DeleteSlotsKeepsHash(p, S) ==
    /\ Held(slots, S) # {}
    /\ slots' = Emptied(slots, S)
    /\ freed' = freed \cup Held(slots, S)
    /\ UNCHANGED <<packIds, packs, title, hash>>

\* DELETE of a role or of a string: nothing changes unless a slot was deleted.
DeleteSlots(p, S) ==
    /\ Held(slots, S) # {}
    /\ slots' = Emptied(slots, S)
    /\ freed' = freed \cup Held(slots, S)
    /\ hash' = [hash EXCEPT ![p] = Digest(slots', p)]
    /\ UNCHANGED <<packIds, packs, title>>

DeletePackRole(p, o) == DeleteSlots(p, OfRole(p, o))
DeletePackString(p, o, t) == DeleteSlots(p, OfString(p, o, t))

StoreNext ==
    \/ \E p \in Packs, t \in Titles : CreatePack(p, t) \/ UpdatePack(p, t)
    \/ \E s \in Slot, r \in Resources : PutResource(s, r)
    \/ \E p \in Packs : DeletePack(p)
    \/ \E p \in Packs, o \in Roles :
          \/ DeletePackRole(p, o)
          \/ \E t \in Strings : DeletePackString(p, o, t)

StoreSpec == StoreInit /\ [][StoreNext]_store

-----------------------------------------------------------------------------

\* The hash column of every pack is the digest of its slots, whichever of the
\* operations that add, replace or remove slots ran before: the code recomputes
\* it in some of them only (packs.go:493, packs.go:653, packs.go:734).
HashMatches == \A p \in packs : hash[p] = Digest(slots, p)

\* A slot in use belongs to a pack that has a row, so that deleting a pack
\* leaves no slot behind (the foreign key on pack_id).
SlotsHavePack == \A s \in InUse(slots) : s.pack \in packs

\* No two slots share a resource and no slot points at a resource that was
\* handed out for pruning.
SlotsExclusive ==
    /\ \A s, x \in InUse(slots) : slots[s] = slots[x] => s = x
    /\ \A s \in InUse(slots) : slots[s] \notin freed
=============================================================================
