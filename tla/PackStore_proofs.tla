-------------------------- MODULE PackStore_proofs --------------------------
(***************************************************************************)
(* The hash of a pack describes its slots, for every set of packs, roles,  *)
(* strings, classes and resources.                                         *)
(***************************************************************************)
EXTENDS PackStore, TLAPS

\* The properties need each other: a new pack has the digest of nothing only
\* because no slot can be in use without its pack.
StoreInv ==
    /\ StoreTypeOK
    /\ HashMatches
    /\ SlotsHavePack
    /\ SlotsExclusive

-----------------------------------------------------------------------------
(* What the helpers on the slot table return.                              *)

\* A digest is a set of (role, string) pairs.
LEMMA DigestType ==
    ASSUME NEW table, NEW p
    PROVE  Digest(table, p) \in Digests
BY DEF Digest, Digests, InUse, Slot

\* Digests of a pack agree on tables whose slots in use agree on that pack.
LEMMA DigestDepends ==
    ASSUME NEW f, NEW g, NEW p,
           \A s \in OfPack(p) : s \in InUse(f) <=> s \in InUse(g)
    PROVE  Digest(f, p) = Digest(g, p)
<1>1. {x \in InUse(f) : x.pack = p} = {x \in InUse(g) : x.pack = p}
  BY DEF InUse, OfPack
<1> QED  BY <1>1 DEF Digest

\* The ids that a set of slots holds.
LEMMA HeldType ==
    ASSUME NEW table \in [Slot -> Resources \cup {None}], NEW S
    PROVE  Held(table, S) \subseteq Resources
BY DEF Held, InUse

\* Emptying slots takes exactly those out of use and leaves the others alone.
LEMMA EmptiedSlots ==
    ASSUME NEW table \in [Slot -> Resources \cup {None}], NEW S
    PROVE  /\ Emptied(table, S) \in [Slot -> Resources \cup {None}]
           /\ InUse(Emptied(table, S)) = InUse(table) \ S
           /\ \A s \in InUse(table) \ S : Emptied(table, S)[s] = table[s]
BY DEF Emptied, InUse

-----------------------------------------------------------------------------

LEMMA StoreInitInv == StoreInit => StoreInv
<1> SUFFICES ASSUME StoreInit PROVE StoreInv
  OBVIOUS
<1> USE DEF StoreInit
<1>1. InUse(slots) = {}
  BY DEF InUse
<1>2. StoreTypeOK
  BY DEF StoreTypeOK, Digests
<1> QED  BY <1>1, <1>2 DEF StoreInv, HashMatches, SlotsHavePack, SlotsExclusive

\* CreatePack: the new pack has no slots, since every slot in use has a pack.
LEMMA CreatePackInv ==
    ASSUME StoreInv, NEW p \in Packs, NEW t \in Titles, CreatePack(p, t)
    PROVE  StoreInv'
<1> USE DEF StoreInv, CreatePack
<1>1. StoreTypeOK'
  BY DEF StoreTypeOK, Digests
<1>2. Digest(slots, p) = {}
  <2>1. {x \in InUse(slots) : x.pack = p} = {}
    BY DEF SlotsHavePack, StoreTypeOK
  <2> QED  BY <2>1 DEF Digest
<1>3. HashMatches'
  <2> SUFFICES ASSUME NEW q \in packs' PROVE hash'[q] = Digest(slots', q)
    BY DEF HashMatches
  <2>1. slots' = slots /\ hash \in [Packs -> Digests] /\ q \in Packs
    BY DEF StoreTypeOK
  <2> QED  BY <1>2, <2>1 DEF HashMatches
<1>4. SlotsHavePack' /\ SlotsExclusive'
  BY DEF SlotsHavePack, SlotsExclusive, InUse
<1> QED  BY <1>1, <1>3, <1>4

LEMMA UpdatePackInv ==
    ASSUME StoreInv, NEW p \in Packs, NEW t \in Titles, UpdatePack(p, t)
    PROVE  StoreInv'
<1> USE DEF StoreInv, UpdatePack
<1>1. StoreTypeOK'
  BY DEF StoreTypeOK
<1>2. HashMatches'
  BY DEF HashMatches, Digest, InUse
<1>3. SlotsHavePack' /\ SlotsExclusive'
  BY DEF SlotsHavePack, SlotsExclusive, InUse
<1> QED  BY <1>1, <1>2, <1>3

\* PutResource: replacing a resource leaves the roles and strings alone, so
\* only an insertion needs a new hash.
LEMMA PutResourceInv ==
    ASSUME StoreInv, NEW s \in Slot, NEW r \in Resources, PutResource(s, r)
    PROVE  StoreInv'
<1> USE DEF StoreInv, PutResource, PutRow
<1>1. s.pack \in Packs /\ s \in OfPack(s.pack)
  BY DEF Slot, OfPack
<1>2. slots \in [Slot -> Resources \cup {None}] /\ hash \in [Packs -> Digests]
  BY DEF StoreTypeOK
<1>3. InUse(slots') = InUse(slots) \cup {s}
  BY <1>2, NoneAssumption DEF InUse
<1>4. StoreTypeOK'
  BY <1>1, <1>2, DigestType, HeldType DEF StoreTypeOK
<1>5. HashMatches'
  <2> SUFFICES ASSUME NEW q \in packs PROVE hash'[q] = Digest(slots', q)
    BY DEF HashMatches
  <2>1. q \in Packs /\ hash[q] = Digest(slots, q)
    BY DEF StoreTypeOK, HashMatches
  <2>2. CASE slots[s] = None /\ q = s.pack
    BY <1>1, <1>2, <2>1, <2>2
  <2>3. CASE slots[s] # None \/ q # s.pack
    <3>1. hash'[q] = hash[q]
      BY <1>2, <2>1, <2>3
    <3>2. \A x \in OfPack(q) : x \in InUse(slots) <=> x \in InUse(slots')
      BY <1>3, <2>3 DEF OfPack, InUse
    <3>3. Digest(slots, q) = Digest(slots', q)
      BY <3>2, DigestDepends
    <3> QED  BY <2>1, <3>1, <3>3
  <2> QED  BY <2>2, <2>3
<1>6. SlotsHavePack'
  BY <1>3 DEF SlotsHavePack
<1>7. SlotsExclusive'
  <2>1. \A x \in InUse(slots) : slots[x] \in Held(slots, Slot)
    BY DEF Held, InUse
  <2>2. r \notin freed /\ \A x \in InUse(slots) : slots[x] # r
    BY <2>1
  <2>3. Held(slots, {s}) = {slots[x] : x \in {s} \cap InUse(slots)}
    BY DEF Held
  <2>4. \A x \in InUse(slots') : slots'[x] = IF x = s THEN r ELSE slots[x]
    BY <1>2, <1>3 DEF InUse
  <2>5. freed' = freed \cup Held(slots, {s})
    OBVIOUS
  <2>6. /\ \A x, y \in InUse(slots) : slots[x] = slots[y] => x = y
        /\ \A x \in InUse(slots) : slots[x] \notin freed
    BY DEF SlotsExclusive
  <2> HIDE DEF StoreInv, PutResource, PutRow
  <2>7. \A x, y \in InUse(slots') : slots'[x] = slots'[y] => x = y
    <3> SUFFICES ASSUME NEW x \in InUse(slots'), NEW y \in InUse(slots'),
                        slots'[x] = slots'[y], x # y
                 PROVE  FALSE
      OBVIOUS
    <3>1. /\ x # s => x \in InUse(slots) /\ slots'[x] = slots[x]
          /\ y # s => y \in InUse(slots) /\ slots'[y] = slots[y]
          /\ x = s => slots'[x] = r
          /\ y = s => slots'[y] = r
      BY <1>3, <2>4
    <3> QED  BY <2>2, <2>6, <3>1
  <2>8. \A x \in InUse(slots') : slots'[x] \notin freed'
    <3> SUFFICES ASSUME NEW x \in InUse(slots') PROVE slots'[x] \notin freed'
      OBVIOUS
    <3>1. CASE x = s
      BY <2>2, <2>3, <2>4, <2>5, <3>1
    <3>2. CASE x # s
      <4>1. x \in InUse(slots) /\ slots'[x] = slots[x]
        BY <1>3, <2>4, <3>2
      <4>2. slots[x] \notin freed /\ slots[x] \notin Held(slots, {s})
        BY <2>3, <2>6, <3>2, <4>1
      <4> QED  BY <2>5, <4>1, <4>2
    <3> QED  BY <3>1, <3>2
  <2> QED  BY <2>7, <2>8 DEF SlotsExclusive
<1> QED  BY <1>4, <1>5, <1>6, <1>7

\* What both deletions do to the slots keeps them exclusive.
LEMMA EmptiedExclusive ==
    ASSUME StoreTypeOK, SlotsExclusive, NEW S,
           slots' = Emptied(slots, S), freed' = freed \cup Held(slots, S)
    PROVE  SlotsExclusive'
<1>1. slots \in [Slot -> Resources \cup {None}]
  BY DEF StoreTypeOK
<1>2. /\ InUse(slots') = InUse(slots) \ S
      /\ \A x \in InUse(slots) \ S : slots'[x] = slots[x]
  BY <1>1, EmptiedSlots
<1>3. Held(slots, S) = {slots[x] : x \in S \cap InUse(slots)}
  BY DEF Held
<1>4. \A x, y \in InUse(slots') : slots'[x] = slots'[y] => x = y
  BY <1>2 DEF SlotsExclusive
<1>5. \A x \in InUse(slots') : slots'[x] \notin freed'
  BY <1>2, <1>3 DEF SlotsExclusive
<1> QED  BY <1>4, <1>5 DEF SlotsExclusive

LEMMA DeletePackInv ==
    ASSUME StoreInv, NEW p \in Packs, DeletePack(p)
    PROVE  StoreInv'
<1> USE DEF StoreInv, DeletePack
<1>1. slots \in [Slot -> Resources \cup {None}] /\ hash \in [Packs -> Digests]
  BY DEF StoreTypeOK
<1>2. /\ slots' \in [Slot -> Resources \cup {None}]
      /\ InUse(slots') = InUse(slots) \ OfPack(p)
  BY <1>1, EmptiedSlots
<1>3. StoreTypeOK'
  BY <1>1, <1>2, HeldType DEF StoreTypeOK, Digests
<1>4. HashMatches'
  <2> SUFFICES ASSUME NEW q \in packs' PROVE hash'[q] = Digest(slots', q)
    BY DEF HashMatches
  <2>1. q \in Packs /\ q # p /\ hash'[q] = hash[q] /\ hash[q] = Digest(slots, q)
    BY <1>1 DEF StoreTypeOK, HashMatches
  <2>2. \A x \in OfPack(q) : x \in InUse(slots) <=> x \in InUse(slots')
    BY <1>2, <2>1 DEF OfPack
  <2> QED  BY <2>1, <2>2, DigestDepends
<1>5. SlotsHavePack'
  BY <1>2 DEF SlotsHavePack, OfPack, InUse
<1>6. SlotsExclusive'
  BY EmptiedExclusive
<1> QED  BY <1>3, <1>4, <1>5, <1>6

LEMMA DeleteSlotsInv ==
    ASSUME StoreInv, NEW p \in Packs, NEW S \in SUBSET OfPack(p), DeleteSlots(p, S)
    PROVE  StoreInv'
<1> USE DEF StoreInv, DeleteSlots
<1>1. slots \in [Slot -> Resources \cup {None}] /\ hash \in [Packs -> Digests]
  BY DEF StoreTypeOK
<1>2. /\ slots' \in [Slot -> Resources \cup {None}]
      /\ InUse(slots') = InUse(slots) \ S
  BY <1>1, EmptiedSlots
<1>3. StoreTypeOK'
  BY <1>1, <1>2, HeldType, DigestType DEF StoreTypeOK
<1>4. HashMatches'
  <2> SUFFICES ASSUME NEW q \in packs PROVE hash'[q] = Digest(slots', q)
    BY DEF HashMatches
  <2>1. q \in Packs /\ hash[q] = Digest(slots, q)
    BY DEF StoreTypeOK, HashMatches
  <2>2. CASE q = p
    BY <1>1, <2>1, <2>2
  <2>3. CASE q # p
    <3>1. \A x \in OfPack(q) : x \in InUse(slots) <=> x \in InUse(slots')
      BY <1>2, <2>3 DEF OfPack
    <3>2. Digest(slots, q) = Digest(slots', q)
      BY <3>1, DigestDepends
    <3> QED  BY <1>1, <2>1, <2>3, <3>2
  <2> QED  BY <2>2, <2>3
<1>5. SlotsHavePack'
  BY <1>2 DEF SlotsHavePack
<1>6. SlotsExclusive'
  BY EmptiedExclusive
<1> QED  BY <1>3, <1>4, <1>5, <1>6

LEMMA StoreStepInv == StoreInv /\ [StoreNext]_store => StoreInv'
<1> SUFFICES ASSUME StoreInv, [StoreNext]_store PROVE StoreInv'
  OBVIOUS
<1>1. ASSUME NEW p \in Packs, NEW t \in Titles, CreatePack(p, t)
      PROVE  StoreInv'
  BY <1>1, CreatePackInv
<1>2. ASSUME NEW p \in Packs, NEW t \in Titles, UpdatePack(p, t)
      PROVE  StoreInv'
  BY <1>2, UpdatePackInv
<1>3. ASSUME NEW s \in Slot, NEW r \in Resources, PutResource(s, r)
      PROVE  StoreInv'
  BY <1>3, PutResourceInv
<1>4. ASSUME NEW p \in Packs, DeletePack(p)
      PROVE  StoreInv'
  BY <1>4, DeletePackInv
<1>5. ASSUME NEW p \in Packs, NEW o \in Roles, DeletePackRole(p, o)
      PROVE  StoreInv'
  <2>1. OfRole(p, o) \subseteq OfPack(p)
    BY DEF OfRole
  <2> QED  BY <1>5, <2>1, DeleteSlotsInv DEF DeletePackRole
<1>6. ASSUME NEW p \in Packs, NEW o \in Roles, NEW t \in Strings,
             DeletePackString(p, o, t)
      PROVE  StoreInv'
  <2>1. OfString(p, o, t) \subseteq OfPack(p)
    BY DEF OfString, OfRole
  <2> QED  BY <1>6, <2>1, DeleteSlotsInv DEF DeletePackString
<1>7. CASE UNCHANGED store
  BY <1>7 DEF store, StoreInv, StoreTypeOK, HashMatches, Digest, InUse,
              SlotsHavePack, SlotsExclusive
<1> QED  BY <1>1, <1>2, <1>3, <1>4, <1>5, <1>6, <1>7 DEF StoreNext

\* The hash of every pack is the digest of its slots, in every reachable state
\* of the abstract store.
THEOREM StoreHashMatches == StoreSpec => []HashMatches
<1>1. StoreInv => HashMatches
  BY DEF StoreInv
<1> QED  BY <1>1, StoreInitInv, StoreStepInv, PTL DEF StoreSpec

\* No slot outlives its pack, none shares its resource, and none refers to a
\* resource that was handed out for pruning.
THEOREM StoreSlotsSound == StoreSpec => [](SlotsHavePack /\ SlotsExclusive)
<1>1. StoreInv => SlotsHavePack /\ SlotsExclusive
  BY DEF StoreInv
<1> QED  BY <1>1, StoreInitInv, StoreStepInv, PTL DEF StoreSpec
=============================================================================
