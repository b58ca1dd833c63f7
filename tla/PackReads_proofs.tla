-------------------------- MODULE PackReads_proofs --------------------------
(***************************************************************************)
(* The handlers of PackReads use the wrappers of StatusHandler as any      *)
(* handler may, for any packs, ids and contents. What they answer with is  *)
(* all that is stored, and what the hash of a pack is computed from tells  *)
(* its roles and strings. Both rest on what folds over sequences compute,  *)
(* shown by induction over the indexes (UpTo) on a least counterexample.   *)
(***************************************************************************)
EXTENDS PackReads, StatusHandler_proofs, FiniteSetTheorems, SequenceTheorems

\* The initial states are those of the wrappers.
LEMMA InitWraps == Init => WrapInit
  BY DEF Init

\* Every step is one of the wrappers, a call of the handler, or invisible to
\* the wrappers.
LEMMA StepWraps == [Next]_vars => [WrapNext]_wrapVars
<1> SUFFICES ASSUME [Next]_vars PROVE [WrapNext]_wrapVars
  OBVIOUS
<1>1. CASE QueryPacks \/ QueryPack
  BY <1>1 DEF QueryPacks, QueryPack, Fetch
<1>2. ASSUME NEW s \in Statuses, Return(s) PROVE WrapNext
  BY <1>2 DEF Return, HandlerStep, WrapNext
<1>3. CASE PackNotFound \/ Fails \/ ReturnOK
  BY <1>2, <1>3, ReadsAssumption, StatusesAssumption
  DEF PackNotFound, Fails, ReturnOK
<1>4. CASE NextRow \/ RowsEnd
  BY <1>4 DEF NextRow, RowsEnd
<1>5. CASE Encode
  BY <1>5 DEF Encode, HandlerWrites, HandlerStep, WrapNext
<1>6. CASE WrapperStep \/ OtherHandler
  BY <1>6 DEF OtherHandler, WrapNext
<1>7. CASE UNCHANGED vars
  BY <1>7 DEF vars
<1> QED
  BY <1>1, <1>3, <1>4, <1>5, <1>6, <1>7 DEF Next

\* GET inside its wrappers is a case of StatusHandler (main.go:46) by the way it
\* is put together, so what is proved of any handler holds for it.
LEMMA ReadsAreWrapped == Spec => Wrapped
  BY InitWraps, StepWraps, PTL DEF Spec, Wrapped

\* A client that does not leave gets the reply of the handler or the default
\* response, whatever fails while the rows are read.
THEOREM ReadsResponded == Spec => []Responded
  BY ReadsAreWrapped, WrappedResponded, PTL

-----------------------------------------------------------------------------
(* Results of queries.                                                     *)

\* A table has finitely many rows.
LEMMA SlotFinite == IsFiniteSet(Slot)
<1>1. IsFiniteSet(Ids)
  <2> DEFINE n == Len(Collation)
  <2>1. n \in Nat /\ DOMAIN Collation = 1 .. n
    BY IdsAssumption
  <2>2. Collation \in Surjection(1 .. n, Ids)
    BY <2>1, IdsAssumption DEF Ids, ToSet, Surjection
  <2> QED
    BY <2>1, <2>2, FS_Interval, FS_Surjection
<1>2. IsFiniteSet(Packs) /\ IsFiniteSet(Classes)
  <2>1. IsFiniteSet({"audio"}) /\ IsFiniteSet({"audio"} \cup {"image"})
    BY FS_Singleton, FS_AddElement
  <2>2. {"audio"} \cup {"image"} = Classes
    BY DEF Classes
  <2> QED
    BY <2>1, <2>2, ReadsAssumption
<1> DEFINE T == (Packs \X Ids) \X (Ids \X Classes)
           f == [s \in Slot |-> <<<<s.pack, s.role>>, <<s.string, s.class>>>>]
<1>3. IsFiniteSet(T)
  BY <1>1, <1>2, FS_Product
<1>4. f \in Injection(Slot, T)
  <2>1. f \in [Slot -> T]
    BY DEF Slot
  <2>2. ASSUME NEW s \in Slot, NEW x \in Slot, f[s] = f[x]
        PROVE  s = x
    <3>1. s.pack = x.pack /\ s.role = x.role /\ s.string = x.string /\ s.class = x.class
      BY <2>2
    <3> QED
      BY <3>1 DEF Slot
  <2> QED
    BY <2>1, <2>2 DEF Injection, IsInjective
<1> QED
  BY <1>3, <1>4, FS_Injection

\* The rows of SELECT DISTINCT role_id, string_id.
PairType == [role : Ids, string : Ids]

\* They are finitely many too.
LEMMA PairsFinite ==
    ASSUME NEW C \in SUBSET Slot
    PROVE  Pairs(C) \in SUBSET PairType /\ IsFiniteSet(Pairs(C))
<1> DEFINE pair == [s \in C |-> [role |-> s.role, string |-> s.string]]
<1>1. IsFiniteSet(C)
  BY SlotFinite, FS_Subset
<1>2. pair \in Surjection(C, Pairs(C))
  BY DEF Pairs, Surjection
<1>3. Pairs(C) \in SUBSET PairType
  BY DEF Pairs, PairType, Slot
<1> QED
  BY <1>1, <1>2, <1>3, FS_Surjection

\* A result lists its rows, each once.
LEMMA Results ==
    ASSUME NEW R, IsFiniteSet(R), NEW q \in SetToSeqs(R)
    PROVE  q \in Seq(R) /\ ToSet(q) = R /\ IsInjective(q) /\ Len(q) = Cardinality(R)
<1> DEFINE n == Cardinality(R)
<1>1. n \in Nat
  BY FS_CardinalityType
<1>2. q \in [1 .. n -> R] /\ \A i, j \in 1 .. n : q[i] = q[j] => i = j
  BY DEF SetToSeqs
<1>3. q \in Surjection(1 .. n, R)
  <2>1. q \in Injection(1 .. n, R)
    BY <1>2 DEF Injection, IsInjective
  <2>2. Cardinality(1 .. n) = n
    BY <1>1, FS_Interval
  <2> QED
    BY <1>1, <2>1, <2>2, FS_Injection
<1>4. q \in Seq(R) /\ Len(q) = n
  BY <1>1, <1>2
<1> QED
  BY <1>2, <1>3, <1>4 DEF ToSet, Surjection, IsInjective

-----------------------------------------------------------------------------
(* Induction over an interval: the theorems of the library take the        *)
(* predicate as an operator, a set of numbers serves as well.              *)

\* A set of numbers has a least one.
LEMMA Least ==
    ASSUME NEW T \in SUBSET Nat, T # {}
    PROVE  \E x \in T : \A y \in T : x <= y
<1>1. PICK x \in T : \A y \in T : ~(<<y, x>> \in OpToRel(<, Nat))
  BY WFMin, NatLessThanWellFounded, Zenon
<1>2. \A y \in T : ~(y < x)
  BY <1>1 DEF OpToRel
<1> QED
  BY <1>2

\* A bounded one has a greatest one.
LEMMA MaxIn ==
    ASSUME NEW m \in Nat, NEW s \in SUBSET (0 .. m), s # {}
    PROVE  \E x \in s : \A y \in s : x >= y
<1> DEFINE T == {m - x : x \in s}
<1>1. T \in SUBSET Nat /\ T # {}
  <2>1. \A x \in s : m - x \in Nat
    OBVIOUS
  <2> QED
    BY <2>1
<1>2. PICK t \in T : \A y \in T : t <= y
  BY <1>1, Least
<1>3. PICK x \in s : t = m - x
  OBVIOUS
<1>4. \A y \in s : x >= y
  <2> TAKE y \in s
  <2>1. m - y \in T
    OBVIOUS
  <2> QED
    BY <1>2, <1>3, <2>1
<1> QED
  BY <1>4

\* What holds at 0, and at k + 1 if at k, holds up to n.
LEMMA UpTo ==
    ASSUME NEW n \in Nat, NEW S, 0 \in S, \A k \in 0 .. n - 1 : k \in S => k + 1 \in S
    PROVE  0 .. n \subseteq S
<1> SUFFICES ASSUME (0 .. n) \ S # {}
             PROVE  FALSE
  OBVIOUS
<1> DEFINE T == (0 .. n) \ S
<1>0. T \in SUBSET Nat
  OBVIOUS
<1>1. PICK x \in T : \A y \in T : x <= y
  BY <1>0, Least
<1>2. x - 1 \in 0 .. n - 1 /\ x - 1 \notin T
  BY <1>1
<1> QED
  BY <1>1, <1>2

\* A fold from the left takes the greatest index last.
LEMMA MaxOf ==
    ASSUME NEW m \in Nat, NEW s \in SUBSET (1 .. m), m \in s
    PROVE  Max(s) = m
<1>1. \A y \in s : m >= y
  OBVIOUS
<1>2. \A x \in s : (\A y \in s : x >= y) => x = m
  OBVIOUS
<1> QED
  BY <1>1, <1>2 DEF Max

-----------------------------------------------------------------------------
(* What getPackResources makes of a sorted result.                         *)

NoRoles == [roles |-> <<>>, prevRoleID |-> <<>>, prevStringID |-> <<>>]

\* The fold exists, and is what the loop of getPackResources does row by row.
LEMMA ViewSteps ==
    ASSUME NEW R, NEW result \in Seq(R)
    PROVE  \E acc : /\ acc[0] = NoRoles
                    /\ \A k \in 1 .. Len(result) : acc[k] = AddRow(acc[k - 1], result[k])
                    /\ View(result) = acc[Len(result)].roles
<1> DEFINE n == Len(result)
           Step(h, s) == IF s = {} THEN NoRoles ELSE AddRow(h[s \ {Max(s)}], result[Max(s)])
           E == {m \in 0 .. n : \E h : h = [s \in SUBSET (1 .. m) |-> Step(h, s)]}
           iter == CHOOSE h : h = [s \in SUBSET DOMAIN result |-> Step(h, s)]
<1>1. n \in Nat /\ DOMAIN result = 1 .. n
  OBVIOUS
<1>2. View(result) = iter[1 .. n].roles
  BY <1>1 DEF View, FoldLeft, MapThenFoldSet, NoRoles
<1>3. 0 \in E
  <2> DEFINE h == [s \in SUBSET (1 .. 0) |-> NoRoles]
  <2>1. \A s \in SUBSET (1 .. 0) : s = {}
    OBVIOUS
  <2>2. h = [s \in SUBSET (1 .. 0) |-> Step(h, s)]
    BY <2>1
  <2> QED
    BY <1>1, <2>2
<1>4. ASSUME NEW m \in 0 .. n - 1, m \in E
      PROVE  m + 1 \in E
  <2> PICK h : h = [s \in SUBSET (1 .. m) |-> Step(h, s)]
    BY <1>4
  <2> DEFINE g == [s \in SUBSET (1 .. m + 1) |->
                      IF m + 1 \in s THEN AddRow(h[s \ {m + 1}], result[m + 1]) ELSE h[s]]
  <2>1. ASSUME NEW s \in SUBSET (1 .. m + 1)
        PROVE  g[s] = Step(g, s)
    <3>1. CASE m + 1 \in s
      <4>1. Max(s) = m + 1
        BY <3>1, <1>1, MaxOf
      <4>2. g[s \ {m + 1}] = h[s \ {m + 1}]
        OBVIOUS
      <4> QED
        BY <3>1, <4>1, <4>2
    <3>2. CASE m + 1 \notin s
      <4>1. s \in SUBSET (1 .. m)
        BY <3>2, <1>1
      <4>2. g[s] = Step(h, s)
        BY <3>2, <4>1
      <4>3. CASE s = {}
        BY <4>2, <4>3
      <4>4. CASE s # {}
        <5>1. g[s \ {Max(s)}] = h[s \ {Max(s)}]
          BY <3>2
        <5> QED
          BY <4>2, <4>4, <5>1
      <4> QED
        BY <4>3, <4>4
    <3> QED
      BY <3>1, <3>2
  <2>2. g = [s \in SUBSET (1 .. m + 1) |-> Step(g, s)]
    BY <2>1
  <2> HIDE DEF g, Step
  <2> QED
    BY <1>1, <2>2
<1>5. n \in E
  <2> HIDE DEF E
  <2>1. \A m \in 0 .. n - 1 : m \in E => m + 1 \in E
    BY <1>4
  <2>2. 0 .. n \subseteq E
    BY <1>1, <1>3, <2>1, UpTo
  <2> QED
    BY <1>1, <2>2
<1>6. \E h : h = [s \in SUBSET DOMAIN result |-> Step(h, s)]
  BY <1>1, <1>5
<1>7. iter = [s \in SUBSET DOMAIN result |-> Step(iter, s)]
  <2> HIDE DEF Step
  <2> QED
    BY <1>6
<1> HIDE DEF iter
<1> DEFINE acc == [k \in 0 .. n |-> iter[1 .. k]]
<1>8. acc[0] = NoRoles
  BY <1>1, <1>7
<1>9. ASSUME NEW k \in 1 .. n
      PROVE  acc[k] = AddRow(acc[k - 1], result[k])
  <2>1. k \in 1 .. k /\ (1 .. k) \ {k} = 1 .. k - 1 /\ k \in Nat
    BY <1>1
  <2>3. Max(1 .. k) = k
    BY <2>1, MaxOf
  <2>2. iter[1 .. k] = Step(iter, 1 .. k)
    <3>1. 1 .. k \in SUBSET DOMAIN result
      BY <1>1
    <3> HIDE DEF Step
    <3> QED
      BY <1>7, <3>1
  <2> QED
    BY <1>1, <2>1, <2>2, <2>3
<1>10. View(result) = acc[n].roles
  BY <1>1, <1>2
<1> QED
  BY <1>8, <1>9, <1>10

\* The roles of a response: what they are made of, and that they show the pairs P,
\* each once, with the resources of C in their places.
Shown == Slot \cup {None}
StringView == [id : Ids, audio : Shown, image : Shown]
RoleView == [id : Ids, strings : Seq(StringView)]

Placed(p, role, str, C) ==
    LET R(class) ==
          LET s == [pack |-> p, role |-> role, string |-> str.id, class |-> class]
          IN IF s \in C THEN s ELSE None
    IN str.audio = R("audio") /\ str.image = R("image")

Grouped(roles, p, P, C) ==
    /\ roles \in Seq(RoleView)
    /\ \A i, j \in DOMAIN roles : roles[i].id = roles[j].id => i = j
    /\ \A i \in DOMAIN roles :
          /\ roles[i].strings # <<>>
          /\ \A j, l \in DOMAIN roles[i].strings :
                roles[i].strings[j].id = roles[i].strings[l].id => j = l
          /\ \A j \in DOMAIN roles[i].strings :
                /\ [role |-> roles[i].id, string |-> roles[i].strings[j].id] \in P
                /\ Placed(p, roles[i].id, roles[i].strings[j], C)
    /\ \A x \in P : \E i \in DOMAIN roles : \E j \in DOMAIN roles[i].strings :
          roles[i].id = x.role /\ roles[i].strings[j].id = x.string

\* Ids that differ are as many as there are.
LEMMA ListsIds ==
    ASSUME NEW X, NEW q \in Seq(X), NEW S, {x.id : x \in ToSet(q)} = S,
           \A i, j \in DOMAIN q : q[i].id = q[j].id => i = j
    PROVE  Lists(q, S)
<1> DEFINE n == Len(q)
           f == [i \in 1 .. n |-> q[i].id]
<1>1. n \in Nat /\ DOMAIN q = 1 .. n
  OBVIOUS
<1>2. S = {q[i].id : i \in 1 .. n}
  BY <1>1 DEF ToSet
<1>3. f \in Bijection(1 .. n, S)
  <2>1. f \in [1 .. n -> S]
    BY <1>2
  <2>2. \A i, j \in 1 .. n : f[i] = f[j] => i = j
    BY <1>1
  <2>3. \A s \in S : \E i \in 1 .. n : f[i] = s
    BY <1>2
  <2> HIDE DEF f
  <2> QED
    BY <2>1, <2>2, <2>3 DEF Bijection, Injection, Surjection, IsInjective
<1>4. IsFiniteSet(1 .. n) /\ Cardinality(1 .. n) = n
  BY <1>1, FS_Interval
<1>5. Cardinality(S) = n
  BY <1>3, <1>4, FS_Bijection DEF ExistsBijection
<1> QED
  BY <1>5 DEF Lists

\* Roles that show all pairs show the contents.
LEMMA GroupedShows ==
    ASSUME NEW p, NEW C \in SUBSET Slot, NEW roles, Grouped(roles, p, Pairs(C), C)
    PROVE  Shows(roles, p, C)
<1>0. \A i \in DOMAIN roles : roles[i].strings \in Seq(StringView)
  <2>1. \A i \in DOMAIN roles : roles[i] \in RoleView
    BY DEF Grouped
  <2> QED
    BY <2>1 DEF RoleView
<1> USE DEF Grouped
<1>1. Lists(roles, Roles(C))
  <2>1. {x.id : x \in ToSet(roles)} \subseteq Roles(C)
    <3> SUFFICES ASSUME NEW i \in DOMAIN roles
                 PROVE  roles[i].id \in Roles(C)
      BY DEF ToSet
    <3>1. roles[i].strings \in Seq(StringView) /\ roles[i].strings # <<>>
      BY <1>0
    <3>2. 1 \in DOMAIN roles[i].strings
      BY <3>1
    <3>3. [role |-> roles[i].id, string |-> roles[i].strings[1].id] \in Pairs(C)
      BY <3>2
    <3> QED
      BY <3>3 DEF Pairs, Roles
  <2>2. Roles(C) \subseteq {x.id : x \in ToSet(roles)}
    <3> SUFFICES ASSUME NEW s \in C
                 PROVE  \E i \in DOMAIN roles : roles[i].id = s.role
      BY DEF ToSet, Roles
    <3>1. [role |-> s.role, string |-> s.string] \in Pairs(C)
      BY DEF Pairs
    <3> QED
      BY <3>1
  <2> QED
    BY <2>1, <2>2, ListsIds
<1>2. ASSUME NEW i \in DOMAIN roles
      PROVE  Lists(roles[i].strings, {s.string : s \in {x \in C : x.role = roles[i].id}})
  <2> DEFINE S == {s.string : s \in {x \in C : x.role = roles[i].id}}
             q == roles[i].strings
  <2>1. q \in Seq(StringView)
    BY <1>0
  <2>2. {x.id : x \in ToSet(q)} \subseteq S
    <3> SUFFICES ASSUME NEW j \in DOMAIN q
                 PROVE  q[j].id \in S
      BY DEF ToSet
    <3>1. [role |-> roles[i].id, string |-> q[j].id] \in Pairs(C)
      OBVIOUS
    <3>2. PICK s \in C : [role |-> roles[i].id, string |-> q[j].id]
                           = [role |-> s.role, string |-> s.string]
      BY <3>1 DEF Pairs
    <3>3. s.role = roles[i].id /\ s.string = q[j].id
      BY <3>2
    <3> QED
      BY <3>3
  <2>3. S \subseteq {x.id : x \in ToSet(q)}
    <3> SUFFICES ASSUME NEW s \in C, s.role = roles[i].id
                 PROVE  \E j \in DOMAIN q : q[j].id = s.string
      BY DEF ToSet
    <3> DEFINE y == [role |-> s.role, string |-> s.string]
    <3>1. y \in Pairs(C) /\ y.role = s.role /\ y.string = s.string
      BY DEF Pairs
    <3>2. PICK k \in DOMAIN roles : \E j \in DOMAIN roles[k].strings :
             roles[k].id = y.role /\ roles[k].strings[j].id = y.string
      BY <3>1
    <3>3. k = i
      BY <3>1, <3>2
    <3> QED
      BY <3>1, <3>2, <3>3
  <2>4. {x.id : x \in ToSet(q)} = S
    BY <2>2, <2>3
  <2>5. \A j, l \in DOMAIN q : q[j].id = q[l].id => j = l
    OBVIOUS
  <2> QED
    BY <2>1, <2>4, <2>5, ListsIds
<1>3. \A i \in DOMAIN roles : \A j \in DOMAIN roles[i].strings :
         Placed(p, roles[i].id, roles[i].strings[j], C)
  OBVIOUS
<1>4. \A r \in ToSet(roles) :
        /\ Lists(r.strings, {s.string : s \in {x \in C : x.role = r.id}})
        /\ \A str \in ToSet(r.strings) : Placed(p, r.id, str, C)
  <2> TAKE r \in ToSet(roles)
  <2>1. PICK i \in DOMAIN roles : r = roles[i]
    BY DEF ToSet
  <2>2. Lists(r.strings, {s.string : s \in {x \in C : x.role = r.id}})
    BY <1>2, <2>1
  <2>3. \A str \in ToSet(r.strings) : Placed(p, r.id, str, C)
    BY <1>3, <2>1 DEF ToSet
  <2> QED
    BY <2>2, <2>3
<1> QED
  BY <1>1, <1>4 DEF Shows, Placed

Pair(s) == [role |-> s.role, string |-> s.string]

\* The last string of the last role.
EndsAt(roles, role, string) ==
    LET r == roles[Len(roles)] IN
    /\ roles # <<>>
    /\ r.id = role /\ r.strings[Len(r.strings)].id = string

\* A row adds its pair.
LEMMA AddPair ==
    ASSUME NEW C, NEW row
    PROVE  Pairs(C \cup {row}) = Pairs(C) \cup {Pair(row)}
  BY DEF Pairs, Pair

\* Roles and their strings are records in sequences.
LEMMA GroupedTypes ==
    ASSUME NEW roles, NEW p, NEW P, NEW C, Grouped(roles, p, P, C)
    PROVE  /\ Len(roles) \in Nat /\ DOMAIN roles = 1 .. Len(roles)
           /\ \A i \in 1 .. Len(roles) :
                LET q == roles[i].strings IN
                /\ roles[i] = [id |-> roles[i].id, strings |-> q]
                /\ roles[i].id \in Ids
                /\ q \in Seq(StringView) /\ Len(q) \in Nat \ {0} /\ DOMAIN q = 1 .. Len(q)
                /\ \A j \in 1 .. Len(q) : q[j] \in StringView
<1>1. roles \in Seq(RoleView)
  BY DEF Grouped
<1>2. Len(roles) \in Nat /\ DOMAIN roles = 1 .. Len(roles)
  BY <1>1
<1>3. ASSUME NEW i \in 1 .. Len(roles)
      PROVE  LET q == roles[i].strings IN
                /\ roles[i] = [id |-> roles[i].id, strings |-> q]
                /\ roles[i].id \in Ids
                /\ q \in Seq(StringView) /\ Len(q) \in Nat \ {0} /\ DOMAIN q = 1 .. Len(q)
                /\ \A j \in 1 .. Len(q) : q[j] \in StringView
  <2> DEFINE q == roles[i].strings
  <2>1. roles[i] \in RoleView
    BY <1>1, <1>2
  <2>2. roles[i] = [id |-> roles[i].id, strings |-> q] /\ roles[i].id \in Ids /\ q \in Seq(StringView)
    BY <2>1 DEF RoleView
  <2>3. q # <<>>
    BY <1>2 DEF Grouped
  <2> HIDE DEF q
  <2>4. Len(q) \in Nat \ {0} /\ DOMAIN q = 1 .. Len(q) /\ \A j \in 1 .. Len(q) : q[j] \in StringView
    BY <2>2, <2>3
  <2> QED
    BY <2>2, <2>4 DEF q
<1> QED
  BY <1>2, <1>3

\* What AddRow does after Open.
Place(roles, row) ==
    [roles EXCEPT ![Len(roles)].strings[Len(roles[Len(roles)].strings)] =
       IF row.class = "audio" THEN [@ EXCEPT !.audio = row] ELSE [@ EXCEPT !.image = row]]

\* The last string of the last role gets the resource.
LEMMA PlaceGroups ==
    ASSUME NEW p, NEW P, NEW C \in SUBSET Slot, NEW row \in Slot, row.pack = p,
           NEW roles, Grouped(roles, p, P, C), EndsAt(roles, row.role, row.string),
           NEW placed, placed = Place(roles, row)
    PROVE  Grouped(placed, p, P, C \cup {row}) /\ EndsAt(placed, row.role, row.string)
<1> DEFINE n == Len(roles)
           q == roles[n].strings
           m == Len(q)
           str == IF row.class = "audio" THEN [q[m] EXCEPT !.audio = row]
                                         ELSE [q[m] EXCEPT !.image = row]
           r == [id |-> row.role, strings |-> [q EXCEPT ![m] = str]]
<1>1. /\ n \in Nat \ {0} /\ DOMAIN roles = 1 .. n /\ roles \in Seq(RoleView)
      /\ roles[n] = [id |-> row.role, strings |-> q] /\ row.role \in Ids
      /\ q \in Seq(StringView) /\ m \in Nat \ {0} /\ DOMAIN q = 1 .. m /\ q[m] \in StringView
      /\ q[m].id = row.string
  <2>1. roles # <<>> /\ roles[n].id = row.role /\ q[m].id = row.string
    BY DEF EndsAt
  <2>2. roles \in Seq(RoleView)
    BY DEF Grouped
  <2>3. n \in Nat \ {0}
    BY <2>1, <2>2
  <2>4. n \in 1 .. n
    BY <2>3
  <2>5. /\ DOMAIN roles = 1 .. n
        /\ roles[n] = [id |-> roles[n].id, strings |-> q] /\ roles[n].id \in Ids
        /\ q \in Seq(StringView) /\ m \in Nat \ {0} /\ DOMAIN q = 1 .. m
        /\ \A j \in 1 .. m : q[j] \in StringView
    BY <2>4, GroupedTypes
  <2>6. m \in 1 .. m
    BY <2>5
  <2> HIDE DEF q, m, n
  <2> QED
    BY <2>1, <2>2, <2>3, <2>5, <2>6
<1>2. str \in StringView /\ str.id = row.string
  BY <1>1 DEF StringView, Shown
<1>3. /\ r \in RoleView
      /\ r.strings \in Seq(StringView) /\ Len(r.strings) = m /\ DOMAIN r.strings = 1 .. m
      /\ r.strings[m] = str /\ \A j \in 1 .. m : j # m => r.strings[j] = q[j]
  <2> HIDE DEF q, m, str
  <2>1. [q EXCEPT ![m] = str] \in Seq(StringView) /\ Len([q EXCEPT ![m] = str]) = m
    BY <1>1, <1>2
  <2> QED
    BY <1>1, <1>2, <2>1 DEF RoleView
<1>0. /\ \A i, j \in 1 .. n : roles[i].id = roles[j].id => i = j
      /\ \A i \in 1 .. n : \A j, l \in DOMAIN roles[i].strings :
             roles[i].strings[j].id = roles[i].strings[l].id => j = l
      /\ \A i \in 1 .. n : \A j \in DOMAIN roles[i].strings :
             /\ [role |-> roles[i].id, string |-> roles[i].strings[j].id] \in P
             /\ Placed(p, roles[i].id, roles[i].strings[j], C)
      /\ \A x \in P : \E i \in 1 .. n : \E j \in DOMAIN roles[i].strings :
             roles[i].id = x.role /\ roles[i].strings[j].id = x.string
  <2> HIDE DEF n, q, m, str, r
  <2> QED
    BY <1>1 DEF Grouped
<1>4. placed = [roles EXCEPT ![n] = r]
  <2>1. [roles[n] EXCEPT !.strings = [q EXCEPT ![m] = str]] = r
    <3>1. \A x : [[id |-> row.role, strings |-> q] EXCEPT !.strings = x]
                  = [id |-> row.role, strings |-> x]
      OBVIOUS
    <3> HIDE DEF q, m, n, str
    <3> QED
      BY <1>1, <3>1
  <2>2. placed = [roles EXCEPT ![n] = [roles[n] EXCEPT !.strings = [q EXCEPT ![m] = str]]]
    BY DEF Place
  <2> QED
    BY <2>1, <2>2
<1>5. /\ placed \in Seq(RoleView) /\ Len(placed) = n /\ DOMAIN placed = 1 .. n
      /\ placed[n] = r /\ \A i \in 1 .. n : i # n => placed[i] = roles[i]
  <2> HIDE DEF r, n
  <2>1. placed \in Seq(RoleView) /\ Len(placed) = n
    BY <1>1, <1>3, <1>4
  <2>2. DOMAIN placed = 1 .. n
    BY <2>1
  <2> QED
    BY <1>1, <1>4, <2>1, <2>2
<1>6. EndsAt(placed, row.role, row.string)
  <2>1. placed # <<>>
    BY <1>1, <1>5
  <2>2. r.id = row.role
    OBVIOUS
  <2> HIDE DEF r, n, m, str
  <2> QED
    BY <2>1, <2>2, <1>1, <1>2, <1>3, <1>5 DEF EndsAt
\* Nothing but the resources changed.
<1>7. \A i \in 1 .. n :
        /\ placed[i].id = roles[i].id
        /\ DOMAIN placed[i].strings = DOMAIN roles[i].strings
        /\ placed[i].strings # <<>>
        /\ \A j \in DOMAIN roles[i].strings : placed[i].strings[j].id = roles[i].strings[j].id
  <2> TAKE i \in 1 .. n
  <2>1. CASE i # n
    BY <2>1, <1>1, <1>5 DEF Grouped
  <2>2. CASE i = n
    <3>1. r.id = row.role /\ roles[n].strings = q /\ roles[n].id = row.role
      BY <1>1
    <3>2. r.strings # <<>>
      BY <1>1, <1>3
    <3> HIDE DEF r, n, m, str, q
    <3> QED
      BY <2>2, <3>1, <3>2, <1>1, <1>2, <1>3, <1>5
  <2> QED
    BY <2>1, <2>2
<1>8. ASSUME NEW i \in 1 .. n, NEW j \in DOMAIN roles[i].strings
      PROVE  Placed(p, placed[i].id, placed[i].strings[j], C \cup {row})
  <2> DEFINE R(class) == [pack |-> p, role |-> roles[i].id, string |-> roles[i].strings[j].id,
                          class |-> class]
  <2>1. Placed(p, roles[i].id, roles[i].strings[j], C)
    BY <1>1, <1>8 DEF Grouped
  <2>2. CASE i = n /\ j = m
    <3>1. /\ roles[i].id = row.role /\ roles[i].strings[j].id = row.string
          /\ placed[i].strings[j] = str /\ roles[i].strings[j] = q[m]
      <4>1. roles[n].id = row.role /\ roles[n].strings = q
        BY <1>1
      <4>2. placed[n] = r /\ r.strings[m] = str /\ q[m].id = row.string
        BY <1>1, <1>3, <1>5
      <4> HIDE DEF n, q, m, str, r
      <4> QED
        BY <2>2, <4>1, <4>2
    <3>2. row = [pack |-> p, role |-> row.role, string |-> row.string, class |-> row.class]
          /\ row.class \in {"audio", "image"}
      BY DEF Slot, Classes
    <3>3. CASE row.class = "audio"
      <4>1. str.audio = row /\ str.image = q[m].image
        BY <1>1, <3>3 DEF StringView
      <4>2. R("audio") = row /\ R("image") # row
        BY <3>1, <3>2, <3>3
      <4> HIDE DEF str, q, m, n
      <4> QED
        BY <1>2, <1>7, <2>1, <3>1, <4>1, <4>2 DEF Placed
    <3>4. CASE row.class = "image"
      <4>1. str.image = row /\ str.audio = q[m].audio
        BY <1>1, <3>4 DEF StringView
      <4>2. R("image") = row /\ R("audio") # row
        BY <3>1, <3>2, <3>4
      <4> HIDE DEF str, q, m, n
      <4> QED
        BY <1>2, <1>7, <2>1, <3>1, <4>1, <4>2 DEF Placed
    <3> QED
      BY <3>2, <3>3, <3>4
  <2>3. CASE ~(i = n /\ j = m)
    <3>1. placed[i].strings[j] = roles[i].strings[j]
      BY <1>1, <1>3, <1>5, <2>3
    <3>2. roles[i].id # row.role \/ roles[i].strings[j].id # row.string
      <4>1. CASE i # n
        <5>1. roles[i].id # roles[n].id /\ roles[n].id = row.role
          <6>1. n \in 1 .. n /\ roles[n].id = row.role
            BY <1>1
          <6> HIDE DEF n
          <6> QED
            BY <1>0, <4>1, <6>1
        <5> QED
          BY <5>1
      <4>2. CASE i = n /\ j # m
        <5>1. n \in 1 .. n /\ roles[n].strings = q /\ m \in DOMAIN q /\ q[m].id = row.string
          BY <1>1
        <5> HIDE DEF n, q, m
        <5> QED
          BY <1>0, <4>2, <5>1
      <4> QED
        BY <2>3, <4>1, <4>2
    <3>3. \A class : R(class) # row
      BY <3>2
    <3> QED
      BY <1>7, <2>1, <3>1, <3>3 DEF Placed
  <2> QED
    BY <2>2, <2>3
<1>9. Grouped(placed, p, P, C \cup {row})
  <2> HIDE DEF n, q, m, str, r
  <2>1. \A i, j \in DOMAIN placed : placed[i].id = placed[j].id => i = j
    BY <1>0, <1>5, <1>7
  <2>2. ASSUME NEW i \in 1 .. n
        PROVE  /\ placed[i].strings # <<>>
               /\ \A j, l \in DOMAIN placed[i].strings :
                     placed[i].strings[j].id = placed[i].strings[l].id => j = l
               /\ \A j \in DOMAIN placed[i].strings :
                     /\ [role |-> placed[i].id, string |-> placed[i].strings[j].id] \in P
                     /\ Placed(p, placed[i].id, placed[i].strings[j], C \cup {row})
    <3> DEFINE D == DOMAIN roles[i].strings
    <3>1. /\ DOMAIN placed[i].strings = D /\ placed[i].strings # <<>>
          /\ placed[i].id = roles[i].id
          /\ \A j \in D : placed[i].strings[j].id = roles[i].strings[j].id
      BY <1>7
    <3>2. \A j, l \in D : roles[i].strings[j].id = roles[i].strings[l].id => j = l
      BY <1>0
    <3>3. ASSUME NEW j \in D, NEW l \in D, placed[i].strings[j].id = placed[i].strings[l].id
          PROVE  j = l
      BY <3>1, <3>2, <3>3
    <3>4. ASSUME NEW j \in D
          PROVE  [role |-> placed[i].id, string |-> placed[i].strings[j].id] \in P
      <4>1. [role |-> roles[i].id, string |-> roles[i].strings[j].id] \in P
        BY <1>0
      <4> QED
        BY <3>1, <4>1
    <3>5. \A j \in D : Placed(p, placed[i].id, placed[i].strings[j], C \cup {row})
      BY <1>8
    <3> HIDE DEF D
    <3> QED
      BY <3>1, <3>3, <3>4, <3>5
  <2>3. ASSUME NEW x \in P
        PROVE  \E i \in 1 .. n : \E j \in DOMAIN placed[i].strings :
                 placed[i].id = x.role /\ placed[i].strings[j].id = x.string
    <3>1. PICK i \in 1 .. n : \E j \in DOMAIN roles[i].strings :
             roles[i].id = x.role /\ roles[i].strings[j].id = x.string
      BY <1>0
    <3>2. PICK j \in DOMAIN roles[i].strings : roles[i].id = x.role /\ roles[i].strings[j].id = x.string
      BY <3>1
    <3>3. j \in DOMAIN placed[i].strings /\ placed[i].strings[j].id = roles[i].strings[j].id
          /\ placed[i].id = roles[i].id
      BY <1>7
    <3> QED
      BY <3>2, <3>3
  <2>4. DOMAIN placed = 1 .. n /\ placed \in Seq(RoleView)
    BY <1>5
  <2>5. \A i \in DOMAIN placed :
          /\ placed[i].strings # <<>>
          /\ \A j, l \in DOMAIN placed[i].strings :
                placed[i].strings[j].id = placed[i].strings[l].id => j = l
          /\ \A j \in DOMAIN placed[i].strings :
                /\ [role |-> placed[i].id, string |-> placed[i].strings[j].id] \in P
                /\ Placed(p, placed[i].id, placed[i].strings[j], C \cup {row})
    BY <2>2, <2>4
  <2>6. \A x \in P : \E i \in DOMAIN placed : \E j \in DOMAIN placed[i].strings :
          placed[i].id = x.role /\ placed[i].strings[j].id = x.string
    BY <2>3, <2>4
  <2> QED
    BY <2>1, <2>4, <2>5, <2>6 DEF Grouped
<1> QED
  BY <1>6, <1>9

\* A new role is the last one, with one string that shows nothing.
LEMMA AppendRoleGroups ==
    ASSUME NEW p, NEW C \in SUBSET Slot, NEW row \in Slot,
           NEW roles, Grouped(roles, p, Pairs(C), C), row.role \notin Roles(C)
    PROVE  /\ Grouped(Append(roles, NewRole(row)), p, Pairs(C \cup {row}), C)
           /\ EndsAt(Append(roles, NewRole(row)), row.role, row.string)
<1> DEFINE n == Len(roles)
           str == NewString(row.string)
           r == NewRole(row)
           grown == Append(roles, r)
<1>1. n \in Nat /\ DOMAIN roles = 1 .. n /\ roles \in Seq(RoleView)
  BY GroupedTypes DEF Grouped
<1>2. row.role \in Ids /\ row.string \in Ids
  BY DEF Slot
<1>3. str \in StringView /\ str.id = row.string /\ str.audio = None /\ str.image = None
  BY <1>2 DEF NewString, StringView, Shown
<1>4. /\ r \in RoleView /\ r.id = row.role /\ r.strings = <<str>>
      /\ Len(r.strings) = 1 /\ DOMAIN r.strings = {1} /\ r.strings[1] = str
  <2>1. r = [id |-> row.role, strings |-> <<str>>]
    BY DEF NewRole
  <2> HIDE DEF str, r
  <2>2. <<str>> \in Seq(StringView) /\ DOMAIN <<str>> = {1} /\ Len(<<str>>) = 1 /\ <<str>>[1] = str
    BY <1>3
  <2> QED
    BY <1>2, <2>1, <2>2 DEF RoleView
<1>5. /\ grown \in Seq(RoleView) /\ Len(grown) = n + 1 /\ DOMAIN grown = 1 .. n + 1
      /\ grown[n + 1] = r /\ \A i \in 1 .. n : grown[i] = roles[i]
  <2> HIDE DEF r
  <2> QED
    BY <1>1, <1>4
<1>6. EndsAt(grown, row.role, row.string)
  <2>1. grown # <<>>
    BY <1>1, <1>5
  <2> HIDE DEF r, str, grown, n
  <2> QED
    BY <2>1, <1>1, <1>3, <1>4, <1>5 DEF EndsAt
<1>7. \A i \in 1 .. n : roles[i].id # row.role
  <2> TAKE i \in 1 .. n
  <2>1. 1 \in DOMAIN roles[i].strings
    <3>1. Len(roles[i].strings) \in Nat \ {0} /\ DOMAIN roles[i].strings = 1 .. Len(roles[i].strings)
      BY GroupedTypes
    <3> QED
      BY <3>1
  <2>2. [role |-> roles[i].id, string |-> roles[i].strings[1].id] \in Pairs(C)
    BY <1>1, <2>1 DEF Grouped
  <2> QED
    BY <2>2 DEF Pairs, Roles
<1>8. Pairs(C \cup {row}) = Pairs(C) \cup {Pair(row)}
  BY AddPair
<1>9. Placed(p, row.role, str, C)
  BY <1>3 DEF Placed, Roles
<1>10. Grouped(grown, p, Pairs(C \cup {row}), C)
  <2> HIDE DEF n, str, r, grown
  <2>1. \A i, j \in DOMAIN grown : grown[i].id = grown[j].id => i = j
    BY <1>1, <1>4, <1>5, <1>7 DEF Grouped
  <2>2. ASSUME NEW i \in DOMAIN grown
        PROVE  /\ grown[i].strings # <<>>
               /\ \A j, l \in DOMAIN grown[i].strings :
                     grown[i].strings[j].id = grown[i].strings[l].id => j = l
               /\ \A j \in DOMAIN grown[i].strings :
                     /\ [role |-> grown[i].id, string |-> grown[i].strings[j].id] \in Pairs(C \cup {row})
                     /\ Placed(p, grown[i].id, grown[i].strings[j], C)
    <3>1. CASE i = n + 1
      <4>1. grown[i].strings = r.strings /\ grown[i].id = row.role
        BY <1>4, <1>5, <3>1
      <4>2. r.strings # <<>>
        BY <1>4
      <4>3. [role |-> row.role, string |-> str.id] \in Pairs(C \cup {row})
        BY <1>3, <1>8 DEF Pair
      <4> QED
        BY <1>4, <1>9, <4>1, <4>2, <4>3
    <3>2. CASE i # n + 1
      <4>1. i \in 1 .. n /\ i \in DOMAIN roles /\ grown[i] = roles[i]
        BY <1>1, <1>5, <2>2, <3>2
      <4> QED
        BY <1>8, <4>1 DEF Grouped
    <3> QED
      BY <3>1, <3>2
  <2>3. ASSUME NEW x \in Pairs(C \cup {row})
        PROVE  \E i \in DOMAIN grown : \E j \in DOMAIN grown[i].strings :
                 grown[i].id = x.role /\ grown[i].strings[j].id = x.string
    <3>1. CASE x \in Pairs(C)
      BY <1>1, <1>5, <3>1 DEF Grouped
    <3>2. CASE x = Pair(row)
      BY <1>1, <1>3, <1>4, <1>5, <3>2 DEF Pair
    <3> QED
      BY <1>8, <3>1, <3>2
  <2> QED
    BY <1>5, <2>1, <2>2, <2>3 DEF Grouped
<1> QED
  BY <1>6, <1>10

\* A new string is the last one of the last role and shows nothing.
LEMMA AddStringGroups ==
    ASSUME NEW p, NEW C \in SUBSET Slot, NEW row \in Slot,
           NEW roles, Grouped(roles, p, Pairs(C), C), Pair(row) \notin Pairs(C),
           NEW last, EndsAt(roles, row.role, last)
    PROVE  /\ Grouped(AddString(roles, row), p, Pairs(C \cup {row}), C)
           /\ EndsAt(AddString(roles, row), row.role, row.string)
<1> DEFINE n == Len(roles)
           q == roles[n].strings
           m == Len(q)
           str == NewString(row.string)
           longer == Append(q, str)
           r == [id |-> row.role, strings |-> longer]
           grown == AddString(roles, row)
<1>1. /\ n \in Nat \ {0} /\ DOMAIN roles = 1 .. n /\ roles \in Seq(RoleView)
      /\ roles[n] = [id |-> row.role, strings |-> q] /\ row.role \in Ids
      /\ q \in Seq(StringView) /\ m \in Nat \ {0} /\ DOMAIN q = 1 .. m
  <2>1. roles # <<>> /\ roles[n].id = row.role
    BY DEF EndsAt
  <2>2. roles \in Seq(RoleView)
    BY DEF Grouped
  <2>3. n \in Nat \ {0} /\ n \in 1 .. n
    BY <2>1, <2>2
  <2>4. /\ DOMAIN roles = 1 .. n
        /\ roles[n] = [id |-> roles[n].id, strings |-> q] /\ roles[n].id \in Ids
        /\ q \in Seq(StringView) /\ m \in Nat \ {0} /\ DOMAIN q = 1 .. m
    BY <2>3, GroupedTypes
  <2> HIDE DEF q, m, n
  <2> QED
    BY <2>1, <2>2, <2>3, <2>4
<1>2. row.string \in Ids /\ row.role \in Ids
  BY DEF Slot
<1>3. str \in StringView /\ str.id = row.string /\ str.audio = None /\ str.image = None
  BY <1>2 DEF NewString, StringView, Shown
<1>4. /\ longer \in Seq(StringView) /\ Len(longer) = m + 1 /\ DOMAIN longer = 1 .. m + 1
      /\ longer[m + 1] = str /\ \A j \in 1 .. m : longer[j] = q[j]
  <2> HIDE DEF q, m, str
  <2> QED
    BY <1>1, <1>3
<1>5. grown = [roles EXCEPT ![n] = r]
  <2>1. [roles[n] EXCEPT !.strings = longer] = r
    <3>1. \A x : [[id |-> row.role, strings |-> q] EXCEPT !.strings = x]
                  = [id |-> row.role, strings |-> x]
      OBVIOUS
    <3> HIDE DEF q, m, n, str, longer
    <3> QED
      BY <1>1, <3>1
  <2>2. grown = [roles EXCEPT ![n] = [roles[n] EXCEPT !.strings = longer]]
    BY DEF AddString
  <2> QED
    BY <2>1, <2>2
<1>6. /\ grown \in Seq(RoleView) /\ Len(grown) = n /\ DOMAIN grown = 1 .. n
      /\ grown[n] = r /\ \A i \in 1 .. n : i # n => grown[i] = roles[i]
  <2>1. r \in RoleView
    BY <1>1, <1>4 DEF RoleView
  <2> HIDE DEF r, n, grown
  <2>2. grown \in Seq(RoleView) /\ Len(grown) = n
    BY <1>1, <1>5, <2>1
  <2>3. DOMAIN grown = 1 .. n
    BY <2>2
  <2> QED
    BY <1>1, <1>5, <2>2, <2>3
<1>7. EndsAt(grown, row.role, row.string)
  <2>1. grown # <<>>
    BY <1>1, <1>6
  <2>2. r.id = row.role /\ r.strings = longer
    OBVIOUS
  <2> HIDE DEF r, str, grown, n, m, longer, q
  <2> QED
    BY <2>1, <2>2, <1>1, <1>3, <1>4, <1>6 DEF EndsAt
<1>8. Pairs(C \cup {row}) = Pairs(C) \cup {Pair(row)}
  BY AddPair
<1>9. Placed(p, row.role, str, C)
  BY <1>3 DEF Placed, Pairs, Pair
<1>10. r.id = row.role /\ r.strings = longer
  OBVIOUS
<1>11. Grouped(grown, p, Pairs(C \cup {row}), C)
  <2> HIDE DEF n, m, q, str, longer, r, grown
  <2>1. \A i \in 1 .. n : grown[i].id = roles[i].id
    BY <1>1, <1>6, <1>10
  <2>2. \A i, j \in DOMAIN grown : grown[i].id = grown[j].id => i = j
    BY <1>1, <1>6, <2>1 DEF Grouped
  <2>3. \A j \in 1 .. m : q[j].id # row.string
    <3> TAKE j \in 1 .. m
    <3>1. roles[n].strings = q /\ roles[n].id = row.role /\ n \in DOMAIN roles
      BY <1>1
    <3>2. [role |-> row.role, string |-> q[j].id] \in Pairs(C)
      BY <1>1, <3>1 DEF Grouped
    <3> QED
      BY <3>2 DEF Pair
  <2>4. ASSUME NEW i \in DOMAIN grown
        PROVE  /\ grown[i].strings # <<>>
               /\ \A j, l \in DOMAIN grown[i].strings :
                     grown[i].strings[j].id = grown[i].strings[l].id => j = l
               /\ \A j \in DOMAIN grown[i].strings :
                     /\ [role |-> grown[i].id, string |-> grown[i].strings[j].id] \in Pairs(C \cup {row})
                     /\ Placed(p, grown[i].id, grown[i].strings[j], C)
    <3>1. CASE i = n
      <4>1. grown[i].strings = longer /\ grown[i].id = row.role
        BY <1>6, <1>10, <3>1
      <4>2. roles[n].strings = q /\ roles[n].id = row.role /\ n \in DOMAIN roles
        BY <1>1
      <4>3. longer # <<>>
        BY <1>1, <1>4
      <4>4. \A j, l \in 1 .. m : q[j].id = q[l].id => j = l
        BY <1>1, <4>2 DEF Grouped
      <4>5. \A j, l \in DOMAIN longer : longer[j].id = longer[l].id => j = l
        BY <1>1, <1>3, <1>4, <2>3, <4>4
      <4>6. ASSUME NEW j \in DOMAIN longer
            PROVE  /\ [role |-> row.role, string |-> longer[j].id] \in Pairs(C \cup {row})
                   /\ Placed(p, row.role, longer[j], C)
        <5>1. CASE j = m + 1
          BY <1>3, <1>4, <1>8, <1>9, <5>1 DEF Pair
        <5>2. CASE j # m + 1
          <6>1. j \in 1 .. m /\ longer[j] = q[j]
            BY <1>1, <1>4, <4>6, <5>2
          <6>2. [role |-> row.role, string |-> q[j].id] \in Pairs(C) /\ Placed(p, row.role, q[j], C)
            BY <1>1, <4>2, <6>1 DEF Grouped
          <6> QED
            BY <1>8, <6>1, <6>2
        <5> QED
          BY <5>1, <5>2
      <4> QED
        BY <4>1, <4>3, <4>5, <4>6
    <3>2. CASE i # n
      <4>1. i \in DOMAIN roles /\ grown[i] = roles[i]
        BY <1>1, <1>6, <2>4, <3>2
      <4> QED
        BY <1>8, <4>1 DEF Grouped
    <3> QED
      BY <3>1, <3>2
  <2>5. ASSUME NEW x \in Pairs(C \cup {row})
        PROVE  \E i \in DOMAIN grown : \E j \in DOMAIN grown[i].strings :
                 grown[i].id = x.role /\ grown[i].strings[j].id = x.string
    <3>1. CASE x \in Pairs(C)
      <4>1. PICK i \in DOMAIN roles : \E j \in DOMAIN roles[i].strings :
               roles[i].id = x.role /\ roles[i].strings[j].id = x.string
        BY <3>1 DEF Grouped
      <4>2. PICK j \in DOMAIN roles[i].strings : roles[i].id = x.role /\ roles[i].strings[j].id = x.string
        BY <4>1
      <4>3. CASE i = n
        <5>1. roles[n].strings = q /\ grown[n].strings = longer
          BY <1>1, <1>6, <1>10
        <5>2. j \in 1 .. m /\ j \in DOMAIN longer /\ longer[j] = q[j]
          BY <1>1, <1>4, <4>2, <4>3, <5>1
        <5> QED
          BY <1>1, <1>6, <2>1, <4>2, <4>3, <5>1, <5>2
      <4>4. CASE i # n
        BY <1>1, <1>6, <4>2, <4>4
      <4> QED
        BY <4>3, <4>4
    <3>2. CASE x = Pair(row)
      <4>1. x.role = row.role /\ x.string = row.string
        BY <3>2 DEF Pair
      <4>2. n \in DOMAIN grown /\ m + 1 \in DOMAIN longer
        BY <1>1, <1>4, <1>6
      <4> QED
        BY <1>3, <1>4, <1>6, <1>10, <4>1, <4>2
    <3> QED
      BY <1>8, <3>1, <3>2
  <2> QED
    BY <1>6, <2>2, <2>4, <2>5 DEF Grouped
<1> QED
  BY <1>7, <1>11

\* The roles show C, of pack p, and the next row does not return to a role or a
\* string that was left.
Ready(acc, p, C, row) ==
    /\ C \in SUBSET Slot /\ row \in Slot /\ row.pack = p
    /\ Grouped(acc.roles, p, Pairs(C), C)
    /\ acc.prevRoleID \in Ids => EndsAt(acc.roles, acc.prevRoleID, acc.prevStringID)
    /\ row.role # acc.prevRoleID => row.role \notin Roles(C)
    /\ row.role = acc.prevRoleID /\ row.string # acc.prevStringID => Pair(row) \notin Pairs(C)

\* The roles show C and the previous row was this one.
Holds(acc, p, C, row) ==
    /\ Grouped(acc.roles, p, Pairs(C), C)
    /\ EndsAt(acc.roles, row.role, row.string)
    /\ acc.prevRoleID = row.role /\ acc.prevStringID = row.string

\* A row is added where it belongs.
LEMMA AddRowGroups ==
    ASSUME NEW p, NEW C, NEW row, NEW acc, Ready(acc, p, C, row)
    PROVE  Holds(AddRow(acc, row), p, C \cup {row}, row)
<1> USE DEF Ready
<1> DEFINE roles == Open(acc, row)
           next == AddRow(acc, row)
<1>1. row.role \in Ids
  BY DEF Slot
<1>2. Grouped(roles, p, Pairs(C \cup {row}), C) /\ EndsAt(roles, row.role, row.string)
  <2>1. CASE row.role # acc.prevRoleID
    <3>1. roles = Append(acc.roles, NewRole(row))
      BY <2>1 DEF Open
    <3> QED
      BY <2>1, <3>1, AppendRoleGroups
  <2>2. CASE row.role = acc.prevRoleID /\ row.string # acc.prevStringID
    <3>1. roles = AddString(acc.roles, row)
      BY <2>2 DEF Open
    <3> QED
      BY <1>1, <2>2, <3>1, AddStringGroups
  <2>3. CASE row.role = acc.prevRoleID /\ row.string = acc.prevStringID
    <3>1. roles = acc.roles
      BY <2>3 DEF Open
    <3>2. EndsAt(roles, row.role, row.string)
      BY <1>1, <2>3, <3>1
    <3>3. Pair(row) \in Pairs(C)
      <4> DEFINE n == Len(roles)
                 m == Len(roles[n].strings)
      <4>1. n \in 1 .. n /\ DOMAIN roles = 1 .. n
        <5>1. roles # <<>> /\ roles \in Seq(RoleView)
          BY <3>1, <3>2 DEF EndsAt, Grouped
        <5> QED
          BY <5>1
      <4>2. m \in 1 .. m /\ DOMAIN roles[n].strings = 1 .. m
        <5>1. m \in Nat \ {0} /\ DOMAIN roles[n].strings = 1 .. m
          BY <3>1, <4>1, GroupedTypes
        <5> HIDE DEF m
        <5> QED
          BY <5>1
      <4>3. [role |-> roles[n].id, string |-> roles[n].strings[m].id] \in Pairs(C)
        BY <3>1, <4>1, <4>2 DEF Grouped
      <4> QED
        BY <3>2, <4>3 DEF EndsAt, Pair
    <3>4. Pairs(C \cup {row}) = Pairs(C)
      BY <3>3, AddPair
    <3> QED
      BY <3>1, <3>2, <3>4
  <2> QED
    BY <2>1, <2>2, <2>3
<1>3. next.prevRoleID = row.role /\ next.prevStringID = row.string
  BY DEF AddRow
<1>4. next.roles = Place(roles, row)
  BY DEF AddRow, Place
<1> HIDE DEF roles, next
<1>5. Grouped(next.roles, p, Pairs(C \cup {row}), C \cup {row}) /\ EndsAt(next.roles, row.role, row.string)
  BY <1>2, <1>4, PlaceGroups
<1> QED
  BY <1>3, <1>5 DEF Holds, next

\* An id is where the collation has it.
LEMMA Positions ==
    ASSUME NEW x \in Ids
    PROVE  Position(x) \in Nat /\ Collation[Position(x)] = x
<1>1. \E i \in DOMAIN Collation : Collation[i] = x
  BY DEF Ids, ToSet
<1>2. DOMAIN Collation \subseteq Nat
  BY IdsAssumption
<1> QED
  BY <1>1, <1>2 DEF Position

\* What is sorted is grouped: between two rows of a role, or of a string of
\* it, there are only such rows.
LEMMA Contiguous ==
    ASSUME NEW X, NEW result \in Seq(X),
           \A i \in DOMAIN result : result[i].role \in Ids /\ result[i].string \in Ids,
           \A i, j \in DOMAIN result : i < j => ~Before(result[j], result[i]),
           NEW i \in DOMAIN result, NEW j \in DOMAIN result, NEW k \in DOMAIN result, i <= j, j <= k,
           result[i].role = result[k].role
    PROVE  /\ result[j].role = result[k].role
           /\ result[i].string = result[k].string => result[j].string = result[k].string
<1>1. CASE i = j \/ j = k
  BY <1>1
<1>2. CASE i < j /\ j < k
  <2>1. ~Before(result[j], result[i]) /\ ~Before(result[k], result[j])
    BY <1>2
  <2>2. \A l \in {i, j, k} :
          /\ Position(result[l].role) \in Nat /\ Collation[Position(result[l].role)] = result[l].role
          /\ Position(result[l].string) \in Nat /\ Collation[Position(result[l].string)] = result[l].string
    BY Positions
  <2>3. Position(result[i].role) <= Position(result[j].role) /\ Position(result[j].role) <= Position(result[k].role)
    BY <2>1, <2>2 DEF Before
  <2>4. Position(result[j].role) = Position(result[k].role)
    BY <2>2, <2>3
  <2>5. result[j].role = result[k].role
    BY <2>2, <2>4
  <2>6. Position(result[i].string) <= Position(result[j].string)
        /\ Position(result[j].string) <= Position(result[k].string)
    BY <2>1, <2>2, <2>5 DEF Before
  <2>7. ASSUME result[i].string = result[k].string
        PROVE  result[j].string = result[k].string
    <3>1. Position(result[j].string) = Position(result[k].string)
      BY <2>2, <2>6, <2>7
    <3> QED
      BY <2>2, <3>1
  <2> QED
    BY <2>5, <2>7
<1>3. i \in Int /\ j \in Int /\ k \in Int
  OBVIOUS
<1> QED
  BY <1>1, <1>2, <1>3

\* getPackResources compares a row with the one before only (packs.go:236): this
\* is enough, since the result is sorted.
LEMMA ViewShows ==
    ASSUME NEW p, NEW result \in Seq(Slot), \A i \in DOMAIN result : result[i].pack = p,
           \A i, j \in DOMAIN result : i < j => ~Before(result[j], result[i])
    PROVE  Shows(View(result), p, ToSet(result))
<1> DEFINE n == Len(result)
           C(k) == {result[i] : i \in 1 .. k}
<1>1. n \in Nat /\ DOMAIN result = 1 .. n
  OBVIOUS
<1>2. PICK acc : /\ acc[0] = NoRoles
                 /\ \A k \in 1 .. n : acc[k] = AddRow(acc[k - 1], result[k])
                 /\ View(result) = acc[n].roles
  BY ViewSteps
<1> DEFINE I(k) ==
             /\ Grouped(acc[k].roles, p, Pairs(C(k)), C(k))
             /\ IF k = 0 THEN acc[k].prevRoleID = <<>> ELSE Holds(acc[k], p, C(k), result[k])
           S == {k \in 0 .. n : I(k)}
<1>3. 0 \in S
  <2>1. C(0) = {} /\ Pairs(C(0)) = {}
    BY DEF Pairs
  <2>2. acc[0].roles = <<>> /\ acc[0].prevRoleID = <<>>
    BY <1>2 DEF NoRoles
  <2>3. Grouped(<<>>, p, {}, {})
    BY DEF Grouped
  <2> HIDE DEF C
  <2>4. I(0)
    BY <2>1, <2>2, <2>3
  <2> HIDE DEF I
  <2> QED
    BY <1>1, <2>4
<1>4. ASSUME NEW k \in 0 .. n - 1, k \in S
      PROVE  k + 1 \in S
  <2> DEFINE row == result[k + 1]
  <2>1. I(k) /\ k + 1 \in 1 .. n
    <3> HIDE DEF I
    <3> QED
      BY <1>1, <1>4
  <2>2. C(k + 1) = C(k) \cup {row}
    <3>1. 1 .. k + 1 = (1 .. k) \cup {k + 1}
      OBVIOUS
    <3> QED
      BY <3>1
  <2>3. C(k) \in SUBSET Slot /\ row \in Slot /\ row.pack = p
    BY <1>1, <2>1
  <2>4. row.role \in Ids /\ \A i \in DOMAIN result : result[i].role \in Ids /\ result[i].string \in Ids
    <3>1. \A s \in Slot : s.role \in Ids /\ s.string \in Ids
      BY DEF Slot
    <3>2. \A i \in DOMAIN result : result[i] \in Slot
      OBVIOUS
    <3> QED
      BY <2>3, <3>1, <3>2
  <2>5. <<>> \notin Ids
    BY IdsAssumption
  <2>6. /\ Grouped(acc[k].roles, p, Pairs(C(k)), C(k))
        /\ IF k = 0 THEN acc[k].prevRoleID = <<>>
                    ELSE /\ acc[k].prevRoleID = result[k].role /\ acc[k].prevStringID = result[k].string
                         /\ EndsAt(acc[k].roles, result[k].role, result[k].string)
    <3> HIDE DEF C
    <3> QED
      BY <2>1 DEF Holds
  <2>7. ASSUME NEW i \in 1 .. k, result[i].role = row.role
        PROVE  /\ acc[k].prevRoleID = row.role
               /\ result[i].string = row.string => acc[k].prevStringID = row.string
    <3>1. i \in DOMAIN result /\ k \in DOMAIN result /\ k + 1 \in DOMAIN result /\ i <= k /\ k <= k + 1 /\ k # 0
      BY <1>1, <2>1, <2>7
    <3>2. /\ result[k].role = row.role
          /\ result[i].string = row.string => result[k].string = row.string
      BY <2>4, <2>7, <3>1, Contiguous
    <3> QED
      BY <2>6, <3>1, <3>2
  <2>8. acc[k].prevRoleID \in Ids => EndsAt(acc[k].roles, acc[k].prevRoleID, acc[k].prevStringID)
    BY <2>5, <2>6
  <2>9. row.role # acc[k].prevRoleID => row.role \notin Roles(C(k))
    BY <2>7 DEF Roles
  <2>10. row.role = acc[k].prevRoleID /\ row.string # acc[k].prevStringID => Pair(row) \notin Pairs(C(k))
    <3> SUFFICES ASSUME Pair(row) \in Pairs(C(k))
                 PROVE  row.string = acc[k].prevStringID
      OBVIOUS
    <3>1. PICK i \in 1 .. k : Pair(row) = [role |-> result[i].role, string |-> result[i].string]
      BY DEF Pairs
    <3>2. row.role = result[i].role /\ row.string = result[i].string
      BY <3>1 DEF Pair
    <3> QED
      BY <2>7, <3>2
  <2> HIDE DEF C, row
  <2>11. Ready(acc[k], p, C(k), row)
    BY <2>3, <2>6, <2>8, <2>9, <2>10 DEF Ready
  <2>12. Holds(acc[k + 1], p, C(k + 1), row)
    <3>1. acc[k + 1] = AddRow(acc[k], row)
      BY <1>1, <1>2, <2>1 DEF row
    <3> QED
      BY <2>2, <2>11, <3>1, AddRowGroups
  <2>13. I(k + 1)
    <3>1. k + 1 # 0
      BY <1>4
    <3> HIDE DEF C
    <3> QED
      BY <2>12, <3>1 DEF row, Holds
  <2> HIDE DEF I
  <2> QED
    BY <2>1, <2>13
<1>5. I(n)
  <2> HIDE DEF I
  <2>1. \A k \in 0 .. n - 1 : k \in S => k + 1 \in S
    BY <1>4
  <2> HIDE DEF S
  <2>2. 0 .. n \subseteq S
    BY <1>1, <1>3, <2>1, UpTo
  <2> QED
    BY <1>1, <2>2 DEF S
<1>6. C(n) = ToSet(result) /\ C(n) \in SUBSET Slot
  BY <1>1 DEF ToSet
<1> HIDE DEF C
<1>7. Grouped(acc[n].roles, p, Pairs(C(n)), C(n))
  BY <1>5
<1> QED
  BY <1>2, <1>6, <1>7, GroupedShows

-----------------------------------------------------------------------------
(* Type correctness.                                                       *)

\* The handler's part of the state, with the result as the sequence it is.
HandlerTypeOK ==
    /\ packs \subseteq Packs
    /\ contents \subseteq Slot /\ {s.pack : s \in contents} \subseteq packs
    /\ asked \in Packs \cup {List, Other}
    /\ stage \in {"query", "rows", "body", "end"}
    /\ rows \in Seq(IF asked = List THEN packs ELSE contents)
    /\ read \in 0 .. Len(rows)
    /\ stage = "query" => read = 0
    /\ reply # None => "handler" \in body

\* The handler starts in its type.
LEMMA InitHandlerType == Init => HandlerTypeOK
<1> SUFFICES ASSUME Init
             PROVE  HandlerTypeOK
  OBVIOUS
<1>1. contents \in SUBSET {s \in Slot : s.pack \in packs}
  BY DEF Init, kSubset
<1>2. rows \in Seq(IF asked = List THEN packs ELSE contents) /\ read \in 0 .. Len(rows)
  BY DEF Init
<1> QED
  BY <1>1, <1>2 DEF Init, HandlerTypeOK

\* What a write leaves of the response keeps the handler's mark.
LEMMA BodyGrows == [Next]_vars => body \subseteq body'
  BY DEF Next, vars, wrapVars, response, QueryPacks, QueryPack, Fetch, PackNotFound, Fails,
         Return, HandlerReturns, NextRow, RowsEnd, Encode, ReturnOK, OtherHandler, HandlerStep,
         HandlerWrites, Write, WriteHeader, WrapperStep, LogResult, Compare, Select, DefaultHeader, DefaultBody, Finish, Disconnect

\* Every step of the handler and its client keeps it.
LEMMA StepHandlerType == HandlerTypeOK /\ [Next]_vars => HandlerTypeOK'
<1> SUFFICES ASSUME HandlerTypeOK, [Next]_vars
             PROVE  HandlerTypeOK'
  OBVIOUS
<1> USE BodyGrows DEF HandlerTypeOK
<1>1. ASSUME NEW R, IsFiniteSet(R), NEW q \in SetToSeqs(R), Fetch(q), stage = "query",
             R \subseteq IF asked = List THEN packs ELSE contents
      PROVE  HandlerTypeOK'
  <2>1. q \in Seq(IF asked = List THEN packs ELSE contents)
    BY <1>1, Results
  <2>2. rows' = q /\ UNCHANGED <<wrapVars, packs, contents, asked, read, reply>> /\ stage' = "rows"
    BY <1>1 DEF Fetch
  <2>3. read' \in 0 .. Len(rows')
    BY <1>1, <2>1, <2>2
  <2> QED
    BY <2>1, <2>2, <2>3
<1>2. CASE QueryPacks
  <2>1. IsFiniteSet(packs)
    BY ReadsAssumption, FS_Subset
  <2> QED
    BY <1>1, <1>2, <2>1 DEF QueryPacks
<1>3. CASE QueryPack
  <2>1. IsFiniteSet(Of(asked)) /\ Of(asked) \subseteq contents /\ asked # List
    BY <1>3, SlotFinite, FS_Subset, ReadsAssumption DEF Of, QueryPack
  <2>2. PICK q \in Sorted(Of(asked)) : Fetch(q)
    BY <1>3 DEF QueryPack
  <2>3. q \in SetToSeqs(Of(asked))
    BY <2>2 DEF Sorted
  <2> QED
    BY <1>1, <1>3, <2>1, <2>2, <2>3 DEF QueryPack
<1>4. ASSUME NEW s, Return(s)
      PROVE  HandlerTypeOK'
  BY <1>4 DEF Return
<1>5. CASE PackNotFound \/ Fails \/ ReturnOK
  BY <1>4, <1>5 DEF PackNotFound, Fails, ReturnOK
<1>6. CASE NextRow
  <2>1. Len(rows) \in Nat
    OBVIOUS
  <2> QED
    BY <1>6, <2>1 DEF NextRow
<1>7. CASE RowsEnd
  BY <1>7 DEF RowsEnd
<1>8. CASE Encode
  <2>1. "handler" \in body'
    BY <1>8 DEF Encode, Write
  <2> QED
    BY <1>8, <2>1 DEF Encode
<1>9. CASE UNCHANGED handler
  BY <1>9 DEF handler
<1>10. CASE OtherHandler
  BY <1>9, <1>10 DEF OtherHandler
<1>11. CASE UNCHANGED vars
  BY <1>9, <1>11 DEF vars
<1> QED
  BY <1>2, <1>3, <1>5, <1>6, <1>7, <1>8, <1>9, <1>10, <1>11 DEF Next

\* A handler iterates over rows of its own table or pack, and marks the
\* response when it replies.
THEOREM ReadsTypeOK == Spec => []TypeOK
<1>1. Spec => []HandlerTypeOK
  BY InitHandlerType, StepHandlerType, PTL DEF Spec
<1>2. WrapInv /\ HandlerTypeOK => TypeOK
  BY DEF WrapInv, HandlerTypeOK, TypeOK, ToSet
<1> QED
  BY <1>1, <1>2, ReadsAreWrapped, InvariantWrapInv, PTL

-----------------------------------------------------------------------------
(* 404.                                                                    *)

\* In answer to GET only the default response carries a 404, and only PackNotFound asks
\* for it: when the pack does not exist or the connection to the client is gone, unless
\* the one to Postgres may break.
NotFoundInv ==
    /\ pc = "handler" => status = Unset
    /\ packs \subseteq Packs
    /\ wire = NotFound /\ asked # Other => status = NotFound
    /\ status = NotFound /\ connected /\ asked # Other => asked \notin packs \/ Lossy

\* Every step keeps what a 404 means.
LEMMA StepNotFound == NotFoundInv /\ [Next]_vars => NotFoundInv'
<1> SUFFICES ASSUME NotFoundInv, [Next]_vars
             PROVE  NotFoundInv'
  OBVIOUS
<1> USE DEF NotFoundInv, NotFound, OK, Unset, InternalServerError
<1>1. CASE QueryPacks \/ QueryPack
  BY <1>1 DEF QueryPacks, QueryPack, Fetch, wrapVars, response
<1>2. CASE PackNotFound
  BY <1>2, ReadsAssumption DEF PackNotFound, EndsEarly, Return, HandlerReturns, response
<1>3. CASE Fails
  BY <1>3 DEF Fails, Return, HandlerReturns, response
<1>4. CASE ReturnOK
  BY <1>4 DEF ReturnOK, Return, HandlerReturns, response
<1>5. CASE NextRow \/ RowsEnd
  BY <1>5 DEF NextRow, RowsEnd, wrapVars, response
<1>6. CASE Encode
  BY <1>6 DEF Encode, Write, Send
<1>7. CASE OtherHandler
  BY <1>7 DEF OtherHandler, handler, HandlerStep, HandlerWrites, HandlerReturns
<1>8. CASE WrapperStep /\ UNCHANGED handler
  BY <1>8 DEF WrapperStep, handler, response, LogResult, Compare, Select, DefaultHeader,
              DefaultBody, WriteHeader, Write, Send, Finish, Disconnect
<1>9. CASE UNCHANGED vars
  BY <1>9 DEF vars, wrapVars, handler, response
<1> QED
  BY <1>1, <1>2, <1>3, <1>4, <1>5, <1>6, <1>7, <1>8, <1>9 DEF Next

\* If the connection to Postgres holds, GET of a pack answers 404 only about
\* packs that do not exist, although getPackDetails takes any result without a
\* row for a missing pack.
THEOREM ReadsNotFoundMeant ==
    ASSUME ~Lossy
    PROVE  Spec => []NotFoundMeant
<1>1. Init => NotFoundInv
  BY DEF Init, WrapInit, NotFoundInv, NotFound, Unset
<1>2. NotFoundInv => NotFoundMeant
  BY ReadsAssumption DEF NotFoundInv, NotFoundMeant
<1> QED
  BY <1>1, <1>2, StepNotFound, PTL DEF Spec

-----------------------------------------------------------------------------
(* The list of packs.                                                      *)

\* What two sequences and an element between them consist of.
LEMMA Separated ==
    ASSUME NEW S, NEW a \in Seq(S), NEW b \in Seq(S), NEW d \in S
    PROVE  /\ a \o <<d>> \o b \in Seq(S)
           /\ Len(a \o <<d>> \o b) = Len(a) + 1 + Len(b)
           /\ \A i \in 1 .. Len(a) : (a \o <<d>> \o b)[i] = a[i]
           /\ (a \o <<d>> \o b)[Len(a) + 1] = d
           /\ \A i \in 1 .. Len(b) : (a \o <<d>> \o b)[Len(a) + 1 + i] = b[i]
<1> DEFINE l == a \o <<d>>
<1>1. <<d>> \in Seq(S) /\ Len(<<d>>) = 1 /\ <<d>>[1] = d
  OBVIOUS
<1>2. Len(a) \in Nat /\ Len(b) \in Nat
  OBVIOUS
<1>3. /\ l \in Seq(S) /\ Len(l) = Len(a) + 1
      /\ \A i \in 1 .. Len(a) + 1 : l[i] = IF i <= Len(a) THEN a[i] ELSE <<d>>[i - Len(a)]
  BY <1>1, ConcatProperties
<1>4. /\ l \o b \in Seq(S) /\ Len(l \o b) = Len(l) + Len(b)
      /\ \A i \in 1 .. Len(l) + Len(b) : (l \o b)[i] = IF i <= Len(l) THEN l[i] ELSE b[i - Len(l)]
  BY <1>3, ConcatProperties
<1> DEFINE c == a \o <<d>> \o b
<1>5. c = l \o b
  OBVIOUS
<1> HIDE DEF l, c
<1>6. \A i \in 1 .. Len(a) : c[i] = a[i]
  BY <1>2, <1>3, <1>4, <1>5
<1>7. c[Len(a) + 1] = d
  BY <1>1, <1>2, <1>3, <1>4, <1>5
<1>8. \A i \in 1 .. Len(b) : c[Len(a) + 1 + i] = b[i]
  BY <1>2, <1>3, <1>4, <1>5
<1>9. c \in Seq(S) /\ Len(c) = Len(a) + 1 + Len(b)
  BY <1>2, <1>3, <1>4, <1>5
<1> QED
  BY <1>6, <1>7, <1>8, <1>9 DEF c

\* The bytes of role_id || '-' || string_id.
Joined(a, b) == a \o <<Dash>> \o b

\* Its bytes are those of the role, the dash and those of the string.
LEMMA JoinedBytes ==
    ASSUME NEW a \in Seq(0 .. 255), NEW b \in Seq(0 .. 255)
    PROVE  /\ Joined(a, b) \in Seq(0 .. 255)
           /\ Len(Joined(a, b)) = Len(a) + 1 + Len(b)
           /\ \A i \in 1 .. Len(a) : Joined(a, b)[i] = a[i]
           /\ Joined(a, b)[Len(a) + 1] = Dash
           /\ \A i \in 1 .. Len(b) : Joined(a, b)[Len(a) + 1 + i] = b[i]
<1>1. Dash \in 0 .. 255
  BY DEF Dash
<1> QED
  BY <1>1, Separated DEF Joined

\* An id is bytes, none of which is the dash.
LEMMA IdBytes ==
    ASSUME NEW a \in Ids
    PROVE  a \in Seq(0 .. 255) /\ \A i \in 1 .. Len(a) : a[i] # Dash
<1>1. PICK i \in DOMAIN Collation : a = Collation[i]
  BY DEF Ids, ToSet
<1>2. a \in Seq(0 .. 255)
  BY <1>1, IdsAssumption
<1>3. Dash \notin ToSet(a)
  BY IdsAssumption
<1>4. DOMAIN a = 1 .. Len(a)
  BY <1>2
<1> QED
  BY <1>2, <1>3, <1>4 DEF ToSet

\* The separator tells where the role ends, so what is joined comes apart again.
LEMMA NoShorterRole ==
    ASSUME NEW a \in Ids, NEW b \in Ids, NEW c \in Ids, NEW d \in Ids,
           Joined(a, b) = Joined(c, d)
    PROVE  ~(Len(a) < Len(c))
<1> SUFFICES ASSUME Len(a) < Len(c)
             PROVE  FALSE
  OBVIOUS
<1>1. /\ a \in Seq(0 .. 255) /\ b \in Seq(0 .. 255)
      /\ c \in Seq(0 .. 255) /\ d \in Seq(0 .. 255)
      /\ \A i \in 1 .. Len(c) : c[i] # Dash
  BY IdBytes
<1>2. Len(a) + 1 \in 1 .. Len(c)
  BY <1>1
<1>3. Joined(a, b)[Len(a) + 1] = Dash
  BY <1>1, JoinedBytes
<1>4. \A i \in 1 .. Len(c) : Joined(c, d)[i] = c[i]
  BY <1>1, JoinedBytes
<1> QED
  BY <1>1, <1>2, <1>3, <1>4

\* The first dash tells where the role ends.
LEMMA JoinedApart ==
    ASSUME NEW a \in Ids, NEW b \in Ids, NEW c \in Ids, NEW d \in Ids,
           Joined(a, b) = Joined(c, d)
    PROVE  a = c /\ b = d
<1>1. /\ a \in Seq(0 .. 255) /\ b \in Seq(0 .. 255)
      /\ c \in Seq(0 .. 255) /\ d \in Seq(0 .. 255)
  BY IdBytes
<1>2. Len(a) \in Nat /\ Len(b) \in Nat /\ Len(c) \in Nat /\ Len(d) \in Nat
  BY <1>1
<1>3. Len(a) = Len(c)
  <2>1. ~(Len(a) < Len(c)) /\ ~(Len(c) < Len(a))
    BY NoShorterRole
  <2> QED
    BY <1>2, <2>1
<1>4. Len(b) = Len(d)
  <2>1. Len(Joined(a, b)) = Len(a) + 1 + Len(b)
    BY <1>1, JoinedBytes
  <2>2. Len(Joined(c, d)) = Len(c) + 1 + Len(d)
    BY <1>1, JoinedBytes
  <2> QED
    BY <1>2, <1>3, <2>1, <2>2
<1>5. \A i \in 1 .. Len(a) : a[i] = c[i]
  <2>1. \A i \in 1 .. Len(a) : Joined(a, b)[i] = a[i]
    BY <1>1, JoinedBytes
  <2>2. \A i \in 1 .. Len(c) : Joined(c, d)[i] = c[i]
    BY <1>1, JoinedBytes
  <2> QED
    BY <1>3, <2>1, <2>2
<1>6. \A i \in 1 .. Len(b) : b[i] = d[i]
  <2>1. \A i \in 1 .. Len(b) : Joined(a, b)[Len(a) + 1 + i] = b[i]
    BY <1>1, JoinedBytes
  <2>2. \A i \in 1 .. Len(d) : Joined(c, d)[Len(c) + 1 + i] = d[i]
    BY <1>1, JoinedBytes
  <2> QED
    BY <1>3, <1>4, <2>1, <2>2
<1> QED
  BY <1>1, <1>3, <1>4, <1>5, <1>6, SeqEqual

\* COUNT(DISTINCT role_id || '-' || string_id) counts pairs (packs.go:53).
LEMMA JoinedCounts ==
    ASSUME NEW C \in SUBSET Slot
    PROVE  Cardinality({s.role \o <<Dash>> \o s.string : s \in C}) = Cardinality(Pairs(C))
<1> DEFINE P == Pairs(C)
           T == {s.role \o <<Dash>> \o s.string : s \in C}
           join == [x \in P |-> Joined(x.role, x.string)]
<1>1. IsFiniteSet(P)
  BY PairsFinite
<1>2. \A x \in P : x.role \in Ids /\ x.string \in Ids /\ x = [role |-> x.role, string |-> x.string]
  BY DEF Pairs, Slot
<1>3. join \in [P -> T]
  <2> SUFFICES ASSUME NEW x \in P
               PROVE  Joined(x.role, x.string) \in T
    OBVIOUS
  <2>1. PICK s \in C : x = [role |-> s.role, string |-> s.string]
    BY DEF Pairs
  <2>2. x.role = s.role /\ x.string = s.string
    BY <2>1
  <2> QED
    BY <2>2 DEF Joined
<1>4. \A t \in T : \E x \in P : join[x] = t
  <2> SUFFICES ASSUME NEW s \in C
               PROVE  \E x \in P : join[x] = s.role \o <<Dash>> \o s.string
    OBVIOUS
  <2>1. [role |-> s.role, string |-> s.string] \in P
    BY DEF Pairs
  <2> QED
    BY <2>1 DEF Joined
<1>5. ASSUME NEW x \in P, NEW y \in P, join[x] = join[y]
      PROVE  x = y
  <2>1. Joined(x.role, x.string) = Joined(y.role, y.string)
    BY <1>5
  <2>2. x.role = y.role /\ x.string = y.string
    BY <1>2, <2>1, JoinedApart
  <2> QED
    BY <1>2, <2>2
<1>6. join \in Bijection(P, T)
  BY <1>3, <1>4, <1>5 DEF Bijection, Injection, Surjection, IsInjective
<1> HIDE DEF join
<1>7. ExistsBijection(P, T)
  BY <1>6 DEF ExistsBijection
<1> QED
  BY <1>1, <1>7, FS_Bijection

\* A result that was read to its end becomes a list of all packs, each once.
LEMMA WholeList ==
    ASSUME HandlerTypeOK, asked = List, rows \in SetToSeqs(packs), read = Len(rows),
           UNCHANGED <<packs, contents>>, reply' = Body
    PROVE  ListWhole'
<1> DEFINE n == Cardinality(packs)
<1>1. IsFiniteSet(packs) /\ n \in Nat
  BY ReadsAssumption, FS_Subset, FS_CardinalityType DEF HandlerTypeOK
<1>2. rows \in [1 .. n -> packs] /\ rows \in Seq(packs) /\ Len(rows) = n
  BY <1>1, Results DEF SetToSeqs
<1>3. \A p \in packs : \E i \in 1 .. n : rows[i] = p
  <2>1. ToSet(rows) = packs
    BY <1>1, Results
  <2> QED
    BY <1>2, <2>1 DEF ToSet
<1>4. SubSeq(rows, 1, read) = rows
  BY <1>2, SubSeqFull
<1>5. reply' = [i \in 1 .. n |-> Summary(rows[i], Of(rows[i]))]
  BY <1>2, <1>4 DEF Body
<1>6. Len(reply') = n /\ ToSet(reply') = {Summary(p, Of(p)) : p \in packs}
  <2>1. DOMAIN reply' = 1 .. n /\ reply' \in Seq({Summary(p, Of(p)) : p \in packs})
    BY <1>1, <1>2, <1>5
  <2> QED
    BY <1>1, <1>2, <1>3, <1>5, <2>1 DEF ToSet
<1>7. \A p \in packs :
        /\ Summary(p, Of(p)).id = p
        /\ Summary(p, Of(p)).roleCount = Cardinality(Roles(Of(p)))
        /\ Summary(p, Of(p)).stringCount = Cardinality(Pairs(Of(p)))
  BY JoinedCounts DEF HandlerTypeOK, Of, Summary
<1>8. Lists(reply', packs)
  BY <1>6, <1>7 DEF Lists
<1>9. \A x \in ToSet(reply') :
        /\ x.roleCount = Cardinality(Roles(Of(x.id)))
        /\ x.stringCount = Cardinality(Pairs(Of(x.id)))
  BY <1>6, <1>7
<1> QED
  BY <1>8, <1>9 DEF ListWhole, Of

-----------------------------------------------------------------------------
(* One pack.                                                               *)

\* A result that was read to its end becomes the roles of the pack.
LEMMA WholePack ==
    ASSUME HandlerTypeOK, asked # List, rows \in Sorted(Of(asked)), read = Len(rows),
           UNCHANGED <<contents, asked>>, reply' = Body
    PROVE  Shows(reply', asked', Of(asked)')
<1>1. IsFiniteSet(Of(asked)) /\ Of(asked) \subseteq Slot
  <2>1. Of(asked) \in SUBSET Slot
    BY DEF HandlerTypeOK, Of
  <2> QED
    BY <2>1, SlotFinite, FS_Subset
<1>2. rows \in SetToSeqs(Of(asked)) /\ \A i, j \in DOMAIN rows : i < j => ~Before(rows[j], rows[i])
  BY DEF Sorted
<1>3. rows \in Seq(Of(asked)) /\ ToSet(rows) = Of(asked)
  BY <1>1, <1>2, Results
<1>4. rows \in Seq(Slot) /\ \A i \in DOMAIN rows : rows[i].pack = asked
  <2>1. \A i \in DOMAIN rows : rows[i] \in Of(asked)
    BY <1>3
  <2> QED
    BY <1>1, <1>3, <2>1 DEF Of
<1>5. reply' = View(rows)
  <2>1. SubSeq(rows, 1, read) = rows
    BY <1>4, SubSeqFull
  <2> QED
    BY <2>1 DEF Body
<1>6. Shows(View(rows), asked, Of(asked))
  BY <1>2, <1>3, <1>4, ViewShows
<1>7. Of(asked)' = Of(asked)
  BY DEF Of
<1> QED
  BY <1>5, <1>6, <1>7

-----------------------------------------------------------------------------
(* 200.                                                                    *)

Whole == IF asked = List THEN ListWhole ELSE Shows(reply, asked, Of(asked))

\* In answer to GET a client that stays gets a reply only from a result that was read to its end,
\* and a 200 only with a reply.
ReplyInv ==
    /\ HandlerTypeOK
    /\ pc = "handler" => status = Unset
    /\ asked = Other => stage = "query"
    /\ status = OK /\ asked # Other => wrote
    /\ pc = "handler" /\ stage = "end" => wrote
    /\ wrote /\ asked # Other => stage = "end"
    /\ stage \in {"rows", "body"} =>
          IF asked = List THEN rows \in SetToSeqs(packs) ELSE rows \in Sorted(Of(asked))
    /\ stage = "body" /\ connected => read = Len(rows)
    /\ wrote /\ connected /\ asked # Other => Whole

\* Every step keeps it, if no connection breaks.
LEMMA StepReply == ~Lossy /\ ReplyInv /\ [Next]_vars => ReplyInv'
<1> SUFFICES ASSUME ~Lossy, ReplyInv, [Next]_vars
             PROVE  ReplyInv'
  OBVIOUS
<1>1. HandlerTypeOK'
  BY StepHandlerType DEF ReplyInv
<1>2. UNCHANGED <<packs, contents, asked, reply>> => Whole' = Whole
  BY DEF Whole, ListWhole, Of
<1>3. UNCHANGED <<contents, asked>> => Of(asked)' = Of(asked)
  BY DEF Of
<1> USE DEF ReplyInv, OK, Unset
<1>4. CASE QueryPacks
  BY <1>1, <1>2, <1>4, ReadsAssumption DEF QueryPacks, Fetch, wrapVars
<1>5. CASE QueryPack
  <2>1. asked \notin {List, Other}
    BY <1>5, ReadsAssumption DEF QueryPack, HandlerTypeOK
  <2> QED
    BY <1>1, <1>2, <1>3, <1>5, <2>1 DEF QueryPack, Fetch, wrapVars
<1>6. ASSUME NEW s, Return(s), asked # Other, s = OK => wrote
      PROVE  ReplyInv'
  BY <1>1, <1>2, <1>6 DEF Return, HandlerReturns
<1>7. CASE PackNotFound
  BY <1>6, <1>7, ReadsAssumption DEF PackNotFound, NotFound
<1>8. CASE Fails
  BY <1>6, <1>8 DEF Fails, InternalServerError
<1>9. CASE ReturnOK
  <2>1. wrote /\ asked # Other
    BY <1>9 DEF ReturnOK, Return, HandlerReturns
  <2> QED
    BY <1>6, <1>9, <2>1 DEF ReturnOK
<1>10. CASE NextRow
  BY <1>1, <1>2, <1>3, <1>10 DEF NextRow, wrapVars
<1>11. CASE RowsEnd
  <2>1. connected => read = Len(rows)
    BY <1>11 DEF RowsEnd, EndsEarly, HandlerTypeOK
  <2> QED
    BY <1>1, <1>2, <1>3, <1>11, <2>1 DEF RowsEnd, wrapVars
<1>12. CASE Encode
  <2>1. connected => Whole'
    <3> SUFFICES ASSUME connected
                 PROVE  Whole'
      OBVIOUS
    <3>1. /\ reply' = Body /\ read = Len(rows) /\ UNCHANGED <<packs, contents, asked>>
          /\ IF asked = List THEN rows \in SetToSeqs(packs) ELSE rows \in Sorted(Of(asked))
      BY <1>12 DEF Encode
    <3>2. CASE asked = List
      BY <3>1, <3>2, WholeList DEF Whole
    <3>3. CASE asked # List
      <4>1. Shows(reply', asked', Of(asked)')
        BY <3>1, <3>3, WholePack
      <4> QED
        BY <3>1, <3>3, <4>1 DEF Whole
    <3> QED
      BY <3>2, <3>3
  <2> QED
    BY <1>1, <1>12, <2>1 DEF Encode
<1>13. CASE OtherHandler
  BY <1>1, <1>2, <1>3, <1>13 DEF OtherHandler, HandlerStep, HandlerWrites, HandlerReturns, handler
<1>14. CASE WrapperStep /\ UNCHANGED handler
  <2>1. /\ wrote' = wrote /\ status' = status
        /\ connected' => connected
        /\ pc' = "handler" => pc = "handler"
    BY <1>14 DEF WrapperStep, LogResult, Compare, Select, DefaultHeader, DefaultBody,
                 Finish, Disconnect
  <2> QED
    BY <1>1, <1>2, <1>3, <1>14, <2>1 DEF handler
<1>15. CASE UNCHANGED vars
  BY <1>1, <1>2, <1>3, <1>15 DEF vars, wrapVars, handler
<1> QED
  BY <1>4, <1>5, <1>7, <1>8, <1>9, <1>10, <1>11, <1>12, <1>13, <1>14, <1>15 DEF Next

\* If the connection to Postgres holds, a 200 that reaches a client carries all
\* that is stored: the list names every pack once, with as many roles and strings
\* as the pack has, and a pack shows every role, string and resource in its place,
\* whatever the ids, their collation and the order in which the rows of a string
\* come.
THEOREM ReadsReplyWhole ==
    ASSUME ~Lossy
    PROVE  Spec => []ReplyWhole
<1>1. Init => ReplyInv
  <2> SUFFICES ASSUME Init
               PROVE  ReplyInv
    OBVIOUS
  <2>1. HandlerTypeOK
    BY InitHandlerType
  <2>2. stage = "query" /\ wrote = FALSE /\ status = Unset
    BY DEF Init, WrapInit
  <2> QED
    BY <2>1, <2>2 DEF ReplyInv, OK, Unset
<1>2. ReplyInv /\ [Next]_vars => ReplyInv'
  BY StepReply
<1>3. ReplyInv /\ WrapInv => ReplyWhole
  BY ReadsAssumption DEF ReplyInv, Whole, ReplyWhole, PackReplyWhole, GotOK, WrapInv, WriterOK, DecidedOK, Late, OK
<1> QED
  BY <1>1, <1>2, <1>3, ReadsAreWrapped, InvariantWrapInv, PTL DEF Spec

-----------------------------------------------------------------------------
(* The digest.                                                              *)

\* Every set of rows has one that may come last.
LEMMA LastRow ==
    ASSUME NEW P \in SUBSET PairType, P # {}
    PROVE  \E x \in P : \A y \in P : ~Before(x, y)
<1> DEFINE m == Len(Collation)
<1>1. m \in Nat /\ DOMAIN Collation = 1 .. m
  BY IdsAssumption
<1>2. \A x \in Ids : Position(x) \in 0 .. m
  <2> TAKE x \in Ids
  <2>1. \E i \in DOMAIN Collation : Collation[i] = x
    BY DEF Ids, ToSet
  <2>2. Position(x) \in DOMAIN Collation
    BY <2>1 DEF Position
  <2> QED
    BY <1>1, <2>2
<1>3. \A x \in P : x.role \in Ids /\ x.string \in Ids
  BY DEF PairType
<1> DEFINE A == {Position(x.role) : x \in P}
<1>4. PICK a \in A : \A b \in A : a >= b
  <2>1. A \in SUBSET (0 .. m) /\ A # {}
    BY <1>2, <1>3
  <2> QED
    BY <1>1, <2>1, MaxIn
<1> DEFINE B == {Position(x.string) : x \in {y \in P : Position(y.role) = a}}
<1>5. PICK b \in B : \A c \in B : b >= c
  <2>1. B \in SUBSET (0 .. m) /\ B # {}
    BY <1>2, <1>3
  <2> QED
    BY <1>1, <2>1, MaxIn
<1>6. PICK x \in P : Position(x.role) = a /\ Position(x.string) = b
  OBVIOUS
<1>7. ASSUME NEW y \in P, Before(x, y)
      PROVE  FALSE
  <2>1. Position(y.role) \in A /\ a >= Position(y.role)
    BY <1>4
  <2>2. /\ Position(x.role) \in Nat /\ Position(y.role) \in Nat
        /\ Position(x.string) \in Nat /\ Position(y.string) \in Nat
    BY <1>2, <1>3
  <2>3. CASE Position(x.role) < Position(y.role)
    BY <1>6, <2>1, <2>2, <2>3
  <2>4. CASE x.role = y.role /\ Position(x.string) < Position(y.string)
    <3>1. Position(y.string) \in B /\ b >= Position(y.string)
      BY <1>5, <1>6, <2>4
    <3> QED
      BY <1>6, <2>2, <2>4, <3>1
  <2> QED
    BY <1>7, <2>3, <2>4 DEF Before
<1> QED
  BY <1>7

\* There is a sorted result.
LEMMA SortedExists ==
    ASSUME NEW P \in SUBSET PairType, IsFiniteSet(P)
    PROVE  \E q : q \in Sorted(P)
<1> DEFINE n == Cardinality(P)
           S == {k \in 0 .. n : \A R \in SUBSET P : Cardinality(R) = k => \E q : q \in Sorted(R)}
<1>1. n \in Nat
  BY FS_CardinalityType
<1>2. 0 \in S
  <2> SUFFICES ASSUME NEW R \in SUBSET P, Cardinality(R) = 0
               PROVE  \E q : q \in Sorted(R)
    BY <1>1
  <2>1. R = {}
    BY FS_Subset, FS_EmptySet
  <2>2. [i \in 1 .. 0 |-> i] \in Sorted(R)
    BY <2>1 DEF Sorted, SetToSeqs
  <2> QED
    BY <2>2
<1>3. ASSUME NEW k \in 0 .. n - 1, k \in S
      PROVE  k + 1 \in S
  <2> SUFFICES ASSUME NEW R \in SUBSET P, Cardinality(R) = k + 1
               PROVE  \E q : q \in Sorted(R)
    BY <1>1
  <2>1. IsFiniteSet(R)
    BY FS_Subset
  <2>2. R # {}
    BY <2>1, FS_EmptySet
  <2>3. PICK x \in R : \A y \in R : ~Before(x, y)
    BY <2>2, LastRow
  <2> DEFINE T == R \ {x}
  <2>4. Cardinality(T) = k
    <3>1. Cardinality(T) = Cardinality(R) - 1
      BY <2>1, FS_RemoveElement
    <3> QED
      BY <1>1, <3>1
  <2>5. PICK q : q \in Sorted(T)
    BY <1>3, <2>4
  <2>6. /\ q \in [1 .. k -> T]
        /\ \A i, j \in 1 .. k : i # j => q[i] # q[j]
        /\ \A i, j \in 1 .. k : i < j => ~Before(q[j], q[i])
    <3>1. q \in SetToSeqs(T) /\ \A i, j \in DOMAIN q : i < j => ~Before(q[j], q[i])
      BY <2>5 DEF Sorted
    <3> HIDE DEF T
    <3> QED
      BY <2>4, <3>1 DEF SetToSeqs
  <2> DEFINE r == [i \in 1 .. k + 1 |-> IF i = k + 1 THEN x ELSE q[i]]
  <2>7. r \in [1 .. k + 1 -> R]
    BY <2>6
  <2>8. \A i, j \in 1 .. k + 1 : i # j => r[i] # r[j]
    BY <2>6
  <2>9. ASSUME NEW i \in 1 .. k + 1, NEW j \in 1 .. k + 1, i < j
        PROVE  ~Before(r[j], r[i])
    <3>1. i \in 1 .. k /\ r[i] = q[i] /\ q[i] \in R
      BY <2>6, <2>9
    <3>2. CASE j = k + 1
      BY <2>3, <3>1, <3>2
    <3>3. CASE j # k + 1
      BY <2>6, <2>9, <3>1, <3>3
    <3> QED
      BY <3>2, <3>3
  <2> HIDE DEF r
  <2>10. r \in Sorted(R)
    BY <2>1, <2>7, <2>8, <2>9 DEF Sorted, SetToSeqs
  <2> QED
    BY <2>10
<1>4. n \in S
  <2> HIDE DEF S
  <2>1. \A k \in 0 .. n - 1 : k \in S => k + 1 \in S
    BY <1>3
  <2>2. 0 .. n \subseteq S
    BY <1>1, <1>2, <2>1, UpTo
  <2> QED
    BY <1>1, <2>2
<1> QED
  BY <1>4

\* What is digested.
Byte == 0 .. 255
Bytes == Seq(Byte)

\* Bytes in a sequence.
LEMMA BytesAre ==
    \A b \in Bytes : /\ b \in Seq(Byte) /\ Len(b) \in Nat /\ DOMAIN b = 1 .. Len(b)
                     /\ \A i \in 1 .. Len(b) : b[i] \in Byte
<1> TAKE b \in Bytes
<1>1. b \in Seq(Byte)
  BY DEF Bytes
<1> QED
  BY <1>1

\* An id is bytes, none of which is a separator.
LEMMA IdSeparated ==
    ASSUME NEW a \in Ids
    PROVE  /\ a \in Bytes /\ Len(a) \in Nat /\ DOMAIN a = 1 .. Len(a)
           /\ \A i \in 1 .. Len(a) : a[i] \notin Separators
<1>1. a \in Bytes
  BY IdBytes DEF Bytes, Byte
<1>2. ToSet(a) \cap Separators = {}
  BY IdsAssumption
<1>3. Len(a) \in Nat /\ DOMAIN a = 1 .. Len(a)
  BY <1>1, BytesAre
<1> QED
  BY <1>1, <1>2, <1>3 DEF ToSet

\* c is b, the separator s and the id a.
Continues(c, b, s, a) ==
    /\ b \in Bytes /\ c \in Bytes /\ s \in Separators /\ a \in Ids
    /\ Len(c) = Len(b) + 1 + Len(a)
    /\ \A i \in 1 .. Len(b) : c[i] = b[i]
    /\ c[Len(b) + 1] = s
    /\ \A i \in 1 .. Len(a) : c[Len(b) + 1 + i] = a[i]

\* Both ways in which updatePackHash writes a separator and an id.
LEMMA ConcatContinues ==
    ASSUME NEW b \in Bytes, NEW s \in Separators, NEW a \in Ids
    PROVE  Continues(b \o <<s>> \o a, b, s, a) /\ Continues(b \o (<<s>> \o a), b, s, a)
<1>1. a \in Seq(Byte) /\ b \in Seq(Byte) /\ s \in Byte /\ <<s>> \in Seq(Byte)
  <2>1. s \in Byte
    BY DEF Byte, Separators
  <2> QED
    BY <2>1, IdSeparated DEF Bytes
<1>2. Continues(b \o <<s>> \o a, b, s, a)
  BY <1>1, Separated DEF Continues, Bytes
<1>3. b \o (<<s>> \o a) = b \o <<s>> \o a
  BY <1>1, ConcatAssociative
<1> QED
  BY <1>2, <1>3

\* The id a stands after position i of b, up to a separator or the end.
After(b, i, a) ==
    /\ a \in Ids /\ i \in 1 .. Len(b) /\ i + Len(a) <= Len(b)
    /\ \A k \in 1 .. Len(a) : b[i + k] = a[k]
    /\ i + Len(a) < Len(b) => b[i + Len(a) + 1] \in Separators

\* What is appended begins with a separator, so it moves no id.
LEMMA AfterStays ==
    ASSUME NEW b, NEW c, NEW s, NEW a, Continues(c, b, s, a)
    PROVE  /\ \A i, x : After(b, i, x) => After(c, i, x)
           /\ After(c, Len(b) + 1, a)
           /\ \A i \in 1 .. Len(c) : c[i] \in Separators => i \in 1 .. Len(b) + 1
<1>1. Len(b) \in Nat /\ Len(c) \in Nat /\ Len(a) \in Nat /\ Len(c) = Len(b) + 1 + Len(a)
  BY IdSeparated, BytesAre DEF Continues
<1>2. ASSUME NEW i, NEW x, After(b, i, x)
      PROVE  After(c, i, x)
  <2>1. x \in Ids /\ i \in 1 .. Len(b) /\ Len(x) \in Nat /\ i + Len(x) <= Len(b)
    BY <1>2, IdSeparated DEF After
  <2>2. i \in 1 .. Len(c) /\ i + Len(x) <= Len(c)
    BY <1>1, <2>1
  <2>3. \A k \in 1 .. Len(x) : c[i + k] = x[k]
    <3> TAKE k \in 1 .. Len(x)
    <3>1. i + k \in 1 .. Len(b)
      BY <1>1, <2>1
    <3> QED
      BY <1>2, <3>1 DEF Continues, After
  <2>4. c[i + Len(x) + 1] \in Separators
    <3>1. CASE i + Len(x) = Len(b)
      BY <3>1 DEF Continues
    <3>2. CASE i + Len(x) < Len(b)
      <4>1. i + Len(x) + 1 \in 1 .. Len(b)
        BY <1>1, <2>1, <3>2
      <4> QED
        BY <1>2, <3>2, <4>1 DEF Continues, After
    <3> QED
      BY <1>1, <2>1, <3>1, <3>2
  <2> QED
    BY <2>1, <2>2, <2>3, <2>4 DEF After
<1>3. After(c, Len(b) + 1, a)
  <2>1. Len(b) + 1 \in 1 .. Len(c) /\ ~(Len(b) + 1 + Len(a) < Len(c)) /\ Len(b) + 1 + Len(a) <= Len(c)
    BY <1>1
  <2> QED
    BY <2>1 DEF After, Continues
<1>4. ASSUME NEW i \in 1 .. Len(c), c[i] \in Separators
      PROVE  i \in 1 .. Len(b) + 1
  <2> SUFFICES ASSUME i > Len(b) + 1
               PROVE  FALSE
    BY <1>1
  <2>1. i - Len(b) - 1 \in 1 .. Len(a) /\ Len(b) + 1 + (i - Len(b) - 1) = i
    BY <1>1
  <2>2. c[i] = a[i - Len(b) - 1]
    BY <2>1 DEF Continues
  <2> QED
    BY <1>4, <2>1, <2>2, IdSeparated DEF Continues
<1> QED
  BY <1>2, <1>3, <1>4

\* The last 0 up to i is at o.
Opens(b, o, i) == o \in 1 .. i /\ b[o] = 0 /\ \A j \in o + 1 .. i : b[j] # 0

\* The string of the pair x stands after i, its role after the last 0 before it.
Stands(b, o, i, x) ==
    /\ i \in 1 .. Len(b) /\ b[i] = 1
    /\ Opens(b, o, i) /\ After(b, o, x.role) /\ After(b, i, x.string)

\* The bytes say that the pairs are P: every 1 stands for one of them, and every
\* one of them stands somewhere.
Hashed(b, P) ==
    /\ b \in Bytes
    /\ \A i \in 1 .. Len(b) : b[i] = 1 => \E o \in 1 .. i : \E x \in P : Stands(b, o, i, x)
    /\ \A x \in P : \E i \in 1 .. Len(b) : \E o \in 1 .. i : Stands(b, o, i, x)

\* A string that follows belongs to this role.
Under(b, role) == \E o \in 1 .. Len(b) : Opens(b, o, Len(b)) /\ After(b, o, role)

\* What is appended moves no pair.
LEMMA StandsStays ==
    ASSUME NEW b, NEW c, NEW s, NEW a, Continues(c, b, s, a),
           NEW o, NEW i, NEW x, Stands(b, o, i, x)
    PROVE  i \in 1 .. Len(c) /\ Stands(c, o, i, x)
<1>1. Len(b) \in Nat /\ Len(c) \in Nat /\ Len(b) <= Len(c)
  BY IdSeparated, BytesAre DEF Continues
<1>2. i \in 1 .. Len(b) /\ o \in 1 .. i
  BY DEF Stands, Opens
<1>3. \A j \in 1 .. i : c[j] = b[j]
  BY <1>1, <1>2 DEF Continues
<1>4. After(c, o, x.role) /\ After(c, i, x.string)
  BY AfterStays DEF Stands
<1>5. Opens(c, o, i)
  BY <1>2, <1>3 DEF Stands, Opens
<1> QED
  BY <1>1, <1>2, <1>3, <1>4, <1>5 DEF Stands

\* A role says nothing yet.
LEMMA RoleContinues ==
    ASSUME NEW b, NEW c, NEW a, Continues(c, b, 0, a), NEW P, Hashed(b, P)
    PROVE  Hashed(c, P) /\ Under(c, a)
<1>1. Len(b) \in Nat /\ Len(c) \in Nat /\ c \in Bytes /\ Len(b) + 1 \in 1 .. Len(c)
  BY IdSeparated, BytesAre DEF Continues
<1>2. ASSUME NEW i \in 1 .. Len(c), c[i] = 1
      PROVE  \E o \in 1 .. i : \E x \in P : Stands(c, o, i, x)
  <2>1. i \in 1 .. Len(b) + 1
    BY <1>2, AfterStays DEF Separators
  <2>2. i # Len(b) + 1
    BY <1>2 DEF Continues
  <2>3. i \in 1 .. Len(b) /\ b[i] = 1
    BY <1>1, <1>2, <2>1, <2>2 DEF Continues
  <2> QED
    BY <2>3, StandsStays DEF Hashed
<1>3. \A x \in P : \E i \in 1 .. Len(c) : \E o \in 1 .. i : Stands(c, o, i, x)
  BY StandsStays DEF Hashed
<1>4. Opens(c, Len(b) + 1, Len(c))
  <2>1. \A j \in Len(b) + 2 .. Len(c) : c[j] # 0
    <3> TAKE j \in Len(b) + 2 .. Len(c)
    <3>1. j \in 1 .. Len(c) /\ j \notin 1 .. Len(b) + 1
      BY <1>1
    <3> QED
      BY <3>1, AfterStays DEF Separators
  <2> QED
    BY <1>1, <2>1 DEF Opens, Continues
<1>5. After(c, Len(b) + 1, a)
  BY AfterStays
<1> QED
  BY <1>1, <1>2, <1>3, <1>4, <1>5 DEF Hashed, Under

\* A string says that its pair is there.
LEMMA StringContinues ==
    ASSUME NEW b, NEW c, NEW P, NEW x, Continues(c, b, 1, x.string), Hashed(b, P),
           Under(b, x.role)
    PROVE  Hashed(c, P \cup {x}) /\ Under(c, x.role)
<1>0. /\ b \in Bytes /\ c \in Bytes /\ x.string \in Ids
      /\ Len(c) = Len(b) + 1 + Len(x.string) /\ c[Len(b) + 1] = 1
  BY DEF Continues
<1> DEFINE i == Len(b) + 1
<1>1. Len(b) \in Nat /\ Len(c) \in Nat /\ c \in Bytes /\ i \in 1 .. Len(c)
  <2>1. Len(x.string) \in Nat
    BY <1>0, IdSeparated
  <2>2. Len(b) \in Nat /\ Len(c) \in Nat
    BY <1>0, BytesAre
  <2> DEFINE k == Len(x.string)
  <2>3. k \in Nat /\ Len(c) = Len(b) + 1 + k
    BY <1>0, <2>1
  <2> HIDE DEF k
  <2>4. Len(b) + 1 \in 1 .. Len(c)
    BY <2>2, <2>3
  <2> QED
    BY <1>0, <2>2, <2>4
<1>2. PICK o \in 1 .. Len(b) : Opens(b, o, Len(b)) /\ After(b, o, x.role)
  BY DEF Under
<1>3. \A j \in o + 1 .. Len(c) : c[j] # 0
  <2> TAKE j \in o + 1 .. Len(c)
  <2>1. CASE j \in 1 .. Len(b)
    <3>1. c[j] = b[j]
      BY <2>1 DEF Continues
    <3>2. j \in o + 1 .. Len(b)
      BY <1>1, <2>1
    <3> QED
      BY <1>2, <3>1, <3>2 DEF Opens
  <2>2. CASE j = i
    BY <1>0, <2>2
  <2>3. CASE j \notin 1 .. i
    <3>1. j \in 1 .. Len(c)
      BY <1>1, <1>2
    <3>2. c[j] \notin Separators
      BY <2>3, <3>1, AfterStays
    <3> QED
      BY <3>2 DEF Separators
  <2> QED
    BY <1>1, <2>1, <2>2, <2>3
<1>4. c[o] = 0
  BY <1>1, <1>2 DEF Opens, Continues
<1>5. Opens(c, o, i) /\ Opens(c, o, Len(c)) /\ o \in 1 .. i /\ o \in 1 .. Len(c)
  BY <1>1, <1>2, <1>3, <1>4 DEF Opens
<1>6. After(c, o, x.role) /\ After(c, i, x.string)
  BY <1>2, AfterStays
<1>7. Stands(c, o, i, x)
  BY <1>1, <1>5, <1>6 DEF Stands, Continues
<1>8. ASSUME NEW k \in 1 .. Len(c), c[k] = 1
      PROVE  \E u \in 1 .. k : \E y \in P \cup {x} : Stands(c, u, k, y)
  <2>1. k \in 1 .. i
    BY <1>8, AfterStays DEF Separators
  <2>2. CASE k = i
    BY <1>5, <1>7, <2>2
  <2>3. CASE k # i
    <3>1. k \in 1 .. Len(b)
      BY <1>1, <2>1, <2>3
    <3>2. b[k] = 1
      BY <1>8, <3>1 DEF Continues
    <3> QED
      BY <3>1, <3>2, StandsStays DEF Hashed
  <2> QED
    BY <2>2, <2>3
<1>9. \A y \in P \cup {x} : \E k \in 1 .. Len(c) : \E u \in 1 .. k : Stands(c, u, k, y)
  BY <1>1, <1>5, <1>7, StandsStays DEF Hashed
<1> QED
  BY <1>1, <1>5, <1>6, <1>8, <1>9 DEF Hashed, Under

\* IdAfter of Decode.
IdAt(b, i) ==
    LET end == SelectInSubSeq(b, i + 1, Len(b), LAMBDA x : x \in Separators)
    IN SubSeq(b, i + 1, IF end = 0 THEN Len(b) ELSE end - 1)

\* The id ends where the next separator is.
LEMMA ReadsId ==
    ASSUME NEW b \in Bytes, NEW i, NEW a, After(b, i, a)
    PROVE  IdAt(b, i) = a
<1> DEFINE I == {k \in i + 1 .. Len(b) : b[k] \in Separators}
           e == i + Len(a)
           end == SelectInSubSeq(b, i + 1, Len(b), LAMBDA x : x \in Separators)
           r == SubSeq(b, i + 1, e)
<1>1. /\ i \in 1 .. Len(b) /\ Len(b) \in Nat /\ Len(a) \in Nat /\ e \in Nat /\ i <= e /\ e <= Len(b)
      /\ a \in Ids /\ a \in Seq(Byte)
  BY IdSeparated, BytesAre DEF After, Bytes
<1>2. \A k \in i + 1 .. e : b[k] \notin Separators
  <2> TAKE k \in i + 1 .. e
  <2>1. k - i \in 1 .. Len(a) /\ i + (k - i) = k
    BY <1>1
  <2> QED
    BY <1>1, <2>1, IdSeparated DEF After
<1>3. end = IF I # {} THEN Min(I) ELSE 0
  BY DEF SelectInSubSeq
<1>4. (IF end = 0 THEN Len(b) ELSE end - 1) = e
  <2>1. CASE e = Len(b)
    <3>1. I = {}
      BY <1>2, <2>1
    <3> QED
      BY <1>3, <2>1, <3>1
  <2>2. CASE e < Len(b)
    <3>1. e + 1 \in I
      BY <1>1, <2>2 DEF After
    <3>2. \A k \in I : e + 1 <= k
      BY <1>1, <1>2
    <3>3. \A k \in I : (\A l \in I : k <= l) => k = e + 1
      BY <1>1, <3>1, <3>2
    <3> HIDE DEF I, e
    <3>4. Min(I) = e + 1
      BY <3>1, <3>2, <3>3 DEF Min
    <3> QED
      BY <1>1, <1>3, <3>1, <3>4
  <2> QED
    BY <1>1, <2>1, <2>2
<1>5. IdAt(b, i) = r
  BY <1>4 DEF IdAt
<1>6. r = a
  <2>1. \A k \in i + 1 .. e : b[k] \in Byte
    <3> TAKE k \in i + 1 .. e
    <3>1. k \in 1 .. Len(b)
      BY <1>1
    <3> QED
      BY <3>1, BytesAre
  <2>2. r \in Seq(Byte) /\ Len(r) = Len(a) /\ \A k \in 1 .. Len(a) : r[k] = b[i + k]
    <3>1. e - (i + 1) + 1 = Len(a) /\ (IF i + 1 <= e THEN e - (i + 1) + 1 ELSE 0) = Len(a)
      BY <1>1
    <3>2. /\ r \in Seq(Byte)
          /\ Len(r) = IF i + 1 <= e THEN e - (i + 1) + 1 ELSE 0
          /\ \A k \in 1 .. e - (i + 1) + 1 : r[k] = b[i + 1 + k - 1]
      BY <1>1, <2>1, SubSeqProperties
    <3>3. \A k \in 1 .. Len(a) : i + 1 + k - 1 = i + k
      BY <1>1
    <3> HIDE DEF r
    <3> QED
      BY <3>1, <3>2, <3>3
  <2>3. \A k \in 1 .. Len(a) : b[i + k] = a[k]
    BY DEF After
  <2> HIDE DEF r
  <2> QED
    BY <1>1, <2>2, <2>3, SeqEqual
<1> QED
  BY <1>5, <1>6

\* The role is looked for at the last 0.
LEMMA ReadsRole ==
    ASSUME NEW b \in Bytes, NEW i \in 1 .. Len(b), NEW o, Opens(b, o, i)
    PROVE  SelectLastInSubSeq(b, 1, i, LAMBDA x : x = 0) = o
<1> DEFINE I == {k \in 1 .. i : b[k] = 0}
<1>1. i \in Nat /\ o \in Nat /\ o \in I /\ I \in SUBSET (1 .. o)
  BY BytesAre DEF Opens
<1>2. Max(I) = o
  BY <1>1, MaxOf
<1> QED
  BY <1>1, <1>2 DEF SelectLastInSubSeq

\* What the bytes say is what Decode reads.
LEMMA HashedDecodes ==
    ASSUME NEW b, NEW P \in SUBSET PairType, Hashed(b, P)
    PROVE  Decode(b) = P
<1> DEFINE N == {j \in DOMAIN b : b[j] = 1}
           Read(i) == [role |-> IdAt(b, SelectLastInSubSeq(b, 1, i, LAMBDA x : x = 0)),
                       string |-> IdAt(b, i)]
<1>1. b \in Bytes /\ DOMAIN b = 1 .. Len(b)
  BY BytesAre DEF Hashed
<1>2. Decode(b) = {Read(i) : i \in N}
  BY DEF Decode, IdAt
<1>3. ASSUME NEW i \in 1 .. Len(b), NEW o, NEW x \in P, Stands(b, o, i, x)
      PROVE  i \in N /\ Read(i) = x
  <2>1. SelectLastInSubSeq(b, 1, i, LAMBDA y : y = 0) = o
    BY <1>1, <1>3, ReadsRole DEF Stands
  <2>2. IdAt(b, o) = x.role /\ IdAt(b, i) = x.string
    BY <1>1, <1>3, ReadsId DEF Stands
  <2>3. x = [role |-> x.role, string |-> x.string]
    BY DEF PairType
  <2>4. i \in N
    BY <1>1, <1>3 DEF Stands
  <2>5. Read(i) = [role |-> IdAt(b, o), string |-> IdAt(b, i)]
    BY <2>1
  <2> QED
    BY <2>2, <2>3, <2>4, <2>5
<1> HIDE DEF Read
<1>4. \A i \in N : Read(i) \in P
  <2> TAKE i \in N
  <2>1. i \in 1 .. Len(b) /\ b[i] = 1
    BY <1>1
  <2>2. PICK o \in 1 .. i : \E x \in P : Stands(b, o, i, x)
    BY <2>1 DEF Hashed
  <2> QED
    BY <1>3, <2>1, <2>2
<1>5. ASSUME NEW x \in P
      PROVE  \E i \in N : Read(i) = x
  <2>1. PICK i \in 1 .. Len(b) : \E o \in 1 .. i : Stands(b, o, i, x)
    BY DEF Hashed
  <2> QED
    BY <1>3, <2>1
<1> QED
  BY <1>2, <1>4, <1>5

\* Before the first row.
NoBytes == [bytes |-> <<>>, prevRoleID |-> <<>>]

\* What updatePackHash digests of a result.
Input(result) == FoldLeft(HashRow, NoBytes, result).bytes

\* The fold exists, and is what the loop of updatePackHash does row by row.
LEMMA HashSteps ==
    ASSUME NEW R, NEW result \in Seq(R)
    PROVE  \E acc : /\ acc[0] = NoBytes
                    /\ \A k \in 1 .. Len(result) : acc[k] = HashRow(acc[k - 1], result[k])
                    /\ Input(result) = acc[Len(result)].bytes
<1> DEFINE n == Len(result)
           Step(h, s) == IF s = {} THEN NoBytes ELSE HashRow(h[s \ {Max(s)}], result[Max(s)])
           E == {m \in 0 .. n : \E h : h = [s \in SUBSET (1 .. m) |-> Step(h, s)]}
           iter == CHOOSE h : h = [s \in SUBSET DOMAIN result |-> Step(h, s)]
<1>1. n \in Nat /\ DOMAIN result = 1 .. n
  OBVIOUS
<1>2. Input(result) = iter[1 .. n].bytes
  BY <1>1 DEF Input, FoldLeft, MapThenFoldSet
<1>3. 0 \in E
  <2> DEFINE h == [s \in SUBSET (1 .. 0) |-> NoBytes]
  <2>1. \A s \in SUBSET (1 .. 0) : s = {}
    OBVIOUS
  <2>2. h = [s \in SUBSET (1 .. 0) |-> Step(h, s)]
    BY <2>1
  <2> HIDE DEF h, Step
  <2> QED
    BY <1>1, <2>2
<1>4. ASSUME NEW m \in 0 .. n - 1, m \in E
      PROVE  m + 1 \in E
  <2> PICK h : h = [s \in SUBSET (1 .. m) |-> Step(h, s)]
    BY <1>4
  <2> DEFINE g == [s \in SUBSET (1 .. m + 1) |->
                      IF m + 1 \in s THEN HashRow(h[s \ {m + 1}], result[m + 1]) ELSE h[s]]
  <2>1. ASSUME NEW s \in SUBSET (1 .. m + 1)
        PROVE  g[s] = Step(g, s)
    <3>1. CASE m + 1 \in s
      <4>1. Max(s) = m + 1
        BY <3>1, <1>1, MaxOf
      <4>2. g[s \ {m + 1}] = h[s \ {m + 1}]
        OBVIOUS
      <4> QED
        BY <3>1, <4>1, <4>2
    <3>2. CASE m + 1 \notin s
      <4>1. s \in SUBSET (1 .. m)
        BY <3>2, <1>1
      <4>2. g[s] = Step(h, s)
        BY <3>2, <4>1
      <4>3. CASE s = {}
        BY <4>2, <4>3
      <4>4. CASE s # {}
        <5>1. g[s \ {Max(s)}] = h[s \ {Max(s)}]
          BY <3>2
        <5> QED
          BY <4>2, <4>4, <5>1
      <4> QED
        BY <4>3, <4>4
    <3> QED
      BY <3>1, <3>2
  <2>2. g = [s \in SUBSET (1 .. m + 1) |-> Step(g, s)]
    BY <2>1
  <2> HIDE DEF g, Step
  <2> QED
    BY <1>1, <2>2
<1>5. n \in E
  <2> HIDE DEF E
  <2>1. \A m \in 0 .. n - 1 : m \in E => m + 1 \in E
    BY <1>4
  <2>2. 0 .. n \subseteq E
    BY <1>1, <1>3, <2>1, UpTo
  <2> QED
    BY <1>1, <2>2
<1>6. \E h : h = [s \in SUBSET DOMAIN result |-> Step(h, s)]
  BY <1>1, <1>5
<1>7. iter = [s \in SUBSET DOMAIN result |-> Step(iter, s)]
  <2> HIDE DEF Step
  <2> QED
    BY <1>6
<1> HIDE DEF iter
<1> DEFINE acc == [k \in 0 .. n |-> iter[1 .. k]]
<1>8. acc[0] = NoBytes
  BY <1>1, <1>7
<1>9. ASSUME NEW k \in 1 .. n
      PROVE  acc[k] = HashRow(acc[k - 1], result[k])
  <2>1. k \in 1 .. k /\ (1 .. k) \ {k} = 1 .. k - 1 /\ k \in Nat
    BY <1>1
  <2>3. Max(1 .. k) = k
    BY <2>1, MaxOf
  <2>2. iter[1 .. k] = Step(iter, 1 .. k)
    <3>1. 1 .. k \in SUBSET DOMAIN result
      BY <1>1
    <3> HIDE DEF Step
    <3> QED
      BY <1>7, <3>1
  <2> QED
    BY <1>1, <2>1, <2>2, <2>3
<1>10. Input(result) = acc[n].bytes
  BY <1>1, <1>2
<1> QED
  BY <1>8, <1>9, <1>10

\* The bytes say P and the next row may omit the role of the previous one.
HashedTo(acc, P) ==
    /\ Hashed(acc.bytes, P)
    /\ acc.prevRoleID \in Ids => Under(acc.bytes, acc.prevRoleID)

\* updatePackHash omits a role that the previous row had (packs.go:832): the
\* string still stands under it.
LEMMA HashRowContinues ==
    ASSUME NEW acc, NEW P, NEW row \in PairType, HashedTo(acc, P)
    PROVE  HashedTo(HashRow(acc, row), P \cup {row})
<1> DEFINE next == HashRow(acc, row)
           b == acc.bytes
           opened == b \o (IF row.role # acc.prevRoleID THEN <<0>> \o row.role ELSE <<>>)
<1>1. /\ b \in Bytes /\ b \in Seq(Byte) /\ row.role \in Ids /\ row.string \in Ids
      /\ 0 \in Separators /\ 1 \in Separators
  BY DEF HashedTo, Hashed, Bytes, PairType, Separators
<1>2. Hashed(opened, P) /\ Under(opened, row.role)
  <2>1. CASE row.role # acc.prevRoleID
    <3>1. opened = b \o (<<0>> \o row.role)
      BY <2>1
    <3>2. Continues(opened, b, 0, row.role)
      BY <1>1, <3>1, ConcatContinues
    <3> QED
      BY <3>2, RoleContinues DEF HashedTo
  <2>2. CASE row.role = acc.prevRoleID
    <3>1. opened = b
      BY <1>1, <2>2, ConcatEmptySeq
    <3> QED
      BY <1>1, <2>2, <3>1 DEF HashedTo
  <2> QED
    BY <2>1, <2>2
<1>3. next.bytes = opened \o <<1>> \o row.string /\ next.prevRoleID = row.role
  BY DEF HashRow
<1> HIDE DEF opened, next
<1>4. opened \in Bytes
  BY <1>2 DEF Hashed
<1>5. Continues(next.bytes, opened, 1, row.string)
  BY <1>1, <1>3, <1>4, ConcatContinues
<1>6. Hashed(next.bytes, P \cup {row}) /\ Under(next.bytes, row.role)
  BY <1>2, <1>5, StringContinues
<1> QED
  BY <1>3, <1>6 DEF HashedTo, next

\* The order of the rows is not needed for this.
LEMMA HashedAll ==
    ASSUME NEW result \in Seq(PairType)
    PROVE  Hashed(Input(result), ToSet(result))
<1> DEFINE n == Len(result)
           C(k) == {result[i] : i \in 1 .. k}
<1>1. n \in Nat /\ DOMAIN result = 1 .. n
  OBVIOUS
<1>2. PICK acc : /\ acc[0] = NoBytes
                 /\ \A k \in 1 .. n : acc[k] = HashRow(acc[k - 1], result[k])
                 /\ Input(result) = acc[n].bytes
  BY HashSteps
<1> DEFINE I(k) == HashedTo(acc[k], C(k))
           S == {k \in 0 .. n : I(k)}
<1>3. 0 \in S
  <2>1. C(0) = {}
    OBVIOUS
  <2>2. acc[0].bytes = <<>> /\ acc[0].prevRoleID = <<>>
    BY <1>2 DEF NoBytes
  <2>3. <<>> \notin Ids
    BY IdsAssumption
  <2>4. Hashed(<<>>, {})
    BY DEF Hashed, Bytes
  <2> HIDE DEF C
  <2>5. I(0)
    BY <2>1, <2>2, <2>3, <2>4 DEF HashedTo
  <2> HIDE DEF I
  <2> QED
    BY <1>1, <2>5
<1>4. ASSUME NEW k \in 0 .. n - 1, k \in S
      PROVE  k + 1 \in S
  <2> DEFINE row == result[k + 1]
  <2>1. I(k) /\ k + 1 \in 1 .. n
    <3> HIDE DEF I
    <3> QED
      BY <1>1, <1>4
  <2>2. C(k + 1) = C(k) \cup {row}
    <3>1. 1 .. k + 1 = (1 .. k) \cup {k + 1}
      OBVIOUS
    <3> QED
      BY <3>1
  <2>3. row \in PairType
    BY <1>1, <2>1
  <2>4. acc[k + 1] = HashRow(acc[k], row)
    <3>1. k + 1 - 1 = k
      OBVIOUS
    <3> HIDE DEF I
    <3> QED
      BY <1>2, <2>1, <3>1
  <2> HIDE DEF C, row
  <2>5. I(k + 1)
    BY <2>1, <2>2, <2>3, <2>4, HashRowContinues
  <2> HIDE DEF I
  <2> QED
    BY <2>1, <2>5
<1>5. I(n)
  <2> HIDE DEF I
  <2>1. \A k \in 0 .. n - 1 : k \in S => k + 1 \in S
    BY <1>4
  <2> HIDE DEF S
  <2>2. 0 .. n \subseteq S
    BY <1>1, <1>3, <2>1, UpTo
  <2> QED
    BY <1>1, <2>2 DEF S
<1>6. C(n) = ToSet(result)
  BY <1>1 DEF ToSet
<1> HIDE DEF C
<1>7. Hashed(acc[n].bytes, C(n))
  BY <1>5 DEF HashedTo
<1>8. Input(result) = acc[n].bytes
  BY <1>2
<1> QED
  BY <1>6, <1>7, <1>8

\* The bytes of any contents can be read back.
LEMMA InputDecodes ==
    ASSUME NEW C \in SUBSET Slot
    PROVE  Decode(HashInput(C)) = Pairs(C)
<1> DEFINE P == Pairs(C)
           result == CHOOSE q \in Sorted(P) : TRUE
<1>1. P \in SUBSET PairType /\ IsFiniteSet(P)
  BY PairsFinite
<1>2. result \in Sorted(P)
  BY <1>1, SortedExists
<1>3. result \in Seq(P) /\ ToSet(result) = P
  BY <1>1, <1>2, Results DEF Sorted
<1>4. HashInput(C) = Input(result)
  BY DEF HashInput, Input, NoBytes
<1> HIDE DEF P, result
<1>5. result \in Seq(PairType)
  BY <1>1, <1>3
<1>6. Hashed(Input(result), P)
  BY <1>3, <1>5, HashedAll
<1> QED
  BY <1>1, <1>4, <1>6, HashedDecodes DEF P

\* What updatePackHash digests tells the roles and strings of the pack, for any
\* ids that keep to the pattern of the routes (packs.go:875), any collation and any
\* number of rows: two packs are digested alike only if they have the same ones.
THEOREM ReadsHashDecodes == Spec => []HashDecodes
<1>1. HandlerTypeOK => HashDecodes
  <2> SUFFICES ASSUME HandlerTypeOK, NEW p \in packs
               PROVE  Decode(HashInput(Of(p))) = Pairs(Of(p))
    BY DEF HashDecodes
  <2>1. Of(p) \in SUBSET Slot
    BY DEF HandlerTypeOK, Of
  <2> QED
    BY <2>1, InputDecodes
<1>2. Spec => []HandlerTypeOK
  BY InitHandlerType, StepHandlerType, PTL DEF Spec
<1> QED
  BY <1>1, <1>2, PTL
=============================================================================
