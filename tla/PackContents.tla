---------------------------- MODULE PackContents ----------------------------
(***************************************************************************)
(* What packs.go computes from the rows of pack_resources: the bytes that  *)
(* updatePackHash digests, the roles that getPackResources groups, and the *)
(* counts of ListPacks. Ids of roles and strings are sequences of bytes.   *)
(***************************************************************************)
EXTENDS SequencesExt

CONSTANTS
    Packs,
    Collation,  \* the ids of roles and strings, as the database sorts them
    None        \* no resource

Separators == {0, 1}
Dash == 45

Ids == ToSet(Collation)

\* ^[a-z0-9_]{1,63}$ (packs.go:875)
ASSUME IdsAssumption ==
    /\ Collation \in Seq(Seq(0 .. 255)) /\ IsInjective(Collation)
    /\ \A x \in Ids : x # <<>> /\ ToSet(x) \cap (Separators \cup {Dash}) = {}

Classes == {"audio", "image"}

\* A resource is named by the slot that refers to it, which is its only one.
Slot == [pack : Packs, role : Ids, string : Ids, class : Classes]

Roles(C) == {s.role : s \in C}
Pairs(C) == {[role |-> s.role, string |-> s.string] : s \in C}

-----------------------------------------------------------------------------
(* ORDER BY role_id, string_id                                             *)

Position(x) == CHOOSE i \in DOMAIN Collation : Collation[i] = x

Before(a, b) ==
    \/ Position(a.role) < Position(b.role)
    \/ a.role = b.role /\ Position(a.string) < Position(b.string)

\* The results that Postgres may return for the rows R.
Sorted(R) ==
    {q \in SetToSeqs(R) : \A i, j \in DOMAIN q : i < j => ~Before(q[j], q[i])}

-----------------------------------------------------------------------------
(* updatePackHash                                                          *)

\* Mutant: roles and strings are separated alike.
HashRowAlike(acc, row) ==
    [bytes |-> acc.bytes
                 \o (IF row.role # acc.prevRoleID THEN <<1>> \o row.role ELSE <<>>)
                 \o <<1>> \o row.string,
     prevRoleID |-> row.role]

HashRow(acc, row) ==
    [bytes |-> acc.bytes
                 \o (IF row.role # acc.prevRoleID THEN <<0>> \o row.role ELSE <<>>)
                 \o <<1>> \o row.string,
     prevRoleID |-> row.role]

\* SELECT DISTINCT leaves one order.
HashInput(C) ==
    LET rows == CHOOSE q \in Sorted(Pairs(C)) : TRUE IN
    FoldLeft(HashRow, [bytes |-> <<>>, prevRoleID |-> <<>>], rows).bytes

-----------------------------------------------------------------------------
(* getPackResources                                                        *)

NewString(id) == [id |-> id, audio |-> None, image |-> None]

NewRole(row) == [id |-> row.role, strings |-> <<NewString(row.string)>>]

AddString(roles, row) ==
    [roles EXCEPT ![Len(roles)].strings = Append(@, NewString(row.string))]

\* Mutant: a row of the same role always opens a string.
OpenAlways(acc, row) ==
    IF row.role # acc.prevRoleID THEN Append(acc.roles, NewRole(row))
                                 ELSE AddString(acc.roles, row)

Open(acc, row) ==
    CASE row.role # acc.prevRoleID -> Append(acc.roles, NewRole(row))
      [] row.role = acc.prevRoleID /\ row.string # acc.prevStringID ->
             AddString(acc.roles, row)
      [] OTHER -> acc.roles

\* The row's resource goes to the last string of the last role.
AddRow(acc, row) ==
    LET roles == Open(acc, row)
        last == Len(roles)
    IN [roles |-> [roles EXCEPT ![last].strings[Len(roles[last].strings)] =
                     IF row.class = "audio" THEN [@ EXCEPT !.audio = row]
                                            ELSE [@ EXCEPT !.image = row]],
        prevRoleID |-> row.role,
        prevStringID |-> row.string]

View(rows) ==
    FoldLeft(AddRow, [roles |-> <<>>, prevRoleID |-> <<>>, prevStringID |-> <<>>], rows).roles

-----------------------------------------------------------------------------
(* ListPacks                                                               *)

\* COUNT(DISTINCT role_id), COUNT(DISTINCT role_id || '-' || string_id)
Summary(p, C) ==
    [id |-> p,
     roleCount |-> Cardinality(Roles(C)),
     stringCount |-> Cardinality({s.role \o <<Dash>> \o s.string : s \in C})]

-----------------------------------------------------------------------------
(* Reference definitions.                                                  *)

\* What the bytes say: every 1 is followed by a string, whose role follows the
\* last 0 before it.
Decode(bytes) ==
    LET IdAfter(i) ==
          LET end == SelectInSubSeq(bytes, i + 1, Len(bytes), LAMBDA b : b \in Separators)
          IN SubSeq(bytes, i + 1, IF end = 0 THEN Len(bytes) ELSE end - 1)
    IN {[role |-> IdAfter(SelectLastInSubSeq(bytes, 1, i, LAMBDA b : b = 0)),
         string |-> IdAfter(i)] : i \in {j \in DOMAIN bytes : bytes[j] = 1}}

\* The ids are those of S, each once.
Lists(seq, S) == {x.id : x \in ToSet(seq)} = S /\ Len(seq) = Cardinality(S)

\* The roles show exactly the slots C of pack p: every role once, every string
\* once under its role, every resource in its place.
Shows(roles, p, C) ==
    /\ Lists(roles, Roles(C))
    /\ \A r \in ToSet(roles) :
          /\ Lists(r.strings, {s.string : s \in {x \in C : x.role = r.id}})
          /\ \A str \in ToSet(r.strings) :
                LET Resource(class) ==
                      LET s == [pack |-> p, role |-> r.id, string |-> str.id, class |-> class]
                      IN IF s \in C THEN s ELSE None
                IN str.audio = Resource("audio") /\ str.image = Resource("image")
=============================================================================
