----------------------------- MODULE PackReads -----------------------------
(***************************************************************************)
(* One request inside the wrappers of StatusHandler (main.go:33): GET of   *)
(* the list of packs or of one pack, from the rows that Postgres returns   *)
(* to the response that the client gets, or any other route, whose handler *)
(* may do what it likes with its writer. The database does not change:     *)
(* each of the two reads one snapshot (PackTransactions).                  *)
(***************************************************************************)
EXTENDS PackContents, StatusHandler

CONSTANTS
    List,       \* what a request for the list asks for, in place of a pack
    Other,      \* and what a request for any other route does
    Lossy,      \* whether the connection to Postgres may break between rows
    MaxRows     \* bound: rows of pack_resources

NotFound == 404
InternalServerError == 500

ASSUME ReadsAssumption ==
    /\ {NotFound, InternalServerError} \subseteq Statuses
    /\ {List, Other} \cap Packs = {} /\ List # Other /\ IsFiniteSet(Packs)
    /\ Lossy \in BOOLEAN

VARIABLES
    packs,      \* packs that exist
    contents,   \* the rows of pack_resources
    asked,      \* the pack asked for, List or Other
    stage,      \* how far a handler of packs.go got
    rows,       \* the result it iterates over
    read,       \* how many rows it has taken from it
    reply       \* the body it wrote

handler == <<packs, contents, asked, stage, rows, read, reply>>
vars == <<wrapVars, handler>>

Of(p) == {s \in contents : s.pack = p}

TypeOK ==
    /\ WrapTypeOK
    /\ packs \subseteq Packs
    /\ contents \subseteq Slot /\ {s.pack : s \in contents} \subseteq packs
    /\ asked \in Packs \cup {List, Other}
    /\ stage \in {"query", "rows", "body", "end"}
    /\ ToSet(rows) \subseteq IF asked = List THEN packs ELSE contents
    /\ read \in 0 .. Len(rows)
    /\ reply # None => "handler" \in body

\* What another route answers does not depend on these rows: it has none.
Init ==
    /\ WrapInit
    /\ packs \in SUBSET Packs
    /\ asked \in Packs \cup {List, Other}
    /\ \E n \in 0 .. MaxRows :
          contents \in kSubset(n, {s \in Slot : s.pack \in packs})
    /\ asked = Other => contents = {}
    /\ stage = "query"
    /\ rows = <<>>
    /\ read = 0
    /\ reply = None

\* rows.Next returns false although there is a row: its context is done, or the
\* connection broke. Nobody looks at rows.Err.
EndsEarly == ~connected \/ Lossy

Fetch(result) ==
    /\ stage' = "rows"
    /\ rows' = result
    /\ UNCHANGED <<wrapVars, packs, contents, asked, read, reply>>

QueryPacks ==
    /\ pc = "handler" /\ stage = "query" /\ asked = List
    /\ \E result \in SetToSeqs(packs) : Fetch(result)

\* getPackDetails finds the pack, the query of getPackResources follows.
QueryPack ==
    /\ pc = "handler" /\ stage = "query" /\ asked \in packs
    /\ \E result \in Sorted(Of(asked)) : Fetch(result)

Return(s) ==
    /\ HandlerReturns(s)
    /\ stage' = "end"
    /\ UNCHANGED <<packs, contents, asked, rows, read, reply>>

\* Mutant: every error of getPackDetails counts as a missing pack.
PackNotFoundAlways ==
    /\ stage = "query" /\ asked \in Packs
    /\ Return(NotFound)

PackNotFound ==
    /\ stage = "query" /\ asked \in Packs
    /\ asked \in packs => EndsEarly
    /\ Return(NotFound)

\* A query or rows.Scan reports an error.
Fails ==
    /\ stage \in {"query", "rows"} /\ asked # Other
    /\ Return(InternalServerError)

NextRow ==
    /\ pc = "handler" /\ stage = "rows" /\ read < Len(rows)
    /\ read' = read + 1
    /\ UNCHANGED <<wrapVars, packs, contents, asked, stage, rows, reply>>

RowsEnd ==
    /\ pc = "handler" /\ stage = "rows"
    /\ read < Len(rows) => EndsEarly
    /\ stage' = "body"
    /\ UNCHANGED <<wrapVars, packs, contents, asked, rows, read, reply>>

Body ==
    LET taken == SubSeq(rows, 1, read) IN
    IF asked = List THEN [i \in DOMAIN taken |-> Summary(taken[i], Of(taken[i]))]
                    ELSE View(taken)

Encode ==
    /\ pc = "handler" /\ stage = "body"
    /\ Write("handler")
    /\ wrote' = TRUE
    /\ reply' = Body
    /\ stage' = "end"
    /\ UNCHANGED <<pc, status, connected, packs, contents, asked, rows, read>>

ReturnOK == stage = "end" /\ Return(OK)

\* The handler of another route.
OtherHandler == asked = Other /\ HandlerStep /\ UNCHANGED handler

Next ==
    \/ QueryPacks \/ QueryPack \/ PackNotFound \/ Fails
    \/ NextRow \/ RowsEnd \/ Encode \/ ReturnOK
    \/ OtherHandler
    \/ WrapperStep /\ UNCHANGED handler

Spec == Init /\ [][Next]_vars

-----------------------------------------------------------------------------
(* Properties.                                                             *)

\* The list names every pack once, with as many roles and strings as GET of
\* that pack shows.
ListWhole ==
    /\ Lists(reply, packs)
    /\ \A x \in ToSet(reply) :
          /\ x.roleCount = Cardinality(Roles(Of(x.id)))
          /\ x.stringCount = Cardinality(Pairs(Of(x.id)))

\* A client who is still there was answered 200.
GotOK == pc = "done" /\ connected /\ wire = OK

\* A 200 to GET of one pack shows every slot of the pack in its place: a
\* transaction is used "to ensure consistent state" (packs.go:159), and the hash
\* that is sent along describes the roles.
PackReplyWhole == GotOK /\ asked \in Packs => Shows(reply, asked, Of(asked))

\* A 200 carries everything that was stored, to GET of one pack and of the list
\* (packs.go:79).
ReplyWhole ==
    /\ GotOK /\ asked = List => ListWhole
    /\ PackReplyWhole

\* A 404 that reaches a client who is still there is about a pack that does not
\* exist, although an error and a missing row look alike to rows.Next
\* (packs.go:197).
NotFoundMeant == pc = "done" /\ connected /\ wire = NotFound => asked \notin packs

\* The bytes that updatePackHash digests can be read back (packs.go:832), so
\* contents that differ in a role or a string differ in what is digested;
\* PackStore takes the digest for the set of pairs.
HashDecodes == \A p \in packs : Decode(HashInput(Of(p))) = Pairs(Of(p))
=============================================================================
