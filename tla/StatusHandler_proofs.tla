------------------------ MODULE StatusHandler_proofs ------------------------
(***************************************************************************)
(* The properties of StatusHandler, for any set of statuses and a handler  *)
(* that may do anything, any number of times.                              *)
(***************************************************************************)
EXTENDS StatusHandler, TLAPS

Early == {"handler", "logging", "compare", "select"}
Late == {"finish", "done"}

\* Who has used the writer so far: the handler until the default response
\* begins, and that begins only if the handler did not use it.
WriterOK ==
    /\ pc \in Early => HeaderWritten = wrote /\ "default" \notin body
    /\ pc \in {"defaultHeader", "defaultBody"} =>
          ~wrote /\ HeaderWritten = (pc = "defaultBody")
    /\ ~wrote => "handler" \notin body
    /\ pc \in {"defaultHeader", "defaultBody"} => body = {}
    /\ wrote => HeaderWritten /\ wire # Unset /\ wire = StatusWritten

\* What the response will be, once it is decided.
DecidedOK ==
    /\ pc = "defaultBody" => wire = status
    /\ pc \in Late /\ ~wrote =>
          \/ wire = status /\ body = {"default"}
          \/ ~connected /\ wire = (IF pc = "done" THEN OK ELSE Unset) /\ body = {}
    /\ wrote => "default" \notin body
    /\ wrote /\ pc \in {"select"} \cup Late => status = StatusWritten \/ "mismatch" \in log
    /\ "mismatch" \in log => wrote /\ status # StatusWritten /\ pc \in {"select"} \cup Late

\* The inductive invariant.
WrapInv == WrapTypeOK /\ StatusCaptured /\ WriterOK /\ DecidedOK

\* It holds initially.
LEMMA InitWrapInv == WrapInit => WrapInv
  BY StatusesAssumption
  DEF WrapInit, WrapInv, WrapTypeOK, Stages, StatusCaptured, WriterOK, DecidedOK, Early, Late,
      Unset, OK

\* Every step of the handler and of the wrappers keeps it.
LEMMA StepWrapInv == WrapInv /\ [WrapNext]_wrapVars => WrapInv'
<1> SUFFICES ASSUME WrapInv, [WrapNext]_wrapVars PROVE WrapInv'
  OBVIOUS
<1> USE StatusesAssumption
    DEF WrapInv, WrapTypeOK, Stages, StatusCaptured, WriterOK, DecidedOK, Early, Late, response
<1>1. CASE HandlerWrites
  <2>1. CASE Write("handler")
    BY <1>1, <2>1 DEF HandlerWrites, Write, Send
  <2>2. ASSUME NEW s \in Statuses, WriteHeader(s) PROVE WrapInv'
    BY <1>1, <2>2 DEF HandlerWrites, WriteHeader, Send
  <2> QED
    BY <1>1, <2>1, <2>2 DEF HandlerWrites
<1>2. ASSUME NEW s \in Statuses, HandlerReturns(s) PROVE WrapInv'
  BY <1>2 DEF HandlerReturns
<1>3. CASE LogResult
  BY <1>3 DEF LogResult
<1>4. CASE Compare
  BY <1>4 DEF Compare
<1>5. CASE Select
  BY <1>5 DEF Select
<1>6. CASE DefaultHeader
  BY <1>6 DEF DefaultHeader, WriteHeader, Send
<1>7. CASE DefaultBody
  BY <1>7 DEF DefaultBody, Write, Send
<1>8. CASE Finish
  BY <1>8 DEF Finish, Send
<1>9. CASE Disconnect
  BY <1>9 DEF Disconnect
<1>10. CASE UNCHANGED wrapVars
  BY <1>10 DEF wrapVars
<1> QED
  BY <1>1, <1>2, <1>3, <1>4, <1>5, <1>6, <1>7, <1>8, <1>9, <1>10 DEF WrapNext, HandlerStep, WrapperStep

\* It always holds.
LEMMA InvariantWrapInv == Wrapped => []WrapInv
  BY InitWrapInv, StepWrapInv, PTL DEF Wrapped

\* What the wrapper captured is what the client gets, as long as the handler
\* and the wrappers run (status_handler.go:84, :92).
THEOREM WrappedCaptured == Wrapped => []StatusCaptured
<1>1. WrapInv => StatusCaptured
  BY DEF WrapInv
<1> QED
  BY <1>1, InvariantWrapInv, PTL

\* The response is the handler's own or else the default one, never a mixture
\* and never the server's, unless the client left (status_handler.go:43).
THEOREM WrappedResponded == Wrapped => []Responded
<1>1. WrapInv => Responded
  BY DEF WrapInv, WriterOK, DecidedOK, Responded, Late
<1> QED
  BY <1>1, InvariantWrapInv, PTL

\* The logged status is the one the client got, or the log tells of the
\* difference, unless the client left (status_handler.go:27).
THEOREM WrappedLogTells == Wrapped => []LogTells
<1>1. WrapInv => LogTells
  BY DEF WrapInv, WriterOK, DecidedOK, LogTells, Late
<1> QED
  BY <1>1, InvariantWrapInv, PTL
=============================================================================
