---------------------------- MODULE StatusHandler ----------------------------
(***************************************************************************)
(* The wrappers of fwends-backend/handler around any handler: what a       *)
(* response is made of when the writes of the handler, the status it       *)
(* returns and a client that leaves disagree. One request; main.go wraps   *)
(* LoggingHandler around the handler and StatusHandler around both. Here   *)
(* the handler may call its writer and return in any way, which takes in   *)
(* staticHandler and errorHandler; PackReads puts GET in its place.        *)
(***************************************************************************)
EXTENDS Naturals

CONSTANT Statuses   \* HTTP status codes

OK == 200
Unset == 0

ASSUME StatusesAssumption == OK \in Statuses /\ Unset \notin Statuses

VARIABLES
    pc,             \* what runs next
    wrote,          \* history: the handler called its response writer
    status,         \* the status it returned
    HeaderWritten, StatusWritten,   \* responseWriterCapture
    wire,           \* the status the server sends
    body,           \* whose content the response carries
    connected,      \* the request's context is not done
    log             \* what the wrappers wrote to the log

response == <<HeaderWritten, StatusWritten, wire, body>>
wrapVars == <<pc, wrote, status, response, connected, log>>

Stages == {"handler", "logging", "compare", "select",
           "defaultHeader", "defaultBody", "finish", "done"}

WrapTypeOK ==
    /\ pc \in Stages
    /\ wrote \in BOOLEAN
    /\ status \in IF pc = "handler" THEN {Unset} ELSE Statuses
    /\ HeaderWritten \in BOOLEAN
    /\ {StatusWritten, wire} \subseteq Statuses \cup {Unset}
    /\ body \subseteq {"handler", "default"}
    /\ connected \in BOOLEAN
    /\ log \subseteq {"mismatch", "rewritten", "cancelled"}

WrapInit ==
    /\ pc = "handler"
    /\ wrote = FALSE
    /\ status = Unset
    /\ HeaderWritten = FALSE
    /\ StatusWritten = Unset
    /\ wire = Unset
    /\ body = {}
    /\ connected = TRUE
    /\ log = {}

-----------------------------------------------------------------------------
(* The response writer.                                                    *)

\* net/http: the first status stays.
Send(s) == wire' = IF wire = Unset THEN s ELSE wire

Write(author) ==
    /\ StatusWritten' = IF HeaderWritten THEN StatusWritten ELSE OK
    /\ HeaderWritten' = TRUE
    /\ Send(OK)
    /\ body' = body \cup {author}
    /\ UNCHANGED log

\* Mutant: the status that came last is captured.
WriteHeaderAgain(s) ==
    /\ StatusWritten' = s
    /\ log' = IF HeaderWritten THEN log \cup {"rewritten"} ELSE log
    /\ HeaderWritten' = TRUE
    /\ Send(s)
    /\ UNCHANGED body

WriteHeader(s) ==
    /\ StatusWritten' = IF HeaderWritten THEN StatusWritten ELSE s
    /\ log' = IF HeaderWritten THEN log \cup {"rewritten"} ELSE log
    /\ HeaderWritten' = TRUE
    /\ Send(s)
    /\ UNCHANGED body

-----------------------------------------------------------------------------
(* The handler, which may do anything with the writer it was given.        *)

\* staticHandler writes a body and leaves its status to the return value.
HandlerWrites ==
    /\ pc = "handler"
    /\ wrote' = TRUE
    /\ \/ Write("handler")
       \/ \E s \in Statuses : WriteHeader(s)
    /\ UNCHANGED <<pc, status, connected>>

\* Mutant: an error handler that leaves out its status.
HandlerReturnsUnset(s) ==
    /\ pc = "handler"
    /\ status' = Unset
    /\ pc' = "logging"
    /\ UNCHANGED <<wrote, response, connected, log>>

HandlerReturns(s) ==
    /\ pc = "handler"
    /\ status' = s
    /\ pc' = "logging"
    /\ UNCHANGED <<wrote, response, connected, log>>

HandlerStep == HandlerWrites \/ \E s \in Statuses : HandlerReturns(s)

-----------------------------------------------------------------------------
(* The wrappers.                                                           *)

LogResult ==
    /\ pc = "logging"
    /\ pc' = "compare"
    /\ log' = IF connected THEN log ELSE log \cup {"cancelled"}
    /\ UNCHANGED <<wrote, status, response, connected>>

Compare ==
    /\ pc = "compare"
    /\ pc' = "select"
    /\ log' = IF HeaderWritten /\ status # StatusWritten
                THEN log \cup {"mismatch"} ELSE log
    /\ UNCHANGED <<wrote, status, response, connected>>

\* Mutant: a default response follows every response.
SelectAlways ==
    /\ pc = "select"
    /\ pc' = IF connected THEN "defaultHeader" ELSE "finish"
    /\ UNCHANGED <<wrote, status, response, connected, log>>

Select ==
    /\ pc = "select"
    /\ pc' = IF connected /\ ~HeaderWritten THEN "defaultHeader" ELSE "finish"
    /\ UNCHANGED <<wrote, status, response, connected, log>>

\* Mutant: the body before the status.
DefaultHeaderLate ==
    /\ pc = "defaultHeader"
    /\ pc' = "defaultBody"
    /\ Write("default")
    /\ UNCHANGED <<wrote, status, connected>>

DefaultHeader ==
    /\ pc = "defaultHeader"
    /\ pc' = "defaultBody"
    /\ WriteHeader(status)
    /\ UNCHANGED <<wrote, status, connected>>

DefaultBody ==
    /\ pc = "defaultBody"
    /\ pc' = "finish"
    /\ Write("default")
    /\ UNCHANGED <<wrote, status, connected>>

\* net/http ends a response that nobody began with an empty 200.
Finish ==
    /\ pc = "finish"
    /\ pc' = "done"
    /\ Send(OK)
    /\ UNCHANGED <<wrote, status, HeaderWritten, StatusWritten, body, connected, log>>

\* The client closes its side of the connection; it may go on to read.
Disconnect ==
    /\ pc # "done" /\ connected
    /\ connected' = FALSE
    /\ UNCHANGED <<pc, wrote, status, response, log>>

WrapperStep ==
    \/ LogResult \/ Compare \/ Select
    \/ DefaultHeader \/ DefaultBody \/ Finish
    \/ Disconnect

WrapNext == HandlerStep \/ WrapperStep

Wrapped == WrapInit /\ [][WrapNext]_wrapVars

-----------------------------------------------------------------------------
(* Properties.                                                             *)

\* Until the server takes over, what the wrapper captured is what the client
\* gets, however the handler mixes and repeats its calls (status_handler.go:84).
StatusCaptured ==
    pc # "done" => /\ StatusWritten = wire
                   /\ HeaderWritten <=> wire # Unset

\* A response is the handler's or, if it made none, the default one with the
\* status it returned; never the one after the other, whenever the client leaves.
\* The empty 200 of the server is for clients only that are gone
\* (status_handler.go:36, :43).
Responded ==
    pc = "done" =>
        IF wrote
          THEN wire = StatusWritten /\ "default" \notin body
          ELSE \/ wire = status /\ body = {"default"}
               \/ ~connected /\ wire = OK /\ body = {}

\* The log reports a mismatch only if the status that LoggingHandler logged is
\* not the one that was sent, and always if a client that stays was sent
\* another one, however often the handler wrote (status_handler.go:26).
LogTells ==
    pc = "done" =>
        /\ "mismatch" \in log => status # wire
        /\ connected /\ status # wire => "mismatch" \in log
=============================================================================
