---------------------------- MODULE HealthCheck ----------------------------
(***************************************************************************)
(* One call of GET /api/health (fwends-backend/api/health.go): three       *)
(* goroutines ask the services and hand their answers to the handler over  *)
(* unbuffered channels, a fourth one waits for the three and then cancels  *)
(* the context that also ends after three seconds.                         *)
(***************************************************************************)
CONSTANT Services       \* postgres, redis and s3

VARIABLES
    check,      \* check[s]: what the goroutine of service s does next
    answer,     \* answer[s]: what the service said
    waiter,     \* the goroutine that waits for the wait group
    context,    \* the context of the checks: why it is done, if it is
    client,     \* whether the client still waits for the response
    handler,    \* what the handler does
    body        \* body[s]: what the response says of service s

vars == <<check, answer, waiter, context, client, handler, body>>

TypeOK ==
    /\ check \in [Services -> {"asking", "sending", "ended"}]
    /\ answer \in [Services -> BOOLEAN]
    /\ waiter \in {"waiting", "ended"}
    /\ context \in {"open", "timeout", "finished"}
    /\ client \in {"waiting", "gone"}
    /\ handler \in {"selecting", "replied", "cancelled"}
    /\ body \in [Services -> BOOLEAN]

Init ==
    /\ check = [s \in Services |-> "asking"]
    /\ answer = [s \in Services |-> FALSE]
    /\ waiter = "waiting"
    /\ context = "open"
    /\ client = "waiting"
    /\ handler = "selecting"
    /\ body = [s \in Services |-> FALSE]

\* Mutant: a check that fails leaves its goroutine without sending.
AskFailsSilently(s) ==
    /\ check[s] = "asking"
    /\ \E a \in BOOLEAN :
          /\ answer' = [answer EXCEPT ![s] = a]
          /\ check' = [check EXCEPT ![s] = IF a THEN "sending" ELSE "failed"]
    /\ UNCHANGED <<waiter, context, client, handler, body>>

\* The service answers or, at the latest when the context is done, the call
\* returns an error, which counts as FALSE.
Ask(s) ==
    /\ check[s] = "asking"
    /\ \E a \in BOOLEAN : answer' = [answer EXCEPT ![s] = a]
    /\ check' = [check EXCEPT ![s] = "sending"]
    /\ UNCHANGED <<waiter, context, client, handler, body>>

\* The channel is unbuffered: the send takes place when the handler's select
\* receives, and the goroutine then tells the wait group it is done.
Receive(s) ==
    /\ handler = "selecting"
    /\ check[s] = "sending"
    /\ body' = [body EXCEPT ![s] = answer[s]]
    /\ check' = [check EXCEPT ![s] = "ended"]
    /\ UNCHANGED <<answer, waiter, context, client, handler>>

Cancel(why) == context' = IF context = "open" THEN why ELSE context

\* Mutant: the wait group counts to one.
WaitForOne ==
    /\ waiter = "waiting"
    /\ \E s \in Services : check[s] = "ended"
    /\ waiter' = "ended"
    /\ Cancel("finished")
    /\ UNCHANGED <<check, answer, client, handler, body>>

\* wg.Wait returned; finish cancels the context.
Wait ==
    /\ waiter = "waiting"
    /\ \A s \in Services : check[s] = "ended"
    /\ waiter' = "ended"
    /\ Cancel("finished")
    /\ UNCHANGED <<check, answer, client, handler, body>>

Timeout ==
    /\ context = "open"
    /\ context' = "timeout"
    /\ UNCHANGED <<check, answer, waiter, client, handler, body>>

\* Mutant: only the wait group makes the handler reply.
ReplyWhenFinished ==
    /\ handler = "selecting"
    /\ context = "finished"
    /\ handler' = "replied"
    /\ UNCHANGED <<check, answer, waiter, context, client, body>>

\* select takes any ready case, so the handler may leave the loop although a
\* goroutine is ready to send.
Reply ==
    /\ handler = "selecting"
    /\ context # "open"
    /\ handler' = "replied"
    /\ UNCHANGED <<check, answer, waiter, context, client, body>>

ClientGone ==
    /\ client = "waiting"
    /\ client' = "gone"
    /\ UNCHANGED <<check, answer, waiter, context, handler, body>>

\* The request was cancelled; the deferred finish cancels the context.
GiveUp ==
    /\ handler = "selecting"
    /\ client = "gone"
    /\ handler' = "cancelled"
    /\ Cancel("finished")
    /\ UNCHANGED <<check, answer, waiter, client, body>>

Next ==
    \/ \E s \in Services : Ask(s) \/ Receive(s)
    \/ Wait \/ Timeout \/ Reply \/ ClientGone \/ GiveUp

Spec == Init /\ [][Next]_vars

\* Goroutines that can run do, calls return once the context is done, and the
\* timer fires. Clients need not leave.
Fairness ==
    /\ \A s \in Services : WF_vars(Ask(s)) /\ WF_vars(Receive(s))
    /\ WF_vars(Wait)
    /\ WF_vars(Timeout)
    /\ WF_vars(Reply \/ GiveUp)

FairSpec == Spec /\ Fairness

-----------------------------------------------------------------------------

\* A response that did not run into the timeout tells what every service
\* answered; one that did never calls a service healthy that is not.
BodyAccurate ==
    handler = "replied" =>
        /\ context = "finished" => body = answer
        /\ \A s \in Services : body[s] => answer[s]

\* The handler always returns.
Returns == <>(handler # "selecting")

\* "create wait group that will call finish when all services have responded"
\* (health.go:37): once every service has responded, the wait ends.
WaitEnds ==
    (\A s \in Services : check[s] # "asking") ~> waiter = "ended"
=============================================================================
