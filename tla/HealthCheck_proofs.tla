------------------------- MODULE HealthCheck_proofs -------------------------
(***************************************************************************)
(* What GET /api/health tells of the services is what they answered, for   *)
(* any number of services.                                                 *)
(***************************************************************************)
EXTENDS HealthCheck, TLAPS

\* Until the handler has received from a service it calls it unhealthy, then
\* it repeats what the service said.
Received(s) == IF check[s] = "ended" THEN body[s] = answer[s] ELSE ~body[s]

\* Two things finish the context: the wait group, when every send was received,
\* and the handler that gives up, which does not reply.
Finished ==
    context = "finished" /\ handler # "cancelled" => \A s \in Services : check[s] = "ended"

HealthInv ==
    /\ TypeOK
    /\ \A s \in Services : Received(s)
    /\ Finished

LEMMA HealthInitInv == Init => HealthInv
  BY DEF Init, HealthInv, TypeOK, Received, Finished

LEMMA HealthStepInv == HealthInv /\ [Next]_vars => HealthInv'
<1> SUFFICES ASSUME HealthInv, [Next]_vars
             PROVE  HealthInv'
  OBVIOUS
<1> USE DEF HealthInv, TypeOK, Received, Finished
<1>1. ASSUME NEW s \in Services, Ask(s)
      PROVE  HealthInv'
  <2>1. PICK a \in BOOLEAN : answer' = [answer EXCEPT ![s] = a]
    BY <1>1 DEF Ask
  <2>2. TypeOK'
    BY <1>1, <2>1 DEF Ask
  <2>3. \A x \in Services : Received(x)'
    BY <1>1, <2>1 DEF Ask
  <2>4. Finished'
    BY <1>1 DEF Ask
  <2> QED
    BY <2>2, <2>3, <2>4
<1>2. ASSUME NEW s \in Services, Receive(s)
      PROVE  HealthInv'
  <2>1. TypeOK'
    BY <1>2 DEF Receive
  <2>2. \A x \in Services : Received(x)'
    BY <1>2 DEF Receive
  <2>3. Finished'
    BY <1>2 DEF Receive
  <2> QED
    BY <2>1, <2>2, <2>3
<1>3. CASE Wait
  BY <1>3 DEF Wait, Cancel
<1>4. CASE Timeout
  BY <1>4 DEF Timeout
<1>5. CASE Reply
  BY <1>5 DEF Reply
<1>6. CASE ClientGone
  BY <1>6 DEF ClientGone
<1>7. CASE GiveUp
  BY <1>7 DEF GiveUp, Cancel
<1>8. CASE UNCHANGED vars
  BY <1>8 DEF vars
<1> QED
  BY <1>1, <1>2, <1>3, <1>4, <1>5, <1>6, <1>7, <1>8 DEF Next

LEMMA HealthAlwaysInv == Spec => []HealthInv
  BY HealthInitInv, HealthStepInv, PTL DEF Spec

\* Goroutines, context and handler are in the states they are thought to have.
THEOREM HealthTypeOK == Spec => []TypeOK
<1>1. HealthInv => TypeOK
  BY DEF HealthInv
<1> QED
  BY <1>1, HealthAlwaysInv, PTL

\* Whatever order answers, timeout and select come in, a response to
\* GET /api/health never calls a service healthy that is not, and it is complete
\* if the wait group ended the wait.
THEOREM HealthBodyAccurate == Spec => []BodyAccurate
<1>1. HealthInv => BodyAccurate
  <2> SUFFICES ASSUME HealthInv, handler = "replied"
               PROVE  /\ context = "finished" => body = answer
                      /\ \A s \in Services : body[s] => answer[s]
    BY DEF BodyAccurate
  <2>1. \A s \in Services : body[s] => answer[s]
    BY DEF HealthInv, Received
  <2>2. ASSUME context = "finished"
        PROVE  body = answer
    <3>1. \A s \in Services : body[s] = answer[s]
      BY <2>2 DEF HealthInv, Received, Finished
    <3> QED
      BY <3>1 DEF HealthInv, TypeOK
  <2> QED
    BY <2>1, <2>2
<1> QED
  BY <1>1, HealthAlwaysInv, PTL
=============================================================================
