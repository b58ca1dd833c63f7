-------------------------- MODULE AuthClient_proofs --------------------------
(***************************************************************************)
(* The safety of AuthClient for any number of tabs and sessions.           *)
(***************************************************************************)
EXTENDS AuthClient, TLAPS

\* An answer that will set the flag was given for a live session.
VouchedOK ==
    \A t \in Tabs : verify[t] = "true" \/ login[t] \in {"created", "stored"} => t \in vouched

JustifiedInv == FlagJustified /\ VouchedOK

\* What authClear leaves behind: nothing makes a page ask again, and nobody is
\* waiting for an answer but the tabs that were waiting then.
ClearedOK ==
    cleared => enable /\ ~presence /\ \A t \in Tabs \ late : verify[t] = "none"

\* The initial states are of the right type.
LEMMA InitType == Init => TypeOK
<1> SUFFICES ASSUME Init PROVE TypeOK
  OBVIOUS
<1>1. SessionsTypeOK
  BY DEF Init, SessionsInit, SessionsTypeOK, VerifyStages, LoginStages
<1>2. flag \in [Tabs -> BOOLEAN] /\ shown \in [Tabs -> BOOLEAN]
  BY DEF Init
<1> QED
  BY <1>1, <1>2 DEF Init, TypeOK, ConfigStages, ClientStages, ViewStages

\* Every step keeps the types.
LEMMA StepType == TypeOK /\ [Next]_vars => TypeOK'
<1> SUFFICES ASSUME TypeOK, [Next]_vars PROVE TypeOK'
  OBVIOUS
<1> USE DEF TypeOK, SessionsTypeOK, VerifyStages, LoginStages, ConfigStages, ClientStages, ViewStages
<1>1. ASSUME NEW t \in Tabs, Load(t) PROVE TypeOK'
  BY <1>1 DEF Load, Reset, history, jar
<1>2. ASSUME NEW t \in Tabs, ConfigArrives(t) PROVE TypeOK'
  BY <1>2 DEF ConfigArrives, Update, history, jar, server
<1>3. ASSUME NEW t \in Tabs, VerifyArrives(t) PROVE TypeOK'
  BY <1>3 DEF VerifyArrives, Update, jar
<1>4. ASSUME NEW t \in Tabs, Render(t) PROVE TypeOK'
  BY <1>4 DEF Render, server, jar, history
<1>5. ASSUME NEW t \in Tabs, Subscribe(t) PROVE TypeOK'
  BY <1>5 DEF Subscribe, server, jar, history
<1>6. ASSUME NEW t \in Tabs, Prompt(t) PROVE TypeOK'
  BY <1>6 DEF Prompt, server, jar, history
<1>7. ASSUME NEW t \in Tabs, PromptFails(t) PROVE TypeOK'
  BY <1>7 DEF PromptFails, server, jar, history
<1>8. ASSUME NEW t \in Tabs, SendCredential(t) PROVE TypeOK'
  BY <1>8 DEF SendCredential, jar, history
<1>9. ASSUME NEW t \in Tabs, StoreCookie(t) PROVE TypeOK'
  BY <1>9 DEF StoreCookie, history
<1>10. ASSUME NEW t \in Tabs, Accepted(t) PROVE TypeOK'
  BY <1>10 DEF Accepted, Update
<1>11. ASSUME NEW t \in Tabs, LoginFails(t) PROVE TypeOK'
  BY <1>11 DEF LoginFails, jar, history
<1>12. ASSUME NEW t \in Tabs, Clear(t) PROVE TypeOK'
  BY <1>12 DEF Clear, Update, NoteClear, server
<1>13. ASSUME NEW t \in Tabs, AuthVerify(t), UNCHANGED browser PROVE TypeOK'
  <2>1. CASE carried[t] \in sessions
    BY <1>13, <2>1 DEF AuthVerify, AnswerVerify, browser, jar, history
  <2>2. CASE carried[t] \notin sessions
    BY <1>13, <2>2 DEF AuthVerify, AnswerVerify, browser, jar, history
  <2> QED
    BY <2>1, <2>2
<1>14. ASSUME NEW t \in Tabs, VerifyFails(t), UNCHANGED browser PROVE TypeOK'
  BY <1>14 DEF VerifyFails, AnswerVerify, browser, jar, history
<1>15. ASSUME NEW t \in Tabs, CheckAdmin(t), UNCHANGED browser PROVE TypeOK'
  BY <1>15 DEF CheckAdmin, AnswerLogin, browser, jar, history
<1>16. ASSUME NEW t \in Tabs, CreateSession(t), UNCHANGED browser PROVE TypeOK'
  BY <1>16 DEF CreateSession, AnswerLogin, browser, jar, history
<1>17. ASSUME NEW t \in Tabs, CreateFails(t), UNCHANGED browser PROVE TypeOK'
  BY <1>17 DEF CreateFails, AnswerLogin, browser, jar, history
<1>18. ASSUME NEW s \in Sessions, Expire(s), UNCHANGED browser PROVE TypeOK'
  BY <1>18 DEF Expire, browser, jar, history
<1>19. ASSUME RestartBrowser PROVE TypeOK'
  BY <1>19 DEF RestartBrowser, Reset, jar, history
<1>20. ASSUME CookieExpires PROVE TypeOK'
  BY <1>20 DEF CookieExpires, server, jar, history
<1>21. ASSUME UNCHANGED vars PROVE TypeOK'
  BY <1>21 DEF vars, server, jar, history
<1> QED
  BY <1>1, <1>2, <1>3, <1>4, <1>5, <1>6, <1>7, <1>8, <1>9, <1>10, <1>11,
     <1>12, <1>13, <1>14, <1>15, <1>16, <1>17, <1>18, <1>19, <1>20, <1>21
  DEF Next, TabStep, ServerStep

\* Every variable keeps its type.
THEOREM AuthTypeOK == Spec => []TypeOK
  BY InitType, StepType, PTL DEF Spec

\* A flag is set only by an answer that was given for a live session.
LEMMA StepJustified == TypeOK /\ JustifiedInv /\ [Next]_vars => JustifiedInv'
<1> SUFFICES ASSUME TypeOK, JustifiedInv, [Next]_vars PROVE JustifiedInv'
  OBVIOUS
<1> USE DEF JustifiedInv, FlagJustified, VouchedOK, TypeOK, SessionsTypeOK, VerifyStages, LoginStages, ConfigStages, ClientStages, ViewStages
<1>1. ASSUME NEW t \in Tabs, Load(t) PROVE JustifiedInv'
  BY <1>1 DEF Load, Reset, history, jar
<1>2. ASSUME NEW t \in Tabs, ConfigArrives(t) PROVE JustifiedInv'
  BY <1>2 DEF ConfigArrives, Update, history, jar, server
<1>3. ASSUME NEW t \in Tabs, VerifyArrives(t) PROVE JustifiedInv'
  BY <1>3 DEF VerifyArrives, Update, jar
<1>4. ASSUME NEW t \in Tabs, Render(t) PROVE JustifiedInv'
  BY <1>4 DEF Render, server, jar, history
<1>5. ASSUME NEW t \in Tabs, Subscribe(t) PROVE JustifiedInv'
  BY <1>5 DEF Subscribe, server, jar, history
<1>6. ASSUME NEW t \in Tabs, Prompt(t) PROVE JustifiedInv'
  BY <1>6 DEF Prompt, server, jar, history
<1>7. ASSUME NEW t \in Tabs, PromptFails(t) PROVE JustifiedInv'
  BY <1>7 DEF PromptFails, server, jar, history
<1>8. ASSUME NEW t \in Tabs, SendCredential(t) PROVE JustifiedInv'
  BY <1>8 DEF SendCredential, jar, history
<1>9. ASSUME NEW t \in Tabs, StoreCookie(t) PROVE JustifiedInv'
  BY <1>9 DEF StoreCookie, history
<1>10. ASSUME NEW t \in Tabs, Accepted(t) PROVE JustifiedInv'
  BY <1>10 DEF Accepted, Update
<1>11. ASSUME NEW t \in Tabs, LoginFails(t) PROVE JustifiedInv'
  BY <1>11 DEF LoginFails, jar, history
<1>12. ASSUME NEW t \in Tabs, Clear(t) PROVE JustifiedInv'
  BY <1>12 DEF Clear, Update, NoteClear, server
<1>13. ASSUME NEW t \in Tabs, AuthVerify(t), UNCHANGED browser PROVE JustifiedInv'
  <2>1. CASE carried[t] \in sessions
    BY <1>13, <2>1 DEF AuthVerify, AnswerVerify, browser, jar, history
  <2>2. CASE carried[t] \notin sessions
    BY <1>13, <2>2 DEF AuthVerify, AnswerVerify, browser, jar, history
  <2> QED
    BY <2>1, <2>2
<1>14. ASSUME NEW t \in Tabs, VerifyFails(t), UNCHANGED browser PROVE JustifiedInv'
  BY <1>14 DEF VerifyFails, AnswerVerify, browser, jar, history
<1>15. ASSUME NEW t \in Tabs, CheckAdmin(t), UNCHANGED browser PROVE JustifiedInv'
  BY <1>15 DEF CheckAdmin, AnswerLogin, browser, jar, history
<1>16. ASSUME NEW t \in Tabs, CreateSession(t), UNCHANGED browser PROVE JustifiedInv'
  BY <1>16 DEF CreateSession, AnswerLogin, browser, jar, history
<1>17. ASSUME NEW t \in Tabs, CreateFails(t), UNCHANGED browser PROVE JustifiedInv'
  BY <1>17 DEF CreateFails, AnswerLogin, browser, jar, history
<1>18. ASSUME NEW s \in Sessions, Expire(s), UNCHANGED browser PROVE JustifiedInv'
  BY <1>18 DEF Expire, browser, jar, history
<1>19. ASSUME RestartBrowser PROVE JustifiedInv'
  BY <1>19 DEF RestartBrowser, Reset, jar, history
<1>20. ASSUME CookieExpires PROVE JustifiedInv'
  BY <1>20 DEF CookieExpires, server, jar, history
<1>21. ASSUME UNCHANGED vars PROVE JustifiedInv'
  BY <1>21 DEF vars, server, jar, history
<1> QED
  BY <1>1, <1>2, <1>3, <1>4, <1>5, <1>6, <1>7, <1>8, <1>9, <1>10, <1>11,
     <1>12, <1>13, <1>14, <1>15, <1>16, <1>17, <1>18, <1>19, <1>20, <1>21
  DEF Next, TabStep, ServerStep

\* No page takes itself for authenticated unless the backend vouched for a
\* session to it since it was loaded (auth.js:14, :66), or authentication is off.
THEOREM AuthFlagJustified == Spec => []FlagJustified
<1>1. Init => JustifiedInv
  BY DEF Init, SessionsInit, JustifiedInv, FlagJustified, VouchedOK
<1>2. JustifiedInv => FlagJustified
  BY DEF JustifiedInv
<1> QED
  BY <1>1, <1>2, AuthTypeOK, StepJustified, PTL DEF Spec

\* Only an accepted sign-in lets a page ask again.
LEMMA StepCleared == TypeOK /\ ClearedOK /\ [Next]_vars => ClearedOK'
<1> SUFFICES ASSUME TypeOK, ClearedOK, [Next]_vars PROVE ClearedOK'
  OBVIOUS
<1> USE DEF ClearedOK, TypeOK, SessionsTypeOK, VerifyStages, LoginStages, ConfigStages, ClientStages, ViewStages
<1>1. ASSUME NEW t \in Tabs, Load(t) PROVE ClearedOK'
  BY <1>1 DEF Load, Reset, history, jar
<1>2. ASSUME NEW t \in Tabs, ConfigArrives(t) PROVE ClearedOK'
  BY <1>2 DEF ConfigArrives, Update, history, jar, server
<1>3. ASSUME NEW t \in Tabs, VerifyArrives(t) PROVE ClearedOK'
  BY <1>3 DEF VerifyArrives, Update, jar
<1>4. ASSUME NEW t \in Tabs, Render(t) PROVE ClearedOK'
  BY <1>4 DEF Render, server, jar, history
<1>5. ASSUME NEW t \in Tabs, Subscribe(t) PROVE ClearedOK'
  BY <1>5 DEF Subscribe, server, jar, history
<1>6. ASSUME NEW t \in Tabs, Prompt(t) PROVE ClearedOK'
  BY <1>6 DEF Prompt, server, jar, history
<1>7. ASSUME NEW t \in Tabs, PromptFails(t) PROVE ClearedOK'
  BY <1>7 DEF PromptFails, server, jar, history
<1>8. ASSUME NEW t \in Tabs, SendCredential(t) PROVE ClearedOK'
  BY <1>8 DEF SendCredential, jar, history
<1>9. ASSUME NEW t \in Tabs, StoreCookie(t) PROVE ClearedOK'
  BY <1>9 DEF StoreCookie, history
<1>10. ASSUME NEW t \in Tabs, Accepted(t) PROVE ClearedOK'
  BY <1>10 DEF Accepted, Update
<1>11. ASSUME NEW t \in Tabs, LoginFails(t) PROVE ClearedOK'
  BY <1>11 DEF LoginFails, jar, history
<1>12. ASSUME NEW t \in Tabs, Clear(t) PROVE ClearedOK'
  BY <1>12 DEF Clear, Update, NoteClear, server
<1>13. ASSUME NEW t \in Tabs, AuthVerify(t), UNCHANGED browser PROVE ClearedOK'
  BY <1>13 DEF AuthVerify, AnswerVerify, browser, jar, history
<1>14. ASSUME NEW t \in Tabs, VerifyFails(t), UNCHANGED browser PROVE ClearedOK'
  BY <1>14 DEF VerifyFails, AnswerVerify, browser, jar, history
<1>15. ASSUME NEW t \in Tabs, CheckAdmin(t), UNCHANGED browser PROVE ClearedOK'
  BY <1>15 DEF CheckAdmin, AnswerLogin, browser, jar, history
<1>16. ASSUME NEW t \in Tabs, CreateSession(t), UNCHANGED browser PROVE ClearedOK'
  BY <1>16 DEF CreateSession, AnswerLogin, browser, jar, history
<1>17. ASSUME NEW t \in Tabs, CreateFails(t), UNCHANGED browser PROVE ClearedOK'
  BY <1>17 DEF CreateFails, AnswerLogin, browser, jar, history
<1>18. ASSUME NEW s \in Sessions, Expire(s), UNCHANGED browser PROVE ClearedOK'
  BY <1>18 DEF Expire, browser, jar, history
<1>19. ASSUME RestartBrowser PROVE ClearedOK'
  BY <1>19 DEF RestartBrowser, Reset, jar, history
<1>20. ASSUME CookieExpires PROVE ClearedOK'
  BY <1>20 DEF CookieExpires, server, jar, history
<1>21. ASSUME UNCHANGED vars PROVE ClearedOK'
  BY <1>21 DEF vars, server, jar, history
<1> QED
  BY <1>1, <1>2, <1>3, <1>4, <1>5, <1>6, <1>7, <1>8, <1>9, <1>10, <1>11,
     <1>12, <1>13, <1>14, <1>15, <1>16, <1>17, <1>18, <1>19, <1>20, <1>21
  DEF Next, TabStep, ServerStep

Sticks == \A t \in Tabs \ late : cleared /\ cleared' /\ flag'[t] => flag[t]

\* After authClear only a late answer, or a sign-in, sets a flag.
LEMMA StepSticks == TypeOK /\ ClearedOK /\ [Next]_vars => Sticks
<1> SUFFICES ASSUME TypeOK, ClearedOK, [Next]_vars PROVE Sticks
  OBVIOUS
<1> USE DEF Sticks, ClearedOK, TypeOK, SessionsTypeOK, VerifyStages, LoginStages, ConfigStages, ClientStages, ViewStages
<1>1. ASSUME NEW t \in Tabs, Load(t) PROVE Sticks
  BY <1>1 DEF Load, Reset, history, jar
<1>2. ASSUME NEW t \in Tabs, ConfigArrives(t) PROVE Sticks
  BY <1>2 DEF ConfigArrives, Update, history, jar, server
<1>3. ASSUME NEW t \in Tabs, VerifyArrives(t) PROVE Sticks
  BY <1>3 DEF VerifyArrives, Update, jar
<1>4. ASSUME NEW t \in Tabs, Render(t) PROVE Sticks
  BY <1>4 DEF Render, server, jar, history
<1>5. ASSUME NEW t \in Tabs, Subscribe(t) PROVE Sticks
  BY <1>5 DEF Subscribe, server, jar, history
<1>6. ASSUME NEW t \in Tabs, Prompt(t) PROVE Sticks
  BY <1>6 DEF Prompt, server, jar, history
<1>7. ASSUME NEW t \in Tabs, PromptFails(t) PROVE Sticks
  BY <1>7 DEF PromptFails, server, jar, history
<1>8. ASSUME NEW t \in Tabs, SendCredential(t) PROVE Sticks
  BY <1>8 DEF SendCredential, jar, history
<1>9. ASSUME NEW t \in Tabs, StoreCookie(t) PROVE Sticks
  BY <1>9 DEF StoreCookie, history
<1>10. ASSUME NEW t \in Tabs, Accepted(t) PROVE Sticks
  BY <1>10 DEF Accepted, Update
<1>11. ASSUME NEW t \in Tabs, LoginFails(t) PROVE Sticks
  BY <1>11 DEF LoginFails, jar, history
<1>12. ASSUME NEW t \in Tabs, Clear(t) PROVE Sticks
  BY <1>12 DEF Clear, Update, NoteClear, server
<1>13. ASSUME NEW t \in Tabs, AuthVerify(t), UNCHANGED browser PROVE Sticks
  BY <1>13 DEF AuthVerify, AnswerVerify, browser, jar, history
<1>14. ASSUME NEW t \in Tabs, VerifyFails(t), UNCHANGED browser PROVE Sticks
  BY <1>14 DEF VerifyFails, AnswerVerify, browser, jar, history
<1>15. ASSUME NEW t \in Tabs, CheckAdmin(t), UNCHANGED browser PROVE Sticks
  BY <1>15 DEF CheckAdmin, AnswerLogin, browser, jar, history
<1>16. ASSUME NEW t \in Tabs, CreateSession(t), UNCHANGED browser PROVE Sticks
  BY <1>16 DEF CreateSession, AnswerLogin, browser, jar, history
<1>17. ASSUME NEW t \in Tabs, CreateFails(t), UNCHANGED browser PROVE Sticks
  BY <1>17 DEF CreateFails, AnswerLogin, browser, jar, history
<1>18. ASSUME NEW s \in Sessions, Expire(s), UNCHANGED browser PROVE Sticks
  BY <1>18 DEF Expire, browser, jar, history
<1>19. ASSUME RestartBrowser PROVE Sticks
  BY <1>19 DEF RestartBrowser, Reset, jar, history
<1>20. ASSUME CookieExpires PROVE Sticks
  BY <1>20 DEF CookieExpires, server, jar, history
<1>21. ASSUME UNCHANGED vars PROVE Sticks
  BY <1>21 DEF vars, server, jar, history
<1> QED
  BY <1>1, <1>2, <1>3, <1>4, <1>5, <1>6, <1>7, <1>8, <1>9, <1>10, <1>11,
     <1>12, <1>13, <1>14, <1>15, <1>16, <1>17, <1>18, <1>19, <1>20, <1>21
  DEF Next, TabStep, ServerStep

\* After authClear no tab becomes authenticated again before a new sign-in, but
\* one that was waiting for its session to be verified (auth.js:13, :72).
THEOREM AuthClearSticks == Spec => ClearSticks
<1>1. Init => ClearedOK
  BY DEF Init, ClearedOK
<1>2. TypeOK /\ ClearedOK /\ [Next]_vars =>
        [\A t \in Tabs \ late : cleared /\ cleared' /\ flag'[t] => flag[t]]_vars
  BY StepSticks DEF Sticks
<1> QED
  BY <1>1, <1>2, AuthTypeOK, StepCleared, PTL DEF Spec, ClearSticks

\* An update reaches every component that has subscribed.
LEMMA UpdateShown ==
  ASSUME TypeOK, ShownIsFlag, NEW t \in Tabs, NEW f \in BOOLEAN, Update(t, f)
  PROVE  ShownIsFlag'
<1> SUFFICES ASSUME NEW u \in Tabs, view'[u] \in {"rendered", "subscribed"}
             PROVE  shown'[u] = flag'[u]
  BY DEF ShownIsFlag
<1>1. CASE u = t
  <2>1. view[t] \in {"subscribed", "misled"}
    BY <1>1 DEF Update, TypeOK, ViewStages
  <2> QED
    BY <1>1, <2>1 DEF Update, TypeOK
<1>2. CASE u # t
  BY <1>2 DEF Update, TypeOK, ShownIsFlag
<1> QED
  BY <1>1, <1>2

\* A step updates flag and component together, or marks the component.
LEMMA StepShown == TypeOK /\ ShownIsFlag /\ [Next]_vars => ShownIsFlag'
<1> SUFFICES ASSUME TypeOK, ShownIsFlag, [Next]_vars PROVE ShownIsFlag'
  OBVIOUS
<1> USE DEF ShownIsFlag, TypeOK, SessionsTypeOK, VerifyStages, LoginStages, ConfigStages, ClientStages, ViewStages
<1>1. ASSUME NEW t \in Tabs, Load(t) PROVE ShownIsFlag'
  BY <1>1 DEF Load, Reset, history, jar
<1>2. ASSUME NEW t \in Tabs, ConfigArrives(t) PROVE ShownIsFlag'
  <2>1. CASE enable
    BY <1>2, <2>1 DEF ConfigArrives
  <2>2. CASE ~enable
    BY <1>2, <2>2, UpdateShown DEF ConfigArrives
  <2> QED
    BY <2>1, <2>2
<1>3. ASSUME NEW t \in Tabs, VerifyArrives(t) PROVE ShownIsFlag'
  <2>1. CASE ~flag[t] /\ verify[t] = "true"
    BY <1>3, <2>1, UpdateShown DEF VerifyArrives
  <2>2. CASE ~(~flag[t] /\ verify[t] = "true")
    BY <1>3, <2>2 DEF VerifyArrives
  <2> QED
    BY <2>1, <2>2
<1>4. ASSUME NEW t \in Tabs, Render(t) PROVE ShownIsFlag'
  BY <1>4 DEF Render, server, jar, history
<1>5. ASSUME NEW t \in Tabs, Subscribe(t) PROVE ShownIsFlag'
  BY <1>5 DEF Subscribe, server, jar, history
<1>6. ASSUME NEW t \in Tabs, Prompt(t) PROVE ShownIsFlag'
  BY <1>6 DEF Prompt, server, jar, history
<1>7. ASSUME NEW t \in Tabs, PromptFails(t) PROVE ShownIsFlag'
  BY <1>7 DEF PromptFails, server, jar, history
<1>8. ASSUME NEW t \in Tabs, SendCredential(t) PROVE ShownIsFlag'
  BY <1>8 DEF SendCredential, jar, history
<1>9. ASSUME NEW t \in Tabs, StoreCookie(t) PROVE ShownIsFlag'
  BY <1>9 DEF StoreCookie, history
<1>10. ASSUME NEW t \in Tabs, Accepted(t) PROVE ShownIsFlag'
  BY <1>10, UpdateShown DEF Accepted
<1>11. ASSUME NEW t \in Tabs, LoginFails(t) PROVE ShownIsFlag'
  BY <1>11 DEF LoginFails, jar, history
<1>12. ASSUME NEW t \in Tabs, Clear(t) PROVE ShownIsFlag'
  BY <1>12, UpdateShown DEF Clear
<1>13. ASSUME NEW t \in Tabs, AuthVerify(t), UNCHANGED browser PROVE ShownIsFlag'
  BY <1>13 DEF AuthVerify, AnswerVerify, browser, jar, history
<1>14. ASSUME NEW t \in Tabs, VerifyFails(t), UNCHANGED browser PROVE ShownIsFlag'
  BY <1>14 DEF VerifyFails, AnswerVerify, browser, jar, history
<1>15. ASSUME NEW t \in Tabs, CheckAdmin(t), UNCHANGED browser PROVE ShownIsFlag'
  BY <1>15 DEF CheckAdmin, AnswerLogin, browser, jar, history
<1>16. ASSUME NEW t \in Tabs, CreateSession(t), UNCHANGED browser PROVE ShownIsFlag'
  BY <1>16 DEF CreateSession, AnswerLogin, browser, jar, history
<1>17. ASSUME NEW t \in Tabs, CreateFails(t), UNCHANGED browser PROVE ShownIsFlag'
  BY <1>17 DEF CreateFails, AnswerLogin, browser, jar, history
<1>18. ASSUME NEW s \in Sessions, Expire(s), UNCHANGED browser PROVE ShownIsFlag'
  BY <1>18 DEF Expire, browser, jar, history
<1>19. ASSUME RestartBrowser PROVE ShownIsFlag'
  BY <1>19 DEF RestartBrowser, Reset, jar, history
<1>20. ASSUME CookieExpires PROVE ShownIsFlag'
  BY <1>20 DEF CookieExpires, server, jar, history
<1>21. ASSUME UNCHANGED vars PROVE ShownIsFlag'
  BY <1>21 DEF vars, server, jar, history
<1> QED
  BY <1>1, <1>2, <1>3, <1>4, <1>5, <1>6, <1>7, <1>8, <1>9, <1>10, <1>11,
     <1>12, <1>13, <1>14, <1>15, <1>16, <1>17, <1>18, <1>19, <1>20, <1>21
  DEF Next, TabStep, ServerStep

\* A component shows the flag unless an update fell between its first rendering
\* and its effect (auth.js:93).
THEOREM AuthShownIsFlag == Spec => []ShownIsFlag
<1>1. Init => ShownIsFlag
  BY DEF Init, ShownIsFlag
<1> QED
  BY <1>1, AuthTypeOK, StepShown, PTL DEF Spec
=============================================================================
