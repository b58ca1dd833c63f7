---------------------------- MODULE AuthSessions ----------------------------
(***************************************************************************)
(* Sessions as fwends-backend/api/auth.go keeps them in Redis: POST        *)
(* /api/auth creates one for an admin, GET /api/auth looks one up, Redis   *)
(* forgets it when its time to live is over. The requests come from the    *)
(* tabs of one browser, which is in AuthClient.                            *)
(***************************************************************************)
CONSTANTS
    Tabs,       \* tabs of the browser that show the application
    Sessions,   \* session ids
    None        \* no session

ASSUME NoSessionAssumption == None \notin Sessions

VARIABLES
    enable,     \* cfg.Auth.Enable
    sessions,   \* session ids that have a key in Redis
    verify,     \* verify[t]: how far GET /api/auth of tab t got
    carried,    \* carried[t]: the session cookie sent with it
    login,      \* login[t]: how far POST /api/auth of tab t got
    grant,      \* grant[t]: the session created by it
    vouched     \* history: tabs whose page was told of a session that is live

server == <<enable, sessions, verify, carried, login, grant, vouched>>

\* "true" and "false" are answers on their way to the tab. An error counts as
\* "false": jsonRequest throws on it, which has the same effect.
VerifyStages == {"none", "asked", "true", "false"}

\* "admin": the token was verified and its email is in table admins;
\* "created": the response, with its Set-Cookie, is on its way to the browser;
\* "stored": the browser stored the cookie and has yet to tell the page. A
\* refusal is not a stage: all the page does with it is to log it.
LoginStages == {"none", "sent", "admin", "created", "stored"}

SessionsTypeOK ==
    /\ enable \in BOOLEAN
    /\ sessions \subseteq Sessions
    /\ verify \in [Tabs -> VerifyStages]
    /\ carried \in [Tabs -> Sessions \cup {None}]
    /\ login \in [Tabs -> LoginStages]
    /\ grant \in [Tabs -> Sessions \cup {None}]
    /\ vouched \subseteq Tabs

SessionsInit ==
    /\ enable \in BOOLEAN
    /\ sessions = {}
    /\ verify = [t \in Tabs |-> "none"]
    /\ carried = [t \in Tabs |-> None]
    /\ login = [t \in Tabs |-> "none"]
    /\ grant = [t \in Tabs |-> None]
    /\ vouched = {}

AnswerVerify(t, answer) ==
    /\ verify[t] = "asked"
    /\ verify' = [verify EXCEPT ![t] = answer]
    /\ carried' = [carried EXCEPT ![t] = None]
    /\ UNCHANGED <<enable, sessions, login, grant>>

AuthVerify(t) ==
    /\ enable
    /\ IF carried[t] \in sessions
         THEN AnswerVerify(t, "true") /\ vouched' = vouched \cup {t}
         ELSE AnswerVerify(t, "false") /\ UNCHANGED vouched

\* Redis or the network fails, or authentication is not enabled.
VerifyFails(t) == AnswerVerify(t, "false") /\ UNCHANGED vouched

AnswerLogin(t, answer) ==
    /\ login' = [login EXCEPT ![t] = answer]
    /\ UNCHANGED <<enable, verify, carried>>

\* The token is Google's, its email is verified and belongs to an admin, or
\* one of these is not so.
CheckAdmin(t) ==
    /\ login[t] = "sent"
    /\ \/ enable /\ AnswerLogin(t, "admin")
       \/ AnswerLogin(t, "none")
    /\ UNCHANGED <<sessions, grant, vouched>>

\* Mutant: an id that could not be drawn is used all the same.
CreateSessionAnyId(t) ==
    /\ login[t] = "admin"
    /\ \E s \in (Sessions \cup {None}) \ sessions :
          /\ sessions' = sessions \cup {s}
          /\ grant' = [grant EXCEPT ![t] = s]
    /\ vouched' = vouched \cup {t}
    /\ AnswerLogin(t, "created")

\* SETNX with a random id.
CreateSession(t) ==
    /\ login[t] = "admin"
    /\ \E s \in Sessions \ sessions :
          /\ sessions' = sessions \cup {s}
          /\ grant' = [grant EXCEPT ![t] = s]
    /\ vouched' = vouched \cup {t}
    /\ AnswerLogin(t, "created")

\* The id is taken, or Redis reports an error, done or not.
CreateFails(t) ==
    /\ login[t] = "admin"
    /\ \/ UNCHANGED sessions
       \/ \E s \in Sessions : sessions' = sessions \cup {s}
    /\ AnswerLogin(t, "none")
    /\ UNCHANGED <<grant, vouched>>

\* The time to live is over, or Redis was restarted and lost the key.
Expire(s) ==
    /\ s \in sessions
    /\ sessions' = sessions \ {s}
    /\ UNCHANGED <<enable, verify, carried, login, grant, vouched>>

ServerStep(t) ==
    \/ AuthVerify(t) \/ VerifyFails(t)
    \/ CheckAdmin(t) \/ CreateSession(t) \/ CreateFails(t)
=============================================================================
