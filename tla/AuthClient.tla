----------------------------- MODULE AuthClient -----------------------------
(***************************************************************************)
(* What the pages of fwends-frontend/src/api/auth.js believe about the     *)
(* session, in several tabs of one browser: each has a flag of its own     *)
(* that answers arriving in any order set, and they share two cookies, the *)
(* session's and one that marks its presence for the script.               *)
(***************************************************************************)
EXTENDS AuthSessions

VARIABLES
    cookie,     \* the session cookie, which the script cannot read
    presence,   \* the cookie fwends_session_presence
    config,     \* config[t]: the promise authConfig of the page in tab t
    flag,       \* flag[t]: authenticatedGlobal
    client,     \* client[t]: the promise googleAuthClient
    view,       \* view[t]: a component that uses useAuthStatus
    shown,      \* shown[t]: its state
    cleared,    \* history: authClear ran, no session was accepted since
    late        \* history: tabs whose GET /api/auth was under way then

vars == <<server, cookie, presence, config, flag, client, view, shown, cleared, late>>

\* A configuration that cannot be fetched stays "pending".
ConfigStages == {"closed", "pending", "known"}

\* While Google's script or the configuration is awaited the promise is "none":
\* nothing can tell it from one that was not asked for.
ClientStages == {"none", "ready", "failed"}

\* "rendered": it took over the flag and its effect has yet to subscribe to
\* updates; "stale", "misled": it missed one, before and after it subscribed.
ViewStages == {"none", "rendered", "stale", "subscribed", "misled"}

TypeOK ==
    /\ SessionsTypeOK
    /\ cookie \in Sessions \cup {None}
    /\ presence \in BOOLEAN
    /\ config \in [Tabs -> ConfigStages]
    /\ flag \in [Tabs -> BOOLEAN]
    /\ client \in [Tabs -> ClientStages]
    /\ view \in [Tabs -> ViewStages]
    /\ shown \in [Tabs -> BOOLEAN]
    /\ cleared \in BOOLEAN
    /\ late \subseteq Tabs

Init ==
    /\ SessionsInit
    /\ cookie = None
    /\ presence = FALSE
    /\ config = [t \in Tabs |-> "closed"]
    /\ flag = [t \in Tabs |-> FALSE]
    /\ client = [t \in Tabs |-> "none"]
    /\ view = [t \in Tabs |-> "none"]
    /\ shown = [t \in Tabs |-> FALSE]
    /\ cleared = FALSE
    /\ late = {}

jar == <<cookie, presence>>
history == <<cleared, late>>

-----------------------------------------------------------------------------
(* Pages come and go.                                                      *)

\* Tabs T start over with the given stage of their configuration, and with
\* them go the answers they were waiting for.
Reset(T, stage, ask) ==
    /\ config' = [t \in Tabs |-> IF t \in T THEN stage ELSE config[t]]
    /\ flag' = [t \in Tabs |-> flag[t] /\ t \notin T]
    /\ client' = [t \in Tabs |-> IF t \in T THEN "none" ELSE client[t]]
    /\ view' = [t \in Tabs |-> IF t \in T THEN "none" ELSE view[t]]
    /\ shown' = [t \in Tabs |-> shown[t] /\ t \notin T]
    /\ verify' = [t \in Tabs |-> IF t \notin T THEN verify[t]
                                 ELSE IF ask THEN "asked" ELSE "none"]
    /\ carried' = [t \in Tabs |-> IF t \notin T THEN carried[t]
                                  ELSE IF ask THEN cookie ELSE None]
    /\ login' = [t \in Tabs |-> IF t \in T THEN "none" ELSE login[t]]
    /\ grant' = [t \in Tabs |-> IF t \in T THEN None ELSE grant[t]]
    /\ vouched' = vouched \ T
    /\ late' = late \ T

\* The module runs: the session is asked for if the presence cookie is there.
Load(t) ==
    /\ Reset({t}, "pending", presence)
    /\ UNCHANGED <<enable, sessions, jar, cleared>>

\* The presence cookie has no expiry, so it ends with the browser; the session
\* cookie stays.
RestartBrowser ==
    /\ \E t \in Tabs : config[t] # "closed"
    /\ Reset(Tabs, "closed", FALSE)
    /\ presence' = FALSE
    /\ UNCHANGED <<enable, sessions, cookie, cleared>>

CookieExpires ==
    /\ cookie # None
    /\ cookie' = None
    /\ UNCHANGED <<server, presence, config, flag, client, view, shown, history>>

-----------------------------------------------------------------------------
(* The flag and the components that show it.                               *)

\* The flag becomes f and an "update" event is dispatched.
Update(t, f) ==
    /\ flag' = [flag EXCEPT ![t] = f]
    /\ shown' = [shown EXCEPT ![t] =
                   IF view[t] \in {"subscribed", "misled"} THEN f ELSE @]
    /\ view' = [view EXCEPT ![t] = CASE @ = "rendered" -> "stale"
                                     [] @ = "misled" -> "subscribed"
                                     [] OTHER -> @]

ConfigArrives(t) ==
    /\ config[t] = "pending"
    /\ config' = [config EXCEPT ![t] = "known"]
    /\ IF enable THEN UNCHANGED <<flag, shown, view>> ELSE Update(t, TRUE)
    /\ UNCHANGED <<server, jar, client, history>>

\* Mutant: any answer counts, as if jsonRequest ignored response.ok.
VerifyArrivesUnchecked(t) ==
    /\ verify[t] \in {"true", "false"}
    /\ verify' = [verify EXCEPT ![t] = "none"]
    /\ IF ~flag[t]
         THEN Update(t, TRUE)
         ELSE UNCHANGED <<flag, shown, view>>
    /\ late' = late \ {t}
    /\ UNCHANGED <<enable, sessions, carried, login, grant, vouched,
                   jar, config, client, cleared>>

VerifyArrives(t) ==
    /\ verify[t] \in {"true", "false"}
    /\ verify' = [verify EXCEPT ![t] = "none"]
    /\ IF ~flag[t] /\ verify[t] = "true"
         THEN Update(t, TRUE)
         ELSE UNCHANGED <<flag, shown, view>>
    /\ late' = late \ {t}
    /\ UNCHANGED <<enable, sessions, carried, login, grant, vouched,
                   jar, config, client, cleared>>

\* A component of the page is mounted; useState takes over the flag.
Render(t) ==
    /\ config[t] # "closed"
    /\ view[t] # "rendered"
    /\ view' = [view EXCEPT ![t] = "rendered"]
    /\ shown' = [shown EXCEPT ![t] = flag[t]]
    /\ UNCHANGED <<server, jar, config, flag, client, history>>

\* Its effect runs.
Subscribe(t) ==
    /\ view[t] \in {"rendered", "stale"}
    /\ view' = [view EXCEPT ![t] = IF @ = "rendered" THEN "subscribed" ELSE "misled"]
    /\ UNCHANGED <<server, jar, config, flag, client, shown, history>>

-----------------------------------------------------------------------------
(* Signing in and out.                                                     *)

\* authPrompt, up to the time Google's script runs and is initialized.
Prompt(t) ==
    /\ ~flag[t]
    /\ client[t] = "none"
    /\ config[t] = "known" /\ enable
    /\ client' = [client EXCEPT ![t] = "ready"]
    /\ UNCHANGED <<server, jar, config, flag, view, shown, history>>

\* The script is not there in time, or there is no configuration, or it rules
\* Google out. The rejected promise is kept until the page is loaded again.
PromptFails(t) ==
    /\ config[t] # "closed"
    /\ ~flag[t]
    /\ client[t] = "none"
    /\ client' = [client EXCEPT ![t] = "failed"]
    /\ UNCHANGED <<server, jar, config, flag, view, shown, history>>

\* Google calls back with a token.
SendCredential(t) ==
    /\ client[t] = "ready"
    /\ login[t] = "none"
    /\ login' = [login EXCEPT ![t] = "sent"]
    /\ UNCHANGED <<enable, sessions, verify, carried, grant, vouched,
                   jar, config, flag, client, view, shown, history>>

StoreCookie(t) ==
    /\ login[t] = "created"
    /\ login' = [login EXCEPT ![t] = "stored"]
    /\ cookie' = grant[t]
    /\ grant' = [grant EXCEPT ![t] = None]
    /\ UNCHANGED <<enable, sessions, verify, carried, vouched,
                   presence, config, flag, client, view, shown, history>>

Accepted(t) ==
    /\ login[t] = "stored"
    /\ login' = [login EXCEPT ![t] = "none"]
    /\ presence' = TRUE
    /\ Update(t, TRUE)
    /\ cleared' = FALSE
    /\ UNCHANGED <<enable, sessions, verify, carried, grant, vouched,
                   cookie, config, client, late>>

\* The request was refused, or its answer is lost.
LoginFails(t) ==
    /\ login[t] # "none"
    /\ login' = [login EXCEPT ![t] = "none"]
    /\ grant' = [grant EXCEPT ![t] = None]
    /\ UNCHANGED <<enable, sessions, verify, carried, vouched,
                   jar, config, flag, client, view, shown, history>>

\* What authClear does to the history of this model.
NoteClear ==
    /\ cleared' = TRUE
    /\ late' = {t \in Tabs : verify[t] # "none"}

\* Mutant: the presence cookie stays.
ClearKeepsPresence(t) ==
    /\ shown[t] /\ config[t] = "known" /\ enable
    /\ Update(t, FALSE)
    /\ NoteClear
    /\ UNCHANGED <<server, jar, config, client>>

\* Mutant: no update event is dispatched.
ClearSilently(t) ==
    /\ shown[t] /\ config[t] = "known" /\ enable
    /\ presence' = FALSE
    /\ flag' = [flag EXCEPT ![t] = FALSE]
    /\ NoteClear
    /\ UNCHANGED <<server, cookie, config, client, view, shown>>

\* authClear, behind a button that a component shows. The session lives on.
Clear(t) ==
    /\ shown[t] /\ config[t] = "known" /\ enable
    /\ presence' = FALSE
    /\ Update(t, FALSE)
    /\ NoteClear
    /\ UNCHANGED <<server, cookie, config, client>>

-----------------------------------------------------------------------------

TabStep(t) ==
    \/ Load(t) \/ ConfigArrives(t) \/ VerifyArrives(t)
    \/ Render(t) \/ Subscribe(t)
    \/ Prompt(t) \/ PromptFails(t)
    \/ SendCredential(t) \/ StoreCookie(t) \/ Accepted(t) \/ LoginFails(t)
    \/ Clear(t)

browser == <<jar, config, flag, client, view, shown, history>>

Next ==
    \/ \E t \in Tabs : TabStep(t) \/ (ServerStep(t) /\ UNCHANGED browser)
    \/ \E s \in Sessions : Expire(s) /\ UNCHANGED browser
    \/ RestartBrowser
    \/ CookieExpires

Spec == Init /\ [][Next]_vars

-----------------------------------------------------------------------------
(* Properties.                                                             *)

\* A page takes itself for authenticated only if authentication is off or the
\* backend vouched for a session, to this very page, since it was loaded.
FlagJustified == \A t \in Tabs : flag[t] => ~enable \/ t \in vouched

\* After authClear the session lives on in Redis and its cookie in the browser,
\* yet no tab becomes authenticated again, reloaded or not, before a new sign-in
\* is accepted; the one exception is a tab whose request to verify the session
\* was under way at that time (auth.js:13).
ClearSticks ==
    [][\A t \in Tabs \ late : cleared /\ cleared' /\ flag'[t] => flag[t]]_vars

\* A component shows the flag unless it was mounted and updated before its
\* effect subscribed it (auth.js:93), after which it is wrong until the next
\* update.
ShownIsFlag ==
    \A t \in Tabs : view[t] \in {"rendered", "subscribed"} => shown[t] = flag[t]
=============================================================================
