------------------------------ MODULE Sessions ------------------------------
(***************************************************************************)
(* Signing in and out: the tabs of one browser (AuthContext and the API    *)
(* client of apps/dashboard-web), which share the session cookie but each  *)
(* keep a CSRF token of their own, and the API's session middleware, CSRF  *)
(* check and authentication routes (apps/dashboard-api).                   *)
(*                                                                         *)
(* The API loads a copy of the session when a request comes in and saves   *)
(* it, when the handler has changed it, after the handler is done; the     *)
(* response sets the cookie again.  One user has an account.  Session ids  *)
(* and CSRF tokens are random in the code; here a number that nothing      *)
(* holds is taken, which is as good as a fresh one.                        *)
(***************************************************************************)
EXTENDS Integers, FiniteSets

CONSTANTS
  Tabs,        \* the tabs of the browser
  MaxCalls,    \* number of times the user does something
  MaxLosses    \* number of requests or responses that get lost, and of
               \* sessions that expire

ASSUME SessionsAssumption ==
  MaxCalls \in Nat /\ MaxLosses \in Nat /\ IsFiniteSet(Tabs)

VARIABLES
  cookie,   \* the browser's session id, 0 when it has none
  rows,     \* the session table: id -> [user, csrf]
  tab,      \* the tabs' programs
  call,     \* the tabs' requests
  upsets    \* budget used by calls and losses, and what has happened

sVars == <<cookie, rows, tab, call, upsets>>

Doings == {"boot", "login", "logout", "act"}
NoSession == [user |-> FALSE, csrf |-> 0]
Idle == [phase |-> "none", kind |-> "none", sid |-> 0, header |-> 0,
         session |-> NoSession, known |-> FALSE, answer |-> "none", value |-> 0]

\* One of the numbers up to k + 1 is none of k numbers.
NotTaken(held) == CHOOSE n \in 1..(Cardinality(held) + 1) : n \notin held

NewSid == NotTaken(DOMAIN rows \cup {cookie} \cup {call[t].sid : t \in Tabs})
NewToken == NotTaken({rows[s].csrf : s \in DOMAIN rows} \cup {tab[t].token : t \in Tabs}
              \cup {call[t].header : t \in Tabs} \cup {call[t].value : t \in Tabs}
              \cup {call[t].session.csrf : t \in Tabs})

WithRow(sid, row) == [s \in DOMAIN rows \cup {sid} |->
                        IF s = sid THEN row ELSE rows[s]]
WithoutRow(sid) == [s \in DOMAIN rows \ {sid} |-> rows[s]]

\* The session that the browser's next request would find.
LoggedIn == cookie \in DOMAIN rows /\ rows[cookie].user

(***************************************************************************)
(* The tab.  do is what the user has asked for, stage how far request() of *)
(* the client is with it: its first try, its second after a refusal for    *)
(* the CSRF token, or the new token after a login.  ran counts how often   *)
(* the API has carried out the action; alone, that no one else has been at *)
(* work since.  Both are for the model alone.                              *)
(***************************************************************************)
NewTab(shown) == [token |-> 0, shown |-> shown, do |-> "none", stage |-> "first",
                  ran |-> 0, alone |-> FALSE]

\* The page has been loaded in every tab, by a user who is signed in or not:
\* each has a token, of which one is the session's.
SInit ==
  /\ cookie = 1
  /\ call = [t \in Tabs |-> Idle]
  /\ upsets = [calls |-> 0, losses |-> 0, mixed |-> FALSE]
  /\ \E in \in BOOLEAN :
       /\ rows = [s \in {1} |-> [user |-> in, csrf |-> 1]]
       /\ tab = [t \in Tabs |-> [NewTab(in) EXCEPT
                                   !.token = IF t = (CHOOSE o \in Tabs : TRUE)
                                             THEN 1 ELSE 2]]

\* Only this tab does anything: what follows is not disturbed by another.
Quiet(t) == \A o \in Tabs \ {t} : tab[o].do = "none"

\* The user loads the page, signs in or out, or asks for something else, when
\* the tab waits for nothing.
Begin(t, what) ==
  /\ upsets.calls < MaxCalls
  /\ tab[t].do = "none"
  /\ what = "login" => ~tab[t].shown
  /\ what \in {"logout", "act"} => tab[t].shown
  /\ tab' = [o \in Tabs |->
       IF o = t
       THEN [NewTab(what # "boot" /\ tab[t].shown) EXCEPT
               !.token = IF what \in {"boot", "logout"} THEN 0 ELSE tab[t].token,
               !.do = what, !.alone = Quiet(t)]
       ELSE [tab[o] EXCEPT !.alone = FALSE]]
  /\ upsets' = [upsets EXCEPT !.calls = @ + 1, !.mixed = @ \/ ~Quiet(t)]
  /\ UNCHANGED <<cookie, rows, call>>

\* The request the tab makes next: the token first, when it needs one that
\* it does not have.  Signing out asks for none on its first try, but the
\* retry gets one, and does not use it.
NeedsToken(t) ==
  /\ tab[t].token = 0
  /\ tab[t].do = "logout" => tab[t].stage = "second"

Main == [boot |-> "me", login |-> "login", logout |-> "logout", act |-> "act"]

Send(t) ==
  /\ tab[t].do # "none"
  /\ call[t].phase = "none"
  /\ call' = [call EXCEPT ![t] =
       [Idle EXCEPT !.phase = "sent", !.sid = cookie,
                    !.kind = IF NeedsToken(t) THEN "csrf" ELSE Main[tab[t].do],
                    !.header = IF NeedsToken(t) \/ tab[t].do \in {"boot", "logout"}
                               THEN 0 ELSE tab[t].token]]
  /\ UNCHANGED <<cookie, rows, tab, upsets>>

(***************************************************************************)
(* The API.  The session middleware copies the row when the request comes  *)
(* in, or makes a new session when there is none.  Load is that step for   *)
(* the two handlers that write the session back, or replace it, later; the *)
(* others are done with the copy they get.                                 *)
(***************************************************************************)
Copy(t) ==
  IF call[t].sid \in DOMAIN rows
  THEN [call[t] EXCEPT !.known = TRUE, !.session = rows[call[t].sid]]
  ELSE [call[t] EXCEPT !.sid = NewSid]

\* requireCsrf, for every method but GET
CsrfValid(c) == c.header # 0 /\ c.header = c.session.csrf

Refusal(c) ==
  IF c.kind \in {"login", "logout", "act"} /\ ~CsrfValid(c) THEN "csrf"
  ELSE IF c.kind \in {"act", "me"} /\ ~c.session.user THEN "anonymous"
  ELSE "none"

Answer(c, answer, value) ==
  [phase |-> "answered", kind |-> c.kind, sid |-> c.sid, header |-> 0,
   session |-> NoSession, known |-> FALSE, answer |-> answer, value |-> value]

\* A response sets the cookie when the session is stored, not else: sid is 0.
\* Every sign-out ends here: the client sends it without a token, so that the
\* route itself, which destroys the session, is never come to.
Refuse(t) ==
  /\ call[t].phase = "sent"
  /\ Refusal(Copy(t)) # "none"
  /\ call' = [call EXCEPT ![t] =
       [Answer(Copy(t), Refusal(Copy(t)), 0)
          EXCEPT !.sid = IF Copy(t).known THEN @ ELSE 0]]
  /\ UNCHANGED <<cookie, rows, tab, upsets>>

Allowed(t, kind) ==
  call[t].phase = "sent" /\ call[t].kind = kind /\ Refusal(Copy(t)) = "none"

Load(t) ==
  /\ Allowed(t, "csrf") \/ Allowed(t, "login")
  /\ call' = [call EXCEPT ![t] = [Copy(t) EXCEPT !.phase = "loaded",
                                                 !.header = 0]]
  /\ UNCHANGED <<cookie, rows, tab, upsets>>

Loaded(t, kind) == call[t].phase = "loaded" /\ call[t].kind = kind

GetCsrf(t) ==
  /\ Loaded(t, "csrf")
  /\ rows' = WithRow(call[t].sid, [call[t].session EXCEPT !.csrf = NewToken])
  /\ call' = [call EXCEPT ![t] = Answer(call[t], "ok", NewToken)]
  /\ UNCHANGED <<cookie, tab, upsets>>

\* mutant: the session the request came with is kept
LogInKept(t) ==
  /\ Loaded(t, "login")
  /\ rows' = WithRow(call[t].sid, [user |-> TRUE, csrf |-> 0])
  /\ call' = [call EXCEPT ![t] = Answer(call[t], "ok", 0)]
  /\ UNCHANGED <<cookie, tab, upsets>>

\* mutant: the user is set on the session that regenerate then destroys
LogInEarly(t) ==
  /\ Loaded(t, "login")
  /\ LET sid == NewSid
     IN /\ rows' = [s \in (DOMAIN rows \ {call[t].sid}) \cup {sid} |->
                      IF s = sid THEN NoSession ELSE rows[s]]
        /\ call' = [call EXCEPT ![t] =
                      [Answer(call[t], "ok", 0) EXCEPT !.sid = sid]]
  /\ UNCHANGED <<cookie, tab, upsets>>

\* The password is right: regenerate destroys the session and makes another.
LogIn(t) ==
  /\ Loaded(t, "login")
  /\ LET sid == NewSid
     IN /\ rows' = [s \in (DOMAIN rows \ {call[t].sid}) \cup {sid} |->
                      IF s = sid THEN [user |-> TRUE, csrf |-> 0] ELSE rows[s]]
        /\ call' = [call EXCEPT ![t] =
                      [Answer(call[t], "ok", 0) EXCEPT !.sid = sid]]
  /\ UNCHANGED <<cookie, tab, upsets>>

WrongPassword(t) ==
  /\ Loaded(t, "login")
  /\ call' = [call EXCEPT ![t] = Answer(call[t], "anonymous", 0)]
  /\ UNCHANGED <<cookie, rows, tab, upsets>>

Me(t) ==
  /\ Allowed(t, "me")
  /\ call' = [call EXCEPT ![t] = Answer(Copy(t), "ok", 0)]
  /\ UNCHANGED <<cookie, rows, tab, upsets>>

\* Any other route that changes something for a signed-in user.
Act(t) ==
  /\ Allowed(t, "act")
  /\ tab' = [tab EXCEPT ![t].ran = @ + 1]
  /\ call' = [call EXCEPT ![t] = Answer(Copy(t), "ok", 0)]
  /\ UNCHANGED <<cookie, rows, upsets>>

Lose(t) ==
  /\ call[t].phase \in {"sent", "answered"}
  /\ call[t].answer # "lost"
  /\ upsets.losses < MaxLosses
  /\ upsets' = [upsets EXCEPT !.losses = @ + 1, !.mixed = TRUE]
  /\ call' = [call EXCEPT ![t] = [Idle EXCEPT !.phase = "answered",
                                   !.kind = call[t].kind, !.answer = "lost"]]
  /\ UNCHANGED <<cookie, rows, tab>>

Expire(sid) ==
  /\ sid \in DOMAIN rows
  /\ upsets.losses < MaxLosses
  /\ upsets' = [upsets EXCEPT !.losses = @ + 1, !.mixed = TRUE]
  /\ rows' = WithoutRow(sid)
  /\ tab' = [t \in Tabs |-> [tab[t] EXCEPT !.alone = FALSE]]
  /\ UNCHANGED <<cookie, call>>

(***************************************************************************)
(* The response reaches the tab.  The cookie it sets is that of the        *)
(* session its request had, which need not be the browser's any more.      *)
(***************************************************************************)
SetCookie(sid) == IF sid = 0 THEN cookie ELSE sid

\* The tab's program ends.
Ended(p, shown) == [NewTab(shown) EXCEPT !.token = p.token]

\* mutant: a request that got no answer is made again
RetriesLost(p, c) == c.answer \in {"csrf", "lost"} /\ p.stage = "first"

\* mutant: every refusal for the token is followed by another try
RetriesForever(p, c) == c.answer = "csrf"

Retries(p, c) == c.answer = "csrf" /\ p.stage = "first"

\* mutant: the token that was refused is used again
AgainStale(p) == [p EXCEPT !.stage = "second"]

Again(p) == [p EXCEPT !.token = 0, !.stage = "second"]

\* What request() and AuthContext make of the answer; a sign-out that fails
\* leaves the tab signed out all the same.
After(p, c) ==
  CASE Retries(p, c) -> Again(p)
    [] c.answer = "ok" /\ c.kind = "csrf" /\ p.stage # "after" ->
         [p EXCEPT !.token = c.value]
    [] c.answer = "ok" /\ c.kind = "csrf" /\ p.stage = "after" ->
         Ended([p EXCEPT !.token = c.value], TRUE)
    [] c.answer = "ok" /\ c.kind = "login" ->
         [p EXCEPT !.token = 0, !.stage = "after"]
    [] c.answer = "ok" /\ c.kind \in {"act", "me"} -> Ended(p, TRUE)
    [] ~Retries(p, c) /\ c.answer # "ok" -> Ended(p, p.do = "act")

Receive(t) ==
  /\ call[t].phase = "answered"
  /\ cookie' = SetCookie(call[t].sid)
  /\ tab' = [tab EXCEPT ![t] = After(tab[t], call[t])]
  /\ call' = [call EXCEPT ![t] = Idle]
  /\ UNCHANGED <<rows, upsets>>

Serve(t) ==
  \/ Load(t) \/ Refuse(t) \/ GetCsrf(t) \/ LogIn(t) \/ WrongPassword(t)
  \/ Me(t) \/ Act(t)

SNext ==
  \/ \E t \in Tabs :
       \/ \E what \in Doings : Begin(t, what)
       \/ Send(t) \/ Serve(t) \/ Lose(t) \/ Receive(t)
  \/ \E sid \in DOMAIN rows : Expire(sid)

\* The browser goes on with what it has begun, and the API answers.
SFair == \A t \in Tabs : WF_sVars(Send(t) \/ Serve(t) \/ Receive(t))

SSpec == SInit /\ [][SNext]_sVars /\ SFair
-----------------------------------------------------------------------------
(***************************************************************************)
(* Properties.                                                             *)
(***************************************************************************)
SessionsTypeOK ==
  /\ cookie \in Nat
  /\ DOMAIN rows \subseteq Nat \ {0}
  /\ \A s \in DOMAIN rows : rows[s].user \in BOOLEAN /\ rows[s].csrf \in Nat
  /\ \A t \in Tabs : /\ tab[t].token \in Nat
                     /\ tab[t].do \in Doings \cup {"none"}
                     /\ call[t].sid \in Nat
                     /\ tab[t].do = "none" => call[t].phase = "none"

(***************************************************************************)
(* What the user does is done at most once, whatever is retried; and the   *)
(* answer that the user gets in the end is true: it was not done when it   *)
(* was refused, for the token or for the session.  (client.ts:75-115)      *)
(***************************************************************************)
AnsweredTruly ==
  \A t \in Tabs :
    /\ tab[t].ran <= 1
    /\ (tab[t].do = "act" /\ call[t].phase = "answered"
          /\ call[t].answer \in {"csrf", "anonymous"}) => tab[t].ran = 0

(***************************************************************************)
(* A tab that is not disturbed by another gets past a token that is stale, *)
(* because of another tab's or of a session that has expired: only a sign- *)
(* out ends with a refusal for the token.  (client.ts:94-105)              *)
(***************************************************************************)
CsrfRecovers ==
  \A t \in Tabs : tab[t].alone /\ tab[t].do \in {"boot", "login", "act"} =>
    ~(tab[t].stage = "second" /\ call[t].phase = "answered"
        /\ call[t].answer = "csrf")

(***************************************************************************)
(* As long as no two tabs have been at it at once, nothing was lost and no *)
(* session has expired, a tab that shows the user signed in, when no tab   *)
(* waits for anything, has a session that is.                              *)
(* (AuthContext.tsx, routes/auth.ts:93-131)                                *)
(***************************************************************************)
ShownIsTrue ==
  (~upsets.mixed /\ \A t \in Tabs : tab[t].do = "none") =>
    \A t \in Tabs : tab[t].shown => LoggedIn

(***************************************************************************)
(* A session that was there before its user signed in stays without a      *)
(* user: signing in always makes a new one.  (routes/auth.ts:121-131)      *)
(***************************************************************************)
FreshSession ==
  [][\A s \in DOMAIN rows \cap DOMAIN rows' : rows'[s].user => rows[s].user]_sVars

(***************************************************************************)
(* Whatever the user does in a tab comes to an end: the retry does not go  *)
(* on and on.                                                              *)
(***************************************************************************)
TabAnswers == \A t \in Tabs : tab[t].do # "none" ~> tab[t].do = "none"

(***************************************************************************)
(* A user who has signed out, in the only tab at work and with every       *)
(* answer received, has no session any more.                               *)
(***************************************************************************)
LogoutClearsSession ==
  ~upsets.mixed =>
    \A t \in Tabs :
      (/\ tab[t].do = "logout" /\ call[t].phase = "answered"
       /\ After(tab[t], call[t]).do = "none")
      => SetCookie(call[t].sid) \notin {s \in DOMAIN rows : rows[s].user}
=============================================================================
