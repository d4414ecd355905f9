---------------------------- MODULE PageRequests -----------------------------
(***************************************************************************)
(* What the pages of one browser ask of the server: the fetch that         *)
(* src/server/tmpl/static/js/app.js patches to carry the CSRF token, the   *)
(* registration of a passkey, the short-link form of the dashboard and the *)
(* cookie banner, with the cookies the tabs share and the handlers that    *)
(* answer (src/server/middleware.go, handler/user_security.go,             *)
(* service/webauthn.go, handler/pages.go).                                 *)
(*                                                                         *)
(* A request is sent, handled and answered in three steps; it carries the  *)
(* cookies of the moment it is sent, and its answer sets cookies when it   *)
(* arrives.  Answers that set no cookie arrive in the step they are made,  *)
(* and the server sees a request before the page that sent it is left, or  *)
(* never.  The banner is on every page and shares nothing with the rest of *)
(* it, so it gets a kind of page of its own.  Of a CSRF token only one     *)
(* thing is told apart, whether it is the one in the cookie.  One account  *)
(* is signed in all the time, so no ceremony is another user's.            *)
(***************************************************************************)
EXTENDS Naturals, FiniteSets

CONSTANTS
  Tabs,
  Authenticators,   \* devices that make passkeys
  NoDevice,
  MaxCeremony       \* bound on the registrations begun

Ceremonies == 1..MaxCeremony
None       == 0           \* no ceremony
Choices    == {"accept", "decline"}

ASSUME RequestsAssumption == MaxCeremony \in Nat /\ NoDevice \notin Authenticators

VARIABLES
  csrf,        \* the browser has the cookie csrf_token
  ceremony,    \* cookie wa_reg_session
  begun,       \* the last ceremony the server began
  sessions,    \* the ceremonies the server still knows
  passkeys,    \* the credentials registered
  page,        \* page[t]: the page in tab t and the registration it runs
  during,      \* history: during[t], passkeys registered since t's begin
  consent,     \* cookie cookie_consent
  asks,        \* asks[t]: choices tab t has sent and got no answer to
  expected     \* history: the choice to be recorded, "any" if they raced

banner  == <<consent, asks, expected>>
server  == <<begun, sessions, passkeys>>
vars    == <<csrf, ceremony, server, page, during, banner>>

Passkey == [device: Authenticators, of: Ceremonies, during: SUBSET Ceremonies]
PageOf  ==
  [kind: {"other", "passkeys", "dashboard", "banner"},
   token: BOOLEAN,                    \* <meta name="csrf-token"> is the cookie
   pc: {"ready", "refused", "begin", "excluded", "begun", "create", "finish",
        "save", "accepted", "rejected", "done"},
   passes: BOOLEAN,                   \* X-CSRF-Token is the cookie sent with it
   of: Ceremonies \cup {None},        \* whose challenge the page has
   cookie: Ceremonies \cup {None},    \* wa_reg_session sent with finish-register
   excluded: SUBSET Authenticators,   \* excludeCredentials
   device: Authenticators \cup {NoDevice},
   disturbed: BOOLEAN]                \* history: its ceremony was got in the way of
NoPage ==
  [kind |-> "other", token |-> FALSE, pc |-> "ready", passes |-> FALSE,
   of |-> None, cookie |-> None, excluded |-> {}, device |-> NoDevice,
   disturbed |-> FALSE]

Challenged == {"begun", "create", "finish", "save"}   \* there is a challenge
Excluding  == Challenged \cup {"excluded"}            \* the exclusions were read

At(t, step) == page[t].pc = step
Busy(t)     == page[t].pc \notin {"ready", "refused"}

TypeOK ==
  /\ csrf \in BOOLEAN
  /\ ceremony \in 0..begun /\ begun \in 0..MaxCeremony
  /\ sessions \subseteq 1..begun
  /\ passkeys \subseteq Passkey
  /\ page \in [Tabs -> PageOf]
  /\ \A t \in Tabs : page[t].token => csrf
  /\ \A t \in Tabs : Busy(t) => page[t].kind = "passkeys"
  /\ \A t \in Tabs : page[t].pc \in Challenged => page[t].of \in 1..begun
  /\ during \in [Tabs -> SUBSET Ceremonies]
  /\ consent \in Choices \cup {"none"}
  /\ asks \in [Tabs -> SUBSET Choices]
  /\ \A t \in Tabs : asks[t] # {} => page[t].kind \in {"banner", "other"}
  /\ expected \in Choices \cup {"any"}

Init ==
  /\ csrf = FALSE
  /\ ceremony = None /\ begun = None /\ sessions = {} /\ passkeys = {}
  /\ page = [t \in Tabs |-> NoPage] /\ during = [t \in Tabs |-> {}]
  /\ consent = "none" /\ asks = [t \in Tabs |-> {}] /\ expected = "any"

-----------------------------------------------------------------------------
(* Pages and the CSRF token *)

\* newPageData puts the token of the request's cookie into a page, none when
\* this answer is the first to set the cookie (ensureCSRFCookie).
NewPage(kind) ==
  [NoPage EXCEPT !.token = csrf,
     !.kind = IF kind = "banner" /\ consent' # "none" THEN "other" ELSE kind]

Show(t, kind) ==
  /\ csrf' = TRUE
  /\ page' = [page EXCEPT ![t] = NewPage(kind)]
  /\ during' = [during EXCEPT ![t] = {}]
  /\ asks' = [asks EXCEPT ![t] = {}]

\* The user loads or leaves a page; a registration it runs is forgotten, and a
\* choice it sent may have been answered.
Load(t, kind) ==
  /\ consent' \in {consent} \cup asks[t]
  /\ Show(t, kind)
  /\ expected' = IF asks[t] = {} THEN expected ELSE "any"
  /\ UNCHANGED <<ceremony, server>>

\* The cookie lives for a day, whatever the pages do meanwhile.  It also stands
\* for the answer to a page that was asked for before there was a cookie and
\* arrives when there is one: it sets another, so the pages have the wrong
\* token and the one it brings has none, as after Expire and Load.
Expire ==
  /\ csrf /\ csrf' = FALSE
  /\ page' = [t \in Tabs |-> [page[t] EXCEPT !.token = FALSE]]
  /\ UNCHANGED <<ceremony, server, during, banner>>

\* What CSRFMiddleware compares: the header window.fetch adds, which is the
\* content of the meta element, and the cookie.
Passes(t) == csrf /\ page[t].token

\* The registration ends in the catch handler: the button is enabled again.
Ended(p, step) == [NoPage EXCEPT !.kind = p.kind, !.token = p.token, !.pc = step]
\* Mutant: the catch handler leaves the button disabled.
End_StaysDisabled(t, step) == UNCHANGED <<page, during>>

End(t, step) ==
  /\ page' = [page EXCEPT ![t] = Ended(@, step)]
  /\ during' = [during EXCEPT ![t] = {}]

\* CSRFMiddleware answers 403.
Refuse(t) ==
  /\ page[t].pc \in {"begin", "finish"} /\ ~page[t].passes
  /\ End(t, "refused")
  /\ UNCHANGED <<csrf, ceremony, server, banner>>

-----------------------------------------------------------------------------
(* The registration of a passkey *)

\* A click on the button: it is disabled, and begin-register is sent.
Register(t) ==
  /\ page[t].kind = "passkeys" /\ ~Busy(t)
  /\ page' = [page EXCEPT ![t].pc = "begin", ![t].passes = Passes(t)]
  /\ UNCHANGED <<csrf, ceremony, server, during, banner>>

\* Mutant: no authenticator is excluded.
BeginRegistration_NoExclusions(t) ==
  /\ At(t, "begin") /\ page[t].passes
  /\ page' = [page EXCEPT ![t].pc = "excluded", ![t].passes = FALSE]
  /\ UNCHANGED <<csrf, ceremony, server, during, banner>>

\* PasskeyBeginRegister, BeginRegistration: the authenticators registered so
\* far are read, to be excluded.
BeginRegistration(t) ==
  /\ At(t, "begin") /\ page[t].passes
  /\ page' = [page EXCEPT ![t].pc = "excluded", ![t].passes = FALSE,
                          ![t].excluded = {k.device : k \in passkeys}]
  /\ UNCHANGED <<csrf, ceremony, server, during, banner>>

\* Mutant: the page gets no challenge.
StoreSession_NoChallenge(t) ==
  /\ At(t, "excluded")
  /\ begun < MaxCeremony /\ begun' = begun + 1
  /\ sessions' = sessions \cup {begun'}
  /\ page' = [page EXCEPT ![t].pc = "begun"]
  /\ UNCHANGED <<csrf, ceremony, passkeys, during, banner>>

\* StoreSession: the challenge is kept under a new ceremony.
StoreSession(t) ==
  /\ At(t, "excluded")
  /\ begun < MaxCeremony /\ begun' = begun + 1
  /\ sessions' = sessions \cup {begun'}
  /\ page' = [page EXCEPT ![t].pc = "begun", ![t].of = begun']
  /\ UNCHANGED <<csrf, ceremony, passkeys, during, banner>>

\* Something gets in the way of the ceremonies of the tabs in ts.
Disturbed(p, ts) ==
  [u \in Tabs |-> IF u \in ts THEN [p[u] EXCEPT !.disturbed = TRUE] ELSE p[u]]

\* Set-Cookie of an answer to tab t: the tabs share the cookie, which one
\* whose authenticator is at work has yet to send.
SetCeremony(t, c, p) ==
  /\ ceremony' = c
  /\ page' = Disturbed([page EXCEPT ![t] = p], {u \in Tabs \ {t} : At(u, "create")})

\* Mutant: the answer sets no cookie for the ceremony.
Begun_NoCookie(t) ==
  /\ At(t, "begun")
  /\ page' = [page EXCEPT ![t].pc = "create"]
  /\ UNCHANGED <<csrf, ceremony, server, during, banner>>

\* The answer arrives, and the browser asks for an authenticator.
Begun(t) ==
  /\ At(t, "begun")
  /\ SetCeremony(t, page[t].of, [page[t] EXCEPT !.pc = "create"])
  /\ UNCHANGED <<csrf, server, during, banner>>

\* An authenticator that is not excluded made a credential: finish-register
\* is sent with it.
Create(t, d) ==
  /\ At(t, "create") /\ d \notin page[t].excluded
  /\ page' = [page EXCEPT ![t].pc = "finish", ![t].device = d, ![t].excluded = {},
                          ![t].passes = Passes(t), ![t].cookie = ceremony]
  /\ UNCHANGED <<csrf, ceremony, server, during, banner>>

\* The user or the authenticator gives up.
CreateFails(t) ==
  /\ At(t, "create")
  /\ End(t, "ready")
  /\ UNCHANGED <<csrf, ceremony, server, banner>>

\* PasskeyFinishRegister, LoadSession: the ceremony of the cookie is taken.
LoadSession(t) ==
  /\ At(t, "finish") /\ page[t].passes
  /\ LET c == page[t].cookie
     IN /\ c \in sessions /\ sessions' = sessions \ {c}
        /\ page' = Disturbed([page EXCEPT ![t].pc = "save"],
                             {u \in Tabs \ {t} : page[u].of = c})
  /\ UNCHANGED <<csrf, ceremony, begun, passkeys, during, banner>>

\* The server does not know the ceremony, or the credential was made for the
\* challenge of another.
Reject(t) ==
  /\ \/ At(t, "finish") /\ page[t].passes /\ page[t].cookie \notin sessions
     \/ At(t, "save") /\ page[t].cookie # page[t].of
  /\ page' = [page EXCEPT ![t] = [Ended(@, "rejected") EXCEPT
                                    !.disturbed = page[t].disturbed]]
  /\ during' = [during EXCEPT ![t] = {}]
  /\ UNCHANGED <<csrf, ceremony, server, banner>>

\* saveCredential; the registrations that have read their exclusions miss it.
SaveCredential(t) ==
  /\ At(t, "save") /\ page[t].cookie = page[t].of
  /\ passkeys' = passkeys \cup
       {[device |-> page[t].device, of |-> page[t].of, during |-> during[t]]}
  /\ during' = [u \in Tabs |-> IF u = t THEN {}
                  ELSE IF page[u].pc \in Excluding THEN during[u] \cup {page[t].of}
                  ELSE during[u]]
  /\ page' = [page EXCEPT ![t] = Ended(@, "accepted")]
  /\ UNCHANGED <<csrf, ceremony, begun, sessions, banner>>

\* The answer arrives: success clears the cookie and will reload the page, an
\* error goes to catch.
Accepted(t) ==
  /\ At(t, "accepted")
  /\ SetCeremony(t, None, Ended(page[t], "done"))
  /\ UNCHANGED <<csrf, server, during, banner>>

Rejected(t) ==
  /\ At(t, "rejected")
  /\ End(t, "ready")
  /\ UNCHANGED <<csrf, ceremony, server, banner>>

\* window.location.reload, 1200 ms later.
Reload(t) ==
  /\ At(t, "done")
  /\ consent' = consent /\ expected' = expected
  /\ Show(t, "passkeys")
  /\ UNCHANGED <<ceremony, server>>

\* A request or its answer is lost, the server cannot do it, the ceremony being
\* taken or not, or what comes is not JSON: the chain of promises ends in catch.
Lost(t) ==
  /\ page[t].pc \in {"begin", "excluded", "begun", "finish", "save", "accepted",
                     "rejected"}
  /\ End(t, "ready")
  /\ UNCHANGED <<csrf, ceremony, server, banner>>

\* The headers of the answer, and the cookie with them, had arrived.
LostAfterCookie(t) ==
  /\ page[t].pc \in {"begun", "accepted"}
  /\ SetCeremony(t, page[t].of, Ended(page[t], "ready"))
  /\ during' = [during EXCEPT ![t] = {}]
  /\ UNCHANGED <<csrf, server, banner>>

\* A ceremony is five minutes old, or the server is started anew.
Forget(c) ==
  /\ c \in sessions
  /\ sessions' = sessions \ {c}
  /\ page' = Disturbed(page, {t \in Tabs : page[t].of = c})
  /\ UNCHANGED <<csrf, ceremony, begun, passkeys, during, banner>>

-----------------------------------------------------------------------------
(* The short-link form and the cookie banner *)

\* The form is sent to /api/v1/urls without an Authorization header, which
\* BearerAuthMiddleware answers 401: a toast, and the form stays.
CreateLink(t) ==
  /\ page[t].kind = "dashboard" /\ At(t, "ready")
  /\ End(t, "refused")
  /\ UNCHANGED <<csrf, ceremony, server, banner>>

\* A button of the banner: it stays there until an answer arrives.  Sending
\* one choice twice is as sending it once.
Choose(t, c) ==
  /\ page[t].kind = "banner" /\ c \notin asks[t]
  /\ asks' = [asks EXCEPT ![t] = @ \cup {c}]
  /\ expected' = IF \E u \in Tabs : asks[u] # {} THEN "any" ELSE c
  /\ UNCHANGED <<csrf, ceremony, server, page, during, consent>>

\* Any answer removes the banner; one of PagesHandler.Consent sets the cookie.
Chosen(t, c, ok) ==
  /\ c \in asks[t]
  /\ consent' = IF ok THEN c ELSE consent
  /\ asks' = [asks EXCEPT ![t] = @ \ {c}]
  /\ page' = [page EXCEPT ![t].kind = "other"]
  /\ expected' = IF ok THEN expected ELSE "any"
  /\ UNCHANGED <<csrf, ceremony, server, during>>

\* Mutant: the banner is removed although the request failed.
ChooseFails_Removed(t, c) ==
  /\ c \in asks[t] /\ page[t].kind = "banner"
  /\ page' = [page EXCEPT ![t].kind = "other"]
  /\ asks' = [asks EXCEPT ![t] = @ \ {c}]
  /\ UNCHANGED <<csrf, ceremony, server, during, consent, expected>>

\* The request fails: the form, if it is still there, is submitted as without
\* the script, and the server redirects to the page.
ChooseFails(t, c) ==
  /\ c \in asks[t] /\ page[t].kind = "banner"
  /\ consent' = c
  /\ Show(t, "banner")
  /\ expected' = IF asks[t] = {c} THEN expected ELSE "any"
  /\ UNCHANGED <<ceremony, server>>

\* That fails as well, or the other button had removed the form.
ChoiceLost(t, c) ==
  /\ c \in asks[t]
  /\ asks' = [asks EXCEPT ![t] = IF page[t].kind = "banner" THEN {} ELSE @ \ {c}]
  /\ page' = [page EXCEPT ![t].kind = "other"]
  /\ expected' = "any"
  /\ UNCHANGED <<csrf, ceremony, server, during, consent>>

-----------------------------------------------------------------------------

Progress(t) ==
  \/ Refuse(t) \/ BeginRegistration(t) \/ StoreSession(t) \/ Begun(t)
  \/ CreateFails(t)
  \/ \E d \in Authenticators : Create(t, d)
  \/ LoadSession(t) \/ Reject(t) \/ SaveCredential(t)
  \/ Accepted(t) \/ Rejected(t) \/ Reload(t)
  \/ Lost(t) \/ LostAfterCookie(t)

Next ==
  \/ \E t \in Tabs, kind \in {"passkeys", "dashboard", "banner"} : Load(t, kind)
  \/ Expire
  \/ \E c \in sessions : Forget(c)
  \/ \E t \in Tabs : Register(t) \/ Progress(t) \/ CreateLink(t)
  \/ \E t \in Tabs, c \in Choices :
       \/ Choose(t, c) \/ ChooseFails(t, c) \/ ChoiceLost(t, c)
       \/ \E ok \in BOOLEAN : Chosen(t, c, ok)

Spec == Init /\ [][Next]_vars

\* Requests are answered or fail, authenticators time out.
FairSpec == Spec /\ \A t \in Tabs : WF_vars(Progress(t))
=============================================================================
