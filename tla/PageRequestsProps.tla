-------------------------- MODULE PageRequestsProps --------------------------
(***************************************************************************)
(* What the requests of the pages owe the user: the properties checked on  *)
(* PageRequests.                                                           *)
(***************************************************************************)
EXTENDS PageRequests

\* The tabs share one ceremony cookie and the server keeps a ceremony once:
\* a credential that got to PasskeyFinishRegister is registered, unless
\* another tab replaced the cookie meanwhile or used it up, or the server
\* forgot the ceremony.
FinishAccepted == \A t \in Tabs : At(t, "rejected") => page[t].disturbed

\* "so the same authenticator cannot be registered twice for the same
\* account" (BeginRegistration): it is only when the registrations overlap.
TwiceOnlyOverlapping ==
  \A k, l \in passkeys :
    k # l /\ k.device = l.device => k.of \in l.during \/ l.of \in k.during

\* What the user chose in a banner is recorded, also when the request fails
\* and the form is submitted instead, unless two choices were under way at
\* once, an answer was an error or the page was left.
ChoiceRecorded ==
  (\A t \in Tabs : asks[t] = {}) /\ expected # "any" => consent = expected

\* The register button is never left disabled: every failure of a request, of
\* the authenticator or of an answer enables it again, success reloads.
Settles == \A t \in Tabs : Busy(t) ~> ~Busy(t)

-----------------------------------------------------------------------------
(* What documents and comments say and the code does not do, see the       *)
(* README.                                                                 *)

\* "CSRF_FAILED: Refresh the page and retry" (AI.md): the page that replaces a
\* refused one has a token to retry with.
RefreshCures ==
  [][\A t \in Tabs : At(t, "refused") /\ page[t].kind = "passkeys" /\ At(t, "ready")'
        => Passes(t)']_vars

\* "so the same authenticator cannot be registered twice for the same
\* account" (service/webauthn.go).
NeverTwice == \A k, l \in passkeys : k.device = l.device => k = l

\* "CSRF is injected by the window.fetch patch above, so no explicit header is
\* needed here" (app.js): the short-link form is not answered with an error.
LinkCreated == \A t \in Tabs : page[t].kind = "dashboard" => ~At(t, "refused")
=============================================================================
