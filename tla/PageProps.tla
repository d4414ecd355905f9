------------------------------ MODULE PageProps ------------------------------
(***************************************************************************)
(* What the scripts of a page owe the user: the properties checked on Page *)
(* besides those of ConfirmFormsProps.                                     *)
(***************************************************************************)
EXTENDS Page

\* A copy button says "Copied!" for a while and then "Copy" again, for any
\* number of clicks on the one of the recovery keys, and for any other unless
\* it was clicked while it said "Copied!".
LabelReturns == timers = <<>> /\ copies = 0 /\ ~again => label = "Copy"

\* "Persist non-auto choices in a cookie so the server can read it"
\* (applyTheme): cookie and localStorage agree, whichever tab changed the
\* theme last, unless two tabs did at once.
CookieFollows ==
  (\A t \in Tabs : Returned(t)) /\ ~crossed
  => cookie = CookieFor(stored)

\* The slug the script fills in has the letters and digits of the name, in
\* lower case, with one hyphen for what stands between two words and none at
\* the ends; only when it is cut to MaxSlug may it end early, or in a hyphen.
Letters(s) == Cardinality({i \in DOMAIN s : s[i] = "a"})

Words(s) == Cardinality({i \in DOMAIN s : s[i] = "a" /\ (i = 1 \/ s[i - 1] # "a")})

SlugOf(u, s) ==
  LET typed == Lower(s)
  IN /\ Letters(u) <= Letters(typed) /\ Words(u) <= Words(typed)
     /\ \A i \in DOMAIN u :
          u[i] = "-" => /\ i > 1 /\ u[i - 1] = "a"
                        /\ i < Len(u) \/ i = MaxSlug
     /\ Len(u) < MaxSlug
        => Letters(u) = Letters(typed) /\ Words(u) = Words(typed)

SlugFromName == kind = "new" /\ ~edited => SlugOf(slug, name)

-----------------------------------------------------------------------------
(* What does not hold, see the README. *)

\* A copy button always says "Copy" again.
LabelAlwaysReturns == timers = <<>> /\ copies = 0 => label = "Copy"

\* Two tabs that change the theme at once leave cookie and item alike.
CookieAlwaysFollows ==
  (\A t \in Tabs : Returned(t)) => cookie = CookieFor(stored)

\* An install offer is dropped only for a newer one or by its own choice.
OfferKept ==
  [][kind = "install" /\ kind' = kind /\ offer # NoOffer /\ offer' = NoOffer
     => offer \in prompted]_pageVars

\* "slug must be 2-39 characters" (AI.md, validate.ValidateOrgSlug): the slug
\* filled in for a name is one the server accepts, or too short.
SlugAccepted == kind = "new" /\ ~edited => Len(slug) <= 39
=============================================================================
