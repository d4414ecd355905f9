-------------------------------- MODULE Theme --------------------------------
(***************************************************************************)
(* The colour theme of the pages of one browser ("Theme management" and    *)
(* "Theme selection buttons" of src/server/tmpl/static/js/app.js): the     *)
(* cookie and the localStorage item its tabs share.  Tabs may run in       *)
(* processes of their own, so that a step of another tab may come between  *)
(* reading the item, writing the cookie and writing the item.  Left out    *)
(* are the look applyTheme gives the page, which nothing reads back, and   *)
(* the year after which the cookie expires.                                *)
(***************************************************************************)
EXTENDS Naturals

CONSTANTS Tabs, NoTheme

Themes == {"auto", "dark", "light"}

ASSUME ThemeAssumption == NoTheme \notin Themes

VARIABLES
  cookie,    \* cookie "theme"
  stored,    \* localStorage item "cl_theme"; "auto" when there is none
  applying,  \* applying[t]: the theme tab t has yet to put in the cookie
  writing,   \* writing[t]: the one it has yet to store; NoTheme if none
  crossed    \* history: the last applyTheme began while another was running

themeVars == <<cookie, stored, applying, writing, crossed>>

ThemeTypeOK ==
  /\ cookie \in {"dark", "light", NoTheme}
  /\ stored \in Themes
  /\ applying \in [Tabs -> Themes \cup {NoTheme}]
  /\ writing \in [Tabs -> Themes \cup {NoTheme}]
  /\ crossed \in BOOLEAN

ThemeInit ==
  /\ cookie = NoTheme
  /\ stored = "auto"
  /\ applying = [t \in Tabs |-> NoTheme]
  /\ writing = [t \in Tabs |-> NoTheme]
  /\ crossed = FALSE

\* What the cookie is set to: there is none for "auto".
CookieFor(theme) == IF theme = "auto" THEN NoTheme ELSE theme

\* No handler of tab t has work left.
Returned(t) == applying[t] = NoTheme /\ writing[t] = NoTheme

\* applyTheme is called with a theme, read from the item where it comes from
\* there.
ApplyTheme(t, theme) ==
  /\ Returned(t)
  /\ applying' = [applying EXCEPT ![t] = theme]
  /\ crossed' = \E u \in Tabs \ {t} : ~Returned(u)
  /\ UNCHANGED <<cookie, stored, writing>>

\* Mutant: "auto" leaves the cookie of the theme before.
SetCookie_Kept(t) ==
  /\ applying[t] # NoTheme
  /\ cookie' = IF applying[t] = "auto" THEN cookie ELSE applying[t]
  /\ applying' = [applying EXCEPT ![t] = NoTheme]
  /\ writing' = [writing EXCEPT ![t] = applying[t]]
  /\ UNCHANGED <<stored, crossed>>

\* It sets the cookie.
SetCookie(t) ==
  /\ applying[t] # NoTheme
  /\ cookie' = CookieFor(applying[t])
  /\ applying' = [applying EXCEPT ![t] = NoTheme]
  /\ writing' = [writing EXCEPT ![t] = applying[t]]
  /\ UNCHANGED <<stored, crossed>>

\* Its last step: localStorage.setItem.
Store(t) ==
  /\ writing[t] # NoTheme
  /\ stored' = writing[t]
  /\ writing' = [writing EXCEPT ![t] = NoTheme]
  /\ UNCHANGED <<cookie, applying, crossed>>

\* The page is loaded, the toggle clicked, or a theme chosen in the settings.
Restore(t) == ApplyTheme(t, stored)

NextTheme(theme) ==
  CASE theme = "auto" -> "dark" [] theme = "dark" -> "light" [] OTHER -> "auto"
CycleTheme(t) == ApplyTheme(t, NextTheme(stored))

SetTheme(t) == \E theme \in Themes : ApplyTheme(t, theme)

Restyle(t) == CycleTheme(t) \/ SetTheme(t)
=============================================================================
