--------------------------------- MODULE Page --------------------------------
(***************************************************************************)
(* A page of src/server/tmpl with src/server/tmpl/static/js/app.js: the    *)
(* forms that ask for confirmation, the small widgets and the theme, which *)
(* the page shares with the other tabs of the browser.                     *)
(*                                                                         *)
(* Two things join the parts.  An open <dialog> is modal, so that nothing  *)
(* else on the page can be used, and a page that is loaded begins afresh   *)
(* and restores the theme.  The script of a page runs one handler at a     *)
(* time: while applyTheme has not returned nothing else happens there.     *)
(***************************************************************************)
EXTENDS ConfirmFormsProps, PageWidgets, Theme

CONSTANT Here   \* the tab with the page

ASSUME PageAssumption == Here \in Tabs

pageVars == <<vars, widgetVars, themeVars>>

PageTypeOK == TypeOK /\ WidgetTypeOK /\ ThemeTypeOK

PageInit == Init /\ WidgetInit /\ ThemeInit

Idle == Returned(Here)         \* no handler is running
Accessible == asked = NoForm            \* no modal dialog is in the way

\* tokens.html has forms with data-confirm, a copy button and messages.
UseForm ==
  /\ kind = "copy" /\ Idle
  /\ User
  /\ UNCHANGED <<widgetVars, themeVars>>

FormClosed == Idle /\ OnClose /\ UNCHANGED <<widgetVars, themeVars>>

Widget ==
  /\ Idle
  /\ (Accessible /\ UseWidget) \/ ChangeWidget
  /\ UNCHANGED <<vars, themeVars>>

Restyled(t) ==
  /\ t = Here => Accessible
  /\ Restyle(t)
  /\ UNCHANGED <<vars, widgetVars>>

CookieSet(t) == SetCookie(t) /\ UNCHANGED <<vars, widgetVars>>
Stored(t) == Store(t) /\ UNCHANGED <<vars, widgetVars>>

\* Another tab loads a page; this one does.
Elsewhere(t) == t # Here /\ Restore(t) /\ UNCHANGED <<vars, widgetVars>>
Load         == ShowPage /\ Leave /\ Restore(Here)

PageNext ==
  \/ UseForm \/ FormClosed \/ Widget \/ Load
  \/ \E t \in Tabs : Restyled(t) \/ CookieSet(t) \/ Stored(t) \/ Elsewhere(t)

\* Handlers return, and the event loop dispatches what is queued, although
\* the user may keep the page busy.
PageSpec ==
  /\ PageInit /\ [][PageNext]_pageVars
  /\ WF_pageVars(CookieSet(Here)) /\ WF_pageVars(Stored(Here)) /\ SF_pageVars(FormClosed)
=============================================================================
