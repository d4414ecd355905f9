----------------------------- MODULE PageWidgets -----------------------------
(***************************************************************************)
(* The small widgets of the pages, src/server/tmpl/static/js/app.js: copy  *)
(* buttons, flash messages, the install button, the recovery keys and the  *)
(* slug of a new organization.                                             *)
(*                                                                         *)
(* They share no state, so the model gives a page one of them: "copy"      *)
(* stands for a page with a copy button and a flash message, "install" for *)
(* the button in the navigation, "keys" and "new" for the recovery keys    *)
(* and the organization form.  Handlers, timers and promise reactions are  *)
(* steps; timers of one delay expire in the order they were set.           *)
(***************************************************************************)
EXTENDS Naturals, SequencesExt

CONSTANTS
  Offers,      \* beforeinstallprompt events of a page
  NoOffer,
  Typed,       \* names the user may have typed, sequences of Characters
  Slugs,       \* slugs the user may type
  MaxSlug,     \* 40, the length the script cuts a slug to
  MaxTimers    \* bound on the clicks on a copy button not yet undone

Kinds == {"copy", "install", "keys", "new"}

\* A lower-case letter or digit, an upper-case letter, any other character,
\* and one that toLowerCase makes two of, a letter and a combining mark.
Characters == {"a", "A", " ", "I."}

ASSUME WidgetAssumption ==
  /\ NoOffer \notin Offers
  /\ <<>> \in Typed /\ Typed \subseteq Seq(Characters)
  /\ Slugs \subseteq Seq({"a", "-"})
  /\ MaxSlug \in Nat \ {0} /\ MaxTimers \in Nat

VARIABLES
  kind,      \* what the page has
  label,     \* text of its copy button
  timers,    \* texts that expiring timers will put back
  copies,    \* clipboard writes of all the keys that have not ended
  again,     \* history: the copy button was clicked while it said "Copied!"
  alert,     \* the flash message
  checked,   \* the checkbox "I have saved my recovery keys"
  enabled,   \* the continue button
  name, slug, edited,   \* the two inputs, slug.dataset.edited
  offer,     \* deferredInstallPrompt
  visible,   \* the install button
  offered,   \* beforeinstallprompt events so far
  prompted   \* offers whose userChoice has a reaction waiting

copying == <<label, timers, copies, again, alert>>
keys    == <<checked, enabled>>
naming  == <<name, slug, edited>>
install == <<offer, visible, offered, prompted>>
widgetVars == <<kind, copying, keys, naming, install>>

WidgetTypeOK ==
  /\ kind \in Kinds
  /\ label \in {"Copy", "Copied!"} /\ timers \in Seq({"Copy", "Copied!"})
  /\ copies \in Nat /\ Len(timers) + copies <= MaxTimers
  /\ again \in BOOLEAN
  /\ alert \in {"shown", "fading", "gone"}
  /\ checked \in BOOLEAN /\ enabled = checked
  /\ name \in Typed /\ slug \in Seq({"a", "-"}) /\ edited \in BOOLEAN
  /\ offer \in Offers \cup {NoOffer} /\ visible \in BOOLEAN
  /\ visible <=> offer # NoOffer
  /\ offered \subseteq Offers /\ prompted \subseteq offered

\* A page as it is when DOMContentLoaded has been dispatched.
WidgetInit ==
  /\ kind \in Kinds
  /\ label = "Copy" /\ timers = <<>> /\ copies = 0 /\ again = FALSE
  /\ alert = "shown"
  /\ checked = FALSE /\ enabled = FALSE
  /\ name = <<>> /\ slug = <<>> /\ edited = FALSE
  /\ offer = NoOffer /\ visible = FALSE /\ offered = {} /\ prompted = {}

\* Another page, or the same once more: a link, a form, the language chosen.
ShowPage ==
  /\ kind' \in Kinds
  /\ label' = "Copy" /\ timers' = <<>> /\ copies' = 0 /\ again' = FALSE
  /\ alert' = "shown"
  /\ checked' = FALSE /\ enabled' = FALSE
  /\ name' = <<>> /\ slug' = <<>> /\ edited' = FALSE
  /\ offer' = NoOffer /\ visible' = FALSE /\ offered' = {} /\ prompted' = {}

-----------------------------------------------------------------------------
(* Copy buttons and the flash message *)

Pending == Len(timers) + copies

\* A [data-copy] button is clicked: it remembers the text it has now.
Copy ==
  /\ kind = "copy" /\ Pending < MaxTimers
  /\ timers' = Append(timers, label) /\ label' = "Copied!"
  /\ again' = (again \/ label = "Copied!")
  /\ UNCHANGED <<kind, copies, alert, keys, naming, install>>

\* The copy button of the recovery keys waits for the clipboard.
CopyKeys ==
  /\ kind = "keys" /\ Pending < MaxTimers
  /\ copies' = copies + 1
  /\ UNCHANGED <<kind, label, timers, again, alert, keys, naming, install>>

\* Mutant: the text put back is the one the button has when it is copied.
KeysCopied_Remembers ==
  /\ copies > 0
  /\ copies' = copies - 1
  /\ label' = "Copied!" /\ timers' = Append(timers, label)
  /\ UNCHANGED <<kind, again, alert, keys, naming, install>>

KeysCopied ==
  /\ copies > 0
  /\ copies' = copies - 1
  /\ label' = "Copied!" /\ timers' = Append(timers, "Copy")
  /\ UNCHANGED <<kind, again, alert, keys, naming, install>>

\* The clipboard is refused: nobody catches the rejection.
KeysNotCopied ==
  /\ copies > 0
  /\ copies' = copies - 1
  /\ UNCHANGED <<kind, label, timers, again, alert, keys, naming, install>>

Expire ==
  /\ timers # <<>>
  /\ label' = Head(timers) /\ timers' = Tail(timers)
  /\ UNCHANGED <<kind, copies, again, alert, keys, naming, install>>

\* The delay of a flash message ends, and 400 ms later its transition.
Dismiss ==
  /\ kind = "copy" /\ alert # "gone"
  /\ alert' = IF alert = "shown" THEN "fading" ELSE "gone"
  /\ UNCHANGED <<kind, label, timers, copies, again, keys, naming, install>>

\* The checkbox changes, and the continue button follows it.
Check ==
  /\ kind = "keys"
  /\ checked' = ~checked /\ enabled' = checked'
  /\ UNCHANGED <<kind, copying, naming, install>>

-----------------------------------------------------------------------------
(* The slug of a new organization *)

Lower(s) == FlattenSeq([i \in DOMAIN s |->
              IF s[i] = "I." THEN <<"a", " ">>
              ELSE IF s[i] = "A" THEN <<"a">> ELSE <<s[i]>>])

\* What one more character does to the text hyphenated so far.
Hyphened(out, c) ==
  IF c = "a" THEN Append(out, c)
  ELSE IF out # <<>> /\ Last(out) = "-" THEN out
  ELSE Append(out, "-")

\* replace(/[^a-z0-9]+/g, '-')
Hyphenate(s) ==
  LET out[i \in 0..Len(s)] == IF i = 0 THEN <<>> ELSE Hyphened(out[i - 1], s[i])
  IN out[Len(s)]

\* Mutant: only the start is trimmed.
Trim_Start(s) ==
  LET inner == {i \in DOMAIN s : s[i] # "-"}
  IN IF inner = {} THEN <<>> ELSE SubSeq(s, Min(inner), Len(s))

\* replace(/^-+|-+$/g, '')
Trim(s) ==
  LET inner == {i \in DOMAIN s : s[i] # "-"}
  IN IF inner = {} THEN <<>> ELSE SubSeq(s, Min(inner), Max(inner))

\* slice(0, 40)
Slice(s) == SubSeq(s, 1, Min({Len(s), MaxSlug}))

AutoSlug == [s \in Typed |-> Slice(Trim(Hyphenate(Lower(s))))]

\* An input event of the name: the slug follows it until it was edited.
TypeName ==
  /\ kind = "new"
  /\ \E s \in Typed :
       /\ name' = s
       /\ slug' = IF edited THEN slug ELSE AutoSlug[s]
  /\ UNCHANGED <<kind, edited, copying, keys, install>>

TypeSlug ==
  /\ kind = "new"
  /\ \E s \in Slugs : slug' = s
  /\ edited' = TRUE
  /\ UNCHANGED <<kind, name, copying, keys, install>>

-----------------------------------------------------------------------------
(* The install button *)

\* beforeinstallprompt: the latest offer is kept.
BeforeInstallPrompt ==
  /\ kind = "install"
  /\ \E e \in Offers \ offered : offer' = e /\ offered' = offered \cup {e}
  /\ visible' = TRUE
  /\ UNCHANGED <<kind, prompted, copying, keys, naming>>

\* A click prompts the offer of now, once for every event there was.
Prompt ==
  /\ kind = "install" /\ visible
  /\ prompted' = prompted \cup {offer}
  /\ UNCHANGED <<kind, offer, visible, offered, copying, keys, naming>>

\* Mutant: the install button is not hidden.
UserChoice_Shown ==
  /\ \E e \in prompted : prompted' = prompted \ {e}
  /\ offer' = NoOffer
  /\ UNCHANGED <<kind, visible, offered, copying, keys, naming>>

\* The user has chosen what to do with a prompted offer.
UserChoice ==
  /\ \E e \in prompted : prompted' = prompted \ {e}
  /\ offer' = NoOffer /\ visible' = FALSE
  /\ UNCHANGED <<kind, offered, copying, keys, naming>>

-----------------------------------------------------------------------------

UseWidget == Copy \/ CopyKeys \/ Check \/ TypeName \/ TypeSlug \/ Prompt

ChangeWidget == \/ KeysCopied \/ KeysNotCopied \/ Expire \/ Dismiss
                \/ BeforeInstallPrompt \/ UserChoice
=============================================================================
