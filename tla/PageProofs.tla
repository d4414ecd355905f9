----------------------------- MODULE PageProofs ------------------------------
(***************************************************************************)
(* Proofs about Page for any number of tabs and forms, names of any        *)
(* length, any offers: what ConfirmFormsProofs proves of the dialog holds  *)
(* on a page with everything else, and so do promises of the theme and of  *)
(* the copy buttons, the types, and what the slug says of the name.        *)
(*                                                                         *)
(* The hyphenated text is a function defined by recursion on the length of *)
(* the name.  That there is one is the lemma Recursion, and what holds at  *)
(* every length is shown by looking at the least length where it would     *)
(* not.                                                                    *)
(***************************************************************************)
EXTENDS PageProps, ConfirmFormsProofs, FiniteSetTheorems, FunctionTheorems,
        WellFoundedInduction

USE ThemeAssumption, PageAssumption

-----------------------------------------------------------------------------
(* The dialog on the page *)

LEMMA DialogStep ==
  ASSUME [PageNext]_pageVars
  PROVE  [Next]_vars
<1>1. CASE UNCHANGED pageVars
  BY <1>1 DEF pageVars
<1>2. CASE UseForm
  BY <1>2 DEF UseForm, Next
<1>3. CASE FormClosed
  BY <1>3 DEF FormClosed, Next
<1>4. CASE Widget
  BY <1>4 DEF Widget
<1>5. CASE Load
  BY <1>5 DEF Load, Next
<1>6. CASE \E t \in Tabs : Restyled(t) \/ CookieSet(t) \/ Stored(t) \/ Elsewhere(t)
  BY <1>6 DEF Restyled, CookieSet, Stored, Elsewhere
<1>7. QED BY <1>1, <1>2, <1>3, <1>4, <1>5, <1>6, Zenon DEF PageNext

\* On the page the dialog behaves as ConfirmForms.
LEMMA DialogSpec == PageSpec => Spec
<1>1. PageInit => Init
  BY DEF PageInit
<1>2. [PageNext]_pageVars => [Next]_vars
  BY DialogStep
<1>3. QED BY <1>1, <1>2, PTL DEF PageSpec, Spec

\* Whatever else is used on the page, no listener of a question outlives it.
THEOREM PageQuestionsEnd ==
  ASSUME Engine
  PROVE  PageSpec => []NothingLeft
BY DialogSpec, QuestionsEnd, PTL

\* Whatever else is used on the page, only forms agreed to are sent.
THEOREM PageImplementation ==
  ASSUME Engine
  PROVE  PageSpec => OnlyAgreed
BY DialogSpec, Implementation, PTL

-----------------------------------------------------------------------------
(* The theme *)

\* Unless two tabs changed the theme at once, at most one is writing, and once
\* the cookie is set it is the one of what that tab will store.
Following ==
  ~crossed =>
    \/ (\A t \in Tabs : Returned(t)) /\ cookie = CookieFor(stored)
    \/ \E t \in Tabs :
         /\ ~Returned(t) /\ \A u \in Tabs \ {t} : Returned(u)
         /\ applying[t] = NoTheme => cookie = CookieFor(writing[t])
         /\ applying[t] # NoTheme => writing[t] = NoTheme

ThemeInv == ThemeTypeOK /\ Following

LEMMA Applies ==
  ASSUME ThemeInv, NEW t \in Tabs, NEW theme \in Themes, ApplyTheme(t, theme)
  PROVE  ThemeInv'
<1>1. /\ applying \in [Tabs -> Themes \cup {NoTheme}]
      /\ applying' = [applying EXCEPT ![t] = theme] /\ Returned(t)
      /\ UNCHANGED <<cookie, stored, writing>>
  BY DEF ApplyTheme, ThemeInv, ThemeTypeOK
<1>2. applying'[t] = theme /\ theme # NoTheme /\ writing'[t] = NoTheme
  BY <1>1 DEF Returned, Themes
<1>3. \A u \in Tabs \ {t} : applying'[u] = applying[u]
  BY <1>1
<1>4. ThemeTypeOK'
  BY <1>1 DEF ApplyTheme, ThemeInv, ThemeTypeOK
<1>5. Following'
  <2>1. SUFFICES ASSUME ~crossed' PROVE Following'
    BY DEF Following
  <2>2. \A u \in Tabs \ {t} : Returned(u)
    BY <2>1 DEF ApplyTheme
  <2>3. \A u \in Tabs \ {t} : Returned(u)'
    BY <1>1, <1>3, <2>2 DEF Returned
  <2>4. QED BY <1>2, <2>3 DEF Following, Returned
<1>6. QED BY <1>4, <1>5 DEF ThemeInv

LEMMA SetsCookie ==
  ASSUME ThemeInv, NEW t \in Tabs, SetCookie(t)
  PROVE  ThemeInv'
<1>1. /\ applying \in [Tabs -> Themes \cup {NoTheme}]
      /\ writing \in [Tabs -> Themes \cup {NoTheme}] /\ applying[t] # NoTheme
      /\ applying' = [applying EXCEPT ![t] = NoTheme]
      /\ writing' = [writing EXCEPT ![t] = applying[t]]
      /\ cookie' = CookieFor(applying[t]) /\ UNCHANGED <<stored, crossed>>
  BY DEF SetCookie, ThemeInv, ThemeTypeOK
<1>2. /\ applying'[t] = NoTheme /\ writing'[t] = applying[t]
      /\ \A u \in Tabs \ {t} : applying'[u] = applying[u] /\ writing'[u] = writing[u]
  BY <1>1
<1>3. applying[t] \in Themes
  BY <1>1
<1>4. ThemeTypeOK'
  <2>1. cookie' \in {"dark", "light", NoTheme}
    BY <1>1, <1>3 DEF CookieFor, Themes
  <2>2. QED BY <1>1, <1>3, <2>1 DEF ThemeInv, ThemeTypeOK
<1>5. Following'
  <2>1. SUFFICES ASSUME ~crossed' PROVE Following'
    BY DEF Following
  <2>2. \A u \in Tabs \ {t} : Returned(u)
    BY <1>1, <2>1 DEF ThemeInv, Following, Returned
  <2>3. \A u \in Tabs \ {t} : Returned(u)'
    BY <1>2, <2>2 DEF Returned
  <2>4. cookie' = CookieFor(writing'[t]) /\ writing'[t] # NoTheme
    BY <1>1, <1>2
  <2>5. QED BY <1>2, <2>3, <2>4 DEF Following, Returned
<1>6. QED BY <1>4, <1>5 DEF ThemeInv

LEMMA Stores ==
  ASSUME ThemeInv, NEW t \in Tabs, Store(t)
  PROVE  ThemeInv'
<1>1. /\ writing \in [Tabs -> Themes \cup {NoTheme}] /\ writing[t] # NoTheme
      /\ writing' = [writing EXCEPT ![t] = NoTheme] /\ stored' = writing[t]
      /\ UNCHANGED <<cookie, applying, crossed>>
  BY DEF Store, ThemeInv, ThemeTypeOK
<1>2. ThemeTypeOK'
  BY <1>1 DEF ThemeInv, ThemeTypeOK
<1>3. Following'
  <2>1. SUFFICES ASSUME ~crossed' PROVE Following'
    BY DEF Following
  <2>2. /\ applying[t] = NoTheme /\ cookie = CookieFor(writing[t])
        /\ \A u \in Tabs \ {t} : Returned(u)
    BY <1>1, <2>1 DEF ThemeInv, Following, Returned
  <2>3. \A u \in Tabs : Returned(u)'
    BY <1>1, <2>2 DEF Returned
  <2>4. QED BY <1>1, <2>2, <2>3 DEF Following
<1>4. QED BY <1>2, <1>3 DEF ThemeInv

LEMMA NextThemeType ==
  ASSUME NEW theme \in Themes
  PROVE  NextTheme(theme) \in Themes
BY DEF NextTheme, Themes

LEMMA ThemeStep ==
  ASSUME ThemeInv, [PageNext]_pageVars
  PROVE  ThemeInv'
<1>1. CASE UNCHANGED themeVars
  BY <1>1 DEF themeVars, ThemeInv, ThemeTypeOK, Following, Returned
<1>2. CASE \E t \in Tabs : Restore(t) \/ Restyle(t)
  <2>1. PICK t \in Tabs : Restore(t) \/ Restyle(t)
    BY <1>2
  <2>2. stored \in Themes
    BY DEF ThemeInv, ThemeTypeOK
  <2>3. \E theme \in Themes : ApplyTheme(t, theme)
    BY <2>1, <2>2, NextThemeType DEF Restore, Restyle, CycleTheme, SetTheme
  <2>4. QED BY <2>3, Applies
<1>3. CASE \E t \in Tabs : SetCookie(t) \/ Store(t)
  BY <1>3, SetsCookie, Stores
<1>4. CASE UseForm \/ FormClosed \/ Widget \/ UNCHANGED pageVars
  BY <1>1, <1>4 DEF UseForm, FormClosed, Widget, pageVars
<1>5. CASE Load
  BY <1>2, <1>5 DEF Load
<1>6. CASE \E t \in Tabs : Restyled(t) \/ CookieSet(t) \/ Stored(t) \/ Elsewhere(t)
  BY <1>2, <1>3, <1>6 DEF Restyled, CookieSet, Stored, Elsewhere
<1>7. QED BY <1>4, <1>5, <1>6, Zenon DEF PageNext

\* However many tabs there are and whichever changes the theme in between,
\* cookie and item agree once the handlers have returned, unless two ran at
\* once.
THEOREM ThemeFollowed == PageSpec => []CookieFollows
<1>1. PageInit => ThemeInv
  BY DEF PageInit, ThemeInit, ThemeInv, ThemeTypeOK, Following, CookieFor, Themes, Returned
<1>2. ThemeInv => CookieFollows
  BY DEF ThemeInv, Following, CookieFollows
<1>3. ThemeInv /\ [PageNext]_pageVars => ThemeInv'
  BY ThemeStep
<1>4. QED BY <1>1, <1>2, <1>3, PTL DEF PageSpec

-----------------------------------------------------------------------------
(* The copy buttons *)

\* The timers of a button will put "Copy" back, and while it says anything
\* else there is one, unless it was clicked while it said "Copied!".
Returning ==
  /\ label \in {"Copy", "Copied!"}
  /\ timers \in Seq({"Copy", "Copied!"})
  /\ ~again => /\ \A i \in DOMAIN timers : timers[i] = "Copy"
               /\ timers = <<>> => label = "Copy"

LEMMA Appended ==
  ASSUME NEW s \in Seq({"Copy", "Copied!"}), NEW x \in {"Copy", "Copied!"}
  PROVE  /\ Append(s, x) \in Seq({"Copy", "Copied!"})
         /\ Append(s, x) # <<>>
         /\ (\A i \in DOMAIN s : s[i] = "Copy") /\ x = "Copy"
            => \A i \in DOMAIN Append(s, x) : Append(s, x)[i] = "Copy"
<1>1. /\ Append(s, x) \in Seq({"Copy", "Copied!"}) /\ Len(s) \in Nat
      /\ Len(Append(s, x)) = Len(s) + 1
      /\ \A i \in 1..Len(s) : Append(s, x)[i] = s[i]
      /\ Append(s, x)[Len(s) + 1] = x
  OBVIOUS
<1>2. DOMAIN s = 1..Len(s) /\ DOMAIN Append(s, x) = 1..(Len(s) + 1)
  BY <1>1
<1>3. QED BY <1>1, <1>2

LEMMA CopyReturns ==
  ASSUME Returning, Copy
  PROVE  Returning'
<1>1. timers' = Append(timers, label) /\ label' = "Copied!"
  BY DEF Copy
<1>2. ~again' => ~again /\ label = "Copy"
  BY DEF Copy, Returning
<1>3. QED BY <1>1, <1>2, Appended DEF Returning

LEMMA KeysReturn ==
  ASSUME Returning, KeysCopied
  PROVE  Returning'
<1>1. timers' = Append(timers, "Copy") /\ label' = "Copied!" /\ again' = again
  BY DEF KeysCopied
<1>2. QED BY <1>1, Appended DEF Returning

LEMMA ExpireReturns ==
  ASSUME Returning, Expire
  PROVE  Returning'
<1>1. timers # <<>> /\ label' = Head(timers) /\ timers' = Tail(timers) /\ again' = again
  BY DEF Expire
<1>2. timers \in Seq({"Copy", "Copied!"}) /\ Len(timers) \in Nat \ {0}
  BY <1>1 DEF Returning
<1>3. /\ Head(timers) = timers[1] /\ 1 \in DOMAIN timers
      /\ Tail(timers) \in Seq({"Copy", "Copied!"})
      /\ \A i \in DOMAIN Tail(timers) : i + 1 \in DOMAIN timers /\ Tail(timers)[i] = timers[i + 1]
  BY <1>1, <1>2
<1>4. label' \in {"Copy", "Copied!"}
  BY <1>1, <1>2, <1>3
<1>5. QED BY <1>1, <1>3, <1>4 DEF Returning

LEMMA WidgetReturns ==
  ASSUME Returning, UseWidget \/ ChangeWidget
  PROVE  Returning'
<1>1. CASE UNCHANGED <<label, timers, again>>
  BY <1>1 DEF Returning
<1>2. CASE Copy
  BY <1>2, CopyReturns
<1>3. CASE KeysCopied
  BY <1>3, KeysReturn
<1>4. CASE Expire
  BY <1>4, ExpireReturns
<1>5. CASE CopyKeys \/ KeysNotCopied \/ Dismiss
  BY <1>1, <1>5 DEF CopyKeys, KeysNotCopied, Dismiss
<1>6. CASE Check \/ TypeName \/ TypeSlug
  BY <1>1, <1>6 DEF Check, TypeName, TypeSlug, copying
<1>7. CASE Prompt \/ BeforeInstallPrompt \/ UserChoice
  BY <1>1, <1>7 DEF Prompt, BeforeInstallPrompt, UserChoice, copying
<1>8. QED BY <1>2, <1>3, <1>4, <1>5, <1>6, <1>7, Zenon DEF UseWidget, ChangeWidget

LEMMA ReturnStep ==
  ASSUME Returning, [PageNext]_pageVars
  PROVE  Returning'
<1>1. CASE UNCHANGED widgetVars
  BY <1>1 DEF widgetVars, copying, Returning
<1>2. CASE UseForm \/ FormClosed \/ UNCHANGED pageVars
  BY <1>1, <1>2 DEF UseForm, FormClosed, pageVars
<1>3. CASE Widget
  BY <1>3, WidgetReturns DEF Widget
<1>4. CASE Load
  BY <1>4 DEF Load, ShowPage, Returning
<1>5. CASE \E t \in Tabs : Restyled(t) \/ CookieSet(t) \/ Stored(t) \/ Elsewhere(t)
  BY <1>1, <1>5 DEF Restyled, CookieSet, Stored, Elsewhere
<1>6. QED BY <1>2, <1>3, <1>4, <1>5, Zenon DEF PageNext

\* For any number of clicks and clipboard writes under way, a copy button that
\* was not clicked while it said "Copied!" says "Copy" in the end.
THEOREM LabelsReturn == PageSpec => []LabelReturns
<1>1. PageInit => Returning
  BY DEF PageInit, WidgetInit, Returning
<1>2. Returning => LabelReturns
  BY DEF Returning, LabelReturns
<1>3. Returning /\ [PageNext]_pageVars => Returning'
  BY ReturnStep
<1>4. QED BY <1>1, <1>2, <1>3, PTL DEF PageSpec

-----------------------------------------------------------------------------
(* Numbers, and functions defined by recursion on them *)

Less == OpToRel(<, Nat)

\* Every set of natural numbers with an element has a least one.
LEMMA LeastElement ==
  ASSUME NEW I \in SUBSET Nat, I # {}
  PROVE  \E i \in I : \A j \in I : i <= j
<1>1. PICK i \in I : \A j \in I : <<j, i>> \notin Less
  BY NatLessThanWellFounded, WFMin, Zenon DEF Less
<1>2. ASSUME NEW j \in I PROVE i <= j
  <2>1. <<j, i>> \in Nat \X Nat /\ <<j, i>>[1] = j /\ <<j, i>>[2] = i
    OBVIOUS
  <2>2. ~(<<j, i>>[1] < <<j, i>>[2])
    BY <1>1, <2>1, Zenon DEF Less, OpToRel
  <2>3. QED BY <2>1, <2>2
<1>3. QED BY <1>2

\* The same of a set that has a greatest element.
LEMMA GreatestElement ==
  ASSUME NEW n \in Nat, NEW I \in SUBSET (1..n), I # {}
  PROVE  \E i \in I : \A j \in I : i >= j
<1> DEFINE J == {n - i : i \in I}
<1>1. J \in SUBSET Nat /\ J # {}
  <2>1. \A i \in I : n - i \in Nat
    OBVIOUS
  <2>2. QED BY <2>1
<1> HIDE DEF J
<1>2. PICK k \in J : \A j \in J : k <= j
  BY <1>1, LeastElement
<1>3. PICK i \in I : k = n - i
  BY DEF J
<1>4. ASSUME NEW j \in I PROVE i >= j
  <2>1. n - j \in J
    BY DEF J
  <2>2. n - i <= n - j /\ i \in Int /\ j \in Int
    BY <1>2, <1>3, <2>1
  <2>3. QED BY <2>2
<1>5. QED BY <1>4

\* A value and a step from each value to the next determine a function.
Recursive(f, T, base, step) ==
  /\ f \in [Nat -> T]
  /\ f[0] = base /\ \A n \in Nat : f[n + 1] = step[n][f[n]]

LEMMA Recursion ==
  ASSUME NEW T, NEW base \in T, NEW step \in [Nat -> [T -> T]]
  PROVE  \E f : Recursive(f, T, base, step)
<1> DEFINE Part(n) == {g \in [0..n -> T] :
                         g[0] = base /\ \A i \in 0..(n - 1) : g[i + 1] = step[i][g[i]]}
           Bad == {n \in Nat : Part(n) = {}}
<1>1. Bad = {}
  <2>1. SUFFICES ASSUME Bad # {} PROVE FALSE
    OBVIOUS
  <2>2. PICK n \in Bad : \A m \in Bad : n <= m
    BY <2>1, LeastElement
  <2>3. CASE n = 0
    <3>1. [i \in 0..0 |-> base] \in Part(0)
      OBVIOUS
    <3>2. QED BY <2>3, <3>1
  <2>4. CASE n # 0
    <3>1. n - 1 \in Nat /\ n - 1 \notin Bad
      BY <2>2, <2>4
    <3>2. PICK g : g \in Part(n - 1)
      BY <3>1
    <3> DEFINE h == [i \in 0..n |-> IF i = n THEN step[n - 1][g[n - 1]] ELSE g[i]]
    <3>3. /\ g \in [0..(n - 1) -> T] /\ g[0] = base
          /\ \A i \in 0..(n - 2) : g[i + 1] = step[i][g[i]]
      BY <3>1, <3>2
    <3>4. h \in [0..n -> T]
      BY <3>1, <3>3
    <3>5. h[0] = base
      BY <2>4, <3>3
    <3>6. \A i \in 0..(n - 1) : h[i + 1] = step[i][h[i]]
      BY <3>1, <3>3
    <3>7. h \in Part(n)
      BY <3>4, <3>5, <3>6
    <3>8. QED BY <3>7
  <2>5. QED BY <2>3, <2>4
<1>2. \A n \in Nat : \E g : g \in Part(n)
  BY <1>1
<1>3. \A n \in Nat : \A g \in Part(n) :
        /\ g \in [0..n -> T] /\ g[0] = base
        /\ \A i \in 0..(n - 1) : g[i + 1] = step[i][g[i]]
  OBVIOUS
<1> HIDE DEF Part
<1>4. ASSUME NEW n \in Nat, NEW g \in Part(n), NEW h \in Part(n + 1)
      PROVE  h[n] = g[n]
  <2> DEFINE Off == {i \in 0..n : h[i] # g[i]}
  <2>1. SUFFICES ASSUME Off # {} PROVE FALSE
    OBVIOUS
  <2>2. PICK i \in Off : \A j \in Off : i <= j
    <3>1. Off \in SUBSET Nat
      OBVIOUS
    <3> HIDE DEF Off
    <3>2. QED BY <2>1, <3>1, LeastElement
  <2>3. i # 0
    <3>1. PICK m \in Nat : m = n + 1
      OBVIOUS
    <3>2. g[0] = base /\ h[0] = base
      BY <1>3, <3>1
    <3>3. QED BY <2>2, <3>2
  <2>4. i - 1 \in 0..n /\ i - 1 \notin Off
    BY <2>2, <2>3
  <2>5. h[i - 1] = g[i - 1]
    BY <2>4
  <2>6. i - 1 \in 0..(n - 1) /\ i - 1 \in 0..((n + 1) - 1) /\ (i - 1) + 1 = i
    BY <2>2, <2>3
  <2>7. g[i] = step[i - 1][g[i - 1]] /\ h[i] = step[i - 1][h[i - 1]]
    BY <1>3, <2>6
  <2>8. QED BY <2>5, <2>7
<1> DEFINE G == [n \in Nat |-> CHOOSE g : g \in Part(n)]
           f == [n \in Nat |-> G[n][n]]
<1>5. \A n \in Nat : G[n] \in Part(n)
  BY <1>2, Zenon
<1> HIDE DEF G
<1>6. f \in [Nat -> T] /\ f[0] = base
  <2>1. \A n \in Nat : G[n] \in [0..n -> T] /\ G[n][0] = base /\ n \in 0..n
    BY <1>3, <1>5
  <2>2. \A n \in Nat : G[n][n] \in T
    BY <2>1
  <2>3. QED BY <2>1, <2>2
<1>7. ASSUME NEW n \in Nat PROVE f[n + 1] = step[n][f[n]]
  <2>1. G[n] \in Part(n) /\ G[n + 1] \in Part(n + 1) /\ n \in 0..((n + 1) - 1)
    BY <1>5
  <2>2. G[n + 1][n + 1] = step[n][G[n + 1][n]]
    <3>1. PICK m \in Nat : m = n + 1
      OBVIOUS
    <3>2. \A i \in 0..(m - 1) : G[m][i + 1] = step[i][G[m][i]]
      BY <1>3, <2>1, <3>1
    <3>3. QED BY <2>1, <3>1, <3>2
  <2>3. G[n + 1][n] = G[n][n]
    BY <1>4, <2>1
  <2>4. QED BY <2>2, <2>3
<1>8. QED BY <1>6, <1>7 DEF Recursive

-----------------------------------------------------------------------------
(* The slug of a name *)

Plain  == {"a", " "}   \* the characters of a name in lower case
Marks  == {"a", "-"}   \* those of a slug

\* What is said of the first n characters of a text.
LettersTo(s, n) == {i \in 1..n : s[i] = "a"}
WordsTo(s, n)   == {i \in 1..n : s[i] = "a" /\ (i = 1 \/ s[i - 1] # "a")}
Single(s, n)    == \A i \in 1..n : i > 1 /\ s[i] = "-" => s[i - 1] = "a"

LEMMA Whole ==
  ASSUME NEW S, NEW s \in Seq(S)
  PROVE  /\ Letters(s) = Cardinality(LettersTo(s, Len(s)))
         /\ Words(s) = Cardinality(WordsTo(s, Len(s)))
<1>1. DOMAIN s = 1..Len(s)
  OBVIOUS
<1>2. QED BY <1>1 DEF Letters, Words, LettersTo, WordsTo

\* Both sets are finite, and grow with n by the n-th character at most.
LEMMA Counted ==
  ASSUME NEW s, NEW n \in Nat
  PROVE  /\ IsFiniteSet(LettersTo(s, n)) /\ IsFiniteSet(WordsTo(s, n))
         /\ Cardinality(LettersTo(s, n)) \in Nat /\ Cardinality(WordsTo(s, n)) \in Nat
<1>1. IsFiniteSet(1..n)
  BY FS_Interval
<1>2. LettersTo(s, n) \in SUBSET (1..n) /\ WordsTo(s, n) \in SUBSET (1..n)
  BY DEF LettersTo, WordsTo
<1>3. IsFiniteSet(LettersTo(s, n)) /\ IsFiniteSet(WordsTo(s, n))
  BY <1>1, <1>2, FS_Subset
<1>4. QED BY <1>3, FS_CardinalityType

LEMMA OneMore ==
  ASSUME NEW s, NEW n \in Nat
  PROVE  /\ Cardinality(LettersTo(s, n + 1))
              = Cardinality(LettersTo(s, n)) + (IF s[n + 1] = "a" THEN 1 ELSE 0)
         /\ Cardinality(WordsTo(s, n + 1))
              = Cardinality(WordsTo(s, n))
                + (IF s[n + 1] = "a" /\ (n = 0 \/ s[n] # "a") THEN 1 ELSE 0)
<1>1. n + 1 \notin LettersTo(s, n) /\ n + 1 \notin WordsTo(s, n)
  BY DEF LettersTo, WordsTo
<1>2. LettersTo(s, n + 1) = IF s[n + 1] = "a" THEN LettersTo(s, n) \cup {n + 1}
                            ELSE LettersTo(s, n)
  BY DEF LettersTo
<1>3. WordsTo(s, n + 1) = IF s[n + 1] = "a" /\ (n = 0 \/ s[n] # "a")
                          THEN WordsTo(s, n) \cup {n + 1} ELSE WordsTo(s, n)
  BY DEF WordsTo
<1>4. /\ Cardinality(LettersTo(s, n) \cup {n + 1}) = Cardinality(LettersTo(s, n)) + 1
      /\ Cardinality(WordsTo(s, n) \cup {n + 1}) = Cardinality(WordsTo(s, n)) + 1
  BY <1>1, Counted, FS_AddElement
<1>5. Cardinality(LettersTo(s, n)) \in Nat /\ Cardinality(WordsTo(s, n)) \in Nat
  BY Counted
<1>6. Cardinality(LettersTo(s, n + 1))
        = Cardinality(LettersTo(s, n)) + (IF s[n + 1] = "a" THEN 1 ELSE 0)
  BY <1>2, <1>4, <1>5
<1>7. Cardinality(WordsTo(s, n + 1))
        = Cardinality(WordsTo(s, n))
          + (IF s[n + 1] = "a" /\ (n = 0 \/ s[n] # "a") THEN 1 ELSE 0)
  <2>1. CASE s[n + 1] = "a" /\ (n = 0 \/ s[n] # "a")
    BY <1>3, <1>4, <1>5, <2>1
  <2>2. CASE ~(s[n + 1] = "a" /\ (n = 0 \/ s[n] # "a"))
    BY <1>3, <1>5, <2>2
  <2>3. QED BY <2>1, <2>2
<1>8. QED BY <1>6, <1>7

\* What a character appended adds.
LEMMA AppendCounts ==
  ASSUME NEW s \in Seq(Marks), NEW c \in Marks
  PROVE  /\ Letters(Append(s, c)) = Letters(s) + (IF c = "a" THEN 1 ELSE 0)
         /\ Words(Append(s, c))
              = Words(s) + (IF c = "a" /\ (s = <<>> \/ Last(s) # "a") THEN 1 ELSE 0)
<1>1. PICK n \in Nat : n = Len(s)
  OBVIOUS
<1>2. PICK t \in Seq(Marks) : t = Append(s, c)
  BY AppendProperties
<1>3. Len(t) = n + 1 /\ t[n + 1] = c /\ \A i \in 1..n : t[i] = s[i]
  BY <1>1, <1>2
<1>4. LettersTo(t, n) = LettersTo(s, n) /\ WordsTo(t, n) = WordsTo(s, n)
  BY <1>3 DEF LettersTo, WordsTo
<1>5. /\ Letters(s) = Cardinality(LettersTo(s, n)) /\ Words(s) = Cardinality(WordsTo(s, n))
      /\ Letters(t) = Cardinality(LettersTo(t, n + 1))
      /\ Words(t) = Cardinality(WordsTo(t, n + 1))
  BY <1>1, <1>3, Whole
<1>6. (n = 0 <=> s = <<>>) /\ (n # 0 => t[n] = Last(s))
  BY <1>1, <1>3 DEF Last
<1>7. Letters(t) = Letters(s) + (IF c = "a" THEN 1 ELSE 0)
  BY <1>3, <1>4, <1>5, OneMore
<1>8. Words(t) = Words(s) + (IF c = "a" /\ (s = <<>> \/ Last(s) # "a") THEN 1 ELSE 0)
  BY <1>3, <1>4, <1>5, <1>6, OneMore
<1>9. QED BY <1>2, <1>7, <1>8

LEMMA HyphenedType ==
  ASSUME NEW s \in Seq(Marks), NEW c
  PROVE  Hyphened(s, c) \in Seq(Marks)
BY DEF Hyphened, Marks

\* The texts that Hyphenate makes, character by character.
LEMMA HyphenateSteps ==
  ASSUME NEW S, NEW s \in Seq(S)
  PROVE  \E out \in [0..Len(s) -> Seq(Marks)] :
           /\ out[0] = <<>>
           /\ \A i \in 1..Len(s) : out[i] = Hyphened(out[i - 1], s[i])
           /\ Hyphenate(s) = out[Len(s)]
<1> DEFINE step == [n \in Nat |-> [x \in Seq(Marks) |-> Hyphened(x, s[n + 1])]]
<1>1. step \in [Nat -> [Seq(Marks) -> Seq(Marks)]] /\ <<>> \in Seq(Marks)
  BY HyphenedType
<1>2. PICK f \in [Nat -> Seq(Marks)] :
        f[0] = <<>> /\ \A n \in Nat : f[n + 1] = step[n][f[n]]
  <2> HIDE DEF step
  <2>1. \E f : Recursive(f, Seq(Marks), <<>>, step)
    BY <1>1, Recursion
  <2>2. QED BY <2>1 DEF Recursive
<1>3. \A n \in Nat : f[n + 1] = Hyphened(f[n], s[n + 1])
  BY <1>2
<1>4. PICK len \in Nat : len = Len(s)
  OBVIOUS
<1> DEFINE E(g) == [i \in 0..len |-> IF i = 0 THEN <<>> ELSE Hyphened(g[i - 1], s[i])]
           out  == [i \in 0..len |-> f[i]]
           h    == CHOOSE g : g = E(g)
<1>5. ASSUME NEW i \in 1..len PROVE f[i] = Hyphened(f[i - 1], s[i])
  <2>1. i - 1 \in Nat /\ (i - 1) + 1 = i
    OBVIOUS
  <2>2. QED BY <1>3, <2>1
<1>6. out = E(out)
  <2>1. ASSUME NEW i \in 0..len
        PROVE  f[i] = IF i = 0 THEN <<>> ELSE Hyphened(out[i - 1], s[i])
    <3>1. CASE i = 0
      BY <1>2, <3>1
    <3>2. CASE i # 0
      <4>1. i \in 1..len /\ i - 1 \in 0..len
        BY <3>2
      <4>2. QED BY <1>5, <3>2, <4>1
    <3>3. QED BY <3>1, <3>2
  <2>2. QED BY <2>1
<1>7. h = E(h)
  <2> HIDE DEF out, E
  <2>1. QED BY <1>6
<1>8. Hyphenate(s) = h[len]
  BY <1>4 DEF Hyphenate
<1> HIDE DEF h, out
<1>9. /\ h[0] = <<>>
      /\ \A i \in 1..len : i # 0 /\ i \in 0..len /\ i - 1 \in 0..len
                          /\ h[i] = Hyphened(h[i - 1], s[i])
  <2>1. \A i \in 0..len : h[i] = IF i = 0 THEN <<>> ELSE Hyphened(h[i - 1], s[i])
    BY <1>7
  <2> HIDE DEF E
  <2>2. QED BY <2>1
<1>10. h \in [0..len -> Seq(Marks)]
  <2> DEFINE Bad == {i \in 0..len : h[i] \notin Seq(Marks)}
  <2>1. Bad = {}
    <3>1. SUFFICES ASSUME Bad # {} PROVE FALSE
      OBVIOUS
    <3>2. PICK i \in Bad : \A j \in Bad : i <= j
      <4>1. Bad \in SUBSET Nat
        OBVIOUS
      <4> HIDE DEF Bad
      <4>2. QED BY <3>1, <4>1, LeastElement
    <3>3. i # 0
      BY <1>1, <1>9
    <3>4. i \in 1..len /\ i - 1 \in 0..len /\ i - 1 \notin Bad
      BY <3>2, <3>3
    <3>5. h[i - 1] \in Seq(Marks) /\ h[i] = Hyphened(h[i - 1], s[i])
      BY <1>9, <3>4
    <3>6. QED BY <3>5, HyphenedType
  <2>2. h = [i \in 0..len |-> h[i]]
    BY <1>7
  <2>3. QED BY <2>1, <2>2
<1>11. QED BY <1>4, <1>8, <1>9, <1>10

\* The text o stands for the first n characters of s: the same words, and one
\* hyphen for what is between them.
Hyphenates(o, s, n) ==
  /\ Letters(o) = Cardinality(LettersTo(s, n))
  /\ Words(o) = Cardinality(WordsTo(s, n))
  /\ o = <<>> <=> n = 0
  /\ n # 0 => (Last(o) = "a" <=> s[n] = "a")
  /\ Single(o, Len(o))

LEMMA AppendSingle ==
  ASSUME NEW o \in Seq(Marks), Single(o, Len(o)), NEW c \in Marks,
         c = "a" \/ o = <<>> \/ Last(o) = "a"
  PROVE  Single(Append(o, c), Len(Append(o, c)))
<1>1. PICK n \in Nat : n = Len(o)
  OBVIOUS
<1>2. PICK t \in Seq(Marks) : t = Append(o, c)
  BY AppendProperties
<1>3. Len(t) = n + 1 /\ t[n + 1] = c /\ \A i \in 1..n : t[i] = o[i]
  BY <1>1, <1>2
<1>4. (n = 0 <=> o = <<>>) /\ (n # 0 => t[n] = Last(o))
  BY <1>1, <1>3 DEF Last
<1>5. ASSUME NEW i \in 1..(n + 1), i > 1, t[i] = "-" PROVE t[i - 1] = "a"
  <2>1. CASE i = n + 1
    BY <1>3, <1>4, <1>5, <2>1
  <2>2. CASE i # n + 1
    <3>1. i \in 1..n /\ i - 1 \in 1..n
      BY <1>5, <2>2
    <3>2. QED BY <1>1, <1>3, <1>5, <3>1 DEF Single
  <2>3. QED BY <2>1, <2>2
<1>6. QED BY <1>2, <1>3, <1>5 DEF Single

LEMMA HyphenatesStep ==
  ASSUME NEW s \in Seq(Plain), NEW n \in Nat, n + 1 \in 1..Len(s),
         NEW o \in Seq(Marks), Hyphenates(o, s, n)
  PROVE  Hyphenates(Hyphened(o, s[n + 1]), s, n + 1)
<1>1. PICK c \in Plain : c = s[n + 1]
  OBVIOUS
<1>2. /\ Cardinality(LettersTo(s, n + 1))
           = Cardinality(LettersTo(s, n)) + (IF c = "a" THEN 1 ELSE 0)
      /\ Cardinality(WordsTo(s, n + 1))
           = Cardinality(WordsTo(s, n)) + (IF c = "a" /\ (n = 0 \/ s[n] # "a") THEN 1 ELSE 0)
  BY <1>1, OneMore
<1>3. /\ Cardinality(LettersTo(s, n)) \in Nat /\ Cardinality(WordsTo(s, n)) \in Nat
  BY Counted
<1>4. CASE c = "a"
  <2>1. PICK p \in Seq(Marks) : p = Append(o, "a")
    BY AppendProperties DEF Marks
  <2>2. Hyphened(o, c) = p
    BY <1>4, <2>1 DEF Hyphened
  <2>3. p # <<>> /\ Last(p) = "a"
    BY <2>1 DEF Last
  <2>4. Single(p, Len(p))
    BY <2>1, AppendSingle DEF Hyphenates, Marks
  <2>5. /\ Letters(p) = Letters(o) + 1
        /\ Words(p) = Words(o) + (IF o = <<>> \/ Last(o) # "a" THEN 1 ELSE 0)
    BY <2>1, AppendCounts DEF Marks
  <2>6. o = <<>> \/ Last(o) # "a" <=> n = 0 \/ s[n] # "a"
    BY DEF Hyphenates
  <2>7. Letters(p) = Cardinality(LettersTo(s, n + 1))
    BY <1>2, <1>4, <2>5 DEF Hyphenates
  <2>8. Words(p) = Cardinality(WordsTo(s, n + 1))
    BY <1>2, <1>4, <2>5, <2>6 DEF Hyphenates
  <2>9. Hyphenates(p, s, n + 1)
    BY <1>1, <1>4, <2>3, <2>4, <2>7, <2>8 DEF Hyphenates
  <2>10. QED BY <1>1, <2>2, <2>9
<1>5. CASE c # "a" /\ o # <<>> /\ Last(o) = "-"
  <2>1. Hyphened(o, c) = o
    BY <1>5 DEF Hyphened
  <2>2. Letters(o) = Cardinality(LettersTo(s, n + 1))
    BY <1>2, <1>3, <1>5 DEF Hyphenates
  <2>3. Words(o) = Cardinality(WordsTo(s, n + 1))
    BY <1>2, <1>3, <1>5 DEF Hyphenates
  <2>4. Hyphenates(o, s, n + 1)
    BY <1>1, <1>5, <2>2, <2>3 DEF Hyphenates
  <2>5. QED BY <1>1, <2>1, <2>4
<1>6. CASE c # "a" /\ ~(o # <<>> /\ Last(o) = "-")
  <2>1. PICK p \in Seq(Marks) : p = Append(o, "-")
    BY AppendProperties DEF Marks
  <2>2. Hyphened(o, c) = p
    BY <1>6, <2>1 DEF Hyphened
  <2>3. p # <<>> /\ Last(p) = "-"
    BY <2>1 DEF Last
  <2>4. o = <<>> \/ Last(o) = "a"
    BY <1>6 DEF Last, Marks
  <2>5. Single(p, Len(p))
    BY <2>1, <2>4, AppendSingle DEF Hyphenates, Marks
  <2>6. Letters(p) = Letters(o) + 0 /\ Words(p) = Words(o) + 0
    BY <2>1, AppendCounts DEF Marks
  <2>7. Letters(p) = Cardinality(LettersTo(s, n + 1))
    BY <1>2, <1>3, <1>6, <2>6 DEF Hyphenates
  <2>8. Words(p) = Cardinality(WordsTo(s, n + 1))
    BY <1>2, <1>3, <1>6, <2>6 DEF Hyphenates
  <2>9. Hyphenates(p, s, n + 1)
    BY <1>1, <1>6, <2>3, <2>5, <2>7, <2>8 DEF Hyphenates
  <2>10. QED BY <1>1, <2>2, <2>9
<1>7. QED BY <1>4, <1>5, <1>6

\* What Hyphenate makes of a whole text.
LEMMA Hyphenated ==
  ASSUME NEW s \in Seq(Plain)
  PROVE  Hyphenate(s) \in Seq(Marks) /\ Hyphenates(Hyphenate(s), s, Len(s))
<1>1. PICK len \in Nat : len = Len(s)
  OBVIOUS
<1>2. PICK out \in [0..len -> Seq(Marks)] :
        /\ out[0] = <<>>
        /\ \A i \in 1..len : out[i] = Hyphened(out[i - 1], s[i])
        /\ Hyphenate(s) = out[len]
  BY <1>1, HyphenateSteps
<1> DEFINE Bad == {i \in 0..len : ~Hyphenates(out[i], s, i)}
<1>3. Bad = {}
  <2>1. SUFFICES ASSUME Bad # {} PROVE FALSE
    OBVIOUS
  <2>2. PICK i \in Bad : \A j \in Bad : i <= j
    <3>1. Bad \in SUBSET Nat
      OBVIOUS
    <3> HIDE DEF Bad
    <3>2. QED BY <2>1, <3>1, LeastElement
  <2>3. CASE i = 0
    <3>1. LettersTo(s, 0) = {} /\ WordsTo(s, 0) = {}
      BY DEF LettersTo, WordsTo
    <3>2. Letters(<<>>) = 0 /\ Words(<<>>) = 0
      <4>1. {j \in DOMAIN <<>> : <<>>[j] = "a"} = {}
        OBVIOUS
      <4>2. {j \in DOMAIN <<>> : <<>>[j] = "a" /\ (j = 1 \/ <<>>[j - 1] # "a")} = {}
        OBVIOUS
      <4>3. QED BY <4>1, <4>2, FS_EmptySet DEF Letters, Words
    <3>3. Single(<<>>, Len(<<>>))
      BY DEF Single
    <3>4. Hyphenates(<<>>, s, 0)
      BY <3>1, <3>2, <3>3, FS_EmptySet DEF Hyphenates
    <3>5. QED BY <1>2, <2>3, <3>4
  <2>4. CASE i # 0
    <3>1. PICK n \in Nat : n = i - 1 /\ n + 1 = i /\ n \in 0..len /\ n + 1 \in 1..len
      BY <2>2, <2>4
    <3>2. n \notin Bad
      BY <2>2, <3>1
    <3>3. Hyphenates(out[n], s, n) /\ out[n] \in Seq(Marks)
      BY <3>1, <3>2
    <3>4. Hyphenates(Hyphened(out[n], s[n + 1]), s, n + 1)
      BY <1>1, <3>1, <3>3, HyphenatesStep
    <3>5. out[i] = Hyphened(out[n], s[n + 1])
      BY <1>2, <3>1
    <3>6. QED BY <2>2, <3>1, <3>4, <3>5
  <2>5. QED BY <2>3, <2>4
<1>4. len \in 0..len
  OBVIOUS
<1>5. QED BY <1>1, <1>2, <1>3, <1>4

\* A name in lower case, where a letter may have become a letter and a mark.
LEMMA LowerType ==
  ASSUME NEW s \in Seq(Characters)
  PROVE  Lower(s) \in Seq(Plain)
<1>1. PICK len \in Nat : len = Len(s)
  OBVIOUS
<1> DEFINE piece(c) == IF c = "I." THEN <<"a", " ">> ELSE IF c = "A" THEN <<"a">> ELSE <<c>>
           seqs == [i \in DOMAIN s |-> piece(s[i])]
<1>2. ASSUME NEW c \in Characters PROVE piece(c) \in Seq(Plain)
  <2>1. CASE c = "I."
    <3>1. <<"a", " ">> \in Seq(Plain)
      BY DEF Plain
    <3>2. QED BY <2>1, <3>1
  <2>2. CASE c = "A"
    <3>1. <<"a">> \in Seq(Plain)
      BY DEF Plain
    <3>2. QED BY <2>2, <3>1
  <2>3. CASE c # "I." /\ c # "A"
    <3>1. c \in Plain
      BY <2>3 DEF Characters, Plain
    <3>2. <<c>> \in Seq(Plain)
      BY <3>1
    <3>3. QED BY <2>3, <3>2
  <2>4. QED BY <2>1, <2>2, <2>3
<1>3. DOMAIN s = 1..len /\ \A i \in 1..len : s[i] \in Characters
  BY <1>1
<1> HIDE DEF piece
<1>4. seqs \in [1..len -> Seq(Plain)]
  BY <1>2, <1>3
<1>5. Len(seqs) = len
  BY <1>4
<1>6. Lower(s) = FlattenSeq(seqs)
  BY DEF Lower, piece
<1> HIDE DEF seqs
<1> DEFINE E(g) == [i \in 1..len |-> IF i = 1 THEN seqs[i] ELSE g[i - 1] \o seqs[i]]
           h    == CHOOSE g : g = E(g)
<1>7. len = 0 => FlattenSeq(seqs) = <<>>
  BY <1>4, <1>5 DEF FlattenSeq
<1>8. len # 0 => FlattenSeq(seqs) = h[len]
  BY <1>5 DEF FlattenSeq
<1>9. ASSUME len # 0 PROVE h[len] \in Seq(Plain)
  <2> DEFINE all  == [n \in Nat |-> IF n \in 1..len THEN seqs[n] ELSE <<>>]
             step == [n \in Nat |-> [x \in Seq(Plain) |-> x \o all[n + 1]]]
  <2>1. /\ all \in [Nat -> Seq(Plain)] /\ <<>> \in Seq(Plain)
        /\ \A n \in 1..len : all[n] = seqs[n]
    BY <1>4
  <2>2. step \in [Nat -> [Seq(Plain) -> Seq(Plain)]]
    <3> HIDE DEF all
    <3>1. \A n \in Nat, x \in Seq(Plain) : x \o all[n + 1] \in Seq(Plain)
      BY <2>1
    <3>2. QED BY <3>1
  <2>3. PICK f : Recursive(f, Seq(Plain), <<>>, step)
    <3> HIDE DEF step
    <3>1. QED BY <2>1, <2>2, Recursion
  <2>4. f \in [Nat -> Seq(Plain)] /\ f[0] = <<>>
        /\ \A n \in Nat : f[n + 1] = f[n] \o all[n + 1]
    BY <2>3 DEF Recursive
  <2> HIDE DEF all, step
  <2>5. ASSUME NEW n \in Nat, n + 1 \in 1..len
        PROVE  f[n + 1] = f[n] \o seqs[n + 1]
    BY <2>1, <2>4, <2>5
  <2>6. f[1] = seqs[1]
    <3>1. PICK n \in Nat : n = 0 /\ n + 1 = 1
      OBVIOUS
    <3>2. n + 1 \in 1..len
      BY <1>9, <3>1
    <3>3. f[n + 1] = f[n] \o seqs[n + 1]
      BY <2>5, <3>2
    <3>4. f[n] = <<>>
      BY <2>4, <3>1
    <3>5. seqs[1] \in Seq(Plain)
      BY <1>4, <1>9
    <3>6. QED BY <3>1, <3>3, <3>4, <3>5, ConcatEmptySeq
  <2> DEFINE out == [i \in 1..len |-> f[i]]
  <2>7. out = E(out)
    <3>1. ASSUME NEW i \in 1..len
          PROVE  f[i] = IF i = 1 THEN seqs[i] ELSE out[i - 1] \o seqs[i]
      <4>1. CASE i = 1
        BY <2>6, <4>1
      <4>2. CASE i # 1
        <5>1. PICK n \in Nat : n = i - 1 /\ n + 1 = i /\ n \in 1..len
          BY <4>2
        <5>2. f[n + 1] = f[n] \o seqs[n + 1]
          BY <2>5, <5>1
        <5>3. QED BY <4>2, <5>1, <5>2
      <4>3. QED BY <4>1, <4>2
    <3>2. QED BY <3>1
  <2>8. h = E(h)
    <3> HIDE DEF out, E
    <3>1. QED BY <2>7
  <2> HIDE DEF h
  <2>9. \A i \in 1..len : h[i] = IF i = 1 THEN seqs[i] ELSE h[i - 1] \o seqs[i]
    BY <2>8
  <2> DEFINE Bad == {i \in 1..len : h[i] \notin Seq(Plain)}
  <2>10. Bad = {}
    <3>1. SUFFICES ASSUME Bad # {} PROVE FALSE
      OBVIOUS
    <3>2. PICK i \in Bad : \A j \in Bad : i <= j
      <4>1. Bad \in SUBSET Nat
        OBVIOUS
      <4> HIDE DEF Bad
      <4>2. QED BY <3>1, <4>1, LeastElement
    <3>3. CASE i = 1
      BY <1>4, <2>9, <3>3
    <3>4. CASE i # 1
      <4>1. i - 1 \in 1..len /\ i - 1 \notin Bad
        BY <3>2, <3>4
      <4>2. h[i - 1] \in Seq(Plain) /\ seqs[i] \in Seq(Plain)
        BY <1>4, <4>1
      <4>3. h[i] = h[i - 1] \o seqs[i]
        BY <2>9, <3>4
      <4>4. QED BY <4>2, <4>3, ConcatProperties
    <3>5. QED BY <3>3, <3>4
  <2>11. len \in 1..len
    BY <1>9
  <2>12. QED BY <2>10, <2>11
<1>10. <<>> \in Seq(Plain)
  OBVIOUS
<1>11. QED BY <1>6, <1>7, <1>8, <1>9, <1>10

\* Numbers shifted are as many.
LEMMA Shifted ==
  ASSUME NEW J \in SUBSET Nat, IsFiniteSet(J), NEW d \in Nat
  PROVE  Cardinality({k + d : k \in J}) = Cardinality(J)
<1> DEFINE B == {k + d : k \in J}
           F == [k \in J |-> k + d]
<1>1. F \in [J -> B] /\ \A j, k \in J : F[j] = F[k] => j = k
  OBVIOUS
<1>2. \A b \in B : \E k \in J : F[k] = b
  OBVIOUS
<1> HIDE DEF F, B
<1>3. F \in Bijection(J, B)
  BY <1>1, <1>2, Fun_IsBij
<1>4. ExistsBijection(J, B)
  BY <1>3, Fun_ExistsBij
<1>5. Cardinality(B) = Cardinality(J)
  BY <1>4, FS_Bijection
<1>6. QED BY <1>5 DEF B

\* Trimming keeps letters and words, and leaves no hyphen at the ends.
LEMMA Trimmed ==
  ASSUME NEW t \in Seq(Marks), Single(t, Len(t)), NEW u, u = Trim(t)
  PROVE  /\ u \in Seq(Marks)
         /\ Letters(u) = Letters(t) /\ Words(u) = Words(t)
         /\ Single(u, Len(u))
         /\ u # <<>> => u[1] = "a" /\ u[Len(u)] = "a"
<1>1. PICK len \in Nat : len = Len(t) /\ DOMAIN t = 1..len
  OBVIOUS
<1> DEFINE inner == {i \in DOMAIN t : t[i] # "-"}
<1>2. inner = LettersTo(t, len)
  BY <1>1 DEF LettersTo, Marks
<1>3. /\ Letters(t) = Cardinality(LettersTo(t, len))
      /\ Words(t) = Cardinality(WordsTo(t, len))
  BY <1>1, Whole
<1>4. CASE inner = {}
  <2>1. u = <<>> /\ LettersTo(t, len) = {} /\ WordsTo(t, len) = {}
    BY <1>2, <1>4 DEF Trim, LettersTo, WordsTo
  <2>2. LettersTo(u, Len(u)) = {} /\ WordsTo(u, Len(u)) = {} /\ Single(u, Len(u))
    BY <2>1 DEF LettersTo, WordsTo, Single
  <2>3. u \in Seq(Marks)
    BY <2>1
  <2>4. QED BY <1>3, <2>1, <2>2, <2>3, Whole
<1>5. CASE inner # {}
  <2>1. inner \in SUBSET Nat /\ inner \in SUBSET (1..len)
    BY <1>1
  <2>2. PICK i \in inner : i = Min(inner) /\ \A k \in inner : i <= k
    <3> HIDE DEF inner
    <3>1. QED BY <1>5, <2>1, LeastElement DEF Min
  <2>3. PICK j \in inner : j = Max(inner) /\ \A k \in inner : j >= k
    <3> HIDE DEF inner
    <3>1. QED BY <1>5, <2>1, GreatestElement DEF Max
  <2>4. /\ i \in 1..len /\ j \in 1..len /\ i <= j /\ t[i] = "a" /\ t[j] = "a"
        /\ \A k \in 1..len : t[k] = "a" => i <= k /\ k <= j
    BY <1>1, <2>2, <2>3 DEF Marks
  <2>5. u = SubSeq(t, i, j)
    BY <1>5, <2>2, <2>3 DEF Trim
  <2>6. PICK d \in Nat : d = i - 1
    BY <2>4
  <2>7. PICK m \in Nat : m = j - d /\ m > 0
    BY <2>4, <2>6
  <2>8. /\ u \in Seq(Marks) /\ Len(u) = m
        /\ \A k \in 1..m : u[k] = t[k + d]
    <3>1. u \in Seq(Marks) /\ Len(u) = j - i + 1 /\ \A k \in 1..(j - i + 1) : u[k] = t[i + k - 1]
      BY <1>1, <2>4, <2>5, SubSeqProperties
    <3>2. j - i + 1 = m /\ \A k \in 1..m : i + k - 1 = k + d
      BY <2>4, <2>6, <2>7
    <3>3. QED BY <3>1, <3>2
  <2>9. /\ Letters(u) = Cardinality(LettersTo(u, m)) /\ Words(u) = Cardinality(WordsTo(u, m))
    BY <2>8, Whole
  <2>10. LettersTo(t, len) = {k + d : k \in LettersTo(u, m)}
    <3>1. ASSUME NEW k \in LettersTo(u, m) PROVE k + d \in LettersTo(t, len)
      BY <2>4, <2>6, <2>7, <2>8 DEF LettersTo
    <3>2. ASSUME NEW k \in LettersTo(t, len)
          PROVE  k - d \in LettersTo(u, m) /\ k = (k - d) + d
      <4>1. k \in 1..len /\ t[k] = "a" /\ i <= k /\ k <= j
        BY <2>4 DEF LettersTo
      <4>2. k - d \in 1..m /\ (k - d) + d = k
        BY <2>6, <2>7, <4>1
      <4>3. QED BY <2>8, <4>1, <4>2 DEF LettersTo
    <3>3. QED BY <3>1, <3>2
  <2>11. WordsTo(t, len) = {k + d : k \in WordsTo(u, m)}
    <3>1. ASSUME NEW k \in WordsTo(u, m) PROVE k + d \in WordsTo(t, len)
      <4>1. k \in 1..m /\ u[k] = "a" /\ (k = 1 \/ u[k - 1] # "a")
        BY DEF WordsTo
      <4>2. k + d \in 1..len /\ t[k + d] = "a"
        BY <2>4, <2>6, <2>7, <2>8, <4>1
      <4>3. CASE k = 1
        <5>1. k + d = i /\ (i = 1 \/ (i - 1 \in 1..len /\ ~(i <= i - 1)))
          BY <2>4, <2>6, <4>3
        <5>2. i = 1 \/ t[i - 1] # "a"
          BY <2>4, <5>1
        <5>3. QED BY <4>2, <5>1, <5>2 DEF WordsTo
      <4>4. CASE k # 1
        <5>1. k - 1 \in 1..m /\ (k - 1) + d = (k + d) - 1
          BY <4>1, <4>4
        <5>2. t[(k + d) - 1] # "a"
          BY <2>8, <4>1, <4>4, <5>1
        <5>3. QED BY <4>2, <5>2 DEF WordsTo
      <4>5. QED BY <4>3, <4>4
    <3>2. ASSUME NEW k \in WordsTo(t, len)
          PROVE  k - d \in WordsTo(u, m) /\ k = (k - d) + d
      <4>1. k \in 1..len /\ t[k] = "a" /\ i <= k /\ k <= j /\ (k = 1 \/ t[k - 1] # "a")
        BY <2>4 DEF WordsTo
      <4>2. k - d \in 1..m /\ (k - d) + d = k
        BY <2>6, <2>7, <4>1
      <4>3. u[k - d] = "a"
        BY <2>8, <4>1, <4>2
      <4>4. k - d = 1 \/ u[(k - d) - 1] # "a"
        <5>1. SUFFICES ASSUME k - d # 1 PROVE u[(k - d) - 1] # "a"
          OBVIOUS
        <5>2. (k - d) - 1 \in 1..m /\ ((k - d) - 1) + d = k - 1 /\ k # 1
          BY <4>2, <5>1
        <5>3. QED BY <2>8, <4>1, <5>2
      <4>5. QED BY <4>2, <4>3, <4>4 DEF WordsTo
    <3>3. QED BY <3>1, <3>2
  <2>12. Letters(u) = Letters(t) /\ Words(u) = Words(t)
    <3>1. LettersTo(u, m) \in SUBSET Nat /\ WordsTo(u, m) \in SUBSET Nat
      BY DEF LettersTo, WordsTo
    <3>2. IsFiniteSet(LettersTo(u, m)) /\ IsFiniteSet(WordsTo(u, m))
      BY Counted
    <3>3. QED BY <1>3, <2>9, <2>10, <2>11, <3>1, <3>2, Shifted
  <2>13. ASSUME NEW k \in 1..m, k > 1, u[k] = "-" PROVE u[k - 1] = "a"
    <3>1. k - 1 \in 1..m /\ (k - 1) + d = (k + d) - 1 /\ k + d \in 1..len /\ k + d > 1
      BY <2>4, <2>6, <2>7, <2>13
    <3>2. t[(k + d) - 1] = "a"
      BY <1>1, <2>8, <2>13, <3>1 DEF Single
    <3>3. QED BY <2>8, <3>1, <3>2
  <2>14. u[1] = "a" /\ u[m] = "a"
    <3>1. 1 \in 1..m /\ m \in 1..m /\ 1 + d = i /\ m + d = j
      BY <2>4, <2>6, <2>7
    <3>2. QED BY <2>4, <2>8, <3>1
  <2>15. QED BY <2>8, <2>12, <2>13, <2>14 DEF Single
<1>6. QED BY <1>4, <1>5

\* What cutting a text leaves of it.
LEMMA Sliced ==
  ASSUME NEW t \in Seq(Marks), NEW u, u = Slice(t)
  PROVE  /\ u \in Seq(Marks) /\ Len(u) <= MaxSlug /\ Len(u) <= Len(t)
         /\ \A i \in 1..Len(u) : u[i] = t[i]
         /\ Len(u) < MaxSlug => u = t
         /\ Len(u) < Len(t) => Len(u) = MaxSlug
<1>1. PICK len \in Nat : len = Len(t)
  OBVIOUS
<1>2. MaxSlug \in Nat \ {0}
  BY WidgetAssumption
<1>3. PICK m \in {len, MaxSlug} : m = Min({len, MaxSlug}) /\ m <= len /\ m <= MaxSlug
  <2> DEFINE I == {len, MaxSlug}
  <2>1. I \in SUBSET Nat /\ I # {}
    BY <1>2
  <2> HIDE DEF I
  <2>2. PICK m \in I : m = Min(I) /\ \A k \in I : m <= k
    BY <2>1, LeastElement DEF Min
  <2>3. QED BY <2>2 DEF I
<1>4. u = SubSeq(t, 1, m) /\ m \in Nat
  BY <1>1, <1>2, <1>3 DEF Slice
<1>5. u \in Seq(Marks) /\ Len(u) = m /\ \A i \in 1..m : u[i] = t[i]
  <2>1. 1 \in 1..(Len(t) + 1) /\ m \in 0..Len(t)
    BY <1>1, <1>3, <1>4
  <2>2. /\ SubSeq(t, 1, m) \in Seq(Marks)
        /\ Len(SubSeq(t, 1, m)) = IF 1 <= m THEN m - 1 + 1 ELSE 0
        /\ \A i \in 1..(m - 1 + 1) : SubSeq(t, 1, m)[i] = t[1 + i - 1]
    BY <2>1, SubSeqProperties
  <2>3. QED BY <1>4, <2>2
<1>6. m < MaxSlug => u = t
  <2>1. SUFFICES ASSUME m < MaxSlug PROVE u = t
    OBVIOUS
  <2>2. m = len
    BY <1>2, <1>3, <2>1
  <2>3. QED BY <1>1, <1>4, <2>2, SubSeqFull
<1>7. m < len => m = MaxSlug
  BY <1>3
<1>8. QED BY <1>1, <1>3, <1>5, <1>6, <1>7

\* The slug of every name.
LEMMA EverySlug ==
  ASSUME NEW s \in Typed
  PROVE  AutoSlug[s] \in Seq(Marks) /\ SlugOf(AutoSlug[s], s)
<1>1. PICK typed \in Seq(Plain) : typed = Lower(s)
  <2>1. s \in Seq(Characters)
    BY WidgetAssumption
  <2>2. QED BY <2>1, LowerType
<1>2. PICK h \in Seq(Marks) : h = Hyphenate(typed) /\ Hyphenates(h, typed, Len(typed))
  BY Hyphenated
<1>3. /\ Letters(h) = Letters(typed) /\ Words(h) = Words(typed)
      /\ Single(h, Len(h))
  BY <1>2, Whole DEF Hyphenates
<1>4. PICK t \in Seq(Marks) :
        /\ t = Trim(h)
        /\ Letters(t) = Letters(typed) /\ Words(t) = Words(typed)
        /\ Single(t, Len(t))
        /\ t # <<>> => t[1] = "a" /\ t[Len(t)] = "a"
  BY <1>3, Trimmed
<1>5. PICK u \in Seq(Marks) :
        /\ u = Slice(t) /\ Len(u) <= MaxSlug /\ Len(u) <= Len(t)
        /\ \A i \in 1..Len(u) : u[i] = t[i]
        /\ Len(u) < MaxSlug => u = t
        /\ Len(u) < Len(t) => Len(u) = MaxSlug
  BY Sliced
<1>6. AutoSlug[s] = u
  BY <1>1, <1>2, <1>4, <1>5 DEF AutoSlug
<1>7. PICK m \in Nat : m = Len(u) /\ DOMAIN u = 1..m
  OBVIOUS
<1>8. PICK len \in Nat : len = Len(t) /\ DOMAIN t = 1..len
  OBVIOUS
<1>9. Letters(u) <= Letters(typed) /\ Words(u) <= Words(typed)
  <2>1. LettersTo(u, m) \in SUBSET LettersTo(t, len) /\ WordsTo(u, m) \in SUBSET WordsTo(t, len)
    <3>1. \A i \in 1..m : i \in 1..len /\ u[i] = t[i]
      BY <1>5, <1>7, <1>8
    <3>2. \A i \in 1..m : i = 1 \/ i - 1 \in 1..m
      OBVIOUS
    <3>3. QED BY <3>1, <3>2 DEF LettersTo, WordsTo
  <2>2. /\ Cardinality(LettersTo(u, m)) <= Cardinality(LettersTo(t, len))
        /\ Cardinality(WordsTo(u, m)) <= Cardinality(WordsTo(t, len))
    BY <2>1, Counted, FS_Subset
  <2>3. QED BY <1>4, <1>7, <1>8, <2>2, Whole
<1>10. ASSUME NEW i \in 1..m, u[i] = "-"
       PROVE  i > 1 /\ u[i - 1] = "a" /\ (i < m \/ i = MaxSlug)
  <2>1. i \in 1..len /\ t[i] = "-" /\ len # 0
    BY <1>5, <1>7, <1>8, <1>10
  <2>2. t[1] = "a" /\ t[len] = "a"
    BY <1>4, <1>8, <2>1
  <2>3. i # 1 /\ i # len
    BY <2>1, <2>2
  <2>4. i > 1 /\ i < len /\ i - 1 \in 1..m
    BY <1>10, <2>1, <2>3
  <2>5. t[i - 1] = "a"
    BY <1>4, <1>8, <2>1, <2>4 DEF Single
  <2>6. u[i - 1] = "a"
    BY <1>5, <1>7, <2>4, <2>5
  <2>7. i < m \/ i = MaxSlug
    BY <1>5, <1>7, <1>8, <2>4
  <2>8. QED BY <2>4, <2>6, <2>7
<1>11. Len(u) < MaxSlug => Letters(u) = Letters(typed) /\ Words(u) = Words(typed)
  BY <1>4, <1>5
<1>12. SlugOf(u, s)
  BY <1>1, <1>7, <1>9, <1>10, <1>11 DEF SlugOf
<1>13. QED BY <1>6, <1>12

LEMMA EmptySlug == AutoSlug[<<>>] = <<>>
<1>1. <<>> \in Typed /\ <<>> \in Seq(Characters) /\ <<>> \in Seq(Plain)
  BY WidgetAssumption
<1>2. Lower(<<>>) = <<>>
  <2> DEFINE piece(c) == IF c = "I." THEN <<"a", " ">> ELSE IF c = "A" THEN <<"a">> ELSE <<c>>
             seqs == [i \in DOMAIN <<>> |-> piece(<<>>[i])]
  <2>1. seqs = <<>>
    OBVIOUS
  <2>2. Lower(<<>>) = FlattenSeq(seqs)
    BY DEF Lower
  <2>3. QED BY <2>1, <2>2 DEF FlattenSeq
<1>3. Hyphenate(<<>>) = <<>>
  BY <1>1, Hyphenated DEF Hyphenates
<1>4. Trim(<<>>) = <<>>
  BY DEF Trim
<1>5. Slice(<<>>) = <<>>
  <2>1. PICK t \in Seq(Marks) : t = <<>>
    <3>1. <<>> \in Seq(Marks)
      OBVIOUS
    <3>2. QED BY <3>1, Zenon
  <2>2. PICK u : u = Slice(t)
    OBVIOUS
  <2>3. u \in Seq(Marks) /\ Len(u) <= 0
    BY <2>1, <2>2, Sliced
  <2>4. QED BY <2>1, <2>2, <2>3
<1>6. QED BY <1>1, <1>2, <1>3, <1>4, <1>5 DEF AutoSlug

-----------------------------------------------------------------------------
(* The types of a page *)

\* An offer was made before it is kept, and the slug that was not edited is
\* the one of the name.
InStep ==
  /\ offer # NoOffer => offer \in offered
  /\ kind = "new" /\ ~edited => slug = AutoSlug[name]

WidgetInv == WidgetTypeOK /\ InStep

LEMMA FreshWidgets ==
  /\ WidgetInit => WidgetInv
  /\ ShowPage => WidgetInv'
<1>1. <<>> \in Typed /\ MaxTimers \in Nat /\ NoOffer \notin Offers
  BY WidgetAssumption
<1>2. <<>> \in Seq({"a", "-"}) /\ <<>> \in Seq({"Copy", "Copied!"}) /\ Len(<<>>) = 0
  OBVIOUS
<1>3. ASSUME WidgetInit PROVE WidgetInv
  <2>1. kind \in Kinds /\ label = "Copy" /\ timers = <<>> /\ copies = 0 /\ name = <<>> /\ slug = <<>>
    BY <1>3 DEF WidgetInit
  <2>2. again = FALSE /\ alert = "shown" /\ checked = FALSE /\ enabled = FALSE /\ edited = FALSE
    BY <1>3 DEF WidgetInit
  <2>3. offer = NoOffer /\ visible = FALSE /\ offered = {} /\ prompted = {}
    BY <1>3 DEF WidgetInit
  <2>4. InStep
    BY <2>1, <2>3, EmptySlug DEF InStep
  <2>5. Len(timers) + copies <= MaxTimers
    BY <1>1, <1>2, <2>1
  <2>6. WidgetTypeOK
    BY <1>1, <1>2, <2>1, <2>2, <2>3, <2>5 DEF WidgetTypeOK
  <2>7. QED BY <2>4, <2>6 DEF WidgetInv
<1>4. ASSUME ShowPage PROVE WidgetInv'
  <2>1. /\ kind' \in Kinds /\ label' = "Copy" /\ timers' = <<>> /\ copies' = 0
        /\ name' = <<>> /\ slug' = <<>>
    BY <1>4 DEF ShowPage
  <2>2. /\ again' = FALSE /\ alert' = "shown" /\ checked' = FALSE /\ enabled' = FALSE
        /\ edited' = FALSE
    BY <1>4 DEF ShowPage
  <2>3. offer' = NoOffer /\ visible' = FALSE /\ offered' = {} /\ prompted' = {}
    BY <1>4 DEF ShowPage
  <2>4. AutoSlug[name'] = slug'
    BY <2>1, EmptySlug
  <2>5. InStep'
    BY <2>3, <2>4 DEF InStep
  <2>6. Len(timers') + copies' <= MaxTimers
    BY <1>1, <1>2, <2>1
  <2>7. WidgetTypeOK'
    BY <1>1, <1>2, <2>1, <2>2, <2>3, <2>6 DEF WidgetTypeOK
  <2>8. QED BY <2>5, <2>7 DEF WidgetInv
<1>5. QED BY <1>3, <1>4

\* The timers of copy buttons.
LEMMA CopyingTypes ==
  ASSUME WidgetInv, Copy \/ CopyKeys \/ KeysCopied \/ KeysNotCopied \/ Expire
  PROVE  WidgetInv'
<1>1. /\ timers \in Seq({"Copy", "Copied!"}) /\ label \in {"Copy", "Copied!"}
      /\ copies \in Nat /\ Len(timers) \in Nat /\ MaxTimers \in Nat
      /\ Len(timers) + copies <= MaxTimers /\ again \in BOOLEAN
  BY WidgetAssumption DEF WidgetInv, WidgetTypeOK
<1>2. UNCHANGED <<kind, alert, checked, enabled, name, slug, edited>>
  BY DEF Copy, CopyKeys, KeysCopied, KeysNotCopied, Expire, keys, naming
<1>3. UNCHANGED <<offer, visible, offered, prompted>>
  BY DEF Copy, CopyKeys, KeysCopied, KeysNotCopied, Expire, install
<1>4. \A x \in {"Copy", "Copied!"} :
        Append(timers, x) \in Seq({"Copy", "Copied!"}) /\ Len(Append(timers, x)) = Len(timers) + 1
  BY <1>1, AppendProperties
<1>5. /\ timers' \in Seq({"Copy", "Copied!"}) /\ label' \in {"Copy", "Copied!"}
      /\ copies' \in Nat /\ Len(timers') + copies' <= MaxTimers /\ again' \in BOOLEAN
  <2>1. CASE Copy
    BY <1>1, <1>4, <2>1 DEF Copy, Pending
  <2>2. CASE CopyKeys
    BY <1>1, <2>2 DEF CopyKeys, Pending
  <2>3. CASE KeysCopied
    BY <1>1, <1>4, <2>3 DEF KeysCopied
  <2>4. CASE KeysNotCopied
    BY <1>1, <2>4 DEF KeysNotCopied
  <2>5. CASE Expire
    <3>1. /\ Head(timers) \in {"Copy", "Copied!"} /\ Tail(timers) \in Seq({"Copy", "Copied!"})
          /\ Len(Tail(timers)) = Len(timers) - 1
      BY <1>1, <2>5 DEF Expire
    <3>2. QED BY <1>1, <2>5, <3>1 DEF Expire
  <2>6. QED BY <2>1, <2>2, <2>3, <2>4, <2>5
<1>6. QED BY <1>2, <1>3, <1>5 DEF WidgetInv, WidgetTypeOK, InStep

\* The inputs of the other widgets.
LEMMA InputTypes ==
  ASSUME WidgetInv, Dismiss \/ Check \/ TypeName \/ TypeSlug
  PROVE  WidgetInv'
<1>1. UNCHANGED <<label, timers, copies, again>>
  BY DEF Dismiss, Check, TypeName, TypeSlug, copying
<1>2. UNCHANGED <<kind, offer, visible, offered, prompted>>
  BY DEF Dismiss, Check, TypeName, TypeSlug, install
<1>3. CASE Dismiss
  BY <1>1, <1>2, <1>3 DEF Dismiss, keys, naming, WidgetInv, WidgetTypeOK, InStep
<1>4. CASE Check
  BY <1>1, <1>2, <1>4 DEF Check, naming, WidgetInv, WidgetTypeOK, InStep, copying
<1>5. CASE TypeName
  <2>1. PICK s \in Typed : name' = s /\ slug' = IF edited THEN slug ELSE AutoSlug[s]
    BY <1>5 DEF TypeName
  <2>2. UNCHANGED <<alert, checked, enabled, edited>>
    BY <1>5 DEF TypeName, keys, copying
  <2>3. slug' \in Seq({"a", "-"})
    BY <2>1, EverySlug DEF Marks, WidgetInv, WidgetTypeOK
  <2>4. QED BY <1>1, <1>2, <2>1, <2>2, <2>3 DEF WidgetInv, WidgetTypeOK, InStep
<1>6. CASE TypeSlug
  <2>1. UNCHANGED <<alert, checked, enabled, name>> /\ edited' = TRUE /\ slug' \in Slugs
    BY <1>6 DEF TypeSlug, keys, copying
  <2>2. slug' \in Seq({"a", "-"})
    BY <2>1, WidgetAssumption
  <2>3. QED BY <1>1, <1>2, <2>1, <2>2 DEF WidgetInv, WidgetTypeOK, InStep
<1>7. QED BY <1>3, <1>4, <1>5, <1>6

\* The offers to install.
LEMMA OfferTypes ==
  ASSUME WidgetInv, BeforeInstallPrompt \/ Prompt \/ UserChoice
  PROVE  WidgetInv'
<1>1. UNCHANGED <<label, timers, copies, again, alert>>
  BY DEF BeforeInstallPrompt, Prompt, UserChoice, copying
<1>2. UNCHANGED <<kind, checked, enabled, name, slug, edited>>
  BY DEF BeforeInstallPrompt, Prompt, UserChoice, keys, naming
<1>3. /\ offer' \in Offers \cup {NoOffer} /\ visible' \in BOOLEAN
      /\ visible' <=> offer' # NoOffer
      /\ offered' \subseteq Offers /\ prompted' \subseteq offered'
      /\ offer' # NoOffer => offer' \in offered'
  BY WidgetAssumption
     DEF BeforeInstallPrompt, Prompt, UserChoice, WidgetInv, WidgetTypeOK, InStep
<1>4. QED BY <1>1, <1>2, <1>3 DEF WidgetInv, WidgetTypeOK, InStep

LEMMA WidgetTypes ==
  ASSUME WidgetInv, [PageNext]_pageVars
  PROVE  WidgetInv'
<1>1. CASE UNCHANGED widgetVars
  BY <1>1 DEF widgetVars, copying, keys, naming, install, WidgetInv, WidgetTypeOK, InStep
<1>2. CASE UseWidget \/ ChangeWidget
  BY <1>2, CopyingTypes, InputTypes, OfferTypes, Zenon DEF UseWidget, ChangeWidget
<1>3. CASE Load
  BY <1>3, FreshWidgets DEF Load
<1>4. CASE UseForm \/ FormClosed \/ UNCHANGED pageVars
  BY <1>1, <1>4 DEF UseForm, FormClosed, pageVars
<1>5. CASE Widget
  BY <1>2, <1>5 DEF Widget
<1>6. CASE \E t \in Tabs : Restyled(t) \/ CookieSet(t) \/ Stored(t) \/ Elsewhere(t)
  BY <1>1, <1>6 DEF Restyled, CookieSet, Stored, Elsewhere
<1>7. QED BY <1>3, <1>4, <1>5, <1>6, Zenon DEF PageNext

LEMMA WidgetInvariant == PageSpec => []WidgetInv
<1>1. PageInit => WidgetInv
  BY FreshWidgets DEF PageInit
<1>2. QED BY <1>1, WidgetTypes, PTL DEF PageSpec

\* The type invariant of the page: of the dialog, whatever the engine has, the
\* widgets and the theme.
THEOREM PageTypes == PageSpec => []PageTypeOK
<1>1. PageSpec => []TypeOK
  BY DialogSpec, TypeCorrect, PTL
<1>2. PageSpec => []ThemeTypeOK
  <2>1. PageInit => ThemeInv
    BY DEF PageInit, ThemeInit, ThemeInv, ThemeTypeOK, Following, CookieFor, Themes, Returned
  <2>2. ThemeInv => ThemeTypeOK
    BY DEF ThemeInv
  <2>3. QED BY <2>1, <2>2, ThemeStep, PTL DEF PageSpec
<1>3. WidgetInv => WidgetTypeOK
  BY DEF WidgetInv
<1>4. TypeOK /\ WidgetTypeOK /\ ThemeTypeOK => PageTypeOK
  BY DEF PageTypeOK
<1>5. QED BY <1>1, <1>2, <1>3, <1>4, WidgetInvariant, PTL

\* Whatever name is typed, of any length, and whatever else is done: the slug
\* that was not edited has the words of the name and single hyphens between
\* them, unless it was cut.
THEOREM SlugsFromNames == PageSpec => []SlugFromName
<1>1. WidgetInv => SlugFromName
  BY EverySlug DEF WidgetInv, WidgetTypeOK, InStep, SlugFromName
<1>2. QED BY <1>1, WidgetInvariant, PTL
=============================================================================
