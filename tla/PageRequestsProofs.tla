------------------------- MODULE PageRequestsProofs --------------------------
(***************************************************************************)
(* Proofs about PageRequests for any number of tabs, authenticators and    *)
(* registrations.                                                          *)
(***************************************************************************)
EXTENDS PageRequestsProps, TLAPS

USE RequestsAssumption DEF None, Ceremonies, Choices

\* The registrations whose ceremony the server still has to know.
Waiting == {"begun", "create", "finish"}

\* What TypeOK says of the page of a tab, for a browser that has a CSRF cookie
\* if c, when b ceremonies were begun.
Fits(p, c, b) ==
  /\ p \in PageOf
  /\ p.token => c
  /\ p.pc \notin {"ready", "refused"} => p.kind = "passkeys"
  /\ p.pc \in Challenged => p.of \in 1..b

\* The rest of TypeOK.
Rest ==
  /\ csrf \in BOOLEAN
  /\ ceremony \in 0..begun /\ begun \in 0..MaxCeremony
  /\ sessions \subseteq 1..begun
  /\ passkeys \subseteq Passkey
  /\ during \in [Tabs -> SUBSET Ceremonies]
  /\ consent \in Choices \cup {"none"}
  /\ asks \in [Tabs -> SUBSET Choices]
  /\ \A t \in Tabs : asks[t] # {} => page[t].kind \in {"banner", "other"}
  /\ expected \in Choices \cup {"any"}

Pages ==
  /\ page \in [Tabs -> PageOf]
  /\ \A t \in Tabs : Fits(page[t], csrf, begun)

LEMMA Parts == TypeOK <=> Rest /\ Pages
BY DEF TypeOK, Rest, Pages, Fits, Excluding, Challenged, Waiting, Busy, At

LEMMA NoPageFits ==
  ASSUME NEW c, NEW b, NEW kind \in {"other", "passkeys", "dashboard", "banner"},
         NEW token \in BOOLEAN, token => c
  PROVE  /\ [NoPage EXCEPT !.token = token, !.kind = kind] \in PageOf
         /\ Fits([NoPage EXCEPT !.token = token, !.kind = kind], c, b)
BY DEF Fits, NoPage, PageOf, Excluding, Challenged, Waiting

LEMMA EndedFits ==
  ASSUME NEW c, NEW b, NEW p \in PageOf, Fits(p, c, b),
         NEW step \in {"ready", "refused", "accepted", "rejected", "done"},
         step \in {"ready", "refused"} \/ p.kind = "passkeys"
  PROVE  /\ Ended(p, step) \in PageOf /\ Fits(Ended(p, step), c, b)
         /\ Ended(p, step).kind = p.kind /\ Ended(p, step).pc = step
         /\ ~Ended(p, step).disturbed /\ Ended(p, step).of = None
<1>1. p.kind \in {"other", "passkeys", "dashboard", "banner"} /\ p.token \in BOOLEAN
  BY DEF PageOf
<1>2. Ended(p, step) \in PageOf
  BY <1>1 DEF Ended, NoPage, PageOf
<1>3. /\ Ended(p, step).kind = p.kind /\ Ended(p, step).token = p.token
      /\ Ended(p, step).pc = step /\ Ended(p, step).disturbed = FALSE
      /\ Ended(p, step).of = None
  BY DEF Ended, NoPage
<1>4. QED BY <1>2, <1>3 DEF Fits, Excluding, Challenged, Waiting

\* A page that is marked as disturbed stays what it is otherwise.
LEMMA Marked ==
  ASSUME NEW q \in [Tabs -> PageOf], NEW ts, NEW t \in Tabs
  PROVE  /\ Disturbed(q, ts) \in [Tabs -> PageOf]
         /\ Disturbed(q, ts)[t] \in PageOf
         /\ Disturbed(q, ts)[t].token = q[t].token
         /\ Disturbed(q, ts)[t].kind = q[t].kind
         /\ Disturbed(q, ts)[t].pc = q[t].pc
         /\ Disturbed(q, ts)[t].of = q[t].of
         /\ Disturbed(q, ts)[t].cookie = q[t].cookie
         /\ Disturbed(q, ts)[t].device = q[t].device
         /\ Disturbed(q, ts)[t].excluded = q[t].excluded
         /\ Disturbed(q, ts)[t].disturbed <=> q[t].disturbed \/ t \in ts
<1>1. \A u \in Tabs : /\ q[u] \in PageOf
                      /\ [q[u] EXCEPT !.disturbed = TRUE] \in PageOf
  BY DEF PageOf
<1>2. Disturbed(q, ts) \in [Tabs -> PageOf]
  BY <1>1 DEF Disturbed
<1>3. Disturbed(q, ts)[t] = IF t \in ts THEN [q[t] EXCEPT !.disturbed = TRUE] ELSE q[t]
  BY DEF Disturbed
<1>4. q[t] \in PageOf
  OBVIOUS
<1>5. QED BY <1>2, <1>3, <1>4 DEF PageOf

LEMMA MarkedFits ==
  ASSUME NEW c, NEW b, NEW q \in [Tabs -> PageOf], NEW ts, NEW t \in Tabs, Fits(q[t], c, b)
  PROVE  Fits(Disturbed(q, ts)[t], c, b)
<1> DEFINE p == Disturbed(q, ts)[t]
<1>1. /\ p \in PageOf /\ p.token = q[t].token /\ p.kind = q[t].kind
      /\ p.pc = q[t].pc /\ p.of = q[t].of
  BY Marked
<1> HIDE DEF p
<1>2. Fits(p, c, b)
  BY <1>1 DEF Fits
<1>3. QED BY <1>2 DEF p

\* One tab goes to a page p.
LEMMA PageChanged ==
  ASSUME Pages, NEW t \in Tabs, NEW p \in PageOf,
         csrf \in BOOLEAN, csrf => csrf', begun \in Nat, begun' \in Nat, begun <= begun',
         Fits(p, csrf', begun')
  PROVE  /\ [page EXCEPT ![t] = p] \in [Tabs -> PageOf]
         /\ \A u \in Tabs : Fits([page EXCEPT ![t] = p][u], csrf', begun')
<1> DEFINE q == [page EXCEPT ![t] = p]
<1>1. q \in [Tabs -> PageOf]
  BY DEF Pages
<1>2. \A u \in Tabs : Fits(q[u], csrf', begun')
  <2>1. TAKE u \in Tabs
  <2>2. CASE u = t
    BY <2>2 DEF Pages
  <2>3. CASE u # t
    <3>1. q[u] = page[u] /\ Fits(page[u], csrf, begun)
      BY <2>3 DEF Pages
    <3>2. QED BY <3>1 DEF Fits
  <2>4. QED BY <2>2, <2>3
<1>3. QED BY <1>1, <1>2

LEMMA PagesSet ==
  ASSUME Pages, NEW t \in Tabs, NEW p \in PageOf,
         csrf \in BOOLEAN, csrf => csrf', begun \in Nat, begun' \in Nat, begun <= begun',
         Fits(p, csrf', begun'),
         page' = [page EXCEPT ![t] = p]
  PROVE  Pages'
<1>1. \A u \in Tabs : Fits(page'[u], csrf', begun')
  BY PageChanged
<1>2. page' \in [Tabs -> PageOf]
  BY PageChanged
<1>3. QED BY <1>1, <1>2 DEF Pages

\* The same, and others are marked.
LEMMA PagesKept ==
  ASSUME Pages, NEW t \in Tabs, NEW p \in PageOf, NEW ts,
         csrf \in BOOLEAN, csrf => csrf', begun \in Nat, begun' \in Nat, begun <= begun',
         Fits(p, csrf', begun'),
         page' = Disturbed([page EXCEPT ![t] = p], ts)
  PROVE  Pages'
<1> DEFINE q == [page EXCEPT ![t] = p]
<1>1. q \in [Tabs -> PageOf] /\ \A u \in Tabs : Fits(q[u], csrf', begun')
  BY PageChanged
<1> HIDE DEF q
<1>2. page' \in [Tabs -> PageOf]
  BY <1>1, Marked DEF q
<1>3. \A u \in Tabs : Fits(page'[u], csrf', begun')
  BY <1>1, MarkedFits DEF q
<1>4. QED BY <1>2, <1>3 DEF Pages

-----------------------------------------------------------------------------
(* The inductive invariant *)

\* Why a credential is accepted.  Until something gets in the way the server
\* knows the ceremony of a registration, the cookie holds it when the page is
\* about to send it, and the request when it was sent.
Undisturbed(p) ==
  /\ p.pc \in Waiting /\ ~p.disturbed => p.of \in sessions
  /\ p.pc = "create" /\ ~p.disturbed => ceremony = p.of
  /\ p.pc \in {"finish", "save"} /\ ~p.disturbed => p.cookie = p.of
  /\ p.pc = "rejected" => p.disturbed
  /\ p.pc = "accepted" => p.of = None
  /\ p.pc \in {"finish", "save"} => p.device \in Authenticators

\* Why an authenticator is not registered twice.  A registration excludes all
\* that were registered before it began, and remembers those that were since.
Excludes(p, d) ==
  /\ p.pc \in {"excluded", "begun", "create"}
     => \A k \in passkeys : k.device \in p.excluded \/ k.of \in d
  /\ p.pc \in {"finish", "save"}
     => \A k \in passkeys : k.device = p.device => k.of \in d

Registered(t) == Undisturbed(page[t]) /\ Excludes(page[t], during[t])

IInv == TypeOK /\ TwiceOnlyOverlapping /\ \A t \in Tabs : Registered(t)

LEMMA Known ==
  ASSUME IInv
  PROVE  /\ Rest /\ Pages /\ page \in [Tabs -> PageOf]
         /\ begun \in Nat /\ begun <= MaxCeremony /\ csrf \in BOOLEAN
         /\ \A t \in Tabs : Fits(page[t], csrf, begun)
BY Parts DEF IInv, Rest, Pages

\* A page that runs no registration satisfies both parts.
LEMMA NoRegistration ==
  ASSUME NEW t \in Tabs, page'[t].pc \notin Excluding \cup {"accepted", "rejected"}
  PROVE  Registered(t)'
BY DEF Registered, Undisturbed, Excludes, Excluding, Challenged, Waiting

\* The page of another tab, marked or not, while the ceremonies it depends on
\* stay and a new passkey is one it remembers.
LEMMA Elsewhere ==
  ASSUME IInv, NEW u \in Tabs,
         page'[u].pc = page[u].pc, page'[u].of = page[u].of,
         page'[u].cookie = page[u].cookie, page'[u].device = page[u].device,
         page'[u].excluded = page[u].excluded,
         page[u].disturbed => page'[u].disturbed,
         page[u].pc \in Waiting /\ ~page'[u].disturbed /\ page[u].of \in sessions
           => page[u].of \in sessions',
         page[u].pc = "create" /\ ~page'[u].disturbed => ceremony' = ceremony,
         \A k \in passkeys' : k \in passkeys \/ (page[u].pc \in Excluding => k.of \in during'[u]),
         during[u] \subseteq during'[u]
  PROVE  Registered(u)'
<1>1. Undisturbed(page[u]) /\ Excludes(page[u], during[u])
  BY DEF IInv, Registered
<1>2. Undisturbed(page[u])'
  BY <1>1 DEF Undisturbed
<1>3. Excludes(page[u], during[u])'
  BY <1>1 DEF Excludes, Excluding, Challenged, Waiting
<1>4. QED BY <1>2, <1>3 DEF Registered

\* A step that changes only the page of tab t, to one without registration,
\* and sets no cookie of the ceremony.
LEMMA Quits ==
  ASSUME IInv, NEW t \in Tabs, NEW p \in PageOf,
         csrf' \in BOOLEAN, csrf => csrf', UNCHANGED <<ceremony, server>>,
         Fits(p, csrf', begun), p.pc \notin Excluding \cup {"accepted", "rejected"},
         page' = [page EXCEPT ![t] = p], during' \in [Tabs -> SUBSET Ceremonies],
         \A u \in Tabs \ {t} : during'[u] = during[u],
         consent' \in Choices \cup {"none"}, asks' \in [Tabs -> SUBSET Choices],
         \A u \in Tabs : asks'[u] # {} => page'[u].kind \in {"banner", "other"},
         expected' \in Choices \cup {"any"}
  PROVE  IInv'
<1>1. begun' = begun /\ begun \in Nat
  BY Known DEF server
<1>2. Pages'
  <2>1. /\ Pages /\ begun \in Nat /\ begun' \in Nat /\ begun <= begun'
        /\ csrf \in BOOLEAN /\ Fits(p, csrf', begun')
    BY <1>1, Known
  <2>2. QED BY <2>1, PagesSet
<1>3. Rest'
  BY <1>1, Known DEF Rest, server
<1>4. \A u \in Tabs : Registered(u)'
  <2>1. TAKE u \in Tabs
  <2>2. CASE u = t
    BY <2>2, Known, NoRegistration
  <2>3. CASE u # t
    <3>1. page'[u] = page[u] /\ during'[u] = during[u]
      BY <2>3, Known DEF Rest
    <3>2. QED BY <3>1, Elsewhere DEF server
  <2>4. QED BY <2>2, <2>3
<1>5. TwiceOnlyOverlapping'
  BY DEF IInv, TwiceOnlyOverlapping, server
<1>6. TypeOK'
  BY <1>2, <1>3, Parts, PTL
<1>7. QED BY <1>4, <1>5, <1>6 DEF IInv

LEMMA Ends ==
  ASSUME IInv, NEW t \in Tabs, NEW step \in {"ready", "refused"}, End(t, step),
         UNCHANGED <<csrf, ceremony, server, banner>>
  PROVE  IInv'
<1> DEFINE p == Ended(page[t], step)
<1>1. page[t] \in PageOf /\ Fits(page[t], csrf, begun) /\ csrf' = csrf /\ csrf \in BOOLEAN
  BY Known
<1>2. p \in PageOf /\ Fits(p, csrf', begun) /\ p.kind = page[t].kind /\ p.pc = step
  BY <1>1, EndedFits
<1>3. page' = [page EXCEPT ![t] = p] /\ during' = [during EXCEPT ![t] = {}]
  BY DEF End
<1> HIDE DEF p
<1>4. /\ during' \in [Tabs -> SUBSET Ceremonies]
      /\ \A u \in Tabs \ {t} : during'[u] = during[u]
  BY <1>3, Known DEF Rest
<1>5. \A u \in Tabs : page'[u].kind = page[u].kind
  BY <1>2, <1>3, Known
<1>6. /\ consent' \in Choices \cup {"none"} /\ asks' \in [Tabs -> SUBSET Choices]
      /\ \A u \in Tabs : asks'[u] # {} => page'[u].kind \in {"banner", "other"}
      /\ expected' \in Choices \cup {"any"}
  BY <1>5, Known DEF Rest, banner
<1>7. p.pc \notin Excluding \cup {"accepted", "rejected"}
  BY <1>2 DEF Excluding, Challenged, Waiting
<1>8. /\ csrf' \in BOOLEAN /\ (csrf => csrf') /\ UNCHANGED <<ceremony, server>>
      /\ Fits(p, csrf', begun) /\ p \in PageOf /\ page' = [page EXCEPT ![t] = p]
  BY <1>1, <1>2, <1>3
<1>9. QED BY ONLY IInv, t \in Tabs, <1>4, <1>6, <1>7, <1>8, Quits

LEMMA Shows ==
  ASSUME IInv, NEW t \in Tabs, NEW kind \in {"passkeys", "dashboard", "banner", "other"},
         Show(t, kind), UNCHANGED <<ceremony, server>>,
         consent' \in Choices \cup {"none"}, expected' \in Choices \cup {"any"}
  PROVE  IInv'
<1> DEFINE k == IF kind = "banner" /\ consent' # "none" THEN "other" ELSE kind
           p == [NoPage EXCEPT !.token = csrf, !.kind = k]
<1>1. csrf \in BOOLEAN /\ csrf' = TRUE /\ k \in {"other", "passkeys", "dashboard", "banner"}
  BY Known DEF Show
<1>2. /\ page' = [page EXCEPT ![t] = p] /\ during' = [during EXCEPT ![t] = {}]
      /\ asks' = [asks EXCEPT ![t] = {}]
  BY DEF Show, NewPage
<1> HIDE DEF k
<1>3. p \in PageOf /\ Fits(p, csrf', begun)
  BY <1>1, NoPageFits
<1>4. p.pc \notin Excluding \cup {"accepted", "rejected"}
  BY DEF NoPage, Excluding, Challenged, Waiting
<1> HIDE DEF p
<1>5. /\ during' \in [Tabs -> SUBSET Ceremonies]
      /\ \A u \in Tabs \ {t} : during'[u] = during[u]
  BY <1>2, Known DEF Rest
<1>6. /\ asks' \in [Tabs -> SUBSET Choices]
      /\ \A u \in Tabs : asks'[u] # {} => page'[u].kind \in {"banner", "other"}
  BY <1>2, Known DEF Rest
<1>7. QED BY <1>1, <1>2, <1>3, <1>4, <1>5, <1>6, Quits

\* A step of the banner: the page keeps its token and runs no registration.
LEMMA Banner ==
  ASSUME IInv, NEW t \in Tabs, page[t].kind \in {"banner", "other"},
         NEW kind \in {"banner", "other"},
         page' = [page EXCEPT ![t].kind = kind],
         UNCHANGED <<csrf, ceremony, server, during>>,
         consent' \in Choices \cup {"none"}, expected' \in Choices \cup {"any"},
         asks' \in [Tabs -> SUBSET Choices],
         \A u \in Tabs \ {t} : asks'[u] = asks[u]
  PROVE  IInv'
<1> DEFINE p == [page[t] EXCEPT !.kind = kind]
<1>1. page[t] \in PageOf /\ Fits(page[t], csrf, begun) /\ csrf' = csrf /\ csrf \in BOOLEAN
  BY Known
<1>2. page[t].pc \in {"ready", "refused"}
  BY <1>1 DEF Fits
<1>3. /\ p \in PageOf /\ p.kind = kind /\ p.pc = page[t].pc /\ p.token = page[t].token
  BY <1>1 DEF PageOf
<1>4. page' = [page EXCEPT ![t] = p]
  BY Known
<1> HIDE DEF p
<1>5. Fits(p, csrf', begun) /\ p.pc \notin Excluding \cup {"accepted", "rejected"}
  BY <1>1, <1>2, <1>3 DEF Fits, Excluding, Challenged, Waiting
<1>6. /\ during' \in [Tabs -> SUBSET Ceremonies]
      /\ \A u \in Tabs \ {t} : during'[u] = during[u]
  BY Known DEF Rest
<1>7. \A u \in Tabs : asks'[u] # {} => page'[u].kind \in {"banner", "other"}
  BY <1>3, <1>4, Known DEF Rest
<1>8. csrf' \in BOOLEAN /\ (csrf => csrf') /\ UNCHANGED <<ceremony, server>>
  BY <1>1
<1>9. Fits(p, csrf', begun) /\ p \in PageOf /\ page' = [page EXCEPT ![t] = p]
  BY <1>3, <1>4, <1>5
<1>10. QED
  BY <1>5, <1>6, <1>7, <1>8, <1>9, Quits

LEMMA BannerSteps ==
  ASSUME IInv, NEW t \in Tabs, NEW c \in Choices,
         \/ Choose(t, c) \/ ChoiceLost(t, c)
         \/ \E ok \in BOOLEAN : Chosen(t, c, ok)
  PROVE  IInv'
<1>1. /\ page \in [Tabs -> PageOf] /\ asks \in [Tabs -> SUBSET Choices]
      /\ consent \in Choices \cup {"none"} /\ expected \in Choices \cup {"any"}
      /\ asks[t] # {} => page[t].kind \in {"banner", "other"}
  BY Known DEF Rest
<1>2. CASE Choose(t, c)
  <2>1. [page EXCEPT ![t].kind = "banner"] = page
    BY <1>1, <1>2 DEF Choose, PageOf
  <2>2. page' = [page EXCEPT ![t].kind = "banner"] /\ page[t].kind = "banner"
    BY <1>2, <2>1 DEF Choose
  <2>3. /\ asks' \in [Tabs -> SUBSET Choices] /\ \A u \in Tabs \ {t} : asks'[u] = asks[u]
        /\ consent' = consent /\ expected' \in Choices \cup {"any"}
        /\ UNCHANGED <<csrf, ceremony, server, during>>
    BY <1>1, <1>2 DEF Choose
  <2>4. QED BY <1>1, <2>2, <2>3, Banner
<1>3. CASE ChoiceLost(t, c)
  <2>1. /\ asks' \in [Tabs -> SUBSET Choices] /\ \A u \in Tabs \ {t} : asks'[u] = asks[u]
    BY <1>1, <1>3 DEF ChoiceLost
  <2>2. /\ consent' = consent /\ expected' = "any" /\ c \in asks[t]
        /\ UNCHANGED <<csrf, ceremony, server, during>>
        /\ page' = [page EXCEPT ![t].kind = "other"]
    BY <1>3 DEF ChoiceLost
  <2>3. QED BY <1>1, <2>1, <2>2, Banner
<1>4. CASE \E ok \in BOOLEAN : Chosen(t, c, ok)
  <2>1. PICK ok \in BOOLEAN : Chosen(t, c, ok)
    BY <1>4
  <2>2. /\ asks' \in [Tabs -> SUBSET Choices] /\ \A u \in Tabs \ {t} : asks'[u] = asks[u]
    BY <1>1, <2>1 DEF Chosen
  <2>3. /\ consent' \in Choices \cup {"none"} /\ expected' \in Choices \cup {"any"}
        /\ c \in asks[t] /\ UNCHANGED <<csrf, ceremony, server, during>>
        /\ page' = [page EXCEPT ![t].kind = "other"]
    BY <1>1, <2>1 DEF Chosen
  <2>4. QED BY <1>1, <2>2, <2>3, Banner
<1>5. QED BY <1>2, <1>3, <1>4

LEMMA Registers ==
  ASSUME IInv, NEW t \in Tabs, Register(t)
  PROVE  IInv'
<1> DEFINE p == [page[t] EXCEPT !.pc = "begin", !.passes = Passes(t)]
<1>1. page[t] \in PageOf /\ Fits(page[t], csrf, begun) /\ csrf' = csrf /\ csrf \in BOOLEAN
  BY Known DEF Register
<1>2. Passes(t) \in BOOLEAN /\ page[t].kind = "passkeys"
  BY <1>1 DEF Passes, PageOf, Register
<1>3. page' = [page EXCEPT ![t] = p]
  BY Known DEF Register
<1>4. p \in PageOf /\ p.kind = page[t].kind /\ p.token = page[t].token /\ p.pc = "begin"
  BY <1>1, <1>2 DEF PageOf
<1> HIDE DEF p
<1>5. Fits(p, csrf', begun) /\ p.pc \notin Excluding \cup {"accepted", "rejected"}
  BY <1>1, <1>2, <1>4 DEF Fits, Excluding, Challenged, Waiting
<1>6. /\ during' \in [Tabs -> SUBSET Ceremonies]
      /\ \A u \in Tabs \ {t} : during'[u] = during[u]
  BY Known DEF Rest, Register
<1>7. \A u \in Tabs : page'[u].kind = page[u].kind
  BY <1>3, <1>4, Known
<1>8. /\ consent' \in Choices \cup {"none"} /\ asks' \in [Tabs -> SUBSET Choices]
      /\ \A u \in Tabs : asks'[u] # {} => page'[u].kind \in {"banner", "other"}
      /\ expected' \in Choices \cup {"any"}
  BY <1>7, Known DEF Rest, banner, Register
<1>9. UNCHANGED <<ceremony, server>>
  BY DEF Register
<1>10. QED BY <1>1, <1>3, <1>4, <1>5, <1>6, <1>8, <1>9, Quits

\* A step of the registration: what it keeps of the invariant by its form.
LEMMA Kept ==
  ASSUME IInv, csrf' \in BOOLEAN, UNCHANGED banner,
         begun' \in 0..MaxCeremony, ceremony' \in 0..begun', sessions' \subseteq 1..begun',
         passkeys' \subseteq Passkey, during' \in [Tabs -> SUBSET Ceremonies],
         Pages', \A u \in Tabs : page'[u].kind = page[u].kind,
         TwiceOnlyOverlapping', \A u \in Tabs : Registered(u)'
  PROVE  IInv'
<1>1. Rest'
  BY Known DEF Rest, banner
<1>2. TypeOK'
  BY <1>1, Parts, PTL
<1>3. QED BY <1>2 DEF IInv

\* Tab t goes to a page p, and the registrations of the tabs in ts are
\* disturbed.
LEMMA Moves ==
  ASSUME IInv, NEW t \in Tabs, NEW p \in PageOf, NEW ts \in SUBSET Tabs,
         page' = Disturbed([page EXCEPT ![t] = p], ts),
         p.kind = page[t].kind, UNCHANGED <<csrf, banner>>,
         begun' \in 0..MaxCeremony, begun <= begun', Fits(p, csrf, begun'),
         ceremony' \in 0..begun', sessions' \subseteq 1..begun',
         passkeys' \subseteq Passkey, during' \in [Tabs -> SUBSET Ceremonies],
         TwiceOnlyOverlapping', Registered(t)',
         \A u \in Tabs \ {t} :
           /\ page[u].pc \in Waiting /\ u \notin ts /\ page[u].of \in sessions
                => page[u].of \in sessions'
           /\ page[u].pc = "create" /\ u \notin ts => ceremony' = ceremony
           /\ \A k \in passkeys' : k \in passkeys \/ (page[u].pc \in Excluding => k.of \in during'[u])
           /\ during[u] \subseteq during'[u]
  PROVE  IInv'
<1> DEFINE q == [page EXCEPT ![t] = p]
<1>1. /\ q \in [Tabs -> PageOf] /\ q[t] = p /\ \A u \in Tabs \ {t} : q[u] = page[u]
  BY Known
<1>2. page' = Disturbed(q, ts)
  OBVIOUS
<1>3. Pages'
  <2>1. /\ Pages /\ csrf \in BOOLEAN /\ (csrf => csrf') /\ begun \in Nat /\ begun' \in Nat
        /\ begun <= begun' /\ Fits(p, csrf', begun')
    BY Known
  <2>2. QED BY <2>1, PagesKept
<1> HIDE DEF q
<1>4. \A u \in Tabs : Registered(u)'
  <2>1. TAKE u \in Tabs
  <2>2. CASE u = t
    BY <2>2
  <2>3. CASE u # t
    <3>1. /\ page'[u].pc = page[u].pc /\ page'[u].of = page[u].of
          /\ page'[u].cookie = page[u].cookie /\ page'[u].device = page[u].device
          /\ page'[u].excluded = page[u].excluded
          /\ page'[u].disturbed <=> page[u].disturbed \/ u \in ts
      BY <1>1, <1>2, <2>3, Marked
    <3>2. u \in Tabs \ {t}
      BY <2>3
    <3>3. /\ page[u].disturbed => page'[u].disturbed
          /\ page[u].pc \in Waiting /\ ~page'[u].disturbed /\ page[u].of \in sessions
               => page[u].of \in sessions'
          /\ page[u].pc = "create" /\ ~page'[u].disturbed => ceremony' = ceremony
      BY <3>1, <3>2
    <3>4. /\ \A k \in passkeys' : k \in passkeys \/ (page[u].pc \in Excluding => k.of \in during'[u])
          /\ during[u] \subseteq during'[u]
      BY <3>2
    <3>5. QED BY ONLY IInv, u \in Tabs, <3>1, <3>3, <3>4, Elsewhere
  <2>4. QED BY <2>2, <2>3
<1>5. \A u \in Tabs : page'[u].kind = page[u].kind
  <2>1. \A u \in Tabs : page'[u].kind = q[u].kind
    BY <1>1, <1>2, Marked
  <2>2. QED BY <1>1, <2>1
<1>6. csrf' \in BOOLEAN
  BY Known
<1>7. QED BY <1>3, <1>4, <1>5, <1>6, Kept

LEMMA DisturbedPages ==
  ASSUME NEW q \in [Tabs -> PageOf], NEW ts
  PROVE  Disturbed(q, ts) \in [Tabs -> PageOf]
<1>1. \A u \in Tabs : q[u] \in PageOf /\ [q[u] EXCEPT !.disturbed = TRUE] \in PageOf
  BY DEF PageOf
<1>2. QED BY <1>1 DEF Disturbed

LEMMA NobodyDisturbed ==
  ASSUME NEW q \in [Tabs -> PageOf]
  PROVE  Disturbed(q, {}) = q
BY DEF Disturbed

LEMMA SamePasskeys ==
  ASSUME IInv, passkeys' = passkeys
  PROVE  TwiceOnlyOverlapping'
BY DEF IInv, TwiceOnlyOverlapping

LEMMA Begins ==
  ASSUME IInv, NEW t \in Tabs, BeginRegistration(t)
  PROVE  IInv'
<1> DEFINE old == page[t]
           ex == {k.device : k \in passkeys}
           p == [old EXCEPT !.pc = "excluded", !.passes = FALSE, !.excluded = ex]
<1>1. /\ old \in PageOf /\ Fits(old, csrf, begun) /\ old.pc = "begin"
      /\ begun \in 0..MaxCeremony /\ sessions \subseteq 1..begun
      /\ passkeys \subseteq Passkey /\ ceremony \in 0..begun
      /\ UNCHANGED <<csrf, ceremony, server, during, banner>>
  BY Known DEF BeginRegistration, At, Rest
<1>2. ex \subseteq Authenticators
  BY <1>1 DEF Passkey
<1> HIDE DEF old
<1>3. page' = [page EXCEPT ![t] = p]
  BY Known DEF BeginRegistration, old
<1> HIDE DEF ex
<1>4. /\ p \in PageOf /\ p.kind = old.kind /\ p.token = old.token /\ p.pc = "excluded"
      /\ p.excluded = ex
  BY <1>1, <1>2 DEF PageOf
<1> HIDE DEF p
<1>5. p.kind = "passkeys" /\ Fits(p, csrf, begun)
  BY <1>1, <1>4 DEF Fits, Challenged
<1>6. page' = Disturbed([page EXCEPT ![t] = p], {}) /\ page'[t] = p
  BY <1>3, <1>4, Known, NobodyDisturbed
<1>7. Registered(t)'
  <2>1. Undisturbed(page[t])'
    BY <1>4, <1>6 DEF Undisturbed, Waiting
  <2>2. Excludes(page[t], during[t])'
    BY <1>1, <1>4, <1>6 DEF Excludes, ex, server
  <2>3. QED BY <2>1, <2>2 DEF Registered
<1>8. TwiceOnlyOverlapping'
  BY <1>1, SamePasskeys DEF server
<1>9. /\ begun' \in 0..MaxCeremony /\ begun <= begun' /\ ceremony' \in 0..begun'
      /\ sessions' \subseteq 1..begun' /\ passkeys' \subseteq Passkey
      /\ during' \in [Tabs -> SUBSET Ceremonies] /\ p.kind = page[t].kind
      /\ Fits(p, csrf, begun') /\ UNCHANGED <<csrf, banner>> /\ {} \in SUBSET Tabs
  BY <1>1, <1>4, <1>5, Known DEF Rest, old, server
<1>10. \A u \in Tabs \ {t} :
           /\ page[u].pc \in Waiting /\ u \notin {} /\ page[u].of \in sessions
                => page[u].of \in sessions'
           /\ page[u].pc = "create" /\ u \notin {} => ceremony' = ceremony
           /\ \A k \in passkeys' : k \in passkeys \/ (page[u].pc \in Excluding => k.of \in during'[u])
           /\ during[u] \subseteq during'[u]
  BY <1>1 DEF server
<1>11. QED BY ONLY IInv, t \in Tabs, <1>4, <1>6, <1>7, <1>8, <1>9, <1>10, Moves

LEMMA Stores ==
  ASSUME IInv, NEW t \in Tabs, StoreSession(t)
  PROVE  IInv'
<1> DEFINE old == page[t]
           p == [old EXCEPT !.pc = "begun", !.of = begun']
<1>1. /\ old \in PageOf /\ Fits(old, csrf, begun) /\ old.pc = "excluded"
      /\ begun \in 0..MaxCeremony /\ begun < MaxCeremony /\ begun' = begun + 1
      /\ sessions' = sessions \cup {begun'} /\ sessions \subseteq 1..begun
      /\ passkeys \subseteq Passkey /\ passkeys' = passkeys /\ during' = during
      /\ ceremony' = ceremony /\ ceremony \in 0..begun /\ UNCHANGED <<csrf, banner>>
  BY Known DEF StoreSession, At, Rest
<1>2. begun' \in 1..MaxCeremony
  BY <1>1
<1>3. Undisturbed(old) /\ Excludes(old, during[t])
  BY DEF IInv, Registered
<1> HIDE DEF old
<1>4. page' = [page EXCEPT ![t] = p]
  BY Known DEF StoreSession, old
<1>5. /\ p \in PageOf /\ p.kind = old.kind /\ p.token = old.token /\ p.pc = "begun"
      /\ p.of = begun' /\ p.excluded = old.excluded
  BY <1>1, <1>2 DEF PageOf
<1> HIDE DEF p
<1>6. p.kind = "passkeys" /\ Fits(p, csrf, begun')
  BY <1>1, <1>2, <1>5 DEF Fits
<1>7. page' = Disturbed([page EXCEPT ![t] = p], {}) /\ page'[t] = p
  BY <1>4, <1>5, Known, NobodyDisturbed
<1>8. Registered(t)'
  <2>1. Undisturbed(page[t])'
    BY <1>1, <1>5, <1>7 DEF Undisturbed
  <2>2. Excludes(page[t], during[t])'
    BY <1>1, <1>3, <1>5, <1>7 DEF Excludes
  <2>3. QED BY <2>1, <2>2 DEF Registered
<1>9. TwiceOnlyOverlapping'
  BY <1>1, SamePasskeys
<1>10. /\ begun' \in 0..MaxCeremony /\ begun <= begun' /\ ceremony' \in 0..begun'
       /\ sessions' \subseteq 1..begun' /\ passkeys' \subseteq Passkey
       /\ during' \in [Tabs -> SUBSET Ceremonies] /\ p.kind = page[t].kind
  BY <1>1, <1>2, <1>5, Known DEF Rest, old
<1>11. \A u \in Tabs \ {t} :
           /\ page[u].pc \in Waiting /\ u \notin {} /\ page[u].of \in sessions
                => page[u].of \in sessions'
           /\ page[u].pc = "create" /\ u \notin {} => ceremony' = ceremony
           /\ \A k \in passkeys' : k \in passkeys \/ (page[u].pc \in Excluding => k.of \in during'[u])
           /\ during[u] \subseteq during'[u]
  BY <1>1
<1>12. UNCHANGED <<csrf, banner>> /\ {} \in SUBSET Tabs
  BY <1>1
<1>13. QED BY ONLY IInv, t \in Tabs, <1>5, <1>6, <1>7, <1>8, <1>9, <1>10, <1>11, <1>12, Moves

LEMMA Creates ==
  ASSUME IInv, NEW t \in Tabs, NEW d \in Authenticators, Create(t, d)
  PROVE  IInv'
<1> DEFINE old == page[t]
           x == Passes(t)
           p == [old EXCEPT !.pc = "finish", !.device = d, !.excluded = {},
                            !.passes = x, !.cookie = ceremony]
<1>1. /\ old \in PageOf /\ Fits(old, csrf, begun) /\ old.pc = "create"
      /\ d \notin old.excluded /\ begun \in 0..MaxCeremony
      /\ sessions \subseteq 1..begun /\ passkeys \subseteq Passkey
      /\ ceremony \in 0..begun /\ UNCHANGED <<csrf, ceremony, server, during, banner>>
  BY Known DEF Create, At, Rest
<1>2. x \in BOOLEAN /\ ceremony \in Ceremonies \cup {None}
  BY <1>1 DEF Passes, PageOf
<1>3. Undisturbed(old) /\ Excludes(old, during[t])
  BY DEF IInv, Registered
<1> HIDE DEF old, x
<1>4. page' = [page EXCEPT ![t] = p]
  BY Known DEF Create, old, x
<1>5. /\ p \in PageOf /\ p.kind = old.kind /\ p.token = old.token /\ p.pc = "finish"
      /\ p.of = old.of /\ p.device = d /\ p.cookie = ceremony
      /\ p.disturbed = old.disturbed
  BY <1>1, <1>2 DEF PageOf
<1> HIDE DEF p
<1>6. Fits(p, csrf, begun)
  BY <1>1, <1>5 DEF Fits, Excluding, Challenged, Waiting
<1>7. page' = Disturbed([page EXCEPT ![t] = p], {}) /\ page'[t] = p
  BY <1>4, <1>5, Known, NobodyDisturbed
<1>8. Registered(t)'
  <2>1. Undisturbed(page[t])'
    BY <1>1, <1>3, <1>5, <1>7 DEF Undisturbed, Excluding, Challenged, Waiting, server
  <2>2. Excludes(page[t], during[t])'
    BY <1>1, <1>3, <1>5, <1>7 DEF Excludes, server
  <2>3. QED BY <2>1, <2>2 DEF Registered
<1>9. TwiceOnlyOverlapping'
  BY <1>1, SamePasskeys DEF server
<1>10. /\ begun' \in 0..MaxCeremony /\ begun <= begun' /\ ceremony' \in 0..begun'
      /\ sessions' \subseteq 1..begun' /\ passkeys' \subseteq Passkey
      /\ during' \in [Tabs -> SUBSET Ceremonies] /\ p.kind = page[t].kind
      /\ Fits(p, csrf, begun') /\ UNCHANGED <<csrf, banner>> /\ {} \in SUBSET Tabs
  BY <1>1, <1>5, <1>6, Known DEF Rest, old, server
<1>11. \A u \in Tabs \ {t} :
           /\ page[u].pc \in Waiting /\ u \notin {} /\ page[u].of \in sessions
                => page[u].of \in sessions'
           /\ page[u].pc = "create" /\ u \notin {} => ceremony' = ceremony
           /\ \A k \in passkeys' : k \in passkeys \/ (page[u].pc \in Excluding => k.of \in during'[u])
           /\ during[u] \subseteq during'[u]
  BY <1>1 DEF server
<1>12. QED BY ONLY IInv, t \in Tabs, <1>5, <1>7, <1>8, <1>9, <1>10, <1>11, Moves

\* An answer sets the cookie of the ceremony.
LEMMA CookieSet ==
  ASSUME IInv, NEW t \in Tabs, NEW p \in PageOf, NEW c \in 0..begun, SetCeremony(t, c, p),
         UNCHANGED <<csrf, server, banner>>, during' \in [Tabs -> SUBSET Ceremonies],
         \A u \in Tabs \ {t} : during'[u] = during[u],
         Fits(p, csrf, begun), p.kind = page[t].kind,
         \/ p.pc \notin Excluding \cup {"accepted", "rejected"}
         \/ /\ p.pc = "create" /\ p.of = c /\ page[t].pc = "begun" /\ p.of = page[t].of
            /\ p.excluded = page[t].excluded /\ p.disturbed = page[t].disturbed
            /\ during'[t] = during[t]
  PROVE  IInv'
<1> DEFINE ts == {u \in Tabs \ {t} : At(u, "create")}
           q == [page EXCEPT ![t] = p]
<1>1. ceremony' = c /\ page' = Disturbed(q, ts)
  BY DEF SetCeremony
<1>2. \A u \in Tabs \ {t} : page[u].pc = "create" => u \in ts
  BY DEF At
<1>3. t \notin ts /\ ts \in SUBSET Tabs
  OBVIOUS
<1> HIDE DEF ts
<1>4. Registered(t)'
  <2>1. q \in [Tabs -> PageOf] /\ q[t] = p
    BY Known
  <2> HIDE DEF q
  <2>2. /\ page'[t].pc = p.pc /\ page'[t].of = p.of /\ page'[t].excluded = p.excluded
        /\ page'[t].disturbed <=> p.disturbed
    BY <1>1, <1>3, <2>1, Marked
  <2>3. CASE p.pc \notin Excluding \cup {"accepted", "rejected"}
    BY <2>2, <2>3, NoRegistration
  <2>4. CASE /\ p.pc = "create" /\ p.of = c /\ page[t].pc = "begun" /\ p.of = page[t].of
             /\ p.excluded = page[t].excluded /\ p.disturbed = page[t].disturbed
             /\ during'[t] = during[t]
    <3>1. Undisturbed(page[t]) /\ Excludes(page[t], during[t])
      BY DEF IInv, Registered
    <3>2. Undisturbed(page[t])'
      BY <1>1, <2>2, <2>4, <3>1 DEF Undisturbed, Excluding, Challenged, Waiting, server
    <3>3. Excludes(page[t], during[t])'
      BY <2>2, <2>4, <3>1 DEF Excludes, server
    <3>4. QED BY <3>2, <3>3 DEF Registered
  <2>5. QED BY <2>3, <2>4
<1>5. /\ begun' \in 0..MaxCeremony /\ begun <= begun' /\ ceremony' \in 0..begun'
      /\ sessions' \subseteq 1..begun' /\ passkeys' \subseteq Passkey
      /\ Fits(p, csrf, begun') /\ UNCHANGED <<csrf, banner>> /\ passkeys' = passkeys
      /\ sessions' = sessions
  BY <1>1, Known DEF Rest, server
<1>6. TwiceOnlyOverlapping'
  BY <1>5, SamePasskeys
<1>7. \A u \in Tabs \ {t} :
           /\ page[u].pc \in Waiting /\ u \notin ts /\ page[u].of \in sessions
                => page[u].of \in sessions'
           /\ page[u].pc = "create" /\ u \notin ts => ceremony' = ceremony
           /\ \A k \in passkeys' : k \in passkeys \/ (page[u].pc \in Excluding => k.of \in during'[u])
           /\ during[u] \subseteq during'[u]
  BY <1>2, <1>5
<1>8. p.kind = page[t].kind /\ during' \in [Tabs -> SUBSET Ceremonies]
  OBVIOUS
<1>9. QED BY ONLY IInv, t \in Tabs, p \in PageOf, <1>1, <1>3, <1>4, <1>5, <1>6, <1>7, <1>8, Moves

LEMMA BegunArrives ==
  ASSUME IInv, NEW t \in Tabs, Begun(t)
  PROVE  IInv'
<1> DEFINE old == page[t]
           p == [old EXCEPT !.pc = "create"]
<1>1. /\ old \in PageOf /\ Fits(old, csrf, begun) /\ old.pc = "begun"
      /\ UNCHANGED <<csrf, server, banner>> /\ during' = during
      /\ during \in [Tabs -> SUBSET Ceremonies] /\ begun \in Nat
  BY Known DEF Begun, At, Rest
<1>2. SetCeremony(t, old.of, p)
  BY DEF Begun
<1>3. /\ p \in PageOf /\ p.kind = old.kind /\ p.token = old.token /\ p.pc = "create"
      /\ p.of = old.of /\ p.excluded = old.excluded /\ p.disturbed = old.disturbed
  BY <1>1 DEF PageOf
<1>4. Fits(p, csrf, begun) /\ old.of \in 0..begun
  BY <1>1, <1>3 DEF Fits, Excluding, Challenged, Waiting
<1> HIDE DEF p
<1>5. QED BY <1>1, <1>2, <1>3, <1>4, CookieSet

LEMMA AcceptedArrives ==
  ASSUME IInv, NEW t \in Tabs, Accepted(t)
  PROVE  IInv'
<1> DEFINE p == Ended(page[t], "done")
<1>1. /\ page[t] \in PageOf /\ Fits(page[t], csrf, begun) /\ page[t].pc = "accepted"
      /\ SetCeremony(t, None, p) /\ begun \in Nat
      /\ UNCHANGED <<csrf, server, banner>> /\ during' = during
      /\ during \in [Tabs -> SUBSET Ceremonies]
  BY Known DEF Accepted, At, Rest
<1>2. page[t].kind = "passkeys"
  BY <1>1 DEF Fits
<1>3. p \in PageOf /\ Fits(p, csrf, begun) /\ p.kind = page[t].kind /\ p.pc = "done"
  BY <1>1, <1>2, EndedFits
<1> HIDE DEF p
<1>4. p.pc \notin Excluding \cup {"accepted", "rejected"} /\ None \in 0..begun
  BY <1>1, <1>3 DEF Excluding, Challenged, Waiting
<1>5. QED BY <1>1, <1>3, <1>4, CookieSet

LEMMA LostAfter ==
  ASSUME IInv, NEW t \in Tabs, LostAfterCookie(t)
  PROVE  IInv'
<1> DEFINE p == Ended(page[t], "ready")
<1>1. /\ page[t] \in PageOf /\ Fits(page[t], csrf, begun)
      /\ SetCeremony(t, page[t].of, p) /\ begun \in Nat
      /\ UNCHANGED <<csrf, server, banner>> /\ during' = [during EXCEPT ![t] = {}]
      /\ during \in [Tabs -> SUBSET Ceremonies]
  BY Known DEF LostAfterCookie, Rest
<1>2. p \in PageOf /\ Fits(p, csrf, begun) /\ p.kind = page[t].kind /\ p.pc = "ready"
  BY <1>1, EndedFits
<1> HIDE DEF p
<1>3. p.pc \notin Excluding \cup {"accepted", "rejected"}
  BY <1>2 DEF Excluding, Challenged, Waiting
<1>4. \A u \in Tabs \ {t} : during'[u] = during[u]
  BY <1>1
<1>5. during' \in [Tabs -> SUBSET Ceremonies]
  BY <1>1
<1>6. page[t].of \in 0..begun
  <2>1. CASE page[t].pc = "begun"
    BY <1>1, <2>1 DEF Fits, Excluding, Challenged, Waiting
  <2>2. CASE page[t].pc = "accepted"
    <3>1. page[t].of = None
      BY <2>2 DEF IInv, Registered, Undisturbed
    <3>2. QED BY <1>1, <3>1
  <2>3. QED BY <2>1, <2>2 DEF LostAfterCookie
<1>7. QED BY <1>1, <1>2, <1>3, <1>4, <1>5, <1>6, CookieSet

LEMMA SessionTaken ==
  ASSUME IInv, NEW t \in Tabs, LoadSession(t)
  PROVE  IInv'
<1> DEFINE old == page[t]
           c   == old.cookie
           ts  == {u \in Tabs \ {t} : page[u].of = c}
           p   == [old EXCEPT !.pc = "save"]
           q   == [page EXCEPT ![t] = p]
<1>1. /\ old \in PageOf /\ Fits(old, csrf, begun) /\ old.pc = "finish"
      /\ UNCHANGED <<csrf, ceremony, begun, passkeys, during, banner>>
      /\ sessions' = sessions \ {c}
      /\ begun \in 0..MaxCeremony /\ ceremony \in 0..begun
      /\ sessions \subseteq 1..begun /\ passkeys \subseteq Passkey
  BY Known DEF LoadSession, At, Rest
<1>2. Undisturbed(old) /\ Excludes(old, during[t])
  BY DEF IInv, Registered
<1>3. page' = Disturbed(q, ts)
  BY Known DEF LoadSession
<1>4. \A u \in Tabs \ {t} : u \notin ts => page[u].of # c
  OBVIOUS
<1>5. t \notin ts /\ ts \in SUBSET Tabs
  OBVIOUS
<1> HIDE DEF ts, old
<1>6. /\ p \in PageOf /\ p.kind = old.kind /\ p.token = old.token /\ p.pc = "save"
      /\ p.of = old.of /\ p.cookie = old.cookie /\ p.device = old.device
      /\ p.disturbed = old.disturbed
  BY <1>1 DEF PageOf
<1> HIDE DEF p
<1>7. Fits(p, csrf, begun)
  BY <1>1, <1>6 DEF Fits, Challenged
<1>8. q \in [Tabs -> PageOf] /\ q[t] = p
  BY <1>6, Known
<1> HIDE DEF q
<1>9. /\ page'[t].pc = p.pc /\ page'[t].of = p.of /\ page'[t].cookie = p.cookie
      /\ page'[t].device = p.device /\ (page'[t].disturbed <=> p.disturbed)
  BY <1>3, <1>5, <1>8, Marked
<1>10. Registered(t)'
  <2>1. Undisturbed(page[t])'
    BY <1>1, <1>2, <1>6, <1>9 DEF Undisturbed, Waiting
  <2>2. Excludes(page[t], during[t])'
    BY <1>1, <1>2, <1>6, <1>9 DEF Excludes
  <2>3. QED BY <2>1, <2>2 DEF Registered
<1>11. TwiceOnlyOverlapping'
  BY <1>1, SamePasskeys
<1>12. /\ begun' \in 0..MaxCeremony /\ begun <= begun' /\ ceremony' \in 0..begun'
       /\ sessions' \subseteq 1..begun' /\ passkeys' \subseteq Passkey
       /\ during' \in [Tabs -> SUBSET Ceremonies] /\ p.kind = page[t].kind
       /\ Fits(p, csrf, begun') /\ UNCHANGED <<csrf, banner>>
  <2>1. begun' = begun /\ ceremony' = ceremony /\ UNCHANGED <<csrf, passkeys, banner>>
    BY <1>1
  <2>2. p.kind = page[t].kind
    BY <1>6 DEF old
  <2>3. during' \in [Tabs -> SUBSET Ceremonies]
    BY <1>1, Known DEF Rest
  <2>4. sessions' \subseteq sessions /\ Fits(p, csrf, begun')
    BY <1>1, <1>7
  <2>5. /\ begun \in 0..MaxCeremony /\ ceremony \in 0..begun
        /\ sessions \subseteq 1..begun /\ passkeys \subseteq Passkey
    BY <1>1
  <2>6. QED BY ONLY <2>1, <2>2, <2>3, <2>4, <2>5
<1>13. \A u \in Tabs \ {t} :
           /\ page[u].pc \in Waiting /\ u \notin ts /\ page[u].of \in sessions
                => page[u].of \in sessions'
           /\ page[u].pc = "create" /\ u \notin ts => ceremony' = ceremony
           /\ \A k \in passkeys' : k \in passkeys \/ (page[u].pc \in Excluding => k.of \in during'[u])
           /\ during[u] \subseteq during'[u]
  BY <1>1, <1>4
<1>14. page' = Disturbed([page EXCEPT ![t] = p], ts)
  BY <1>3 DEF q
<1>15. QED
  BY ONLY IInv, t \in Tabs, <1>5, <1>6, <1>10, <1>11, <1>12, <1>13, <1>14, Moves

\* A credential that nothing disturbed is not rejected.
LEMMA Rejects ==
  ASSUME IInv, NEW t \in Tabs, Reject(t)
  PROVE  IInv'
<1> DEFINE old == page[t]
           e   == Ended(old, "rejected")
           p   == [e EXCEPT !.disturbed = old.disturbed]
<1>1. /\ old \in PageOf /\ Fits(old, csrf, begun) /\ old.pc \in {"finish", "save"}
      /\ UNCHANGED <<csrf, ceremony, server, banner>>
      /\ during' = [during EXCEPT ![t] = {}] /\ during \in [Tabs -> SUBSET Ceremonies]
      /\ begun \in 0..MaxCeremony /\ ceremony \in 0..begun
      /\ sessions \subseteq 1..begun /\ passkeys \subseteq Passkey
  BY Known DEF Reject, At, Rest
<1>2. old.disturbed
  <2>1. Undisturbed(old)
    BY DEF IInv, Registered
  <2>2. QED BY <2>1 DEF Undisturbed, Waiting, Reject, At
<1>3. page' = [page EXCEPT ![t] = p]
  BY Known DEF Reject
<1>4. old.kind = "passkeys" /\ old.disturbed \in BOOLEAN
  BY <1>1 DEF Fits, PageOf
<1>5. /\ e \in PageOf /\ Fits(e, csrf, begun) /\ e.kind = old.kind /\ e.pc = "rejected"
  BY <1>1, <1>4, EndedFits
<1> HIDE DEF e, old
<1>6. /\ p \in PageOf /\ p.kind = old.kind /\ p.token = e.token /\ p.pc = "rejected"
      /\ p.disturbed = old.disturbed
  BY <1>4, <1>5 DEF PageOf
<1> HIDE DEF p
<1>7. Fits(p, csrf, begun)
  BY <1>5, <1>6 DEF Fits, Challenged
<1>8. page' = Disturbed([page EXCEPT ![t] = p], {}) /\ page'[t] = p
  BY <1>3, <1>6, Known, NobodyDisturbed
<1>9. Registered(t)'
  <2>1. Undisturbed(page[t])'
    BY <1>2, <1>6, <1>8 DEF Undisturbed, Waiting
  <2>2. Excludes(page[t], during[t])'
    BY <1>6, <1>8 DEF Excludes
  <2>3. QED BY <2>1, <2>2 DEF Registered
<1>10. TwiceOnlyOverlapping'
  BY <1>1, SamePasskeys DEF server
<1>11. /\ begun' \in 0..MaxCeremony /\ begun <= begun' /\ ceremony' \in 0..begun'
       /\ sessions' \subseteq 1..begun' /\ passkeys' \subseteq Passkey
       /\ during' \in [Tabs -> SUBSET Ceremonies] /\ p.kind = page[t].kind
       /\ Fits(p, csrf, begun') /\ UNCHANGED <<csrf, banner>> /\ {} \in SUBSET Tabs
  BY <1>1, <1>6, <1>7 DEF old, server
<1>12. \A u \in Tabs \ {t} :
           /\ page[u].pc \in Waiting /\ u \notin {} /\ page[u].of \in sessions
                => page[u].of \in sessions'
           /\ page[u].pc = "create" /\ u \notin {} => ceremony' = ceremony
           /\ \A k \in passkeys' : k \in passkeys \/ (page[u].pc \in Excluding => k.of \in during'[u])
           /\ during[u] \subseteq during'[u]
  BY <1>1 DEF server
<1>13. QED BY ONLY IInv, t \in Tabs, <1>6, <1>8, <1>9, <1>10, <1>11, <1>12, Moves

\* The authenticator of one that is accepted was excluded by none registered
\* before, or they overlap.
LEMMA Saves ==
  ASSUME IInv, NEW t \in Tabs, SaveCredential(t)
  PROVE  IInv'
<1> DEFINE old  == page[t]
           c    == old.of
           made == [device |-> old.device, of |-> c, during |-> during[t]]
           p    == Ended(old, "accepted")
<1>1. /\ old \in PageOf /\ Fits(old, csrf, begun) /\ old.pc = "save"
      /\ UNCHANGED <<csrf, ceremony, begun, sessions, banner>>
      /\ passkeys' = passkeys \cup {made}
      /\ during \in [Tabs -> SUBSET Ceremonies]
      /\ begun \in 0..MaxCeremony /\ ceremony \in 0..begun
      /\ sessions \subseteq 1..begun /\ passkeys \subseteq Passkey
  BY Known DEF SaveCredential, At, Rest
<1>2. /\ during' = [u \in Tabs |-> IF u = t THEN {}
                        ELSE IF page[u].pc \in Excluding THEN during[u] \cup {c}
                        ELSE during[u]]
      /\ page' = [page EXCEPT ![t] = p]
  BY DEF SaveCredential
<1>3. Undisturbed(old) /\ Excludes(old, during[t])
  BY DEF IInv, Registered
<1>4. c \in Ceremonies /\ old.kind = "passkeys"
  BY <1>1 DEF Fits, Challenged
<1>5. /\ p \in PageOf /\ Fits(p, csrf, begun) /\ p.kind = old.kind /\ p.pc = "accepted"
      /\ p.of = None
  BY <1>1, <1>4, EndedFits
<1> HIDE DEF p, old, c
<1>6. page' = Disturbed([page EXCEPT ![t] = p], {}) /\ page'[t] = p
  BY <1>2, <1>5, Known, NobodyDisturbed
<1>7. Registered(t)'
  <2>1. Undisturbed(page[t])'
    BY <1>5, <1>6 DEF Undisturbed, Waiting
  <2>2. Excludes(page[t], during[t])'
    BY <1>5, <1>6 DEF Excludes
  <2>3. QED BY <2>1, <2>2 DEF Registered
<1>8. during' \in [Tabs -> SUBSET Ceremonies]
  BY <1>1, <1>2, <1>4
<1>9. TwiceOnlyOverlapping'
  <2>1. \A k \in passkeys : k.device = made.device => k.of \in made.during
    BY <1>1, <1>3 DEF Excludes
  <2>2. \A k, l \in passkeys : k # l /\ k.device = l.device => k.of \in l.during \/ l.of \in k.during
    BY DEF IInv, TwiceOnlyOverlapping
  <2>3. \A k \in passkeys' : k \in passkeys \/ k = made
    BY <1>1
  <2> HIDE DEF made
  <2>4. QED BY <2>1, <2>2, <2>3 DEF TwiceOnlyOverlapping
<1>10. passkeys' \subseteq Passkey
  <2>1. old.device \in Authenticators /\ during[t] \in SUBSET Ceremonies
    BY <1>1, <1>3 DEF Undisturbed
  <2>2. made \in Passkey
    BY <1>4, <2>1 DEF Passkey
  <2>3. QED BY <1>1, <2>2
<1>11. /\ begun' \in 0..MaxCeremony /\ begun <= begun' /\ ceremony' \in 0..begun'
       /\ sessions' \subseteq 1..begun' /\ p.kind = page[t].kind
       /\ Fits(p, csrf, begun') /\ UNCHANGED <<csrf, banner>> /\ {} \in SUBSET Tabs
  BY <1>1, <1>5 DEF old
<1>12. \A u \in Tabs \ {t} :
           /\ page[u].pc \in Waiting /\ u \notin {} /\ page[u].of \in sessions
                => page[u].of \in sessions'
           /\ page[u].pc = "create" /\ u \notin {} => ceremony' = ceremony
           /\ \A k \in passkeys' : k \in passkeys \/ (page[u].pc \in Excluding => k.of \in during'[u])
           /\ during[u] \subseteq during'[u]
  <2>1. TAKE u \in Tabs \ {t}
  <2>2. during'[u] = IF page[u].pc \in Excluding THEN during[u] \cup {c} ELSE during[u]
    BY <1>2
  <2>3. during[u] \subseteq during'[u]
    BY <2>2
  <2>4. ASSUME NEW k \in passkeys', page[u].pc \in Excluding, k \notin passkeys
        PROVE  k.of \in during'[u]
    <3>1. k = made /\ made.of = c
      BY <1>1, <2>4
    <3>2. QED BY <2>2, <2>4, <3>1
  <2>5. sessions' = sessions /\ ceremony' = ceremony
    BY <1>1
  <2>6. QED BY <2>3, <2>4, <2>5
<1>13. QED
  BY ONLY IInv, t \in Tabs, <1>5, <1>6, <1>7, <1>8, <1>9, <1>10, <1>11, <1>12, Moves

LEMMA Forgets ==
  ASSUME IInv, NEW c \in sessions, Forget(c)
  PROVE  IInv'
<1> DEFINE ts == {t \in Tabs : page[t].of = c}
<1>1. /\ page' = Disturbed(page, ts) /\ sessions' = sessions \ {c}
      /\ UNCHANGED <<csrf, ceremony, begun, passkeys, during, banner>>
  BY DEF Forget
<1>2. /\ page \in [Tabs -> PageOf] /\ begun \in Nat /\ csrf \in BOOLEAN
      /\ \A t \in Tabs : Fits(page[t], csrf, begun)
  BY Known
<1>3. \A u \in Tabs : u \in ts <=> page[u].of = c
  OBVIOUS
<1> HIDE DEF ts
<1>4. Pages'
  <2>1. page' \in [Tabs -> PageOf]
    BY <1>1, <1>2, DisturbedPages
  <2>2. \A u \in Tabs : Fits(page'[u], csrf', begun')
    BY <1>1, <1>2, MarkedFits
  <2>3. QED BY <2>1, <2>2 DEF Pages
<1>5. \A u \in Tabs : /\ page'[u].pc = page[u].pc /\ page'[u].of = page[u].of
                      /\ page'[u].cookie = page[u].cookie /\ page'[u].device = page[u].device
                      /\ page'[u].excluded = page[u].excluded /\ page'[u].kind = page[u].kind
                      /\ page'[u].disturbed <=> page[u].disturbed \/ u \in ts
  BY <1>1, <1>2, Marked
<1>6. \A u \in Tabs : Registered(u)'
  <2>1. TAKE u \in Tabs
  <2>2. /\ page[u].pc \in Waiting /\ ~page'[u].disturbed /\ page[u].of \in sessions
             => page[u].of \in sessions'
        /\ page[u].disturbed => page'[u].disturbed
        /\ ceremony' = ceremony /\ passkeys' = passkeys /\ during'[u] = during[u]
    BY <1>1, <1>3, <1>5
  <2>3. QED BY <1>5, <2>2, Elsewhere
<1>7. /\ csrf' \in BOOLEAN /\ UNCHANGED banner
      /\ begun' \in 0..MaxCeremony /\ ceremony' \in 0..begun' /\ sessions' \subseteq 1..begun'
      /\ passkeys' \subseteq Passkey /\ during' \in [Tabs -> SUBSET Ceremonies]
  BY <1>1, Known DEF Rest
<1>8. TwiceOnlyOverlapping'
  BY <1>1, SamePasskeys
<1>9. \A u \in Tabs : page'[u].kind = page[u].kind
  BY <1>5
<1>10. QED BY <1>4, <1>6, <1>7, <1>8, <1>9, Kept

LEMMA Expires ==
  ASSUME IInv, Expire
  PROVE  IInv'
<1>1. /\ csrf' = FALSE /\ page' = [t \in Tabs |-> [page[t] EXCEPT !.token = FALSE]]
      /\ UNCHANGED <<ceremony, server, during, banner>>
  BY DEF Expire
<1>2. \A t \in Tabs : page[t] \in PageOf /\ Fits(page[t], csrf, begun)
  BY Known
<1>3. \A t \in Tabs :
        /\ page'[t] \in PageOf /\ ~page'[t].token /\ page'[t].kind = page[t].kind
        /\ page'[t].pc = page[t].pc /\ page'[t].of = page[t].of
        /\ page'[t].cookie = page[t].cookie /\ page'[t].device = page[t].device
        /\ page'[t].excluded = page[t].excluded /\ page'[t].disturbed = page[t].disturbed
  <2>1. TAKE t \in Tabs
  <2>2. page'[t] = [page[t] EXCEPT !.token = FALSE] /\ page[t] \in PageOf
    BY <1>1, <1>2
  <2>3. QED BY <2>2 DEF PageOf
<1>4. Pages'
  <2>1. page' \in [Tabs -> PageOf]
    <3>1. page' = [t \in Tabs |-> page'[t]]
      BY <1>1
    <3>2. QED BY <1>3, <3>1
  <2>2. \A u \in Tabs : Fits(page'[u], csrf', begun')
    BY <1>1, <1>2, <1>3 DEF Fits, server
  <2>3. QED BY <2>1, <2>2 DEF Pages
<1>5. /\ sessions' = sessions /\ passkeys' = passkeys /\ during' = during /\ ceremony' = ceremony
      /\ begun' = begun /\ csrf' \in BOOLEAN /\ UNCHANGED banner
  BY <1>1 DEF server
<1>6. \A u \in Tabs : Registered(u)'
  <2>1. TAKE u \in Tabs
  <2>2. QED BY <1>3, <1>5, Elsewhere
<1>7. /\ begun' \in 0..MaxCeremony /\ ceremony' \in 0..begun' /\ sessions' \subseteq 1..begun'
      /\ passkeys' \subseteq Passkey /\ during' \in [Tabs -> SUBSET Ceremonies]
  BY <1>5, Known DEF Rest
<1>8. TwiceOnlyOverlapping'
  BY <1>5, SamePasskeys
<1>9. \A u \in Tabs : page'[u].kind = page[u].kind
  BY <1>3
<1>10. QED BY <1>4, <1>5, <1>6, <1>7, <1>8, <1>9, Kept

-----------------------------------------------------------------------------
(* Every step keeps the invariant *)

LEMMA Loads ==
  ASSUME IInv, NEW t \in Tabs,
         \/ \E kind \in {"passkeys", "dashboard", "banner"} : Load(t, kind)
         \/ Reload(t)
         \/ \E c \in Choices : ChooseFails(t, c)
  PROVE  IInv'
<1>1. /\ consent \in Choices \cup {"none"} /\ expected \in Choices \cup {"any"}
      /\ asks[t] \in SUBSET Choices
  BY Known DEF Rest
<1>2. CASE \E kind \in {"passkeys", "dashboard", "banner"} : Load(t, kind)
  <2>1. PICK kind \in {"passkeys", "dashboard", "banner"} : Load(t, kind)
    BY <1>2
  <2>2. /\ Show(t, kind) /\ UNCHANGED <<ceremony, server>>
        /\ consent' \in Choices \cup {"none"} /\ expected' \in Choices \cup {"any"}
    BY <1>1, <2>1 DEF Load
  <2>3. QED BY <2>2, Shows
<1>3. CASE Reload(t)
  <2>1. /\ Show(t, "passkeys") /\ UNCHANGED <<ceremony, server>>
        /\ consent' \in Choices \cup {"none"} /\ expected' \in Choices \cup {"any"}
    BY <1>1, <1>3 DEF Reload
  <2>2. QED BY <2>1, Shows
<1>4. CASE \E c \in Choices : ChooseFails(t, c)
  <2>1. PICK c \in Choices : ChooseFails(t, c)
    BY <1>4
  <2>2. /\ Show(t, "banner") /\ UNCHANGED <<ceremony, server>>
        /\ consent' \in Choices \cup {"none"} /\ expected' \in Choices \cup {"any"}
    BY <1>1, <2>1 DEF ChooseFails
  <2>3. QED BY <2>2, Shows
<1>5. QED BY <1>2, <1>3, <1>4

LEMMA Endings ==
  ASSUME IInv, NEW t \in Tabs,
         Refuse(t) \/ CreateFails(t) \/ Rejected(t) \/ Lost(t) \/ CreateLink(t)
  PROVE  IInv'
<1>1. PICK step \in {"ready", "refused"} : End(t, step)
  BY DEF Refuse, CreateFails, Rejected, Lost, CreateLink
<1>2. UNCHANGED <<csrf, ceremony, server, banner>>
  BY DEF Refuse, CreateFails, Rejected, Lost, CreateLink
<1>3. QED BY <1>1, <1>2, Ends

LEMMA Stutters ==
  ASSUME IInv, UNCHANGED vars
  PROVE  IInv'
BY DEF IInv, TypeOK, TwiceOnlyOverlapping, Registered, Undisturbed, Excludes, Busy, At,
       vars, server, banner

LEMMA IInvInit == Init => IInv
<1> SUFFICES ASSUME Init PROVE IInv
  OBVIOUS
<1>1. NoPage \in PageOf /\ NoPage.pc = "ready" /\ NoPage.token = FALSE
  BY DEF NoPage, PageOf
<1>2. \A t \in Tabs : page[t] = NoPage /\ asks[t] = {} /\ during[t] = {}
  BY DEF Init
<1>3. TypeOK
  <2>1. Rest
    <3>1. /\ csrf \in BOOLEAN /\ begun = 0 /\ ceremony = 0 /\ sessions = {} /\ passkeys = {}
          /\ consent = "none" /\ expected = "any"
      BY DEF Init
    <3>2. during \in [Tabs -> SUBSET Ceremonies] /\ asks \in [Tabs -> SUBSET Choices]
      BY DEF Init
    <3>3. QED BY <1>2, <3>1, <3>2 DEF Rest
  <2>2. Pages
    BY <1>1, <1>2 DEF Init, Pages, Fits, Excluding, Challenged, Waiting
  <2>3. QED BY <2>1, <2>2, Parts
<1>4. TwiceOnlyOverlapping
  BY DEF Init, TwiceOnlyOverlapping
<1>5. \A t \in Tabs : Registered(t)
  BY <1>1, <1>2 DEF Registered, Undisturbed, Excludes, Excluding, Challenged, Waiting
<1>6. QED BY <1>3, <1>4, <1>5 DEF IInv

LEMMA IInvStep == IInv /\ [Next]_vars => IInv'
<1> SUFFICES ASSUME IInv, [Next]_vars PROVE IInv'
  OBVIOUS
<1>1. CASE \E t \in Tabs, kind \in {"passkeys", "dashboard", "banner"} : Load(t, kind)
  BY <1>1, Loads
<1>2. CASE Expire
  BY <1>2, Expires
<1>3. CASE \E c \in sessions : Forget(c)
  BY <1>3, Forgets
<1>4. CASE \E t \in Tabs : Register(t) \/ CreateLink(t)
  BY <1>4, Registers, Endings
<1>5. CASE \E t \in Tabs : Progress(t)
  <2>1. PICK t \in Tabs : Progress(t)
    BY <1>5
  <2>2. CASE Refuse(t) \/ CreateFails(t) \/ Rejected(t) \/ Lost(t)
    BY <2>2, Endings
  <2>3. CASE BeginRegistration(t) \/ StoreSession(t) \/ Begun(t) \/ Accepted(t)
             \/ LostAfterCookie(t)
    BY <2>3, Begins, Stores, BegunArrives, AcceptedArrives, LostAfter
  <2>4. CASE \E d \in Authenticators : Create(t, d)
    BY <2>4, Creates
  <2>5. CASE LoadSession(t) \/ Reject(t) \/ SaveCredential(t)
    BY <2>5, SessionTaken, Rejects, Saves
  <2>6. CASE Reload(t)
    BY <2>6, Loads
  <2>7. QED BY <2>1, <2>2, <2>3, <2>4, <2>5, <2>6 DEF Progress
<1>6. CASE \E t \in Tabs, c \in Choices :
              \/ Choose(t, c) \/ ChoiceLost(t, c)
              \/ \E ok \in BOOLEAN : Chosen(t, c, ok)
  BY <1>6, BannerSteps
<1>7. CASE \E t \in Tabs, c \in Choices : ChooseFails(t, c)
  BY <1>7, Loads
<1>8. CASE UNCHANGED vars
  BY <1>8, Stutters
<1>9. QED BY <1>1, <1>2, <1>3, <1>4, <1>5, <1>6, <1>7, <1>8 DEF Next

\* Every tab, cookie, ceremony and passkey is of its type, whatever requests
\* are under way (app.js, PasskeyBeginRegister, PasskeyFinishRegister).
THEOREM TypeCorrect == Spec => []TypeOK
<1>1. IInv => TypeOK
  BY DEF IInv
<1>2. QED BY <1>1, IInvInit, IInvStep, PTL DEF Spec

\* PasskeyFinishRegister rejects a credential only when another tab or the
\* server got in the way of its ceremony.
THEOREM CredentialsAccepted == Spec => []FinishAccepted
<1>1. IInv => FinishAccepted
  BY DEF IInv, Registered, Undisturbed, FinishAccepted, At
<1>2. QED BY <1>1, IInvInit, IInvStep, PTL DEF Spec

\* Two credentials of one authenticator were registered at the same time:
\* BeginRegistration excludes what was registered before.
THEOREM NotTwice == Spec => []TwiceOnlyOverlapping
<1>1. IInv => TwiceOnlyOverlapping
  BY DEF IInv
<1>2. QED BY <1>1, IInvInit, IInvStep, PTL DEF Spec

-----------------------------------------------------------------------------
(* The choice in the banner *)

\* Why a choice is recorded.  Unless two were under way at once, the one to be
\* recorded is either the only one under way or what the cookie has.
Recorded ==
  expected # "any" =>
    \/ (\A t \in Tabs : asks[t] = {}) /\ consent = expected
    \/ \E t \in Tabs : /\ asks[t] = {expected}
                       /\ \A u \in Tabs \ {t} : asks[u] = {}

\* A page that is shown has no choice under way, and any on the page before
\* is given up.
LEMMA RecordedShow ==
  ASSUME TypeOK, Recorded, NEW t \in Tabs, NEW kind, Show(t, kind),
         \/ asks[t] = {} /\ consent' = consent /\ expected' = expected
         \/ expected' = "any"
         \/ asks[t] = {expected} /\ consent' = expected /\ expected' = expected
  PROVE  Recorded'
<1>1. asks' = [asks EXCEPT ![t] = {}] /\ asks \in [Tabs -> SUBSET Choices]
  BY DEF Show, TypeOK
<1>2. \A u \in Tabs : asks'[u] = IF u = t THEN {} ELSE asks[u]
  BY <1>1
<1>3. CASE expected' = "any"
  BY <1>3 DEF Recorded
<1>4. CASE asks[t] = {} /\ consent' = consent /\ expected' = expected
  BY <1>2, <1>4 DEF Recorded
<1>5. CASE expected # "any" /\ asks[t] = {expected} /\ consent' = expected /\ expected' = expected
  BY <1>2, <1>5 DEF Recorded
<1>6. QED BY <1>3, <1>4, <1>5

LEMMA RecordedChoose ==
  ASSUME TypeOK, Recorded, NEW t \in Tabs, NEW c \in Choices, Choose(t, c)
  PROVE  Recorded'
<1>1. asks' = [asks EXCEPT ![t] = @ \cup {c}] /\ asks \in [Tabs -> SUBSET Choices]
  BY DEF Choose, TypeOK
<1>2. \A u \in Tabs : asks'[u] = IF u = t THEN asks[u] \cup {c} ELSE asks[u]
  BY <1>1
<1>3. CASE \E u \in Tabs : asks[u] # {}
  BY <1>3 DEF Choose, Recorded
<1>4. CASE \A u \in Tabs : asks[u] = {}
  <2>1. expected' = c /\ asks'[t] = {c} /\ \A u \in Tabs \ {t} : asks'[u] = {}
    BY <1>2, <1>4 DEF Choose
  <2>2. QED BY <2>1 DEF Recorded
<1>5. QED BY <1>3, <1>4

\* The answer arrives, or will not.
LEMMA RecordedAnswer ==
  ASSUME TypeOK, Recorded, NEW t \in Tabs, NEW c \in Choices,
         ChoiceLost(t, c) \/ \E ok \in BOOLEAN : Chosen(t, c, ok)
  PROVE  Recorded'
<1>1. CASE expected' = "any"
  BY <1>1 DEF Recorded
<1>2. CASE expected # "any" /\ Chosen(t, c, TRUE)
  <2>1. asks' = [asks EXCEPT ![t] = @ \ {c}] /\ asks \in [Tabs -> SUBSET Choices]
    BY <1>2 DEF Chosen, TypeOK
  <2>2. c \in asks[t] /\ consent' = c /\ expected' = expected
    BY <1>2 DEF Chosen
  <2>3. c = expected /\ asks[t] = {expected} /\ \A u \in Tabs \ {t} : asks[u] = {}
    BY <1>2, <2>2 DEF Recorded
  <2>4. \A u \in Tabs : asks'[u] = {}
    BY <2>1, <2>3
  <2>5. QED BY <2>2, <2>3, <2>4 DEF Recorded
<1>3. CASE expected = "any" /\ Chosen(t, c, TRUE)
  BY <1>3 DEF Chosen, Recorded
<1>4. QED BY <1>1, <1>2, <1>3 DEF ChoiceLost, Chosen

LEMMA RecordedStep ==
  ASSUME TypeOK, Recorded, [Next]_vars
  PROVE  Recorded'
<1>1. CASE UNCHANGED banner
  BY <1>1 DEF banner, Recorded
<1>2. CASE \E t \in Tabs, kind \in {"passkeys", "dashboard", "banner"} : Load(t, kind)
  <2>1. PICK t \in Tabs, kind \in {"passkeys", "dashboard", "banner"} : Load(t, kind)
    BY <1>2
  <2>2. Show(t, kind)
    BY <2>1 DEF Load
  <2>3. \/ asks[t] = {} /\ consent' = consent /\ expected' = expected
        \/ expected' = "any"
    BY <2>1 DEF Load
  <2>4. QED BY <2>2, <2>3, RecordedShow
<1>3. CASE \E t \in Tabs : Reload(t)
  <2>1. PICK t \in Tabs : Reload(t)
    BY <1>3
  <2>2. Show(t, "passkeys") /\ consent' = consent /\ expected' = expected
    BY <2>1 DEF Reload
  <2>3. asks[t] = {}
    BY <2>1 DEF Reload, At, Busy, TypeOK
  <2>4. QED BY <2>2, <2>3, RecordedShow
<1>4. CASE \E t \in Tabs, c \in Choices : ChooseFails(t, c)
  <2>1. PICK t \in Tabs, c \in Choices : ChooseFails(t, c)
    BY <1>4
  <2>2. /\ Show(t, "banner") /\ c \in asks[t] /\ consent' = c
        /\ expected' = IF asks[t] = {c} THEN expected ELSE "any"
    BY <2>1 DEF ChooseFails
  <2>3. expected = "any" \/ asks[t] = {expected}
    BY <2>2 DEF Recorded
  <2>4. \/ expected' = "any"
        \/ asks[t] = {expected} /\ consent' = expected /\ expected' = expected
    BY <2>2, <2>3
  <2>5. QED BY <2>2, <2>4, RecordedShow
<1>5. CASE \E t \in Tabs, c \in Choices :
              \/ Choose(t, c) \/ ChoiceLost(t, c)
              \/ \E ok \in BOOLEAN : Chosen(t, c, ok)
  BY <1>5, RecordedChoose, RecordedAnswer
<1>6. CASE Expire \/ (\E c \in sessions : Forget(c))
           \/ \E t \in Tabs : Register(t) \/ CreateLink(t)
  BY <1>1, <1>6 DEF Expire, Forget, Register, CreateLink
<1>7. CASE \E t \in Tabs : Progress(t) /\ ~Reload(t)
  <2>1. PICK t \in Tabs : Progress(t) /\ ~Reload(t)
    BY <1>7
  <2>2. CASE \/ Refuse(t) \/ BeginRegistration(t) \/ StoreSession(t) \/ Begun(t)
             \/ CreateFails(t)
    BY <1>1, <2>2 DEF Refuse, BeginRegistration, StoreSession, Begun, CreateFails
  <2>3. CASE \E d \in Authenticators : Create(t, d)
    BY <1>1, <2>3 DEF Create
  <2>4. CASE \/ LoadSession(t) \/ Reject(t) \/ SaveCredential(t) \/ Accepted(t)
             \/ Rejected(t) \/ Lost(t) \/ LostAfterCookie(t)
    BY <1>1, <2>4
       DEF LoadSession, Reject, SaveCredential, Accepted, Rejected, Lost, LostAfterCookie
  <2>5. QED BY <2>1, <2>2, <2>3, <2>4 DEF Progress
<1>8. CASE UNCHANGED vars
  BY <1>1, <1>8 DEF vars
<1>9. QED BY <1>2, <1>3, <1>4, <1>5, <1>6, <1>7, <1>8 DEF Next

\* What the user chose in a banner, and nothing else at the same time, is what
\* the cookie says, by way of fetch or of the plain form (PagesHandler.Consent).
THEOREM Consented == Spec => []ChoiceRecorded
<1>1. Init => TypeOK /\ Recorded
  BY IInvInit DEF Init, IInv, Recorded
<1>2. IInv /\ Recorded /\ [Next]_vars => IInv' /\ Recorded'
  BY IInvStep, RecordedStep DEF IInv
<1>3. Recorded => ChoiceRecorded
  BY DEF Recorded, ChoiceRecorded
<1>4. Init => IInv /\ Recorded
  BY <1>1, IInvInit
<1>5. QED BY <1>2, <1>3, <1>4, PTL DEF Spec
=============================================================================
