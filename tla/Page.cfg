SPECIFICATION PageSpec
CONSTANTS
  f = f
  g = g
  t1 = t1
  t2 = t2
  e1 = e1
  e2 = e2
  NoForm = NoForm
  NoOffer = NoOffer
  NoTheme = NoTheme
  Forms = {f, g}
  Dialog = TRUE
  RequestSubmit = TRUE
  QueuedClicks = 1
  MaxSent = 2
  Offers = {e1, e2}
  Typed <- MCTyped
  Slugs <- MCSlugs
  MaxSlug = 40
  MaxTimers = 2
  Tabs = {t1, t2}
  Here = t1
INVARIANTS
  PageTypeOK
  NothingLeft
  LabelReturns
  CookieFollows
  SlugFromName
PROPERTIES
  OnlyAgreed
  Sent
CHECK_DEADLOCK FALSE
