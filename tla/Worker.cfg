SPECIFICATION FairSpec
CONSTANTS
  css = css
  js = js
  logo = logo
  s1 = s1
  s2 = s2
  s3 = s3
  v1 = v1
  v2 = v2
  e1 = e1
  e2 = e2
  NoScript = NoScript
  NoEntry = NoEntry
  NoAsset = NoAsset
  Assets = {css, js, logo}
  PRECACHE = {css, js}
  Caches = {v1, v2}
  Scripts = {s1, s2, s3}
  CACHE <- MCCACHE
  MaxRelease = 4
  ScriptOf <- MCScriptOf
  Events = {e1, e2}
INVARIANTS
  TypeOK
  OfflineShell
  NothingOlder
PROPERTY
  CaughtUp
CHECK_DEADLOCK FALSE
