------------------------- MODULE ServiceWorkerProps --------------------------
(***************************************************************************)
(* What the service worker owes the pages: the properties checked on       *)
(* ServiceWorker.  ServiceWorkerProofs proves OfflineShell, and            *)
(* NothingOlder of releases that do not use a replaced cache name again.   *)
(***************************************************************************)
EXTENDS ServiceWorker

\* "Offline shell caching" (sw.js:1): once a worker controls the pages, every
\* file of PRECACHE is answered from a cache, with a response that was ok,
\* whatever was installed, abandoned, stored late or deleted since.
OfflineShell ==
  active # NoScript => \A a \in PRECACHE : Match(a) # NoEntry /\ Match(a).ok

\* The activate event clears out the past: a page gets no asset older than
\* the release its worker was installed from, unless that worker took over a
\* cache of its own name, or the replaced worker stored a response since.
NothingOlder ==
  active # NoScript /\ ~kept /\ ~late
  => \A a \in Assets : Match(a) # NoEntry => Match(a).of >= since

\* skipWaiting: pages that are never closed get the worker of the release the
\* server runs.
CaughtUp == []<>(active = ScriptOf[release])

-----------------------------------------------------------------------------
(* What the documents say of it and the code does not do, see the README. *)

\* "browsers fetch the new frontend on the first page load after an update"
\* (AI.md): with the worker of the running release in control, the shell is
\* of that release.
ShellFresh ==
  active = ScriptOf[release] /\ job.step = "none" /\ ~Busy
  => \A a \in PRECACHE : Match(a).of = release

\* The two files of the shell are of one release.
ShellWhole ==
  active # NoScript
  => \A a, b \in PRECACHE : Match(a).of = Match(b).of

\* "Don't cache errors" (AI.md).
OnlyOkCached ==
  \A c \in Caches, a \in Assets : entry[c][a] # NoEntry => entry[c][a].ok
=============================================================================
