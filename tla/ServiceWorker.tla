---------------------------- MODULE ServiceWorker ----------------------------
(***************************************************************************)
(* The service worker of the web pages, src/server/tmpl/static/sw.js: the  *)
(* Cache Storage of one browser, the worker that answers its pages, the    *)
(* worker being installed, and the releases of the server they fetch from. *)
(*                                                                         *)
(* A promise reaction that touches a cache or the network is one step.     *)
(* The browser is external: it checks for a new script, runs one install   *)
(* at a time, stores an addAll as one batch, and starts the new worker     *)
(* when the old one, told by skipWaiting, has no fetch event left.  Only   *)
(* GET requests below /static/ get here (the worker returns on others).    *)
(***************************************************************************)
EXTENDS Naturals, SequencesExt

CONSTANTS
  Assets,       \* files below /static/
  PRECACHE,     \* those the install event caches
  Caches,       \* names of caches
  Scripts,      \* contents sw.js has had, compared byte by byte
  CACHE,        \* CACHE[s]: the cache name in script s
  MaxRelease,   \* bound on the releases the server runs, one after another
  ScriptOf,     \* ScriptOf[r]: the script release r serves
  Events,       \* fetch events handled at once
  NoScript, NoEntry, NoAsset

Releases == 1..MaxRelease
Response == [ok: BOOLEAN, of: Releases]   \* r.ok, and the release it came from

ASSUME WorkerAssumption ==
  /\ MaxRelease \in Nat \ {0} /\ PRECACHE \subseteq Assets
  /\ CACHE \in [Scripts -> Caches] /\ ScriptOf \in [Releases -> Scripts]
  /\ NoScript \notin Scripts /\ NoEntry \notin Response /\ NoAsset \notin Assets

VARIABLES
  release,   \* the release the server runs
  active,    \* script of the worker that controls the pages, or NoScript
  job,       \* the installation: its next step and what it has fetched
  order,     \* names of the caches there are, oldest first
  entry,     \* entry[c][a]: what cache c holds for asset a
  event,     \* event[e]: the next step of fetch event e
  since,     \* history: the release the active worker began to install from
  kept,      \* history: the active worker found its cache already there
  late       \* history: since then a replaced worker has stored a response

store   == <<order, entry>>
history == <<since, kept, late>>
vars    == <<release, active, job, store, event, history>>

Nothing == [a \in Assets |-> NoEntry]
Entries == [Assets -> Response \cup {NoEntry}]
Job     == [script: Scripts \cup {NoScript}, step: {"none", "open", "add", "installed"},
            from: Releases, kept: BOOLEAN, got: Entries]
NoJob   == [script |-> NoScript, step |-> "none", from |-> 1, kept |-> FALSE,
            got |-> Nothing]
Event   == [pc: {"idle", "network", "open", "put"}, by: Scripts \cup {NoScript},
            asset: Assets \cup {NoAsset}, got: Response \cup {NoEntry}]
Idle    == [pc |-> "idle", by |-> NoScript, asset |-> NoAsset, got |-> NoEntry]

Exists(c) == \E i \in DOMAIN order : order[i] = c
Busy      == \E e \in Events : event[e].pc = "network"

\* What caches.match(a) finds: it asks every cache, in order of creation.
Match(a) ==
  LET hits == {i \in DOMAIN order : entry[order[i]][a] # NoEntry}
  IN IF hits = {} THEN NoEntry ELSE entry[order[Min(hits)]][a]

TypeOK ==
  /\ release \in Releases /\ since \in Releases
  /\ active \in Scripts \cup {NoScript}
  /\ job \in Job
  /\ job.step # "none" => job.script \in Scripts
  /\ order \in Seq(Caches) /\ entry \in [Caches -> Entries]
  /\ \A c \in Caches : ~Exists(c) => entry[c] = Nothing
  /\ \A i, j \in DOMAIN order : order[i] = order[j] => i = j
  /\ event \in [Events -> Event]
  /\ \A e \in Events :
       /\ event[e].pc # "idle" => event[e].by \in Scripts /\ event[e].asset \in Assets
       /\ event[e].pc \in {"open", "put"} => event[e].got \in Response
       /\ event[e].pc = "put" => Exists(CACHE[event[e].by])
  /\ kept \in BOOLEAN /\ late \in BOOLEAN

Init ==
  /\ release = 1
  /\ active = NoScript
  /\ job = NoJob
  /\ order = <<>>
  /\ entry = [c \in Caches |-> Nothing]
  /\ event = [e \in Events |-> Idle]
  /\ since = 1 /\ kept = FALSE /\ late = FALSE

\* caches.open(c): creates the cache when there is none of that name.
Open(c) == order' = IF Exists(c) THEN order ELSE Append(order, c)

-----------------------------------------------------------------------------
(* Install and activate *)

\* The server is upgraded.
Deploy ==
  /\ release < MaxRelease
  /\ release' = release + 1
  /\ UNCHANGED <<active, job, store, event, history>>

\* The browser fetches sw.js and finds another script than it runs.
Update ==
  /\ job.step = "none"
  /\ ScriptOf[release] # active
  /\ job' = [NoJob EXCEPT !.script = ScriptOf[release], !.step = "open",
                          !.from = release]
  /\ UNCHANGED <<release, active, store, event, history>>

\* Mutant: the install event does not wait for the cache to be filled.
InstallOpen_NotWaited ==
  /\ job.step = "open"
  /\ Open(CACHE[job.script])
  /\ job' = [job EXCEPT !.step = "installed", !.kept = Exists(CACHE[job.script])]
  /\ UNCHANGED <<release, active, entry, event, history>>

\* install: caches.open(CACHE).
InstallOpen ==
  /\ job.step = "open"
  /\ Open(CACHE[job.script])
  /\ job' = [job EXCEPT !.step = "add", !.kept = Exists(CACHE[job.script])]
  /\ UNCHANGED <<release, active, entry, event, history>>

\* One request of addAll is answered with status 200.
Add(a) ==
  /\ job.step = "add" /\ job.got[a] = NoEntry
  /\ job' = [job EXCEPT !.got[a] = [ok |-> TRUE, of |-> release]]
  /\ UNCHANGED <<release, active, store, event, history>>

\* addAll has every answer and stores them; waitUntil ends the install event.
AddAll ==
  /\ job.step = "add"
  /\ \A a \in PRECACHE : job.got[a] # NoEntry
  /\ entry' = [entry EXCEPT ![CACHE[job.script]] =
                 [a \in Assets |-> IF a \in PRECACHE THEN job.got[a] ELSE @[a]]]
  /\ job' = [job EXCEPT !.step = "installed"]
  /\ UNCHANGED <<release, active, order, event, history>>

\* A request of addAll fails or is answered with an error: no installation,
\* what was fetched is dropped, an opened cache stays.
InstallFails ==
  /\ job.step \in {"open", "add"}
  /\ job' = NoJob
  /\ UNCHANGED <<release, active, store, event, history>>

\* What is put into a cache that was deleted since it was opened is found by
\* nobody.
Detach(own) ==
  event' = [e \in Events |->
              IF event[e].pc = "put" /\ CACHE[event[e].by] # own THEN Idle ELSE event[e]]

\* Mutant: caches of other names are not deleted.
Activate_KeepsOthers ==
  /\ job.step = "installed" /\ ~Busy
  /\ active' = job.script
  /\ job' = NoJob
  /\ since' = job.from /\ kept' = job.kept /\ late' = FALSE
  /\ UNCHANGED <<release, event, store>>

\* Mutant: the new worker waits until no page is controlled by the old one.
Activate_NoSkipWaiting ==
  /\ job.step = "installed" /\ ~Busy /\ active = NoScript
  /\ LET own == CACHE[job.script]
     IN /\ order' = IF Exists(own) THEN <<own>> ELSE <<>>
        /\ entry' = [c \in Caches |-> IF c = own THEN entry[c] ELSE Nothing]
        /\ Detach(own)
  /\ active' = job.script
  /\ job' = NoJob
  /\ since' = job.from /\ kept' = job.kept /\ late' = FALSE
  /\ UNCHANGED release

\* skipWaiting and activate: every cache of another name is deleted, and
\* clients.claim makes the worker answer the open pages.
Activate ==
  /\ job.step = "installed" /\ ~Busy
  /\ LET own == CACHE[job.script]
     IN /\ order' = IF Exists(own) THEN <<own>> ELSE <<>>
        /\ entry' = [c \in Caches |-> IF c = own THEN entry[c] ELSE Nothing]
        /\ Detach(own)
  /\ active' = job.script
  /\ job' = NoJob
  /\ since' = job.from /\ kept' = job.kept /\ late' = FALSE
  /\ UNCHANGED release

-----------------------------------------------------------------------------
(* Fetch events *)

\* No cache has the asset: the worker asks the server.  When one has it, that
\* response is the answer and nothing changes.
Request(e, a) ==
  /\ active # NoScript /\ event[e].pc = "idle"
  /\ Match(a) = NoEntry
  /\ event' = [event EXCEPT ![e] = [Idle EXCEPT
                 !.pc = "network", !.by = active, !.asset = a]]
  /\ UNCHANGED <<release, active, job, store, history>>

\* The server answers, with the file or an error, and the page gets it; the
\* status is not looked at.
Answer(e, ok) ==
  /\ event[e].pc = "network"
  /\ event' = [event EXCEPT ![e].pc = "open",
                            ![e].got = [ok |-> ok, of |-> release]]
  /\ UNCHANGED <<release, active, job, store, history>>

\* Mutant: the put relies on the cache the install event opened.
PutOpen_NotOpened(e) ==
  /\ event[e].pc = "open"
  /\ event' = [event EXCEPT ![e].pc = "put"]
  /\ UNCHANGED <<release, active, job, store, history>>

\* caches.open(CACHE), which respondWith did not wait for.
PutOpen(e) ==
  /\ event[e].pc = "open"
  /\ Open(CACHE[event[e].by])
  /\ event' = [event EXCEPT ![e].pc = "put"]
  /\ UNCHANGED <<release, active, job, entry, history>>

\* c.put.
Put(e) ==
  /\ event[e].pc = "put"
  /\ entry' = [entry EXCEPT ![CACHE[event[e].by]][event[e].asset] = event[e].got]
  /\ late' = (late \/ event[e].by # active)
  /\ event' = [event EXCEPT ![e] = Idle]
  /\ UNCHANGED <<release, active, job, order, since, kept>>

\* The network fails, or the browser stops the worker before the put.
Drop(e) ==
  /\ event[e].pc # "idle"
  /\ event' = [event EXCEPT ![e] = Idle]
  /\ UNCHANGED <<release, active, job, store, history>>

Install == \/ Update \/ InstallOpen \/ AddAll \/ Activate
           \/ \E a \in PRECACHE : Add(a)

Fetch(e) == \/ \E a \in Assets : Request(e, a)
            \/ \E ok \in BOOLEAN : Answer(e, ok)
            \/ PutOpen(e) \/ Put(e) \/ Drop(e)

Next == Deploy \/ Install \/ InstallFails \/ \E e \in Events : Fetch(e)

Spec == Init /\ [][Next]_vars

\* The browser checks for updates and goes on with an install, the pages do
\* not request files without a break, and from some time on every request of
\* addAll is answered.
Fairness ==
  /\ []<>~Busy
  /\ WF_vars(Update \/ InstallOpen \/ AddAll \/ \E a \in PRECACHE : Add(a))
  /\ SF_vars(Activate)
  /\ <>[][~InstallFails]_vars

FairSpec == Spec /\ Fairness
=============================================================================
