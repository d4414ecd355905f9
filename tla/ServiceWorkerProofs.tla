------------------------ MODULE ServiceWorkerProofs --------------------------
(***************************************************************************)
(* Proofs about ServiceWorker for any number of assets, caches, scripts,   *)
(* releases and fetch events: what the caches hold (IInv), and from which  *)
(* release it comes (AgeInv).                                              *)
(***************************************************************************)
EXTENDS ServiceWorkerProps, SequenceTheorems, WellFoundedInduction, TLAPS

USE WorkerAssumption

Less == OpToRel(<, Nat)

-----------------------------------------------------------------------------
(* The least element of a set of numbers *)

LEMMA NotLess == \A i, j \in Nat : <<j, i>> \notin Less => i <= j
<1>1. TAKE i \in Nat, j \in Nat
<1>2. HAVE <<j, i>> \notin Less
<1>3. <<j, i>> \in Nat \X Nat /\ <<j, i>>[1] = j /\ <<j, i>>[2] = i
  OBVIOUS
<1>4. ~(<<j, i>>[1] < <<j, i>>[2])
  BY <1>2, <1>3, Zenon DEF Less, OpToRel
<1>5. QED BY <1>3, <1>4

LEMMA MinIn ==
  ASSUME NEW I \in SUBSET Nat, I # {}
  PROVE  Min(I) \in I
<1>1. PICK i \in I : \A j \in I : <<j, i>> \notin Less
  BY NatLessThanWellFounded, WFMin, Zenon DEF Less
<1>2. \A j \in I : i <= j
  BY <1>1, NotLess, Zenon
<1>3. QED BY <1>2 DEF Min

-----------------------------------------------------------------------------
(* Types of records and caches *)

LEMMA IdleType == Idle \in Event
BY DEF Idle, Event

LEMMA NothingType == Nothing \in Entries
BY DEF Nothing, Entries

LEMMA NoJobType == NoJob \in Job
BY NothingType DEF NoJob, Job, Releases

LEMMA ResponseType ==
  ASSUME NEW ok \in BOOLEAN, NEW r \in Releases
  PROVE  [ok |-> ok, of |-> r] \in Response
BY DEF Response

LEMMA EntryType ==
  ASSUME NEW m \in Entries, NEW a \in Assets, NEW r \in Response \cup {NoEntry}
  PROVE  [m EXCEPT ![a] = r] \in Entries
BY DEF Entries

\* What Exists says of an order, and how opening a cache extends it.
LEMMA Opened ==
  ASSUME TypeOK, NEW c \in Caches, Open(c)
  PROVE  /\ order' \in Seq(Caches)
         /\ \A i, j \in DOMAIN order' : order'[i] = order'[j] => i = j
         /\ \E i \in DOMAIN order' : order'[i] = c
         /\ \A i \in DOMAIN order : i \in DOMAIN order' /\ order'[i] = order[i]
         /\ \A i \in DOMAIN order' : i \in DOMAIN order \/ order'[i] = c
<1>1. order \in Seq(Caches) /\ \A i, j \in DOMAIN order : order[i] = order[j] => i = j
  BY DEF TypeOK
<1>2. CASE Exists(c)
  BY <1>1, <1>2 DEF Open, Exists
<1>3. CASE ~Exists(c)
  <2>1. order' = Append(order, c)
    BY <1>3 DEF Open
  <2>2. /\ order' \in Seq(Caches) /\ Len(order') = Len(order) + 1
        /\ \A i \in 1..Len(order) : order'[i] = order[i]
        /\ order'[Len(order) + 1] = c
        /\ Len(order) \in Nat
    BY <1>1, <2>1
  <2>3. DOMAIN order = 1..Len(order) /\ DOMAIN order' = 1..(Len(order) + 1)
    BY <1>1, <2>2
  <2>4. \A i \in DOMAIN order : order[i] # c
    BY <1>3 DEF Exists
  <2>5. \A i, j \in DOMAIN order' : order'[i] = order'[j] => i = j
    BY <1>1, <2>2, <2>3, <2>4
  <2>6. QED BY <2>2, <2>3, <2>5
<1>4. QED BY <1>2, <1>3

LEMMA OpenedExists ==
  ASSUME TypeOK, NEW c \in Caches, Open(c), NEW d \in Caches
  PROVE  Exists(d)' <=> d = c \/ Exists(d)
BY Opened DEF Exists

-----------------------------------------------------------------------------
(* The type invariant *)

LEMMA TypeInit == Init => TypeOK
<1>1. SUFFICES ASSUME Init PROVE TypeOK
  OBVIOUS
<1>2. 1 \in Releases
  BY DEF Releases
<1>3. /\ order = <<>> /\ order \in Seq(Caches)
      /\ \A i, j \in DOMAIN order : order[i] = order[j] => i = j
  BY <1>1 DEF Init
<1>4. entry \in [Caches -> Entries] /\ \A c \in Caches : entry[c] = Nothing
  BY <1>1, NothingType DEF Init
<1>5. /\ event \in [Events -> Event]
      /\ \A e \in Events : event[e].pc = "idle"
  BY <1>1, IdleType DEF Init, Idle
<1>6. job \in Job /\ job.step = "none"
  BY <1>1, NoJobType DEF Init, NoJob
<1>7. QED BY <1>1, <1>2, <1>3, <1>4, <1>5, <1>6 DEF Init, TypeOK

LEMMA TypeRelease ==
  ASSUME TypeOK, Deploy \/ Update \/ InstallFails \/ UNCHANGED vars
  PROVE  TypeOK'
<1>1. CASE Deploy
  <2>1. release' \in Releases
    BY <1>1 DEF Deploy, TypeOK, Releases
  <2>2. QED BY <1>1, <2>1 DEF Deploy, TypeOK, store, history, Exists
<1>2. CASE Update
  <2>1. ScriptOf[release] \in Scripts /\ release \in Releases
    BY DEF TypeOK
  <2>2. job' \in Job /\ job'.script = ScriptOf[release]
    BY <1>2, <2>1, NoJobType DEF Update, Job, NoJob
  <2>3. QED BY <1>2, <2>1, <2>2 DEF Update, TypeOK, store, history, Exists
<1>3. CASE InstallFails
  BY <1>3, NoJobType DEF InstallFails, TypeOK, store, history, Exists, NoJob
<1>4. CASE UNCHANGED vars
  BY <1>4 DEF vars, TypeOK, store, history, Exists
<1>5. QED BY <1>1, <1>2, <1>3, <1>4

LEMMA TypeInstallOpen ==
  ASSUME TypeOK, InstallOpen
  PROVE  TypeOK'
<1>1. job \in Job /\ job.script \in Scripts
  BY DEF TypeOK, InstallOpen
<1>2. CACHE[job.script] \in Caches /\ Open(CACHE[job.script])
  BY <1>1 DEF InstallOpen
<1>3. job' \in Job /\ job'.script \in Scripts
  BY <1>1 DEF InstallOpen, Job, Exists
<1>4. \A c \in Caches : Exists(c) => Exists(c)'
  BY <1>2, OpenedExists
<1>5. \A c \in Caches : ~Exists(c)' => entry'[c] = Nothing
  BY <1>4 DEF InstallOpen, TypeOK
<1>6. ASSUME NEW e \in Events, event'[e].pc = "put"
      PROVE  \E i \in DOMAIN order' : order'[i] = CACHE[event'[e].by]
  <2>1. event' = event
    BY DEF InstallOpen
  <2>2. PICK i \in DOMAIN order : order[i] = CACHE[event[e].by]
    BY <1>6, <2>1 DEF TypeOK, Exists
  <2>3. i \in DOMAIN order' /\ order'[i] = order[i]
    BY <1>2, Opened
  <2>4. QED BY <2>1, <2>2, <2>3
<1>7. QED
  BY <1>2, <1>3, <1>5, <1>6, Opened DEF InstallOpen, TypeOK, history, Exists

LEMMA TypeAdd ==
  ASSUME TypeOK, NEW a \in PRECACHE, Add(a)
  PROVE  TypeOK'
<1>1. job \in Job /\ job.script \in Scripts
  BY DEF TypeOK, Add
<1>2. [ok |-> TRUE, of |-> release] \in Response
  BY ResponseType DEF TypeOK
<1>3. [job.got EXCEPT ![a] = [ok |-> TRUE, of |-> release]] \in Entries
  BY <1>1, <1>2, EntryType DEF Job
<1>4. job' \in Job /\ job'.script \in Scripts
  BY <1>1, <1>3 DEF Add, Job
<1>5. QED BY <1>4 DEF Add, TypeOK, store, history, Exists

LEMMA TypeAddAll ==
  ASSUME TypeOK, AddAll, Exists(CACHE[job.script])
  PROVE  TypeOK'
<1>1. job \in Job /\ job.script \in Scripts /\ job.got \in Entries
  BY DEF TypeOK, AddAll, Job
<1>2. job' \in Job /\ job'.script \in Scripts
  BY <1>1 DEF AddAll, Job
<1>3. entry \in [Caches -> Entries] /\ CACHE[job.script] \in Caches
  BY <1>1 DEF TypeOK
<1>4. \A c \in Caches :
        [a \in Assets |-> IF a \in PRECACHE THEN job.got[a] ELSE entry[c][a]] \in Entries
  BY <1>1, <1>3 DEF Entries
<1>5. entry' \in [Caches -> Entries]
  BY <1>3, <1>4 DEF AddAll
<1>6. \A c \in Caches : ~Exists(c) => entry'[c] = entry[c]
  BY <1>3 DEF AddAll
<1>7. QED BY <1>2, <1>5, <1>6 DEF AddAll, TypeOK, history, Exists

\* The fetch events that the activation leaves as they are.
LEMMA Detached ==
  ASSUME TypeOK, Activate, NEW e \in Events, event'[e].pc # "idle"
  PROVE  /\ event'[e] = event[e]
         /\ event[e].pc = "put" => CACHE[event[e].by] = CACHE[job.script]
BY DEF Activate, Detach, Idle

LEMMA TypeActivate ==
  ASSUME TypeOK, Activate
  PROVE  TypeOK'
<1> DEFINE own == CACHE[job.script]
<1>1. job \in Job /\ job.script \in Scripts
  BY DEF TypeOK, Activate
<1>2. own \in Caches /\ job.from \in Releases /\ job.kept \in BOOLEAN
  BY <1>1 DEF Job
<1>3. /\ order' = IF Exists(own) THEN <<own>> ELSE <<>>
      /\ entry' = [c \in Caches |-> IF c = own THEN entry[c] ELSE Nothing]
  BY DEF Activate
<1>4. entry' \in [Caches -> Entries]
  BY <1>3, NothingType DEF TypeOK
<1>5. order' \in Seq(Caches) /\ \A i, j \in DOMAIN order' : order'[i] = order'[j] => i = j
  BY <1>2, <1>3
<1>6. \A c \in Caches : ~Exists(c)' => entry'[c] = Nothing
  <2>1. SUFFICES ASSUME NEW c \in Caches, ~Exists(c)' PROVE entry'[c] = Nothing
    OBVIOUS
  <2>2. CASE c = own /\ Exists(own)
    BY <1>3, <2>1, <2>2 DEF Exists
  <2>3. CASE c = own /\ ~Exists(own)
    BY <1>3, <2>3 DEF TypeOK
  <2>4. CASE c # own
    BY <1>3, <2>4
  <2>5. QED BY <2>2, <2>3, <2>4
<1>7. event' \in [Events -> Event]
  BY IdleType DEF Activate, Detach, TypeOK
<1>8. ASSUME NEW e \in Events, event'[e].pc # "idle"
      PROVE  /\ event'[e].by \in Scripts /\ event'[e].asset \in Assets
             /\ event'[e].pc \in {"open", "put"} => event'[e].got \in Response
  BY <1>8, Detached DEF TypeOK
<1>9. ASSUME NEW e \in Events, event'[e].pc = "put"
      PROVE  \E i \in DOMAIN order' : order'[i] = CACHE[event'[e].by]
  <2>1. event'[e] = event[e] /\ CACHE[event[e].by] = own
    BY <1>9, Detached
  <2>2. Exists(own)
    BY <1>9, <2>1 DEF TypeOK
  <2>3. \E i \in DOMAIN order' : order'[i] = own
    BY <1>2, <1>3, <2>2
  <2>4. QED BY <2>1, <2>3
<1>10. /\ release' = release /\ active' = job.script /\ job' = NoJob
       /\ since' = job.from /\ kept' = job.kept /\ late' = FALSE
  BY DEF Activate
<1>11. NoJob.step = "none"
  BY DEF NoJob
<1> HIDE DEF own
<1>12. QED
  BY <1>1, <1>2, <1>4, <1>5, <1>6, <1>7, <1>8, <1>9, <1>10, <1>11, NoJobType
     DEF TypeOK, Exists

\* A fetch event goes to a record of its type.
LEMMA TypeEvent ==
  ASSUME TypeOK, NEW e \in Events, NEW v \in Event,
         event' = [event EXCEPT ![e] = v],
         v.pc # "idle" => v.by \in Scripts /\ v.asset \in Assets,
         v.pc \in {"open", "put"} => v.got \in Response
  PROVE  /\ event' \in [Events -> Event]
         /\ \A f \in Events :
              /\ event'[f].pc # "idle" => event'[f].by \in Scripts /\ event'[f].asset \in Assets
              /\ event'[f].pc \in {"open", "put"} => event'[f].got \in Response
              /\ f # e => event'[f] = event[f]
         /\ event'[e] = v
BY DEF TypeOK

LEMMA TypeRequest ==
  ASSUME TypeOK, NEW e \in Events, NEW a \in Assets, Request(e, a)
  PROVE  TypeOK'
<1> DEFINE v == [Idle EXCEPT !.pc = "network", !.by = active, !.asset = a]
<1>1. active \in Scripts
  BY DEF Request, TypeOK
<1>2. v \in Event /\ v.by = active /\ v.asset = a /\ v.pc = "network"
  BY <1>1 DEF Idle, Event
<1>3. event' = [event EXCEPT ![e] = v]
  BY DEF Request
<1> HIDE DEF v
<1>4. QED BY <1>1, <1>2, <1>3, TypeEvent DEF Request, TypeOK, store, history, Exists

LEMMA TypeAnswer ==
  ASSUME TypeOK, NEW e \in Events, NEW ok \in BOOLEAN, Answer(e, ok)
  PROVE  TypeOK'
<1> DEFINE r == [ok |-> ok, of |-> release]
           v == [event[e] EXCEPT !.pc = "open", !.got = r]
<1>1. r \in Response
  BY ResponseType DEF TypeOK
<1>2. event[e] \in Event /\ event[e].by \in Scripts /\ event[e].asset \in Assets
  BY DEF Answer, TypeOK
<1>3. event' = [event EXCEPT ![e] = v]
  BY <1>2 DEF Answer, TypeOK
<1> HIDE DEF r
<1>4. /\ v \in Event /\ v.by \in Scripts /\ v.asset \in Assets /\ v.got \in Response
      /\ v.pc = "open"
  BY <1>1, <1>2 DEF Event
<1> HIDE DEF v
<1>5. /\ event' \in [Events -> Event] /\ event'[e] = v
      /\ \A f \in Events :
           /\ event'[f].pc # "idle" => event'[f].by \in Scripts /\ event'[f].asset \in Assets
           /\ event'[f].pc \in {"open", "put"} => event'[f].got \in Response
           /\ f # e => event'[f] = event[f]
  BY <1>3, <1>4, TypeEvent
<1>6. QED BY <1>4, <1>5 DEF Answer, TypeOK, store, history, Exists

LEMMA TypePutOpen ==
  ASSUME TypeOK, NEW e \in Events, PutOpen(e)
  PROVE  TypeOK'
<1> DEFINE c == CACHE[event[e].by]
           v == [event[e] EXCEPT !.pc = "put"]
<1>1. /\ event[e] \in Event /\ event[e].by \in Scripts /\ event[e].asset \in Assets
      /\ event[e].got \in Response /\ c \in Caches
  BY DEF TypeOK, PutOpen
<1>2. Open(c) /\ event' = [event EXCEPT ![e] = v] /\ event \in [Events -> Event]
      /\ UNCHANGED <<release, active, job, entry, history>>
  BY DEF PutOpen, TypeOK
<1>3. /\ v \in Event /\ v.by = event[e].by /\ v.asset \in Assets
      /\ v.got \in Response /\ v.pc = "put"
  BY <1>1 DEF Event
<1> HIDE DEF c, v
<1>4. \A d \in Caches : Exists(d)' <=> d = c \/ Exists(d)
  BY <1>1, <1>2, OpenedExists
<1>5. \A d \in Caches : ~Exists(d)' => entry'[d] = Nothing
  BY <1>2, <1>4 DEF TypeOK
<1>6. ASSUME NEW f \in Events, event'[f].pc = "put"
      PROVE  \E i \in DOMAIN order' : order'[i] = CACHE[event'[f].by]
  <2>1. CASE f = e
    <3>1. CACHE[event'[f].by] = c
      BY <1>2, <1>3, <2>1 DEF c
    <3>2. QED BY <1>1, <1>2, <3>1, Opened
  <2>2. CASE f # e
    <3>1. event'[f] = event[f]
      BY <1>2, <2>2
    <3>2. PICK i \in DOMAIN order : order[i] = CACHE[event[f].by]
      BY <1>6, <3>1 DEF TypeOK, Exists
    <3>3. i \in DOMAIN order' /\ order'[i] = order[i]
      BY <1>1, <1>2, Opened
    <3>4. QED BY <3>1, <3>2, <3>3
  <2>3. QED BY <2>1, <2>2
<1>7. /\ event' \in [Events -> Event]
      /\ \A f \in Events :
           /\ event'[f].pc # "idle" => event'[f].by \in Scripts /\ event'[f].asset \in Assets
           /\ event'[f].pc \in {"open", "put"} => event'[f].got \in Response
  BY <1>1, <1>2, <1>3, TypeEvent
<1>8. QED BY <1>1, <1>2, <1>5, <1>6, <1>7, Opened DEF TypeOK, history, Exists

LEMMA TypePut ==
  ASSUME TypeOK, NEW e \in Events, Put(e)
  PROVE  TypeOK'
<1> DEFINE c == CACHE[event[e].by]
<1>1. /\ event[e].by \in Scripts /\ event[e].asset \in Assets
      /\ event[e].got \in Response /\ c \in Caches /\ Exists(c)
  BY DEF TypeOK, Put
<1>2. entry' = [entry EXCEPT ![c][event[e].asset] = event[e].got] /\ order' = order
  BY DEF Put
<1>3. entry \in [Caches -> Entries]
  BY DEF TypeOK
<1> HIDE DEF c
<1>4. [entry[c] EXCEPT ![event[e].asset] = event[e].got] \in Entries
  BY <1>1, <1>3, EntryType
<1>5. entry' \in [Caches -> Entries]
  BY <1>1, <1>2, <1>3, <1>4
<1>6. \A d \in Caches : ~Exists(d)' => entry'[d] = Nothing
  BY <1>1, <1>2, <1>3 DEF TypeOK, Exists
<1>7. late' \in BOOLEAN
  BY DEF Put, TypeOK
<1>8. event' = [event EXCEPT ![e] = Idle] /\ Idle \in Event /\ Idle.pc = "idle"
  BY IdleType DEF Put, Idle
<1>9. QED BY <1>2, <1>5, <1>6, <1>7, <1>8, TypeEvent DEF Put, TypeOK, Exists

LEMMA TypeDrop ==
  ASSUME TypeOK, NEW e \in Events, Drop(e)
  PROVE  TypeOK'
<1>1. event' = [event EXCEPT ![e] = Idle] /\ Idle \in Event /\ Idle.pc = "idle"
  BY IdleType DEF Drop, Idle
<1>2. QED BY <1>1, TypeEvent DEF Drop, TypeOK, store, history, Exists

-----------------------------------------------------------------------------
(* The inductive invariant *)

\* Why the shell can be had offline.  The cache of the active worker holds all
\* of PRECACHE; so no fetch event asks the server for a file of PRECACHE, and
\* only addAll, which refuses an error, stores one.
Shell ==
  /\ \A c \in Caches, a \in PRECACHE : entry[c][a] # NoEntry => entry[c][a].ok
  /\ \A e \in Events : event[e].pc # "idle" => event[e].asset \notin PRECACHE
  /\ active # NoScript
     => /\ Exists(CACHE[active])
        /\ \A a \in PRECACHE : entry[CACHE[active]][a] # NoEntry
  /\ \A a \in Assets : job.got[a] # NoEntry => job.got[a].ok
  /\ job.step \in {"add", "installed"} => Exists(CACHE[job.script])
  /\ job.step = "installed"
     => \A a \in PRECACHE : entry[CACHE[job.script]][a] # NoEntry

IInv == TypeOK /\ Shell

\* A file that the active worker's cache has is found, here or in another.
LEMMA Found ==
  ASSUME IInv, active # NoScript, NEW a \in PRECACHE
  PROVE  Match(a) # NoEntry /\ Match(a).ok
<1> DEFINE hits == {i \in DOMAIN order : entry[order[i]][a] # NoEntry}
<1>1. order \in Seq(Caches) /\ hits \subseteq Nat
  BY DEF IInv, TypeOK
<1>2. hits # {}
  <2>1. PICK i \in DOMAIN order : order[i] = CACHE[active]
    BY DEF IInv, Shell, Exists
  <2>2. entry[CACHE[active]][a] # NoEntry
    BY DEF IInv, Shell
  <2>3. QED BY <2>1, <2>2
<1>3. Min(hits) \in hits
  BY <1>1, <1>2, MinIn
<1>4. Match(a) = entry[order[Min(hits)]][a]
  BY <1>2 DEF Match
<1>5. order[Min(hits)] \in Caches
  BY <1>1, <1>3
<1> HIDE DEF hits
<1>6. Match(a) # NoEntry
  <2>1. entry[order[Min(hits)]][a] # NoEntry
    BY <1>3 DEF hits
  <2>2. QED BY <1>4, <2>1
<1>7. QED BY <1>4, <1>5, <1>6 DEF IInv, Shell

LEMMA ShellRelease ==
  ASSUME IInv, Deploy \/ Update \/ InstallFails \/ UNCHANGED vars
  PROVE  Shell'
<1>1. CASE Deploy \/ UNCHANGED vars
  BY <1>1 DEF Deploy, IInv, Shell, vars, store, history, Exists
<1>2. CASE Update \/ InstallFails
  <2>1. job'.got = Nothing /\ job'.step \in {"none", "open"}
    <3>1. NoJob.got = Nothing /\ NoJob.step = "none"
      BY DEF NoJob
    <3>2. CASE Update
      BY <3>2 DEF Update, NoJob
    <3>3. CASE InstallFails
      BY <3>1, <3>3 DEF InstallFails
    <3>4. QED BY <1>2, <3>2, <3>3
  <2>2. \A a \in Assets : job'.got[a] = NoEntry
    BY <2>1 DEF Nothing
  <2>3. UNCHANGED <<active, order, entry, event>>
    BY <1>2 DEF Update, InstallFails, store
  <2>4. /\ \A a \in Assets : job'.got[a] # NoEntry => job'.got[a].ok
        /\ job'.step \notin {"add", "installed"}
    BY <2>1, <2>2
  <2>5. QED BY <2>3, <2>4 DEF IInv, Shell, Exists
<1>3. QED BY <1>1, <1>2

LEMMA ShellInstallOpen ==
  ASSUME IInv, InstallOpen
  PROVE  Shell'
<1>1. job \in Job /\ job.script \in Scripts
  BY DEF IInv, TypeOK, InstallOpen
<1>2. CACHE[job.script] \in Caches /\ Open(CACHE[job.script])
  BY <1>1 DEF InstallOpen
<1>3. job'.step = "add" /\ job'.got = job.got /\ job'.script = job.script
  BY <1>1 DEF InstallOpen, Job
<1>4. \A c \in Caches : Exists(c) => Exists(c)'
  BY <1>2, OpenedExists DEF IInv
<1>5. Exists(CACHE[job.script])'
  BY <1>2, <1>3, Opened DEF IInv, Exists
<1>6. active # NoScript => CACHE[active] \in Caches
  BY DEF IInv, TypeOK
<1>7. Exists(CACHE[job.script])' => \E i \in DOMAIN order' : order'[i] = CACHE[job'.script]
  BY <1>3 DEF Exists
<1>8. QED
  BY <1>3, <1>4, <1>5, <1>6 DEF InstallOpen, IInv, Shell, Exists

LEMMA ShellAdd ==
  ASSUME IInv, NEW a \in PRECACHE, Add(a)
  PROVE  Shell'
<1>1. job \in Job /\ job.got \in Entries
  BY DEF IInv, TypeOK, Job
<1>2. job'.step = job.step /\ job'.script = job.script /\ job.step = "add"
      /\ job'.got = [job.got EXCEPT ![a] = [ok |-> TRUE, of |-> release]]
  BY <1>1 DEF Add, Job
<1>3. \A b \in Assets : job'.got[b] # NoEntry => job'.got[b].ok
  BY <1>1, <1>2 DEF IInv, Shell, Entries
<1>4. QED BY <1>2, <1>3 DEF Add, IInv, Shell, store, history, Exists

LEMMA ShellAddAll ==
  ASSUME IInv, AddAll
  PROVE  Shell'
<1> DEFINE own == CACHE[job.script]
<1>1. job \in Job /\ job.script \in Scripts /\ own \in Caches /\ entry \in [Caches -> Entries]
  BY DEF IInv, TypeOK, AddAll
<1>2. job'.step = "installed" /\ job'.script = job.script /\ job'.got = job.got
  BY <1>1 DEF AddAll, Job
<1> HIDE DEF own
<1>3. \A c \in Caches, a \in PRECACHE :
        entry'[c][a] = IF c = own THEN job.got[a] ELSE entry[c][a]
  BY <1>1 DEF AddAll, own
<1>4. \A a \in PRECACHE : job.got[a] # NoEntry /\ job.got[a].ok
  BY DEF AddAll, IInv, Shell
<1>5. Exists(own) /\ UNCHANGED <<order, active, event>>
  BY DEF AddAll, IInv, Shell, own
<1>6. \A c \in Caches, a \in PRECACHE : entry'[c][a] # NoEntry => entry'[c][a].ok
  BY <1>3, <1>4 DEF IInv, Shell
<1>7. active # NoScript =>
        /\ Exists(CACHE[active])
        /\ \A a \in PRECACHE : entry'[CACHE[active]][a] # NoEntry
  BY <1>3, <1>4 DEF IInv, Shell, TypeOK
<1>8. \A a \in PRECACHE : entry'[own][a] # NoEntry
  BY <1>1, <1>3, <1>4
<1>9. QED BY <1>2, <1>5, <1>6, <1>7, <1>8 DEF IInv, Shell, Exists, own

LEMMA ShellActivate ==
  ASSUME IInv, Activate
  PROVE  Shell'
<1> DEFINE own == CACHE[job.script]
<1>1. job \in Job /\ job.script \in Scripts /\ own \in Caches
  BY DEF IInv, TypeOK, Activate
<1>2. /\ order' = IF Exists(own) THEN <<own>> ELSE <<>>
      /\ entry' = [c \in Caches |-> IF c = own THEN entry[c] ELSE Nothing]
      /\ active' = job.script /\ job' = NoJob
  BY DEF Activate
<1>3. Exists(own) /\ \A a \in PRECACHE : entry[own][a] # NoEntry
  BY DEF Activate, IInv, Shell
<1>4. CACHE[active'] = own /\ (\E i \in DOMAIN order' : order'[i] = own)
  BY <1>2, <1>3
<1> HIDE DEF own
<1>5. \A c \in Caches, a \in PRECACHE : entry'[c][a] # NoEntry => entry'[c][a].ok
  BY <1>2 DEF IInv, Shell, Nothing
<1>6. \A a \in PRECACHE : entry'[own][a] # NoEntry
  BY <1>1, <1>2, <1>3
<1>7. job'.step = "none" /\ \A a \in Assets : job'.got[a] = NoEntry
  BY <1>2 DEF NoJob, Nothing
<1>8. \A e \in Events : event'[e].pc # "idle" => event'[e].asset \notin PRECACHE
  BY Detached DEF IInv, Shell
<1>9. QED BY <1>2, <1>4, <1>5, <1>6, <1>7, <1>8 DEF Shell, Exists

LEMMA ShellFetch ==
  ASSUME IInv, NEW e \in Events, Fetch(e)
  PROVE  Shell'
<1>1. CASE \E a \in Assets : Request(e, a)
  <2>1. PICK a \in Assets : Request(e, a)
    BY <1>1
  <2>2. a \notin PRECACHE
    BY <2>1, Found DEF Request
  <2>3. \A f \in Events : event'[f] = IF f = e THEN [Idle EXCEPT
                 !.pc = "network", !.by = active, !.asset = a] ELSE event[f]
    BY <2>1 DEF Request, IInv, TypeOK
  <2>4. \A f \in Events : event'[f].pc # "idle" => event'[f].asset \notin PRECACHE
    BY <2>2, <2>3 DEF IInv, Shell, Idle
  <2>5. QED BY <2>1, <2>4 DEF Request, IInv, Shell, store, history, Exists
<1>2. CASE \E ok \in BOOLEAN : Answer(e, ok)
  <2>1. PICK ok \in BOOLEAN : Answer(e, ok)
    BY <1>2
  <2>2. event[e] \in Event /\ event \in [Events -> Event]
    BY DEF IInv, TypeOK
  <2>3. \A f \in Events :
          /\ event'[f].asset = event[f].asset
          /\ event'[f].pc # "idle" => event[f].pc # "idle"
    BY <2>1, <2>2 DEF Answer, Event
  <2>4. QED BY <2>1, <2>3 DEF Answer, IInv, Shell, store, history, Exists
<1>3. CASE PutOpen(e)
  <2> DEFINE c == CACHE[event[e].by]
  <2>1. event[e].by \in Scripts /\ c \in Caches /\ event \in [Events -> Event]
    BY <1>3 DEF PutOpen, IInv, TypeOK
  <2>2. Open(c) /\ UNCHANGED <<active, job, entry>>
    BY <1>3 DEF PutOpen
  <2> HIDE DEF c
  <2>3. \A d \in Caches : Exists(d) => Exists(d)'
    BY <2>1, <2>2, OpenedExists DEF IInv
  <2>4. \A f \in Events :
          /\ event'[f].asset = event[f].asset
          /\ event'[f].pc # "idle" => event[f].pc # "idle"
    BY <1>3, <2>1 DEF PutOpen, Event
  <2>5. /\ active # NoScript => CACHE[active] \in Caches
        /\ job.step # "none" => CACHE[job.script] \in Caches
    BY DEF IInv, TypeOK
  <2>6. active # NoScript => \E i \in DOMAIN order' : order'[i] = CACHE[active]
    BY <2>3, <2>5 DEF IInv, Shell, Exists
  <2>7. job.step \in {"add", "installed"} => \E i \in DOMAIN order' : order'[i] = CACHE[job.script]
    BY <2>3, <2>5 DEF IInv, Shell, Exists
  <2>8. QED BY <2>2, <2>4, <2>6, <2>7 DEF IInv, Shell, Exists
<1>4. CASE Put(e)
  <2> DEFINE c == CACHE[event[e].by]
  <2>1. /\ event[e].by \in Scripts /\ c \in Caches /\ event[e].asset \notin PRECACHE
        /\ entry \in [Caches -> Entries]
    BY <1>4 DEF Put, IInv, Shell, TypeOK
  <2>2. entry' = [entry EXCEPT ![c][event[e].asset] = event[e].got]
    BY <1>4 DEF Put
  <2> HIDE DEF c
  <2>3. \A d \in Caches, a \in PRECACHE : entry'[d][a] = entry[d][a]
    BY <2>1, <2>2 DEF Entries
  <2>4. \A f \in Events : event'[f].pc # "idle" => event'[f] = event[f]
    BY <1>4 DEF Put, IInv, TypeOK, Idle
  <2>5. UNCHANGED <<active, job, order>>
    BY <1>4 DEF Put
  <2>6. /\ active # NoScript => CACHE[active] \in Caches
        /\ job.step # "none" => CACHE[job.script] \in Caches
    BY DEF IInv, TypeOK
  <2>7. /\ active # NoScript => \A a \in PRECACHE : entry'[CACHE[active]][a] # NoEntry
        /\ job.step = "installed"
           => \A a \in PRECACHE : entry'[CACHE[job.script]][a] # NoEntry
    BY <2>3, <2>6 DEF IInv, Shell
  <2>8. QED BY <2>3, <2>4, <2>5, <2>7 DEF IInv, Shell, Exists
<1>5. CASE Drop(e)
  <2>1. \A f \in Events : event'[f].pc # "idle" => event'[f] = event[f]
    BY <1>5 DEF Drop, IInv, TypeOK, Idle
  <2>2. QED BY <1>5, <2>1 DEF Drop, IInv, Shell, store, history, Exists
<1>6. QED BY <1>1, <1>2, <1>3, <1>4, <1>5 DEF Fetch

LEMMA IInvStep ==
  ASSUME IInv, [Next]_vars
  PROVE  IInv'
<1>1. CASE Deploy \/ Update \/ InstallFails \/ UNCHANGED vars
  BY <1>1, TypeRelease, ShellRelease DEF IInv
<1>2. CASE InstallOpen
  BY <1>2, TypeInstallOpen, ShellInstallOpen DEF IInv
<1>3. CASE \E a \in PRECACHE : Add(a)
  BY <1>3, TypeAdd, ShellAdd DEF IInv
<1>4. CASE AddAll
  <2>1. Exists(CACHE[job.script])
    BY <1>4 DEF AddAll, IInv, Shell
  <2>2. QED BY <1>4, <2>1, TypeAddAll, ShellAddAll DEF IInv
<1>5. CASE Activate
  BY <1>5, TypeActivate, ShellActivate DEF IInv
<1>6. CASE \E e \in Events : Fetch(e)
  <2>1. PICK e \in Events : Fetch(e)
    BY <1>6
  <2>2. TypeOK'
    BY <2>1, TypeRequest, TypeAnswer, TypePutOpen, TypePut, TypeDrop DEF Fetch, IInv
  <2>3. QED BY <2>1, <2>2, ShellFetch DEF IInv
<1>7. QED BY <1>1, <1>2, <1>3, <1>4, <1>5, <1>6, Zenon DEF Next, Install

LEMMA IInvInit == Init => IInv
<1>1. SUFFICES ASSUME Init PROVE Shell
  BY TypeInit DEF IInv
<1>2. \A a \in Assets : job.got[a] = NoEntry /\ \A c \in Caches : entry[c][a] = NoEntry
  BY <1>1 DEF Init, NoJob, Nothing
<1>3. QED BY <1>1, <1>2 DEF Init, Shell, NoJob, Idle

LEMMA Invariant == Spec => []IInv
<1>1. IInv /\ [Next]_vars => IInv'
  BY IInvStep
<1>2. QED BY <1>1, IInvInit, PTL DEF Spec

\* The type invariant of the service worker.
THEOREM TypeCorrect == Spec => []TypeOK
<1>1. IInv => TypeOK
  BY DEF IInv
<1>2. QED BY <1>1, Invariant, PTL

\* However installs, fetch events, late stores and releases interleave, and
\* whatever fails: once a worker controls the pages, all of PRECACHE is
\* answered from a cache, and with a response that was ok.
THEOREM ShellOffline == Spec => []OfflineShell
<1>1. IInv => OfflineShell
  BY Found DEF OfflineShell
<1>2. QED BY <1>1, Invariant, PTL

-----------------------------------------------------------------------------
(* What is older than the worker *)

\* A cache name that a release has replaced is not used again, as the number
\* at the end of 'caslink-v1' has it.
NamesNotReused ==
  \A p, q, r \in Releases :
    p <= q /\ q <= r /\ CACHE[ScriptOf[p]] = CACHE[ScriptOf[r]]
    => CACHE[ScriptOf[q]] = CACHE[ScriptOf[p]]

\* Which release a worker, an installation and a fetch event come from.
Lineage ==
  /\ since <= release
  /\ active # NoScript => active = ScriptOf[since]
  /\ job.step # "none"
     => job.script = ScriptOf[job.from] /\ since <= job.from /\ job.from <= release
  /\ \A a \in Assets : job.got[a] # NoEntry => job.got[a].of >= job.from
  /\ \A e \in Events : event[e].pc # "idle" => active # NoScript
  /\ \A e \in Events : event[e].pc # "idle" => \E p \in 1..since : event[e].by = ScriptOf[p]

\* A cache that the installation created is filled by nobody else.
OwnCacheNew ==
  job.step \in {"add", "installed"} /\ ~job.kept
  => /\ active # NoScript => CACHE[active] # CACHE[job.script]
     /\ \A e \in Events : event[e].pc # "idle" => CACHE[event[e].by] # CACHE[job.script]
     /\ \A a \in Assets : entry[CACHE[job.script]][a] # NoEntry
                          => entry[CACHE[job.script]][a].of >= job.from

\* What is stored, and what the active worker is about to store.
Stored ==
  ~kept /\ ~late
  => \A c \in Caches, a \in Assets : entry[c][a] # NoEntry => entry[c][a].of >= since

ToStore ==
  active # NoScript /\ ~kept
  => \A e \in Events :
       event[e].pc \in {"open", "put"} /\ event[e].by = active
       => event[e].got.of >= since

AgeInv == Lineage /\ OwnCacheNew /\ Stored /\ ToStore

\* What one fetch event does to the others, and how it changes itself.
LEMMA FetchEvents ==
  ASSUME IInv, NEW e \in Events, Fetch(e)
  PROVE  \A f \in Events : event'[f].pc # "idle"
           => \/ event'[f].by = event[f].by /\ event[f].pc # "idle"
              \/ event'[f].by = active /\ active # NoScript
<1>1. event \in [Events -> Event]
  BY DEF IInv, TypeOK
<1>2. CASE \E a \in Assets : Request(e, a)
  BY <1>1, <1>2 DEF Request, Idle
<1>3. CASE \E ok \in BOOLEAN : Answer(e, ok)
  <2>1. PICK ok \in BOOLEAN : Answer(e, ok)
    BY <1>3
  <2>2. event[e] \in Event
    BY <1>1
  <2>3. \A f \in Events : event'[f].by = event[f].by
                       /\ (f # e => event'[f] = event[f])
    BY <1>1, <2>1, <2>2 DEF Answer, Event
  <2>4. event[e].pc # "idle"
    BY <2>1 DEF Answer
  <2>5. QED BY <2>3, <2>4
<1>4. CASE Put(e) \/ Drop(e)
  BY <1>1, <1>4 DEF Put, Drop, Idle
<1>5. CASE PutOpen(e)
  BY <1>1, <1>5 DEF PutOpen, Event
<1>6. QED BY <1>2, <1>3, <1>4, <1>5 DEF Fetch

LEMMA FetchKeeps ==
  ASSUME NEW e \in Events, Fetch(e)
  PROVE  UNCHANGED <<release, active, job, since, kept>>
BY DEF Fetch, Request, Answer, PutOpen, Put, Drop, history

\* Numbers of releases.
LEMMA Numbers ==
  ASSUME IInv
  PROVE  /\ release \in Nat \ {0} /\ since \in Nat \ {0} /\ job.from \in Nat \ {0}
         /\ {release, since, job.from} \subseteq Releases
         /\ job.got \in Entries /\ job.kept \in BOOLEAN
BY DEF IInv, TypeOK, Job, Releases

LEMMA LineageNext == IInv /\ Lineage /\ [Next]_vars => Lineage'
<1> SUFFICES ASSUME IInv, Lineage, [Next]_vars PROVE Lineage'
  OBVIOUS
<1>1. CASE Deploy
  <2>1. release' = release + 1 /\ UNCHANGED <<active, job, event, since>>
    BY <1>1 DEF Deploy, history
  <2>2. QED BY <2>1, Numbers DEF Lineage
<1>2. CASE Update
  <2>1. /\ job'.script = ScriptOf[release] /\ job'.from = release
        /\ job'.got = Nothing
        /\ UNCHANGED <<release, active, event, since>>
    BY <1>2 DEF Update, NoJob, history
  <2>2. \A a \in Assets : job'.got[a] = NoEntry
    BY <2>1 DEF Nothing
  <2>3. QED BY <2>1, <2>2, Numbers DEF Lineage
<1>3. CASE InstallOpen \/ AddAll
  <2>1. job \in Job
    BY DEF IInv, TypeOK
  <2>2. /\ job'.script = job.script /\ job'.from = job.from /\ job'.got = job.got
        /\ job.step # "none"
        /\ UNCHANGED <<release, active, event, since>>
    BY <1>3, <2>1 DEF InstallOpen, AddAll, Job, history
  <2>3. QED BY <2>2 DEF Lineage
<1>4. CASE \E a \in PRECACHE : Add(a)
  <2>1. PICK a \in PRECACHE : Add(a)
    BY <1>4
  <2>2. job \in Job
    BY DEF IInv, TypeOK
  <2>3. /\ job'.script = job.script /\ job'.from = job.from /\ job.step # "none"
        /\ job'.got = [job.got EXCEPT ![a] = [ok |-> TRUE, of |-> release]]
        /\ UNCHANGED <<release, active, event, since>>
    BY <2>1, <2>2 DEF Add, Job, history
  <2>4. \A b \in Assets : job'.got[b] # NoEntry => job'.got[b].of >= job'.from
    BY <2>3, Numbers DEF Lineage, Entries
  <2>5. QED BY <2>3, <2>4 DEF Lineage
<1>5. CASE InstallFails
  <2>1. job' = NoJob /\ UNCHANGED <<release, active, event, since>>
    BY <1>5 DEF InstallFails, history
  <2>2. job'.step = "none" /\ \A a \in Assets : job'.got[a] = NoEntry
    BY <2>1 DEF NoJob, Nothing
  <2>3. QED BY <2>1, <2>2 DEF Lineage
<1>6. CASE Activate
  <2>1. /\ job' = NoJob /\ active' = job.script /\ since' = job.from
        /\ job.step # "none" /\ release' = release
    BY <1>6 DEF Activate
  <2>2. job'.step = "none" /\ \A a \in Assets : job'.got[a] = NoEntry
    BY <2>1 DEF NoJob, Nothing
  <2>3. job.script \in Scripts /\ since <= job.from
    BY <2>1 DEF IInv, TypeOK, Lineage
  <2>4. \A p \in 1..since : p \in 1..since'
    BY <2>1, <2>3, Numbers
  <2>5. \A e \in Events : event'[e].pc # "idle" => event'[e] = event[e]
    BY <1>6, Detached DEF IInv
  <2>6. active' # NoScript
    BY <2>1, <2>3
  <2>7. \A e \in Events : event'[e].pc # "idle"
          => \E p \in 1..since' : event'[e].by = ScriptOf[p]
    BY <2>4, <2>5 DEF Lineage
  <2>8. QED BY <2>1, <2>2, <2>3, <2>5, <2>6, <2>7 DEF Lineage
<1>7. CASE \E e \in Events : Fetch(e)
  <2>1. PICK e \in Events : Fetch(e)
    BY <1>7
  <2>2. UNCHANGED <<release, active, job, since>>
    BY <2>1, FetchKeeps
  <2>3. since \in 1..since
    BY Numbers
  <2>4. ASSUME NEW f \in Events, event'[f].pc # "idle"
        PROVE  active # NoScript /\ \E p \in 1..since : event'[f].by = ScriptOf[p]
    <3>1. CASE event'[f].by = event[f].by /\ event[f].pc # "idle"
      BY <3>1 DEF Lineage
    <3>2. CASE event'[f].by = active /\ active # NoScript
      BY <2>3, <3>2 DEF Lineage
    <3>3. QED BY <2>1, <2>4, <3>1, <3>2, FetchEvents
  <2>5. QED BY <2>2, <2>4 DEF Lineage
<1>8. CASE UNCHANGED vars
  BY <1>8 DEF vars, history, Lineage
<1>9. QED BY <1>1, <1>2, <1>3, <1>4, <1>5, <1>6, <1>7, <1>8, Zenon DEF Next, Install

\* The cache that an installation is about to open and that nobody has yet is
\* not one that a fetch event would store into.
LEMMA OpensUnused ==
  ASSUME NamesNotReused, IInv, Lineage, InstallOpen, ~Exists(CACHE[job.script])
  PROVE  /\ active # NoScript => CACHE[active] # CACHE[job.script]
         /\ \A e \in Events : event[e].pc # "idle" => CACHE[event[e].by] # CACHE[job.script]
<1>1. active # NoScript => CACHE[active] # CACHE[job.script]
  BY DEF IInv, Shell
<1>2. ASSUME NEW e \in Events, event[e].pc # "idle",
             CACHE[event[e].by] = CACHE[job.script]
      PROVE  FALSE
  <2>1. PICK p \in 1..since : event[e].by = ScriptOf[p]
    BY <1>2 DEF Lineage
  <2>2. /\ active # NoScript /\ active = ScriptOf[since]
        /\ job.script = ScriptOf[job.from] /\ since <= job.from
    BY <1>2 DEF Lineage, InstallOpen
  <2>3. p \in Releases /\ p <= since
    BY Numbers DEF Releases
  <2>4. since \in Releases /\ job.from \in Releases
    BY Numbers
  <2>5. CACHE[ScriptOf[since]] = CACHE[ScriptOf[p]]
    BY <1>2, <2>1, <2>2, <2>3, <2>4 DEF NamesNotReused
  <2>6. QED BY <1>1, <1>2, <2>1, <2>2, <2>5
<1>3. QED BY <1>1, <1>2

LEMMA OwnCacheNext ==
  ASSUME NamesNotReused, IInv, Lineage, OwnCacheNew, [Next]_vars
  PROVE  OwnCacheNew'
<1>1. CASE Deploy \/ UNCHANGED vars
  BY <1>1 DEF Deploy, vars, store, history, OwnCacheNew
<1>2. CASE Update \/ InstallFails \/ Activate
  <2>1. Update => job'.step = "open"
    BY DEF Update, NoJob
  <2>2. InstallFails \/ Activate => job'.step = "none"
    BY DEF InstallFails, Activate, NoJob
  <2>3. job'.step \notin {"add", "installed"}
    BY <1>2, <2>1, <2>2
  <2>4. QED BY <2>3, Zenon DEF OwnCacheNew
<1>3. CASE InstallOpen
  <2>1. job \in Job /\ job.script \in Scripts
    BY <1>3 DEF InstallOpen, IInv, TypeOK
  <2>2. /\ job'.script = job.script /\ job'.kept = Exists(CACHE[job.script])
        /\ UNCHANGED <<active, entry, event>>
    BY <1>3, <2>1 DEF InstallOpen, Job
  <2>3. ASSUME ~Exists(CACHE[job.script])
        PROVE  \A a \in Assets : entry[CACHE[job.script]][a] = NoEntry
    BY <2>1, <2>3 DEF IInv, TypeOK, Nothing
  <2>4. QED BY <1>3, <2>2, <2>3, OpensUnused DEF OwnCacheNew
<1>4. CASE \E a \in PRECACHE : Add(a)
  <2>1. job \in Job
    BY DEF IInv, TypeOK
  <2>2. /\ job'.script = job.script /\ job'.from = job.from
        /\ job'.kept = job.kept /\ job'.step = job.step
        /\ UNCHANGED <<active, entry, event>>
    BY <1>4, <2>1 DEF Add, Job, store
  <2>3. QED BY <2>2 DEF OwnCacheNew
<1>5. CASE AddAll
  <2> DEFINE own == CACHE[job.script]
  <2>1. job \in Job /\ job.script \in Scripts /\ entry \in [Caches -> Entries]
        /\ own \in Caches
    BY <1>5 DEF AddAll, IInv, TypeOK
  <2>2. /\ job'.script = job.script /\ job'.from = job.from
        /\ job'.kept = job.kept /\ job.step = "add"
        /\ UNCHANGED <<active, event>>
    BY <1>5, <2>1 DEF AddAll, Job
  <2>3. entry' = [entry EXCEPT ![own] =
                    [a \in Assets |-> IF a \in PRECACHE THEN job.got[a] ELSE @[a]]]
    BY <1>5 DEF AddAll
  <2> HIDE DEF own
  <2>4. \A a \in Assets : entry'[own][a] = IF a \in PRECACHE THEN job.got[a]
                                           ELSE entry[own][a]
    BY <2>1, <2>3
  <2>5. \A a \in Assets : job.got[a] # NoEntry => job.got[a].of >= job.from
    BY DEF Lineage
  <2>6. ASSUME ~job.kept, NEW a \in Assets, entry'[own][a] # NoEntry
        PROVE  entry'[own][a].of >= job.from
    <3>1. CASE a \in PRECACHE
      BY <2>4, <2>5, <2>6, <3>1
    <3>2. CASE a \notin PRECACHE
      BY <2>2, <2>4, <2>6, <3>2 DEF OwnCacheNew, own
    <3>3. QED BY <3>1, <3>2
  <2>7. QED BY <2>2, <2>6 DEF OwnCacheNew, own
<1>6. CASE \E e \in Events : Fetch(e)
  <2>1. PICK e \in Events : Fetch(e)
    BY <1>6
  <2>2. UNCHANGED <<active, job>>
    BY <2>1, FetchKeeps
  <2>3. ASSUME ~(job.step \in {"add", "installed"} /\ ~job.kept)
        PROVE  OwnCacheNew'
    BY <2>2, <2>3, Zenon DEF OwnCacheNew
  <2>4. ASSUME job.step \in {"add", "installed"}, ~job.kept
        PROVE  OwnCacheNew'
    <3>1. /\ active # NoScript => CACHE[active] # CACHE[job.script]
          /\ \A f \in Events : event[f].pc # "idle" => CACHE[event[f].by] # CACHE[job.script]
      BY <2>4 DEF OwnCacheNew
    <3>2. \A f \in Events : event'[f].pc # "idle" => CACHE[event'[f].by] # CACHE[job.script]
      BY <2>1, <3>1, FetchEvents
    <3>3. entry'[CACHE[job.script]] = entry[CACHE[job.script]]
      <4>1. CASE Put(e)
        <5>1. CACHE[event[e].by] # CACHE[job.script]
          BY <3>1, <4>1 DEF Put
        <5>2. entry \in [Caches -> Entries] /\ CACHE[job.script] \in Caches
          BY <2>4 DEF IInv, TypeOK
        <5>3. QED BY <4>1, <5>1, <5>2 DEF Put
      <4>2. CASE ~Put(e)
        BY <2>1, <4>2 DEF Fetch, Request, Answer, PutOpen, Drop, store
      <4>3. QED BY <4>1, <4>2
    <3>4. QED BY <2>2, <3>1, <3>2, <3>3 DEF OwnCacheNew
  <2>5. QED BY <2>3, <2>4
<1>7. QED BY <1>1, <1>2, <1>3, <1>4, <1>5, <1>6, Zenon DEF Next, Install

LEMMA ToStoreNext ==
  ASSUME IInv, Lineage, OwnCacheNew, ToStore, [Next]_vars
  PROVE  ToStore'
<1>1. CASE Deploy \/ Update \/ InstallOpen \/ AddAll \/ InstallFails
           \/ (\E a \in PRECACHE : Add(a)) \/ UNCHANGED vars
  <2>1. UNCHANGED <<active, kept, event, since>>
    BY <1>1 DEF Deploy, Update, InstallOpen, AddAll, InstallFails, Add, vars, history
  <2>2. QED BY <2>1 DEF ToStore
<1>2. CASE Activate
  <2>1. /\ job.step = "installed" /\ active' = job.script /\ kept' = job.kept
        /\ \A e \in Events : event'[e].pc # "idle" => event'[e] = event[e]
    BY <1>2, Detached DEF Activate, IInv
  <2>2. ~job.kept => \A e \in Events : event[e].pc # "idle" => event[e].by # job.script
    BY <2>1 DEF OwnCacheNew
  <2>3. QED BY <2>1, <2>2 DEF ToStore
<1>3. CASE \E e \in Events : Fetch(e)
  <2>1. PICK e \in Events : Fetch(e)
    BY <1>3
  <2>2. UNCHANGED <<active, kept, since>>
    BY <2>1, FetchKeeps
  <2>3. event \in [Events -> Event]
    BY DEF IInv, TypeOK
  <2>4. SUFFICES ASSUME active # NoScript, ~kept, NEW f \in Events,
                        event'[f].pc \in {"open", "put"}, event'[f].by = active
                 PROVE  event'[f].got.of >= since
    BY <2>2 DEF ToStore
  <2>5. CASE event'[f] = event[f]
    BY <2>4, <2>5 DEF ToStore
  <2>6. CASE event'[f] # event[f]
    <3>1. ~Put(e) /\ ~Drop(e)
      BY <2>3, <2>4, <2>6 DEF Put, Drop, Idle
    <3>2. ASSUME NEW a \in Assets, Request(e, a) PROVE FALSE
      <4>1. event' = [event EXCEPT ![e] = [Idle EXCEPT
                        !.pc = "network", !.by = active, !.asset = a]]
        BY <3>2 DEF Request
      <4>2. event'[e].pc = "network"
        BY <2>3, <4>1 DEF Idle
      <4>3. \A g \in Events : g # e => event'[g] = event[g]
        BY <2>3, <4>1
      <4>4. QED BY <2>4, <2>6, <4>2, <4>3
    <3>3. CASE PutOpen(e)
      <4>1. event'[f].got = event[f].got /\ event'[f].by = event[f].by
        BY <2>3, <3>3 DEF PutOpen, Event
      <4>2. event[f].pc \in {"open", "put"}
        BY <2>3, <2>4, <3>3 DEF PutOpen, Event
      <4>3. QED BY <2>4, <4>1, <4>2 DEF ToStore
    <3>4. CASE \E ok \in BOOLEAN : Answer(e, ok)
      <4>1. PICK ok \in BOOLEAN : Answer(e, ok)
        BY <3>4
      <4>2. f = e
        BY <2>3, <2>6, <4>1 DEF Answer
      <4>3. event'[f].got.of = release
        BY <2>3, <4>1, <4>2 DEF Answer, Event
      <4>4. QED BY <4>3, Numbers DEF Lineage
    <3>5. QED BY <2>1, <3>1, <3>2, <3>3, <3>4 DEF Fetch
  <2>7. QED BY <2>5, <2>6
<1>4. QED BY <1>1, <1>2, <1>3 DEF Next, Install

LEMMA StoredNext ==
  ASSUME IInv, Lineage, OwnCacheNew, Stored, ToStore, [Next]_vars
  PROVE  Stored'
<1> USE DEF Stored
<1>1. CASE Deploy \/ Update \/ InstallOpen \/ InstallFails
           \/ (\E a \in PRECACHE : Add(a)) \/ UNCHANGED vars
  <2>1. UNCHANGED <<entry, kept, late, since>>
    BY <1>1 DEF Deploy, Update, InstallOpen, InstallFails, Add, vars, store, history
  <2>2. QED BY <2>1
<1>2. CASE AddAll
  <2> DEFINE own == CACHE[job.script]
  <2>1. job.script \in Scripts /\ entry \in [Caches -> Entries] /\ own \in Caches
        /\ job.got \in Entries /\ since <= job.from
    BY <1>2, Numbers DEF AddAll, IInv, TypeOK, Lineage
  <2>2. entry' = [entry EXCEPT ![own] =
                    [a \in Assets |-> IF a \in PRECACHE THEN job.got[a] ELSE @[a]]]
    BY <1>2 DEF AddAll
  <2>3. UNCHANGED <<kept, late, since>>
    BY <1>2 DEF AddAll, history
  <2> HIDE DEF own
  <2>4. \A c \in Caches, a \in Assets :
          entry'[c][a] = IF c = own /\ a \in PRECACHE THEN job.got[a] ELSE entry[c][a]
    BY <2>1, <2>2
  <2>5. \A a \in Assets : job.got[a] # NoEntry => job.got[a].of >= since
    <3>1. TAKE a \in Assets
    <3>2. HAVE job.got[a] # NoEntry
    <3>3. job.got[a].of \in Nat
      BY <2>1, <3>2 DEF Entries, Response, Releases
    <3>4. job.got[a].of >= job.from
      BY <3>2 DEF Lineage
    <3>5. QED BY <2>1, <3>3, <3>4, Numbers
  <2>6. QED BY <2>3, <2>4, <2>5
<1>3. CASE Activate
  <2> DEFINE own == CACHE[job.script]
  <2>1. /\ job.step = "installed" /\ kept' = job.kept /\ since' = job.from
        /\ entry' = [c \in Caches |-> IF c = own THEN entry[c] ELSE Nothing]
    BY <1>3 DEF Activate
  <2>2. ~job.kept => \A a \in Assets : entry[own][a] # NoEntry
                                       => entry[own][a].of >= job.from
    BY <2>1 DEF OwnCacheNew
  <2> HIDE DEF own
  <2>3. \A c \in Caches, a \in Assets :
          entry'[c][a] # NoEntry => c = own /\ entry'[c][a] = entry[own][a]
    BY <2>1 DEF Nothing
  <2>4. QED BY <2>1, <2>2, <2>3
<1>4. CASE \E e \in Events : Fetch(e)
  <2>1. PICK e \in Events : Fetch(e)
    BY <1>4
  <2>2. UNCHANGED <<kept, since>>
    BY <2>1, FetchKeeps
  <2>3. CASE Put(e)
    <3> DEFINE c == CACHE[event[e].by]
    <3>1. /\ event[e].by \in Scripts /\ c \in Caches /\ event[e].asset \in Assets
          /\ entry \in [Caches -> Entries] /\ late \in BOOLEAN
      BY <2>3 DEF Put, IInv, TypeOK
    <3>2. /\ entry' = [entry EXCEPT ![c][event[e].asset] = event[e].got]
          /\ late' = (late \/ event[e].by # active)
      BY <2>3 DEF Put
    <3> HIDE DEF c
    <3>3. \A d \in Caches, a \in Assets :
            entry'[d][a] = IF d = c /\ a = event[e].asset THEN event[e].got
                           ELSE entry[d][a]
      BY <3>1, <3>2 DEF Entries
    <3>4. ~kept /\ ~late' => event[e].got.of >= since
      BY <2>3, <3>1, <3>2 DEF Put, ToStore, Lineage
    <3>5. ~late' => ~late
      BY <3>1, <3>2
    <3>6. QED BY <2>2, <3>3, <3>4, <3>5
  <2>4. CASE ~Put(e)
    <3>1. UNCHANGED <<entry, late>>
      BY <2>1, <2>4 DEF Fetch, Request, Answer, PutOpen, Drop, store, history
    <3>2. QED BY <2>2, <3>1
  <2>5. QED BY <2>3, <2>4
<1>5. QED BY <1>1, <1>2, <1>3, <1>4 DEF Next, Install

\* A response that is found is stored in some cache.
LEMMA FoundStored ==
  ASSUME IInv, NEW a \in Assets, Match(a) # NoEntry
  PROVE  \E c \in Caches : Match(a) = entry[c][a]
<1> DEFINE hits == {i \in DOMAIN order : entry[order[i]][a] # NoEntry}
<1>1. order \in Seq(Caches) /\ hits \subseteq Nat
  BY DEF IInv, TypeOK
<1>2. hits # {} /\ Match(a) = entry[order[Min(hits)]][a]
  BY DEF Match
<1>3. Min(hits) \in hits
  BY <1>1, <1>2, MinIn
<1>4. order[Min(hits)] \in Caches
  BY <1>1, <1>3
<1>5. QED BY <1>2, <1>4

\* Once a worker whose cache was new has been activated, the pages get no
\* asset from before the release it was installed from, whatever the fetch
\* events of the worker before and its own store, until the former stores one.
\* It takes that the name of a replaced cache is not used again: otherwise a
\* fetch event from the time of that name could store into the new cache while
\* it is being filled.
THEOREM NothingFromBefore ==
  ASSUME NamesNotReused
  PROVE  Spec => []NothingOlder
<1>1. Init => AgeInv
  <2>1. SUFFICES ASSUME Init PROVE AgeInv
    OBVIOUS
  <2>2. \A a \in Assets : job.got[a] = NoEntry /\ \A c \in Caches : entry[c][a] = NoEntry
    BY <2>1 DEF Init, NoJob, Nothing
  <2>3. QED
    BY <2>1, <2>2 DEF Init, AgeInv, Lineage, OwnCacheNew, Stored, ToStore, NoJob, Idle
<1>2. IInv /\ AgeInv /\ [Next]_vars => AgeInv'
  BY LineageNext, OwnCacheNext, ToStoreNext, StoredNext DEF AgeInv
<1>3. IInv /\ AgeInv => NothingOlder
  BY FoundStored DEF AgeInv, Stored, NothingOlder
<1>4. QED BY <1>1, <1>2, <1>3, Invariant, PTL DEF Spec
=============================================================================
