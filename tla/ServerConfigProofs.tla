------------------------- MODULE ServerConfigProofs --------------------------
(***************************************************************************)
(* Proofs about ServerConfig for any number of requests, processes of the  *)
(* command line, sections, names, secrets and keys.  NamesStayUnique and   *)
(* ProvidersAreKept assume InstalledNamed: the server.yml of an earlier    *)
(* version has no two providers of one name.                               *)
(***************************************************************************)
EXTENDS ServerConfigProps, SequenceTheorems, WellFoundedInduction, TLAPS

USE ConfigAssumption DEF Processes, Writers, Texts

Auth == [Sections -> Seq(Provider)]
Less == OpToRel(<, Nat)

-----------------------------------------------------------------------------
(* Numbers and parts of a configuration *)

LEMMA NotLess == \A i, j \in Nat : <<j, i>> \notin Less => i <= j
<1>1. TAKE i \in Nat, j \in Nat
<1>2. HAVE <<j, i>> \notin Less
<1>3. <<j, i>> \in Nat \X Nat /\ <<j, i>>[1] = j /\ <<j, i>>[2] = i
  OBVIOUS
<1>4. ~(<<j, i>>[1] < <<j, i>>[2])
  BY <1>2, <1>3, Zenon DEF Less, OpToRel
<1>5. QED BY <1>3, <1>4

LEMMA Least ==
  ASSUME NEW I \in SUBSET Nat, I # {}
  PROVE  \E i \in I : \A j \in I : i <= j
<1>1. PICK i \in I : \A j \in I : <<j, i>> \notin Less
  BY NatLessThanWellFounded, WFMin, Zenon DEF Less
<1>2. \A j \in I : i <= j
  BY <1>1, NotLess, Zenon
<1>3. QED BY <1>2

LEMMA Parts ==
  ASSUME NEW c \in Config
  PROVE  /\ c.key \in Keys \cup {NoKey}
         /\ c.auth \in Auth
         /\ \A t \in Sections : c.auth[t] \in Seq(Provider)
BY DEF Config, Auth

LEMMA EmptyType == Empty \in Config
BY DEF Empty, Config, Settings

\* The position of a provider is 0 or one of the section.
LEMMA IndexType ==
  ASSUME NEW c \in Config, NEW t \in Sections, NEW n \in Names
  PROVE  Index(c, t, n) \in {0} \cup DOMAIN c.auth[t]
<1> DEFINE I == {i \in DOMAIN c.auth[t] : c.auth[t][i].name = n}
<1>1. I \in SUBSET Nat
  BY Parts
<1>2. CASE I = {}
  BY <1>2 DEF Index
<1>3. CASE I # {}
  <2>1. \E i \in I : \A j \in I : i <= j
    BY <1>1, <1>3, Least
  <2>2. QED
    BY <2>1, <1>3 DEF Index
<1>4. QED BY <1>2, <1>3

LEMMA JobType == NoJob \in Job
<1>1. [text |-> Blank, under |-> NoKey] \in Secret
  BY DEF Secret
<1>2. QED BY <1>1, EmptyType DEF NoJob, Job, Ops, Provider

\* A part of a configuration may be replaced by another of its type.
LEMMA ReplacedPort ==
  ASSUME NEW c \in Config, NEW d \in Config
  PROVE  [c EXCEPT !.port = d.port] \in Config
BY DEF Config

LEMMA ReplacedKey ==
  ASSUME NEW c \in Config, NEW k \in Keys \cup {NoKey}
  PROVE  [c EXCEPT !.key = k] \in Config
BY DEF Config

LEMMA ReplacedAuth ==
  ASSUME NEW c \in Config, NEW a \in Auth
  PROVE  [c EXCEPT !.auth = a] \in Config
BY DEF Config, Auth

\* What is left of a configuration is one.
LEMMA FewerType ==
  ASSUME NEW c \in Config
  PROVE  Fewer(c.auth) \subseteq Auth
<1>1. ASSUME NEW t \in Sections, NEW s \in Prefixes(c.auth[t])
      PROVE  s \in Seq(Provider)
  <2>1. PICK l \in 0..Len(c.auth[t]) : s = SubSeq(c.auth[t], 1, l)
    BY DEF Prefixes
  <2>2. QED BY <2>1, Parts
<1>2. QED BY <1>1 DEF Fewer, Auth

LEMMA CutType ==
  ASSUME NEW c \in Config
  PROVE  Cut(c) \subseteq Config \cup {Garbled}
<1>1. Empty \in Config /\ [Empty EXCEPT !.port = c.port] \in Config
  BY EmptyType, ReplacedPort
<1>2. \A a \in Fewer(c.auth) : [c EXCEPT !.auth = a] \in Config
  BY FewerType, ReplacedAuth
<1>3. QED BY <1>1, <1>2 DEF Cut

\* Encryption and edits keep the type of a section.
LEMMA EncryptType ==
  ASSUME NEW a \in Auth, NEW k \in Keys \cup {NoKey}
  PROVE  EncryptSecrets(a, k) \in Auth
<1>1. \A x \in Secret : Encrypted(x, k) \in Secret
  BY DEF Encrypted, Secret
<1>2. \A p \in Provider :
        [p EXCEPT !.secret = Encrypted(@, k)] \in Provider
  BY <1>1 DEF Provider
<1>3. ASSUME NEW t \in Sections
      PROVE  [i \in DOMAIN a[t] |->
                [a[t][i] EXCEPT !.secret = Encrypted(@, k)]] \in Seq(Provider)
  <2>1. /\ a[t] \in [1..Len(a[t]) -> Provider] /\ Len(a[t]) \in Nat
        /\ DOMAIN a[t] = 1..Len(a[t])
    BY LenProperties DEF Auth
  <2>2. [i \in DOMAIN a[t] |->
           [a[t][i] EXCEPT !.secret = Encrypted(@, k)]]
          \in [1..Len(a[t]) -> Provider]
    BY <2>1, <1>2
  <2>3. QED BY <2>1, <2>2, SeqDef
<1>4. QED BY <1>3 DEF EncryptSecrets, Auth

LEMMA EditedType ==
  ASSUME NEW s \in Seq(Provider), NEW j \in Job,
         j.op = "delete" => j.idx <= Len(s)
  PROVE  Edited(s, j) \in Seq(Provider)
<1>1. j.provider \in Provider /\ j.idx \in Nat
  BY DEF Job
<1>2. CASE j.op = "create"
  BY <1>1, <1>2, AppendProperties DEF Edited
<1>3. CASE j.op = "update"
  <2>1. \A x, y \in Secret : Kept(x, y) \in Secret
    BY DEF Kept
  <2>2. \A p \in Provider : [j.provider EXCEPT
                               !.secret = Kept(@, p.secret)] \in Provider
    BY <1>1, <2>1 DEF Provider
  <2>3. /\ s \in [1..Len(s) -> Provider] /\ Len(s) \in Nat
    BY LenProperties
  <2>4. Edited(s, j) \in [1..Len(s) -> Provider]
    BY <1>1, <1>3, <2>2, <2>3 DEF Edited
  <2>5. QED BY <2>3, <2>4, SeqDef
<1>4. CASE j.op = "delete"
  <2>1. /\ \A i \in 1..(j.idx - 1) : s[i] \in Provider
        /\ \A i \in (j.idx + 1)..Len(s) : s[i] \in Provider
    BY <1>1, <1>4
  <2>2. /\ SubSeq(s, 1, j.idx - 1) \in Seq(Provider)
        /\ SubSeq(s, j.idx + 1, Len(s)) \in Seq(Provider)
    <3>1. Len(s) \in Int /\ j.idx - 1 \in Int /\ j.idx + 1 \in Int
      BY <1>1
    <3>2. QED BY <3>1, <2>1, SubSeqProperties
  <2>3. Edited(s, j) = SubSeq(s, 1, j.idx - 1) \o SubSeq(s, j.idx + 1, Len(s))
    BY <1>4 DEF Edited, Without
  <2>4. QED BY <2>2, <2>3
<1>5. QED BY <1>2, <1>3, <1>4 DEF Edited

\* What is left of a configuration are the first providers of its sections.
LEMMA CutParts ==
  ASSUME NEW c \in Config, NEW d \in Cut(c), d # Garbled, NEW t \in Sections
  PROVE  /\ DOMAIN d.auth[t] \subseteq DOMAIN c.auth[t]
         /\ \A i \in DOMAIN d.auth[t] : d.auth[t][i] = c.auth[t][i]
<1>1. d \in {Empty, [Empty EXCEPT !.port = c.port]} => d.auth[t] = << >>
  BY DEF Empty
<1>2. ASSUME NEW a \in Fewer(c.auth)
      PROVE  /\ DOMAIN a[t] \subseteq DOMAIN c.auth[t]
             /\ \A i \in DOMAIN a[t] : a[t][i] = c.auth[t][i]
  <2>1. PICK l \in 0..Len(c.auth[t]) : a[t] = SubSeq(c.auth[t], 1, l)
    BY DEF Fewer, Prefixes
  <2>2. c.auth[t] \in Seq(Provider)
    BY Parts
  <2>3. QED BY <2>1, <2>2
<1>3. \A a : [c EXCEPT !.auth = a].auth = a
  BY DEF Config
<1>4. CASE d \in {Empty, [Empty EXCEPT !.port = c.port]}
  <2>1. d.auth[t] = << >> /\ DOMAIN << >> = {}
    BY <1>1, <1>4
  <2>2. QED BY ONLY <2>1
<1>5. ASSUME NEW a \in Fewer(c.auth), d = [c EXCEPT !.auth = a]
      PROVE  d.auth = a
  BY <1>3, <1>5
<1>6. QED BY <1>2, <1>4, <1>5 DEF Cut

-----------------------------------------------------------------------------
(* Every step keeps the types *)

\* The types of the local variables of a request or process.
LEMMA JobParts ==
  ASSUME NEW j \in Job
  PROVE  /\ j.buf \in Config /\ j.provider \in Provider
         /\ j.section \in Sections /\ j.orig \in Names
         /\ j.want \in Texts \cup {NoProvider}
         /\ \A c \in Config : [j EXCEPT !.buf = c] \in Job
         /\ \A o \in Ops, c \in Config : [j EXCEPT !.op = o, !.buf = c] \in Job
         /\ \A x \in Texts \cup {NoProvider} : [j EXCEPT !.want = x] \in Job
BY DEF Job

LEMMA FinishType ==
  ASSUME TypeOK, NEW w \in Writers, NEW ok \in BOOLEAN, Finish(w, ok)
  PROVE  pc' \in [Writers -> Steps] /\ job' \in [Writers -> Job]
BY JobType DEF Finish, Goto, TypeOK, Steps

LEMMA AcknowledgedType ==
  ASSUME TypeOK, NEW w \in Writers, Acknowledged(w)
  PROVE  may' \in [Sections -> [Names -> SUBSET (Texts \cup {NoProvider})]]
<1> DEFINE j == job[w]
<1>1. j \in Job /\ \A n \in Names : Outcome(j, n) \in Texts \cup {NoProvider}
  BY JobParts DEF TypeOK, Outcome
<1>2. may \in [Sections -> [Names -> SUBSET (Texts \cup {NoProvider})]]
  BY DEF TypeOK
<1>3. [n \in Names |-> IF n \in Touched(j) THEN {Outcome(j, n)}
                       ELSE may[j.section][n]]
        \in [Names -> SUBSET (Texts \cup {NoProvider})]
  <2>1. may[j.section] \in [Names -> SUBSET (Texts \cup {NoProvider})]
    BY <1>1, <1>2, JobParts
  <2> HIDE DEF j
  <2>2. QED BY <1>1, <2>1
<1>4. QED BY <1>1, <1>2, <1>3, JobParts DEF Acknowledged

LEMMA SaveTypes ==
  ASSUME TypeOK, NEW w \in Writers, Save(w)
  PROVE  TypeOK'
<1>1. job[w].buf \in Config
  BY JobParts DEF TypeOK
<1>2. CASE Truncate(w)
  BY <1>2, EmptyType DEF Truncate, Goto, TypeOK, history, Steps
<1>3. CASE Write(w)
  <2>1. pc' \in [Writers -> Steps] /\ job' \in [Writers -> Job]
    BY <1>3, FinishType DEF Write
  <2>2. may' \in [Sections -> [Names -> SUBSET (Texts \cup {NoProvider})]]
    BY <1>3, AcknowledgedType DEF Write
  <2>3. file' \in Config \cup {NoFile, Garbled} /\ cut' \in BOOLEAN
    BY <1>1, <1>3 DEF Write
  <2>4. QED BY <1>3, <2>1, <2>2, <2>3 DEF Write, TypeOK
<1>4. CASE OpenFails(w)
  <2>1. pc' \in [Writers -> Steps] /\ job' \in [Writers -> Job]
    BY <1>4, FinishType DEF OpenFails
  <2>2. QED BY <1>4, <2>1 DEF OpenFails, TypeOK, history
<1>5. CASE WriteFails(w)
  <2>1. pc' \in [Writers -> Steps] /\ job' \in [Writers -> Job]
    BY <1>5, FinishType DEF WriteFails
  <2>2. file' \in Config \cup {NoFile, Garbled}
    BY <1>1, <1>5, CutType DEF WriteFails
  <2>3. QED BY <1>5, <2>1, <2>2 DEF WriteFails, TypeOK
<1>6. QED BY <1>2, <1>3, <1>4, <1>5 DEF Save

LEMMA PortTypes ==
  /\ Unset \in Settings /\ DefaultPort \in Settings
  /\ \A x \in Settings \cup Ports : Valid(x) \in Settings
<1>1. Unset \in Settings /\ DefaultPort \in Settings
  BY DEF Settings
<1>2. ASSUME NEW x \in Ports
      PROVE  Valid(x) \in Settings
  <2>1. x \in Ports /\ x \in Nat
    BY ConfigAssumption
  <2>2. x # Unset
    BY ConfigAssumption
  <2>3. x > 0
    BY <2>1, <2>2 DEF Unset
  <2>4. x <= MaxPort => x \in 1..MaxPort
    <3>1. MaxPort \in Nat
      BY DEF MaxPort
    <3>2. QED BY ONLY <2>1, <2>3, <3>1
  <2>5. x <= MaxPort => x \in Settings
    BY <2>1, <2>4 DEF Settings
  <2>6. QED BY <1>1, <2>1, <2>5 DEF Valid, MaxPort
<1>3. ASSUME NEW x \in Settings
      PROVE  Valid(x) \in Settings
  <2>1. x \in Nat /\ x <= MaxPort
    <3>1. CASE x \in 1..MaxPort
      BY <3>1 DEF MaxPort
    <3>2. CASE x \in {Unset, DefaultPort}
      BY <3>2 DEF Unset, DefaultPort, MaxPort
    <3>3. QED
      <4>1. x \in 1..MaxPort \/ x \in {Unset, DefaultPort}
        BY DEF Settings
      <4>2. QED BY ONLY <3>1, <3>2, <4>1
  <2>2. QED BY <2>1 DEF Valid, MaxPort
<1>4. QED BY <1>1, <1>2, <1>3

LEMMA BootTypes ==
  ASSUME TypeOK, NEW p \in Processes, Boot(p)
  PROVE  TypeOK'
<1>1. /\ mem \in [Processes -> Config] /\ job \in [Writers -> Job]
      /\ pc \in [Writers -> Steps]
      /\ Parsed => file \in Config
  BY DEF TypeOK, Parsed
<1>2. \A x \in Settings \cup Ports : Valid(x) \in Settings
  BY PortTypes
<1>3. ASSUME NEW c \in Config
      PROVE  [c EXCEPT !.port = Valid(@)] \in Config
  BY <1>2 DEF Config
<1>4. ASSUME NEW c \in Config, WithNewKey(p, c)
      PROVE  /\ made' \subseteq Keys /\ mem' \in [Processes -> Config]
             /\ job' \in [Writers -> Job] /\ pc' \in [Writers -> Steps]
  <2>1. PICK k \in Keys \ made :
          LET d == [c EXCEPT !.key = k]
          IN /\ made' = made \cup {k}
             /\ mem' = [mem EXCEPT ![p] = d]
             /\ job' = [job EXCEPT ![p].op = "load", ![p].buf = d]
             /\ Goto(p, "open")
    BY <1>4, Zenon DEF WithNewKey
  <2>2. [c EXCEPT !.key = k] \in Config
    BY ReplacedKey
  <2>3. /\ [job[p] EXCEPT !.op = "load", !.buf = [c EXCEPT !.key = k]] \in Job
        /\ job' = [job EXCEPT ![p] = [job[p] EXCEPT
                     !.op = "load", !.buf = [c EXCEPT !.key = k]]]
    BY <1>1, <2>1, <2>2, JobParts DEF Ops
  <2>4. QED BY <1>1, <2>1, <2>2, <2>3 DEF Goto, Steps, TypeOK
<1>5. CASE LoadWithoutKey(p)
  <2>1. PICK c \in Config : WithNewKey(p, c)
    BY <1>1, <1>3, <1>5, EmptyType DEF LoadWithoutKey
  <2>2. QED
    BY <1>4, <1>5, <2>1 DEF LoadWithoutKey, Loads, Begin, TypeOK
<1>6. CASE LoadFile(p)
  BY <1>1, <1>3, <1>6 DEF LoadFile, Loads, Begin, TypeOK, Goto, Steps
<1>7. ASSUME NEW env \in Ports \cup {Unset}, Override(p, env)
      PROVE  TypeOK'
  <2> DEFINE port == Valid(IF env # Unset THEN env ELSE mem[p].port)
             c    == [mem[p] EXCEPT !.port = IF port = Unset THEN DefaultPort
                                             ELSE port]
  <2>1. c \in Config
    <3>1. mem[p].port \in Settings
      BY <1>1 DEF Config
    <3>2. (IF env # Unset THEN env ELSE mem[p].port) \in Settings \cup Ports
      BY <3>1
    <3>3. port \in Settings
      BY <3>2, PortTypes
    <3> HIDE DEF port
    <3>4. (IF port = Unset THEN DefaultPort ELSE port) \in Settings
      BY <3>3, PortTypes
    <3>5. mem[p] \in Config
      BY <1>1
    <3>6. QED BY <3>4, <3>5 DEF Config
  <2>2. mem' = [mem EXCEPT ![p] = c]
    BY <1>7 DEF Override
  <2>3. \/ job' = [job EXCEPT ![p] = [job[p] EXCEPT !.op = "port", !.buf = c]]
        \/ job' = job
    <3>1. job[p] \in Job /\ job = [job EXCEPT ![p] = job[p]]
      BY <1>1
    <3>2. \/ job' = [job EXCEPT ![p].op = "port", ![p].buf = c]
          \/ job' = job
      <4>1. CASE port = Unset
        BY <1>7, <4>1 DEF Override
      <4>2. CASE port # Unset
        BY <1>7, <4>2 DEF Override
      <4>3. QED BY <4>1, <4>2
    <3> HIDE DEF c
    <3>3. QED BY <1>1, <3>2
  <2>4. [job[p] EXCEPT !.op = "port", !.buf = c] \in Job
    <3> HIDE DEF c
    <3>1. job[p] \in Job /\ "port" \in Ops
      BY <1>1 DEF Ops
    <3>2. QED BY <2>1, <3>1, JobParts
  <2>5. pc' \in [Writers -> Steps]
    BY <1>1, <1>7 DEF Override, Goto, Steps
  <2> HIDE DEF c
  <2>6. QED
    BY <1>1, <1>7, <2>1, <2>2, <2>3, <2>4, <2>5
    DEF Override, TypeOK, history
<1>8. CASE Exit(p)
  <2>1. file' \in Config \cup {NoFile, Garbled} /\ cut' \in BOOLEAN
    BY <1>1, <1>8, CutType, JobParts DEF Exit, TypeOK, Threads
  <2>2. pc' \in [Writers -> Steps] /\ job' \in [Writers -> Job]
    BY <1>1, <1>8, JobType DEF Exit, Steps
  <2>3. QED BY <1>8, <2>1, <2>2, EmptyType DEF Exit, TypeOK
<1>9. QED BY <1>5, <1>6, <1>7, <1>8 DEF Boot

LEMMA AcceptType ==
  ASSUME TypeOK, NEW r \in Requests, NEW op \in Ops, NEW t \in Sections,
         NEW orig \in Names, NEW n \in Names, NEW s \in Texts,
         Accept(r, op, t, orig, n, s)
  PROVE  TypeOK'
<1> DEFINE prov == [name |-> n, secret |-> [text |-> s, under |-> NoKey]]
           j == [NoJob EXCEPT !.op = op, !.section = t, !.orig = orig,
                   !.provider = prov, !.idx = Index(Shared, t, orig)]
<1>1. mem[Server] \in Config
  BY DEF TypeOK
<1>2. Index(Shared, t, orig) \in Nat
  BY <1>1, IndexType, Parts DEF Shared
<1>3. prov \in Provider
  BY DEF Provider, Secret
<1>4. j \in Job
  <2> HIDE DEF prov
  <2>1. QED BY <1>2, <1>3, JobType DEF Job
<1>5. job' = [job EXCEPT ![r] = j]
  BY DEF Accept
<1> HIDE DEF j
<1>6. QED
  BY <1>4, <1>5 DEF Accept, TypeOK, Begin, Goto, Steps

LEMMA LookupType ==
  ASSUME NEW c \in Config, NEW t \in Sections, NEW n \in Names
  PROVE  Lookup(c, t, n) \in Texts \cup {NoProvider}
<1>1. \A p \in Provider : p.secret.text \in Texts
  BY DEF Provider, Secret
<1>2. QED BY <1>1, IndexType, Parts DEF Lookup

LEMMA WantedType ==
  ASSUME NEW c \in Config, NEW j \in Job
  PROVE  Wanted(c, j) \in Texts \cup {NoProvider}
<1>1. \A p \in Provider : p.secret.text \in Texts
  BY DEF Provider, Secret
<1>2. QED BY <1>1, LookupType, JobParts DEF Wanted

LEMMA ApplyType ==
  ASSUME TypeOK, NEW r \in Requests, Apply(r)
  PROVE  TypeOK'
<1> DEFINE j == [job[r] EXCEPT !.want = Wanted(Shared, job[r])]
           c == [Shared EXCEPT !.auth[j.section] = Edited(@, j)]
<1>1. Shared \in Config /\ job[r] \in Job
  BY DEF TypeOK, Shared
<1>2. Wanted(Shared, job[r]) \in Texts \cup {NoProvider}
  BY <1>1, WantedType
<1>3. j \in Job
  BY <1>1, <1>2, JobParts
<1>4. j.op = job[r].op /\ j.idx = job[r].idx /\ j.section = job[r].section
  BY <1>1 DEF Job
<1>5. j.op = "delete" => j.idx <= Len(Shared.auth[j.section])
  BY DEF Apply
<1>6. /\ job' = [job EXCEPT ![r] = j]
      /\ mem' = [mem EXCEPT ![Server] = c]
      /\ \/ may' = may
         \/ may' = [may EXCEPT ![j.section] = [n \in Names |->
                      IF n \in Touched(j)
                      THEN may[j.section][n] \cup {Outcome(j, n)}
                      ELSE may[j.section][n]]]
  BY DEF Apply, TypeOK
<1> HIDE DEF j
<1>7. c \in Config
  <2>1. Edited(Shared.auth[j.section], j) \in Seq(Provider)
    BY <1>1, <1>3, <1>5, EditedType, JobParts, Parts
  <2>2. [Shared.auth EXCEPT ![j.section] = Edited(@, j)] \in Auth
    BY <1>1, <2>1, Parts DEF Auth
  <2>3. QED BY <1>1, <2>2, ReplacedAuth
<1> HIDE DEF c
<1>8. may' \in [Sections -> [Names -> SUBSET (Texts \cup {NoProvider})]]
  <2>1. \A n \in Names : Outcome(j, n) \in Texts \cup {NoProvider}
    BY <1>3, JobParts DEF Outcome
  <2>2. may[j.section] \in [Names -> SUBSET (Texts \cup {NoProvider})]
    BY <1>3, JobParts DEF TypeOK
  <2>3. [n \in Names |-> IF n \in Touched(j)
                         THEN may[j.section][n] \cup {Outcome(j, n)}
                         ELSE may[j.section][n]]
          \in [Names -> SUBSET (Texts \cup {NoProvider})]
    BY <2>1, <2>2
  <2>4. may \in [Sections -> [Names -> SUBSET (Texts \cup {NoProvider})]]
    BY DEF TypeOK
  <2>5. QED BY <1>6, <2>3, <2>4
<1>9. /\ job' \in [Writers -> Job] /\ mem' \in [Processes -> Config]
      /\ pc' \in [Writers -> Steps]
  <2>1. /\ job \in [Writers -> Job] /\ mem \in [Processes -> Config]
        /\ pc \in [Writers -> Steps]
    BY DEF TypeOK
  <2>2. pc' = [pc EXCEPT ![r] = "encrypt"]
    BY DEF Apply, Goto
  <2>3. QED
    BY <1>3, <1>6, <1>7, <2>1, <2>2 DEF Steps
<1>10. /\ UNCHANGED <<file, sealed, made, left, torn, overlap, cut>>
  BY DEF Apply
<1>11. QED
  BY <1>8, <1>9, <1>10 DEF TypeOK

LEMMA RequestTypes ==
  ASSUME TypeOK, NEW r \in Requests,
         \/ ProviderRequest(r) \/ Apply(r) \/ Panic(r)
         \/ Encrypt(r) \/ Marshal(r)
  PROVE  TypeOK'
<1>1. Shared \in Config /\ job[r] \in Job
  BY DEF TypeOK, Shared
<1>2. CASE ProviderRequest(r)
  <2>1. NoJob.orig \in Names /\ Blank \in Texts
    BY JobType, JobParts
  <2>2. {"create", "update", "delete", "toggle"} \subseteq Ops
    BY DEF Ops
  <2>3. QED
    BY <1>2, <2>1, <2>2, AcceptType
    DEF ProviderRequest, Create, Update, Delete, Toggle
<1>3. CASE Panic(r)
  BY <1>3, FinishType DEF Panic, TypeOK, history
<1>4. CASE Encrypt(r)
  <2>1. EncryptSecrets(Shared.auth, Shared.key) \in Auth
    BY <1>1, Parts, EncryptType
  <2>2. [Shared EXCEPT !.auth = EncryptSecrets(@, Shared.key)] \in Config
    BY <1>1, <2>1, ReplacedAuth
  <2>3. mem' = [mem EXCEPT ![Server] =
                  [Shared EXCEPT !.auth = EncryptSecrets(@, Shared.key)]]
    BY <1>4 DEF Encrypt, Shared
  <2>4. QED
    BY <1>4, <2>2, <2>3 DEF Encrypt, TypeOK, Goto, Steps, history
<1>5. CASE Marshal(r)
  <2>1. [job[r] EXCEPT !.buf = Shared] \in Job
    BY <1>1, JobParts
  <2>2. job' = [job EXCEPT ![r] = [job[r] EXCEPT !.buf = Shared]]
    BY <1>5 DEF Marshal
  <2>3. QED
    BY <1>5, <2>1, <2>2 DEF Marshal, TypeOK, Goto, Steps, history
<1>6. QED BY <1>2, <1>3, <1>4, <1>5, ApplyType

\* A process that runs has a key: Load does not return without one.
HasKey ==
  \A p \in Processes : ~At(p, "down") => mem[p].key \in Keys

LEMMA TypeNext == TypeOK /\ HasKey /\ [Next]_vars => TypeOK'
<1> SUFFICES ASSUME TypeOK, HasKey, [Next]_vars
             PROVE  TypeOK'
  OBVIOUS
<1>1. CASE Seal
  BY <1>1 DEF Seal, HasKey, At, TypeOK, history
<1>2. CASE UNCHANGED vars
  BY <1>2 DEF vars, history, TypeOK
<1>3. CASE \E p \in Processes : Boot(p)
  BY <1>3, BootTypes
<1>4. CASE \E w \in Writers : Save(w)
  BY <1>4, SaveTypes
<1>5. CASE \E r \in Requests :
             \/ ProviderRequest(r) \/ Apply(r) \/ Panic(r)
             \/ Encrypt(r) \/ Marshal(r)
  BY <1>5, RequestTypes
<1>6. QED
  BY <1>1, <1>2, <1>3, <1>4, <1>5 DEF Next

LEMMA FoundType ==
  ASSUME file \in Installed
  PROVE  /\ file \in Config \cup {NoFile}
         /\ Found \in Config
         /\ \A t \in Sections, n \in Names :
              Lookup(Found, t, n) \in Texts \cup {NoProvider}
<1>1. file = NoFile \/ Settled(file)
  BY InstalledAssumption
<1>2. file \in Config \cup {NoFile}
  BY <1>1 DEF Settled
<1>3. Found \in Config
  BY <1>2, EmptyType DEF Found
<1>4. QED BY <1>2, <1>3, LookupType

LEMMA InitTypes == Init => TypeOK
<1> SUFFICES ASSUME Init
             PROVE  TypeOK
  OBVIOUS
<1>0. /\ file \in Config \cup {NoFile} /\ Found.key \in Keys \cup {NoKey}
      /\ \A t \in Sections, n \in Names :
           Lookup(Found, t, n) \in Texts \cup {NoProvider}
  BY FoundType, Parts DEF Init
<1>1. mem \in [Processes -> Config] /\ job \in [Writers -> Job]
  BY EmptyType, JobType DEF Init
<1>2. pc \in [Writers -> Steps]
  BY DEF Init, Steps
<1>3. may \in [Sections -> [Names -> SUBSET (Texts \cup {NoProvider})]]
  <2>1. may = [t \in Sections |-> [n \in Names |-> {Lookup(Found, t, n)}]]
    BY DEF Init
  <2>2. QED BY <2>1, <1>0
<1>4. sealed \subseteq Keys /\ made \subseteq Keys
  BY <1>0 DEF Init
<1>5. QED BY <1>0, <1>1, <1>2, <1>3, <1>4 DEF Init, TypeOK

LEMMA HasKeyNext == TypeOK /\ HasKey /\ [Next]_vars => HasKey'
<1> SUFFICES ASSUME TypeOK, HasKey, [Next]_vars
             PROVE  HasKey'
  OBVIOUS
<1>1. ASSUME NEW w \in Writers, NEW x \in Steps,
             pc' = [pc EXCEPT ![w] = x],
             w \in Processes /\ At(w, "down") => x = "down",
             \A p \in Processes : mem'[p].key = mem[p].key
      PROVE  HasKey'
  BY <1>1 DEF HasKey, At, TypeOK
<1>2. ASSUME NEW w \in Writers, Save(w)
      PROVE  HasKey'
  <2>1. mem' = mem /\ ~At(w, "down")
    BY <1>2 DEF Save, Truncate, Write, OpenFails, WriteFails, At, history
  <2>2. PICK x \in Steps : pc' = [pc EXCEPT ![w] = x]
    BY <1>2, Zenon
    DEF Save, Truncate, Write, OpenFails, WriteFails, Finish, Goto, Steps
  <2>3. QED BY <1>1, <2>1, <2>2
<1>3. ASSUME NEW p \in Processes, Boot(p)
      PROVE  HasKey'
  <2>1. ASSUME NEW c \in Config, NEW x \in Steps,
               mem' = [mem EXCEPT ![p] = c], pc' = [pc EXCEPT ![p] = x],
               x # "down" => c.key \in Keys
        PROVE  HasKey'
    BY <2>1 DEF HasKey, At, TypeOK
  <2>2. ASSUME NEW c \in Config, WithNewKey(p, c)
        PROVE  HasKey'
    <3>1. PICK k \in Keys : mem' = [mem EXCEPT ![p] = [c EXCEPT !.key = k]]
      BY <2>2 DEF WithNewKey
    <3>2. [c EXCEPT !.key = k] \in Config /\ [c EXCEPT !.key = k].key = k
      BY ReplacedKey DEF Config
    <3>3. pc' = [pc EXCEPT ![p] = "open"]
      BY <2>2 DEF WithNewKey, Goto
    <3>4. QED BY <2>1, <3>1, <3>2, <3>3 DEF Steps
  <2>3. \A c \in Config : /\ [c EXCEPT !.port = Valid(@)] \in Config
                          /\ [c EXCEPT !.port = Valid(@)].key = c.key
    BY PortTypes DEF Config
  <2>4. CASE LoadWithoutKey(p)
    BY <2>2, <2>3, <2>4, EmptyType DEF LoadWithoutKey, Parsed, TypeOK
  <2>5. CASE LoadFile(p)
    <3>1. file \in Config /\ file.key \in Keys
      BY <2>5, Parts DEF LoadFile, Parsed, TypeOK
    <3>2. QED BY <2>1, <2>3, <2>5, <3>1 DEF LoadFile, Goto, Steps
  <2>6. CASE \E env \in Ports \cup {Unset} : Override(p, env)
    <3>1. At(p, "override") /\ mem[p].key \in Keys /\ mem[p] \in Config
      BY <2>6 DEF Override, HasKey, At, TypeOK
    <3>2. PICK x : mem' = [mem EXCEPT ![p] = [mem[p] EXCEPT !.port = x]]
      BY <2>6, Zenon DEF Override
    <3>3. [mem[p] EXCEPT !.port = x].key = mem[p].key
      BY <3>1 DEF Config
    <3>4. \A q \in Processes : mem'[q].key = mem[q].key
      BY <3>2, <3>3 DEF TypeOK
    <3>5. PICK y \in Steps : pc' = [pc EXCEPT ![p] = y]
      BY <2>6, Zenon DEF Override, Goto, Steps
    <3>6. QED BY <1>1, <3>1, <3>4, <3>5 DEF At
  <2>7. CASE Exit(p)
    BY <2>7 DEF Exit, HasKey, At, TypeOK, Threads
  <2>8. QED BY <1>3, <2>4, <2>5, <2>6, <2>7 DEF Boot
<1>4. ASSUME NEW r \in Requests,
             \/ ProviderRequest(r) \/ Apply(r) \/ Panic(r)
             \/ Encrypt(r) \/ Marshal(r)
      PROVE  HasKey'
  <2>1. ASSUME NEW c \in Config, NEW a
        PROVE  [c EXCEPT !.auth = a].key = c.key
    BY DEF Config
  <2>2. mem \in [Processes -> Config] /\ Server \in Processes
    BY DEF TypeOK, Processes
  <2>3. mem' = mem \/ \E a : mem' = [mem EXCEPT ![Server] =
                                       [mem[Server] EXCEPT !.auth = a]]
    <3>1. CASE ProviderRequest(r)
      BY <3>1 DEF ProviderRequest, Create, Update, Delete, Toggle, Accept
    <3>2. CASE Apply(r)
      BY <3>2, Zenon DEF Apply, Shared
    <3>3. CASE Panic(r) \/ Marshal(r)
      BY <3>3 DEF Panic, Marshal
    <3>4. CASE Encrypt(r)
      BY <3>4 DEF Encrypt, Shared
    <3>5. QED BY <1>4, <3>1, <3>2, <3>3, <3>4
  <2>4. ASSUME NEW p \in Processes
        PROVE  mem'[p].key = mem[p].key
    <3>1. CASE mem' = mem
      BY <3>1
    <3>2. ASSUME NEW a, mem' = [mem EXCEPT ![Server] =
                                  [mem[Server] EXCEPT !.auth = a]]
          PROVE  mem'[p].key = mem[p].key
      <4>1. [mem[Server] EXCEPT !.auth = a].key = mem[Server].key
        BY <2>1, <2>2
      <4>2. CASE p = Server
        BY <4>1, <4>2, <3>2, <2>2
      <4>3. CASE p # Server
        BY <4>3, <3>2, <2>2
      <4>4. QED BY <4>2, <4>3
    <3>3. QED BY <2>3, <3>1, <3>2
  <2>5. PICK x \in Steps : pc' = [pc EXCEPT ![r] = x]
    <3>1. CASE ProviderRequest(r)
      BY <3>1 DEF ProviderRequest, Create, Update, Delete, Toggle, Accept,
                  Goto, Steps
    <3>2. CASE Apply(r) \/ Encrypt(r) \/ Marshal(r)
      BY <3>2, Zenon DEF Apply, Encrypt, Marshal, Goto, Steps
    <3>3. CASE Panic(r)
      BY <3>3, Zenon DEF Panic, Finish, Goto, Steps
    <3>4. QED BY <1>4, <3>1, <3>2, <3>3
  <2>6. QED BY <1>1, <2>4, <2>5
<1>5. CASE Seal \/ UNCHANGED vars
  BY <1>5 DEF Seal, vars, HasKey, At
<1>6. QED BY <1>2, <1>3, <1>4, <1>5 DEF Next

LEMMA InitHasKey == Init => HasKey
BY DEF Init, HasKey, At

\* The configurations, the processes and the requests keep their types: in
\* particular a port is one that Validate accepts, every secret in a file or
\* in memory was encrypted at most once, and nothing is ever sealed without
\* a key.
THEOREM TypeCorrect == Spec => []TypeOK
<1>1. Init => TypeOK /\ HasKey
  BY InitTypes, InitHasKey
<1>2. TypeOK /\ HasKey /\ [Next]_vars => TypeOK' /\ HasKey'
  BY TypeNext, HasKeyNext
<1>3. QED BY <1>1, <1>2, PTL DEF Spec

-----------------------------------------------------------------------------
(* No secret stands beside another key *)

Fit(s, k) == \A i \in DOMAIN s : s[i].secret.under \in {NoKey, k}
Keyed(c)  == \A t \in Sections : Fit(c.auth[t], c.key)

\* What a Save will write is keyed too, and what an edit adds is in the clear.
KeyInv ==
  /\ \A p \in Processes : Keyed(mem[p])
  /\ Parsed => Keyed(file)
  /\ \A w \in Writers : /\ Keyed(job[w].buf)
                        /\ job[w].provider.secret.under = NoKey

LEMMA KeyInvOneKey == TypeOK /\ KeyInv => OneKey
<1>1. ASSUME NEW c, Keyed(c) PROVE \A x \in SecretsOf(c) : x.under \in {NoKey, c.key}
  BY ONLY <1>1 DEF Keyed, Fit, SecretsOf
<1>2. ASSUME KeyInv, NEW c \in {mem[p] : p \in Processes} \cup ({file} \ {NoFile, Garbled})
      PROVE  Keyed(c)
  BY ONLY <1>2 DEF KeyInv, Parsed
<1>3. QED BY <1>1, <1>2 DEF OneKey

LEMMA EmptyKeyed == Keyed(Empty) /\ \A x : Keyed([Empty EXCEPT !.port = x])
BY DEF Keyed, Fit, Empty

LEMMA NoJobKeyed == Keyed(NoJob.buf) /\ NoJob.provider.secret.under = NoKey
BY EmptyKeyed DEF NoJob

\* The port does not matter, and a configuration without a key has no
\* encrypted secret: it takes any key.
LEMMA PortKeyed ==
  ASSUME NEW c \in Config, Keyed(c), NEW x
  PROVE  Keyed([c EXCEPT !.port = x])
BY DEF Keyed, Fit, Config

LEMMA NewKeyKeyed ==
  ASSUME NEW c \in Config, Keyed(c), c.key = NoKey, NEW k \in Keys
  PROVE  Keyed([c EXCEPT !.key = k])
BY DEF Keyed, Fit, Config

LEMMA AuthKeyed ==
  ASSUME NEW c \in Config, NEW a \in Auth,
         \A t \in Sections : Fit(a[t], c.key)
  PROVE  Keyed([c EXCEPT !.auth = a])
BY DEF Keyed, Config

\* Sections that lose providers, gain one in the clear, or are encrypted.
LEMMA CutKeyed ==
  ASSUME NEW c \in Config, Keyed(c), NEW d \in Cut(c), d # Garbled
  PROVE  Keyed(d)
<1>1. \A t \in Sections : Fit(d.auth[t], c.key)
  BY CutParts DEF Keyed, Fit
<1>2. CASE d.key = c.key
  BY <1>1, <1>2 DEF Keyed
<1>3. CASE d \in {Empty, [Empty EXCEPT !.port = c.port]}
  BY <1>3, EmptyKeyed
<1>4. \A a : [c EXCEPT !.auth = a].key = c.key
  BY DEF Config
<1>5. QED BY <1>2, <1>3, <1>4 DEF Cut

LEMMA EncryptKeyed ==
  ASSUME NEW c \in Config, Keyed(c)
  PROVE  Keyed([c EXCEPT !.auth = EncryptSecrets(@, c.key)])
<1>1. EncryptSecrets(c.auth, c.key) \in Auth
  BY EncryptType, Parts
<1>2. ASSUME NEW t \in Sections
      PROVE  Fit(EncryptSecrets(c.auth, c.key)[t], c.key)
  <2>1. \A i \in DOMAIN c.auth[t] :
          /\ c.auth[t][i] \in Provider
          /\ c.auth[t][i].secret \in Secret
          /\ c.auth[t][i].secret.under \in {NoKey, c.key}
    <3>1. c.auth[t] \in Seq(Provider) /\ Fit(c.auth[t], c.key)
      BY Parts DEF Keyed
    <3>2. \A i \in DOMAIN c.auth[t] : c.auth[t][i] \in Provider
      BY <3>1
    <3>3. \A q \in Provider : q.secret \in Secret
      BY DEF Provider
    <3>4. QED BY <3>1, <3>2, <3>3 DEF Fit
  <2>2. \A x \in Secret : x.under \in {NoKey, c.key}
          => Encrypted(x, c.key).under \in {NoKey, c.key}
    BY DEF Encrypted, Secret
  <2>3. \A q \in Provider :
          [q EXCEPT !.secret = Encrypted(@, c.key)].secret
            = Encrypted(q.secret, c.key)
    BY DEF Provider
  <2>4. EncryptSecrets(c.auth, c.key)[t] =
          [i \in DOMAIN c.auth[t] |->
             [c.auth[t][i] EXCEPT !.secret = Encrypted(@, c.key)]]
    BY DEF EncryptSecrets
  <2>5. ASSUME NEW i \in DOMAIN c.auth[t]
        PROVE  EncryptSecrets(c.auth, c.key)[t][i].secret
                 = Encrypted(c.auth[t][i].secret, c.key)
    BY <2>1, <2>3, <2>4
  <2>6. DOMAIN EncryptSecrets(c.auth, c.key)[t] = DOMAIN c.auth[t]
    BY <2>4
  <2>7. QED BY <2>1, <2>2, <2>5, <2>6 DEF Fit
<1>3. QED BY <1>1, <1>2, AuthKeyed

LEMMA EditedKeyed ==
  ASSUME NEW s \in Seq(Provider), NEW k, Fit(s, k), NEW j \in Job,
         j.provider.secret.under = NoKey,
         j.op \in {"update", "delete"} => j.idx <= Len(s)
  PROVE  Fit(Edited(s, j), k)
<1>1. j.provider \in Provider /\ j.idx \in Nat
  BY DEF Job
<1>2. CASE j.op = "create"
  BY <1>1, <1>2, AppendProperties DEF Edited, Fit
<1>3. CASE j.op = "update"
  <2>1. \A i \in DOMAIN s :
          Kept(j.provider.secret, s[i].secret).under \in {NoKey, k}
    BY DEF Kept, Fit
  <2>2. \A x : [j.provider EXCEPT !.secret = x].secret = x
    BY <1>1 DEF Provider
  <2>3. DOMAIN Edited(s, j) = DOMAIN s
    BY <1>3 DEF Edited
  <2>4. \A i \in DOMAIN s :
          Edited(s, j)[i] =
            IF i = j.idx
            THEN [j.provider EXCEPT
                    !.secret = Kept(j.provider.secret, s[i].secret)]
            ELSE s[i]
    BY <1>3 DEF Edited
  <2>5. ASSUME NEW i \in DOMAIN s
        PROVE  Edited(s, j)[i].secret.under \in {NoKey, k}
    <3>1. CASE i = j.idx
      BY <2>1, <2>2, <2>4, <3>1
    <3>2. CASE i # j.idx
      BY <2>4, <3>2 DEF Fit
    <3>3. QED BY <3>1, <3>2
  <2>6. QED BY <2>3, <2>5 DEF Fit
<1>4. CASE j.op = "delete"
  <2> DEFINE a == SubSeq(s, 1, j.idx - 1)
             b == SubSeq(s, j.idx + 1, Len(s))
  <2>1. Len(s) \in Nat /\ j.idx <= Len(s) /\ DOMAIN s = 1..Len(s)
    BY <1>4
  <2>2. /\ a \in Seq(Provider)
        /\ \A i \in 1..Len(a) : i \in DOMAIN s /\ a[i] = s[i]
    <3>1. \A i \in 1..(j.idx - 1) : s[i] \in Provider /\ i \in DOMAIN s
      BY <1>1, <2>1
    <3>2. /\ SubSeq(s, 1, j.idx - 1) \in Seq(Provider)
          /\ Len(SubSeq(s, 1, j.idx - 1)) =
               IF 1 <= j.idx - 1 THEN j.idx - 1 - 1 + 1 ELSE 0
          /\ \A i \in 1..(j.idx - 1 - 1 + 1) :
               SubSeq(s, 1, j.idx - 1)[i] = s[1 + i - 1]
      <4>1. 1 \in Int /\ j.idx - 1 \in Int
        BY <1>1
      <4>2. QED BY <3>1, <4>1, SubSeqProperties
    <3>3. QED BY <1>1, <2>1, <3>1, <3>2
  <2>3. /\ b \in Seq(Provider)
        /\ \A i \in 1..Len(b) : j.idx + i \in DOMAIN s /\ b[i] = s[j.idx + i]
    <3>1. \A i \in (j.idx + 1)..Len(s) : s[i] \in Provider /\ i \in DOMAIN s
      BY <1>1, <2>1
    <3>2. /\ SubSeq(s, j.idx + 1, Len(s)) \in Seq(Provider)
          /\ Len(SubSeq(s, j.idx + 1, Len(s))) =
               IF j.idx + 1 <= Len(s) THEN Len(s) - (j.idx + 1) + 1 ELSE 0
          /\ \A i \in 1..(Len(s) - (j.idx + 1) + 1) :
               SubSeq(s, j.idx + 1, Len(s))[i] = s[j.idx + 1 + i - 1]
      <4>1. Len(s) \in Int /\ j.idx + 1 \in Int
        BY <1>1, <2>1
      <4>2. QED BY <3>1, <4>1, SubSeqProperties
    <3>3. /\ j.idx \in Nat /\ Len(s) \in Nat /\ DOMAIN s = 1..Len(s)
          /\ b = SubSeq(s, j.idx + 1, Len(s))
      BY <1>1, <2>1
    <3> HIDE DEF b
    <3>4. Len(b) = IF j.idx + 1 <= Len(s) THEN Len(s) - j.idx ELSE 0
      BY ONLY <3>2, <3>3
    <3>5. ASSUME NEW i \in 1..Len(b)
          PROVE  j.idx + i \in DOMAIN s /\ b[i] = s[j.idx + i]
      <4>1. i \in 1..(Len(s) - (j.idx + 1) + 1) /\ j.idx + i \in 1..Len(s)
        BY ONLY <3>3, <3>4, <3>5
      <4>2. b[i] = s[j.idx + 1 + i - 1]
        BY ONLY <3>2, <3>3, <4>1
      <4>3. j.idx + 1 + i - 1 = j.idx + i
        BY ONLY <3>3, i \in 1..Len(b), <4>1
      <4>4. QED BY <3>3, <4>1, <4>2, <4>3
    <3>6. QED BY <3>2, <3>3, <3>5
  <2>4. Edited(s, j) = a \o b
    BY <1>4 DEF Edited, Without
  <2> HIDE DEF a, b
  <2>5. \A i \in DOMAIN (a \o b) : \E l \in DOMAIN s : (a \o b)[i] = s[l]
    <3>1. /\ Len(a) \in Nat /\ Len(b) \in Nat
          /\ DOMAIN (a \o b) = 1..(Len(a) + Len(b))
          /\ \A i \in 1..(Len(a) + Len(b)) :
               (a \o b)[i] = IF i <= Len(a) THEN a[i] ELSE b[i - Len(a)]
      BY <2>2, <2>3, ConcatProperties
    <3>2. ASSUME NEW i \in 1..(Len(a) + Len(b)), i > Len(a)
          PROVE  i - Len(a) \in 1..Len(b)
      BY <3>1, <3>2
    <3>3. ASSUME NEW i \in 1..(Len(a) + Len(b))
          PROVE  \E l \in DOMAIN s : (a \o b)[i] = s[l]
      <4>1. CASE i <= Len(a)
        <5>1. i \in 1..Len(a) /\ (a \o b)[i] = a[i]
          BY <3>1, <4>1
        <5>2. QED BY <2>2, <5>1
      <4>2. CASE i > Len(a)
        <5>1. i - Len(a) \in 1..Len(b) /\ (a \o b)[i] = b[i - Len(a)]
          BY <3>1, <3>2, <4>2
        <5>2. QED BY <2>3, <5>1
      <4>3. QED BY <3>1, <4>1, <4>2
    <3>4. QED BY <3>1, <3>3
  <2>6. QED BY <2>4, <2>5 DEF Fit
<1>5. QED BY <1>2, <1>3, <1>4 DEF Edited

\* The parts of KeyInv that an action leaves alone.
KeyMem  == \A p \in Processes : Keyed(mem[p])
KeyFile == Parsed => Keyed(file)
KeyJob  == \A w \in Writers : /\ Keyed(job[w].buf)
                             /\ job[w].provider.secret.under = NoKey

LEMMA KeyParts == KeyInv <=> KeyMem /\ KeyFile /\ KeyJob
BY DEF KeyInv, KeyMem, KeyFile, KeyJob

LEMMA JobKeyed ==
  ASSUME TypeOK, KeyJob, NEW w \in Writers, NEW j,
         job' = [job EXCEPT ![w] = j],
         Keyed(j.buf), j.provider.secret.under = NoKey
  PROVE  KeyJob'
BY DEF KeyJob, TypeOK

LEMMA MemKeyed ==
  ASSUME TypeOK, KeyMem, NEW p \in Processes, NEW c,
         mem' = [mem EXCEPT ![p] = c], Keyed(c)
  PROVE  KeyMem'
BY DEF KeyMem, TypeOK

LEMMA FinishKey ==
  ASSUME TypeOK, KeyJob, NEW w \in Writers, NEW ok, Finish(w, ok)
  PROVE  KeyJob'
BY NoJobKeyed, JobKeyed DEF Finish

LEMMA SaveKey ==
  ASSUME TypeOK, KeyInv, NEW w \in Writers, Save(w)
  PROVE  KeyInv'
<1>1. KeyMem /\ KeyFile /\ KeyJob
  BY KeyParts
<1>2. job[w].buf \in Config /\ Keyed(job[w].buf)
  BY <1>1, JobParts DEF TypeOK, KeyJob
<1>3. KeyMem'
  BY <1>1 DEF Save, Truncate, Write, OpenFails, WriteFails, KeyMem
<1>4. KeyJob'
  <2>1. CASE Truncate(w)
    BY <1>1, <2>1 DEF Truncate, KeyJob
  <2>2. CASE Write(w)
    BY <1>1, <2>2, FinishKey DEF Write
  <2>3. CASE OpenFails(w)
    BY <1>1, <2>3, FinishKey DEF OpenFails
  <2>4. CASE WriteFails(w)
    BY <1>1, <2>4, FinishKey DEF WriteFails
  <2>5. QED BY <2>1, <2>2, <2>3, <2>4 DEF Save
<1>5. KeyFile'
  <2>1. CASE Truncate(w)
    BY <2>1, EmptyKeyed DEF Truncate, KeyFile
  <2>2. CASE Write(w)
    BY <1>2, <2>2 DEF Write, KeyFile, Parsed
  <2>3. CASE OpenFails(w)
    BY <1>1, <2>3 DEF OpenFails, KeyFile, Parsed
  <2>4. CASE WriteFails(w)
    BY <1>2, <2>4, CutKeyed DEF WriteFails, KeyFile, Parsed
  <2>5. QED BY <2>1, <2>2, <2>3, <2>4 DEF Save
<1>6. QED BY <1>3, <1>4, <1>5 DEF KeyInv, KeyMem, KeyFile, KeyJob

LEMMA BootKey ==
  ASSUME TypeOK, KeyInv, NEW p \in Processes, Boot(p)
  PROVE  KeyInv'
<1>1. KeyMem /\ KeyFile /\ KeyJob
  BY KeyParts
<1>2. /\ mem[p] \in Config /\ job[p] \in Job
      /\ Keyed(mem[p]) /\ job[p].provider.secret.under = NoKey
      /\ Parsed => file \in Config /\ Keyed(file)
  BY <1>1 DEF TypeOK, KeyMem, KeyFile, KeyJob, Parsed
<1>3. ASSUME NEW c \in Config, NEW o,
             Keyed(c), job' = [job EXCEPT ![p].op = o, ![p].buf = c]
      PROVE  KeyJob'
  <2>1. job' = [job EXCEPT ![p] = [job[p] EXCEPT !.op = o, !.buf = c]]
    BY <1>3 DEF TypeOK
  <2>2. /\ [job[p] EXCEPT !.op = o, !.buf = c].buf = c
        /\ [job[p] EXCEPT !.op = o, !.buf = c].provider = job[p].provider
    BY <1>2 DEF Job
  <2>3. QED BY <1>1, <1>2, <1>3, <2>1, <2>2, JobKeyed
<1>4. ASSUME NEW c \in Config, Keyed(c), c.key = NoKey, WithNewKey(p, c)
      PROVE  KeyMem' /\ KeyJob'
  <2>1. PICK k \in Keys \ made :
          LET d == [c EXCEPT !.key = k]
          IN /\ made' = made \cup {k}
             /\ mem' = [mem EXCEPT ![p] = d]
             /\ job' = [job EXCEPT ![p].op = "load", ![p].buf = d]
             /\ Goto(p, "open")
    BY <1>4, Zenon DEF WithNewKey
  <2>2. [c EXCEPT !.key = k] \in Config /\ Keyed([c EXCEPT !.key = k])
    BY <1>4, ReplacedKey, NewKeyKeyed
  <2>3. QED BY <1>1, <1>3, <2>1, <2>2, MemKeyed
<1>5. CASE LoadWithoutKey(p)
  <2>1. PICK c \in Config : /\ Keyed(c) /\ c.key = NoKey /\ WithNewKey(p, c)
    <3>1. CASE file = NoFile /\ WithNewKey(p, Empty)
      BY <3>1, EmptyType, EmptyKeyed DEF Empty
    <3>2. CASE Parsed /\ file.key = NoKey
               /\ WithNewKey(p, [file EXCEPT !.port = Valid(@)])
      <4>1. file \in Config /\ Keyed(file)
        BY <1>2, <3>2
      <4>2. file.port \in Settings
        BY <4>1 DEF Config
      <4>3. /\ [file EXCEPT !.port = Valid(@)] \in Config
            /\ [file EXCEPT !.port = Valid(@)].key = NoKey
        BY <3>2, <4>1, <4>2, PortTypes DEF Config
      <4>4. QED BY <3>2, <4>1, <4>3, PortKeyed
    <3>3. QED BY <1>5, <3>1, <3>2 DEF LoadWithoutKey
  <2>2. KeyFile'
    BY <1>1, <1>5 DEF LoadWithoutKey, KeyFile, Parsed
  <2>3. QED
    <3>1. KeyMem' /\ KeyJob'
      BY <1>4, <2>1
    <3>2. QED BY <2>2, <3>1 DEF KeyInv, KeyMem, KeyFile, KeyJob
<1>6. CASE LoadFile(p)
  <2>1. file \in Config /\ Keyed(file)
    BY <1>2, <1>6 DEF LoadFile
  <2>2. KeyMem'
    BY <1>1, <1>6, <2>1, PortKeyed, MemKeyed DEF LoadFile
  <2>3. QED
    BY <1>1, <1>6, <2>2
    DEF LoadFile, KeyInv, KeyMem, KeyFile, KeyJob, Parsed
<1>7. ASSUME NEW env \in Ports \cup {Unset}, Override(p, env)
      PROVE  KeyInv'
  <2>1. PICK x : LET c == [mem[p] EXCEPT !.port = x]
                 IN /\ mem' = [mem EXCEPT ![p] = c]
                    /\ \/ job' = [job EXCEPT ![p].op = "port", ![p].buf = c]
                       \/ job' = job
    <3> DEFINE port == Valid(IF env # Unset THEN env ELSE mem[p].port)
    <3>1. CASE port = Unset
      BY <1>7, <3>1, Zenon DEF Override
    <3>2. CASE port # Unset
      BY <1>7, <3>2, Zenon DEF Override
    <3>3. QED BY <3>1, <3>2
  <2> DEFINE c == [mem[p] EXCEPT !.port = x]
  <2>2. Keyed(c)
    BY <1>2, PortKeyed
  <2>3. \A w \in Writers : Keyed(job'[w].buf)
                         /\ job'[w].provider.secret.under = NoKey
    <3>1. CASE job' = job
      BY <1>1, <3>1 DEF KeyJob
    <3>2. CASE job' = [job EXCEPT ![p].op = "port", ![p].buf = c]
      <4>1. /\ job' = [job EXCEPT ![p] = [job[p] EXCEPT !.op = "port", !.buf = c]]
        BY <3>2 DEF TypeOK
      <4>2. /\ [job[p] EXCEPT !.op = "port", !.buf = c].buf = c
            /\ [job[p] EXCEPT !.op = "port", !.buf = c].provider
                 = job[p].provider
        BY <1>2 DEF Job
      <4>3. KeyJob'
        BY <1>1, <1>2, <2>2, <4>1, <4>2, JobKeyed
      <4>4. QED BY <4>3 DEF KeyJob
    <3>3. QED BY <2>1, <3>1, <3>2
  <2>4. KeyMem'
    BY <1>1, <2>1, <2>2, MemKeyed
  <2>5. file' = file
    BY <1>7 DEF Override
  <2>6. QED
    BY <1>1, <2>3, <2>4, <2>5 DEF KeyInv, KeyMem, KeyFile, Parsed
<1>8. CASE Exit(p)
  <2>1. mem' = [mem EXCEPT ![p] = Empty]
    BY <1>8 DEF Exit
  <2>2. KeyMem'
    BY <1>1, <2>1, EmptyKeyed, MemKeyed
  <2>3. KeyJob'
    BY <1>1, <1>8, NoJobKeyed DEF Exit, KeyJob
  <2>4. KeyFile'
    <3>1. CASE file' = file
      BY <1>1, <3>1 DEF KeyFile, Parsed
    <3>2. ASSUME NEW w \in Writers, file' \in Cut(job[w].buf)
          PROVE  KeyFile'
      <4>1. job[w].buf \in Config /\ Keyed(job[w].buf)
        BY <1>1, JobParts DEF TypeOK, KeyJob
      <4>2. QED BY <3>2, <4>1, CutKeyed DEF KeyFile, Parsed
    <3>3. QED BY <1>8, <3>1, <3>2 DEF Exit, Threads
  <2>5. QED BY <2>2, <2>3, <2>4 DEF KeyInv, KeyMem, KeyFile, KeyJob
<1>9. QED BY <1>5, <1>6, <1>7, <1>8 DEF Boot

LEMMA ApplyKey ==
  ASSUME TypeOK, KeyInv, NEW r \in Requests, Apply(r)
  PROVE  KeyInv'
<1> DEFINE j == [job[r] EXCEPT !.want = Wanted(Shared, job[r])]
           a == [Shared.auth EXCEPT ![j.section] = Edited(@, j)]
<1>1. KeyMem /\ KeyFile /\ KeyJob
  BY KeyParts
<1>2. /\ Shared \in Config /\ job[r] \in Job /\ Keyed(Shared)
      /\ Keyed(job[r].buf) /\ job[r].provider.secret.under = NoKey
  BY <1>1 DEF TypeOK, Shared, KeyMem, KeyJob
<1>3. /\ j.buf = job[r].buf /\ j.provider = job[r].provider
      /\ j.op = job[r].op /\ j.idx = job[r].idx /\ j.section = job[r].section
  BY <1>2 DEF Job
<1>4. /\ job' = [job EXCEPT ![r] = j]
      /\ mem' = [mem EXCEPT ![Server] = [Shared EXCEPT !.auth = a]]
      /\ j.op \in {"update", "delete"} => j.idx <= Len(Shared.auth[j.section])
      /\ file' = file
  BY DEF Apply
<1>5. KeyJob'
  <2> HIDE DEF j
  <2>1. QED BY <1>1, <1>2, <1>3, <1>4, JobKeyed
<1>6. Keyed([Shared EXCEPT !.auth = a])
  <2>1. j \in Job
    <3>1. Wanted(Shared, job[r]) \in Texts \cup {NoProvider}
      BY <1>2, WantedType
    <3>2. QED BY <1>2, <3>1, JobParts
  <2> HIDE DEF j
  <2>2. /\ Shared.auth[j.section] \in Seq(Provider) /\ j.section \in Sections
        /\ Fit(Shared.auth[j.section], Shared.key)
    BY <1>2, <2>1, Parts, JobParts DEF Keyed
  <2>3. /\ Edited(Shared.auth[j.section], j) \in Seq(Provider)
        /\ Fit(Edited(Shared.auth[j.section], j), Shared.key)
    BY <1>2, <1>3, <1>4, <2>1, <2>2, EditedType, EditedKeyed
  <2>4. a \in Auth /\ \A t \in Sections : Fit(a[t], Shared.key)
    BY <1>2, <2>2, <2>3, Parts DEF Auth, Keyed
  <2> HIDE DEF a
  <2>5. QED BY <1>2, <2>4, AuthKeyed
<1> HIDE DEF j, a
<1>7. KeyMem'
  BY <1>1, <1>4, <1>6, MemKeyed
<1>8. QED BY <1>1, <1>4, <1>5, <1>7
          DEF KeyInv, KeyMem, KeyFile, KeyJob, Parsed

LEMMA RequestKey ==
  ASSUME TypeOK, KeyInv, NEW r \in Requests,
         \/ ProviderRequest(r) \/ Apply(r) \/ Panic(r)
         \/ Encrypt(r) \/ Marshal(r)
  PROVE  KeyInv'
<1>1. KeyMem /\ KeyFile /\ KeyJob
  BY KeyParts
<1>2. /\ Shared \in Config /\ job[r] \in Job /\ Keyed(Shared)
      /\ job[r].provider.secret.under = NoKey
  BY <1>1 DEF TypeOK, Shared, KeyMem, KeyJob
<1>3. ASSUME NEW op, NEW t, NEW orig, NEW n, NEW s,
             Accept(r, op, t, orig, n, s)
      PROVE  KeyInv'
  <2> DEFINE q == [name |-> n, secret |-> [text |-> s, under |-> NoKey]]
             j == [NoJob EXCEPT !.op = op, !.section = t, !.orig = orig,
                     !.provider = q, !.idx = Index(Shared, t, orig)]
  <2>1. job' = [job EXCEPT ![r] = j]
    BY <1>3 DEF Accept
  <2>2. Keyed(j.buf) /\ j.provider.secret.under = NoKey
    <3>1. j.buf = NoJob.buf /\ j.provider = q
      BY DEF NoJob
    <3>2. QED BY <3>1, NoJobKeyed
  <2> HIDE DEF j
  <2>3. KeyJob'
    BY <1>1, <2>1, <2>2, JobKeyed
  <2>4. QED BY <1>1, <1>3, <2>3
            DEF Accept, KeyInv, KeyMem, KeyFile, KeyJob, Parsed
<1>4. CASE ProviderRequest(r)
  BY <1>3, <1>4, Zenon DEF ProviderRequest, Create, Update, Delete, Toggle
<1>5. CASE Panic(r)
  <2>1. KeyJob'
    BY <1>1, <1>5, FinishKey DEF Panic
  <2>2. QED BY <1>1, <1>5, <2>1
            DEF Panic, KeyInv, KeyMem, KeyFile, KeyJob, Parsed
<1>6. CASE Encrypt(r)
  <2>1. mem' = [mem EXCEPT ![Server] =
                  [Shared EXCEPT !.auth = EncryptSecrets(@, Shared.key)]]
    BY <1>6 DEF Encrypt, Shared
  <2>2. KeyMem'
    BY <1>1, <1>2, <2>1, EncryptKeyed, MemKeyed
  <2>3. QED BY <1>1, <1>6, <2>2
            DEF Encrypt, KeyInv, KeyMem, KeyFile, KeyJob, Parsed
<1>7. CASE Marshal(r)
  <2>1. job' = [job EXCEPT ![r] = [job[r] EXCEPT !.buf = Shared]]
    BY <1>7 DEF Marshal
  <2>2. /\ [job[r] EXCEPT !.buf = Shared].buf = Shared
        /\ [job[r] EXCEPT !.buf = Shared].provider = job[r].provider
    BY <1>2 DEF Job
  <2>3. KeyJob'
    BY <1>1, <1>2, <2>1, <2>2, JobKeyed
  <2>4. QED BY <1>1, <1>7, <2>3
            DEF Marshal, KeyInv, KeyMem, KeyFile, KeyJob, Parsed
<1>8. QED BY <1>4, <1>5, <1>6, <1>7, ApplyKey

LEMMA KeyInvNext == TypeOK /\ KeyInv /\ [Next]_vars => KeyInv'
<1> SUFFICES ASSUME TypeOK, KeyInv, [Next]_vars
             PROVE  KeyInv'
  OBVIOUS
<1>1. CASE Seal
  BY <1>1 DEF Seal, KeyInv, Parsed
<1>2. CASE UNCHANGED vars
  BY <1>2 DEF vars, KeyInv, Parsed
<1>3. CASE \E p \in Processes : Boot(p)
  BY <1>3, BootKey
<1>4. CASE \E w \in Writers : Save(w)
  BY <1>4, SaveKey
<1>5. CASE \E r \in Requests :
             \/ ProviderRequest(r) \/ Apply(r) \/ Panic(r)
             \/ Encrypt(r) \/ Marshal(r)
  BY <1>5, RequestKey
<1>6. QED
  BY <1>1, <1>2, <1>3, <1>4, <1>5 DEF Next

LEMMA InitKeyInv == Init => KeyInv
<1>1. ASSUME file \in Installed, Parsed PROVE Keyed(file)
  <2>1. Settled(file)
    BY <1>1, InstalledAssumption DEF Parsed
  <2>2. QED BY <2>1 DEF Settled, Keyed, Fit
<1>2. QED BY <1>1, EmptyKeyed, NoJobKeyed DEF Init, KeyInv

\* Whatever is torn, cut short, interleaved or restarted, and however many
\* keys were generated on the way: a secret that was encrypted is beside the
\* key that decrypts it, in server.yml and in the memory of every process.
THEOREM SecretsBesideTheirKey == Spec => []OneKey
<1>1. Init => TypeOK /\ HasKey /\ KeyInv
  BY InitTypes, InitHasKey, InitKeyInv
<1>2. TypeOK /\ HasKey /\ KeyInv /\ [Next]_vars
        => TypeOK' /\ HasKey' /\ KeyInv'
  BY TypeNext, HasKeyNext, KeyInvNext
<1>3. TypeOK /\ KeyInv => OneKey
  BY KeyInvOneKey
<1>4. QED BY <1>1, <1>2, <1>3, PTL DEF Spec

-----------------------------------------------------------------------------
(* What the steps of each kind have in common *)

LEMMA SaveStep ==
  ASSUME TypeOK, NEW w \in Writers, Save(w)
  PROVE  /\ UNCHANGED <<mem, sealed, made, torn, overlap>>
         /\ At(w, "open") \/ At(w, "write")
         /\ \A v \in Writers : v # w => pc'[v] = pc[v] /\ job'[v] = job[v]
         /\ \/ pc'[w] = "write" /\ job' = job
            \/ pc'[w] \in {"down", "override", "up", "idle"} /\ job'[w] = NoJob
         /\ \/ file' \in {file, Empty, job[w].buf, Garbled}
            \/ file' \in Cut(job[w].buf)
<1>1. CASE Truncate(w)
  BY <1>1 DEF Truncate, Goto, TypeOK, history
<1>2. ASSUME NEW ok, Finish(w, ok)
      PROVE  /\ \A v \in Writers : v # w => pc'[v] = pc[v] /\ job'[v] = job[v]
             /\ pc'[w] \in {"down", "override", "up", "idle"}
             /\ job'[w] = NoJob
  BY <1>2 DEF Finish, Goto, TypeOK
<1>3. CASE Write(w)
  BY <1>2, <1>3 DEF Write
<1>4. CASE OpenFails(w)
  BY <1>2, <1>4 DEF OpenFails, history
<1>5. CASE WriteFails(w)
  BY <1>2, <1>5 DEF WriteFails
<1>6. QED BY <1>1, <1>3, <1>4, <1>5 DEF Save

\* A process that loads takes the providers of the file, if there is one, and
\* one that overrides settings keeps its own.
LEMMA BootStep ==
  ASSUME TypeOK, NEW p \in Processes, Boot(p), ~Exit(p)
  PROVE  /\ UNCHANGED <<file, sealed, may, cut>>
         /\ \E c \in Config :
              /\ mem' = [mem EXCEPT ![p] = c]
              /\ \/ At(p, "down") /\ Loads /\ c.auth = Found.auth
                    /\ file \in Config \cup {NoFile}
                 \/ At(p, "override") /\ c.auth = mem[p].auth
                    /\ UNCHANGED <<torn, overlap>>
              /\ \/ job' = job /\ \E x \in {"override", "up"} :
                                    pc' = [pc EXCEPT ![p] = x]
                 \/ /\ pc' = [pc EXCEPT ![p] = "open"]
                    /\ \E o \in {"load", "port"} :
                         job' = [job EXCEPT ![p] =
                                   [job[p] EXCEPT !.op = o, !.buf = c]]
<1> DEFINE
  Took(c) == \/ At(p, "down") /\ Loads /\ c.auth = Found.auth
                /\ file \in Config \cup {NoFile}
             \/ At(p, "override") /\ c.auth = mem[p].auth
                /\ UNCHANGED <<torn, overlap>>
  Goes(c) == \/ job' = job /\ \E x \in {"override", "up"} :
                                pc' = [pc EXCEPT ![p] = x]
             \/ /\ pc' = [pc EXCEPT ![p] = "open"]
                /\ \E o \in {"load", "port"} :
                     job' = [job EXCEPT ![p] =
                               [job[p] EXCEPT !.op = o, !.buf = c]]
<1>1. /\ mem \in [Processes -> Config] /\ job \in [Writers -> Job]
      /\ Parsed => file \in Config
  BY DEF TypeOK, Parsed
<1>2. \A c \in Config : /\ [c EXCEPT !.port = Valid(@)] \in Config
                        /\ [c EXCEPT !.port = Valid(@)].auth = c.auth
  BY PortTypes DEF Config
<1>3. ASSUME NEW c \in Config, WithNewKey(p, c)
      PROVE  \E d \in Config : /\ mem' = [mem EXCEPT ![p] = d] /\ Goes(d)
                               /\ d.auth = c.auth
  <2>1. PICK k \in Keys \ made :
          LET d == [c EXCEPT !.key = k]
          IN /\ mem' = [mem EXCEPT ![p] = d]
             /\ job' = [job EXCEPT ![p].op = "load", ![p].buf = d]
             /\ Goto(p, "open")
    BY <1>3, Zenon DEF WithNewKey
  <2> DEFINE d == [c EXCEPT !.key = k]
  <2>2. d \in Config /\ d.auth = c.auth
    BY ReplacedKey DEF Config
  <2>3. mem' = [mem EXCEPT ![p] = d] /\ pc' = [pc EXCEPT ![p] = "open"]
    BY <2>1 DEF Goto
  <2>4. job' = [job EXCEPT ![p] = [job[p] EXCEPT !.op = "load", !.buf = d]]
    BY <1>1, <2>1
  <2> HIDE DEF d
  <2>5. Goes(d)
    BY <2>3, <2>4
  <2>6. QED BY <2>2, <2>3, <2>5
<1>4. CASE LoadWithoutKey(p)
  <2>1. PICK c \in Config : /\ WithNewKey(p, c) /\ c.auth = Found.auth
                            /\ file \in Config \cup {NoFile}
    <3>1. CASE file = NoFile /\ WithNewKey(p, Empty)
      BY <3>1, EmptyType DEF Found
    <3>2. CASE Parsed /\ WithNewKey(p, [file EXCEPT !.port = Valid(@)])
      <4>1. file \in Config /\ Found = file
        BY <1>1, <3>2 DEF Found, Parsed
      <4>2. QED BY <1>2, <3>2, <4>1
    <3>3. QED BY <1>4, <3>1, <3>2 DEF LoadWithoutKey
  <2>2. PICK d \in Config : /\ mem' = [mem EXCEPT ![p] = d] /\ Goes(d)
                            /\ d.auth = c.auth
    BY <1>3, <2>1
  <2>3. Took(d) /\ UNCHANGED <<file, sealed, may, cut>>
    BY <1>4, <2>1, <2>2 DEF LoadWithoutKey
  <2> HIDE DEF Took, Goes
  <2>4. \E e \in Config : mem' = [mem EXCEPT ![p] = e] /\ Took(e) /\ Goes(e)
    BY <2>2, <2>3
  <2>5. QED BY <2>3, <2>4 DEF Took, Goes
<1>5. CASE LoadFile(p)
  <2> DEFINE c == [file EXCEPT !.port = Valid(@)]
  <2>1. c \in Config /\ c.auth = Found.auth /\ file \in Config
    BY <1>1, <1>2, <1>5 DEF LoadFile, Found, Parsed
  <2>2. mem' = [mem EXCEPT ![p] = c] /\ pc' = [pc EXCEPT ![p] = "override"]
    BY <1>5 DEF LoadFile, Goto
  <2> HIDE DEF c
  <2>3. Took(c) /\ Goes(c) /\ UNCHANGED <<file, sealed, may, cut>>
    BY <1>5, <2>1, <2>2 DEF LoadFile
  <2> HIDE DEF Took, Goes
  <2>4. \E e \in Config : mem' = [mem EXCEPT ![p] = e] /\ Took(e) /\ Goes(e)
    BY <2>1, <2>2, <2>3
  <2>5. QED BY <2>3, <2>4 DEF Took, Goes
<1>6. ASSUME NEW env \in Ports \cup {Unset}, Override(p, env)
      PROVE  /\ UNCHANGED <<file, sealed, may, cut>>
             /\ \E e \in Config : /\ mem' = [mem EXCEPT ![p] = e]
                                  /\ Took(e) /\ Goes(e)
  <2> DEFINE port == Valid(IF env # Unset THEN env ELSE mem[p].port)
             c    == [mem[p] EXCEPT !.port = IF port = Unset THEN DefaultPort
                                             ELSE port]
  <2>1. c \in Config /\ c.auth = mem[p].auth
    <3>1. mem[p].port \in Settings
      BY <1>1 DEF Config
    <3>2. (IF env # Unset THEN env ELSE mem[p].port) \in Settings \cup Ports
      BY <3>1
    <3>3. port \in Settings
      BY <3>2, PortTypes
    <3> HIDE DEF port
    <3>4. (IF port = Unset THEN DefaultPort ELSE port) \in Settings
      BY <3>3, PortTypes
    <3>5. mem[p] \in Config
      BY <1>1
    <3>6. QED BY <3>4, <3>5 DEF Config
  <2>2. /\ mem' = [mem EXCEPT ![p] = c] /\ At(p, "override")
        /\ UNCHANGED <<file, sealed, may, cut, torn, overlap>>
    BY <1>6 DEF Override, history
  <2>3. \/ /\ job' = [job EXCEPT ![p].op = "port", ![p].buf = c]
           /\ pc' = [pc EXCEPT ![p] = "open"]
        \/ job' = job /\ pc' = [pc EXCEPT ![p] = "up"]
    <3>1. CASE port = Unset
      BY <1>6, <3>1 DEF Override, Goto
    <3>2. CASE port # Unset
      BY <1>6, <3>2 DEF Override, Goto
    <3>3. QED BY <3>1, <3>2
  <2> HIDE DEF c
  <2>4. Goes(c) /\ Took(c)
    BY <1>1, <2>1, <2>2, <2>3
  <2> HIDE DEF Took, Goes
  <2>5. QED BY <2>1, <2>2, <2>4
<1>7. QED BY <1>4, <1>5, <1>6 DEF Boot

LEMMA ExitStep ==
  ASSUME TypeOK, NEW p \in Processes, Exit(p)
  PROVE  /\ UNCHANGED <<sealed, may, torn, overlap>>
         /\ mem' = [mem EXCEPT ![p] = Empty]
         /\ p \in Threads(p) /\ Threads(p) \cap Processes = {p}
         /\ Threads(p) \subseteq Writers
         /\ p = Server => Requests \subseteq Threads(p)
         /\ p # Server => Threads(p) = {p}
         /\ \A w \in Writers \ Threads(p) : pc'[w] = pc[w] /\ job'[w] = job[w]
         /\ \A w \in Threads(p) :
              pc'[w] = (IF w = p THEN "down" ELSE "idle") /\ job'[w] = NoJob
         /\ \/ UNCHANGED <<file, cut>> /\ \A w \in Threads(p) : ~At(w, "write")
            \/ /\ cut'
               /\ \E w \in Threads(p) : At(w, "write") /\ file' \in Cut(job[w].buf)
<1>1. p \in Threads(p) /\ Threads(p) \cap Processes = {p}
  BY DEF Threads
<1>2. /\ p = Server => Requests \subseteq Threads(p)
      /\ p # Server => Threads(p) = {p}
      /\ Threads(p) \subseteq Writers
  BY DEF Threads
<1>3. \/ UNCHANGED <<file, cut>> /\ \A w \in Threads(p) : ~At(w, "write")
      \/ /\ cut'
         /\ \E w \in Threads(p) : At(w, "write") /\ file' \in Cut(job[w].buf)
  BY DEF Exit
<1>4. QED BY <1>1, <1>2, <1>3 DEF Exit

\* What a request does to the steps, the memory and the Saves to come.
LEMMA RequestStep ==
  ASSUME TypeOK, NEW r \in Requests,
         \/ ProviderRequest(r) \/ Apply(r) \/ Panic(r)
         \/ Encrypt(r) \/ Marshal(r)
  PROVE  /\ UNCHANGED <<file, sealed, made, torn, cut>>
         /\ mem' = mem \/ \E a : mem' = [mem EXCEPT ![Server] =
                                          [mem[Server] EXCEPT !.auth = a]]
         /\ \E x : pc' = [pc EXCEPT ![r] = x] /\ x # "write"
         /\ \E j : job' = [job EXCEPT ![r] = j]
         /\ ~At(r, "write")
         /\ At(r, "open")' => At(r, "marshal") /\ job'[r].buf = Shared
<1> DEFINE To(x) == pc' = [pc EXCEPT ![r] = x]
<1>0. ASSUME NEW x, To(x), x # "write"
      PROVE  (\E y : To(y) /\ y # "write") /\ pc'[r] = x
  BY <1>0 DEF TypeOK
<1>1. CASE ProviderRequest(r)
  <2>1. PICK op, t, orig, n, s : Accept(r, op, t, orig, n, s)
    BY <1>1, Zenon DEF ProviderRequest, Create, Update, Delete, Toggle
  <2>2. /\ UNCHANGED <<file, mem, sealed, made, torn, cut>>
        /\ To("apply") /\ At(r, "idle")
        /\ \E j : job' = [job EXCEPT ![r] = j]
    BY <2>1, Zenon DEF Accept, Goto
  <2>3. QED BY <1>0, <2>2 DEF At
<1>2. CASE Apply(r)
  <2>1. /\ UNCHANGED <<file, sealed, made, torn, cut>>
        /\ To("encrypt") /\ At(r, "apply")
        /\ \E j : job' = [job EXCEPT ![r] = j]
        /\ \E a : mem' = [mem EXCEPT ![Server] =
                            [mem[Server] EXCEPT !.auth = a]]
    BY <1>2, Zenon DEF Apply, Goto, Shared
  <2>2. QED BY <1>0, <2>1 DEF At
<1>3. CASE Panic(r)
  <2>1. /\ UNCHANGED <<file, mem, sealed, made, torn, cut>>
        /\ job' = [job EXCEPT ![r] = NoJob] /\ At(r, "apply")
    BY <1>3 DEF Panic, Finish, history
  <2>2. \E x \in {"down", "up", "idle"} : pc' = [pc EXCEPT ![r] = x]
    BY <1>3, Zenon DEF Panic, Finish, Goto
  <2>3. QED BY <2>1, <2>2 DEF At, TypeOK
<1>4. CASE Encrypt(r)
  <2>1. /\ UNCHANGED <<file, sealed, made, torn, cut, job>>
        /\ To("marshal") /\ At(r, "encrypt")
        /\ mem' = [mem EXCEPT ![Server] =
              [mem[Server] EXCEPT !.auth =
                 EncryptSecrets(mem[Server].auth, mem[Server].key)]]
    BY <1>4 DEF Encrypt, Goto, Shared, history, TypeOK
  <2>2. job' = [job EXCEPT ![r] = job[r]]
    BY <2>1 DEF TypeOK
  <2>3. QED BY <1>0, <2>1, <2>2, Zenon DEF At
<1>5. CASE Marshal(r)
  <2>1. /\ UNCHANGED <<file, mem, sealed, made, torn, cut>>
        /\ To("open") /\ At(r, "marshal")
        /\ job' = [job EXCEPT ![r] = [job[r] EXCEPT !.buf = Shared]]
    BY <1>5 DEF Marshal, Goto, history
  <2>2. job'[r].buf = Shared
    <3>1. [job[r] EXCEPT !.buf = Shared].buf = Shared
      BY DEF TypeOK, Job
    <3>2. QED BY <2>1, <3>1 DEF TypeOK
  <2>3. QED BY <1>0, <2>1, <2>2 DEF At
<1>6. QED BY <1>1, <1>2, <1>3, <1>4, <1>5

\* That an incomplete file was loaded is remembered.
LEMMA TornStays == TypeOK /\ [Next]_vars /\ torn => torn'
<1> SUFFICES ASSUME TypeOK, [Next]_vars, torn
             PROVE  torn'
  OBVIOUS
<1>1. ASSUME NEW w \in Writers, Save(w) PROVE torn'
  BY <1>1, SaveStep
<1>2. ASSUME NEW p \in Processes, Boot(p) PROVE torn'
  <2>1. CASE Exit(p)
    BY <2>1 DEF Exit
  <2>2. CASE LoadWithoutKey(p) \/ LoadFile(p)
    <3>1. torn' = (torn \/ Incomplete)
      BY <2>2 DEF LoadWithoutKey, LoadFile, Loads
    <3>2. QED BY <3>1
  <2>3. CASE \E env \in Ports \cup {Unset} : Override(p, env)
    BY <2>3 DEF Override, history
  <2>4. QED BY <1>2, <2>1, <2>2, <2>3 DEF Boot
<1>3. ASSUME NEW r \in Requests,
             \/ ProviderRequest(r) \/ Apply(r) \/ Panic(r)
             \/ Encrypt(r) \/ Marshal(r)
      PROVE  torn'
  BY <1>3, RequestStep
<1>4. CASE Seal \/ UNCHANGED vars
  BY <1>4 DEF Seal, vars, history
<1>5. QED BY <1>1, <1>2, <1>3, <1>4 DEF Next

\* Two at work at once are remembered.
LEMMA OverlapStays == TypeOK /\ [Next]_vars /\ overlap => overlap'
<1> SUFFICES ASSUME TypeOK, [Next]_vars, overlap
             PROVE  overlap'
  OBVIOUS
<1>1. ASSUME NEW w \in Writers, Save(w) PROVE overlap'
  BY <1>1, SaveStep
<1>2. ASSUME NEW p \in Processes, Boot(p) PROVE overlap'
  <2>1. CASE Exit(p)
    BY <2>1 DEF Exit
  <2>2. CASE LoadWithoutKey(p) \/ LoadFile(p)
    <3>1. overlap' = (overlap \/ Busy)
      BY <2>2 DEF LoadWithoutKey, LoadFile, Loads
    <3>2. QED BY <3>1
  <2>3. CASE \E env \in Ports \cup {Unset} : Override(p, env)
    BY <2>3 DEF Override, history
  <2>4. QED BY <1>2, <2>1, <2>2, <2>3 DEF Boot
<1>3. ASSUME NEW r \in Requests,
             \/ ProviderRequest(r) \/ Apply(r) \/ Panic(r)
             \/ Encrypt(r) \/ Marshal(r)
      PROVE  overlap'
  <2>1. CASE ProviderRequest(r)
    <3>1. overlap' = (overlap \/ Busy)
      BY <2>1, Zenon
      DEF ProviderRequest, Create, Update, Delete, Toggle, Accept
    <3>2. QED BY <3>1
  <2>2. CASE ~ProviderRequest(r)
    <3>1. UNCHANGED overlap
      BY <1>3, <2>2 DEF Apply, Panic, Encrypt, Marshal, history
    <3>2. QED BY <3>1
  <2>3. QED BY <2>1, <2>2
<1>4. CASE Seal \/ UNCHANGED vars
  BY <1>4 DEF Seal, vars, history
<1>5. QED BY <1>1, <1>2, <1>3, <1>4 DEF Next

-----------------------------------------------------------------------------
(* What is sealed can be read *)

\* A request is at work only while the server is up.
ServerBusy == \A r \in Requests : ~At(r, "idle") => At(Server, "up")

LEMMA ServerBusyNext == TypeOK /\ ServerBusy /\ [Next]_vars => ServerBusy'
<1> SUFFICES ASSUME TypeOK, ServerBusy, [Next]_vars
             PROVE  ServerBusy'
  OBVIOUS
<1>1. ASSUME NEW w \in Writers, NEW x, pc' = [pc EXCEPT ![w] = x],
             w = Server => ~At(Server, "up"),
             w \in Requests => x = "idle" \/ At(Server, "up")
      PROVE  ServerBusy'
  BY <1>1 DEF ServerBusy, At, TypeOK
<1>2. ASSUME NEW w \in Writers, Save(w)
      PROVE  ServerBusy'
  <2>1. At(w, "open") \/ At(w, "write")
    BY <1>2 DEF Save, Truncate, Write, OpenFails, WriteFails
  <2>2. PICK x : pc' = [pc EXCEPT ![w] = x]
    BY <1>2, Zenon
    DEF Save, Truncate, Write, OpenFails, WriteFails, Finish, Goto
  <2>3. QED BY <1>1, <2>1, <2>2 DEF ServerBusy, At
<1>3. ASSUME NEW p \in Processes, Boot(p)
      PROVE  ServerBusy'
  <2>1. CASE Exit(p)
    BY <2>1 DEF Exit, ServerBusy, At, Threads, TypeOK
  <2>2. CASE ~Exit(p)
    <3>1. ~At(p, "up") /\ \E x : pc' = [pc EXCEPT ![p] = x]
      <4>1. CASE LoadWithoutKey(p)
        BY <4>1, Zenon DEF LoadWithoutKey, WithNewKey, Goto, At
      <4>2. CASE LoadFile(p)
        BY <4>2, Zenon DEF LoadFile, Goto, At
      <4>3. ASSUME NEW env \in Ports \cup {Unset}, Override(p, env)
            PROVE  ~At(p, "up") /\ \E x : pc' = [pc EXCEPT ![p] = x]
        BY <4>3, Zenon DEF Override, Goto, At
      <4>4. QED BY <1>3, <2>2, <4>1, <4>2, <4>3 DEF Boot
    <3>2. QED BY <1>1, <3>1
  <2>3. QED BY <2>1, <2>2
<1>4. ASSUME NEW r \in Requests,
             \/ ProviderRequest(r) \/ Apply(r) \/ Panic(r)
             \/ Encrypt(r) \/ Marshal(r)
      PROVE  ServerBusy'
  <2>1. At(Server, "up")
    <3>1. CASE ProviderRequest(r)
      BY <3>1 DEF ProviderRequest, Create, Update, Delete, Toggle, Accept
    <3>2. CASE ~ProviderRequest(r)
      BY <1>4, <3>2 DEF Apply, Panic, Encrypt, Marshal, At, ServerBusy
    <3>3. QED BY <3>1, <3>2
  <2>2. \E x : pc' = [pc EXCEPT ![r] = x]
    <3>1. CASE ProviderRequest(r)
      BY <3>1, Zenon
      DEF ProviderRequest, Create, Update, Delete, Toggle, Accept, Goto
    <3>2. CASE ~ProviderRequest(r)
      BY <1>4, <3>2, Zenon DEF Apply, Panic, Encrypt, Marshal, Finish, Goto
    <3>3. QED BY <3>1, <3>2
  <2>3. QED BY <1>1, <2>1, <2>2
<1>5. CASE Seal \/ UNCHANGED vars
  BY <1>5 DEF Seal, vars, ServerBusy, At
<1>6. QED BY <1>2, <1>3, <1>4, <1>5 DEF Next

\* As long as nothing was saved nothing was sealed.
Unsealed ==
  file = NoFile =>
    /\ sealed = {}
    /\ \A p \in Processes :
         At(p, "down") \/ (At(p, "open") /\ job[p].op = "load")

\* One key is in use: what is sealed, the processes, the Saves and the file
\* all have it, where the file is complete.
Uses(k) ==
  /\ sealed \subseteq {k}
  /\ \A p \in Processes : ~At(p, "down") => mem[p].key = k
  /\ \A w \in Writers : At(w, "open") \/ At(w, "write") => job[w].buf.key = k
  /\ file # NoFile => k # NoKey
  /\ file # NoFile /\ ~cut /\ ~Saving => Parsed /\ file.key = k
  /\ Unsealed

ReadInv ==
  /\ ServerBusy
  /\ ~torn => \E k \in Keys \cup {NoKey} : Uses(k)

LEMMA SaveUses ==
  ASSUME TypeOK, HasKey, ServerBusy, NEW k \in Keys \cup {NoKey}, Uses(k),
         NEW w \in Writers, Save(w)
  PROVE  Uses(k)'
<1>1. /\ At(w, "open") \/ At(w, "write")
      /\ job[w].buf.key = k /\ job[w].buf \in Config
  <2>1. At(w, "open") \/ At(w, "write")
    BY DEF Save, Truncate, Write, OpenFails, WriteFails
  <2>2. QED BY <2>1, JobParts DEF Uses, TypeOK
<1>2. k # NoKey
  <2>1. CASE w \in Processes
    BY <1>1, <2>1, ConfigAssumption DEF HasKey, Uses, At
  <2>2. CASE w \in Requests
    <3>1. At(Server, "up")
      BY <1>1, <2>2 DEF ServerBusy, At
    <3>2. QED BY <3>1, ConfigAssumption DEF HasKey, Uses, At
  <2>3. QED BY <2>1, <2>2
<1>3. /\ sealed' = sealed /\ mem' = mem
      /\ sealed' \subseteq {k}
      /\ \A v \in Writers : v # w => pc'[v] = pc[v] /\ job'[v] = job[v]
      /\ job'[w] = job[w] \/ ~(At(w, "open") \/ At(w, "write"))'
      /\ ~At(w, "down")
  <2>1. CASE Truncate(w)
    BY <2>1 DEF Truncate, Goto, TypeOK, At, Uses
  <2>2. CASE Write(w)
    BY <2>2 DEF Write, Finish, Goto, TypeOK, At, Uses
  <2>3. CASE OpenFails(w)
    BY <2>3 DEF OpenFails, Finish, Goto, TypeOK, At, Uses, history
  <2>4. CASE WriteFails(w)
    BY <2>4 DEF WriteFails, Finish, Goto, TypeOK, At, Uses
  <2>5. QED BY <2>1, <2>2, <2>3, <2>4 DEF Save
<1>4. \A p \in Processes : ~At(p, "down")' => mem'[p].key = k
  BY <1>3 DEF Uses, At
<1>5. \A v \in Writers :
        (At(v, "open") \/ At(v, "write"))' => job'[v].buf.key = k
  BY <1>1, <1>3 DEF Uses, At
<1>6. file' = file \/ file' \in Config \cup {Garbled}
  <2>1. CASE Truncate(w)
    BY <2>1, EmptyType DEF Truncate
  <2>2. CASE Write(w)
    BY <1>1, <2>2 DEF Write
  <2>3. CASE OpenFails(w)
    BY <2>3 DEF OpenFails
  <2>4. CASE WriteFails(w)
    BY <1>1, <2>4, CutType DEF WriteFails
  <2>5. QED BY <2>1, <2>2, <2>3, <2>4 DEF Save
<1>7. file' # NoFile /\ ~cut' /\ ~Saving' => Parsed' /\ file'.key = k
  <2>1. CASE Truncate(w)
    BY <2>1 DEF Truncate, Saving, Goto, At, TypeOK
  <2>2. CASE Write(w)
    <3>1. ~cut' => file' = job[w].buf /\ file' # Garbled
      BY <2>2 DEF Write
    <3>2. QED BY <1>1, <3>1 DEF Parsed
  <2>3. CASE OpenFails(w)
    <3>1. file' = file /\ cut' = cut /\ At(w, "open")
      BY <2>3 DEF OpenFails, history
    <3>2. Saving => Saving'
      BY <1>3, <3>1 DEF Saving, At
    <3>3. QED BY <3>1, <3>2 DEF Uses, Parsed
  <2>4. CASE WriteFails(w)
    BY <2>4 DEF WriteFails
  <2>5. QED BY <2>1, <2>2, <2>3, <2>4 DEF Save
<1>8. Unsealed'
  <2>1. ASSUME file' = NoFile
        PROVE  sealed' = {} /\ \A p \in Processes :
                 (At(p, "down") \/ (At(p, "open") /\ job[p].op = "load"))'
    <3>1. file = NoFile
      BY <1>6, <2>1, FileAssumption
    <3>2. sealed = {} /\ \A p \in Processes :
            At(p, "down") \/ (At(p, "open") /\ job[p].op = "load")
      BY <3>1 DEF Uses, Unsealed
    <3>3. w \in Processes
      BY <1>1, <3>2 DEF ServerBusy, At
    <3>4. At(w, "open") /\ job[w].op = "load"
      BY <1>3, <3>2, <3>3
    <3>5. OpenFails(w)
      BY <1>1, <2>1, <3>4, EmptyType, FileAssumption
      DEF Save, Truncate, Write, WriteFails, At
    <3>6. pc' = [pc EXCEPT ![w] = "down"]
      BY <3>4, <3>5 DEF OpenFails, Finish, Goto
    <3>7. QED BY <1>3, <3>2, <3>6 DEF At, TypeOK
  <2>2. QED BY <2>1 DEF Unsealed
<1>9. QED BY <1>2, <1>3, <1>4, <1>5, <1>7, <1>8 DEF Uses

\* A new key is chosen only before any other process runs.
LEMMA NewKeyUses ==
  ASSUME TypeOK, ServerBusy, Unsealed, NEW p \in Processes, NEW c \in Config,
         file = NoFile, ~Incomplete, UNCHANGED <<file, sealed>>,
         WithNewKey(p, c)
  PROVE  \E k \in Keys \cup {NoKey} : Uses(k)'
<1>1. PICK k \in Keys \ made :
        LET d == [c EXCEPT !.key = k]
        IN /\ mem' = [mem EXCEPT ![p] = d]
           /\ job' = [job EXCEPT ![p].op = "load", ![p].buf = d]
           /\ Goto(p, "open")
  BY Zenon DEF WithNewKey
<1> DEFINE d == [c EXCEPT !.key = k]
<1>2. d \in Config /\ d.key = k
  BY ReplacedKey DEF Config
<1> HIDE DEF d
<1>3. /\ sealed = {}
      /\ \A q \in Processes : At(q, "down")
      /\ \A r \in Requests : At(r, "idle")
  <2>1. sealed = {} /\ \A q \in Processes : At(q, "down") \/ At(q, "open")
    BY DEF Unsealed
  <2>2. \A q \in Processes : At(q, "down")
    BY <2>1 DEF Incomplete, At
  <2>3. QED BY <2>1, <2>2 DEF ServerBusy, At
<1>4. /\ job[p] \in Job
      /\ [job[p] EXCEPT !.op = "load", !.buf = d].buf = d
      /\ [job[p] EXCEPT !.op = "load", !.buf = d].op = "load"
  BY DEF TypeOK, Job
<1>5. job' = [job EXCEPT ![p] = [job[p] EXCEPT !.op = "load", !.buf = d]]
  BY <1>1 DEF TypeOK, d
<1>6. job'[p].buf = d /\ job'[p].op = "load" /\ mem'[p] = d
  BY <1>1, <1>4, <1>5 DEF TypeOK, d
<1>7. \A v \in Writers : v # p => pc'[v] = pc[v]
  BY <1>1 DEF Goto, TypeOK
<1>8. pc'[p] = "open"
  BY <1>1 DEF Goto, TypeOK
<1>9. \A q \in Processes : ~At(q, "down")' => mem'[q].key = k
  BY <1>2, <1>3, <1>6, <1>7 DEF At
<1>10. \A v \in Writers :
         (At(v, "open") \/ At(v, "write"))' => job'[v].buf.key = k
  BY <1>2, <1>3, <1>6, <1>7 DEF At
<1>11. Unsealed'
  BY <1>3, <1>6, <1>7, <1>8 DEF Unsealed, At
<1>12. Uses(k)'
  BY <1>3, <1>9, <1>10, <1>11 DEF Uses
<1>13. QED BY <1>12

LEMMA BootUses ==
  ASSUME TypeOK, HasKey, ServerBusy, NEW k \in Keys \cup {NoKey}, Uses(k),
         NEW p \in Processes, Boot(p), ~torn'
  PROVE  \E l \in Keys \cup {NoKey} : Uses(l)'
<1>1. ASSUME NEW c \in Config, NEW x, file # NoFile, UNCHANGED <<file, cut>>,
             sealed' = sealed, c.key = k,
             mem' = [mem EXCEPT ![p] = c], pc' = [pc EXCEPT ![p] = x],
             x # "write", ~At(p, "write"), x = "open" => job'[p].buf = c,
             \A v \in Writers : v # p => job'[v] = job[v]
      PROVE  Uses(k)'
  <2>1. Saving' <=> Saving
    BY <1>1 DEF Saving, At, TypeOK
  <2>2. \A q \in Processes : ~At(q, "down")' => mem'[q].key = k
    BY <1>1 DEF Uses, At, TypeOK
  <2>3. \A v \in Writers :
          (At(v, "open") \/ At(v, "write"))' => job'[v].buf.key = k
    BY <1>1 DEF Uses, At, TypeOK
  <2>4. QED BY <1>1, <2>1, <2>2, <2>3 DEF Uses, Unsealed, Parsed
<1>2. ~torn /\ (~At(p, "down") \/ ~Incomplete)
  BY DEF Boot, LoadWithoutKey, LoadFile, Override, Exit, Loads, history,
         TypeOK, At
<1>3. ASSUME Parsed, ~Incomplete
      PROVE  file # NoFile /\ file \in Config /\ file.key = k /\ k # NoKey
  BY <1>3 DEF Uses, Parsed, Saving, Incomplete, At, TypeOK
<1>4. \A c \in Config : /\ [c EXCEPT !.port = Valid(@)] \in Config
                        /\ [c EXCEPT !.port = Valid(@)].key = c.key
  BY PortTypes DEF Config
<1>5. CASE LoadWithoutKey(p)
  <2>1. ~Incomplete
    BY <1>2, <1>5 DEF LoadWithoutKey
  <2>2. file = NoFile /\ WithNewKey(p, Empty)
    BY <1>3, <1>5, <2>1 DEF LoadWithoutKey
  <2>3. QED
    BY <1>5, <2>1, <2>2, NewKeyUses, EmptyType DEF LoadWithoutKey, Uses
<1>6. CASE LoadFile(p)
  <2>1. ~Incomplete /\ At(p, "down")
    BY <1>2, <1>6 DEF LoadFile
  <2> DEFINE c == [file EXCEPT !.port = Valid(@)]
  <2>2. c \in Config /\ c.key = k /\ file # NoFile
    BY <1>3, <1>4, <1>6, <2>1 DEF LoadFile
  <2>3. /\ mem' = [mem EXCEPT ![p] = c] /\ pc' = [pc EXCEPT ![p] = "override"]
        /\ UNCHANGED <<file, cut, sealed, job>>
    BY <1>6 DEF LoadFile, Goto
  <2> HIDE DEF c
  <2>4. Uses(k)'
    BY <1>1, <2>1, <2>2, <2>3 DEF At
  <2>5. QED BY <2>4
<1>7. ASSUME NEW env \in Ports \cup {Unset}, Override(p, env)
      PROVE  Uses(k)'
  <2>1. At(p, "override") /\ mem[p] \in Config /\ job[p] \in Job
    BY <1>7 DEF Override, TypeOK
  <2>2. file # NoFile
    BY <2>1 DEF Uses, Unsealed, At
  <2>3. mem[p].key = k
    BY <2>1 DEF Uses, At
  <2> DEFINE port == Valid(IF env # Unset THEN env ELSE mem[p].port)
             c    == [mem[p] EXCEPT !.port = IF port = Unset THEN DefaultPort
                                             ELSE port]
  <2>4. c \in Config /\ c.key = k
    <3>1. mem[p].port \in Settings
      BY <2>1 DEF Config
    <3>2. (IF env # Unset THEN env ELSE mem[p].port) \in Settings \cup Ports
      BY <3>1
    <3>3. port \in Settings
      BY <3>2, PortTypes
    <3> HIDE DEF port
    <3>4. (IF port = Unset THEN DefaultPort ELSE port) \in Settings
      BY <3>3, PortTypes
    <3>5. QED BY <2>1, <2>3, <3>4 DEF Config
  <2>5. mem' = [mem EXCEPT ![p] = c] /\ UNCHANGED <<file, cut, sealed>>
    BY <1>7 DEF Override, history
  <2>6. \/ /\ job' = [job EXCEPT ![p] = [job[p] EXCEPT !.op = "port", !.buf = c]]
           /\ pc' = [pc EXCEPT ![p] = "open"]
        \/ job' = job /\ pc' = [pc EXCEPT ![p] = "up"]
    <3>1. \/ /\ job' = [job EXCEPT ![p].op = "port", ![p].buf = c]
             /\ pc' = [pc EXCEPT ![p] = "open"]
          \/ job' = job /\ pc' = [pc EXCEPT ![p] = "up"]
      <4>1. CASE port = Unset
        BY <1>7, <4>1 DEF Override, Goto
      <4>2. CASE port # Unset
        BY <1>7, <4>2 DEF Override, Goto
      <4>3. QED BY <4>1, <4>2
    <3> HIDE DEF c
    <3>2. QED BY <3>1 DEF TypeOK
  <2> HIDE DEF c
  <2>7. [job[p] EXCEPT !.op = "port", !.buf = c].buf = c
    BY <2>1 DEF Job
  <2>8. CASE job' = job /\ pc' = [pc EXCEPT ![p] = "up"]
    BY <1>1, <2>1, <2>2, <2>4, <2>5, <2>8 DEF At
  <2>9. CASE /\ job' = [job EXCEPT ![p] = [job[p] EXCEPT !.op = "port", !.buf = c]]
             /\ pc' = [pc EXCEPT ![p] = "open"]
    <3>1. job'[p].buf = c /\ \A v \in Writers : v # p => job'[v] = job[v]
      BY <2>7, <2>9 DEF TypeOK
    <3>2. QED BY <1>1, <2>1, <2>2, <2>4, <2>5, <2>9, <3>1 DEF At
  <2>10. QED BY <2>6, <2>8, <2>9
<1>8. CASE Exit(p)
  <2>1. /\ mem' = [mem EXCEPT ![p] = Empty]
        /\ pc' = [w \in Writers |-> IF w \notin Threads(p) THEN pc[w]
                                    ELSE IF w = p THEN "down" ELSE "idle"]
        /\ job' = [w \in Writers |-> IF w \in Threads(p) THEN NoJob
                                     ELSE job[w]]
        /\ sealed' = sealed
        /\ p \in Threads(p) /\ Threads(p) \cap Processes = {p}
    BY <1>8 DEF Exit, Threads
  <2>2. \/ UNCHANGED <<file, cut>> /\ \A w \in Threads(p) : ~At(w, "write")
        \/ /\ cut' = TRUE /\ file # NoFile
           /\ file' \in Config \cup {Garbled}
    <3>1. ASSUME NEW w \in Writers, At(w, "write"), file' \in Cut(job[w].buf)
          PROVE  file # NoFile /\ file' \in Config \cup {Garbled}
      <4>1. file' \in Config \cup {Garbled}
        BY <3>1, CutType, JobParts DEF TypeOK
      <4>2. file # NoFile
        BY <3>1 DEF ServerBusy, Uses, Unsealed, At
      <4>3. QED BY <4>1, <4>2
    <3>2. QED BY <1>8, <3>1 DEF Exit, Threads
  <2>3. /\ file' = NoFile <=> file = NoFile
        /\ file' # NoFile /\ ~cut' /\ ~Saving' => Parsed' /\ file'.key = k
    <3>1. CASE UNCHANGED <<file, cut>> /\ \A w \in Threads(p) : ~At(w, "write")
      <4>1. Saving => Saving'
        BY <2>1, <3>1 DEF Saving, At
      <4>2. QED BY <3>1, <4>1 DEF Uses, Parsed
    <3>2. CASE /\ cut' = TRUE /\ file # NoFile
               /\ file' \in Config \cup {Garbled}
      BY <3>2, FileAssumption
    <3>3. QED BY <2>2, <3>1, <3>2
  <2>4. \A q \in Processes : ~At(q, "down")' => mem'[q].key = k
    BY <2>1 DEF Uses, At, TypeOK
  <2>5. \A v \in Writers :
          (At(v, "open") \/ At(v, "write"))' => job'[v].buf.key = k
    BY <2>1 DEF Uses, At, TypeOK
  <2>6. Unsealed'
    BY <2>1, <2>3 DEF Uses, Unsealed, At
  <2>7. Uses(k)'
    BY <2>1, <2>3, <2>4, <2>5, <2>6 DEF Uses
  <2>8. QED BY <2>7
<1>9. QED BY <1>5, <1>6, <1>7, <1>8 DEF Boot

LEMMA RequestUses ==
  ASSUME TypeOK, ServerBusy, NEW k \in Keys \cup {NoKey}, Uses(k),
         NEW r \in Requests,
         \/ ProviderRequest(r) \/ Apply(r) \/ Panic(r)
         \/ Encrypt(r) \/ Marshal(r)
  PROVE  Uses(k)'
<1>1. PICK x, j : /\ pc' = [pc EXCEPT ![r] = x] /\ x # "write"
                  /\ job' = [job EXCEPT ![r] = j]
  BY RequestStep, Zenon
<1>2. /\ UNCHANGED <<file, sealed, cut>> /\ ~At(r, "write")
      /\ At(r, "open")' => At(r, "marshal") /\ job'[r].buf = Shared
  BY RequestStep
<1>3. \A p \in Processes : mem'[p].key = mem[p].key
  <2>1. mem[Server] \in Config /\ mem \in [Processes -> Config]
    BY DEF TypeOK
  <2>2. \A a : [mem[Server] EXCEPT !.auth = a].key = mem[Server].key
    BY <2>1 DEF Config
  <2>3. CASE mem' = mem
    BY <2>3
  <2>4. ASSUME NEW a, mem' = [mem EXCEPT ![Server] =
                                [mem[Server] EXCEPT !.auth = a]]
        PROVE  \A p \in Processes : mem'[p].key = mem[p].key
    BY <2>1, <2>2, <2>4
  <2>5. QED BY <2>3, <2>4, RequestStep
<1>4. /\ \A p \in Processes : pc'[p] = pc[p] /\ job'[p] = job[p]
      /\ \A v \in Writers : v # r => pc'[v] = pc[v] /\ job'[v] = job[v]
      /\ pc'[r] = x
  BY <1>1 DEF TypeOK
<1>5. Saving' <=> Saving
  BY <1>1, <1>2, <1>4 DEF Saving, At
<1>6. \A v \in Writers :
        (At(v, "open") \/ At(v, "write"))' => job'[v].buf.key = k
  <2>1. At(r, "open")' => job'[r].buf.key = k
    <3>1. At(r, "marshal") => At(Server, "up")
      BY DEF ServerBusy, At
    <3>2. QED BY <1>2, <3>1 DEF Shared, Uses, At
  <2>2. QED BY <1>1, <1>4, <2>1 DEF Uses, At
<1>7. QED BY <1>2, <1>3, <1>4, <1>5, <1>6 DEF Uses, Unsealed, Parsed, At

LEMMA ReadInvNext == TypeOK /\ HasKey /\ ReadInv /\ [Next]_vars => ReadInv'
<1> SUFFICES ASSUME TypeOK, HasKey, ReadInv, [Next]_vars
             PROVE  ReadInv'
  OBVIOUS
<1>1. ServerBusy'
  BY ServerBusyNext DEF ReadInv
<1>2. ASSUME ~torn'
      PROVE  \E k \in Keys \cup {NoKey} : Uses(k)'
  <2>1. ~torn
    BY <1>2, TornStays
  <2>2. PICK k \in Keys \cup {NoKey} : Uses(k)
    BY <2>1 DEF ReadInv
  <2>3. CASE Seal
    <3>1. mem[Server].key = k /\ At(Server, "up")
      BY <2>2, <2>3 DEF Seal, Uses, At
    <3>2. Uses(k)'
      BY <2>2, <2>3, <3>1
      DEF Seal, Uses, Unsealed, Saving, Parsed, At, history
    <3>3. QED BY <3>2
  <2>4. CASE UNCHANGED vars
    <3>1. Uses(k)'
      BY <2>2, <2>4 DEF vars, history, Uses, Unsealed, Saving, Parsed, At
    <3>2. QED BY <3>1
  <2>5. QED
    BY <1>2, <2>2, <2>3, <2>4, BootUses, SaveUses, RequestUses
    DEF Next, ReadInv
<1>3. QED BY <1>1, <1>2 DEF ReadInv

LEMMA InitReadInv == Init => ReadInv
<1> SUFFICES ASSUME Init
             PROVE  ReadInv
  OBVIOUS
<1>1. /\ \A p \in Processes : At(p, "down")
      /\ \A r \in Requests : At(r, "idle")
      /\ ~Saving
  BY DEF Init, At, Saving
<1>2. Found.key \in Keys \cup {NoKey} /\ sealed = {Found.key} \ {NoKey}
  BY FoundType, Parts DEF Init
<1>3. CASE file = NoFile
  <2>1. sealed = {}
    BY <1>2, <1>3 DEF Found, Empty
  <2>2. Uses(NoKey)
    BY <1>1, <1>3, <2>1 DEF Uses, Unsealed, At
  <2>3. QED BY <1>1, <2>2 DEF ReadInv, ServerBusy
<1>4. CASE file # NoFile
  <2>1. file \in Config /\ file.key \in Keys /\ Found = file
    BY <1>4, InstalledAssumption DEF Init, Settled, Found
  <2>2. file # Garbled /\ file.key # NoKey
    BY <2>1, FileAssumption
  <2>3. Uses(file.key)
    BY <1>1, <1>2, <1>4, <2>1, <2>2 DEF Uses, Unsealed, Parsed, At
  <2>4. QED BY <1>1, <2>1, <2>3 DEF ReadInv, ServerBusy
<1>5. QED BY <1>3, <1>4

\* What the services encrypt can be decrypted by the server, now and after
\* any restart, whoever else loads or saves the configuration and whichever
\* Save fails, as long as nobody loads server.yml while it is incomplete:
\* until then one key is in use, and it is chosen before anything is sealed.
THEOREM SealedStaysReadable == Spec => []SealedReadable
<1>1. Init => TypeOK /\ HasKey /\ ReadInv
  BY InitTypes, InitHasKey, InitReadInv
<1>2. TypeOK /\ HasKey /\ ReadInv /\ [Next]_vars
        => TypeOK' /\ HasKey' /\ ReadInv'
  BY TypeNext, HasKeyNext, ReadInvNext
<1>3. ReadInv => SealedReadable
  BY DEF ReadInv, Uses, SealedReadable, At
<1>4. QED BY <1>1, <1>2, <1>3, PTL DEF Spec

-----------------------------------------------------------------------------
(* Edits that come one at a time *)

Working(w) == pc[w] \notin {"down", "up", "idle"}

\* At most one process or request is at work on the configuration.
Alone == \A v, w \in Writers : Working(v) /\ Working(w) => v = w

AloneInv == ServerBusy /\ (~overlap => Alone)

\* A step of one that begins when nobody works, or is at work already.
LEMMA AloneStep ==
  ASSUME Alone, NEW w \in Writers,
         Working(w) \/ ~Busy,
         \A v \in Writers : v # w => pc'[v] = pc[v]
  PROVE  Alone'
BY DEF Alone, Working, Busy

LEMMA AloneNext == TypeOK /\ AloneInv /\ [Next]_vars => AloneInv'
<1> SUFFICES ASSUME TypeOK, AloneInv, [Next]_vars
             PROVE  AloneInv'
  OBVIOUS
<1>1. ServerBusy'
  BY ServerBusyNext DEF AloneInv
<1>2. ASSUME NEW w \in Writers, Save(w), ~overlap'
      PROVE  Alone'
  <2>1. ~overlap /\ Working(w)
    BY <1>2, SaveStep DEF At, Working
  <2>2. QED BY <1>2, <2>1, SaveStep, AloneStep DEF AloneInv
<1>3. ASSUME NEW p \in Processes, Boot(p), ~overlap'
      PROVE  Alone'
  <2>1. CASE Exit(p)
    <3>1. ~overlap
      BY <1>3, <2>1 DEF Exit
    <3>2. \A w \in Writers : Working(w)' => Working(w)
      BY <2>1, ExitStep DEF Working
    <3>3. QED BY <3>1, <3>2 DEF AloneInv, Alone
  <2>2. CASE ~Exit(p)
    <3>1. ~overlap /\ (Working(p) \/ ~Busy)
      <4>1. \/ At(p, "down") /\ Loads
            \/ At(p, "override") /\ overlap' = overlap
        BY <2>2, <1>3, BootStep
      <4>2. CASE At(p, "down") /\ Loads
        BY <1>3, <4>2 DEF Loads, TypeOK
      <4>3. CASE At(p, "override") /\ overlap' = overlap
        BY <1>3, <4>3 DEF At, Working
      <4>4. QED BY <4>1, <4>2, <4>3
    <3>2. \A w \in Writers : w # p => pc'[w] = pc[w]
      <4>1. \E x : pc' = [pc EXCEPT ![p] = x]
        BY <1>3, <2>2, BootStep, Zenon
      <4>2. QED BY <4>1 DEF TypeOK
    <3>3. QED BY <3>1, <3>2, AloneStep DEF AloneInv
  <2>3. QED BY <2>1, <2>2
<1>4. ASSUME NEW r \in Requests,
             \/ ProviderRequest(r) \/ Apply(r) \/ Panic(r)
             \/ Encrypt(r) \/ Marshal(r),
             ~overlap'
      PROVE  Alone'
  <2>1. ~overlap /\ (Working(r) \/ ~Busy)
    <3>1. CASE ProviderRequest(r)
      <4>1. overlap' = (overlap \/ Busy)
        BY <3>1, Zenon
        DEF ProviderRequest, Create, Update, Delete, Toggle, Accept
      <4>2. QED BY <1>4, <4>1 DEF TypeOK
    <3>2. CASE ~ProviderRequest(r)
      <4>1. UNCHANGED overlap
        BY <1>4, <3>2 DEF Apply, Panic, Encrypt, Marshal, history
      <4>2. Working(r)
        BY <1>4, <3>2 DEF Apply, Panic, Encrypt, Marshal, At, Working
      <4>3. QED BY <1>4, <4>1, <4>2
    <3>3. QED BY <3>1, <3>2
  <2>2. \A w \in Writers : w # r => pc'[w] = pc[w]
    BY <1>4, RequestStep DEF TypeOK
  <2>3. QED BY <2>1, <2>2, AloneStep DEF AloneInv
<1>5. CASE Seal \/ UNCHANGED vars
  BY <1>1, <1>5 DEF Seal, vars, history, AloneInv, Alone, Working
<1>6. QED BY <1>1, <1>2, <1>3, <1>4, <1>5 DEF Next, AloneInv

LEMMA InitAlone == Init => AloneInv
BY DEF Init, AloneInv, ServerBusy, Alone, Working, At

-----------------------------------------------------------------------------
(* No secret in the clear *)

Safe(c) ==
  \A t \in Sections : \A i \in DOMAIN c.auth[t] : ~Plain(c.auth[t][i].secret)

LEMMA EmptySafe == Safe(Empty) /\ Safe(NoJob.buf)
BY DEF Safe, Empty, NoJob

LEMMA CutSafe ==
  ASSUME NEW c \in Config, Safe(c), NEW d \in Cut(c), d # Garbled
  PROVE  Safe(d)
BY CutParts DEF Safe

\* Whatever was there: once EncryptSecrets has run, nothing is in the clear.
LEMMA EncryptedSafe ==
  ASSUME NEW c \in Config, c.key \in Keys
  PROVE  Safe([c EXCEPT !.auth = EncryptSecrets(@, c.key)])
<1> DEFINE d == [c EXCEPT !.auth = EncryptSecrets(@, c.key)]
<1>1. d.auth = EncryptSecrets(c.auth, c.key)
  BY DEF Config
<1>2. ASSUME NEW t \in Sections, NEW i \in DOMAIN c.auth[t]
      PROVE  ~Plain(EncryptSecrets(c.auth, c.key)[t][i].secret)
  <2>1. c.auth[t][i] \in Provider /\ c.auth[t][i].secret \in Secret
    <3>1. c.auth[t] \in Seq(Provider)
      BY Parts
    <3>2. \A q \in Provider : q.secret \in Secret
      BY DEF Provider
    <3>3. QED BY <3>1, <3>2
  <2>2. EncryptSecrets(c.auth, c.key)[t][i].secret
          = Encrypted(c.auth[t][i].secret, c.key)
    <3>1. \A q \in Provider :
            [q EXCEPT !.secret = Encrypted(@, c.key)].secret
              = Encrypted(q.secret, c.key)
      BY DEF Provider
    <3>2. EncryptSecrets(c.auth, c.key)[t][i]
            = [c.auth[t][i] EXCEPT !.secret = Encrypted(@, c.key)]
      BY DEF EncryptSecrets
    <3>3. QED BY <2>1, <3>1, <3>2
  <2>3. \A x \in Secret : ~Plain(Encrypted(x, c.key))
    BY ConfigAssumption DEF Plain, Encrypted, Secret
  <2>4. QED BY <2>1, <2>2, <2>3
<1>3. \A t \in Sections : DOMAIN EncryptSecrets(c.auth, c.key)[t] = DOMAIN c.auth[t]
  BY DEF EncryptSecrets
<1>4. QED BY <1>1, <1>2, <1>3 DEF Safe

\* Only between Apply and Encrypt is a new secret in the memory of the server
\* in the clear, and it is never in a Save.
RestInv ==
  ~overlap =>
    /\ Parsed => Safe(file)
    /\ \A w \in Writers : Safe(job[w].buf)
    /\ \A p \in Processes :
         Safe(mem[p]) \/ (p = Server /\ \E r \in Requests : At(r, "encrypt"))

\* When nobody else works, nothing is in the clear.
LEMMA SafeAlone ==
  ASSUME Alone, RestInv, ~overlap, NEW w \in Writers,
         Working(w) \/ ~Busy, ~At(w, "encrypt"), NEW p \in Processes
  PROVE  Safe(mem[p])
BY DEF Alone, RestInv, Working, Busy, At

LEMMA SaveRest ==
  ASSUME TypeOK, Alone, RestInv, ~overlap, NEW w \in Writers, Save(w)
  PROVE  RestInv'
<1>1. job[w].buf \in Config /\ Safe(job[w].buf)
  BY JobParts DEF TypeOK, RestInv
<1>2. Parsed' => Safe(file')
  <2>1. CASE file' \in {file, Empty, job[w].buf, Garbled}
    BY <1>1, <2>1, EmptySafe DEF RestInv, Parsed
  <2>2. CASE file' \in Cut(job[w].buf)
    BY <1>1, <2>2, CutSafe DEF Parsed
  <2>3. QED BY <2>1, <2>2, SaveStep
<1>3. \A v \in Writers : Safe(job'[v].buf)
  BY SaveStep, EmptySafe DEF RestInv
<1>4. \A p \in Processes : Safe(mem'[p])
  <2>1. Working(w) /\ ~At(w, "encrypt") /\ mem' = mem
    BY SaveStep DEF Working, At
  <2>2. QED BY <2>1, SafeAlone
<1>5. QED BY <1>2, <1>3, <1>4 DEF RestInv

LEMMA BootRest ==
  ASSUME TypeOK, Alone, RestInv, ~overlap, NEW p \in Processes, Boot(p),
         ~overlap'
  PROVE  RestInv'
<1>1. CASE Exit(p)
  <2>1. Parsed' => Safe(file')
    <3>1. CASE file' = file
      BY <3>1 DEF RestInv, Parsed
    <3>2. ASSUME NEW w \in Writers, file' \in Cut(job[w].buf)
          PROVE  Parsed' => Safe(file')
      <4>1. job[w].buf \in Config /\ Safe(job[w].buf)
        BY JobParts DEF TypeOK, RestInv
      <4>2. QED BY <3>2, <4>1, CutSafe DEF Parsed
    <3>3. QED BY <1>1, <3>1, <3>2, ExitStep
  <2>2. \A v \in Writers : Safe(job'[v].buf)
    BY <1>1, ExitStep, EmptySafe DEF RestInv
  <2>3. ASSUME NEW q \in Processes, ~Safe(mem'[q])
        PROVE  q = Server /\ \E r \in Requests : At(r, "encrypt")'
    <3>1. mem'[q] = mem[q] /\ q # p
      BY <1>1, <2>3, ExitStep, EmptySafe DEF TypeOK
    <3>2. q = Server /\ \E r \in Requests : At(r, "encrypt")
      BY <2>3, <3>1 DEF RestInv
    <3>3. Threads(p) = {p}
      BY <1>1, <3>1, <3>2, ExitStep
    <3>4. \A r \in Requests : pc'[r] = pc[r]
      BY <1>1, <3>3, ExitStep
    <3>5. QED BY <3>2, <3>4 DEF At
  <2>4. QED BY <2>1, <2>2, <2>3 DEF RestInv
<1>2. CASE ~Exit(p)
  <2>1. PICK c \in Config :
          /\ mem' = [mem EXCEPT ![p] = c]
          /\ \/ At(p, "down") /\ Loads /\ c.auth = Found.auth
                /\ file \in Config \cup {NoFile}
             \/ At(p, "override") /\ c.auth = mem[p].auth
          /\ \/ job' = job
             \/ \E o \in {"load", "port"} :
                  job' = [job EXCEPT ![p] = [job[p] EXCEPT !.op = o, !.buf = c]]
    BY <1>2, BootStep, Zenon
  <2>2. Working(p) \/ ~Busy
    BY <2>1 DEF Loads, At, Working, TypeOK
  <2>3. ~At(p, "encrypt")
    BY <2>1 DEF At
  <2>4. \A q \in Processes : Safe(mem[q])
    BY <2>2, <2>3, SafeAlone
  <2>5. Safe(c)
    <3>1. CASE At(p, "override") /\ c.auth = mem[p].auth
      BY <2>4, <3>1 DEF Safe
    <3>2. CASE c.auth = Found.auth /\ file \in Config \cup {NoFile}
      <4>1. Safe(Found)
        <5>1. CASE file = NoFile
          BY <5>1, EmptySafe DEF Found
        <5>2. CASE file # NoFile
          BY <3>2, <5>2, FileAssumption DEF Found, RestInv, Parsed
        <5>3. QED BY <5>1, <5>2
      <4>2. QED BY <3>2, <4>1 DEF Safe
    <3>3. QED BY <2>1, <3>1, <3>2
  <2>6. \A q \in Processes : Safe(mem'[q])
    BY <2>1, <2>4, <2>5 DEF TypeOK
  <2>7. \A v \in Writers : Safe(job'[v].buf)
    <3>1. CASE job' = job
      BY <3>1 DEF RestInv
    <3>2. ASSUME NEW o, job' = [job EXCEPT ![p] = [job[p] EXCEPT
                                              !.op = o, !.buf = c]]
          PROVE  \A v \in Writers : Safe(job'[v].buf)
      <4>1. [job[p] EXCEPT !.op = o, !.buf = c].buf = c
        BY DEF TypeOK, Job
      <4>2. QED BY <2>5, <3>2, <4>1 DEF TypeOK, RestInv
    <3>3. QED BY <2>1, <3>1, <3>2
  <2>8. file' = file
    BY <1>2, BootStep
  <2>9. QED BY <2>6, <2>7, <2>8 DEF RestInv, Parsed
<1>3. QED BY <1>1, <1>2

LEMMA RequestRest ==
  ASSUME TypeOK, HasKey, ServerBusy, Alone, RestInv, ~overlap,
         NEW r \in Requests,
         \/ ProviderRequest(r) \/ Apply(r) \/ Panic(r)
         \/ Encrypt(r) \/ Marshal(r),
         ~overlap'
  PROVE  RestInv'
<1>1. file' = file /\ (Parsed' => Safe(file'))
  BY RequestStep DEF RestInv, Parsed
<1>2. ASSUME mem' = mem, Working(r) \/ ~Busy, ~At(r, "encrypt"),
             \A v \in Writers : job'[v].buf \in {job[v].buf, Shared, NoJob.buf}
      PROVE  RestInv'
  <2>1. \A p \in Processes : Safe(mem[p])
    BY <1>2, SafeAlone
  <2>2. \A v \in Writers : Safe(job'[v].buf)
    BY <1>2, <2>1, EmptySafe DEF RestInv, Shared
  <2>3. QED BY <1>1, <1>2, <2>1, <2>2 DEF RestInv
<1>3. CASE ProviderRequest(r)
  <2>1. PICK op, t, orig, n, s : Accept(r, op, t, orig, n, s)
    BY <1>3, Zenon DEF ProviderRequest, Create, Update, Delete, Toggle
  <2>2. mem' = mem /\ At(r, "idle")
    BY <2>1 DEF Accept
  <2>3. overlap' = (overlap \/ Busy)
    BY <2>1, Zenon DEF Accept
  <2>4. ~Busy
    BY <2>3 DEF TypeOK
  <2>5. \A v \in Writers : job'[v].buf \in {job[v].buf, Shared, NoJob.buf}
    <3> DEFINE q == [name |-> n, secret |-> [text |-> s, under |-> NoKey]]
               j == [NoJob EXCEPT !.op = op, !.section = t, !.orig = orig,
                       !.provider = q, !.idx = Index(Shared, t, orig)]
    <3>1. job' = [job EXCEPT ![r] = j]
      BY <2>1 DEF Accept
    <3>2. j.buf = NoJob.buf
      BY DEF NoJob
    <3> HIDE DEF j
    <3>3. QED BY <3>1, <3>2 DEF TypeOK
  <2>6. QED BY <1>2, <2>2, <2>4, <2>5 DEF At
<1>4. CASE Apply(r)
  <2> DEFINE j == [job[r] EXCEPT !.want = Wanted(Shared, job[r])]
  <2>1. j.buf = job[r].buf
    BY DEF TypeOK, Job
  <2>2. job' = [job EXCEPT ![r] = j] /\ pc' = [pc EXCEPT ![r] = "encrypt"]
    BY <1>4 DEF Apply, Goto
  <2>3. \E a : mem' = [mem EXCEPT ![Server] = [Shared EXCEPT !.auth = a]]
    BY <1>4, Zenon DEF Apply
  <2>4. At(r, "apply")
    BY <1>4 DEF Apply
  <2> HIDE DEF j
  <2>5. \A v \in Writers : Safe(job'[v].buf)
    BY <2>1, <2>2 DEF TypeOK, RestInv
  <2>6. \A p \in Processes : p # Server => Safe(mem'[p])
    BY <2>3 DEF TypeOK, RestInv
  <2>7. At(r, "encrypt")'
    BY <2>2 DEF At, TypeOK
  <2>8. QED BY <1>1, <2>5, <2>6, <2>7 DEF RestInv
<1>5. CASE Panic(r)
  <2>1. /\ mem' = mem /\ At(r, "apply")
        /\ \A v \in Writers : job'[v].buf \in {job[v].buf, Shared, NoJob.buf}
    BY <1>5 DEF Panic, Finish, TypeOK
  <2>2. QED BY <1>2, <2>1 DEF At, Working
<1>6. CASE Encrypt(r)
  <2>1. /\ mem' = [mem EXCEPT ![Server] =
                     [Shared EXCEPT !.auth = EncryptSecrets(@, Shared.key)]]
        /\ job' = job /\ At(r, "encrypt")
    BY <1>6 DEF Encrypt, Shared
  <2>2. Shared \in Config /\ Shared.key \in Keys
    BY <2>1 DEF TypeOK, Shared, HasKey, ServerBusy, At
  <2>3. \A p \in Processes : Safe(mem'[p])
    BY <2>1, <2>2, EncryptedSafe DEF TypeOK, RestInv
  <2>4. QED BY <1>1, <2>1, <2>3 DEF RestInv
<1>7. CASE Marshal(r)
  <2>1. mem' = mem /\ At(r, "marshal")
        /\ job' = [job EXCEPT ![r] = [job[r] EXCEPT !.buf = Shared]]
    BY <1>7 DEF Marshal
  <2>2. [job[r] EXCEPT !.buf = Shared].buf = Shared
    BY DEF TypeOK, Job
  <2>3. \A v \in Writers : job'[v].buf \in {job[v].buf, Shared, NoJob.buf}
    BY <2>1, <2>2 DEF TypeOK
  <2>4. QED BY <1>2, <2>1, <2>3 DEF At, Working
<1>8. QED BY <1>3, <1>4, <1>5, <1>6, <1>7

LEMMA RestNext == TypeOK /\ HasKey /\ AloneInv /\ RestInv /\ [Next]_vars
                    => RestInv'
<1> SUFFICES ASSUME TypeOK, HasKey, AloneInv, RestInv, [Next]_vars, ~overlap'
             PROVE  RestInv'
  BY DEF RestInv
<1>1. ~overlap /\ Alone /\ ServerBusy
  BY OverlapStays DEF AloneInv
<1>2. CASE Seal
  BY <1>2 DEF Seal, history, RestInv, Parsed, At
<1>3. CASE UNCHANGED vars
  BY <1>3 DEF vars, history, RestInv, Parsed, At
<1>4. QED BY <1>1, <1>2, <1>3, SaveRest, BootRest, RequestRest DEF Next

LEMMA InitRest == Init => RestInv
<1> SUFFICES ASSUME Init
             PROVE  RestInv
  OBVIOUS
<1>1. ASSUME Parsed PROVE Safe(file)
  <2>1. Settled(file) /\ file.key # NoKey
    BY <1>1, InstalledAssumption, ConfigAssumption
    DEF Init, Parsed, Settled
  <2>2. ASSUME NEW t \in Sections, NEW i \in DOMAIN file.auth[t]
        PROVE  ~Plain(file.auth[t][i].secret)
    BY <2>1, <2>2 DEF Settled, Plain
  <2>3. QED BY <2>2 DEF Safe
<1>2. QED BY <1>1, EmptySafe DEF Init, RestInv

\* However a Save fails and whenever a process ends: as long as edits come
\* one at a time, no secret an administrator entered reaches server.yml in
\* the clear, though it is in the memory of the server before it is encrypted.
THEOREM SecretsEncryptedAtRest == Spec => []EncryptedAtRest
<1>1. Init => TypeOK /\ HasKey /\ AloneInv /\ RestInv
  BY InitTypes, InitHasKey, InitAlone, InitRest
<1>2. TypeOK /\ HasKey /\ AloneInv /\ RestInv /\ [Next]_vars
        => TypeOK' /\ HasKey' /\ AloneInv' /\ RestInv'
  BY TypeNext, HasKeyNext, AloneNext, RestNext
<1>3. RestInv => EncryptedAtRest
  <2>1. ASSUME NEW c, Safe(c) PROVE \A x \in SecretsOf(c) : ~Plain(x)
    BY <2>1 DEF Safe, SecretsOf
  <2>2. QED BY <2>1 DEF RestInv, EncryptedAtRest
<1>4. QED BY <1>1, <1>2, <1>3, PTL DEF Spec

-----------------------------------------------------------------------------
(* Names and positions *)

Unique(s) == \A i, j \in DOMAIN s : s[i].name = s[j].name => i = j

\* The position is that of a provider of the name, if there is one.
LEMMA IndexIn ==
  ASSUME NEW c \in Config, NEW t \in Sections, NEW n \in Names
  PROVE  IF \E i \in DOMAIN c.auth[t] : c.auth[t][i].name = n
         THEN /\ Index(c, t, n) \in DOMAIN c.auth[t] /\ Index(c, t, n) # 0
              /\ c.auth[t][Index(c, t, n)].name = n
         ELSE Index(c, t, n) = 0
<1> DEFINE I == {i \in DOMAIN c.auth[t] : c.auth[t][i].name = n}
<1>1. I \in SUBSET Nat /\ 0 \notin I
  BY Parts
<1>2. CASE I = {}
  BY <1>2 DEF Index
<1>3. CASE I # {}
  <2>1. \E i \in I : \A j \in I : i <= j
    BY <1>1, <1>3, Least
  <2>2. Index(c, t, n) \in I
    BY <2>1, <1>3 DEF Index
  <2>3. QED BY <1>1, <2>2
<1>4. QED BY <1>2, <1>3

LEMMA LookupAt ==
  ASSUME NEW c \in Config, NEW t \in Sections, NEW n \in Names,
         Unique(c.auth[t]), NEW i \in DOMAIN c.auth[t], c.auth[t][i].name = n
  PROVE  Lookup(c, t, n) = c.auth[t][i].secret.text
BY IndexIn DEF Unique, Lookup

LEMMA LookupNone ==
  ASSUME NEW c \in Config, NEW t \in Sections, NEW n \in Names,
         \A i \in DOMAIN c.auth[t] : c.auth[t][i].name # n
  PROVE  Lookup(c, t, n) = NoProvider
BY IndexIn DEF Lookup

\* Two sections in which a provider has the same secret.
LEMMA LookupSame ==
  ASSUME NEW c \in Config, NEW d \in Config, NEW t \in Sections,
         NEW n \in Names, Unique(c.auth[t]), Unique(d.auth[t]),
         \A i \in DOMAIN c.auth[t] : c.auth[t][i].name = n =>
           \E l \in DOMAIN d.auth[t] :
             /\ d.auth[t][l].name = n
             /\ d.auth[t][l].secret.text = c.auth[t][i].secret.text,
         \A l \in DOMAIN d.auth[t] : d.auth[t][l].name = n =>
           \E i \in DOMAIN c.auth[t] : c.auth[t][i].name = n
  PROVE  Lookup(d, t, n) = Lookup(c, t, n)
<1>1. CASE \E i \in DOMAIN c.auth[t] : c.auth[t][i].name = n
  <2>1. PICK i \in DOMAIN c.auth[t] : c.auth[t][i].name = n
    BY <1>1
  <2>2. PICK l \in DOMAIN d.auth[t] :
          /\ d.auth[t][l].name = n
          /\ d.auth[t][l].secret.text = c.auth[t][i].secret.text
    BY <2>1
  <2>3. Lookup(c, t, n) = c.auth[t][i].secret.text
    BY <2>1, LookupAt
  <2>4. Lookup(d, t, n) = d.auth[t][l].secret.text
    BY <2>2, LookupAt
  <2>5. QED BY <2>2, <2>3, <2>4
<1>2. CASE ~ \E i \in DOMAIN c.auth[t] : c.auth[t][i].name = n
  <2>1. Lookup(c, t, n) = NoProvider
    BY <1>2, LookupNone
  <2>2. Lookup(d, t, n) = NoProvider
    BY <1>2, LookupNone
  <2>3. QED BY <2>1, <2>2
<1>3. QED BY <1>1, <1>2

LEMMA LookupAuth ==
  ASSUME NEW c, NEW d, c.auth = d.auth, NEW t, NEW n
  PROVE  Lookup(c, t, n) = Lookup(d, t, n)
BY DEF Lookup, Index

\* What the checks of an edit establish about the section it is for.
Fits(s, j) ==
  /\ j.op \in {"create", "update", "delete", "toggle"}
  /\ j.op = "create" => /\ j.provider.name = j.orig
                        /\ \A i \in DOMAIN s : s[i].name # j.provider.name
  /\ j.op \in {"update", "delete"} =>
       j.idx \in DOMAIN s /\ s[j.idx].name = j.orig
  /\ j.op = "update" =>
       \A i \in DOMAIN s : i # j.idx => s[i].name # j.provider.name
  /\ j.op = "delete" => j.provider.name = j.orig

\* A section without its i-th provider.
LEMMA WithoutAt ==
  ASSUME NEW s \in Seq(Provider), NEW i \in DOMAIN s
  PROVE  /\ DOMAIN Without(s, i) = 1..(Len(s) - 1)
         /\ \A m \in 1..(Len(s) - 1) :
              Without(s, i)[m] = IF m < i THEN s[m] ELSE s[m + 1]
<1> DEFINE a == SubSeq(s, 1, i - 1)
           b == SubSeq(s, i + 1, Len(s))
<1>1. Len(s) \in Nat /\ i \in 1..Len(s) /\ DOMAIN s = 1..Len(s)
  BY LenProperties
<1>2. a \in Seq(Provider) /\ Len(a) = i - 1 /\ \A m \in 1..(i - 1) : a[m] = s[m]
  <2>1. \A m \in 1..(i - 1) : s[m] \in Provider
    BY <1>1
  <2>2. 1 \in Int /\ i - 1 \in Int
    BY <1>1
  <2>3. /\ SubSeq(s, 1, i - 1) \in Seq(Provider)
        /\ Len(SubSeq(s, 1, i - 1)) =
             IF 1 <= i - 1 THEN i - 1 - 1 + 1 ELSE 0
        /\ \A m \in 1..(i - 1 - 1 + 1) :
             SubSeq(s, 1, i - 1)[m] = s[1 + m - 1]
    BY <2>1, <2>2, SubSeqProperties
  <2>4. QED BY <1>1, <2>3
<1>3. /\ b \in Seq(Provider) /\ Len(b) = Len(s) - i
      /\ \A m \in 1..(Len(s) - i) : b[m] = s[i + m]
  <2>1. \A m \in (i + 1)..Len(s) : s[m] \in Provider
    BY <1>1
  <2>2. Len(s) \in Int /\ i + 1 \in Int
    BY <1>1
  <2>3. /\ SubSeq(s, i + 1, Len(s)) \in Seq(Provider)
        /\ Len(SubSeq(s, i + 1, Len(s))) =
             IF i + 1 <= Len(s) THEN Len(s) - (i + 1) + 1 ELSE 0
        /\ \A m \in 1..(Len(s) - (i + 1) + 1) :
             SubSeq(s, i + 1, Len(s))[m] = s[i + 1 + m - 1]
    BY <2>1, <2>2, SubSeqProperties
  <2> HIDE DEF b
  <2>4. b = SubSeq(s, i + 1, Len(s))
    BY DEF b
  <2>5. Len(b) = Len(s) - i
    BY ONLY <1>1, <2>3, <2>4
  <2>6. ASSUME NEW m \in 1..(Len(s) - i) PROVE b[m] = s[i + m]
    <3>1. m \in 1..(Len(s) - (i + 1) + 1) /\ i + 1 + m - 1 = i + m
      BY ONLY <1>1, m \in 1..(Len(s) - i)
    <3>2. QED BY ONLY <2>3, <2>4, <3>1
  <2>7. QED BY <2>3, <2>4, <2>5, <2>6
<1>4. Without(s, i) = a \o b
  BY DEF Without
<1> HIDE DEF a, b
<1>5. /\ DOMAIN (a \o b) = 1..(Len(a) + Len(b))
      /\ \A m \in 1..(Len(a) + Len(b)) :
           (a \o b)[m] = IF m <= Len(a) THEN a[m] ELSE b[m - Len(a)]
  BY <1>2, <1>3, ConcatProperties
<1>6. Len(a) + Len(b) = Len(s) - 1
  BY <1>1, <1>2, <1>3
<1>7. ASSUME NEW m \in 1..(Len(s) - 1)
      PROVE  (a \o b)[m] = IF m < i THEN s[m] ELSE s[m + 1]
  <2>1. CASE m < i
    <3>1. m <= Len(a) /\ m \in 1..(i - 1)
      BY <1>1, <1>2, <2>1
    <3>2. QED BY <1>2, <1>5, <1>6, <2>1, <3>1
  <2>2. CASE ~(m < i)
    <3>1. /\ ~(m <= Len(a)) /\ m - Len(a) \in 1..(Len(s) - i)
          /\ i + (m - Len(a)) = m + 1
      BY <1>1, <1>2, <2>2
    <3>2. (a \o b)[m] = b[m - Len(a)]
      BY <1>5, <1>6, <3>1
    <3>3. b[m - Len(a)] = s[m + 1]
      BY <1>3, <3>1
    <3>4. QED BY <2>2, <3>2, <3>3
  <2>3. QED BY <2>1, <2>2
<1>8. QED BY <1>4, <1>5, <1>6, <1>7

\* The providers of a section after an edit.
LEMMA CreatedAt ==
  ASSUME NEW s \in Seq(Provider), NEW j \in Job, j.op = "create"
  PROVE  /\ DOMAIN Edited(s, j) = 1..(Len(s) + 1)
         /\ DOMAIN s = 1..Len(s) /\ Len(s) \in Nat
         /\ \A i \in DOMAIN s : Edited(s, j)[i] = s[i]
         /\ Edited(s, j)[Len(s) + 1] = j.provider
<1>1. j.provider \in Provider
  BY DEF Job
<1>2. Edited(s, j) = Append(s, j.provider)
  BY DEF Edited
<1>3. QED BY <1>1, <1>2, AppendProperties, LenProperties

LEMMA UpdatedAt ==
  ASSUME NEW s \in Seq(Provider), NEW j \in Job, j.op = "update"
  PROVE  /\ DOMAIN Edited(s, j) = DOMAIN s
         /\ \A i \in DOMAIN s :
              IF i = j.idx
              THEN /\ Edited(s, j)[i].name = j.provider.name
                   /\ Edited(s, j)[i].secret
                        = Kept(j.provider.secret, s[i].secret)
              ELSE Edited(s, j)[i] = s[i]
<1>1. \A x : /\ [j.provider EXCEPT !.secret = x].secret = x
             /\ [j.provider EXCEPT !.secret = x].name = j.provider.name
  BY DEF Job, Provider
<1>2. Edited(s, j) = [s EXCEPT ![j.idx] =
          [j.provider EXCEPT !.secret = Kept(@, s[j.idx].secret)]]
  BY DEF Edited
<1>3. QED BY <1>1, <1>2

LEMMA DeletedAt ==
  ASSUME NEW s \in Seq(Provider), NEW j \in Job, j.op = "delete",
         j.idx \in DOMAIN s
  PROVE  /\ DOMAIN Edited(s, j) = 1..(Len(s) - 1)
         /\ DOMAIN s = 1..Len(s) /\ Len(s) \in Nat
         /\ \A m \in 1..(Len(s) - 1) :
              Edited(s, j)[m] = IF m < j.idx THEN s[m] ELSE s[m + 1]
<1>1. Edited(s, j) = Without(s, j.idx)
  BY DEF Edited
<1>2. DOMAIN s = 1..Len(s) /\ Len(s) \in Nat
  BY LenProperties
<1>3. QED BY <1>1, <1>2, WithoutAt

\* An edit that fits a section leaves every name unique.
LEMMA EditedUnique ==
  ASSUME NEW s \in Seq(Provider), NEW j \in Job, Unique(s), Fits(s, j)
  PROVE  Unique(Edited(s, j))
<1> DEFINE e == Edited(s, j)
<1>1. CASE j.op = "create"
  <2>1. \A i \in DOMAIN e : i \in DOMAIN s \/ i = Len(s) + 1
    BY <1>1, CreatedAt
  <2>2. \A i \in DOMAIN s : e[i].name # j.provider.name
    BY <1>1, CreatedAt DEF Fits
  <2>3. QED BY <1>1, <2>1, <2>2, CreatedAt DEF Unique
<1>2. CASE j.op = "update"
  <2>1. ASSUME NEW i \in DOMAIN s, NEW l \in DOMAIN s, e[i].name = e[l].name
        PROVE  i = l
    <3>1. CASE i = j.idx /\ l # j.idx
      BY <1>2, <2>1, <3>1, UpdatedAt DEF Fits
    <3>2. CASE i # j.idx /\ l = j.idx
      BY <1>2, <2>1, <3>2, UpdatedAt DEF Fits
    <3>3. CASE i # j.idx /\ l # j.idx
      BY <1>2, <2>1, <3>3, UpdatedAt DEF Unique
    <3>4. QED BY <3>1, <3>2, <3>3
  <2>2. DOMAIN e = DOMAIN s
    BY <1>2, UpdatedAt
  <2>3. QED BY <2>1, <2>2 DEF Unique
<1>3. CASE j.op = "delete"
  <2>1. j.idx \in 1..Len(s) /\ Len(s) \in Nat /\ DOMAIN s = 1..Len(s)
    BY <1>3, DeletedAt DEF Fits
  <2>2. /\ DOMAIN e = 1..(Len(s) - 1)
        /\ \A m \in 1..(Len(s) - 1) :
             e[m] = IF m < j.idx THEN s[m] ELSE s[m + 1]
    BY <1>3, <2>1, DeletedAt
  <2> HIDE DEF e
  <2>3. ASSUME NEW m \in DOMAIN e, NEW l \in DOMAIN e, e[m].name = e[l].name
        PROVE  m = l
    <3>1. /\ m \in 1..(Len(s) - 1) /\ l \in 1..(Len(s) - 1)
          /\ {m, m + 1, l, l + 1} \subseteq DOMAIN s
      BY <2>1, <2>2
    <3>2. \E x \in {m, m + 1}, y \in {l, l + 1} :
            /\ e[m] = s[x] /\ e[l] = s[y]
            /\ x = (IF m < j.idx THEN m ELSE m + 1)
            /\ y = (IF l < j.idx THEN l ELSE l + 1)
      BY <2>2, <3>1
    <3>3. PICK x \in {m, m + 1}, y \in {l, l + 1} :
            /\ e[m] = s[x] /\ e[l] = s[y]
            /\ x = (IF m < j.idx THEN m ELSE m + 1)
            /\ y = (IF l < j.idx THEN l ELSE l + 1)
      BY <3>2
    <3>4. x = y
      BY <2>3, <3>1, <3>3 DEF Unique
    <3>5. QED BY <2>1, <3>1, <3>3, <3>4
  <2>4. QED BY <2>3 DEF Unique, e
<1>4. CASE j.op = "toggle"
  BY <1>4 DEF Edited
<1>5. QED BY <1>1, <1>2, <1>3, <1>4 DEF Fits

\* After an edit its providers have the secrets it was to give them, and the
\* others of the section those they had.
LEMMA EditedLookup ==
  ASSUME NEW c \in Config, NEW d \in Config, NEW j \in Job, NEW n \in Names,
         Unique(c.auth[j.section]), Fits(c.auth[j.section], j),
         d.auth[j.section] = Edited(c.auth[j.section], j),
         j.want = Wanted(c, j), j.op # "toggle"
  PROVE  Lookup(d, j.section, n) = IF n \in Touched(j) THEN Outcome(j, n)
                                   ELSE Lookup(c, j.section, n)
<1> DEFINE t == j.section
           s == c.auth[t]
           e == d.auth[t]
<1>1. /\ t \in Sections /\ j.orig \in Names /\ j.provider \in Provider
      /\ j.provider.name \in Names /\ s \in Seq(Provider)
  BY JobParts, Parts DEF Provider
<1>2. Unique(e) /\ e = Edited(s, j)
  BY <1>1, EditedUnique
<1>3. CASE j.op = "create"
  <2>1. j.want = j.provider.secret.text /\ Touched(j) = {j.provider.name}
    BY <1>3 DEF Wanted, Fits, Touched
  <2>2. CASE n = j.provider.name
    <3>1. Len(s) + 1 \in DOMAIN e /\ e[Len(s) + 1] = j.provider
      BY <1>1, <1>2, <1>3, CreatedAt
    <3>2. Lookup(d, t, n) = e[Len(s) + 1].secret.text
      BY <1>1, <1>2, <2>2, <3>1, LookupAt
    <3>3. QED BY <2>1, <2>2, <3>1, <3>2 DEF Outcome
  <2>3. CASE n # j.provider.name
    <3>1. \A i \in DOMAIN s : i \in DOMAIN e /\ e[i] = s[i]
      BY <1>1, <1>2, <1>3, CreatedAt
    <3>2. \A l \in DOMAIN e : e[l].name = n => l \in DOMAIN s
      BY <1>1, <1>2, <1>3, <2>3, CreatedAt
    <3>3. Lookup(d, t, n) = Lookup(c, t, n)
      BY <1>1, <1>2, <3>1, <3>2, LookupSame
    <3>4. QED BY <2>1, <2>3, <3>3
  <2>4. QED BY <2>2, <2>3
<1>4. CASE j.op = "update"
  <2>1. /\ j.idx \in DOMAIN s /\ s[j.idx].name = j.orig
        /\ \A i \in DOMAIN s : i # j.idx => s[i].name # j.provider.name
    BY <1>4 DEF Fits
  <2>2. /\ DOMAIN e = DOMAIN s
        /\ e[j.idx].name = j.provider.name
        /\ e[j.idx].secret = Kept(j.provider.secret, s[j.idx].secret)
        /\ \A i \in DOMAIN s : i # j.idx => e[i] = s[i]
    BY <1>1, <1>2, <1>4, <2>1, UpdatedAt
  <2>3. CASE n = j.provider.name
    <3>1. Lookup(d, t, n) = e[j.idx].secret.text
      BY <1>1, <1>2, <2>1, <2>2, <2>3, LookupAt
    <3>2. Lookup(c, t, j.orig) = s[j.idx].secret.text
      BY <1>1, <2>1, LookupAt
    <3>3. j.want = e[j.idx].secret.text
      BY <1>4, <2>2, <3>2 DEF Wanted, Kept
    <3>4. QED BY <2>3, <3>1, <3>3 DEF Outcome, Touched
  <2>4. CASE n = j.orig /\ n # j.provider.name
    <3>1. \A i \in DOMAIN e : e[i].name # n
      BY <2>1, <2>2, <2>4 DEF Unique
    <3>2. QED BY <1>1, <2>4, <3>1, LookupNone DEF Outcome, Touched
  <2>5. CASE n # j.orig /\ n # j.provider.name
    <3>1. \A i \in DOMAIN s : s[i].name = n => i \in DOMAIN e /\ e[i] = s[i]
      BY <2>1, <2>2, <2>5
    <3>2. \A i \in DOMAIN e : e[i].name = n => i \in DOMAIN s /\ e[i] = s[i]
      BY <2>1, <2>2, <2>5
    <3>3. Lookup(d, t, n) = Lookup(c, t, n)
      BY <1>1, <1>2, <3>1, <3>2, LookupSame
    <3>4. QED BY <2>5, <3>3 DEF Touched
  <2>6. QED BY <2>3, <2>4, <2>5
<1>5. CASE j.op = "delete"
  <2>1. j.idx \in DOMAIN s /\ s[j.idx].name = j.orig /\ Touched(j) = {j.orig}
        /\ j.want = NoProvider
    BY <1>5 DEF Fits, Touched, Wanted
  <2>2. /\ DOMAIN s = 1..Len(s) /\ Len(s) \in Nat
        /\ DOMAIN e = 1..(Len(s) - 1)
        /\ \A m \in 1..(Len(s) - 1) :
             e[m] = IF m < j.idx THEN s[m] ELSE s[m + 1]
    BY <1>1, <1>2, <1>5, <2>1, DeletedAt
  <2>3. ASSUME NEW l \in DOMAIN e
        PROVE  \E i \in DOMAIN s : i # j.idx /\ e[l] = s[i]
    <3>1. CASE l < j.idx
      BY <2>1, <2>2, <3>1
    <3>2. CASE ~(l < j.idx)
      <4>1. l \in 1..(Len(s) - 1) /\ l + 1 \in DOMAIN s /\ l + 1 # j.idx
        BY <2>1, <2>2, <3>2
      <4>2. e[l] = s[l + 1]
        BY <2>2, <3>2, <4>1
      <4>3. QED BY <4>1, <4>2
    <3>3. QED BY <3>1, <3>2
  <2>4. ASSUME NEW i \in DOMAIN s, i # j.idx
        PROVE  \E l \in DOMAIN e : e[l] = s[i]
    <3>1. CASE i < j.idx
      BY <2>1, <2>2, <3>1
    <3>2. CASE ~(i < j.idx)
      <4>1. i - 1 \in 1..(Len(s) - 1) /\ ~(i - 1 < j.idx) /\ i - 1 + 1 = i
        BY <2>1, <2>2, <2>4, <3>2
      <4>2. QED BY <2>2, <4>1
    <3>3. QED BY <3>1, <3>2
  <2> HIDE DEF e
  <2>5. CASE n = j.orig
    <3>1. \A l \in DOMAIN e : e[l].name # n
      BY <2>1, <2>3, <2>5 DEF Unique
    <3>2. QED
      BY <1>1, <2>1, <2>5, <3>1, LookupNone DEF Outcome, e
  <2>6. CASE n # j.orig
    <3>1. \A i \in DOMAIN s : s[i].name = n =>
            \E l \in DOMAIN e : /\ e[l].name = n
                               /\ e[l].secret.text = s[i].secret.text
      BY <2>1, <2>4, <2>6
    <3>2. \A l \in DOMAIN e : e[l].name = n =>
            \E i \in DOMAIN s : s[i].name = n
      BY <2>3
    <3>3. Unique(s) /\ Unique(e) /\ t \in Sections
      BY <1>1, <1>2
    <3>4. Lookup(d, t, n) = Lookup(c, t, n)
      BY ONLY c \in Config, d \in Config, n \in Names, <3>1, <3>2, <3>3,
              LookupSame, Zenon DEF e
    <3>5. QED BY <2>1, <2>6, <3>4
  <2>7. QED BY <2>5, <2>6
<1>6. QED BY <1>3, <1>4, <1>5 DEF Fits

-----------------------------------------------------------------------------
(* Names identify providers *)

Named(c) == \A t \in Sections : Unique(c.auth[t])

LEMMA EmptyNamed == Named(Empty) /\ Named(NoJob.buf)
BY DEF Named, Unique, Empty, NoJob

LEMMA CutNamed ==
  ASSUME NEW c \in Config, Named(c), NEW d \in Cut(c), d # Garbled
  PROVE  Named(d)
<1>1. ASSUME NEW t \in Sections, NEW i \in DOMAIN d.auth[t],
             NEW l \in DOMAIN d.auth[t],
             d.auth[t][i].name = d.auth[t][l].name
      PROVE  i = l
  <2>1. /\ i \in DOMAIN c.auth[t] /\ d.auth[t][i] = c.auth[t][i]
        /\ l \in DOMAIN c.auth[t] /\ d.auth[t][l] = c.auth[t][l]
    BY CutParts
  <2>2. QED BY <1>1, <2>1 DEF Named, Unique
<1>2. QED BY <1>1 DEF Named, Unique

\* Encryption changes neither the names nor the texts of the secrets.
LEMMA EncryptedNames ==
  ASSUME NEW a \in Auth, NEW k, NEW t \in Sections
  PROVE  /\ DOMAIN EncryptSecrets(a, k)[t] = DOMAIN a[t]
         /\ \A i \in DOMAIN a[t] :
              /\ EncryptSecrets(a, k)[t][i].name = a[t][i].name
              /\ EncryptSecrets(a, k)[t][i].secret.text = a[t][i].secret.text
<1>1. DOMAIN EncryptSecrets(a, k)[t] = DOMAIN a[t]
  BY DEF EncryptSecrets
<1>2. ASSUME NEW i \in DOMAIN a[t]
      PROVE  /\ EncryptSecrets(a, k)[t][i].name = a[t][i].name
             /\ EncryptSecrets(a, k)[t][i].secret.text = a[t][i].secret.text
  <2>1. a[t][i] \in Provider
    BY DEF Auth
  <2>2. \A q \in Provider :
          /\ [q EXCEPT !.secret = Encrypted(@, k)].secret
               = Encrypted(q.secret, k)
          /\ [q EXCEPT !.secret = Encrypted(@, k)].name = q.name
          /\ q.secret \in Secret
    BY DEF Provider
  <2>3. \A x \in Secret : Encrypted(x, k).text = x.text
    BY DEF Encrypted, Secret
  <2>4. EncryptSecrets(a, k)[t][i]
          = [a[t][i] EXCEPT !.secret = Encrypted(@, k)]
    BY DEF EncryptSecrets
  <2>5. QED BY <2>1, <2>2, <2>3, <2>4
<1>3. QED BY <1>1, <1>2

LEMMA EncryptNamed ==
  ASSUME NEW c \in Config, Named(c)
  PROVE  Named([c EXCEPT !.auth = EncryptSecrets(@, c.key)])
<1>1. [c EXCEPT !.auth = EncryptSecrets(@, c.key)].auth
        = EncryptSecrets(c.auth, c.key)
  BY DEF Config
<1>2. QED BY <1>1, Parts, EncryptedNames DEF Named, Unique

\* The names are unique, and an edit fits the section it was checked for
\* until it is applied.
NameInv ==
  ~overlap =>
    /\ Parsed => Named(file)
    /\ \A p \in Processes : Named(mem[p])
    /\ \A w \in Writers : Named(job[w].buf)
    /\ \A r \in Requests : At(r, "apply")
         => Fits(Shared.auth[job[r].section], job[r])

\* An edit that was checked fits.
LEMMA AcceptFits ==
  ASSUME TypeOK, Named(Shared), NEW r \in Requests, ProviderRequest(r)
  PROVE  /\ UNCHANGED <<file, mem>> /\ overlap' = (overlap \/ Busy)
         /\ At(r, "idle")
         /\ \A v \in Writers : v # r => pc'[v] = pc[v] /\ job'[v] = job[v]
         /\ pc'[r] = "apply" /\ job'[r].buf = NoJob.buf
         /\ Fits(Shared.auth[job'[r].section], job'[r])
<1>1. Shared \in Config /\ NoJob.orig \in Names
  BY JobType, JobParts DEF TypeOK, Shared
<1>2. ASSUME NEW op, NEW t \in Sections, NEW orig \in Names, NEW n \in Names,
             NEW s, Accept(r, op, t, orig, n, s)
      PROVE  /\ UNCHANGED <<file, mem>> /\ overlap' = (overlap \/ Busy)
             /\ At(r, "idle")
             /\ \A v \in Writers : v # r => pc'[v] = pc[v] /\ job'[v] = job[v]
             /\ pc'[r] = "apply" /\ job'[r].buf = NoJob.buf
             /\ job'[r].op = op /\ job'[r].section = t /\ job'[r].orig = orig
             /\ job'[r].provider.name = n
             /\ job'[r].idx = Index(Shared, t, orig)
  <2> DEFINE q == [name |-> n, secret |-> [text |-> s, under |-> NoKey]]
             j == [NoJob EXCEPT !.op = op, !.section = t, !.orig = orig,
                     !.provider = q, !.idx = Index(Shared, t, orig)]
  <2>1. job' = [job EXCEPT ![r] = j]
    BY <1>2 DEF Accept
  <2>2. /\ j.buf = NoJob.buf /\ j.op = op /\ j.section = t /\ j.orig = orig
        /\ j.provider = q /\ j.idx = Index(Shared, t, orig) /\ q.name = n
    BY DEF NoJob
  <2> HIDE DEF j, q
  <2>3. job'[r] = j /\ \A v \in Writers : v # r => job'[v] = job[v]
    BY <2>1 DEF TypeOK
  <2>4. pc'[r] = "apply" /\ \A v \in Writers : v # r => pc'[v] = pc[v]
    BY <1>2 DEF Accept, Goto, TypeOK
  <2>5. overlap' = (overlap \/ Busy)
    BY <1>2, Zenon DEF Accept
  <2>6. UNCHANGED <<file, mem>> /\ At(r, "idle")
    BY <1>2 DEF Accept
  <2>7. QED BY <2>2, <2>3, <2>4, <2>5, <2>6
<1>3. ASSUME NEW t \in Sections, NEW n \in Names, NEW s \in Texts,
             Create(r, t, n, s)
      PROVE  /\ Accept(r, "create", t, n, n, s)
             /\ \A i \in DOMAIN Shared.auth[t] : Shared.auth[t][i].name # n
  BY <1>1, <1>3, IndexIn DEF Create
<1>4. ASSUME NEW t \in Sections, NEW orig \in Names, NEW n \in Names,
             NEW s \in Texts, Update(r, t, orig, n, s)
      PROVE  /\ Accept(r, "update", t, orig, n, s)
             /\ Index(Shared, t, orig) \in DOMAIN Shared.auth[t]
             /\ Shared.auth[t][Index(Shared, t, orig)].name = orig
             /\ \A i \in DOMAIN Shared.auth[t] :
                  i # Index(Shared, t, orig) => Shared.auth[t][i].name # n
  <2>1. /\ Index(Shared, t, orig) \in DOMAIN Shared.auth[t]
        /\ Shared.auth[t][Index(Shared, t, orig)].name = orig
    BY <1>1, <1>4, IndexIn DEF Update
  <2>2. CASE n = orig
    BY <1>4, <2>1, <2>2 DEF Update, Named, Unique
  <2>3. CASE Index(Shared, t, n) = 0
    BY <1>1, <1>4, <2>1, <2>3, IndexIn DEF Update
  <2>4. QED BY <1>4, <2>2, <2>3 DEF Update
<1>5. ASSUME NEW t \in Sections, NEW orig \in Names, Delete(r, t, orig)
      PROVE  /\ Accept(r, "delete", t, orig, orig, Blank)
             /\ Index(Shared, t, orig) \in DOMAIN Shared.auth[t]
             /\ Shared.auth[t][Index(Shared, t, orig)].name = orig
  BY <1>1, <1>5, IndexIn DEF Delete
<1> DEFINE Fit1 == Fits(Shared.auth[job'[r].section], job'[r])
<1>6. ASSUME NEW t \in Sections, NEW n \in Names, NEW s \in Texts,
             Create(r, t, n, s)
      PROVE  Fit1 /\ \E op : Accept(r, op, t, n, n, s)
  <2>1. /\ Accept(r, "create", t, n, n, s)
        /\ \A i \in DOMAIN Shared.auth[t] : Shared.auth[t][i].name # n
    BY <1>3, <1>6
  <2>2. /\ job'[r].op = "create" /\ job'[r].section = t
        /\ job'[r].orig = n /\ job'[r].provider.name = n
    BY <1>2, <2>1
  <2>3. Fit1
    BY ONLY <2>1, <2>2 DEF Fits
  <2>4. QED BY <2>1, <2>3
<1>7. ASSUME NEW t \in Sections, NEW orig \in Names, NEW n \in Names,
             NEW s \in Texts, Update(r, t, orig, n, s)
      PROVE  Fit1 /\ \E op : Accept(r, op, t, orig, n, s)
  <2>1. Accept(r, "update", t, orig, n, s)
    BY <1>4, <1>7
  <2>2. /\ job'[r].op = "update" /\ job'[r].section = t
        /\ job'[r].orig = orig /\ job'[r].provider.name = n
        /\ job'[r].idx = Index(Shared, t, orig)
    BY <1>2, <2>1
  <2>3. /\ Index(Shared, t, orig) \in DOMAIN Shared.auth[t]
        /\ Shared.auth[t][Index(Shared, t, orig)].name = orig
        /\ \A i \in DOMAIN Shared.auth[t] :
             i # Index(Shared, t, orig) => Shared.auth[t][i].name # n
    BY <1>4, <1>7
  <2>4. Fit1
    BY ONLY <2>2, <2>3 DEF Fits
  <2>5. QED BY <2>1, <2>4
<1>8. ASSUME NEW t \in Sections, NEW n \in Names, Delete(r, t, n)
      PROVE  Fit1 /\ \E op : Accept(r, op, t, n, n, Blank)
  <2>1. Accept(r, "delete", t, n, n, Blank)
    BY <1>5, <1>8
  <2>2. /\ job'[r].op = "delete" /\ job'[r].section = t
        /\ job'[r].orig = n /\ job'[r].provider.name = n
        /\ job'[r].idx = Index(Shared, t, n)
    BY <1>2, <2>1
  <2>3. Fit1
    BY <1>5, <1>8, <2>2 DEF Fits
  <2>4. QED BY <2>1, <2>3
<1>9. ASSUME NEW t \in Sections, Toggle(r, t)
      PROVE  Fit1 /\ \E op : Accept(r, op, t, NoJob.orig, NoJob.orig, Blank)
  <2>1. Accept(r, "toggle", t, NoJob.orig, NoJob.orig, Blank)
    BY <1>9 DEF Toggle
  <2>2. Fit1
    BY <1>1, <1>2, <2>1 DEF Fits
  <2>3. QED BY <2>1, <2>2
<1> HIDE DEF Fit1
<1>10. Fit1 /\ \E op, s : \E t \in Sections, orig, n \in Names :
                 Accept(r, op, t, orig, n, s)
  BY <1>1, <1>6, <1>7, <1>8, <1>9 DEF ProviderRequest
<1>11. QED BY <1>2, <1>10 DEF Fit1

\* Between the check of an edit and Apply, nobody else changes the providers.
LEMMA StillFits ==
  ASSUME NameInv, ~overlap, NEW r \in Requests,
         At(r, "apply"), mem'[Server] = mem[Server], job'[r] = job[r]
  PROVE  Fits(Shared.auth[job[r].section], job[r])'
<1>1. Fits(Shared.auth[job[r].section], job[r])
  BY DEF NameInv
<1>2. QED BY <1>1 DEF Shared

LEMMA SaveNames ==
  ASSUME TypeOK, Alone, NameInv, ~overlap, NEW w \in Writers, Save(w)
  PROVE  NameInv'
<1>1. job[w].buf \in Config /\ Named(job[w].buf)
  BY JobParts DEF TypeOK, NameInv
<1>2. Parsed' => Named(file')
  <2>1. CASE file' \in {file, Empty, job[w].buf, Garbled}
    BY <1>1, <2>1, EmptyNamed DEF NameInv, Parsed
  <2>2. CASE file' \in Cut(job[w].buf)
    BY <1>1, <2>2, CutNamed DEF Parsed
  <2>3. QED BY <2>1, <2>2, SaveStep
<1>3. \A v \in Writers : Named(job'[v].buf)
  BY SaveStep, EmptyNamed DEF NameInv
<1>4. \A p \in Processes : Named(mem'[p])
  BY SaveStep DEF NameInv
<1>5. ASSUME NEW r \in Requests, At(r, "apply")'
      PROVE  Fits(Shared.auth[job[r].section], job[r])'
  <2>1. r # w /\ At(r, "apply") /\ mem' = mem /\ job'[r] = job[r]
    BY <1>5, SaveStep DEF At
  <2>2. QED BY <2>1, StillFits
<1>6. QED BY <1>2, <1>3, <1>4, <1>5 DEF NameInv

LEMMA BootNames ==
  ASSUME TypeOK, ServerBusy, Alone, NameInv, ~overlap, NEW p \in Processes,
         Boot(p)
  PROVE  NameInv'
<1>1. CASE Exit(p)
  <2>1. Parsed' => Named(file')
    <3>1. CASE file' = file
      BY <3>1 DEF NameInv, Parsed
    <3>2. ASSUME NEW w \in Writers, file' \in Cut(job[w].buf)
          PROVE  Parsed' => Named(file')
      <4>1. job[w].buf \in Config /\ Named(job[w].buf)
        BY JobParts DEF TypeOK, NameInv
      <4>2. QED BY <3>2, <4>1, CutNamed DEF Parsed
    <3>3. QED BY <1>1, <3>1, <3>2, ExitStep
  <2>2. \A v \in Writers : Named(job'[v].buf)
    BY <1>1, ExitStep, EmptyNamed DEF NameInv
  <2>3. \A q \in Processes : Named(mem'[q])
    BY <1>1, ExitStep, EmptyNamed DEF NameInv, TypeOK
  <2>4. ASSUME NEW r \in Requests, At(r, "apply")'
        PROVE  Fits(Shared.auth[job[r].section], job[r])'
    <3>1. r \notin Threads(p)
      BY <1>1, <2>4, ExitStep DEF At
    <3>2. p # Server /\ At(r, "apply") /\ job'[r] = job[r]
      BY <1>1, <2>4, <3>1, ExitStep DEF At
    <3>3. mem'[Server] = mem[Server]
      BY <1>1, <3>2, ExitStep DEF TypeOK
    <3>4. QED BY <3>2, <3>3, StillFits
  <2>5. QED BY <2>1, <2>2, <2>3, <2>4 DEF NameInv
<1>2. CASE ~Exit(p)
  <2>1. PICK c \in Config :
          /\ mem' = [mem EXCEPT ![p] = c]
          /\ \/ At(p, "down") /\ Loads /\ c.auth = Found.auth
                /\ file \in Config \cup {NoFile}
             \/ At(p, "override") /\ c.auth = mem[p].auth
          /\ \/ job' = job
             \/ \E o \in {"load", "port"} :
                  job' = [job EXCEPT ![p] = [job[p] EXCEPT !.op = o, !.buf = c]]
    BY <1>2, BootStep, Zenon
  <2>2. Named(c)
    <3>1. CASE c.auth = mem[p].auth
      BY <3>1 DEF Named, NameInv
    <3>2. CASE c.auth = Found.auth /\ file \in Config \cup {NoFile}
      <4>1. Named(Found)
        <5>1. CASE file = NoFile
          BY <5>1, EmptyNamed DEF Found
        <5>2. CASE file # NoFile
          BY <3>2, <5>2, FileAssumption DEF Found, NameInv, Parsed
        <5>3. QED BY <5>1, <5>2
      <4>2. QED BY <3>2, <4>1 DEF Named
    <3>3. QED BY <2>1, <3>1, <3>2
  <2>3. \A q \in Processes : Named(mem'[q])
    BY <2>1, <2>2 DEF TypeOK, NameInv
  <2>4. \A v \in Writers : Named(job'[v].buf)
    <3>1. CASE job' = job
      BY <3>1 DEF NameInv
    <3>2. ASSUME NEW o, job' = [job EXCEPT ![p] = [job[p] EXCEPT
                                              !.op = o, !.buf = c]]
          PROVE  \A v \in Writers : Named(job'[v].buf)
      <4>1. [job[p] EXCEPT !.op = o, !.buf = c].buf = c
        BY DEF TypeOK, Job
      <4>2. QED BY <2>2, <3>2, <4>1 DEF TypeOK, NameInv
    <3>3. QED BY <2>1, <3>1, <3>2
  <2>5. ASSUME NEW r \in Requests, At(r, "apply")'
        PROVE  Fits(Shared.auth[job[r].section], job[r])'
    <3>1. \E x : pc' = [pc EXCEPT ![p] = x]
      BY <1>2, BootStep, Zenon
    <3>2. At(r, "apply")
      BY <2>5, <3>1 DEF At, TypeOK
    <3>3. p # Server
      BY <2>1, <3>2 DEF ServerBusy, At
    <3>4. mem'[Server] = mem[Server]
      BY <2>1, <3>3 DEF TypeOK
    <3>5. job'[r] = job[r]
      BY <2>1 DEF TypeOK
    <3>6. QED BY <3>2, <3>4, <3>5, StillFits
  <2>6. file' = file
    BY <1>2, BootStep
  <2>7. QED BY <2>3, <2>4, <2>5, <2>6 DEF NameInv, Parsed
<1>3. QED BY <1>1, <1>2

LEMMA RequestNames ==
  ASSUME TypeOK, Alone, NameInv, ~overlap, NEW r \in Requests,
         \/ ProviderRequest(r) \/ Apply(r) \/ Panic(r)
         \/ Encrypt(r) \/ Marshal(r),
         ~overlap'
  PROVE  NameInv'
<1>1. /\ Shared \in Config /\ Named(Shared) /\ Server \in Processes
      /\ mem \in [Processes -> Config]
  BY DEF TypeOK, NameInv, Shared
<1>2. file' = file /\ (Parsed' => Named(file'))
  BY RequestStep DEF NameInv, Parsed
<1>3. ASSUME \A v \in Writers :
               job'[v].buf \in {job[v].buf, Shared, NoJob.buf},
             \/ mem' = mem
             \/ \E c : mem' = [mem EXCEPT ![Server] = c] /\ Named(c),
             \A q \in Requests : At(q, "apply")'
               => Fits(Shared.auth[job[q].section], job[q])'
      PROVE  NameInv'
  <2>1. \A v \in Writers : Named(job'[v].buf)
    BY <1>1, <1>3, EmptyNamed DEF NameInv
  <2>2. \A p \in Processes : Named(mem'[p])
    BY <1>1, <1>3 DEF NameInv
  <2>3. QED BY <1>2, <1>3, <2>1, <2>2 DEF NameInv
<1>4. CASE ProviderRequest(r)
  <2>1. /\ UNCHANGED <<file, mem>> /\ overlap' = (overlap \/ Busy)
        /\ At(r, "idle")
        /\ \A v \in Writers : v # r => pc'[v] = pc[v] /\ job'[v] = job[v]
        /\ pc'[r] = "apply" /\ job'[r].buf = NoJob.buf
        /\ Fits(Shared.auth[job'[r].section], job'[r])
    BY <1>1, <1>4, AcceptFits
  <2>2. ~Busy
    BY <2>1 DEF TypeOK
  <2>3. \A q \in Requests : At(q, "apply")' => q = r
    BY <2>1, <2>2 DEF Busy, At
  <2>4. Fits(Shared.auth[job[r].section], job[r])'
    BY <2>1 DEF Shared
  <2>5. QED BY <1>3, <2>1, <2>3, <2>4
<1>5. ASSUME Working(r), \A v \in Writers : v # r => pc'[v] = pc[v],
             ~At(r, "apply")', NEW q \in Requests
      PROVE  ~At(q, "apply")'
  BY <1>5 DEF Alone, Working, At
<1>6. CASE Apply(r)
  <2> DEFINE j == [job[r] EXCEPT !.want = Wanted(Shared, job[r])]
             c == [Shared EXCEPT !.auth[j.section] = Edited(@, j)]
  <2>1. /\ j.buf = job[r].buf /\ j.op = job[r].op /\ j.idx = job[r].idx
        /\ j.section = job[r].section /\ j.orig = job[r].orig
        /\ j.provider = job[r].provider
    BY DEF TypeOK, Job
  <2>2. j \in Job
    <3>1. Wanted(Shared, job[r]) \in Texts \cup {NoProvider}
      BY <1>1, WantedType DEF TypeOK
    <3>2. QED BY <3>1, JobParts DEF TypeOK
  <2>3. /\ job' = [job EXCEPT ![r] = j] /\ pc' = [pc EXCEPT ![r] = "encrypt"]
        /\ mem' = [mem EXCEPT ![Server] = c] /\ At(r, "apply")
    BY <1>6 DEF Apply, Goto
  <2> HIDE DEF j
  <2>4. Fits(Shared.auth[j.section], j)
    BY <2>1, <2>3 DEF NameInv, Fits
  <2>5. /\ j.section \in Sections /\ Shared.auth[j.section] \in Seq(Provider)
        /\ Unique(Shared.auth[j.section])
    BY <1>1, <2>2, JobParts, Parts DEF Named
  <2>6. Unique(Edited(Shared.auth[j.section], j))
    BY <2>2, <2>4, <2>5, EditedUnique
  <2>7. c.auth = [Shared.auth EXCEPT ![j.section] = Edited(@, j)]
    BY <1>1 DEF Config
  <2> HIDE DEF c
  <2>8. Named(c)
    BY <1>1, <2>5, <2>6, <2>7, Parts DEF Named, Auth
  <2>9. \A v \in Writers : job'[v].buf \in {job[v].buf, Shared, NoJob.buf}
    BY <2>1, <2>3 DEF TypeOK
  <2>10. \A q \in Requests : ~At(q, "apply")'
    BY <1>5, <2>3 DEF At, Working, TypeOK
  <2>11. QED BY <1>3, <2>3, <2>8, <2>9, <2>10
<1>7. CASE Panic(r)
  <2>1. /\ mem' = mem /\ At(r, "apply")
        /\ \A v \in Writers : job'[v].buf \in {job[v].buf, Shared, NoJob.buf}
    BY <1>7 DEF Panic, Finish, TypeOK
  <2>2. \E x \in {"down", "up", "idle"} : pc' = [pc EXCEPT ![r] = x]
    BY <1>7, Zenon DEF Panic, Finish, Goto
  <2>3. \A q \in Requests : ~At(q, "apply")'
    BY <1>5, <2>1, <2>2 DEF At, Working, TypeOK
  <2>4. QED BY <1>3, <2>1, <2>3
<1>8. CASE Encrypt(r)
  <2> DEFINE c == [Shared EXCEPT !.auth = EncryptSecrets(@, Shared.key)]
  <2>1. /\ mem' = [mem EXCEPT ![Server] = c]
        /\ job' = job /\ At(r, "encrypt")
        /\ pc' = [pc EXCEPT ![r] = "marshal"]
    BY <1>8 DEF Encrypt, Shared, Goto
  <2>2. Named(c)
    BY <1>1, EncryptNamed
  <2> HIDE DEF c
  <2>3. \A q \in Requests : ~At(q, "apply")'
    BY <1>5, <2>1 DEF At, Working, TypeOK
  <2>4. QED BY <1>3, <2>1, <2>2, <2>3
<1>9. CASE Marshal(r)
  <2>1. /\ mem' = mem /\ At(r, "marshal")
        /\ job' = [job EXCEPT ![r] = [job[r] EXCEPT !.buf = Shared]]
        /\ pc' = [pc EXCEPT ![r] = "open"]
    BY <1>9 DEF Marshal, Goto
  <2>2. [job[r] EXCEPT !.buf = Shared].buf = Shared
    BY DEF TypeOK, Job
  <2>3. \A v \in Writers : job'[v].buf \in {job[v].buf, Shared, NoJob.buf}
    BY <2>1, <2>2 DEF TypeOK
  <2>4. \A q \in Requests : ~At(q, "apply")'
    BY <1>5, <2>1 DEF At, Working, TypeOK
  <2>5. QED BY <1>3, <2>1, <2>3, <2>4
<1>10. QED BY <1>4, <1>6, <1>7, <1>8, <1>9

LEMMA NameNext == TypeOK /\ AloneInv /\ NameInv /\ [Next]_vars => NameInv'
<1> SUFFICES ASSUME TypeOK, AloneInv, NameInv, [Next]_vars, ~overlap'
             PROVE  NameInv'
  BY DEF NameInv
<1>1. ~overlap /\ Alone /\ ServerBusy
  BY OverlapStays DEF AloneInv
<1>2. CASE Seal
  BY <1>2 DEF Seal, history, NameInv, Parsed, At, Shared
<1>3. CASE UNCHANGED vars
  BY <1>3 DEF vars, history, NameInv, Parsed, At, Shared
<1>4. QED BY <1>1, <1>2, <1>3, SaveNames, BootNames, RequestNames DEF Next

\* The server.yml the first process may find names its providers uniquely.
InstalledNamed == \A f \in Installed : f # NoFile => Named(f)

LEMMA InitNames == InstalledNamed /\ Init => NameInv
BY EmptyNamed, FileAssumption DEF Init, NameInv, InstalledNamed, Parsed, At

\* If server.yml names its providers uniquely to begin with, a name keeps
\* identifying one provider, in the file and in memory, while edits come one
\* at a time: what the handlers checked is still so when they append.
THEOREM NamesStayUnique ==
  ASSUME InstalledNamed
  PROVE  Spec => []NamesIdentify
<1>1. Init => TypeOK /\ HasKey /\ AloneInv /\ NameInv
  BY InitTypes, InitHasKey, InitAlone, InitNames
<1>2. TypeOK /\ HasKey /\ AloneInv /\ NameInv /\ [Next]_vars
        => TypeOK' /\ HasKey' /\ AloneInv' /\ NameInv'
  BY TypeNext, HasKeyNext, AloneNext, NameNext
<1>3. NameInv => NamesIdentify
  BY DEF NameInv, NamesIdentify, Named, Unique, Parsed
<1>4. QED BY <1>1, <1>2, <1>3, PTL DEF Spec

-----------------------------------------------------------------------------
(* What was acknowledged is kept *)

\* In configuration c every provider has a secret that m allows.
Known(m, c) == \A t \in Sections, n \in Names : Lookup(c, t, n) \in m[t][n]

\* Edit j is done in configuration c.
Done(j, c) ==
  /\ j.op \in {"create", "update", "delete", "toggle"}
  /\ j.op # "toggle" =>
       \A n \in Touched(j) : Lookup(c, j.section, n) = Outcome(j, n)

KeptFile ==
  /\ file = NoFile => Known(may, Empty)
  /\ Parsed /\ ~cut /\ ~Saving => Known(may, file)

\* A process of the command line that is up no longer saves what it knows.
KeptMem ==
  \A p \in Processes :
    Working(p) \/ (p = Server /\ At(p, "up")) => Known(may, mem[p])

KeptJob ==
  \A p \in Processes : At(p, "open") \/ At(p, "write")
    => job[p].buf = mem[p] /\ job[p].op \in {"load", "port"}

KeptEdit ==
  \A r \in Requests :
    /\ Working(r) /\ ~At(r, "apply") => Done(job[r], Shared)
    /\ At(r, "open") \/ At(r, "write") => job[r].buf = Shared

KeepInv ==
  ~overlap /\ ~torn => KeptFile /\ KeptMem /\ KeptJob /\ KeptEdit

LEMMA KnownAuth ==
  ASSUME NEW c, NEW d, c.auth = d.auth, NEW m, Known(m, c)
  PROVE  Known(m, d)
BY LookupAuth DEF Known

LEMMA AcknowledgedKnown ==
  ASSUME TypeOK, NEW w \in Writers, Acknowledged(w), NEW c,
         Done(job[w], c), Known(may, c)
  PROVE  Known(may', c)
<1> DEFINE j == job[w]
<1>1. CASE may' = may
  BY <1>1
<1>2. CASE may' = [may EXCEPT ![j.section] = [n \in Names |->
                     IF n \in Touched(j) THEN {Outcome(j, n)}
                     ELSE may[j.section][n]]]
      /\ j.op # "toggle"
  <2>1. j.section \in Sections /\ DOMAIN may = Sections
    BY JobParts DEF TypeOK
  <2>2. \A n \in Touched(j) : Lookup(c, j.section, n) = Outcome(j, n)
    BY <1>2 DEF Done
  <2> HIDE DEF j
  <2>3. ASSUME NEW t \in Sections, NEW n \in Names
        PROVE  Lookup(c, t, n) \in may'[t][n]
    <3>1. CASE t = j.section /\ n \in Touched(j)
      <4>1. may'[t][n] = {Outcome(j, n)}
        BY <1>2, <2>1, <3>1
      <4>2. QED BY <2>2, <3>1, <4>1
    <3>2. CASE ~(t = j.section /\ n \in Touched(j))
      <4>1. may'[t][n] = may[t][n]
        BY <1>2, <2>1, <3>2
      <4>2. QED BY <4>1 DEF Known
    <3>3. QED BY <3>1, <3>2
  <2>4. QED BY <2>3 DEF Known
<1>3. QED BY <1>1, <1>2 DEF Acknowledged

LEMMA SaveKept ==
  ASSUME TypeOK, Alone, ServerBusy, Unsealed, KeepInv, ~overlap, ~torn,
         NEW w \in Writers, Save(w)
  PROVE  KeptFile' /\ KeptMem' /\ KeptJob' /\ KeptEdit'
<1>1. KeptFile /\ KeptMem /\ KeptJob /\ KeptEdit
  BY DEF KeepInv
<1>2. /\ mem' = mem /\ (At(w, "open") \/ At(w, "write"))
      /\ \A v \in Writers : v # w => pc'[v] = pc[v] /\ job'[v] = job[v]
      /\ \/ pc'[w] = "write" /\ job' = job
         \/ pc'[w] \in {"down", "override", "up", "idle"} /\ job'[w] = NoJob
  BY SaveStep
<1>3. \A v \in Writers : Working(v) => v = w
  BY <1>2 DEF Alone, Working, At
<1>4. job[w].buf \in Config /\ job[w] \in Job
  BY JobParts DEF TypeOK
<1>5. may' = may \/ (w \in Requests /\ Acknowledged(w))
  <2>1. CASE w \in Processes
    <3>1. job[w].op \in {"load", "port"}
      BY <1>1, <1>2, <2>1 DEF KeptJob
    <3>2. QED
      BY <3>1 DEF Save, Truncate, Write, OpenFails, WriteFails, Acknowledged,
                  history
  <2>2. CASE w \in Requests
    BY <2>2 DEF Save, Truncate, Write, OpenFails, WriteFails, history
  <2>3. QED BY <2>1, <2>2
<1>6. ASSUME w \in Requests
      PROVE  /\ At(Server, "up") /\ Known(may, Shared)
             /\ Done(job[w], Shared) /\ job[w].buf = Shared
  <2>1. At(Server, "up") /\ Done(job[w], Shared) /\ job[w].buf = Shared
    BY <1>1, <1>2, <1>6 DEF ServerBusy, KeptEdit, At, Working
  <2>2. QED BY <1>1, <2>1 DEF KeptMem, Shared
<1>7. w \in Processes => Known(may, mem[w]) /\ job[w].buf = mem[w]
  BY <1>1, <1>2 DEF KeptMem, KeptJob, Working, At
<1>8. Known(may', job[w].buf)
  <2>1. Known(may, job[w].buf)
    BY <1>6, <1>7
  <2>2. QED BY <1>5, <1>6, <2>1, AcknowledgedKnown
<1>9. KeptFile'
  <2>1. CASE Truncate(w)
    <3>1. file' # NoFile /\ Saving'
      BY <2>1, EmptyType, FileAssumption
      DEF Truncate, Saving, At, Goto, TypeOK
    <3>2. QED BY <3>1 DEF KeptFile
  <2>2. CASE Write(w)
    <3>1. file' = job[w].buf \/ (file' = Garbled /\ cut')
      BY <2>2 DEF Write
    <3>2. QED BY <1>4, <1>8, <3>1, FileAssumption DEF KeptFile, Parsed
  <2>3. CASE OpenFails(w)
    <3>1. At(w, "open") /\ UNCHANGED <<file, may, cut>> /\ ~Saving
      BY <1>3, <2>3 DEF OpenFails, history, Saving, At, Working
    <3>2. QED BY <1>1, <3>1 DEF KeptFile, Parsed
  <2>4. CASE WriteFails(w)
    <3>1. file' # NoFile /\ cut'
      BY <1>4, <2>4, CutType, FileAssumption DEF WriteFails
    <3>2. QED BY <3>1 DEF KeptFile
  <2>5. QED BY <2>1, <2>2, <2>3, <2>4 DEF Save
<1>10. KeptMem'
  <2>1. ASSUME NEW p \in Processes,
               (Working(p) \/ (p = Server /\ At(p, "up")))'
        PROVE  Known(may', mem'[p])
    <3>1. CASE p = w
      BY <1>2, <1>7, <1>8, <3>1
    <3>2. CASE p # w
      <4>1. p = Server /\ At(p, "up")
        BY <1>2, <1>3, <2>1, <3>2 DEF Working, At
      <4>2. CASE may' = may
        BY <1>1, <1>2, <4>1, <4>2 DEF KeptMem
      <4>3. CASE w \in Requests
        BY <1>2, <1>6, <1>8, <4>1, <4>3 DEF Shared
      <4>4. QED BY <1>5, <4>2, <4>3
    <3>3. QED BY <3>1, <3>2
  <2>2. QED BY <2>1 DEF KeptMem
<1>11. KeptJob'
  BY <1>1, <1>2 DEF KeptJob, At
<1>12. KeptEdit'
  <2>1. Shared' = Shared
    BY <1>2 DEF Shared
  <2>2. ASSUME w \in Requests
        PROVE  pc'[w] = "idle" \/ (pc'[w] = "write" /\ job' = job)
    <3>1. job[w].op \in {"create", "update", "delete", "toggle"}
      BY <1>6, <2>2 DEF Done
    <3>2. ASSUME NEW ok, Finish(w, ok) PROVE pc'[w] = "idle"
      BY <3>1, <3>2 DEF Finish, Goto, TypeOK
    <3>3. QED
      BY <3>2 DEF Save, Truncate, Write, OpenFails, WriteFails, Goto, TypeOK
  <2>3. ASSUME NEW r \in Requests, Working(r)'
        PROVE  r = w /\ pc'[r] = "write" /\ job' = job
    BY <1>2, <1>3, <2>2, <2>3 DEF Working
  <2>4. QED BY <1>1, <1>2, <2>1, <2>3 DEF KeptEdit, Working, At
<1>13. QED BY <1>9, <1>10, <1>11, <1>12

LEMMA BootKept ==
  ASSUME TypeOK, ServerBusy, KeepInv, ~overlap, ~torn,
         NEW p \in Processes, Boot(p), ~torn'
  PROVE  KeptFile' /\ KeptMem' /\ KeptJob' /\ KeptEdit'
<1>1. KeptFile /\ KeptMem /\ KeptJob /\ KeptEdit
  BY DEF KeepInv
<1>2. CASE Exit(p)
  <2>1. /\ may' = may /\ mem' = [mem EXCEPT ![p] = Empty]
        /\ p \in Threads(p) /\ Threads(p) \cap Processes = {p}
        /\ p = Server => Requests \subseteq Threads(p)
        /\ \A w \in Writers \ Threads(p) : pc'[w] = pc[w] /\ job'[w] = job[w]
        /\ \A w \in Threads(p) :
             pc'[w] = (IF w = p THEN "down" ELSE "idle") /\ job'[w] = NoJob
        /\ \/ UNCHANGED <<file, cut>> /\ \A w \in Threads(p) : ~At(w, "write")
           \/ /\ cut'
              /\ \E w \in Threads(p) :
                   At(w, "write") /\ file' \in Cut(job[w].buf)
    BY <1>2, ExitStep
  <2>2. KeptFile'
    <3>1. CASE UNCHANGED <<file, cut>> /\ \A w \in Threads(p) : ~At(w, "write")
      <4>1. Saving => Saving'
        BY <2>1, <3>1 DEF Saving, At
      <4>2. QED BY <1>1, <2>1, <3>1, <4>1 DEF KeptFile, Parsed
    <3>2. ASSUME cut', NEW w \in Writers, file' \in Cut(job[w].buf)
          PROVE  KeptFile'
      <4>1. file' # NoFile
        BY <3>2, CutType, JobParts, FileAssumption DEF TypeOK
      <4>2. QED BY <3>2, <4>1 DEF KeptFile
    <3>3. QED BY <1>2, <2>1, <3>1, <3>2, ExitStep
  <2>3. KeptMem'
    BY <1>1, <2>1 DEF KeptMem, Working, At, TypeOK
  <2>4. KeptJob'
    BY <1>1, <2>1 DEF KeptJob, At, TypeOK
  <2>5. ASSUME NEW r \in Requests, Working(r)'
        PROVE  /\ pc'[r] = pc[r] /\ job'[r] = job[r] /\ Working(r)
               /\ Shared' = Shared
    <3>1. r \notin Threads(p) /\ p # Server
      BY <2>1, <2>5 DEF Working
    <3>2. QED BY <2>1, <2>5, <3>1 DEF Working, Shared, TypeOK
  <2>6. KeptEdit'
    BY <1>1, <2>5 DEF KeptEdit, Working, At
  <2>7. QED BY <2>2, <2>3, <2>4, <2>6
<1>3. CASE ~Exit(p)
  <2>1. PICK c \in Config :
          /\ mem' = [mem EXCEPT ![p] = c]
          /\ \/ At(p, "down") /\ Loads /\ c.auth = Found.auth
                /\ file \in Config \cup {NoFile}
             \/ At(p, "override") /\ c.auth = mem[p].auth
          /\ \/ job' = job /\ \E x \in {"override", "up"} :
                                pc' = [pc EXCEPT ![p] = x]
             \/ /\ pc' = [pc EXCEPT ![p] = "open"]
                /\ \E o \in {"load", "port"} :
                     job' = [job EXCEPT ![p] =
                               [job[p] EXCEPT !.op = o, !.buf = c]]
    BY <1>3, BootStep, Zenon
  <2>2. UNCHANGED <<file, may, cut>>
    BY <1>3, BootStep
  <2>3. Known(may, c)
    <3>1. CASE At(p, "override") /\ c.auth = mem[p].auth
      BY <1>1, <3>1, KnownAuth DEF KeptMem, Working, At
    <3>2. CASE Loads /\ c.auth = Found.auth /\ file \in Config \cup {NoFile}
      <4>1. ~cut /\ ~Saving
        BY <3>2 DEF Loads, Incomplete, Saving, At
      <4>2. Known(may, Found)
        <5>1. CASE file = NoFile
          BY <1>1, <5>1 DEF Found, KeptFile
        <5>2. CASE file # NoFile
          BY <1>1, <3>2, <4>1, <5>2, FileAssumption
          DEF Found, KeptFile, Parsed
        <5>3. QED BY <5>1, <5>2
      <4>3. QED BY <3>2, <4>2, KnownAuth
    <3>3. QED BY <2>1, <3>1, <3>2
  <2>4. /\ mem'[p] = c /\ \A q \in Processes : q # p => mem'[q] = mem[q]
        /\ \A w \in Writers : w # p => pc'[w] = pc[w] /\ job'[w] = job[w]
        /\ pc'[p] # "write" /\ ~At(p, "write")
    BY <2>1 DEF TypeOK, At
  <2>5. KeptFile'
    <3>1. Saving => Saving'
      BY <2>4 DEF Saving, At
    <3>2. QED BY <1>1, <2>2, <3>1 DEF KeptFile, Parsed
  <2>6. KeptMem'
    BY <1>1, <2>2, <2>3, <2>4 DEF KeptMem, Working, At
  <2>7. KeptJob'
    <3>1. At(p, "open")' => job'[p].buf = c /\ job'[p].op \in {"load", "port"}
      <4>1. CASE \E x \in {"override", "up"} : pc' = [pc EXCEPT ![p] = x]
        BY <4>1 DEF At, TypeOK
      <4>2. ASSUME NEW o \in {"load", "port"},
                   job' = [job EXCEPT ![p] = [job[p] EXCEPT
                             !.op = o, !.buf = c]]
            PROVE  job'[p].buf = c /\ job'[p].op = o
        <5>1. /\ [job[p] EXCEPT !.op = o, !.buf = c].buf = c
              /\ [job[p] EXCEPT !.op = o, !.buf = c].op = o
          BY DEF TypeOK, Job
        <5>2. QED BY <4>2, <5>1 DEF TypeOK
      <4>3. QED BY <2>1, <4>1, <4>2
    <3>2. QED BY <1>1, <2>4, <3>1 DEF KeptJob, At
  <2>8. KeptEdit'
    <3>1. ASSUME NEW r \in Requests, Working(r)'
          PROVE  /\ pc'[r] = pc[r] /\ job'[r] = job[r] /\ Working(r)
                 /\ Shared' = Shared
      <4>1. pc'[r] = pc[r] /\ job'[r] = job[r] /\ Working(r)
        BY <2>4, <3>1 DEF Working
      <4>2. p # Server
        BY <2>1, <4>1 DEF ServerBusy, At, Working
      <4>3. QED BY <2>4, <4>1, <4>2 DEF Shared
    <3>2. QED BY <1>1, <3>1 DEF KeptEdit, Working, At
  <2>9. QED BY <2>5, <2>6, <2>7, <2>8
<1>4. QED BY <1>2, <1>3

\* Encryption leaves the names and texts, and so what a lookup finds.
LEMMA EncryptLookup ==
  ASSUME NEW c \in Config, Named(c), NEW t \in Sections, NEW n \in Names
  PROVE  Lookup([c EXCEPT !.auth = EncryptSecrets(@, c.key)], t, n)
           = Lookup(c, t, n)
<1> DEFINE d == [c EXCEPT !.auth = EncryptSecrets(@, c.key)]
<1>1. d.auth = EncryptSecrets(c.auth, c.key) /\ d \in Config
  BY Parts, EncryptType, ReplacedAuth DEF Config
<1>2. Named(d)
  BY EncryptNamed
<1>3. /\ DOMAIN d.auth[t] = DOMAIN c.auth[t]
      /\ \A i \in DOMAIN c.auth[t] :
           /\ d.auth[t][i].name = c.auth[t][i].name
           /\ d.auth[t][i].secret.text = c.auth[t][i].secret.text
  BY <1>1, Parts, EncryptedNames
<1> HIDE DEF d
<1>4. Lookup(d, t, n) = Lookup(c, t, n)
  BY <1>1, <1>2, <1>3, LookupSame DEF Named
<1>5. QED BY <1>4 DEF d

LEMMA ApplyKept ==
  ASSUME TypeOK, ServerBusy, Alone, Unsealed, NameInv, KeepInv,
         ~overlap, ~torn, NEW r \in Requests, Apply(r)
  PROVE  KeptFile' /\ KeptMem' /\ KeptJob' /\ KeptEdit'
<1> DEFINE j == [job[r] EXCEPT !.want = Wanted(Shared, job[r])]
           c == [Shared EXCEPT !.auth[j.section] = Edited(@, j)]
<1>1. KeptFile /\ KeptMem /\ KeptJob /\ KeptEdit
  BY DEF KeepInv
<1>2. /\ Shared \in Config /\ job[r] \in Job /\ At(r, "apply")
      /\ At(Server, "up") /\ Named(Shared)
      /\ Fits(Shared.auth[job[r].section], job[r])
      /\ Known(may, Shared)
  BY <1>1 DEF Apply, TypeOK, NameInv, Shared, ServerBusy, At, KeptMem
<1>3. /\ j.op = job[r].op /\ j.section = job[r].section
      /\ j.orig = job[r].orig /\ j.provider = job[r].provider
      /\ j.idx = job[r].idx /\ j.want = Wanted(Shared, job[r])
  BY <1>2 DEF Job
<1>4. j \in Job
  <2>1. Wanted(Shared, job[r]) \in Texts \cup {NoProvider}
    BY <1>2, WantedType
  <2>2. QED BY <1>2, <2>1, JobParts
<1>5. /\ job' = [job EXCEPT ![r] = j] /\ mem' = [mem EXCEPT ![Server] = c]
      /\ pc' = [pc EXCEPT ![r] = "encrypt"] /\ UNCHANGED <<file, cut>>
      /\ may' = IF j.op = "toggle" THEN may
                ELSE [may EXCEPT ![j.section] = [n \in Names |->
                        IF n \in Touched(j)
                        THEN may[j.section][n] \cup {Outcome(j, n)}
                        ELSE may[j.section][n]]]
  BY DEF Apply, Goto
<1> HIDE DEF j
<1>6. /\ Fits(Shared.auth[j.section], j) /\ j.want = Wanted(Shared, j)
      /\ j.section \in Sections
      /\ Shared.auth[j.section] \in Seq(Provider)
      /\ Unique(Shared.auth[j.section])
  BY <1>2, <1>3, <1>4, JobParts, Parts DEF Fits, Wanted, Named
<1>7. /\ c \in Config
      /\ c.auth = [Shared.auth EXCEPT
                     ![j.section] = Edited(Shared.auth[j.section], j)]
  <2>1. Edited(Shared.auth[j.section], j) \in Seq(Provider)
    <3>1. j.op = "delete" => j.idx <= Len(Shared.auth[j.section])
      BY <1>6, LenProperties DEF Fits
    <3>2. QED BY <1>4, <1>6, <3>1, EditedType
  <2>2. [Shared.auth EXCEPT ![j.section] = Edited(@, j)] \in Auth
    BY <1>2, <2>1, Parts DEF Auth
  <2>3. QED BY <1>2, <2>2, ReplacedAuth DEF Config
<1> HIDE DEF c
<1>8. DOMAIN Shared.auth = Sections
  BY <1>2, Parts DEF Auth
<1>9. c.auth[j.section] = Edited(Shared.auth[j.section], j)
  BY <1>6, <1>7, <1>8
<1>10. ASSUME j.op # "toggle", NEW n \in Names
       PROVE  Lookup(c, j.section, n) = IF n \in Touched(j) THEN Outcome(j, n)
                                        ELSE Lookup(Shared, j.section, n)
  <2>1. /\ Shared \in Config /\ c \in Config /\ j \in Job
        /\ Unique(Shared.auth[j.section])
        /\ Fits(Shared.auth[j.section], j)
        /\ c.auth[j.section] = Edited(Shared.auth[j.section], j)
        /\ j.want = Wanted(Shared, j)
    BY <1>2, <1>4, <1>6, <1>7, <1>9
  <2>2. QED BY ONLY <1>10, <2>1, EditedLookup, Zenon
<1>11. ASSUME NEW t \in Sections, t # j.section \/ j.op = "toggle", NEW n
       PROVE  Lookup(c, t, n) = Lookup(Shared, t, n)
  <2>1. c.auth[t] = Shared.auth[t]
    BY <1>7, <1>8, <1>9, <1>11 DEF Edited
  <2>2. QED BY <2>1 DEF Lookup, Index
<1>12. DOMAIN may = Sections
  BY DEF TypeOK
<1>13. \A t \in Sections, n \in Names : may[t][n] \subseteq may'[t][n]
  <2>1. CASE j.op = "toggle"
    BY <1>5, <2>1
  <2>2. CASE j.op # "toggle"
    <3>1. ASSUME NEW t \in Sections, NEW n \in Names
          PROVE  may[t][n] \subseteq may'[t][n]
      <4>1. CASE t = j.section
        BY <1>5, <1>6, <1>12, <2>2, <4>1
      <4>2. CASE t # j.section
        BY <1>5, <1>6, <1>12, <2>2, <4>2
      <4>3. QED BY <4>1, <4>2
    <3>2. QED BY <3>1
  <2>3. QED BY <2>1, <2>2
<1>14. \A b : Known(may, b) => Known(may', b)
  BY <1>13 DEF Known
<1>15. Known(may', c)
  <2>1. ASSUME NEW t \in Sections, NEW n \in Names
        PROVE  Lookup(c, t, n) \in may'[t][n]
    <3>1. Lookup(Shared, t, n) \in may'[t][n]
      BY <1>2, <1>14 DEF Known
    <3>2. CASE t # j.section \/ j.op = "toggle"
      BY <1>11, <3>1, <3>2
    <3>3. CASE t = j.section /\ j.op # "toggle" /\ n \in Touched(j)
      <4>1. Outcome(j, n) \in may'[t][n]
        BY <1>5, <1>6, <1>12, <3>3
      <4>2. QED BY <1>10, <3>3, <4>1
    <3>4. CASE t = j.section /\ j.op # "toggle" /\ n \notin Touched(j)
      BY <1>10, <3>1, <3>4
    <3>5. QED BY <3>2, <3>3, <3>4
  <2>2. QED BY <2>1 DEF Known
<1>16. Done(j, c)
  <2>1. \A n \in Touched(j) : n \in Names
    BY <1>4, JobParts DEF Touched, Provider
  <2>2. QED BY <1>6, <1>10, <2>1 DEF Done, Fits
<1>17. \A v \in Writers : v # r => ~Working(v) /\ ~Working(v)'
  BY <1>2, <1>5 DEF Alone, Working, At, TypeOK
<1>18. /\ Shared' = c /\ job'[r] = j /\ pc'[r] = "encrypt"
       /\ \A p \in Processes : pc'[p] = pc[p] /\ job'[p] = job[p]
       /\ \A p \in Processes : p # Server => mem'[p] = mem[p]
  BY <1>5 DEF Shared, TypeOK
<1>19. KeptFile'
  <2>1. ~Saving
    BY <1>2, <1>17 DEF Saving, At, Working
  <2>2. QED BY <1>1, <1>5, <1>14, <2>1 DEF KeptFile, Parsed
<1>20. KeptMem'
  BY <1>15, <1>17, <1>18 DEF KeptMem, Shared
<1>21. KeptJob'
  BY <1>17, <1>18 DEF KeptJob, Working, At
<1>22. KeptEdit'
  BY <1>16, <1>17, <1>18 DEF KeptEdit, Working, At
<1>23. QED BY <1>19, <1>20, <1>21, <1>22

LEMMA RequestKept ==
  ASSUME TypeOK, ServerBusy, Alone, Unsealed, NameInv, KeepInv,
         ~overlap, ~torn, NEW r \in Requests,
         \/ ProviderRequest(r) \/ Apply(r) \/ Panic(r)
         \/ Encrypt(r) \/ Marshal(r),
         ~overlap'
  PROVE  KeptFile' /\ KeptMem' /\ KeptJob' /\ KeptEdit'
<1>1. KeptFile /\ KeptMem /\ KeptJob /\ KeptEdit
  BY DEF KeepInv
<1>2. Shared \in Config /\ Named(Shared) /\ job[r] \in Job
  BY DEF TypeOK, NameInv, Shared
<1>3. ASSUME UNCHANGED <<file, cut, may>>, At(Server, "up"),
             \A v \in Writers : v # r => pc'[v] = pc[v] /\ job'[v] = job[v],
             ~At(r, "write"), ~At(r, "write")',
             \A p \in Processes : p # Server => mem'[p] = mem[p],
             \A t \in Sections, n \in Names :
               Lookup(Shared', t, n) = Lookup(Shared, t, n),
             \A q \in Requests : q # r => ~Working(q),
             /\ (Working(r) /\ ~At(r, "apply"))' => Done(job'[r], Shared')
             /\ At(r, "open")' => job'[r].buf = Shared'
      PROVE  KeptFile' /\ KeptMem' /\ KeptJob' /\ KeptEdit'
  <2>1. Saving => Saving'
    BY <1>3 DEF Saving, At
  <2>2. KeptFile'
    BY <1>1, <1>3, <2>1 DEF KeptFile, Parsed
  <2>3. ASSUME NEW p \in Processes,
               (Working(p) \/ (p = Server /\ At(p, "up")))'
        PROVE  Known(may', mem'[p])
    <3>1. pc'[p] = pc[p] /\ Known(may, mem[p])
      BY <1>1, <1>3, <2>3 DEF KeptMem, Working, At
    <3>2. CASE p = Server
      <4>1. \A t \in Sections, n \in Names :
              Lookup(mem'[Server], t, n) = Lookup(mem[Server], t, n)
        BY <1>3 DEF Shared
      <4>2. QED BY <1>3, <3>1, <3>2, <4>1 DEF Known
    <3>3. CASE p # Server
      BY <1>3, <3>1, <3>3
    <3>4. QED BY <3>2, <3>3
  <2>4. KeptMem'
    BY <2>3 DEF KeptMem
  <2>5. KeptJob'
    <3>1. \A p \in Processes : At(p, "open") \/ At(p, "write") => p # Server
      BY <1>3 DEF At
    <3>2. QED BY <1>1, <1>3, <3>1 DEF KeptJob, At
  <2>6. KeptEdit'
    <3>1. \A q \in Requests : q # r => ~Working(q)'
      BY <1>3 DEF Working
    <3>2. QED BY <1>3, <3>1 DEF KeptEdit, Working, At
  <2>7. QED BY <2>2, <2>4, <2>5, <2>6
<1>4. Working(r) => \A q \in Requests : q # r => ~Working(q)
  BY DEF Alone
<1>5. CASE ProviderRequest(r)
  <2>1. /\ UNCHANGED <<file, mem>> /\ overlap' = (overlap \/ Busy)
        /\ At(r, "idle") /\ pc'[r] = "apply"
        /\ \A v \in Writers : v # r => pc'[v] = pc[v] /\ job'[v] = job[v]
    BY <1>2, <1>5, AcceptFits
  <2>2. \A q \in Requests : ~Working(q)
    BY <2>1 DEF TypeOK, Busy, Working
  <2>3. UNCHANGED <<cut, may>> /\ At(Server, "up")
    BY <1>5 DEF ProviderRequest, Create, Update, Delete, Toggle, Accept
  <2>4. Shared' = Shared
    BY <2>1 DEF Shared
  <2>5. QED BY <1>3, <2>1, <2>2, <2>3, <2>4 DEF At
<1>6. CASE Panic(r)
  <2>1. /\ UNCHANGED <<file, mem, cut, may>> /\ At(r, "apply")
        /\ \E x \in {"down", "up", "idle"} : pc' = [pc EXCEPT ![r] = x]
        /\ job' = [job EXCEPT ![r] = NoJob]
    BY <1>6, Zenon DEF Panic, Finish, Goto, history
  <2>2. At(Server, "up") /\ Working(r) /\ Shared' = Shared
    BY <2>1 DEF ServerBusy, At, Working, Shared
  <2>3. /\ \A v \in Writers : v # r => pc'[v] = pc[v] /\ job'[v] = job[v]
        /\ pc'[r] \in {"down", "up", "idle"}
    BY <2>1 DEF TypeOK
  <2>4. QED BY <1>3, <1>4, <2>1, <2>2, <2>3 DEF At, Working
<1>7. CASE Encrypt(r)
  <2> DEFINE c == [Shared EXCEPT !.auth = EncryptSecrets(@, Shared.key)]
  <2>1. /\ UNCHANGED <<file, cut, may, job>> /\ At(r, "encrypt")
        /\ mem' = [mem EXCEPT ![Server] = c]
        /\ pc' = [pc EXCEPT ![r] = "marshal"]
    BY <1>7 DEF Encrypt, Goto, history, Shared
  <2>2. At(Server, "up") /\ Working(r)
    BY <2>1 DEF ServerBusy, At, Working
  <2>3. \A t \in Sections, n \in Names : Lookup(c, t, n) = Lookup(Shared, t, n)
    BY <1>2, EncryptLookup
  <2> HIDE DEF c
  <2>4. /\ Shared' = c /\ \A p \in Processes : p # Server => mem'[p] = mem[p]
        /\ \A v \in Writers : v # r => pc'[v] = pc[v]
        /\ pc'[r] = "marshal"
    BY <2>1 DEF TypeOK, Shared
  <2>5. Done(job[r], Shared)
    BY <1>1, <2>1, <2>2 DEF KeptEdit, At
  <2>6. Done(job[r], c)
    <3>1. job[r].section \in Sections /\ \A n \in Touched(job[r]) : n \in Names
      BY <1>2, JobParts DEF Touched, Provider
    <3>2. QED BY <2>3, <2>5, <3>1 DEF Done
  <2>7. QED BY <1>3, <1>4, <2>1, <2>2, <2>3, <2>4, <2>6 DEF At
<1>8. CASE Marshal(r)
  <2> DEFINE j == [job[r] EXCEPT !.buf = Shared]
  <2>1. /\ UNCHANGED <<file, mem, cut, may>> /\ At(r, "marshal")
        /\ pc' = [pc EXCEPT ![r] = "open"]
        /\ job' = [job EXCEPT ![r] = j]
    BY <1>8 DEF Marshal, Goto, history
  <2>2. At(Server, "up") /\ Working(r) /\ Shared' = Shared
    BY <2>1 DEF ServerBusy, At, Working, Shared
  <2>3. /\ j.buf = Shared /\ j.op = job[r].op /\ j.section = job[r].section
        /\ j.orig = job[r].orig /\ j.provider = job[r].provider
        /\ j.want = job[r].want
    BY <1>2 DEF Job
  <2> HIDE DEF j
  <2>4. Done(job[r], Shared)
    BY <1>1, <2>1, <2>2 DEF KeptEdit, At
  <2>5. Done(j, Shared)
    BY <2>3, <2>4 DEF Done, Touched, Outcome
  <2>6. /\ job'[r] = j /\ pc'[r] = "open"
        /\ \A v \in Writers : v # r => pc'[v] = pc[v] /\ job'[v] = job[v]
    BY <2>1 DEF TypeOK
  <2>7. QED BY <1>3, <1>4, <2>1, <2>2, <2>3, <2>5, <2>6 DEF At
<1>9. QED BY <1>5, <1>6, <1>7, <1>8, ApplyKept

LEMMA KeepNext ==
  TypeOK /\ ReadInv /\ AloneInv /\ NameInv /\ KeepInv /\ [Next]_vars
    => KeepInv'
<1> SUFFICES ASSUME TypeOK, ReadInv, AloneInv, NameInv, KeepInv, [Next]_vars,
                    ~overlap', ~torn'
             PROVE  KeptFile' /\ KeptMem' /\ KeptJob' /\ KeptEdit'
  BY DEF KeepInv
<1>1. ~overlap /\ ~torn /\ Alone /\ ServerBusy
  BY OverlapStays, TornStays DEF AloneInv
<1>2. Unsealed
  BY <1>1 DEF ReadInv, Uses
<1>3. CASE Seal \/ UNCHANGED vars
  <2>1. UNCHANGED <<file, mem, pc, job, may, cut>>
    BY <1>3 DEF Seal, vars, history
  <2>2. KeptFile /\ KeptMem /\ KeptJob /\ KeptEdit
    BY <1>1 DEF KeepInv
  <2>3. Shared' = Shared
    BY <2>1 DEF Shared
  <2>4. QED
    BY <2>1, <2>2, <2>3
    DEF KeptFile, KeptMem, KeptJob, KeptEdit, Parsed, Saving, Working, At
<1>4. QED
  BY <1>1, <1>2, <1>3, SaveKept, BootKept, RequestKept DEF Next

LEMMA InitKept == Init => KeepInv
<1> SUFFICES ASSUME Init
             PROVE  KeepInv
  OBVIOUS
<1>1. Known(may, Found)
  BY DEF Init, Known
<1>2. KeptFile
  BY <1>1 DEF KeptFile, Found, Parsed
<1>3. /\ \A p \in Processes : pc[p] = "down"
      /\ \A r \in Requests : pc[r] = "idle"
  BY DEF Init
<1>4. QED BY <1>2, <1>3 DEF KeepInv, KeptMem, KeptJob, KeptEdit, Working, At

\* If server.yml names its providers uniquely to begin with: while edits come
\* one at a time and the file is loaded only when it is complete, a complete
\* file holds, for every provider, the state of the last edit that was
\* answered with success, or of a later one that was answered with an error.
THEOREM ProvidersAreKept ==
  ASSUME InstalledNamed
  PROVE  Spec => []ProvidersKept
<1>1. Init => /\ TypeOK /\ HasKey /\ ReadInv /\ AloneInv
              /\ NameInv /\ KeepInv
  BY InitTypes, InitHasKey, InitReadInv, InitAlone, InitNames, InitKept
<1>2. /\ TypeOK /\ HasKey /\ ReadInv /\ AloneInv /\ NameInv /\ KeepInv
      /\ [Next]_vars
      => /\ TypeOK' /\ HasKey' /\ ReadInv' /\ AloneInv'
         /\ NameInv' /\ KeepInv'
  BY TypeNext, HasKeyNext, ReadInvNext, AloneNext, NameNext, KeepNext
<1>3. KeepInv => ProvidersKept
  BY DEF KeepInv, KeptFile, Known, ProvidersKept
<1>4. QED BY <1>1, <1>2, <1>3, PTL DEF Spec
=============================================================================
