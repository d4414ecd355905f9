---------------------------- MODULE ServerConfig -----------------------------
(***************************************************************************)
(* server.yml: how the server and the command line load it (config.Load,   *)
(* main), how it is written (config.Save), and how the admin handlers edit *)
(* the identity providers in the shared configuration of the server and    *)
(* save it (admin_auth_providers.go), several requests at a time and       *)
(* without a lock.                                                         *)
(*                                                                         *)
(* `caslink --status`, which the container images run every ten seconds,   *)
(* loads the configuration like the server does, and may write it.         *)
(*                                                                         *)
(* Of the settings the port stands for all that the environment may        *)
(* override; of a section of providers their names and secrets are kept.   *)
(* EncryptGCM is the pair of the text and the key that decrypts it.        *)
(***************************************************************************)
EXTENDS Integers, SequencesExt

CONSTANTS
  Requests,     \* goroutines that edit providers
  Server,       \* the server process
  Tools,        \* processes of the command line
  Sections,     \* server.auth.oidc, ldap and saml
  Names,        \* provider names
  Secrets,      \* secrets an administrator may enter
  Blank, Mask,  \* the empty secret and maskedSecret
  Keys, NoKey,  \* random encryption keys
  Ports,        \* the values of the environment variable PORT
  NoProvider,   \* history: a name without a provider
  NoFile, Garbled, \* server.yml does not exist, cannot be parsed
  Installed,    \* what the first process may find: NoFile, an earlier server.yml
  MaxOps        \* bound on edits, restarts and tool invocations

Processes   == {Server} \cup Tools
Writers     == Processes \cup Requests
Unset       == 0        \* the port of DefaultConfig
DefaultPort == 64580    \* chosen by main when none is configured
MaxPort     == 65535
Texts       == Secrets \cup {Blank, Mask}

ASSUME ConfigAssumption ==
  /\ Server \notin Tools /\ Processes \cap Requests = {}
  /\ Blank # Mask /\ {Blank, Mask} \cap Secrets = {}
  /\ NoKey \notin Keys /\ NoProvider \notin Texts
  /\ Ports \subseteq Nat \ {Unset} /\ MaxOps \in Nat
  /\ Sections # {} /\ Names # {}

VARIABLES
  file,    \* what yaml.Unmarshal makes of server.yml
  mem,     \* mem[p]: the configuration in the memory of process p
  pc,      \* the next step of each process and request
  job,     \* its local variables
  sealed,  \* keys that values in the databases are encrypted with
  made,    \* keys generated so far
  left,    \* bound: how often something may still be begun
  may,     \* history: may[t][n], the secrets provider n may have after a restart
  torn,    \* history: server.yml was loaded while it was incomplete
  overlap, \* history: two of them were at work on the configuration at once
  cut      \* history: the last Save did not complete

history == <<may, torn, overlap, cut>>
vars    == <<file, mem, pc, job, sealed, made, left, history>>

Secret   == [text: Texts, under: Keys \cup {NoKey}]
Provider == [name: Names, secret: Secret]
Settings == (Ports \cap 1..MaxPort) \cup {Unset, DefaultPort}
Config   == [port: Settings, key: Keys \cup {NoKey},
             auth: [Sections -> Seq(Provider)]]

\* A missing or unreadable file is not mistaken for a configuration.
ASSUME FileAssumption == NoFile # Garbled /\ {NoFile, Garbled} \cap Config = {}

Empty    == [port |-> Unset, key |-> NoKey,
             auth |-> [t \in Sections |-> <<>>]]

Ops == {"none", "load", "port", "create", "update", "delete", "toggle"}
Job == [op: Ops, section: Sections, orig: Names, provider: Provider,
        idx: Nat, buf: Config,
        want: Texts \cup {NoProvider}]   \* history: secret after the edit
Steps == {"down", "open", "write", "override", "up",
          "idle", "apply", "encrypt", "marshal"}

At(p, step)  == pc[p] = step
Goto(p, step) == pc' = [pc EXCEPT ![p] = step]
Saving       == \E p \in Writers : At(p, "write")
Parsed       == file \notin {NoFile, Garbled}

\* The position of provider n in section t, 0 when there is none.
Index(c, t, n) ==
  LET I == {i \in DOMAIN c.auth[t] : c.auth[t][i].name = n}
  IN IF I = {} THEN 0 ELSE CHOOSE i \in I : \A j \in I : i <= j

Lookup(c, t, n) ==
  IF Index(c, t, n) = 0 THEN NoProvider
  ELSE c.auth[t][Index(c, t, n)].secret.text

NoJob ==
  [op |-> "none", section |-> CHOOSE t \in Sections : TRUE,
   orig |-> CHOOSE n \in Names : TRUE,
   provider |-> [name |-> CHOOSE n \in Names : TRUE,
                 secret |-> [text |-> Blank, under |-> NoKey]],
   idx |-> 0, buf |-> Empty, want |-> NoProvider]

TypeOK ==
  /\ file \in Config \cup {NoFile, Garbled}
  /\ mem \in [Processes -> Config]
  /\ pc \in [Writers -> Steps]
  /\ job \in [Writers -> Job]
  /\ sealed \subseteq Keys /\ made \subseteq Keys
  /\ left \in Nat
  /\ may \in [Sections -> [Names -> SUBSET (Texts \cup {NoProvider})]]
  /\ torn \in BOOLEAN /\ overlap \in BOOLEAN /\ cut \in BOOLEAN

\* A configuration some earlier run has saved: encryptOne has left no secret in
\* the clear but an empty one.
Settled(c) ==
  /\ c \in Config /\ c.key \in Keys
  /\ \A t \in Sections : \A i \in DOMAIN c.auth[t] :
       LET x == c.auth[t][i].secret
       IN x.under = IF x.text = Blank THEN NoKey ELSE c.key

ASSUME InstalledAssumption == \A f \in Installed : f = NoFile \/ Settled(f)

Found == IF file = NoFile THEN Empty ELSE file

Init ==
  /\ file \in Installed
  /\ mem = [p \in Processes |-> Empty]
  /\ pc = [w \in Writers |-> IF w \in Processes THEN "down" ELSE "idle"]
  /\ job = [w \in Writers |-> NoJob]
  /\ sealed = {Found.key} \ {NoKey} /\ made = sealed
  /\ left = MaxOps
  /\ may = [t \in Sections |-> [n \in Names |-> {Lookup(Found, t, n)}]]
  /\ torn = FALSE /\ overlap = FALSE /\ cut = FALSE

-----------------------------------------------------------------------------
(* config.Save *)

\* Process or request w goes on after its Save, or after one failed.
Finish(w, ok) ==
  /\ Goto(w, CASE job[w].op = "load" -> IF ok THEN "override" ELSE "down"
               [] job[w].op = "port" -> "up"
               [] OTHER              -> "idle")
  /\ job' = [job EXCEPT ![w] = NoJob]

\* The providers edit j is about, and the secrets they shall have after it.
Touched(j)    == {j.orig, j.provider.name}
Outcome(j, n) == IF n = j.provider.name THEN j.want ELSE NoProvider

\* An edit that was answered with success: from now on a restart finds it.
Acknowledged(w) ==
  LET j == job[w]
  IN may' = IF j.op \notin {"create", "update", "delete"} THEN may
            ELSE [may EXCEPT ![j.section] = [n \in Names |->
                    IF n \in Touched(j) THEN {Outcome(j, n)} ELSE @[n]]]

\* os.WriteFile opens the file with O_TRUNC: it is empty now.
Truncate(w) ==
  /\ At(w, "open")
  /\ file' = Empty
  /\ Goto(w, "write")
  /\ UNCHANGED <<mem, job, sealed, made, left, history>>

\* It writes the marshalled configuration from the beginning of the file.
\* When another Save wrote in between, more than this one, the end of the
\* other remains; whether the whole can be parsed depends on where they differ.
Write(w) ==
  /\ At(w, "write")
  /\ \/ file' = job[w].buf
     \/ file # Empty /\ file' = Garbled
  /\ Finish(w, TRUE)
  /\ Acknowledged(w)
  /\ cut' = (file' = Garbled)
  /\ UNCHANGED <<mem, sealed, made, left, torn, overlap>>

\* What is left of configuration c when its text ends early: the settings
\* come first, then the key (server.security), then the providers.
Fewer(auth) ==
  {a \in [Sections -> UNION {Prefixes(auth[t]) : t \in Sections}] :
     \A t \in Sections : a[t] \in Prefixes(auth[t])}

Cut_AuthFirst(c) ==
  {Garbled, Empty, [c EXCEPT !.key = NoKey]}

Cut(c) ==
  {Garbled, Empty, [Empty EXCEPT !.port = c.port]}
    \cup {[c EXCEPT !.auth = a] : a \in Fewer(c.auth)}

OpenFails_Swallowed(w) ==
  /\ At(w, "open")
  /\ Finish(w, TRUE)
  /\ Acknowledged(w)
  /\ UNCHANGED <<file, mem, sealed, made, left, torn, overlap, cut>>

OpenFails(w) ==
  /\ At(w, "open")
  /\ Finish(w, FALSE)
  /\ UNCHANGED <<file, mem, sealed, made, left, history>>

\* The disk is full.
WriteFails(w) ==
  /\ At(w, "write")
  /\ file' \in Cut(job[w].buf)
  /\ Finish(w, FALSE)
  /\ cut' = TRUE
  /\ UNCHANGED <<mem, sealed, made, left, may, torn, overlap>>

-----------------------------------------------------------------------------
(* config.Load and main, in the server and on the command line *)

Begin ==
  /\ left > 0
  /\ left' = left - 1

WithNewKey_Unsaved(p, c) ==
  \E k \in Keys \ made :
    /\ made' = made \cup {k}
    /\ mem' = [mem EXCEPT ![p] = [c EXCEPT !.key = k]]
    /\ Goto(p, "override")
    /\ UNCHANGED job

\* A configuration without a key gets one, and is saved.
WithNewKey(p, c) ==
  \E k \in Keys \ made :
    LET d == [c EXCEPT !.key = k]
    IN /\ made' = made \cup {k}
       /\ mem' = [mem EXCEPT ![p] = d]
       /\ job' = [job EXCEPT ![p].op = "load", ![p].buf = d]
       /\ Goto(p, "open")

\* Validate: an invalid setting is replaced by its default.
Valid(port) == IF port > MaxPort THEN Unset ELSE port

\* How a Load finds the file, and whether a writer of it is active.
Incomplete == cut \/ \E w \in Writers : pc[w] \in {"open", "write"}
Busy       == \E w \in Writers : pc[w] \notin {"down", "up", "idle"}

Loads ==
  /\ torn' = (torn \/ Incomplete)
  /\ overlap' = (overlap \/ Busy)

\* The first start, or an upgrade of a file without a key.
LoadWithoutKey(p) ==
  /\ At(p, "down")
  /\ Begin
  /\ \/ file = NoFile /\ WithNewKey(p, Empty)
     \/ Parsed /\ file.key = NoKey /\ WithNewKey(p, [file EXCEPT !.port = Valid(@)])
  /\ Loads
  /\ UNCHANGED <<file, sealed, may, cut>>

\* A file that cannot be parsed ends the process: it stays down.
LoadFile(p) ==
  /\ At(p, "down")
  /\ Begin
  /\ Parsed /\ file.key # NoKey
  /\ mem' = [mem EXCEPT ![p] = [file EXCEPT !.port = Valid(@)]]
  /\ Goto(p, "override")
  /\ Loads
  /\ UNCHANGED <<file, job, sealed, made, may, cut>>

\* The environment overrides the file; when no port is configured, main
\* chooses one and saves the configuration, overrides included.
Override(p, env) ==
  LET port == Valid(IF env # Unset THEN env ELSE mem[p].port)
      c    == [mem[p] EXCEPT !.port = IF port = Unset THEN DefaultPort
                                      ELSE port]
  IN /\ At(p, "override")
     /\ mem' = [mem EXCEPT ![p] = c]
     /\ IF port = Unset
        THEN /\ job' = [job EXCEPT ![p].op = "port", ![p].buf = c]
             /\ Goto(p, "open")
        ELSE /\ Goto(p, "up")
             /\ UNCHANGED job
     /\ UNCHANGED <<file, sealed, made, left, history>>

\* TOTPService and DomainService encrypt what they store.
Seal ==
  /\ At(Server, "up")
  /\ sealed' = sealed \cup {mem[Server].key}
  /\ UNCHANGED <<file, mem, pc, job, made, left, history>>

\* A process ends, the server in the middle of whatever its requests do.
Threads(p) == IF p = Server THEN {Server} \cup Requests ELSE {p}

Exit(p) ==
  /\ ~At(p, "down")
  /\ LET W == {w \in Threads(p) : At(w, "write")}
     IN IF W = {}
        THEN UNCHANGED <<file, cut>>
        ELSE /\ cut' = TRUE
             /\ \E w \in W : file' \in Cut(job[w].buf)
  /\ mem' = [mem EXCEPT ![p] = Empty]
  /\ pc' = [w \in Writers |->
              IF w \notin Threads(p) THEN pc[w]
              ELSE IF w = p THEN "down" ELSE "idle"]
  /\ job' = [w \in Writers |-> IF w \in Threads(p) THEN NoJob ELSE job[w]]
  /\ UNCHANGED <<sealed, made, left, may, torn, overlap>>

-----------------------------------------------------------------------------
(* upsertOIDC, upsertLDAP, upsertSAML, deleteAuthProvider, toggle_section *)

Shared == mem[Server]   \* h.cfg of every request

\* Request r passed its checks: an edit of provider `orig` of section t.
Accept(r, op, t, orig, n, s) ==
  /\ At(Server, "up") /\ At(r, "idle")
  /\ Begin
  /\ job' = [job EXCEPT ![r] =
               [NoJob EXCEPT !.op = op, !.section = t, !.orig = orig,
                  !.provider = [name |-> n,
                                secret |-> [text |-> s, under |-> NoKey]],
                  !.idx = Index(Shared, t, orig)]]
  /\ Goto(r, "apply")
  /\ overlap' = (overlap \/ Busy)
  /\ UNCHANGED <<file, mem, sealed, made, may, torn, cut>>

\* errAuthDuplicate, errAuthNotFound and the errors of Validate change nothing.
Create(r, t, n, s) ==
  /\ Index(Shared, t, n) = 0
  /\ Accept(r, "create", t, n, n, s)

Update(r, t, orig, n, s) ==
  /\ Index(Shared, t, orig) # 0
  /\ n = orig \/ Index(Shared, t, n) = 0
  /\ Accept(r, "update", t, orig, n, s)

Delete(r, t, orig) ==
  /\ Index(Shared, t, orig) # 0
  /\ Accept(r, "delete", t, orig, orig, Blank)

\* Enables or disables a section, which is saved like the providers.
Toggle(r, t) ==
  Accept(r, "toggle", t, NoJob.orig, NoJob.orig, Blank)

\* A secret left out, or sent back as the mask, is kept.
Kept(secret, old) == IF secret.text \in {Blank, Mask} THEN old ELSE secret

Without(s, i) == SubSeq(s, 1, i - 1) \o SubSeq(s, i + 1, Len(s))

Edited(s, j) ==
  CASE j.op = "create" -> Append(s, j.provider)
    [] j.op = "update" ->
         [s EXCEPT ![j.idx] =
            [j.provider EXCEPT !.secret = Kept(@, s[j.idx].secret)]]
    [] j.op = "delete" -> Without(s, j.idx)
    [] OTHER -> s

Wanted(c, j) ==
  CASE j.op = "delete" -> NoProvider
    [] j.op = "update" /\ j.provider.secret.text \in {Blank, Mask} ->
         Lookup(c, j.section, j.orig)
    [] OTHER -> j.provider.secret.text

\* The index is that of the check.
Apply(r) ==
  LET j == [job[r] EXCEPT !.want = Wanted(Shared, job[r])]
      c == [Shared EXCEPT !.auth[j.section] = Edited(@, j)]
  IN /\ At(r, "apply")
     /\ j.op \in {"update", "delete"}
          => j.idx <= Len(Shared.auth[j.section])
     /\ mem' = [mem EXCEPT ![Server] = c]
     /\ may' = IF j.op = "toggle" THEN may
               ELSE [may EXCEPT ![j.section] = [n \in Names |->
                       IF n \in Touched(j)
                       THEN @[n] \cup {Outcome(j, n)} ELSE @[n]]]
     /\ job' = [job EXCEPT ![r] = j]
     /\ Goto(r, "encrypt")
     /\ UNCHANGED <<file, sealed, made, left, torn, overlap, cut>>

\* The section has become shorter: index out of range, net/http recovers.
Panic(r) ==
  LET j == job[r]
  IN /\ At(r, "apply")
     /\ j.op \in {"update", "delete"}
     /\ j.idx > Len(Shared.auth[j.section])
     /\ Finish(r, FALSE)
     /\ UNCHANGED <<file, mem, sealed, made, left, history>>

Encrypted_Again(secret, k) ==
  IF secret.text = Blank THEN secret
  ELSE IF secret.under = NoKey THEN [secret EXCEPT !.under = k]
  ELSE [text |-> secret, under |-> k]

\* encryptOne: empty and already encrypted secrets stay as they are.
Encrypted(secret, k) ==
  IF secret.text = Blank \/ secret.under # NoKey THEN secret
  ELSE [secret EXCEPT !.under = k]

EncryptSecrets_FirstOnly(auth, k) ==
  [t \in Sections |->
    [i \in DOMAIN auth[t] |->
       IF i > 1 THEN auth[t][i]
       ELSE [auth[t][i] EXCEPT !.secret = Encrypted(@, k)]]]

EncryptSecrets(auth, k) ==
  [t \in Sections |->
    [i \in DOMAIN auth[t] |->
       [auth[t][i] EXCEPT !.secret = Encrypted(@, k)]]]

\* persistAuth encrypts the secrets of all sections in place, ...  The loops over
\* them are one step: only an overlapping edit could come between, and then the
\* properties promise no more than that no other key is used.
Encrypt(r) ==
  /\ At(r, "encrypt")
  /\ mem' = [mem EXCEPT ![Server].auth = EncryptSecrets(@, Shared.key)]
  /\ Goto(r, "marshal")
  /\ UNCHANGED <<file, job, sealed, made, left, history>>

\* ... and saves what the configuration is by then.
Marshal(r) ==
  /\ At(r, "marshal")
  /\ job' = [job EXCEPT ![r].buf = Shared]
  /\ Goto(r, "open")
  /\ UNCHANGED <<file, mem, sealed, made, left, history>>

ProviderRequest(r) ==
  \/ \E t \in Sections, n \in Names, s \in Texts : Create(r, t, n, s)
  \/ \E t \in Sections, orig, n \in Names, s \in Texts :
       Update(r, t, orig, n, s)
  \/ \E t \in Sections, n \in Names : Delete(r, t, n)
  \/ \E t \in Sections : Toggle(r, t)

-----------------------------------------------------------------------------
Boot(p) ==
  \/ LoadWithoutKey(p)
  \/ LoadFile(p)
  \/ \E env \in Ports \cup {Unset} : Override(p, env)
  \/ Exit(p)

Save(w) == Truncate(w) \/ Write(w) \/ OpenFails(w) \/ WriteFails(w)

Next ==
  \/ \E p \in Processes : Boot(p)
  \/ \E w \in Writers : Save(w)
  \/ Seal
  \/ \E r \in Requests :
       ProviderRequest(r) \/ Apply(r) \/ Panic(r) \/ Encrypt(r) \/ Marshal(r)

Spec == Init /\ [][Next]_vars
=============================================================================
