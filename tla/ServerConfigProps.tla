-------------------------- MODULE ServerConfigProps --------------------------
(***************************************************************************)
(* What server.yml owes the server: the properties checked on ServerConfig.*)
(* ServerConfigProofs proves them; ProvidersKept and NamesIdentify if the  *)
(* file the first process finds names its providers uniquely.              *)
(***************************************************************************)
EXTENDS ServerConfig

SecretsOf(c) ==
  UNION {{c.auth[t][i].secret : i \in DOMAIN c.auth[t]} : t \in Sections}

Plain(secret) == secret.text # Blank /\ secret.under = NoKey

\* EncryptSecrets and the order of the sections in the file: no secret in
\* server.yml or in memory was encrypted with a key other than the one beside
\* it, however Saves are interleaved, cut short or begun from a new key.
OneKey ==
  \A c \in {mem[p] : p \in Processes} \cup ({file} \ {NoFile, Garbled}) :
    \A x \in SecretsOf(c) : x.under \in {NoKey, c.key}

\* "Persist it so it survives a restart" (Load): what the databases hold can
\* be decrypted by the running server, unless some process loaded server.yml
\* in the middle of a Save or after one that did not complete.
SealedReadable ==
  At(Server, "up") /\ ~torn => sealed \subseteq {mem[Server].key}

\* "Encrypted at rest": no secret is in server.yml in the clear, unless two
\* edits overlapped (one may save what the other has not yet encrypted).
EncryptedAtRest ==
  Parsed /\ ~overlap => \A x \in SecretsOf(file) : ~Plain(x)

\* A restart finds what was acknowledged: of every provider the file holds
\* the state of the last edit answered with success, or of a later one that
\* failed, if edits came one at a time and no Save was cut short.
ProvidersKept ==
  Parsed /\ ~Saving /\ ~overlap /\ ~torn /\ ~cut
  => \A t \in Sections, n \in Names : Lookup(file, t, n) \in may[t][n]

\* Provider names identify a provider, in memory and in the file, if edits
\* came one at a time: the check for duplicates and the append are apart.
NamesIdentify ==
  ~overlap
  => \A c \in {mem[p] : p \in Processes} \cup ({file} \ {NoFile, Garbled}),
        t \in Sections :
       LET s == c.auth[t]
       IN \A i, j \in DOMAIN s : s[i].name = s[j].name => i = j

-----------------------------------------------------------------------------
(* The same without the conditions: each fails, see the README. *)

\* "Persist it so it survives a restart" (Load), whoever loads and whenever.
KeySurvives ==
  At(Server, "up") => sealed \subseteq {mem[Server].key}

\* "Reversible secrets are encrypted at rest via EncryptSecrets", also when
\* edits overlap.
AlwaysEncrypted ==
  Parsed => \A x \in SecretsOf(file) : ~Plain(x)

\* A saved edit is there after a restart, also when edits overlap.
EditsSurvive ==
  Parsed /\ ~Saving /\ ~torn /\ ~cut
  => \A t \in Sections, n \in Names : Lookup(file, t, n) \in may[t][n]
=============================================================================
