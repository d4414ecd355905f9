--------------------------- MODULE MCServiceWorker ---------------------------
(* Small instances of ServiceWorker for TLC. *)
EXTENDS ServiceWorkerProps, TLC

CONSTANTS css, js, logo, s1, s2, s3, v1, v2, e1, e2

\* Releases 1 and 2 serve one script, 3 an edited one and 4 one whose cache
\* has a new name.
MCScriptOf == <<s1, s1, s2, s3>>
MCCACHE    == s1 :> v1 @@ s2 :> v1 @@ s3 :> v2


=============================================================================
