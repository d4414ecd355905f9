--------------------------- MODULE ShortLinksProps ---------------------------
(***************************************************************************)
(* What URLService and its handlers owe their callers; ShortLinksProofs    *)
(* proves it for every value of the constants.                             *)
(***************************************************************************)
EXTENDS ShortLinks

\* Request r executes its statement `step` and is answered.
Does(r, step) == At(r, step) /\ At(r, "idle")'

\* The link of code i that a step of some request changes or deletes.
Touched(i) == Row(i) /\ (code'[i] # code[i] \/ cols'[i] # cols[i])

\* Two creations of one code may both find it free (codeExists): still a code
\* never leads to two links.
CodesUnique ==
  \A i, j \in Ids : Row(i) /\ Row(j) /\ code[i] = code[j] => i = j

\* "Bearer callers may only mutate links they own" (UpdateURL, DeleteURL),
\* although the check and the statement are apart and the statement goes by
\* the code: a link is changed or deleted only for its owner, for an
\* administrator, or for someone who owned the code when the request began
\* and whose link was deleted in the meantime.
OwnerOrFormerOwner ==
  [][\A r \in Requests, i \in Ids :
       Touched(i) /\ (Does(r, "write") \/ Does(r, "delete"))
       => \/ req[r].who \in {Admin, owner[i]}
          \/ ~Row(req[r].seen)]_vars

\* A PATCH reads a row, merges and writes all of it back.  A column it was not
\* asked to change is set back only if another request changed it in between.
LostOnlyToOverlap ==
  [][\A r \in Requests, i \in Ids, f \in Fields :
       Row(i) /\ Does(r, "write") /\ f \notin req[r].fields
       /\ cols'[i][f] # cols[i][f]
       => f \in since[r]]_vars

\* A visitor is redirected only over a link of the owner of the domain he
\* came by, and past its password, unless the password was changed between
\* the SELECT and the redirect (RedirectURL).
RedirectsChecked ==
  [][\A r \in Requests :
       LET i == req[r].seen
       IN Does(r, "gate") /\ follows' # follows /\ Row(i)
          => /\ req[r].who \in {NoOwner, owner[i]}
             /\ "password" \in since[r]
                  \/ cols[i].password \in {NoPassword, req[r].body}]_vars

\* Every click in the statistics is a redirect over that very link, not over
\* a later link of the same code, and no redirect is counted twice.
ClicksAreFollows ==
  \A i \in Ids :
    clicks[i] + Cardinality({k \in Slots : slot[k] = i}) <= follows[i]

\* "Deletes URLs whose expires_at has passed" (expireURLs): no other link is
\* deleted without a request, in a server whose local time is UTC.
SweepsOnlyExpired ==
  [][\A i \in Ids :
       Row(i) /\ ~Row(i)' /\ UNCHANGED req
       => Zone # 0 \/ Expired(cols[i].expires_at)]_vars

-----------------------------------------------------------------------------
(* What comments promise and the code does not keep *)

\* "Only fields present in req are changed; nil fields are left as-is"
\* (UpdateURL).
OnlyFieldsSent ==
  [][\A r \in Requests, i \in Ids, f \in Fields :
       Row(i) /\ Does(r, "write") /\ f \notin req[r].fields
       => cols'[i][f] = cols[i][f]]_vars

\* docs/api.md:123 "optional: password-protect the link": a link created with
\* a password has it.
PasswordKept ==
  [][\A r \in Requests, i \in Ids :
       Does(r, "insert") /\ ~Row(i) /\ Row(i)'
       => cols'[i].password = req[r].body]_vars

\* "Deletes URLs whose expires_at has passed" (expireURLs), in any time zone.
SweepsOnlyPast ==
  [][\A i \in Ids :
       Row(i) /\ ~Row(i)' /\ UNCHANGED req => Expired(cols[i].expires_at)]_vars
=============================================================================
