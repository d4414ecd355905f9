----------------------------- MODULE ShortLinks ------------------------------
(***************************************************************************)
(* Short links: the urls and clicks tables, the requests of URLHandler     *)
(* (src/server/handler/url.go) that run concurrently on them through       *)
(* URLService (src/server/service/url.go), the goroutines that record      *)
(* clicks, and the expire_urls task of the scheduler.  The GraphQL         *)
(* resolvers and the bulk import take the same steps.                      *)
(*                                                                         *)
(* Every SQL statement is one step; what a handler does between two        *)
(* statements is part of the step before.  A link is identified by its id, *)
(* which AUTOINCREMENT never reuses.  Of the columns a request can change  *)
(* three are kept: url (long_url, and all others that are only copied),    *)
(* password (password_hash) and expires_at.                                *)
(***************************************************************************)
EXTENDS Integers, FiniteSets

CONSTANTS
  Requests,         \* concurrent HTTP requests
  Codes,            \* valid short codes, custom or random
  Owners,           \* users and organizations that own links
  Admin,            \* the caller with an admin token
  Urls, Passwords,
  Lifetimes,        \* distances to the expirations a request may ask for
  NoCode, NoOwner, NoPassword, NoColumns, Never,
  Zone,             \* how far the server's local time is ahead of UTC
  MaxId,            \* bound on the links ever created
  Workers,          \* capacity of clickRecordWorkers
  MaxFollows        \* bound on the redirects counted per link

Ids    == 1..MaxId
NoId   == 0
Slots  == 1..Workers
Fields == {"url", "password", "expires_at"}
Past   == IF Zone > 0 THEN -1 - Zone ELSE -1  \* instants before it are alike

ASSUME LinksAssumption ==
  /\ MaxId \in Nat /\ Workers \in Nat /\ MaxFollows \in Nat
  /\ Lifetimes \subseteq Nat /\ Zone \in Int
  /\ NoCode \notin Codes /\ NoPassword \notin Passwords
  /\ NoOwner \notin Owners /\ Admin \notin Owners \cup {NoOwner}

VARIABLES
  nextId,   \* the id the next INSERT gets
  code,     \* code[i]: short_code of link i, NoCode when there is no row i
  owner,    \* owner[i]: user_id or org_id, NoOwner for an anonymous link
  cols,     \* cols[i]: the columns a request can change
  clicks,   \* clicks[i]: rows of the clicks table with url_id i
  req,      \* req[r]: the next step of request r and its local variables
  slot,     \* slot[k]: link whose click worker k records, NoId when free
  follows,  \* history: follows[i], how often link i redirected a visitor
  since     \* history: since[r], columns changed after r's SELECT of them

links   == <<nextId, code, owner, cols>>
history == <<follows, since>>
vars    == <<links, clicks, req, slot, history>>

\* An instant: its distance from now, and the distance its text has from now
\* when the zone in it is ignored, as SQLite does in a comparison.
Expiries == [at: Int, text: Int] \cup {Never}
Columns  == [url: Urls, password: Passwords \cup {NoPassword},
             expires_at: Expiries]

\* A SELECT without a result is not mistaken for a row.
ASSUME ColumnsAssumption == NoColumns \notin Columns

Request  ==
  [pc: {"idle", "insert", "read", "write", "delete", "gate"},
   who: Owners \cup {Admin, NoOwner},        \* caller; NoOwner is anonymous
   on: Codes \cup {NoCode},                  \* the short code in the path
   body: Passwords \cup {NoPassword},        \* the password in the request
   fields: SUBSET Fields,                    \* what a PATCH asks to change
   seen: Ids \cup {NoId},                    \* id the first SELECT found
   got: Columns \cup {NoColumns}]            \* columns the SELECT returned
Idle ==
  [pc |-> "idle", who |-> NoOwner, on |-> NoCode, body |-> NoPassword,
   fields |-> {}, seen |-> NoId, got |-> NoColumns]

Row(i)      == code[i] # NoCode
Bound(c)    == {i \in Ids : code[i] = c}
At(r, step) == req[r].pc = step
Holds(r)    == At(r, "write") \/ At(r, "gate")   \* r works on a copy of a row
Expired(e)  == e # Never /\ e.at < 0

TypeOK ==
  /\ nextId \in 1..(MaxId + 1)
  /\ code \in [Ids -> Codes \cup {NoCode}]
  /\ owner \in [Ids -> Owners \cup {NoOwner}]
  /\ cols \in [Ids -> Columns \cup {NoColumns}]
  /\ \A i \in Ids : Row(i) => cols[i] \in Columns
  /\ clicks \in [Ids -> Nat]
  /\ req \in [Requests -> Request]
  /\ \A r \in Requests : ~At(r, "idle") => req[r].on \in Codes
  /\ \A r \in Requests : Holds(r) => req[r].got \in Columns
  /\ slot \in [Slots -> Ids \cup {NoId}]
  /\ follows \in [Ids -> Nat]
  /\ since \in [Requests -> SUBSET Fields]

Init ==
  /\ nextId = 1
  /\ code = [i \in Ids |-> NoCode]
  /\ owner = [i \in Ids |-> NoOwner]
  /\ cols = [i \in Ids |-> NoColumns]
  /\ clicks = [i \in Ids |-> 0]
  /\ req = [r \in Requests |-> Idle]
  /\ slot = [k \in Slots |-> NoId]
  /\ follows = [i \in Ids |-> 0]
  /\ since = [r \in Requests |-> {}]

Answer(r) == req' = [req EXCEPT ![r] = Idle]

\* The other requests that hold a copy of the link of c miss a change of F.
Missed(r, c, F) ==
  since' = [q \in Requests |->
              IF q = r THEN {}
              ELSE IF Holds(q) /\ req[q].on = c THEN since[q] \cup F
              ELSE since[q]]

-----------------------------------------------------------------------------
(* CreateURL, CreateURLForUser and CreateURLForOrg *)

\* The SELECT EXISTS of the custom or random code c.  A custom code that is
\* taken is a conflict; of a random one there is a next of ten tries.
CheckCode(r, c, w, p) ==
  /\ At(r, "idle")
  /\ Bound(c) = {}
  /\ req' = [req EXCEPT ![r] = [Idle EXCEPT !.pc = "insert", !.who = w,
                                            !.on = c, !.body = p]]
  /\ UNCHANGED <<links, clicks, slot, history>>

\* parseExpiration adds expire_after to the local time; expires_at is an
\* instant in the zone the request wrote it in.
Expiration ==
  {Never} \cup {[at |-> t, text |-> t + z] : t \in Lifetimes, z \in {0, Zone}}

\* The UNIQUE constraint of short_code.
Insertable(c) == nextId <= MaxId /\ Bound(c) = {}

NewLink(r, o, p) ==
  /\ At(r, "insert")
  /\ Insertable(req[r].on)
  /\ nextId' = nextId + 1
  /\ code' = [code EXCEPT ![nextId] = req[r].on]
  /\ owner' = [owner EXCEPT ![nextId] = o]
  /\ \E u \in Urls, e \in Expiration :
       cols' = [cols EXCEPT ![nextId] =
                  [url |-> u, password |-> p, expires_at |-> e]]
  /\ Answer(r)
  /\ Missed(r, req[r].on, Fields)
  /\ UNCHANGED <<clicks, slot, follows>>

InsertLink(r) == req[r].who \notin Owners /\ NewLink(r, NoOwner, req[r].body)

\* The INSERT of an owned link has no password_hash.
InsertOwned(r) == req[r].who \in Owners /\ NewLink(r, req[r].who, NoPassword)

-----------------------------------------------------------------------------
(* UpdateURL and DeleteURL, over a Bearer token or the management page *)

\* checkURLOwnership, ownedURLForUser: the caller owns the link of c.
Owns_Anyone(w, i) == TRUE
Owns(w, i) == owner[i] = w

CheckOwner(r, c, w, next) ==
  /\ At(r, "idle")
  /\ \E i \in Bound(c) :
       /\ Owns(w, i)
       /\ req' = [req EXCEPT ![r] = [Idle EXCEPT !.pc = next, !.who = w,
                                                 !.on = c, !.seen = i]]
  /\ UNCHANGED <<links, clicks, slot, history>>

\* An admin token passes the ownership check without a SELECT.
PassAdmin(r, c, next) ==
  /\ At(r, "idle")
  /\ req' = [req EXCEPT ![r] = [Idle EXCEPT !.pc = next, !.who = Admin,
                                            !.on = c]]
  /\ UNCHANGED <<links, clicks, slot, history>>

\* The body is decoded and UpdateURL reads the row, expired or not.
ReadLink_NoRowIgnored(r) ==
  /\ At(r, "read")
  /\ \E g \in {cols[i] : i \in Bound(req[r].on)} \cup {NoColumns},
        F \in SUBSET Fields :
       req' = [req EXCEPT ![r].pc = "write", ![r].fields = F, ![r].got = g]
  /\ UNCHANGED <<links, clicks, slot, history>>

ReadLink(r) ==
  /\ At(r, "read")
  /\ \E i \in Bound(req[r].on), F \in SUBSET Fields :
       req' = [req EXCEPT ![r].pc = "write", ![r].fields = F,
                          ![r].got = cols[i]]
  /\ UNCHANGED <<links, clicks, slot, history>>

\* The fields of the request replace those of the copy.
Merged_Cleared(r, new) ==
  LET F == req[r].fields  g == req[r].got
  IN [url        |-> IF "url" \in F THEN new.url ELSE g.url,
      password   |-> IF "password" \in F THEN new.password ELSE NoPassword,
      expires_at |-> IF "expires_at" \in F THEN new.expires_at
                     ELSE g.expires_at]
Merged(r, new) ==
  LET F == req[r].fields  g == req[r].got
  IN [url        |-> IF "url" \in F THEN new.url ELSE g.url,
      password   |-> IF "password" \in F THEN new.password ELSE g.password,
      expires_at |-> IF "expires_at" \in F THEN new.expires_at
                     ELSE g.expires_at]

\* UPDATE of all columns WHERE short_code = ?
WriteLink(r) ==
  /\ At(r, "write")
  /\ \E new \in [url: Urls, password: Passwords \cup {NoPassword},
                 expires_at: Expiration] :
       /\ cols' = [i \in Ids |-> IF i \in Bound(req[r].on)
                                 THEN Merged(r, new) ELSE cols[i]]
       /\ Missed(r, req[r].on,
                 {f \in Fields : \E i \in Bound(req[r].on) :
                                   Merged(r, new)[f] # cols[i][f]})
  /\ Answer(r)
  /\ UNCHANGED <<nextId, code, owner, clicks, slot, follows>>

\* DELETE of some links; their clicks go with them (ON DELETE CASCADE).
Remove(S) ==
  /\ code' = [i \in Ids |-> IF i \in S THEN NoCode ELSE code[i]]
  /\ owner' = [i \in Ids |-> IF i \in S THEN NoOwner ELSE owner[i]]
  /\ cols' = [i \in Ids |-> IF i \in S THEN NoColumns ELSE cols[i]]
  /\ clicks' = [i \in Ids |-> IF i \in S THEN 0 ELSE clicks[i]]
  /\ UNCHANGED <<nextId, slot, history>>

DeleteLink(r) ==
  /\ At(r, "delete")
  /\ Remove(Bound(req[r].on))
  /\ Answer(r)

-----------------------------------------------------------------------------
(* RedirectURL and the recording of clicks *)

\* GetURLByCode on the main host (d = NoOwner), GetURLByCodeForOwner on a
\* custom domain of d.
Visible_Unscoped(i, d) == ~Expired(cols[i].expires_at)
Visible(i, d) ==
  /\ d # NoOwner => owner[i] = d
  /\ ~Expired(cols[i].expires_at)

Lookup(r, c, d, p) ==
  /\ At(r, "idle")
  /\ \E i \in Bound(c) :
       /\ Visible(i, d)
       /\ req' = [req EXCEPT ![r] =
                    [Idle EXCEPT !.pc = "gate", !.who = d, !.on = c,
                                 !.body = p, !.seen = i, !.got = cols[i]]]
  /\ UNCHANGED <<links, clicks, slot, history>>

\* URLRequiresPassword and unlockURLOrPrompt.
Unlocked(r) == req[r].got.password \in {NoPassword, req[r].body}

\* A click is dropped when all workers are busy.
Redirect(r) ==
  LET i == req[r].seen
  IN /\ At(r, "gate")
     /\ Unlocked(r)
     /\ follows[i] < MaxFollows
     /\ follows' = [follows EXCEPT ![i] = @ + 1]
     /\ \/ \E k \in Slots : slot[k] = NoId /\ slot' = [slot EXCEPT ![k] = i]
        \/ (\A k \in Slots : slot[k] # NoId) /\ UNCHANGED slot
     /\ Answer(r)
     /\ since' = [since EXCEPT ![r] = {}]
     /\ UNCHANGED <<links, clicks>>

\* The link a click is recorded for: url_id is a foreign key.
Counted(k) == {j \in {slot[k]} : j # NoId /\ Row(j)}

\* RecordClick inserts the click, or fails, or runs into its 5 s timeout.
RecordClick(k) ==
  /\ slot[k] # NoId
  /\ slot' = [slot EXCEPT ![k] = NoId]
  /\ \/ \E j \in Counted(k) : clicks' = [clicks EXCEPT ![j] = @ + 1]
     \/ UNCHANGED clicks
  /\ UNCHANGED <<links, req, history>>

-----------------------------------------------------------------------------
(* Failures, the expire_urls task, and time *)

\* A check fails, a statement fails, or the client goes away.
Abort(r) ==
  /\ ~At(r, "idle")
  /\ Answer(r)
  /\ since' = [since EXCEPT ![r] = {}]
  /\ UNCHANGED <<links, clicks, slot, follows>>

\* expires_at < now, as text: the zone of expires_at is not looked at.
Swept(e) == e # Never /\ e.text < 0

ExpireURLs ==
  /\ Remove({i \in Ids : Row(i) /\ Swept(cols[i].expires_at)})
  /\ UNCHANGED req

Earlier(e) == IF e = Never \/ e.at <= Past THEN e
              ELSE [at |-> e.at - 1, text |-> e.text - 1]
Aged(g)    == IF g = NoColumns THEN g
              ELSE [g EXCEPT !.expires_at = Earlier(@)]

Tick ==
  /\ cols' = [i \in Ids |-> Aged(cols[i])]
  /\ req' = [r \in Requests |-> [req[r] EXCEPT !.got = Aged(@)]]
  /\ UNCHANGED <<nextId, code, owner, clicks, slot, history>>

Next ==
  \/ \E r \in Requests :
       \/ \E c \in Codes :
            \/ \E w \in Owners \cup {Admin, NoOwner},
                  p \in Passwords \cup {NoPassword} : CheckCode(r, c, w, p)
            \/ \E next \in {"read", "delete"} :
                 \/ \E w \in Owners : CheckOwner(r, c, w, next)
                 \/ PassAdmin(r, c, next)
            \/ \E d \in Owners \cup {NoOwner},
                  p \in Passwords \cup {NoPassword} : Lookup(r, c, d, p)
       \/ InsertLink(r) \/ InsertOwned(r)
       \/ ReadLink(r) \/ WriteLink(r)
       \/ DeleteLink(r)
       \/ Redirect(r)
       \/ Abort(r)
  \/ \E k \in Slots : RecordClick(k)
  \/ ExpireURLs
  \/ Tick

Spec == Init /\ [][Next]_vars
=============================================================================
