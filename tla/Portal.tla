------------------------------- MODULE Portal -------------------------------
(***************************************************************************)
(* Accounts and what opens them: the student portal's logins, sessions and *)
(* key rotation, the admin API and the command line tool beside it, and    *)
(* API requests that authenticate with a key.                              *)
(*                                                                         *)
(* A handler runs in a thread of its own: what it has read may be stale    *)
(* when it commits.  One action is one commit, or one query whose result   *)
(* is used later.  A login reaches resolve_user only with the identity the *)
(* directory confirmed (LoginGate).  A session is a signed cookie in the   *)
(* browser; the server keeps nothing of it.                                *)
(***************************************************************************)
EXTENDS Naturals, FiniteSets

CONSTANTS
  People,         \* usernames
  Keys,           \* API keys that may be issued
  Requests,       \* threads that handle requests
  AutoProvision,  \* portal.auto_provision
  DefaultGrant,   \* whether portal.default_grant_tokens is positive
  MaxFaults,      \* bound: first logins that fail between their two commits
  Nobody          \* the owner of a key that was not issued

ASSUME PortalAssumption ==
  /\ AutoProvision \in BOOLEAN /\ DefaultGrant \in BOOLEAN
  /\ MaxFaults \in Nat
  /\ Nobody \notin People

VARIABLES
  account,        \* users.is_active ("none": no row)
  provisioned,    \* accounts a first login created
  grants,         \* automatic grants in the ledger of an account
  owner,          \* api_keys.user_id
  revoked,        \* keys whose revoked_at is set
  cookie,         \* people whose browser holds an unexpired session
  page,           \* what that browser shows or is redirected to
  request,        \* the requests being handled
  faults          \* first logins that failed so far

dbVars == <<account, provisioned, grants, owner, revoked>>
browserVars == <<cookie, page>>
vars == <<dbVars, browserVars, request, faults>>

Free == [at |-> "idle", who |-> Nobody, old |-> {}, seen |-> {}, barred |-> {}]

Pages == {"/portal/", "/portal/login", "form", "dashboard"}

TypeOK ==
  /\ account \in [People -> {"none", "active", "disabled"}]
  /\ provisioned \subseteq People
  /\ grants \in [People -> Nat]
  /\ owner \in [Keys -> People \cup {Nobody}]
  /\ revoked \subseteq Keys
  /\ cookie \subseteq People
  /\ page \in [People -> Pages]
  /\ request \in [Requests ->
       [at : {"idle", "lookup", "insert", "grant", "cookie", "session", "query",
              "rotate", "key", "user", "act", "create"},
        who : People \cup {Nobody}, old : SUBSET Keys, seen : SUBSET Keys,
        barred : SUBSET {"disabled", "revoked"}]]
  /\ faults \in 0..MaxFaults

Init ==
  /\ account = [p \in People |-> "none"]
  /\ provisioned = {}
  /\ grants = [p \in People |-> 0]
  /\ owner = [k \in Keys |-> Nobody]
  /\ revoked = {}
  /\ cookie = {}
  /\ page = [p \in People |-> "form"]
  /\ request = [r \in Requests |-> Free]
  /\ faults = 0

ActiveKeys(p) == {k \in Keys : owner[k] = p /\ k \notin revoked}

Unused == {k \in Keys : owner[k] = Nobody}

(* generate_api_key: a fresh random key; which one makes no difference.    *)
NewKey == CHOOSE k \in Keys : k \in Unused

IssueTo(p) == Unused # {} /\ owner' = [owner EXCEPT ![NewKey] = p]

Disabled(p) == {x \in {"disabled"} : account[p] = "disabled"}

(* A request arrives; barred says why the credentials it came with were    *)
(* not valid even then, and old is what a rotation has to revoke.          *)
Arrive(r, p, at, seen, barred) ==
  /\ request[r].at = "idle"
  /\ request' = [request EXCEPT ![r] =
       [at |-> at, who |-> p, seen |-> seen, barred |-> barred,
        old |-> IF at = "session" THEN ActiveKeys(p) ELSE {}]]

Proceed(r, at) ==
  request' = [request EXCEPT ![r] = IF at = "idle" THEN Free ELSE [@ EXCEPT !.at = at]]

-----------------------------------------------------------------------------
(* Logging in: login_submit from authenticate to the session cookie.       *)

LoginArrives(r, p) ==
  /\ page[p] = "form"
  /\ Arrive(r, p, "lookup", {}, Disabled(p))
  /\ UNCHANGED <<dbVars, browserVars, faults>>

(* resolve_user: the account is looked up; a disabled account, or none     *)
(* when auto_provision is off, is denied.                                  *)
Lookup(r) ==
  LET found == account[request[r].who] IN
  /\ request[r].at = "lookup"
  /\ Proceed(r, IF found = "active" THEN "cookie"
                ELSE IF found = "none" /\ AutoProvision THEN "insert" ELSE "idle")
  /\ UNCHANGED <<dbVars, browserVars, faults>>

(* Variant: usernames are not unique.                                      *)
InsertAgain(r) ==
  LET p == request[r].who IN
  /\ request[r].at = "insert"
  /\ account' = [account EXCEPT ![p] = "active"]
  /\ provisioned' = provisioned \cup {p}
  /\ Proceed(r, IF DefaultGrant THEN "grant" ELSE "cookie")
  /\ UNCHANGED <<grants, owner, revoked, browserVars, faults>>

(* The account and its budget row are committed, or the unique username    *)
(* refuses the insert and the request fails.                               *)
Insert(r) ==
  LET p == request[r].who IN
  /\ request[r].at = "insert"
  /\ \/ /\ account[p] = "none"
        /\ account' = [account EXCEPT ![p] = "active"]
        /\ provisioned' = provisioned \cup {p}
        /\ Proceed(r, IF DefaultGrant THEN "grant" ELSE "cookie")
     \/ /\ account[p] # "none"
        /\ Proceed(r, "idle")
        /\ UNCHANGED <<account, provisioned>>
  /\ UNCHANGED <<grants, owner, revoked, browserVars, faults>>

(* The automatic grant, a commit of its own.                               *)
Grant(r) ==
  /\ request[r].at = "grant"
  /\ grants' = [grants EXCEPT ![request[r].who] = @ + 1]
  /\ Proceed(r, "cookie")
  /\ UNCHANGED <<account, provisioned, owner, revoked, browserVars, faults>>

SetCookie(r) ==
  LET p == request[r].who IN
  /\ request[r].at = "cookie"
  /\ cookie' = cookie \cup {p}
  /\ page' = [page EXCEPT ![p] = "/portal/"]
  /\ Proceed(r, "idle")
  /\ UNCHANGED <<dbVars, faults>>

-----------------------------------------------------------------------------
(* Pages.                                                                  *)

Visit(p) ==
  /\ page[p] \in {"form", "dashboard"}
  /\ page' = [page EXCEPT ![p] = "/portal/"]
  /\ UNCHANGED <<dbVars, cookie, request, faults>>

(* Variant: the session's user is not looked up again.                     *)
SessionUser(p) == p \in cookie

(* _current_user: the cookie is valid and its user still active.           *)
CurrentUser(p) == p \in cookie /\ account[p] = "active"

(* Variant: a logged-in browser is always sent to the dashboard's page.    *)
TargetPortal(p) == IF page[p] = "/portal/" /\ CurrentUser(p) THEN "dashboard"
                   ELSE IF page[p] = "/portal/" THEN "/portal/login" ELSE "/portal/"

(* Where the server sends the browser: the dashboard needs an active user, *)
(* but the login form is only shown to a browser without a session.        *)
Target(p) ==
  CASE page[p] = "/portal/" -> IF CurrentUser(p) THEN "dashboard" ELSE "/portal/login"
    [] page[p] = "/portal/login" -> IF p \in cookie THEN "/portal/" ELSE "form"

Follow(p) ==
  /\ page[p] \in {"/portal/", "/portal/login"}
  /\ page' = [page EXCEPT ![p] = Target(p)]
  /\ UNCHANGED <<dbVars, cookie, request, faults>>

(* logout deletes the cookie of a current user and of nobody else.         *)
Logout(p) ==
  /\ page[p] = "dashboard"
  /\ cookie' = IF CurrentUser(p) THEN cookie \ {p} ELSE cookie
  /\ page' = [page EXCEPT ![p] = "/portal/login"]
  /\ UNCHANGED <<dbVars, request, faults>>

(* session_lifetime_minutes are over.                                      *)
Expire(p) ==
  /\ p \in cookie
  /\ cookie' = cookie \ {p}
  /\ UNCHANGED <<dbVars, page, request, faults>>

-----------------------------------------------------------------------------
(* Keys.                                                                   *)

(* rotate_api_key: the session's user is checked, then his keys are read,  *)
(* then one commit revokes what was read and adds a key.                   *)
RotateArrives(r, p) ==
  /\ page[p] = "dashboard" /\ p \in cookie
  /\ Arrive(r, p, "session", {}, Disabled(p))
  /\ UNCHANGED <<dbVars, browserVars, faults>>

CheckSession(r) ==
  /\ request[r].at = "session"
  /\ Proceed(r, IF CurrentUser(request[r].who) THEN "query" ELSE "idle")
  /\ UNCHANGED <<dbVars, browserVars, faults>>

(* Variant: one active key is read instead of all of them.                 *)
ReadOneKey(r) ==
  /\ request[r].at = "query"
  /\ request' = [request EXCEPT ![r].at = "rotate",
       ![r].seen = {CHOOSE k \in Keys : ActiveKeys(request[r].who) # {} =>
                                          k \in ActiveKeys(request[r].who)}]
  /\ UNCHANGED <<dbVars, browserVars, faults>>

ReadKeys(r) ==
  /\ request[r].at = "query"
  /\ request' = [request EXCEPT ![r].at = "rotate",
                                ![r].seen = ActiveKeys(request[r].who)]
  /\ UNCHANGED <<dbVars, browserVars, faults>>

Rotate(r) ==
  /\ request[r].at = "rotate" /\ IssueTo(request[r].who)
  /\ revoked' = revoked \cup request[r].seen
  /\ Proceed(r, "idle")
  /\ UNCHANGED <<account, provisioned, grants, browserVars, faults>>

(* create_api_key of the admin API and the keys the command line tool      *)
(* issues, each in a commit of its own.                                    *)
CreateKey(p) ==
  /\ account[p] # "none" /\ IssueTo(p)
  /\ UNCHANGED <<account, provisioned, grants, revoked, browserVars, request, faults>>

RevokeKey(k) ==
  /\ owner[k] # Nobody /\ k \notin revoked
  /\ revoked' = revoked \cup {k}
  /\ request' = request
  /\ UNCHANGED <<account, provisioned, grants, owner, browserVars, faults>>

(* get_current_user: the key is looked up and must not be revoked, then    *)
(* its user, who must be active; the request acts later.                   *)
ApiArrives(r, k) ==
  /\ owner[k] # Nobody
  /\ Arrive(r, owner[k], "key", {k},
            Disabled(owner[k]) \cup {x \in {"revoked"} : k \in revoked})
  /\ UNCHANGED <<dbVars, browserVars, faults>>

CheckKey(r) ==
  /\ request[r].at = "key"
  /\ Proceed(r, IF request[r].seen \cap revoked = {} THEN "user" ELSE "idle")
  /\ UNCHANGED <<dbVars, browserVars, faults>>

CheckUser(r) ==
  /\ request[r].at = "user"
  /\ Proceed(r, IF account[request[r].who] = "active" THEN "act" ELSE "idle")
  /\ UNCHANGED <<dbVars, browserVars, faults>>

ApiActs(r) ==
  /\ request[r].at = "act"
  /\ Proceed(r, "idle")
  /\ UNCHANGED <<dbVars, browserVars, faults>>

-----------------------------------------------------------------------------
(* Administration.                                                         *)

(* create_user of the admin API and of the command line tool: the name is  *)
(* looked up, then inserted (the tool's first key is a CreateKey).          *)
CreateArrives(r, p) ==
  /\ account[p] = "none"
  /\ Arrive(r, p, "create", {}, {})
  /\ UNCHANGED <<dbVars, browserVars, faults>>

CreateUser(r) ==
  LET p == request[r].who IN
  /\ request[r].at = "create"
  /\ \/ /\ account[p] = "none"
        /\ account' = [account EXCEPT ![p] = "active"]
     \/ /\ account[p] # "none"
        /\ UNCHANGED account
  /\ Proceed(r, "idle")
  /\ UNCHANGED <<provisioned, grants, owner, revoked, browserVars, faults>>

Disable(p) ==
  /\ account[p] = "active"
  /\ account' = [account EXCEPT ![p] = "disabled"]
  /\ UNCHANGED <<provisioned, grants, owner, revoked, browserVars, request, faults>>

Enable(p) ==
  /\ account[p] = "disabled"
  /\ account' = [account EXCEPT ![p] = "active"]
  /\ request' = [r \in Requests |->
       [request[r] EXCEPT !.barred = IF request[r].who = p THEN @ \ {"disabled"} ELSE @]]
  /\ UNCHANGED <<provisioned, grants, owner, revoked, browserVars, faults>>

(* A request raises, or the process ends: only after the commit of a first *)
(* login's account does that leave anything behind.                        *)
Fails(r) ==
  /\ request[r].at # "idle"
  /\ IF request[r].at = "grant" THEN faults < MaxFaults /\ faults' = faults + 1
                                ELSE UNCHANGED faults
  /\ Proceed(r, "idle")
  /\ UNCHANGED <<dbVars, browserVars>>

Next ==
  \/ \E r \in Requests :
       \/ \E p \in People : LoginArrives(r, p) \/ RotateArrives(r, p) \/ CreateArrives(r, p)
       \/ Lookup(r) \/ Insert(r) \/ Grant(r) \/ SetCookie(r)
       \/ CheckSession(r) \/ ReadKeys(r) \/ Rotate(r)
       \/ CheckKey(r) \/ CheckUser(r) \/ ApiActs(r) \/ Fails(r)
       \/ CreateUser(r)
       \/ \E k \in Keys : ApiArrives(r, k)
  \/ \E p \in People :
       \/ Visit(p) \/ Follow(p) \/ Logout(p) \/ Expire(p)
       \/ Disable(p) \/ Enable(p) \/ CreateKey(p)
  \/ \E k \in Keys : RevokeKey(k)

Spec == Init /\ [][Next]_vars

(* A browser follows the redirects it is sent.                             *)
LiveSpec == Spec /\ \A p \in People : WF_vars(Follow(p))

-----------------------------------------------------------------------------
(* However many first logins of one user meet, fail and are repeated, and  *)
(* whatever an administrator creates meanwhile: the automatic grant is     *)
(* given at most once and only to an account that a login created, and     *)
(* such an account has it, or its login is about to give it, unless a      *)
(* fault came between the two commits (resolve_user).                      *)
OneGrant ==
  \A p \in People :
    LET granting == {r \in Requests : request[r].at = "grant" /\ request[r].who = p}
    IN /\ grants[p] + Cardinality(granting) <= 1
       /\ grants[p] > 0 => p \in provisioned
       /\ p \in provisioned =>
            grants[p] = 1 \/ granting # {} \/ ~DefaultGrant \/ faults > 0

(* A request whose account had been disabled, or whose key revoked, before *)
(* it arrived gets no session, rotates no key and does nothing with the    *)
(* API: a withdrawal only misses the requests it found under way           *)
(* (get_current_user, _current_user, resolve_user).                        *)
BarredDoesNothing ==
  \A r \in Requests : request[r].barred # {} =>
    request[r].at \in {"lookup", "session", "key", "user"}

(* A rotation that succeeds leaves none of the keys active that were       *)
(* active when it arrived, whoever else revokes, issues or rotates keys    *)
(* meanwhile (regenerate_api_key).                                         *)
RotationRevokes ==
  [][\A r \in Requests :
       request[r].at = "rotate" /\ owner' # owner /\ request'[r].at = "idle"
         => request[r].old \subseteq revoked']_vars

(* An account disabled while its session lasts.                            *)
Stranded(p) == p \in cookie /\ account[p] = "disabled"

(* A browser that asks for the portal gets a page, unless its account is   *)
(* disabled while its session lasts: the dashboard then sends it to the    *)
(* login form, and the login form back to the dashboard.                   *)
EveryVisitEnds ==
  \A p \in People :
    page[p] \in {"/portal/", "/portal/login"} ~>
      page[p] \in {"form", "dashboard"} \/ Stranded(p)
=============================================================================
