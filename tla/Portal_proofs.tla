----------------------------- MODULE Portal_proofs -----------------------------
(***************************************************************************)
(* Safety of accounts, grants and keys for any number of people, keys and  *)
(* requests at once, and any number of failing first logins.               *)
(*                                                                         *)
(* Each property rests on what a request knows of the state it has read:   *)
(* a pending grant belongs to the one insertion that succeeded, a refused  *)
(* check stays refused, and the keys of a rotation keep their owner.       *)
(***************************************************************************)
EXTENDS Portal, FiniteSetTheorems, TLAPS

(* What a thread knows of its request.                                     *)
Records ==
  [at : {"idle", "lookup", "insert", "grant", "cookie", "session", "query",
         "rotate", "key", "user", "act", "create"},
   who : People \cup {Nobody}, old : SUBSET Keys, seen : SUBSET Keys,
   barred : SUBSET {"disabled", "revoked"}]

WhoInv ==
  \A r \in Requests : request[r].at # "idle" => request[r].who \in People

(* A pending grant is the only one of its account, which has none yet.     *)
GrantInv ==
  /\ \A p \in People : grants[p] \in {0, 1} /\ (grants[p] = 1 => p \in provisioned)
  /\ \A p \in provisioned : account[p] # "none"
  /\ \A r \in Requests : request[r].at = "grant" =>
       request[r].who \in provisioned /\ grants[request[r].who] = 0
  /\ \A r, s \in Requests :
       request[r].at = "grant" /\ request[s].at = "grant" /\ request[r].who = request[s].who
         => r = s
  /\ \A p \in provisioned : \/ grants[p] = 1 \/ ~DefaultGrant \/ faults > 0
                            \/ \E r \in Requests : request[r].at = "grant" /\ request[r].who = p

(* What bars a request still holds when the check for it comes.            *)
BarredInv ==
  \A r \in Requests :
    /\ request[r].barred # {} => request[r].at \in {"lookup", "session", "key", "user"}
    /\ "disabled" \in request[r].barred => account[request[r].who] = "disabled"
    /\ "revoked" \in request[r].barred =>
         request[r].at = "key" /\ request[r].seen \cap revoked # {}

(* The keys that were active when a rotation arrived are still their       *)
(* owner's, and either revoked by now or among those it has read.          *)
RotateInv ==
  \A r \in Requests :
    /\ \A k \in request[r].old : owner[k] = request[r].who /\ owner[k] # Nobody
    /\ request[r].at = "rotate" => request[r].old \subseteq revoked \cup request[r].seen

IndInv == TypeOK /\ WhoInv /\ GrantInv /\ BarredInv /\ RotateInv

-----------------------------------------------------------------------------
LEMMA NewKeyIsUnused ==
  ASSUME Unused # {}
  PROVE  NewKey \in Keys /\ owner[NewKey] = Nobody
BY DEF NewKey, Unused

LEMMA Initially == Init => IndInv
BY PortalAssumption DEF Init, IndInv, TypeOK, WhoInv, GrantInv, BarredInv, RotateInv, Free, Pages

(* The table of requests stays typed when one of them moves on ...         *)
LEMMA ProceedTyped ==
  ASSUME TypeOK, NEW r \in Requests, NEW at,
         at \in {"idle", "insert", "grant", "cookie", "query", "user", "act"}, Proceed(r, at)
  PROVE  request' \in [Requests -> Records]
<1>1. request \in [Requests -> Records]
  BY DEF TypeOK, Records
<1>2. Free \in Records
  BY DEF Free, Records
<1>3. [request[r] EXCEPT !.at = at] \in Records
  BY <1>1 DEF Records
<1> QED  BY <1>1, <1>2, <1>3 DEF Proceed

(* ... and when one arrives.                                               *)
LEMMA ArriveTyped ==
  ASSUME TypeOK, NEW r \in Requests, NEW p \in People \cup {Nobody},
         NEW at \in {"lookup", "session", "key", "create"},
         NEW seen \in SUBSET Keys, NEW barred \in SUBSET {"disabled", "revoked"},
         Arrive(r, p, at, seen, barred)
  PROVE  request' \in [Requests -> Records]
<1>1. request \in [Requests -> Records]
  BY DEF TypeOK, Records
<1>2. ActiveKeys(p) \in SUBSET Keys
  BY DEF ActiveKeys
<1>3. [at |-> at, who |-> p, seen |-> seen, barred |-> barred,
       old |-> IF at = "session" THEN ActiveKeys(p) ELSE {}] \in Records
  BY <1>2 DEF Records
<1> QED  BY <1>1, <1>3 DEF Arrive

(* The types.                                                              *)
LEMMA TypeStep ==
  ASSUME IndInv, [Next]_vars
  PROVE  TypeOK'
<1>1. ASSUME NEW r \in Requests, NEW p \in People, LoginArrives(r, p) PROVE TypeOK'
  <2>1. request' \in [Requests -> Records]
    BY <1>1, ArriveTyped DEF LoginArrives, Disabled, IndInv, TypeOK
  <2> QED
    BY <1>1, <2>1 DEF LoginArrives, IndInv, TypeOK, Records, dbVars, browserVars
<1>2. ASSUME NEW r \in Requests, NEW p \in People, RotateArrives(r, p) PROVE TypeOK'
  <2>1. request' \in [Requests -> Records]
    BY <1>2, ArriveTyped DEF RotateArrives, Disabled, IndInv, TypeOK
  <2> QED
    BY <1>2, <2>1 DEF RotateArrives, IndInv, TypeOK, Records, dbVars, browserVars
<1>3. ASSUME NEW r \in Requests, NEW p \in People, CreateArrives(r, p) PROVE TypeOK'
  <2>1. request' \in [Requests -> Records]
    BY <1>3, ArriveTyped DEF CreateArrives, Disabled, IndInv, TypeOK
  <2> QED
    BY <1>3, <2>1 DEF CreateArrives, IndInv, TypeOK, Records, dbVars, browserVars
<1>4. ASSUME NEW r \in Requests, Lookup(r) PROVE TypeOK'
  <2>1. request' \in [Requests -> Records]
    BY <1>4, ProceedTyped DEF Lookup, IndInv
  <2> QED
    BY <1>4, <2>1 DEF Lookup, IndInv, TypeOK, Records, dbVars, browserVars
<1>5. ASSUME NEW r \in Requests, Insert(r) PROVE TypeOK'
  <2>1. request' \in [Requests -> Records]
    BY <1>5, ProceedTyped DEF Insert, IndInv
  <2> QED
    BY <1>5, <2>1 DEF Insert, IndInv, TypeOK, Records, dbVars, browserVars, WhoInv
<1>6. ASSUME NEW r \in Requests, Grant(r) PROVE TypeOK'
  <2>1. request' \in [Requests -> Records]
    BY <1>6, ProceedTyped DEF Grant, IndInv
  <2>2. grants' \in [People -> Nat]
    <3>1. grants \in [People -> Nat] /\ request[r].who \in People
      BY <1>6 DEF Grant, IndInv, TypeOK, WhoInv
    <3>2. grants[request[r].who] + 1 \in Nat
      BY <3>1
    <3> QED  BY <1>6, <3>1, <3>2 DEF Grant
  <2> QED
    BY <1>6, <2>1, <2>2 DEF Grant, IndInv, TypeOK, Records, dbVars, browserVars
<1>7. ASSUME NEW r \in Requests, SetCookie(r) PROVE TypeOK'
  <2>1. request' \in [Requests -> Records]
    BY <1>7, ProceedTyped DEF SetCookie, IndInv
  <2> QED
    BY <1>7, <2>1 DEF SetCookie, IndInv, TypeOK, Records, dbVars, browserVars, Pages, WhoInv
<1>8. ASSUME NEW r \in Requests, CheckSession(r) PROVE TypeOK'
  <2>1. request' \in [Requests -> Records]
    BY <1>8, ProceedTyped DEF CheckSession, IndInv
  <2> QED
    BY <1>8, <2>1 DEF CheckSession, IndInv, TypeOK, Records, dbVars, browserVars
<1>9. ASSUME NEW r \in Requests, ReadKeys(r) PROVE TypeOK'
  <2>1. \A s \in Requests \ {r} : request'[s] = request[s]
    BY <1>9 DEF ReadKeys, IndInv, TypeOK
  <2>2. request'[r] = [request[r] EXCEPT !.at = "rotate", !.seen = ActiveKeys(request[r].who)]
    BY <1>9 DEF ReadKeys, IndInv, TypeOK
  <2>3. request' = [s \in Requests |-> request'[s]]
    BY <1>9 DEF ReadKeys, IndInv, TypeOK
  <2>4. \A s \in Requests : request'[s] \in Records
    <3>1. ActiveKeys(request[r].who) \in SUBSET Keys /\ \A s \in Requests : request[s] \in Records
      BY DEF ActiveKeys, IndInv, TypeOK, Records
    <3>2. request'[r] \in Records
      BY <2>2, <3>1 DEF Records
    <3> QED  BY <2>1, <3>1, <3>2
  <2> QED
    BY <1>9, <2>3, <2>4 DEF ReadKeys, IndInv, TypeOK, Records, dbVars, browserVars
<1>10. ASSUME NEW r \in Requests, Rotate(r) PROVE TypeOK'
  <2>1. request' \in [Requests -> Records]
    BY <1>10, ProceedTyped DEF Rotate, IndInv
  <2> QED
    BY <1>10, <2>1, NewKeyIsUnused DEF Rotate, IndInv, TypeOK, Records, dbVars, browserVars, IssueTo
<1>11. ASSUME NEW r \in Requests, CheckKey(r) PROVE TypeOK'
  <2>1. request' \in [Requests -> Records]
    BY <1>11, ProceedTyped DEF CheckKey, IndInv
  <2> QED
    BY <1>11, <2>1 DEF CheckKey, IndInv, TypeOK, Records, dbVars, browserVars
<1>12. ASSUME NEW r \in Requests, CheckUser(r) PROVE TypeOK'
  <2>1. request' \in [Requests -> Records]
    BY <1>12, ProceedTyped DEF CheckUser, IndInv
  <2> QED
    BY <1>12, <2>1 DEF CheckUser, IndInv, TypeOK, Records, dbVars, browserVars
<1>13. ASSUME NEW r \in Requests, ApiActs(r) PROVE TypeOK'
  <2>1. request' \in [Requests -> Records]
    BY <1>13, ProceedTyped DEF ApiActs, IndInv
  <2> QED
    BY <1>13, <2>1 DEF ApiActs, IndInv, TypeOK, Records, dbVars, browserVars
<1>14. ASSUME NEW r \in Requests, Fails(r) PROVE TypeOK'
  <2>1. request' \in [Requests -> Records]
    BY <1>14, ProceedTyped DEF Fails, IndInv
  <2> QED
    BY <1>14, <2>1, PortalAssumption DEF Fails, IndInv, TypeOK, Records, dbVars, browserVars
<1>15. ASSUME NEW r \in Requests, CreateUser(r) PROVE TypeOK'
  <2>1. request' \in [Requests -> Records]
    BY <1>15, ProceedTyped DEF CreateUser, IndInv
  <2> QED
    BY <1>15, <2>1 DEF CreateUser, IndInv, TypeOK, Records, dbVars, browserVars
<1>16. ASSUME NEW r \in Requests, NEW k \in Keys, ApiArrives(r, k) PROVE TypeOK'
  <2>1. request' \in [Requests -> Records]
    <3>1. owner[k] \in People \cup {Nobody}
      BY DEF IndInv, TypeOK
    <3>2. Disabled(owner[k]) \cup {x \in {"revoked"} : k \in revoked} \in SUBSET {"disabled", "revoked"}
      BY DEF Disabled
    <3>3. Arrive(r, owner[k], "key", {k}, Disabled(owner[k]) \cup {x \in {"revoked"} : k \in revoked})
      BY <1>16 DEF ApiArrives
    <3> QED  BY <3>1, <3>2, <3>3, ArriveTyped DEF IndInv
  <2> QED
    BY <1>16, <2>1 DEF ApiArrives, IndInv, TypeOK, Records, dbVars, browserVars
<1>17. ASSUME NEW p \in People, Visit(p) PROVE TypeOK'
  BY <1>17 DEF IndInv, WhoInv, TypeOK, dbVars, browserVars, Arrive, Proceed, Free, Visit, Pages
<1>18. ASSUME NEW p \in People, Follow(p) PROVE TypeOK'
  BY <1>18 DEF IndInv, WhoInv, TypeOK, dbVars, browserVars, Arrive, Proceed, Free, Follow, Pages, Target
<1>19. ASSUME NEW p \in People, Logout(p) PROVE TypeOK'
  BY <1>19 DEF IndInv, WhoInv, TypeOK, dbVars, browserVars, Arrive, Proceed, Free, Logout, Pages
<1>20. ASSUME NEW p \in People, Expire(p) PROVE TypeOK'
  BY <1>20 DEF IndInv, WhoInv, TypeOK, dbVars, browserVars, Arrive, Proceed, Free, Expire
<1>21. ASSUME NEW p \in People, Disable(p) PROVE TypeOK'
  BY <1>21 DEF IndInv, WhoInv, TypeOK, dbVars, browserVars, Arrive, Proceed, Free, Disable
<1>22. ASSUME NEW p \in People, Enable(p) PROVE TypeOK'
  <2>1. ASSUME NEW s \in Requests PROVE request'[s] \in Records
    <3>1. request[s] \in Records /\ request[s].barred \ {"disabled"} \in SUBSET {"disabled", "revoked"}
      BY DEF IndInv, TypeOK, Records
    <3> QED  BY <1>22, <3>1 DEF Enable, Records
  <2> QED
    BY <1>22, <2>1 DEF Enable, IndInv, TypeOK, Records, browserVars
<1>23. ASSUME NEW p \in People, CreateKey(p) PROVE TypeOK'
  BY <1>23, NewKeyIsUnused DEF IndInv, WhoInv, TypeOK, dbVars, browserVars, Arrive, Proceed, Free, CreateKey, IssueTo
<1>24. ASSUME NEW k \in Keys, RevokeKey(k) PROVE TypeOK'
  BY <1>24 DEF IndInv, WhoInv, TypeOK, dbVars, browserVars, Arrive, Proceed, Free, RevokeKey
<1>25. CASE UNCHANGED vars
  BY <1>25 DEF IndInv, WhoInv, TypeOK, dbVars, browserVars, Arrive, Proceed, Free, vars
<1> QED
  BY <1>1, <1>2, <1>3, <1>4, <1>5, <1>6, <1>7, <1>8, <1>9, <1>10, <1>11, <1>12, <1>13, <1>14, <1>15, <1>16, <1>17, <1>18, <1>19, <1>20, <1>21, <1>22, <1>23, <1>24, <1>25 DEF Next

(* A request is somebody's.                                                *)
LEMMA WhoStep ==
  ASSUME IndInv, [Next]_vars
  PROVE  WhoInv'
<1>1. ASSUME NEW r \in Requests, NEW p \in People, LoginArrives(r, p) PROVE WhoInv'
  BY <1>1 DEF IndInv, WhoInv, TypeOK, dbVars, browserVars, Arrive, Proceed, Free, LoginArrives
<1>2. ASSUME NEW r \in Requests, NEW p \in People, RotateArrives(r, p) PROVE WhoInv'
  BY <1>2 DEF IndInv, WhoInv, TypeOK, dbVars, browserVars, Arrive, Proceed, Free, RotateArrives
<1>3. ASSUME NEW r \in Requests, NEW p \in People, CreateArrives(r, p) PROVE WhoInv'
  BY <1>3 DEF IndInv, WhoInv, TypeOK, dbVars, browserVars, Arrive, Proceed, Free, CreateArrives
<1>4. ASSUME NEW r \in Requests, Lookup(r) PROVE WhoInv'
  BY <1>4 DEF IndInv, WhoInv, TypeOK, dbVars, browserVars, Arrive, Proceed, Free, Lookup
<1>5. ASSUME NEW r \in Requests, Insert(r) PROVE WhoInv'
  BY <1>5 DEF IndInv, WhoInv, TypeOK, dbVars, browserVars, Arrive, Proceed, Free, Insert
<1>6. ASSUME NEW r \in Requests, Grant(r) PROVE WhoInv'
  BY <1>6 DEF IndInv, WhoInv, TypeOK, dbVars, browserVars, Arrive, Proceed, Free, Grant
<1>7. ASSUME NEW r \in Requests, SetCookie(r) PROVE WhoInv'
  BY <1>7 DEF IndInv, WhoInv, TypeOK, dbVars, browserVars, Arrive, Proceed, Free, SetCookie
<1>8. ASSUME NEW r \in Requests, CheckSession(r) PROVE WhoInv'
  BY <1>8 DEF IndInv, WhoInv, TypeOK, dbVars, browserVars, Arrive, Proceed, Free, CheckSession
<1>9. ASSUME NEW r \in Requests, ReadKeys(r) PROVE WhoInv'
  BY <1>9 DEF IndInv, WhoInv, TypeOK, dbVars, browserVars, Arrive, Proceed, Free, ReadKeys
<1>10. ASSUME NEW r \in Requests, Rotate(r) PROVE WhoInv'
  BY <1>10 DEF IndInv, WhoInv, TypeOK, dbVars, browserVars, Arrive, Proceed, Free, Rotate
<1>11. ASSUME NEW r \in Requests, CheckKey(r) PROVE WhoInv'
  BY <1>11 DEF IndInv, WhoInv, TypeOK, dbVars, browserVars, Arrive, Proceed, Free, CheckKey
<1>12. ASSUME NEW r \in Requests, CheckUser(r) PROVE WhoInv'
  BY <1>12 DEF IndInv, WhoInv, TypeOK, dbVars, browserVars, Arrive, Proceed, Free, CheckUser
<1>13. ASSUME NEW r \in Requests, ApiActs(r) PROVE WhoInv'
  BY <1>13 DEF IndInv, WhoInv, TypeOK, dbVars, browserVars, Arrive, Proceed, Free, ApiActs
<1>14. ASSUME NEW r \in Requests, Fails(r) PROVE WhoInv'
  BY <1>14 DEF IndInv, WhoInv, TypeOK, dbVars, browserVars, Arrive, Proceed, Free, Fails
<1>15. ASSUME NEW r \in Requests, CreateUser(r) PROVE WhoInv'
  BY <1>15 DEF IndInv, WhoInv, TypeOK, dbVars, browserVars, Arrive, Proceed, Free, CreateUser
<1>16. ASSUME NEW r \in Requests, NEW k \in Keys, ApiArrives(r, k) PROVE WhoInv'
  BY <1>16 DEF IndInv, WhoInv, TypeOK, dbVars, browserVars, Arrive, Proceed, Free, ApiArrives
<1>17. ASSUME NEW p \in People, Visit(p) PROVE WhoInv'
  BY <1>17 DEF IndInv, WhoInv, TypeOK, dbVars, browserVars, Arrive, Proceed, Free, Visit
<1>18. ASSUME NEW p \in People, Follow(p) PROVE WhoInv'
  BY <1>18 DEF IndInv, WhoInv, TypeOK, dbVars, browserVars, Arrive, Proceed, Free, Follow
<1>19. ASSUME NEW p \in People, Logout(p) PROVE WhoInv'
  BY <1>19 DEF IndInv, WhoInv, TypeOK, dbVars, browserVars, Arrive, Proceed, Free, Logout
<1>20. ASSUME NEW p \in People, Expire(p) PROVE WhoInv'
  BY <1>20 DEF IndInv, WhoInv, TypeOK, dbVars, browserVars, Arrive, Proceed, Free, Expire
<1>21. ASSUME NEW p \in People, Disable(p) PROVE WhoInv'
  BY <1>21 DEF IndInv, WhoInv, TypeOK, dbVars, browserVars, Arrive, Proceed, Free, Disable
<1>22. ASSUME NEW p \in People, Enable(p) PROVE WhoInv'
  BY <1>22 DEF IndInv, WhoInv, TypeOK, dbVars, browserVars, Arrive, Proceed, Free, Enable
<1>23. ASSUME NEW p \in People, CreateKey(p) PROVE WhoInv'
  BY <1>23 DEF IndInv, WhoInv, TypeOK, dbVars, browserVars, Arrive, Proceed, Free, CreateKey
<1>24. ASSUME NEW k \in Keys, RevokeKey(k) PROVE WhoInv'
  BY <1>24 DEF IndInv, WhoInv, TypeOK, dbVars, browserVars, Arrive, Proceed, Free, RevokeKey
<1>25. CASE UNCHANGED vars
  BY <1>25 DEF IndInv, WhoInv, TypeOK, dbVars, browserVars, Arrive, Proceed, Free, vars
<1> QED
  BY <1>1, <1>2, <1>3, <1>4, <1>5, <1>6, <1>7, <1>8, <1>9, <1>10, <1>11, <1>12, <1>13, <1>14, <1>15, <1>16, <1>17, <1>18, <1>19, <1>20, <1>21, <1>22, <1>23, <1>24, <1>25 DEF Next

(* One insertion of a name succeeds, and only its login grants.            *)
LEMMA GrantStep ==
  ASSUME IndInv, [Next]_vars
  PROVE  GrantInv'
<1>1. ASSUME NEW r \in Requests, NEW p \in People, LoginArrives(r, p) PROVE GrantInv'
  BY <1>1 DEF IndInv, WhoInv, GrantInv, TypeOK, dbVars, browserVars, Arrive, Proceed, Free, LoginArrives
<1>2. ASSUME NEW r \in Requests, NEW p \in People, RotateArrives(r, p) PROVE GrantInv'
  BY <1>2 DEF IndInv, WhoInv, GrantInv, TypeOK, dbVars, browserVars, Arrive, Proceed, Free, RotateArrives
<1>3. ASSUME NEW r \in Requests, NEW p \in People, CreateArrives(r, p) PROVE GrantInv'
  BY <1>3 DEF IndInv, WhoInv, GrantInv, TypeOK, dbVars, browserVars, Arrive, Proceed, Free, CreateArrives
<1>4. ASSUME NEW r \in Requests, Lookup(r) PROVE GrantInv'
  BY <1>4 DEF IndInv, WhoInv, GrantInv, TypeOK, dbVars, browserVars, Arrive, Proceed, Free, Lookup
<1>5. ASSUME NEW r \in Requests, Insert(r) PROVE GrantInv'
  <2>1. CASE account[request[r].who] # "none"
    <3>1. /\ UNCHANGED <<account, provisioned, grants, faults>>
          /\ request' = [request EXCEPT ![r] = Free] /\ request[r].at = "insert"
      BY <1>5, <2>1 DEF Insert, Proceed
    <3>2. /\ request[r].at = "insert" /\ request'[r].at = "idle"
          /\ \A s \in Requests \ {r} : request'[s] = request[s]
      <4>1. DOMAIN request = Requests
        BY DEF IndInv, TypeOK
      <4>2. request'[r] = Free /\ \A s \in Requests \ {r} : request'[s] = request[s]
        BY <3>1, <4>1
      <4> QED  BY <3>1, <4>2 DEF Free
    <3>3. ASSUME NEW s \in Requests
          PROVE  /\ request'[s].at = "grant" <=> request[s].at = "grant"
                 /\ request'[s].at = "grant" => request'[s] = request[s]
      <4>1. CASE s = r
        BY <3>2, <4>1
      <4>2. CASE s # r
        BY <3>2, <4>2
      <4> QED  BY <4>1, <4>2
    <3> QED  BY <3>1, <3>3 DEF IndInv, GrantInv
  <2>2. CASE account[request[r].who] = "none"
    <3> DEFINE p == request[r].who
    <3>1. /\ p \in People /\ p \notin provisioned /\ grants[p] = 0
          /\ \A s \in Requests : request[s].at = "grant" => request[s].who # p
      BY <1>5, <2>2 DEF Insert, IndInv, WhoInv, GrantInv
    <3>2. /\ account' = [account EXCEPT ![p] = "active"]
          /\ provisioned' = provisioned \cup {p} /\ grants' = grants /\ faults' = faults
          /\ \A s \in Requests \ {r} : request'[s] = request[s]
      BY <1>5, <2>2 DEF Insert, Proceed, IndInv, TypeOK
    <3>3. /\ request'[r].who = p
          /\ request'[r].at = IF DefaultGrant THEN "grant" ELSE "cookie"
      BY <1>5, <2>2 DEF Insert, Proceed, IndInv, TypeOK
    <3>4. request[r].at # "grant"
      BY <1>5 DEF Insert
    <3> HIDE DEF p
    <3> QED
      BY <3>1, <3>2, <3>3, <3>4 DEF IndInv, GrantInv, TypeOK
  <2> QED  BY <2>1, <2>2
<1>6. ASSUME NEW r \in Requests, Grant(r) PROVE GrantInv'
  BY <1>6 DEF IndInv, WhoInv, GrantInv, TypeOK, dbVars, browserVars, Arrive, Proceed, Free, Grant
<1>7. ASSUME NEW r \in Requests, SetCookie(r) PROVE GrantInv'
  BY <1>7 DEF IndInv, WhoInv, GrantInv, TypeOK, dbVars, browserVars, Arrive, Proceed, Free, SetCookie
<1>8. ASSUME NEW r \in Requests, CheckSession(r) PROVE GrantInv'
  BY <1>8 DEF IndInv, WhoInv, GrantInv, TypeOK, dbVars, browserVars, Arrive, Proceed, Free, CheckSession
<1>9. ASSUME NEW r \in Requests, ReadKeys(r) PROVE GrantInv'
  BY <1>9 DEF IndInv, WhoInv, GrantInv, TypeOK, dbVars, browserVars, Arrive, Proceed, Free, ReadKeys
<1>10. ASSUME NEW r \in Requests, Rotate(r) PROVE GrantInv'
  BY <1>10 DEF IndInv, WhoInv, GrantInv, TypeOK, dbVars, browserVars, Arrive, Proceed, Free, Rotate
<1>11. ASSUME NEW r \in Requests, CheckKey(r) PROVE GrantInv'
  BY <1>11 DEF IndInv, WhoInv, GrantInv, TypeOK, dbVars, browserVars, Arrive, Proceed, Free, CheckKey
<1>12. ASSUME NEW r \in Requests, CheckUser(r) PROVE GrantInv'
  BY <1>12 DEF IndInv, WhoInv, GrantInv, TypeOK, dbVars, browserVars, Arrive, Proceed, Free, CheckUser
<1>13. ASSUME NEW r \in Requests, ApiActs(r) PROVE GrantInv'
  BY <1>13 DEF IndInv, WhoInv, GrantInv, TypeOK, dbVars, browserVars, Arrive, Proceed, Free, ApiActs
<1>14. ASSUME NEW r \in Requests, Fails(r) PROVE GrantInv'
  BY <1>14, PortalAssumption DEF IndInv, WhoInv, GrantInv, TypeOK, dbVars, browserVars, Arrive, Proceed, Free, Fails
<1>15. ASSUME NEW r \in Requests, CreateUser(r) PROVE GrantInv'
  BY <1>15 DEF IndInv, WhoInv, GrantInv, TypeOK, dbVars, browserVars, Arrive, Proceed, Free, CreateUser
<1>16. ASSUME NEW r \in Requests, NEW k \in Keys, ApiArrives(r, k) PROVE GrantInv'
  BY <1>16 DEF IndInv, WhoInv, GrantInv, TypeOK, dbVars, browserVars, Arrive, Proceed, Free, ApiArrives
<1>17. ASSUME NEW p \in People, Visit(p) PROVE GrantInv'
  BY <1>17 DEF IndInv, WhoInv, GrantInv, TypeOK, dbVars, browserVars, Arrive, Proceed, Free, Visit
<1>18. ASSUME NEW p \in People, Follow(p) PROVE GrantInv'
  BY <1>18 DEF IndInv, WhoInv, GrantInv, TypeOK, dbVars, browserVars, Arrive, Proceed, Free, Follow
<1>19. ASSUME NEW p \in People, Logout(p) PROVE GrantInv'
  BY <1>19 DEF IndInv, WhoInv, GrantInv, TypeOK, dbVars, browserVars, Arrive, Proceed, Free, Logout
<1>20. ASSUME NEW p \in People, Expire(p) PROVE GrantInv'
  BY <1>20 DEF IndInv, WhoInv, GrantInv, TypeOK, dbVars, browserVars, Arrive, Proceed, Free, Expire
<1>21. ASSUME NEW p \in People, Disable(p) PROVE GrantInv'
  BY <1>21 DEF IndInv, WhoInv, GrantInv, TypeOK, dbVars, browserVars, Arrive, Proceed, Free, Disable
<1>22. ASSUME NEW p \in People, Enable(p) PROVE GrantInv'
  BY <1>22 DEF IndInv, WhoInv, GrantInv, TypeOK, dbVars, browserVars, Arrive, Proceed, Free, Enable
<1>23. ASSUME NEW p \in People, CreateKey(p) PROVE GrantInv'
  BY <1>23 DEF IndInv, WhoInv, GrantInv, TypeOK, dbVars, browserVars, Arrive, Proceed, Free, CreateKey
<1>24. ASSUME NEW k \in Keys, RevokeKey(k) PROVE GrantInv'
  BY <1>24 DEF IndInv, WhoInv, GrantInv, TypeOK, dbVars, browserVars, Arrive, Proceed, Free, RevokeKey
<1>25. CASE UNCHANGED vars
  BY <1>25 DEF IndInv, WhoInv, GrantInv, TypeOK, dbVars, browserVars, Arrive, Proceed, Free, vars
<1> QED
  BY <1>1, <1>2, <1>3, <1>4, <1>5, <1>6, <1>7, <1>8, <1>9, <1>10, <1>11, <1>12, <1>13, <1>14, <1>15, <1>16, <1>17, <1>18, <1>19, <1>20, <1>21, <1>22, <1>23, <1>24, <1>25 DEF Next

(* Only Enable lifts what bars a request.                                  *)
LEMMA BarredStep ==
  ASSUME IndInv, [Next]_vars
  PROVE  BarredInv'
<1>1. ASSUME NEW r \in Requests, NEW p \in People, LoginArrives(r, p) PROVE BarredInv'
  BY <1>1 DEF IndInv, WhoInv, BarredInv, Disabled, TypeOK, dbVars, browserVars, Arrive, Proceed, Free, LoginArrives
<1>2. ASSUME NEW r \in Requests, NEW p \in People, RotateArrives(r, p) PROVE BarredInv'
  BY <1>2 DEF IndInv, WhoInv, BarredInv, Disabled, TypeOK, dbVars, browserVars, Arrive, Proceed, Free, RotateArrives
<1>3. ASSUME NEW r \in Requests, NEW p \in People, CreateArrives(r, p) PROVE BarredInv'
  BY <1>3 DEF IndInv, WhoInv, BarredInv, Disabled, TypeOK, dbVars, browserVars, Arrive, Proceed, Free, CreateArrives
<1>4. ASSUME NEW r \in Requests, Lookup(r) PROVE BarredInv'
  BY <1>4 DEF IndInv, WhoInv, BarredInv, Disabled, TypeOK, dbVars, browserVars, Arrive, Proceed, Free, Lookup
<1>5. ASSUME NEW r \in Requests, Insert(r) PROVE BarredInv'
  BY <1>5 DEF IndInv, WhoInv, BarredInv, Disabled, TypeOK, dbVars, browserVars, Arrive, Proceed, Free, Insert
<1>6. ASSUME NEW r \in Requests, Grant(r) PROVE BarredInv'
  BY <1>6 DEF IndInv, WhoInv, BarredInv, Disabled, TypeOK, dbVars, browserVars, Arrive, Proceed, Free, Grant
<1>7. ASSUME NEW r \in Requests, SetCookie(r) PROVE BarredInv'
  BY <1>7 DEF IndInv, WhoInv, BarredInv, Disabled, TypeOK, dbVars, browserVars, Arrive, Proceed, Free, SetCookie
<1>8. ASSUME NEW r \in Requests, CheckSession(r) PROVE BarredInv'
  BY <1>8 DEF IndInv, WhoInv, BarredInv, Disabled, TypeOK, dbVars, browserVars, Arrive, Proceed, Free, CheckSession, CurrentUser
<1>9. ASSUME NEW r \in Requests, ReadKeys(r) PROVE BarredInv'
  BY <1>9 DEF IndInv, WhoInv, BarredInv, Disabled, TypeOK, dbVars, browserVars, Arrive, Proceed, Free, ReadKeys
<1>10. ASSUME NEW r \in Requests, Rotate(r) PROVE BarredInv'
  BY <1>10 DEF IndInv, WhoInv, BarredInv, Disabled, TypeOK, dbVars, browserVars, Arrive, Proceed, Free, Rotate
<1>11. ASSUME NEW r \in Requests, CheckKey(r) PROVE BarredInv'
  BY <1>11 DEF IndInv, WhoInv, BarredInv, Disabled, TypeOK, dbVars, browserVars, Arrive, Proceed, Free, CheckKey
<1>12. ASSUME NEW r \in Requests, CheckUser(r) PROVE BarredInv'
  BY <1>12 DEF IndInv, WhoInv, BarredInv, Disabled, TypeOK, dbVars, browserVars, Arrive, Proceed, Free, CheckUser
<1>13. ASSUME NEW r \in Requests, ApiActs(r) PROVE BarredInv'
  BY <1>13 DEF IndInv, WhoInv, BarredInv, Disabled, TypeOK, dbVars, browserVars, Arrive, Proceed, Free, ApiActs
<1>14. ASSUME NEW r \in Requests, Fails(r) PROVE BarredInv'
  BY <1>14 DEF IndInv, WhoInv, BarredInv, Disabled, TypeOK, dbVars, browserVars, Arrive, Proceed, Free, Fails
<1>15. ASSUME NEW r \in Requests, CreateUser(r) PROVE BarredInv'
  BY <1>15 DEF IndInv, WhoInv, BarredInv, Disabled, TypeOK, dbVars, browserVars, Arrive, Proceed, Free, CreateUser
<1>16. ASSUME NEW r \in Requests, NEW k \in Keys, ApiArrives(r, k) PROVE BarredInv'
  BY <1>16 DEF IndInv, WhoInv, BarredInv, Disabled, TypeOK, dbVars, browserVars, Arrive, Proceed, Free, ApiArrives
<1>17. ASSUME NEW p \in People, Visit(p) PROVE BarredInv'
  BY <1>17 DEF IndInv, WhoInv, BarredInv, Disabled, TypeOK, dbVars, browserVars, Arrive, Proceed, Free, Visit
<1>18. ASSUME NEW p \in People, Follow(p) PROVE BarredInv'
  BY <1>18 DEF IndInv, WhoInv, BarredInv, Disabled, TypeOK, dbVars, browserVars, Arrive, Proceed, Free, Follow
<1>19. ASSUME NEW p \in People, Logout(p) PROVE BarredInv'
  BY <1>19 DEF IndInv, WhoInv, BarredInv, Disabled, TypeOK, dbVars, browserVars, Arrive, Proceed, Free, Logout
<1>20. ASSUME NEW p \in People, Expire(p) PROVE BarredInv'
  BY <1>20 DEF IndInv, WhoInv, BarredInv, Disabled, TypeOK, dbVars, browserVars, Arrive, Proceed, Free, Expire
<1>21. ASSUME NEW p \in People, Disable(p) PROVE BarredInv'
  BY <1>21 DEF IndInv, WhoInv, BarredInv, Disabled, TypeOK, dbVars, browserVars, Arrive, Proceed, Free, Disable
<1>22. ASSUME NEW p \in People, Enable(p) PROVE BarredInv'
  <2>1. ASSUME NEW r \in Requests
        PROVE  /\ request'[r].at = request[r].at /\ request'[r].who = request[r].who
               /\ request'[r].seen = request[r].seen
               /\ request'[r].barred = IF request[r].who = p THEN request[r].barred \ {"disabled"}
                                                            ELSE request[r].barred
    BY <1>22 DEF Enable, IndInv, TypeOK
  <2>2. \A q \in People \ {p} : account'[q] = account[q]
    BY <1>22 DEF Enable, IndInv, TypeOK
  <2>3. ASSUME NEW r \in Requests, "disabled" \in request'[r].barred
        PROVE  account'[request'[r].who] = "disabled"
    <3>1. /\ request[r].who # p /\ request'[r].who = request[r].who
          /\ request[r].at # "idle" /\ account[request[r].who] = "disabled"
      BY <2>1, <2>3 DEF IndInv, BarredInv
    <3>2. request[r].who \in People \ {p}
      BY <3>1 DEF IndInv, WhoInv
    <3> QED  BY <2>2, <3>1, <3>2
  <2>4. revoked' = revoked
    BY <1>22 DEF Enable
  <2> QED  BY <2>1, <2>3, <2>4 DEF IndInv, BarredInv
<1>23. ASSUME NEW p \in People, CreateKey(p) PROVE BarredInv'
  BY <1>23 DEF IndInv, WhoInv, BarredInv, Disabled, TypeOK, dbVars, browserVars, Arrive, Proceed, Free, CreateKey
<1>24. ASSUME NEW k \in Keys, RevokeKey(k) PROVE BarredInv'
  BY <1>24 DEF IndInv, WhoInv, BarredInv, Disabled, TypeOK, dbVars, browserVars, Arrive, Proceed, Free, RevokeKey
<1>25. CASE UNCHANGED vars
  BY <1>25 DEF IndInv, WhoInv, BarredInv, Disabled, TypeOK, dbVars, browserVars, Arrive, Proceed, Free, vars
<1> QED
  BY <1>1, <1>2, <1>3, <1>4, <1>5, <1>6, <1>7, <1>8, <1>9, <1>10, <1>11, <1>12, <1>13, <1>14, <1>15, <1>16, <1>17, <1>18, <1>19, <1>20, <1>21, <1>22, <1>23, <1>24, <1>25 DEF Next

(* Keys change owner only once, and stay revoked.                          *)
LEMMA RotateStep ==
  ASSUME IndInv, [Next]_vars
  PROVE  RotateInv'
<1>1. ASSUME NEW r \in Requests, NEW p \in People, LoginArrives(r, p) PROVE RotateInv'
  BY <1>1 DEF IndInv, WhoInv, RotateInv, TypeOK, dbVars, browserVars, Arrive, Proceed, Free, LoginArrives
<1>2. ASSUME NEW r \in Requests, NEW p \in People, RotateArrives(r, p) PROVE RotateInv'
  BY <1>2, PortalAssumption DEF IndInv, WhoInv, RotateInv, TypeOK, dbVars, browserVars, Arrive, Proceed, Free, RotateArrives, ActiveKeys
<1>3. ASSUME NEW r \in Requests, NEW p \in People, CreateArrives(r, p) PROVE RotateInv'
  BY <1>3 DEF IndInv, WhoInv, RotateInv, TypeOK, dbVars, browserVars, Arrive, Proceed, Free, CreateArrives
<1>4. ASSUME NEW r \in Requests, Lookup(r) PROVE RotateInv'
  BY <1>4 DEF IndInv, WhoInv, RotateInv, TypeOK, dbVars, browserVars, Arrive, Proceed, Free, Lookup
<1>5. ASSUME NEW r \in Requests, Insert(r) PROVE RotateInv'
  BY <1>5 DEF IndInv, WhoInv, RotateInv, TypeOK, dbVars, browserVars, Arrive, Proceed, Free, Insert
<1>6. ASSUME NEW r \in Requests, Grant(r) PROVE RotateInv'
  BY <1>6 DEF IndInv, WhoInv, RotateInv, TypeOK, dbVars, browserVars, Arrive, Proceed, Free, Grant
<1>7. ASSUME NEW r \in Requests, SetCookie(r) PROVE RotateInv'
  BY <1>7 DEF IndInv, WhoInv, RotateInv, TypeOK, dbVars, browserVars, Arrive, Proceed, Free, SetCookie
<1>8. ASSUME NEW r \in Requests, CheckSession(r) PROVE RotateInv'
  BY <1>8 DEF IndInv, WhoInv, RotateInv, TypeOK, dbVars, browserVars, Arrive, Proceed, Free, CheckSession
<1>9. ASSUME NEW r \in Requests, ReadKeys(r) PROVE RotateInv'
  BY <1>9 DEF IndInv, WhoInv, RotateInv, TypeOK, dbVars, browserVars, Arrive, Proceed, Free, ReadKeys, ActiveKeys
<1>10. ASSUME NEW r \in Requests, Rotate(r) PROVE RotateInv'
  BY <1>10, NewKeyIsUnused, PortalAssumption DEF IndInv, WhoInv, RotateInv, TypeOK, dbVars, browserVars, Arrive, Proceed, Free, Rotate, IssueTo
<1>11. ASSUME NEW r \in Requests, CheckKey(r) PROVE RotateInv'
  BY <1>11 DEF IndInv, WhoInv, RotateInv, TypeOK, dbVars, browserVars, Arrive, Proceed, Free, CheckKey
<1>12. ASSUME NEW r \in Requests, CheckUser(r) PROVE RotateInv'
  BY <1>12 DEF IndInv, WhoInv, RotateInv, TypeOK, dbVars, browserVars, Arrive, Proceed, Free, CheckUser
<1>13. ASSUME NEW r \in Requests, ApiActs(r) PROVE RotateInv'
  BY <1>13 DEF IndInv, WhoInv, RotateInv, TypeOK, dbVars, browserVars, Arrive, Proceed, Free, ApiActs
<1>14. ASSUME NEW r \in Requests, Fails(r) PROVE RotateInv'
  BY <1>14 DEF IndInv, WhoInv, RotateInv, TypeOK, dbVars, browserVars, Arrive, Proceed, Free, Fails
<1>15. ASSUME NEW r \in Requests, CreateUser(r) PROVE RotateInv'
  BY <1>15 DEF IndInv, WhoInv, RotateInv, TypeOK, dbVars, browserVars, Arrive, Proceed, Free, CreateUser
<1>16. ASSUME NEW r \in Requests, NEW k \in Keys, ApiArrives(r, k) PROVE RotateInv'
  BY <1>16 DEF IndInv, WhoInv, RotateInv, TypeOK, dbVars, browserVars, Arrive, Proceed, Free, ApiArrives
<1>17. ASSUME NEW p \in People, Visit(p) PROVE RotateInv'
  BY <1>17 DEF IndInv, WhoInv, RotateInv, TypeOK, dbVars, browserVars, Arrive, Proceed, Free, Visit
<1>18. ASSUME NEW p \in People, Follow(p) PROVE RotateInv'
  BY <1>18 DEF IndInv, WhoInv, RotateInv, TypeOK, dbVars, browserVars, Arrive, Proceed, Free, Follow
<1>19. ASSUME NEW p \in People, Logout(p) PROVE RotateInv'
  BY <1>19 DEF IndInv, WhoInv, RotateInv, TypeOK, dbVars, browserVars, Arrive, Proceed, Free, Logout
<1>20. ASSUME NEW p \in People, Expire(p) PROVE RotateInv'
  BY <1>20 DEF IndInv, WhoInv, RotateInv, TypeOK, dbVars, browserVars, Arrive, Proceed, Free, Expire
<1>21. ASSUME NEW p \in People, Disable(p) PROVE RotateInv'
  BY <1>21 DEF IndInv, WhoInv, RotateInv, TypeOK, dbVars, browserVars, Arrive, Proceed, Free, Disable
<1>22. ASSUME NEW p \in People, Enable(p) PROVE RotateInv'
  <2>1. \A s \in Requests :
          request'[s] = [request[s] EXCEPT !.barred =
            IF request[s].who = p THEN request[s].barred \ {"disabled"} ELSE request[s].barred]
    BY <1>22 DEF Enable, IndInv, TypeOK
  <2>2. request' = [s \in Requests |-> request'[s]]
    BY <1>22 DEF Enable
  <2> QED
    <3>1. ASSUME NEW s \in Requests
          PROVE  /\ request'[s].old = request[s].old /\ request'[s].who = request[s].who
                 /\ request'[s].at = request[s].at /\ request'[s].seen = request[s].seen
      <4>1. request[s] \in Records
        BY DEF IndInv, TypeOK, Records
      <4>2. {"at", "who", "old", "seen"} \subseteq DOMAIN request[s]
        BY <4>1 DEF Records
      <4> QED  BY <2>1, <4>2
    <3>2. owner' = owner /\ revoked' = revoked
      BY <1>22 DEF Enable
    <3> QED  BY <3>1, <3>2 DEF IndInv, RotateInv
<1>23. ASSUME NEW p \in People, CreateKey(p) PROVE RotateInv'
  BY <1>23, NewKeyIsUnused, PortalAssumption DEF IndInv, WhoInv, RotateInv, TypeOK, dbVars, browserVars, Arrive, Proceed, Free, CreateKey, IssueTo
<1>24. ASSUME NEW k \in Keys, RevokeKey(k) PROVE RotateInv'
  BY <1>24 DEF IndInv, WhoInv, RotateInv, TypeOK, dbVars, browserVars, Arrive, Proceed, Free, RevokeKey
<1>25. CASE UNCHANGED vars
  BY <1>25 DEF IndInv, WhoInv, RotateInv, TypeOK, dbVars, browserVars, Arrive, Proceed, Free, vars
<1> QED
  BY <1>1, <1>2, <1>3, <1>4, <1>5, <1>6, <1>7, <1>8, <1>9, <1>10, <1>11, <1>12, <1>13, <1>14, <1>15, <1>16, <1>17, <1>18, <1>19, <1>20, <1>21, <1>22, <1>23, <1>24, <1>25 DEF Next

-----------------------------------------------------------------------------
(* The inductive invariant of accounts, keys and requests.                 *)
THEOREM Invariant == Spec => []IndInv
<1>1. IndInv /\ [Next]_vars => IndInv'
  BY TypeStep, WhoStep, GrantStep, BarredStep, RotateStep DEF IndInv
<1> QED  BY <1>1, Initially, PTL DEF Spec

(* Accounts, keys, browsers and requests stay typed.                       *)
THEOREM TypeCorrect == Spec => []TypeOK
<1>1. IndInv => TypeOK
  BY DEF IndInv
<1> QED  BY <1>1, Invariant, PTL

(* The automatic grant is given once (resolve_user).                       *)
THEOREM GrantsAreUnique == Spec => []OneGrant
<1>1. IndInv => OneGrant
  <2> SUFFICES ASSUME IndInv, NEW p \in People
               PROVE  LET granting == {r \in Requests : request[r].at = "grant" /\ request[r].who = p}
                      IN /\ grants[p] + Cardinality(granting) <= 1
                         /\ grants[p] > 0 => p \in provisioned
                         /\ p \in provisioned =>
                              grants[p] = 1 \/ granting # {} \/ ~DefaultGrant \/ faults > 0
    BY DEF OneGrant
  <2> DEFINE granting == {r \in Requests : request[r].at = "grant" /\ request[r].who = p}
  <2>1. CASE granting = {}
    BY <2>1, FS_EmptySet DEF IndInv, GrantInv
  <2>2. CASE granting # {}
    <3>1. PICK r \in granting : TRUE
      BY <2>2
    <3>2. granting = {r} /\ grants[p] = 0 /\ p \in provisioned
      BY <3>1 DEF IndInv, GrantInv
    <3>3. Cardinality(granting) = 1
      BY <3>2, FS_Singleton
    <3> QED  BY <3>2, <3>3
  <2> QED  BY <2>1, <2>2
<1> QED  BY <1>1, Invariant, PTL

(* Nobody who was barred on arrival gets anything (get_current_user).      *)
THEOREM BarredAreRefused == Spec => []BarredDoesNothing
<1>1. IndInv => BarredDoesNothing
  BY DEF IndInv, BarredInv, BarredDoesNothing
<1> QED  BY <1>1, Invariant, PTL

(* A rotation revokes what it found (regenerate_api_key).                  *)
THEOREM RotationsRevoke == Spec => RotationRevokes
<1> DEFINE Revokes == \A r \in Requests :
             request[r].at = "rotate" /\ owner' # owner /\ request'[r].at = "idle"
               => request[r].old \subseteq revoked'
<1>1. IndInv /\ [Next]_vars => [Revokes]_vars
  <2> SUFFICES ASSUME IndInv, Next, NEW r \in Requests,
                      request[r].at = "rotate", owner' # owner, request'[r].at = "idle"
               PROVE  request[r].old \subseteq revoked'
    OBVIOUS
  <2>1. Rotate(r) \/ (\E s \in Requests : s # r /\ Rotate(s)) \/ \E p \in People : CreateKey(p)
    BY DEF Next, LoginArrives, RotateArrives, CreateArrives, ApiArrives, Lookup, Insert, Grant,
           SetCookie, CheckSession, ReadKeys, CheckKey, CheckUser, ApiActs, Fails, CreateUser,
           Visit, Follow, Logout, Expire, Disable, Enable, RevokeKey, dbVars
  <2>2. Rotate(r)
    BY <2>1 DEF Rotate, CreateKey, Proceed, IndInv, TypeOK
  <2> QED  BY <2>2 DEF Rotate, IndInv, RotateInv
<1> QED  BY <1>1, Invariant, PTL DEF Spec, RotationRevokes
===============================================================================
