------------------------------ MODULE LdapAuth ------------------------------
(***************************************************************************)
(* ldap_auth.py: one call of LdapAuthenticator.authenticate, against a     *)
(* directory that may fail to answer any of its questions.  Both bind      *)
(* modes: "direct" binds as the student at once and reads his own entry    *)
(* afterwards, "search" finds his entry with a service account first.      *)
(* Calls share nothing, so one is enough.                                  *)
(***************************************************************************)
EXTENDS Naturals, FiniteSets

CONSTANTS
  Modes         \* bind modes a deployment may have configured

VARIABLES
  config,       \* [mode, base, group]: bind_mode, whether search_base and
                \* required_group_dn are set
  login,        \* what was typed in, and what the directory knows of it
  step,         \* where authenticate is, or how it ended
  entry,        \* the attributes it has read ("none", "plain", or "listed":
                \* memberOf names the required group)
  open,         \* its connections that are not unbound yet
  trouble       \* how the directory failed to answer questions: it raised an
                \* LDAPException, or gave a result code other than success

ldapVars == <<config, login, step, entry, open, trouble>>

Configs == [mode : Modes, base : BOOLEAN, group : BOOLEAN]

(* matches: entries the search filter finds; member: in the required       *)
(* group; listed: the directory fills in memberOf; readable: a user may    *)
(* read his own entry.                                                     *)
Logins == [name : {"valid", "odd"}, password : {"right", "wrong", "empty"},
           matches : 0..2, member : BOOLEAN, listed : BOOLEAN, readable : BOOLEAN]

Verdicts == {"identity", "failed", "error"}

LdapTypeOK ==
  /\ config \in Configs
  /\ login \in Logins
  /\ step \in {"start", "service", "search", "connect", "bind", "own", "group",
               "ask group"} \cup Verdicts
  /\ entry \in {"none", "plain", "listed"}
  /\ open \subseteq {"service", "student"}
  /\ trouble \subseteq {"raised", "coded"}

LdapInit ==
  /\ config \in Configs
  /\ login \in Logins
  /\ step = "start" /\ entry = "none" /\ open = {} /\ trouble = {}

Attributes == IF login.listed /\ login.member THEN "listed" ELSE "plain"

(* The call ends: the finally clauses unbind what is open.                 *)
End(verdict) == step' = verdict /\ open' = {}

(* A question that raises ends the call; one that is answered with a code  *)
(* (busy, unavailable) looks like a refusal or like an empty result.       *)
Raises(verdict) == trouble' = trouble \cup {"raised"} /\ End(verdict) /\ UNCHANGED entry

IsCoded(verdict) == trouble' = trouble \cup {"coded"} /\ End(verdict) /\ UNCHANGED entry

(* Variant: an empty password is passed on to the directory.               *)
OddName == login.name = "odd"

(* What authenticate refuses without asking the directory.                 *)
Refused == login.password = "empty" \/ login.name = "odd"

Start ==
  /\ step = "start"
  /\ \/ Refused /\ End("failed")
     \/ ~Refused /\ config.mode = "direct" /\ step' = "connect" /\ UNCHANGED open
     \/ ~Refused /\ config.mode = "search" /\ config.base /\ step' = "service" /\ UNCHANGED open
     \/ ~Refused /\ config.mode = "search" /\ ~config.base /\ End("error")
     \/ ~Refused /\ config.mode \notin {"direct", "search"} /\ End("error")
  /\ UNCHANGED <<config, login, entry, trouble>>

(* _find_user_dn: a connection, bound as the service account, which may be *)
(* refused.                                                                *)
ServiceBind ==
  /\ step = "service"
  /\ \/ Raises("error") \/ IsCoded("error")
     \/ End("error") /\ UNCHANGED <<entry, trouble>>
     \/ step' = "search" /\ open' = open \cup {"service"} /\ UNCHANGED <<entry, trouble>>
  /\ UNCHANGED <<config, login>>

(* Variant: the service connection stays open.                             *)
SearchKeepsOpen ==
  /\ step = "search"
  /\ \/ Raises("error") \/ IsCoded("failed")
     \/ login.matches # 1 /\ End("failed") /\ UNCHANGED <<entry, trouble>>
     \/ /\ login.matches = 1
        /\ step' = "connect" /\ entry' = Attributes
        /\ UNCHANGED <<open, trouble>>
  /\ UNCHANGED <<config, login>>

(* The search must find exactly one entry; its connection is unbound.      *)
Search ==
  /\ step = "search"
  /\ \/ Raises("error") \/ IsCoded("failed")
     \/ login.matches # 1 /\ End("failed") /\ UNCHANGED <<entry, trouble>>
     \/ /\ login.matches = 1
        /\ step' = "connect" /\ open' = open \ {"service"} /\ entry' = Attributes
        /\ UNCHANGED trouble
  /\ UNCHANGED <<config, login>>

Connect ==
  /\ step = "connect"
  /\ \/ Raises("error")
     \/ step' = "bind" /\ open' = open \cup {"student"} /\ UNCHANGED <<entry, trouble>>
  /\ UNCHANGED <<config, login>>

(* A directory accepts a known name with the right password, and with an   *)
(* empty one (an unauthenticated bind).                                    *)
Accepts == login.matches > 0 /\ login.password \in {"right", "empty"}

Bind ==
  /\ step = "bind"
  /\ \/ Raises("error") \/ IsCoded("failed")
     \/ ~Accepts /\ End("failed") /\ UNCHANGED <<entry, trouble>>
     \/ /\ Accepts
        /\ step' = (IF entry = "none" THEN "own" ELSE "group")
        /\ UNCHANGED <<entry, open, trouble>>
  /\ UNCHANGED <<config, login>>

(* _read_own_entry: an entry that cannot be read is done without.          *)
OwnEntry ==
  /\ step = "own"
  /\ \/ \E how \in {"raised", "coded"} :
          trouble' = trouble \cup {how} /\ UNCHANGED entry
     \/ entry' = (IF login.readable THEN Attributes ELSE "none") /\ UNCHANGED trouble
  /\ step' = "group"
  /\ UNCHANGED <<config, login, open>>

(* _check_group_membership: memberOf decides if it lists the group.        *)
MemberOf ==
  /\ step = "group"
  /\ IF ~config.group \/ entry = "listed" THEN End("identity")
     ELSE step' = "ask group" /\ UNCHANGED open
  /\ UNCHANGED <<config, login, entry, trouble>>

(* Otherwise the group is asked; no answer counts as not a member.         *)
AskGroup ==
  /\ step = "ask group"
  /\ \/ Raises("failed") \/ IsCoded("failed")
     \/ End(IF login.member THEN "identity" ELSE "failed") /\ UNCHANGED <<entry, trouble>>
  /\ UNCHANGED <<config, login>>

LdapNext ==
  \/ Start \/ ServiceBind \/ Search \/ Connect \/ Bind
  \/ OwnEntry \/ MemberOf \/ AskGroup

LdapSpec == LdapInit /\ [][LdapNext]_ldapVars

-----------------------------------------------------------------------------
(* What a login deserves, whatever the bind mode and the directory's       *)
(* habits: the password of the one entry of that name, and membership of   *)
(* the required group.                                                     *)
Deserved ==
  /\ login.name = "valid" /\ login.password = "right"
  /\ login.matches > 0 /\ (config.mode = "search" => login.matches = 1)
  /\ config.group => login.member

(* authenticate confirms an identity only to whom it is due: not for an    *)
(* empty password, which directories accept.  And whoever it is due to is  *)
(* told that the password is wrong only when the directory answered some   *)
(* question with a failure code, or raised when it was asked for the       *)
(* group: every other exception ends in LdapError, which the portal        *)
(* reports as a directory that is down (authenticate, _bind).              *)
VerdictIsDeserved ==
  /\ step = "identity" => Deserved
  /\ step = "failed" =>
       ~Deserved \/ "coded" \in trouble \/ (trouble # {} /\ config.group /\ entry # "listed")

(* At most one connection is open at a time and none survives the call,    *)
(* whatever raised in between.                                             *)
ConnectionsAreUnbound ==
  Cardinality(open) <= 1 /\ (step \in Verdicts => open = {})
=============================================================================
