--------------------------- MODULE MCRequestChecks ---------------------------
(***************************************************************************)
(* Three checks a request passes before it changes anything, as one        *)
(* instance for TLC: the login limiter, the directory and the input file.  *)
(* They share no state.  While one of them runs the others stay where they *)
(* began, so their state spaces add up.                                    *)
(***************************************************************************)
EXTENDS LoginLimiter, LdapAuth, InputLines

CONSTANTS t1, t2

MCModes == {"direct", "search", "other"}

Hello == [raw |-> FALSE, parts |-> <<5>>, name |-> 0]

Pictures == [raw |-> FALSE, parts |-> <<3, NoText, 6>>, name |-> 4]

Line(id, flaws) == [id |-> id, flaws |-> flaws, max |-> <<>>, messages |-> <<Hello>>]

(* Two ids, with and without a flaw; two flaws at once; requests that say  *)
(* how long their output may be; a message that is no object.              *)
MCLines ==
  {Line("a", {}), Line("b", {}), Line("a", {"method"}), Line("b", {"json"}),
   [Line("b", {"url", "messages"}) EXCEPT !.messages = <<>>],
   [Line("c", {}) EXCEPT !.max = <<1>>, !.messages = <<Hello, Pictures>>],
   [Line("c", {"max_tokens"}) EXCEPT !.max = <<0>>],
   [Line("d", {}) EXCEPT !.max = <<9>>, !.messages = <<[Hello EXCEPT !.raw = TRUE]>>]}

(* The limiter and the parser run beside one of the logins only.           *)
OneLogin ==
  /\ config = [mode |-> "other", base |-> FALSE, group |-> FALSE]
  /\ login = [name |-> "odd", password |-> "wrong", matches |-> 0,
              member |-> FALSE, listed |-> FALSE, readable |-> FALSE]

LimiterAtRest == clock = 0 /\ raced = FALSE /\ \A t \in Threads : call[t] = Outside

LdapAtRest == OneLogin /\ step = "start"

InputAtRest == file = <<>> /\ outcome = "reading"

Init == LimiterInit /\ LdapInit /\ InputInit

Next ==
  \/ LdapAtRest /\ InputAtRest /\ LimiterNext /\ UNCHANGED <<ldapVars, inputVars>>
  \/ LimiterAtRest /\ InputAtRest /\ LdapNext /\ UNCHANGED <<limiterVars, inputVars>>
  \/ LimiterAtRest /\ LdapAtRest /\ InputNext /\ UNCHANGED <<limiterVars, ldapVars>>

Spec == Init /\ [][Next]_<<limiterVars, ldapVars, inputVars>>
=============================================================================
