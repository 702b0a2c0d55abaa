--------------------------- MODULE MCLedgerThreads --------------------------
(***************************************************************************)
(* Instances of LedgerThreads for TLC: the requests that meet at the       *)
(* ledger, at most two of a kind.                                          *)
(***************************************************************************)
EXTENDS LedgerThreads

CONSTANTS alice, g, s1, s2, c, w, a

MCAmounts == 0 .. 3
MCAdjustments ==
  { [col \in {"granted", "reserved", "used"} |-> IF col = "granted" THEN -1 ELSE 0] }

call(op, session, user, tokens, actual) ==
  [op |-> op, session |-> session, user |-> user, tokens |-> tokens,
   actual |-> actual, delta |-> CHOOSE d \in MCAdjustments : TRUE]

(* An allowance, two submissions that do not both fit, a cancellation, a   *)
(* completed task and a manual correction, all on one account.             *)
MCCallOf ==
  [r \in Requests |->
     CASE r = g  -> call("grant", "clean", alice, 3, 0)
       [] r = s1 -> call("reserve", "dirty", alice, 2, 0)
       [] r = s2 -> call("reserve", "dirty", alice, 2, 0)
       [] r = c  -> call("release", "dirty", alice, 2, 0)
       [] r = w  -> call("charge", "flushed", alice, 2, 1)
       [] r = a  -> call("adjust", "clean", alice, 0, 0)]
=============================================================================
