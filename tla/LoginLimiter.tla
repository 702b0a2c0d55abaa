---------------------------- MODULE LoginLimiter ----------------------------
(***************************************************************************)
(* LoginRateLimiter of portal/routes.py, for one client address.  Login    *)
(* requests run in threads of a pool, and allow() takes no lock: between   *)
(* any two of its deque operations another thread may run.                 *)
(***************************************************************************)
EXTENDS Integers, Sequences, FiniteSets

CONSTANTS
  Threads,           \* login requests handled at once
  AttemptsPerMinute, \* portal.login_attempts_per_minute; with zero or less
                     \* allow() lets everybody in and keeps nothing
  Window,            \* the 60 seconds, in ticks of the clock
  LastTick           \* bound: the clock stops here

ASSUME LimiterAssumption ==
  /\ IsFiniteSet(Threads)
  /\ AttemptsPerMinute \in Nat \ {0}
  /\ Window \in Nat /\ LastTick \in Nat

VARIABLES
  clock,    \* time.monotonic()
  hits,     \* self._hits[client_ip]
  call,     \* allow() in each thread: where it is and the time it read
  admitted, \* when attempts were let in: a sequence of readings of the clock
  refused,  \* the last refusal was given with this many attempts in its window
  raced     \* whether two calls ever overlapped

limiterVars == <<clock, hits, call, admitted, refused, raced>>

Outside == [at |-> "outside", now |-> 0]

LimiterTypeOK ==
  /\ clock \in 0..LastTick
  /\ hits \in Seq(0..LastTick)
  /\ call \in [Threads -> [at : {"outside", "test", "head", "pop", "count", "append", "failed"},
                           now : 0..LastTick]]
  /\ admitted \in Seq(0..LastTick)
  /\ refused \in Nat
  /\ raced \in BOOLEAN

LimiterInit ==
  /\ clock = 0
  /\ hits = <<>>
  /\ call = [t \in Threads |-> Outside]
  /\ admitted = <<>>
  /\ refused = AttemptsPerMinute
  /\ raced = FALSE

Inside == {t \in Threads : call[t].at \notin {"outside", "failed"}}

Goto(t, at) == call' = [call EXCEPT ![t].at = at]

Tick ==
  /\ clock < LastTick
  /\ clock' = clock + 1
  /\ UNCHANGED <<hits, call, admitted, refused, raced>>

(* The call reads the clock once, at its beginning.                        *)
Allow(t) ==
  /\ call[t].at \in {"outside", "failed"}
  /\ call' = [call EXCEPT ![t] = [at |-> "test", now |-> clock]]
  /\ raced' = (raced \/ Inside # {})
  /\ UNCHANGED <<clock, hits, admitted, refused>>

(* while hits and ...                                                      *)
TestHits(t) ==
  /\ call[t].at = "test"
  /\ Goto(t, IF hits # <<>> THEN "head" ELSE "count")
  /\ UNCHANGED <<clock, hits, admitted, refused, raced>>

(* Variant: an attempt leaves the window when it is exactly as old.        *)
IsStaleEarly(hit, now) == now - hit >= Window

IsStale(hit, now) == now - hit > Window

(* ... now - hits[0] > 60.0, an IndexError when hits has become empty.     *)
TestHead(t) ==
  /\ call[t].at = "head"
  /\ Goto(t, IF hits = <<>> THEN "failed"
             ELSE IF IsStale(hits[1], call[t].now) THEN "pop" ELSE "count")
  /\ UNCHANGED <<clock, hits, admitted, refused, raced>>

(* hits.popleft() takes whatever is first by now.                          *)
PopHead(t) ==
  /\ call[t].at = "pop"
  /\ Goto(t, IF hits = <<>> THEN "failed" ELSE "test")
  /\ hits' = IF hits = <<>> THEN hits ELSE Tail(hits)
  /\ UNCHANGED <<clock, admitted, refused, raced>>

InWindow(now) ==
  Cardinality({i \in DOMAIN admitted : ~IsStale(admitted[i], now)})

(* Variant: one attempt too many is let in.                                *)
CountOneMore(t) ==
  /\ call[t].at = "count"
  /\ IF Len(hits) > AttemptsPerMinute
     THEN Goto(t, "outside") /\ refused' = InWindow(call[t].now)
     ELSE Goto(t, "append") /\ UNCHANGED refused
  /\ UNCHANGED <<clock, hits, admitted, raced>>

CountHits(t) ==
  /\ call[t].at = "count"
  /\ IF Len(hits) >= AttemptsPerMinute
     THEN Goto(t, "outside") /\ refused' = InWindow(call[t].now)
     ELSE Goto(t, "append") /\ UNCHANGED refused
  /\ UNCHANGED <<clock, hits, admitted, raced>>

AppendHit(t) ==
  /\ call[t].at = "append"
  /\ hits' = Append(hits, call[t].now)
  /\ admitted' = Append(admitted, call[t].now)
  /\ Goto(t, "outside")
  /\ UNCHANGED <<clock, refused, raced>>

AllowStep(t) ==
  \/ TestHits(t) \/ TestHead(t) \/ PopHead(t) \/ CountHits(t) \/ AppendHit(t)

LimiterNext == Tick \/ \E t \in Threads : Allow(t) \/ AllowStep(t)

LimiterSpec == LimiterInit /\ [][LimiterNext]_limiterVars

-----------------------------------------------------------------------------
(* Unless two calls overlapped, the limiter is exact: no window of sixty   *)
(* seconds, both of its ends counted, lets more than                       *)
(* login_attempts_per_minute attempts in; nobody is refused for attempts   *)
(* that are over or were refused themselves; and no call fails on a deque  *)
(* that another call has emptied (LoginRateLimiter.allow).                 *)
ExactUnlessRaced ==
  \/ raced
  \/ /\ \A now \in 0..LastTick :
          Cardinality({i \in DOMAIN admitted : admitted[i] \in (now - Window) .. now})
            <= AttemptsPerMinute
     /\ refused >= AttemptsPerMinute
     /\ \A t \in Threads : call[t].at # "failed"

(* However calls overlap, the deque of a client outgrows the limit by less *)
(* than the number of threads: each has seen room for one at most.         *)
DequeBounded ==
  Len(hits) + Cardinality({t \in Threads : call[t].at = "append"})
    <= AttemptsPerMinute + Cardinality(Threads) - 1
=============================================================================
