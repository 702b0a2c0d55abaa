------------------------- MODULE RequestChecks_proofs -------------------------
(***************************************************************************)
(* The three checks a request passes before it changes anything: the login *)
(* limiter, the directory and the input file.  They share no state; each   *)
(* has its own invariant and its own theorems.                             *)
(***************************************************************************)
EXTENDS LoginLimiter, LdapAuth, InputLines, FoldTheorems, SequenceTheorems

-----------------------------------------------------------------------------
(***************************************************************************)
(* LoginLimiter: for any number of threads, any limit and any window.      *)
(* As long as no two calls have overlapped, the deque is the end of the    *)
(* sequence of admitted attempts, in the order of time, and what it has    *)
(* lost is stale for the call under way and for all later ones.            *)
(***************************************************************************)

(* Attempts that were admitted and popped.                                 *)
Behind == Len(admitted) - Len(hits)

DequeInv ==
  /\ Len(hits) <= Len(admitted) /\ Len(hits) <= AttemptsPerMinute
  /\ \A i \in 1..Len(hits) : hits[i] = admitted[Behind + i]

(* The attempts are in the order of time, and none is later than t.        *)
TimeInv(t) ==
  /\ \A i \in 1..Len(admitted) : admitted[i] <= t
  /\ \A i \in 1..Behind : admitted[i] + Window < t

OrderInv == \A i, j \in 1..Len(admitted) : i <= j => admitted[i] <= admitted[j]

(* What a call under way has found out.                                    *)
Knows(t) ==
  /\ call[t].at # "failed"
  /\ t \in Inside => call[t].now <= clock /\ TimeInv(call[t].now)
  /\ call[t].at \in {"head", "pop"} => hits # <<>>
  /\ call[t].at = "pop" => IsStale(hits[1], call[t].now)
  /\ call[t].at = "count" /\ hits # <<>> => ~IsStale(hits[1], call[t].now)
  /\ call[t].at = "append" => Len(hits) < AttemptsPerMinute

CallInv == (\A t, u \in Inside : t = u) /\ \A t \in Threads : Knows(t)

CapInv ==
  \A now \in 0..LastTick :
    Cardinality({i \in DOMAIN admitted : admitted[i] \in (now - Window) .. now})
      <= AttemptsPerMinute

UnracedInv ==
  /\ DequeInv /\ TimeInv(clock) /\ OrderInv /\ CallInv
  /\ CapInv /\ refused >= AttemptsPerMinute

Appending == {t \in Threads : call[t].at = "append"}

LimiterInv == LimiterTypeOK /\ DequeBounded /\ (~raced => UnracedInv)

-----------------------------------------------------------------------------
(* An empty deque has lost nothing.                                        *)
LEMMA LimiterBegins == LimiterInit => LimiterInv
<1> SUFFICES ASSUME LimiterInit PROVE LimiterInv
  OBVIOUS
<1>1. LimiterTypeOK
  <2>1. refused \in Nat /\ hits \in Seq(0..LastTick) /\ admitted \in Seq(0..LastTick)
    BY LimiterAssumption DEF LimiterInit
  <2>2. raced \in BOOLEAN
    BY DEF LimiterInit
  <2>3. clock \in 0..LastTick /\ Outside \in
          [at : {"outside", "test", "head", "pop", "count", "append", "failed"}, now : 0..LastTick]
    BY LimiterAssumption DEF LimiterInit, Outside
  <2> QED  BY <2>1, <2>2, <2>3 DEF LimiterInit, LimiterTypeOK
<1>2. DequeBounded
  <2>1. {t \in Threads : call[t].at = "append"} = {}
    BY DEF LimiterInit, Outside
  <2>2. Cardinality(Threads) \in Nat
    BY LimiterAssumption, FS_CardinalityType
  <2> QED  BY <2>1, <2>2, FS_EmptySet, LimiterAssumption DEF LimiterInit, DequeBounded
<1>3. UnracedInv
  <2>1. CapInv
    <3>1. \A now \in 0..LastTick :
            {i \in DOMAIN admitted : admitted[i] \in (now - Window) .. now} = {}
      BY DEF LimiterInit
    <3>2. Cardinality({}) <= AttemptsPerMinute
      BY FS_EmptySet, LimiterAssumption
    <3> QED  BY <3>1, <3>2 DEF CapInv
  <2>2. DequeInv /\ TimeInv(clock) /\ OrderInv /\ CallInv
    BY LimiterAssumption DEF LimiterInit, DequeInv, TimeInv, OrderInv, CallInv, Knows, Behind, Inside, Outside
  <2> QED  BY <2>1, <2>2, LimiterAssumption DEF UnracedInv, LimiterInit
<1> QED  BY <1>1, <1>2, <1>3 DEF LimiterInv

-----------------------------------------------------------------------------
(* The types.                                                              *)
LEMMA LimiterTypeStep ==
  ASSUME LimiterInv, [LimiterNext]_limiterVars
  PROVE  LimiterTypeOK'
<1> USE LimiterAssumption DEF LimiterInv, LimiterTypeOK, Goto
<1>1. CASE Tick
  BY <1>1 DEF Tick
<1>2. ASSUME NEW t \in Threads, Allow(t) PROVE LimiterTypeOK'
  <2>1. (raced \/ Inside # {}) \in BOOLEAN
    OBVIOUS
  <2> QED  BY <1>2, <2>1 DEF Allow
<1>3. ASSUME NEW t \in Threads, TestHits(t) PROVE LimiterTypeOK'
  BY <1>3 DEF TestHits
<1>4. ASSUME NEW t \in Threads, TestHead(t) PROVE LimiterTypeOK'
  BY <1>4 DEF TestHead
<1>5. ASSUME NEW t \in Threads, PopHead(t) PROVE LimiterTypeOK'
  <2>1. hits # <<>> => Tail(hits) \in Seq(0..LastTick)
    BY HeadTailProperties
  <2> QED  BY <1>5, <2>1 DEF PopHead
<1>6. ASSUME NEW t \in Threads, CountHits(t) PROVE LimiterTypeOK'
  <2>1. InWindow(call[t].now) \in Nat
    <3>1. IsFiniteSet({i \in DOMAIN admitted : ~IsStale(admitted[i], call[t].now)})
      <4>1. DOMAIN admitted = 1..Len(admitted) /\ Len(admitted) \in Nat
        OBVIOUS
      <4>2. IsFiniteSet(DOMAIN admitted)
        BY <4>1, FS_Interval
      <4> QED  BY <4>2, FS_Subset
    <3> QED  BY <3>1, FS_CardinalityType DEF InWindow
  <2>2. PICK at \in {"outside", "append"} : call' = [call EXCEPT ![t].at = at]
    BY <1>6 DEF CountHits
  <2>3. call' \in [Threads -> [at : {"outside", "test", "head", "pop", "count", "append", "failed"},
                              now : 0..LastTick]]
    BY <2>2
  <2>4. refused' \in Nat
    BY <1>6, <2>1 DEF CountHits
  <2>5. UNCHANGED <<clock, hits, admitted, raced>>
    BY <1>6 DEF CountHits
  <2> QED  BY <2>3, <2>4, <2>5
<1>7. ASSUME NEW t \in Threads, AppendHit(t) PROVE LimiterTypeOK'
  <2>1. Append(hits, call[t].now) \in Seq(0..LastTick) /\ Append(admitted, call[t].now) \in Seq(0..LastTick)
    BY AppendProperties
  <2> QED  BY <1>7, <2>1 DEF AppendHit
<1>8. CASE UNCHANGED limiterVars
  BY <1>8 DEF limiterVars
<1> QED
  BY <1>1, <1>2, <1>3, <1>4, <1>5, <1>6, <1>7, <1>8 DEF LimiterNext, AllowStep

(* A thread that is not about to append makes one more than those that are.*)
LEMMA OneMore ==
  ASSUME NEW t \in Threads, call[t].at # "append"
  PROVE  /\ Cardinality(Appending) \in Nat
         /\ Cardinality(Appending \cup {t}) = Cardinality(Appending) + 1
         /\ Cardinality(Appending \cup {t}) <= Cardinality(Threads)
<1>1. IsFiniteSet(Appending) /\ IsFiniteSet(Threads)
  BY LimiterAssumption, FS_Subset DEF Appending
<1>2. t \notin Appending /\ Appending \cup {t} \subseteq Threads
  BY DEF Appending
<1> QED  BY <1>1, <1>2, FS_AddElement, FS_Subset, FS_CardinalityType

(* Whoever has counted has seen room for one.                              *)
LEMMA BoundStep ==
  ASSUME LimiterInv, [LimiterNext]_limiterVars
  PROVE  DequeBounded'
<1> USE DEF LimiterInv, LimiterTypeOK, Goto
<1>0. /\ DequeBounded <=> Len(hits) + Cardinality(Appending)
                            <= AttemptsPerMinute + Cardinality(Threads) - 1
      /\ DequeBounded' <=> Len(hits') + Cardinality(Appending')
                            <= AttemptsPerMinute + Cardinality(Threads) - 1
      /\ Cardinality(Threads) \in Nat /\ Cardinality(Appending) \in Nat
      /\ AttemptsPerMinute \in Nat
  <2>1. IsFiniteSet(Appending)
    BY LimiterAssumption, FS_Subset DEF Appending
  <2> QED  BY <2>1, LimiterAssumption, FS_CardinalityType DEF DequeBounded, Appending
<1>1. ASSUME hits' = hits, Appending' = Appending PROVE DequeBounded'
  BY <1>0, <1>1
<1>2. ASSUME NEW t \in Threads, PopHead(t) PROVE DequeBounded'
  <2>1. Appending' = Appending /\ Len(hits') <= Len(hits)
    BY <1>2 DEF PopHead, Appending
  <2> QED  BY <1>0, <2>1
<1>3. ASSUME NEW t \in Threads, CountHits(t) PROVE DequeBounded'
  <2>1. CASE Len(hits) >= AttemptsPerMinute
    BY <1>1, <1>3, <2>1 DEF CountHits, Appending
  <2>2. CASE ~(Len(hits) >= AttemptsPerMinute)
    <3>1. Appending' = Appending \cup {t} /\ hits' = hits /\ call[t].at # "append"
      BY <1>3, <2>2 DEF CountHits, Appending
    <3>2. /\ Cardinality(Appending) \in Nat /\ Cardinality(Appending') = Cardinality(Appending) + 1
          /\ Cardinality(Appending') <= Cardinality(Threads)
      BY <3>1, OneMore
    <3> QED  BY <1>0, <2>2, <3>1, <3>2
  <2> QED  BY <2>1, <2>2
<1>4. ASSUME NEW t \in Threads, AppendHit(t) PROVE DequeBounded'
  <2>1. t \in Appending /\ Appending' = Appending \ {t} /\ Len(hits') = Len(hits) + 1
    BY <1>4 DEF AppendHit, Appending
  <2>2. Cardinality(Appending') = Cardinality(Appending) - 1
    <3>1. IsFiniteSet(Appending)
      BY FS_Subset, LimiterAssumption DEF Appending
    <3> QED  BY <2>1, <3>1, FS_RemoveElement
  <2> QED  BY <1>0, <2>1, <2>2
<1>5. ASSUME NEW t \in Threads, Allow(t) \/ TestHits(t) \/ TestHead(t) PROVE DequeBounded'
  <2>1. hits' = hits
    BY <1>5 DEF Allow, TestHits, TestHead
  <2>2. /\ \A u \in Threads \ {t} : call'[u] = call[u]
        /\ call[t].at # "append" /\ call'[t].at # "append"
    BY <1>5 DEF Allow, TestHits, TestHead
  <2>3. Appending' = Appending
    BY <2>2 DEF Appending
  <2> QED  BY <1>1, <2>1, <2>3
<1>6. CASE Tick \/ UNCHANGED limiterVars
  BY <1>1, <1>6 DEF Tick, limiterVars, Appending
<1> QED
  BY <1>2, <1>3, <1>4, <1>5, <1>6 DEF LimiterNext, AllowStep

(* A set of indices that all lie between i and j.                          *)
LEMMA Between ==
  ASSUME NEW i \in Nat, NEW j \in Nat, i <= j + 1, NEW S \in SUBSET (1..j)
  PROVE  /\ IsFiniteSet(S) /\ Cardinality(S) \in Nat
         /\ S \subseteq i..j => Cardinality(S) <= j - i + 1
         /\ i..j \subseteq S => Cardinality(S) >= j - i + 1
<1>1. IsFiniteSet(1..j) /\ IsFiniteSet(i..j) /\ Cardinality(i..j) = j - i + 1
  BY FS_Interval
<1>2. IsFiniteSet(S)
  BY <1>1, FS_Subset
<1>3. S \subseteq i..j => Cardinality(S) <= j - i + 1
  <2>1. S \subseteq i..j => Cardinality(S) <= Cardinality(i..j)
    BY <1>1, FS_Subset
  <2> QED  BY <1>1, <2>1
<1>4. i..j \subseteq S => Cardinality(S) >= j - i + 1
  <2>1. i..j \subseteq S => Cardinality(i..j) <= Cardinality(S)
    BY <1>2, FS_Subset
  <2> QED  BY <1>1, <2>1
<1> QED  BY <1>2, <1>3, <1>4, FS_CardinalityType

(* What holds of a state holds of the next one that keeps the sequences.   *)
LEMMA CapKept ==
  ASSUME CapInv, admitted' = admitted
  PROVE  CapInv'
BY DEF CapInv

(* While a thread is in its call the others are outside theirs.            *)
LEMMA OneCall ==
  ASSUME CallInv, LimiterTypeOK, NEW t \in Threads, Inside \subseteq {t},
         \A u \in Threads \ {t} : call'[u] = call[u], Knows(t)'
  PROVE  CallInv'
<1>1. \A u \in Threads \ {t} : call'[u].at = "outside"
  BY DEF CallInv, Knows, Inside, LimiterTypeOK
<1>2. Inside' \subseteq {t}
  BY <1>1 DEF Inside
<1>3. \A u \in Threads \ {t} : Knows(u)'
  BY <1>1 DEF Knows, Inside
<1> QED  BY <1>2, <1>3 DEF CallInv

(* What is behind the deque, and the deque in the order of time.           *)
LEMMA Numbers ==
  ASSUME LimiterTypeOK, DequeInv
  PROVE  /\ Len(hits) \in Nat /\ Len(admitted) \in Nat /\ Behind \in Nat
         /\ Behind + Len(hits) = Len(admitted)
         /\ \A i \in 1..Len(hits) : hits[i] \in 0..LastTick
         /\ \A i \in 1..Len(admitted) : admitted[i] \in 0..LastTick
<1>1. Len(hits) \in Nat /\ Len(admitted) \in Nat
  BY DEF LimiterTypeOK
<1>2. Behind \in Nat /\ Behind + Len(hits) = Len(admitted)
  BY <1>1 DEF DequeInv, Behind
<1>3. /\ \A i \in 1..Len(hits) : hits[i] \in 0..LastTick
      /\ \A i \in 1..Len(admitted) : admitted[i] \in 0..LastTick
  <2>1. hits \in Seq(0..LastTick) /\ admitted \in Seq(0..LastTick)
    BY DEF LimiterTypeOK
  <2> QED  BY <2>1, ElementOfSeq
<1> QED  BY <1>1, <1>2, <1>3

(* With one call at a time, the deque is the window.                       *)
LEMMA UnracedStep ==
  ASSUME LimiterInv, [LimiterNext]_limiterVars, ~raced'
  PROVE  UnracedInv'
<1>1. ~raced
  BY DEF LimiterNext, AllowStep, Tick, Allow, TestHits, TestHead, PopHead, CountHits, AppendHit, limiterVars
<1>2. /\ DequeInv /\ TimeInv(clock) /\ OrderInv /\ CallInv
      /\ CapInv /\ refused >= AttemptsPerMinute /\ LimiterTypeOK
  BY <1>1 DEF LimiterInv, UnracedInv
<1> USE LimiterAssumption
<1> DEFINE n == Len(admitted)
<1>a. ASSUME NEW t \in Threads, t \in Inside PROVE Inside \subseteq {t} /\ Knows(t)
  BY <1>2, <1>a DEF CallInv
<1>3. CASE Tick
  <2>1. clock' = clock + 1 /\ clock \in Nat /\ Window \in Nat
    BY <1>2, <1>3 DEF Tick, LimiterTypeOK
  <2>2. TimeInv(clock)' /\ DequeInv' /\ OrderInv'
    <3>1. UNCHANGED <<hits, admitted, Behind>>
      BY <1>3 DEF Tick, Behind
    <3>2. DequeInv' /\ OrderInv'
      BY <1>2, <3>1 DEF DequeInv, OrderInv
    <3>3. ASSUME NEW i \in 1..Len(admitted) PROVE admitted[i] <= clock + 1
      <4>1. admitted[i] \in Nat /\ admitted[i] <= clock
        BY <1>2, Numbers DEF TimeInv
      <4> QED  BY <2>1, <4>1
    <3>4. ASSUME NEW i \in 1..Behind PROVE admitted[i] + Window < clock + 1
      <4>1. i \in 1..Len(admitted)
        BY <1>2, Numbers
      <4>2. admitted[i] \in Nat /\ admitted[i] + Window < clock
        BY <1>2, <4>1, Numbers DEF TimeInv
      <4> QED  BY <2>1, <4>2
    <3>5. TimeInv(clock)'
      BY <2>1, <3>1, <3>3, <3>4 DEF TimeInv
    <3> QED  BY <3>2, <3>5
  <2>3. \A t \in Threads : Knows(t)'
    BY <1>2, <1>3, <2>1 DEF Tick, CallInv, Knows, TimeInv, Inside, Behind, LimiterTypeOK, IsStale
  <2> QED
    BY <1>2, <1>3, <2>2, <2>3, CapKept DEF Tick, UnracedInv, CallInv, Inside
<1>4. ASSUME NEW t \in Threads, Allow(t) PROVE UnracedInv'
  <2>1. Inside = {}
    <3>1. raced' = (raced \/ Inside # {})
      BY <1>4 DEF Allow
    <3> QED  BY <3>1
  <2>2. /\ \A u \in Threads \ {t} : call'[u] = call[u]
        /\ call'[t].at = "test" /\ call'[t].now = clock
        /\ hits' = hits /\ admitted' = admitted /\ clock' = clock /\ refused' = refused
    BY <1>2, <1>4 DEF Allow, LimiterTypeOK
  <2>3. TimeInv(clock)' /\ DequeInv' /\ OrderInv'
    BY <1>2, <2>2 DEF TimeInv, DequeInv, OrderInv, Behind
  <2>4. Knows(t)'
    BY <1>2, <2>2, <2>3 DEF Knows, TimeInv, LimiterTypeOK
  <2> QED
    BY <1>2, <2>1, <2>2, <2>3, <2>4, OneCall, CapKept DEF UnracedInv
<1>5. ASSUME NEW t \in Threads, TestHits(t) \/ TestHead(t) PROVE UnracedInv'
  <2>1. t \in Inside
    BY <1>5 DEF TestHits, TestHead, Inside
  <2>2. /\ \A u \in Threads \ {t} : call'[u] = call[u]
        /\ call'[t].now = call[t].now
        /\ hits' = hits /\ admitted' = admitted /\ clock' = clock /\ refused' = refused
    BY <1>2, <1>5 DEF TestHits, TestHead, Goto, LimiterTypeOK
  <2>3. TimeInv(clock)' /\ TimeInv(call[t].now)' /\ DequeInv' /\ OrderInv'
    BY <1>2, <1>a, <2>1, <2>2 DEF TimeInv, DequeInv, OrderInv, Behind, Knows
  <2>4. /\ call'[t].at \in {"head", "count", "pop"}
        /\ call'[t].at \in {"head", "pop"} => hits # <<>>
        /\ call'[t].at = "pop" => IsStale(hits[1], call[t].now)
        /\ call'[t].at = "count" /\ hits # <<>> => ~IsStale(hits[1], call[t].now)
    BY <1>2, <1>5, <1>a, <2>1 DEF TestHits, TestHead, Goto, Knows, LimiterTypeOK
  <2>5. Knows(t)'
    BY <1>a, <2>1, <2>2, <2>3, <2>4 DEF Knows, TimeInv, IsStale, Behind
  <2> QED
    BY <1>2, <1>a, <2>1, <2>2, <2>3, <2>5, OneCall, CapKept DEF UnracedInv
<1>6. ASSUME NEW t \in Threads, PopHead(t) PROVE UnracedInv'
  <2>1. t \in Inside /\ Knows(t)
    BY <1>6, <1>a DEF PopHead, Inside
  <2>2. hits # <<>> /\ IsStale(hits[1], call[t].now)
    BY <1>6, <2>1 DEF PopHead, Knows
  <2>3. /\ \A u \in Threads \ {t} : call'[u] = call[u]
        /\ call'[t].at = "test" /\ call'[t].now = call[t].now
        /\ hits' = Tail(hits) /\ admitted' = admitted /\ clock' = clock /\ refused' = refused
    BY <1>2, <1>6, <2>2 DEF PopHead, Goto, LimiterTypeOK
  <2>4. /\ Len(hits') = Len(hits) - 1 /\ \A i \in 1..Len(hits') : hits'[i] = hits[i + 1]
        /\ Len(hits) > 0
    BY <1>2, <2>2, <2>3, HeadTailProperties DEF LimiterTypeOK
  <2>5. Behind' = Behind + 1 /\ hits[1] = admitted[Behind + 1] /\ Behind + 1 \in 1..n
    <3>1. Behind' = Behind + 1
      <4>1. Len(admitted') = Len(admitted)
        BY <2>3
      <4> QED  BY <1>2, <2>4, <4>1, Numbers DEF Behind
    <3>2. 1 \in 1..Len(hits)
      BY <1>2, <2>4, Numbers
    <3>3. hits[1] = admitted[Behind + 1]
      BY <1>2, <3>2 DEF DequeInv
    <3> QED  BY <1>2, <2>4, <3>1, <3>3, Numbers
  <2>6. DequeInv'
    <3>1. ASSUME NEW i \in 1..Len(hits') PROVE hits'[i] = admitted'[Behind' + i]
      <4>1. i + 1 \in 1..Len(hits) /\ hits'[i] = hits[i + 1]
        BY <1>2, <2>4, Numbers
      <4>2. hits[i + 1] = admitted[Behind + (i + 1)]
        BY <1>2, <4>1 DEF DequeInv
      <4>3. Behind + (i + 1) = Behind' + i
        <5>1. Behind \in Nat /\ Behind' = Behind + 1 /\ i \in Int
          BY <1>2, <2>5, Numbers
        <5> QED  BY <5>1
      <4> QED  BY <2>3, <4>1, <4>2, <4>3
    <3> QED  BY <1>2, <2>3, <2>4, <3>1, Numbers DEF DequeInv
  <2>7. TimeInv(clock)' /\ TimeInv(call[t].now)'
    <3>1. hits[1] + Window < call[t].now /\ call[t].now <= clock
      BY <1>2, <2>1, <2>2, <2>4, Numbers DEF IsStale, Knows, LimiterTypeOK
    <3>2. \A i \in 1..Behind' : i \in 1..Behind \/ i = Behind + 1
      BY <1>2, <2>5, Numbers
    <3>3. admitted[Behind + 1] + Window < clock
      <4>1. hits[1] \in Nat /\ call[t].now \in Nat /\ clock \in Nat /\ Window \in Nat
        <5>1. 1 \in 1..Len(hits)
          BY <1>2, <2>4, Numbers
        <5>2. hits[1] \in Nat
          BY <1>2, <5>1, Numbers
        <5> QED  BY <1>2, <5>2 DEF LimiterTypeOK
      <4>2. hits[1] + Window < clock
        BY <3>1, <4>1
      <4> QED  BY <2>5, <4>2
    <3>4. TimeInv(clock)'
      BY <1>2, <2>3, <3>2, <3>3 DEF TimeInv
    <3>5. TimeInv(call[t].now)
      BY <2>1 DEF Knows
    <3>6. TimeInv(call[t].now)'
      BY <2>3, <2>5, <3>1, <3>2, <3>5 DEF TimeInv
    <3> QED  BY <3>4, <3>6
  <2>8. Knows(t)'
    BY <2>1, <2>3, <2>7 DEF Knows, TimeInv
  <2> QED
    BY <1>2, <1>a, <2>1, <2>3, <2>6, <2>7, <2>8, OneCall, CapKept DEF UnracedInv, OrderInv
<1>7. ASSUME NEW t \in Threads, CountHits(t) PROVE UnracedInv'
  <2>1. t \in Inside /\ Knows(t) /\ call[t].at = "count"
    BY <1>7, <1>a DEF CountHits, Inside
  <2>2. /\ \A u \in Threads \ {t} : call'[u] = call[u]
        /\ call'[t].now = call[t].now
        /\ hits' = hits /\ admitted' = admitted /\ clock' = clock
        /\ call'[t].at \in {"outside", "append"}
        /\ call'[t].at = "append" => Len(hits) < AttemptsPerMinute
    <3>1. Len(hits) \in Nat /\ call \in [Threads -> [at : {"outside", "test", "head", "pop", "count", "append", "failed"},
                                                   now : 0..LastTick]]
      BY <1>2 DEF LimiterTypeOK
    <3>2. hits' = hits /\ admitted' = admitted /\ clock' = clock
      BY <1>7 DEF CountHits
    <3>3. \/ Goto(t, "outside")
          \/ Goto(t, "append") /\ Len(hits) < AttemptsPerMinute
      BY <1>7, <3>1 DEF CountHits
    <3> QED  BY <3>1, <3>2, <3>3 DEF Goto
  <2>3. TimeInv(clock)' /\ TimeInv(call[t].now)' /\ DequeInv' /\ OrderInv'
    BY <1>2, <2>1, <2>2 DEF TimeInv, DequeInv, OrderInv, Behind, Knows
  <2>4. Knows(t)'
    BY <2>1, <2>2, <2>3 DEF Knows, TimeInv
  <2>5. refused' >= AttemptsPerMinute
    <3>1. CASE ~(Len(hits) >= AttemptsPerMinute)
      BY <1>2, <1>7, <3>1 DEF CountHits
    <3>2. CASE Len(hits) >= AttemptsPerMinute
      <4> DEFINE inWindow == {i \in DOMAIN admitted : ~IsStale(admitted[i], call[t].now)}
      <4>1. hits # <<>> /\ hits[1] = admitted[Behind + 1] /\ Behind + 1 \in 1..n
        BY <1>2, <3>2, Numbers DEF DequeInv
      <4>2. ~IsStale(admitted[Behind + 1], call[t].now)
        BY <2>1, <4>1 DEF Knows
      <4>3. \A i \in (Behind + 1)..n : i \in 1..n /\ admitted[Behind + 1] <= admitted[i]
        BY <1>2, <4>1, Numbers DEF OrderInv
      <4>4. \A i \in (Behind + 1)..n : ~IsStale(admitted[i], call[t].now)
        <5>1. call[t].now \in Int /\ Window \in Int /\ \A i \in 1..n : admitted[i] \in Int
          BY <1>2, Numbers DEF LimiterTypeOK
        <5> QED  BY <4>1, <4>2, <4>3, <5>1 DEF IsStale
      <4>5. DOMAIN admitted = 1..n
        BY <1>2 DEF LimiterTypeOK
      <4>6. inWindow \in SUBSET (1..n) /\ (Behind + 1)..n \subseteq inWindow
        BY <4>3, <4>4, <4>5
      <4>7. refused' = Cardinality(inWindow)
        BY <1>7, <3>2 DEF CountHits, InWindow
      <4>9. Behind + 1 \in Nat /\ n \in Nat /\ Behind + 1 <= n + 1
        BY <1>2, Numbers
      <4> HIDE DEF inWindow, n
      <4>8. Cardinality(inWindow) \in Nat /\ Cardinality(inWindow) >= n - (Behind + 1) + 1
        BY <4>6, <4>9, Between
      <4> USE DEF n
      <4> QED  BY <1>2, <3>2, <4>7, <4>8, Numbers
    <3> QED  BY <3>1, <3>2
  <2> QED
    BY <1>2, <1>a, <2>1, <2>2, <2>3, <2>4, <2>5, OneCall, CapKept DEF UnracedInv
<1>8. ASSUME NEW t \in Threads, AppendHit(t) PROVE UnracedInv'
  <2>1. t \in Inside /\ Knows(t) /\ call[t].at = "append" /\ call[t].now \in 0..LastTick
    BY <1>2, <1>8, <1>a DEF AppendHit, Inside, LimiterTypeOK
  <2>2. /\ \A u \in Threads \ {t} : call'[u] = call[u]
        /\ call'[t].at = "outside" /\ hits' = Append(hits, call[t].now)
        /\ admitted' = Append(admitted, call[t].now) /\ clock' = clock /\ refused' = refused
    BY <1>2, <1>8 DEF AppendHit, Goto, LimiterTypeOK
  <2>3. /\ Len(admitted') = n + 1 /\ admitted'[n + 1] = call[t].now
        /\ \A i \in 1..n : admitted'[i] = admitted[i]
        /\ DOMAIN admitted' = 1..(n + 1) /\ DOMAIN admitted = 1..n
    BY <1>2, <2>1, <2>2, AppendProperties DEF LimiterTypeOK
  <2>4. /\ Len(hits') = Len(hits) + 1 /\ hits'[Len(hits) + 1] = call[t].now
        /\ \A i \in 1..Len(hits) : hits'[i] = hits[i]
    BY <1>2, <2>1, <2>2, AppendProperties DEF LimiterTypeOK
  <2>5. Behind' = Behind /\ Len(hits) < AttemptsPerMinute /\ TimeInv(call[t].now) /\ call[t].now <= clock
    BY <1>2, <2>1, <2>3, <2>4, Numbers DEF Behind, Knows
  <2>6. DequeInv'
    <3>1. ASSUME NEW i \in 1..(Len(hits) + 1) PROVE hits'[i] = admitted'[Behind + i]
      <4>1. CASE i \in 1..Len(hits)
        <5>1. hits'[i] = hits[i] /\ hits[i] = admitted[Behind + i]
          BY <1>2, <2>4, <4>1 DEF DequeInv
        <5>2. Behind + i \in 1..n
          BY <1>2, <4>1, Numbers
        <5> QED  BY <2>3, <5>1, <5>2
      <4>2. CASE i = Len(hits) + 1
        <5>1. Behind + i = n + 1
          BY <1>2, <4>2, Numbers
        <5> QED  BY <2>3, <2>4, <4>2, <5>1
      <4> QED  BY <1>2, <4>1, <4>2, Numbers
    <3> QED  BY <1>2, <2>3, <2>4, <2>5, <3>1, Numbers DEF DequeInv
  <2>7. TimeInv(clock)' /\ OrderInv'
    <3>1. \A i \in 1..(n + 1) : i \in 1..n \/ i = n + 1
      BY <1>2, Numbers
    <3>2. \A i \in 1..Behind : i \in 1..n
      BY <1>2, Numbers
    <3>3. \A i \in 1..n : admitted[i] <= call[t].now
      BY <2>5 DEF TimeInv
    <3>4. TimeInv(clock)'
      BY <1>2, <2>2, <2>3, <2>5, <3>1, <3>2 DEF TimeInv
    <3>5. OrderInv'
      <4> SUFFICES ASSUME NEW i \in 1..(n + 1), NEW j \in 1..(n + 1), i <= j
                   PROVE  admitted'[i] <= admitted'[j]
        BY <2>3 DEF OrderInv
      <4>1. CASE j = n + 1
        <5>1. CASE i \in 1..n
          BY <2>3, <3>3, <4>1, <5>1
        <5>2. CASE i = n + 1
          BY <2>1, <2>3, <4>1, <5>2
        <5> QED  BY <3>1, <5>1, <5>2
      <4>2. CASE j \in 1..n
        <5>1. i \in 1..n
          BY <1>2, <4>2, Numbers
        <5> QED  BY <1>2, <2>3, <4>2, <5>1 DEF OrderInv
      <4> QED  BY <3>1, <4>1, <4>2
    <3> QED  BY <3>4, <3>5
  <2>8. Knows(t)'
    BY <2>2 DEF Knows, Inside
  <2>9. CapInv'
    <3> SUFFICES ASSUME NEW now \in 0..LastTick
                 PROVE  Cardinality({i \in DOMAIN admitted' : admitted'[i] \in (now - Window) .. now})
                          <= AttemptsPerMinute
      BY DEF CapInv
    <3> DEFINE before == {i \in DOMAIN admitted : admitted[i] \in (now - Window) .. now}
               after == {i \in DOMAIN admitted' : admitted'[i] \in (now - Window) .. now}
    <3>1. CASE call[t].now \in (now - Window) .. now
      <4>1. \A i \in 1..Behind : admitted'[i] + Window < call[t].now
        BY <1>2, <2>3, <2>5, Numbers DEF TimeInv
      <4>2. \A i \in 1..Behind : admitted'[i] \notin (now - Window) .. now
        <5>1. call[t].now \in Int /\ Window \in Int
          BY <2>1
        <5>2. \A i \in 1..Behind : i \in 1..n
          BY <1>2, Numbers
        <5>3. \A i \in 1..Behind : admitted'[i] \in Int
          <6>1. \A i \in 1..n : admitted[i] \in Int
            BY <1>2, Numbers
          <6> QED  BY <2>3, <5>2, <6>1
        <5> QED  BY <3>1, <4>1, <5>1, <5>3
      <4>3. after \in SUBSET (1..(n + 1)) /\ after \subseteq (Behind + 1)..(n + 1)
        <5>1. after \in SUBSET (1..(n + 1))
          BY <2>3
        <5>2. n \in Nat /\ Behind \in Nat
          BY <1>2, Numbers
        <5>3. \A i \in 1..(n + 1) : i \in 1..Behind \/ i \in (Behind + 1)..(n + 1)
          BY <5>2
        <5>4. \A i \in after : i \notin 1..Behind
          BY <4>2
        <5> QED  BY <5>1, <5>3, <5>4
      <4>4. Cardinality(after) \in Nat /\ Cardinality(after) <= (n + 1) - (Behind + 1) + 1
        <5>1. Behind + 1 \in Nat /\ n + 1 \in Nat /\ Behind + 1 <= (n + 1) + 1
          BY <1>2, Numbers
        <5> HIDE DEF after, n
        <5> QED  BY <4>3, <5>1, Between
      <4> QED  BY <1>2, <2>5, <4>4, Numbers
    <3>2. CASE call[t].now \notin (now - Window) .. now
      <4>1. after = before
        BY <1>2, <2>3, <3>2, Numbers
      <4> QED  BY <1>2, <4>1 DEF CapInv
    <3> QED  BY <3>1, <3>2
  <2> QED
    BY <1>2, <1>a, <2>1, <2>2, <2>6, <2>7, <2>8, <2>9, OneCall DEF UnracedInv
<1>9. CASE UNCHANGED limiterVars
  BY <1>2, <1>9, CapKept
     DEF limiterVars, UnracedInv, DequeInv, TimeInv, OrderInv, CallInv, Knows, Behind, Inside, IsStale
<1> QED
  BY <1>3, <1>4, <1>5, <1>6, <1>7, <1>8, <1>9 DEF LimiterNext, AllowStep

-----------------------------------------------------------------------------
(* The inductive invariant of the limiter.                                 *)
THEOREM LimiterInvariant == LimiterSpec => []LimiterInv
<1>1. LimiterInv /\ [LimiterNext]_limiterVars => LimiterInv'
  BY LimiterTypeStep, BoundStep, UnracedStep DEF LimiterInv
<1> QED  BY <1>1, LimiterBegins, PTL DEF LimiterSpec

(* The deque and the calls stay typed.                                     *)
THEOREM LimiterTypes == LimiterSpec => []LimiterTypeOK
<1>1. LimiterInv => LimiterTypeOK
  BY DEF LimiterInv
<1> QED  BY <1>1, LimiterInvariant, PTL

(* The deque outgrows the limit by less than the number of threads         *)
(* (LoginRateLimiter.allow).                                               *)
THEOREM DequeStaysBounded == LimiterSpec => []DequeBounded
<1>1. LimiterInv => DequeBounded
  BY DEF LimiterInv
<1> QED  BY <1>1, LimiterInvariant, PTL

(* One call at a time is exact in every window (LoginRateLimiter.allow).   *)
THEOREM ExactWhenAlone == LimiterSpec => []ExactUnlessRaced
<1>1. LimiterInv => ExactUnlessRaced
  BY DEF LimiterInv, UnracedInv, CapInv, CallInv, Knows, ExactUnlessRaced
<1> QED  BY <1>1, LimiterInvariant, PTL

-----------------------------------------------------------------------------
(***************************************************************************)
(* LdapAuth: every login against every directory, for any set of bind      *)
(* modes that are configured.  Past each question, what the login has      *)
(* shown so far holds of it, and only the connection of that question is   *)
(* open.                                                                   *)
(***************************************************************************)

Asking == {"service", "search", "connect", "bind", "own", "group", "ask group"}

(* What is established when a question is reached, and with it the mode.   *)
PathInv ==
  /\ step \in Asking => login.name = "valid" /\ login.password # "empty"
  /\ step = "start" => entry = "none"
  /\ step \in {"service", "search"} => config.mode = "search" /\ entry = "none"
  /\ step \in {"connect", "bind"} =>
       /\ config.mode = "search" => login.matches = 1
       /\ entry # "none" => login.matches = 1
       /\ entry = "none" => config.mode = "direct"
  /\ step \in {"own", "group", "ask group"} =>
       /\ login.password = "right" /\ login.matches > 0
       /\ config.mode = "search" => login.matches = 1
  /\ entry = "listed" => login.member
  /\ step = "ask group" => config.group /\ entry # "listed"

(* Which connection is open while a question is asked.                     *)
OpenInv ==
  /\ step = "search" => open = {"service"}
  /\ step \in {"bind", "own", "group", "ask group"} => open = {"student"}
  /\ step \in Verdicts \cup {"start", "service", "connect"} => open = {}

LoginInv == LdapTypeOK /\ PathInv /\ OpenInv /\ VerdictIsDeserved

-----------------------------------------------------------------------------
(* Before the first question nothing is open and nothing established.      *)
LEMMA LoginBegins == LdapInit => LoginInv
BY DEF LdapInit, LoginInv, LdapTypeOK, PathInv, OpenInv, VerdictIsDeserved, Asking, Verdicts

(* The types.                                                              *)
LEMMA LoginTypeStep ==
  ASSUME LdapTypeOK, [LdapNext]_ldapVars
  PROVE  LdapTypeOK'
<1>1. CASE Start
  BY <1>1 DEF Start, LdapTypeOK, End, Raises, IsCoded, Verdicts
<1>2. CASE ServiceBind
  BY <1>2 DEF ServiceBind, LdapTypeOK, End, Raises, IsCoded, Verdicts
<1>3. CASE Search
  BY <1>3 DEF Search, LdapTypeOK, End, Raises, IsCoded, Verdicts, Attributes
<1>4. CASE Connect
  BY <1>4 DEF Connect, LdapTypeOK, End, Raises, IsCoded, Verdicts
<1>5. CASE Bind
  BY <1>5 DEF Bind, LdapTypeOK, End, Raises, IsCoded, Verdicts
<1>6. CASE OwnEntry
  BY <1>6 DEF OwnEntry, LdapTypeOK, End, Raises, IsCoded, Verdicts, Attributes
<1>7. CASE MemberOf
  BY <1>7 DEF MemberOf, LdapTypeOK, End, Raises, IsCoded, Verdicts
<1>8. CASE AskGroup
  BY <1>8 DEF AskGroup, LdapTypeOK, End, Raises, IsCoded, Verdicts
<1>9. CASE UNCHANGED ldapVars
  BY <1>9 DEF ldapVars, LdapTypeOK, Verdicts
<1> QED
  BY <1>1, <1>2, <1>3, <1>4, <1>5, <1>6, <1>7, <1>8, <1>9 DEF LdapNext

(* Each question closes what it opened, or leaves it to the next one.      *)
LEMMA OpenStep ==
  ASSUME LdapTypeOK, OpenInv, [LdapNext]_ldapVars
  PROVE  OpenInv'
<1>1. CASE Start
  BY <1>1 DEF Start, LdapTypeOK, OpenInv, End, Raises, IsCoded, Verdicts
<1>2. CASE ServiceBind
  BY <1>2 DEF ServiceBind, LdapTypeOK, OpenInv, End, Raises, IsCoded, Verdicts
<1>3. CASE Search
  BY <1>3 DEF Search, LdapTypeOK, OpenInv, End, Raises, IsCoded, Verdicts
<1>4. CASE Connect
  BY <1>4 DEF Connect, LdapTypeOK, OpenInv, End, Raises, IsCoded, Verdicts
<1>5. CASE Bind
  BY <1>5 DEF Bind, LdapTypeOK, OpenInv, End, Raises, IsCoded, Verdicts
<1>6. CASE OwnEntry
  BY <1>6 DEF OwnEntry, LdapTypeOK, OpenInv, End, Raises, IsCoded, Verdicts
<1>7. CASE MemberOf
  BY <1>7 DEF MemberOf, LdapTypeOK, OpenInv, End, Raises, IsCoded, Verdicts
<1>8. CASE AskGroup
  BY <1>8 DEF AskGroup, LdapTypeOK, OpenInv, End, Raises, IsCoded, Verdicts
<1>9. CASE UNCHANGED ldapVars
  BY <1>9 DEF ldapVars, LdapTypeOK, OpenInv, Verdicts
<1> QED
  BY <1>1, <1>2, <1>3, <1>4, <1>5, <1>6, <1>7, <1>8, <1>9 DEF LdapNext

(* Each question leaves its answer behind, or ends the call.               *)
LEMMA PathStep ==
  ASSUME LdapTypeOK, PathInv, [LdapNext]_ldapVars
  PROVE  PathInv'
<1>1. CASE Start
  BY <1>1 DEF Start, LdapTypeOK, PathInv, Asking, Configs, Logins, End, Raises, IsCoded, Verdicts, Refused
<1>2. CASE ServiceBind
  BY <1>2 DEF ServiceBind, LdapTypeOK, PathInv, Asking, Configs, Logins, End, Raises, IsCoded, Verdicts
<1>3. CASE Search
  BY <1>3 DEF Search, LdapTypeOK, PathInv, Asking, Configs, Logins, End, Raises, IsCoded, Verdicts, Attributes
<1>4. CASE Connect
  BY <1>4 DEF Connect, LdapTypeOK, PathInv, Asking, Configs, Logins, End, Raises, IsCoded, Verdicts
<1>5. CASE Bind
  BY <1>5 DEF Bind, LdapTypeOK, PathInv, Asking, Configs, Logins, End, Raises, IsCoded, Verdicts, Accepts
<1>6. CASE OwnEntry
  BY <1>6 DEF OwnEntry, LdapTypeOK, PathInv, Asking, Configs, Logins, End, Raises, IsCoded, Verdicts, Attributes
<1>7. CASE MemberOf
  BY <1>7 DEF MemberOf, LdapTypeOK, PathInv, Asking, Configs, Logins, End, Raises, IsCoded, Verdicts
<1>8. CASE AskGroup
  BY <1>8 DEF AskGroup, LdapTypeOK, PathInv, Asking, Configs, Logins, End, Raises, IsCoded, Verdicts
<1>9. CASE UNCHANGED ldapVars
  BY <1>9 DEF ldapVars, LdapTypeOK, PathInv, Asking, Configs, Logins, Verdicts
<1> QED
  BY <1>1, <1>2, <1>3, <1>4, <1>5, <1>6, <1>7, <1>8, <1>9 DEF LdapNext

(* The verdict follows from the answers.                                   *)
LEMMA VerdictStep ==
  ASSUME LdapTypeOK, PathInv, VerdictIsDeserved, [LdapNext]_ldapVars
  PROVE  VerdictIsDeserved'
<1>1. CASE Start
  BY <1>1 DEF Start, LdapTypeOK, PathInv, VerdictIsDeserved, Deserved, Asking, Configs, Logins, End, Raises, IsCoded, Verdicts, Refused
<1>2. CASE ServiceBind
  BY <1>2 DEF ServiceBind, LdapTypeOK, PathInv, VerdictIsDeserved, Deserved, Asking, Configs, Logins, End, Raises, IsCoded, Verdicts
<1>3. CASE Search
  BY <1>3 DEF Search, LdapTypeOK, PathInv, VerdictIsDeserved, Deserved, Asking, Configs, Logins, End, Raises, IsCoded, Verdicts, Attributes
<1>4. CASE Connect
  BY <1>4 DEF Connect, LdapTypeOK, PathInv, VerdictIsDeserved, Deserved, Asking, Configs, Logins, End, Raises, IsCoded, Verdicts
<1>5. CASE Bind
  BY <1>5 DEF Bind, LdapTypeOK, PathInv, VerdictIsDeserved, Deserved, Asking, Configs, Logins, End, Raises, IsCoded, Verdicts, Accepts
<1>6. CASE OwnEntry
  BY <1>6 DEF OwnEntry, LdapTypeOK, PathInv, VerdictIsDeserved, Deserved, Asking, Configs, Logins, End, Raises, IsCoded, Verdicts, Attributes
<1>7. CASE MemberOf
  BY <1>7 DEF MemberOf, LdapTypeOK, PathInv, VerdictIsDeserved, Deserved, Asking, Configs, Logins, End, Raises, IsCoded, Verdicts
<1>8. CASE AskGroup
  BY <1>8 DEF AskGroup, LdapTypeOK, PathInv, VerdictIsDeserved, Deserved, Asking, Configs, Logins, End, Raises, IsCoded, Verdicts
<1>9. CASE UNCHANGED ldapVars
  BY <1>9 DEF ldapVars, LdapTypeOK, PathInv, VerdictIsDeserved, Deserved, Asking, Configs, Logins, Verdicts
<1> QED
  BY <1>1, <1>2, <1>3, <1>4, <1>5, <1>6, <1>7, <1>8, <1>9 DEF LdapNext

(* Every question the code asks keeps what its predecessors established.   *)
LEMMA LoginStep ==
  ASSUME LoginInv, [LdapNext]_ldapVars
  PROVE  LoginInv'
BY LoginTypeStep, OpenStep, PathStep, VerdictStep DEF LoginInv

(* The inductive invariant of a login.                                     *)
THEOREM LoginInvariant == LdapSpec => []LoginInv
BY LoginBegins, LoginStep, PTL DEF LdapSpec

(* The steps, the entry and the connections stay typed.                    *)
THEOREM LoginTypes == LdapSpec => []LdapTypeOK
<1>1. LoginInv => LdapTypeOK
  BY DEF LoginInv
<1> QED  BY <1>1, LoginInvariant, PTL

(* Nobody is let in, or told that the password is wrong, undeservedly      *)
(* (authenticate).                                                         *)
THEOREM VerdictsAreDeserved == LdapSpec => []VerdictIsDeserved
<1>1. LoginInv => VerdictIsDeserved
  BY DEF LoginInv
<1> QED  BY <1>1, LoginInvariant, PTL

(* One connection at a time, and none in the end (_safe_unbind).           *)
THEOREM ConnectionsEnd == LdapSpec => []ConnectionsAreUnbound
<1>1. LoginInv => ConnectionsAreUnbound
  <2> SUFFICES ASSUME LoginInv PROVE ConnectionsAreUnbound
    OBVIOUS
  <2>1. open \in {{}, {"service"}, {"student"}} /\ (step \in Verdicts => open = {})
    BY DEF LoginInv, LdapTypeOK, OpenInv, Asking, Verdicts
  <2>2. Cardinality({}) = 0 /\ Cardinality({"service"}) = 1 /\ Cardinality({"student"}) = 1
    BY FS_EmptySet, FS_Singleton
  <2> QED  BY <2>1, <2>2 DEF ConnectionsAreUnbound
<1> QED  BY <1>1, LoginInvariant, PTL

-----------------------------------------------------------------------------
(***************************************************************************)
(* InputLines: every line of a file is answered, for every set of lines    *)
(* and files of any length.  The parser decides with the set of ids it has *)
(* accepted, the property with the lines before: the invariant says that   *)
(* they are the same, and counts the lines answered.                       *)
(***************************************************************************)

ParsedLine(i, line) ==
  [line_index |-> i, custom_id |-> line.id,
   prompt_tokens |-> estimate_prompt_tokens(line.messages),
   max_tokens |-> IF line.max = <<>> THEN DefaultMax ELSE line.max[1]]

ParsedLines == {ParsedLine(i, line) : i \in Nat, line \in Lines}

ReportedLines == [line_index : Nat, check : Range(Checks)]

(* The lines of f that are sound.                                          *)
IsSound(f, i) ==
  /\ f[i].flaws = {}
  /\ \A j \in 1..(i - 1) : f[j].id = f[i].id => f[j].flaws # {}

SoundLines(f, n) == {i \in 1..n : IsSound(f, i)}

(* The ids of its flawless lines, and the lines a list of answers is for.  *)
FlawlessIds(f) == {f[j].id : j \in {k \in 1..Len(f) : f[k].flaws = {}}}

Indices(s) == {s[k].line_index : k \in 1..Len(s)}

Types ==
  /\ file \in Seq(Lines)
  /\ parsed \in Seq(ParsedLines)
  /\ errors \in Seq(ReportedLines)
  /\ outcome \in {"reading", "accepted", "rejected", "failed"}

(* The first n lines are answered.                                         *)
Answered(n) ==
  /\ Len(parsed) + Len(errors) = n
  /\ Indices(parsed) = SoundLines(file, n)
  /\ Indices(errors) = (1..n) \ SoundLines(file, n)

InputInv ==
  /\ Types
  /\ seen = FlawlessIds(file)
  /\ outcome # "failed" => Answered(Len(file))
  /\ outcome = "failed" => Len(file) > 0 /\ Answered(Len(file) - 1)
  /\ outcome \in {"accepted", "rejected"} =>
       (outcome = "accepted" <=> file # <<>> /\ SoundLines(file, Len(file)) = 1..Len(file))

-----------------------------------------------------------------------------
(* Appending a line or an answer.                                          *)

(* One more answer answers one more line.                                  *)
LEMMA AppendIndices ==
  ASSUME NEW S, NEW s \in Seq(S), NEW e \in S
  PROVE  Indices(Append(s, e)) = Indices(s) \cup {e.line_index}
<1> DEFINE t == Append(s, e)
           n == Len(s)
<1>1. /\ t[n + 1] = e /\ \A k \in 1..n : t[k] = s[k]
      /\ 1..Len(t) = (1..n) \cup {n + 1}
  BY AppendFacts
<1> HIDE DEF t, n
<1>2. {t[k].line_index : k \in 1..Len(t)} = {s[k].line_index : k \in 1..n} \cup {e.line_index}
  BY <1>1
<1> QED
  BY <1>2 DEF Indices, t, n

(* Reading a flawless line adds its id, reading another one none.          *)
LEMMA AppendIds ==
  ASSUME NEW f \in Seq(Lines), NEW line \in Lines
  PROVE  FlawlessIds(Append(f, line)) =
           IF line.flaws = {} THEN FlawlessIds(f) \cup {line.id} ELSE FlawlessIds(f)
<1> DEFINE t == Append(f, line)
           n == Len(f)
<1>1. /\ t[n + 1] = line /\ \A k \in 1..n : t[k] = f[k]
      /\ 1..Len(t) = (1..n) \cup {n + 1}
  BY AppendFacts
<1> HIDE DEF t, n
<1>2. {k \in 1..Len(t) : t[k].flaws = {}} =
        IF line.flaws = {} THEN {k \in 1..n : f[k].flaws = {}} \cup {n + 1}
                           ELSE {k \in 1..n : f[k].flaws = {}}
  BY <1>1
<1> DEFINE old == {k \in 1..n : f[k].flaws = {}}
           new == {k \in 1..Len(t) : t[k].flaws = {}}
<1>3. \A k \in old : t[k] = f[k]
  BY <1>1
<1>4. new = IF line.flaws = {} THEN old \cup {n + 1} ELSE old
  BY <1>2
<1> HIDE DEF old, new
<1>5. {t[j].id : j \in new} =
        IF line.flaws = {} THEN {f[j].id : j \in old} \cup {line.id} ELSE {f[j].id : j \in old}
  BY <1>1, <1>3, <1>4
<1> QED
  BY <1>5 DEF FlawlessIds, old, new, t, n

(* The next line is sound when it is flawless and its id is a new one.     *)
LEMMA AppendSound ==
  ASSUME NEW f \in Seq(Lines), NEW line \in Lines
  PROVE  /\ SoundLines(Append(f, line), Len(f)) = SoundLines(f, Len(f))
         /\ SoundLines(Append(f, line), Len(f) + 1) =
              IF line.flaws = {} /\ line.id \notin FlawlessIds(f)
              THEN SoundLines(f, Len(f)) \cup {Len(f) + 1} ELSE SoundLines(f, Len(f))
<1> DEFINE t == Append(f, line)
           n == Len(f)
<1>1. /\ t[n + 1] = line /\ \A k \in 1..n : t[k] = f[k]
      /\ n \in Nat
      /\ 1..(n + 1) = (1..n) \cup {n + 1}
  BY AppendFacts
<1> HIDE DEF t, n
<1>2. ASSUME NEW i \in 1..n PROVE IsSound(t, i) <=> IsSound(f, i)
  <2>1. \A j \in 1..(i - 1) : j \in 1..n
    BY <1>1
  <2>2. t[i] = f[i] /\ \A j \in 1..(i - 1) : t[j] = f[j]
    BY <1>1, <2>1
  <2> QED
    BY <2>2 DEF IsSound
<1>3. IsSound(t, n + 1) <=> line.flaws = {} /\ line.id \notin FlawlessIds(f)
  <2>1. 1..((n + 1) - 1) = 1..n
    BY <1>1
  <2>2. IsSound(t, n + 1) <=>
          line.flaws = {} /\ \A j \in 1..n : f[j].id = line.id => f[j].flaws # {}
    BY <1>1, <2>1 DEF IsSound
  <2> QED
    BY <2>2 DEF FlawlessIds, n
<1>4. SoundLines(t, n) = SoundLines(f, n)
  BY <1>2 DEF SoundLines
<1>5. SoundLines(t, n + 1) =
        IF IsSound(t, n + 1) THEN SoundLines(t, n) \cup {n + 1} ELSE SoundLines(t, n)
  BY <1>1 DEF SoundLines
<1> QED
  BY <1>3, <1>4, <1>5 DEF t, n

-----------------------------------------------------------------------------
(* The checks of a line, one by one.                                       *)
LEMMA ChecksAre ==
  /\ DOMAIN Checks = 1..9
  /\ \A i \in 1..9 : Checks[i] \in Range(Checks) /\ Checks[i] # "none"
  /\ \A c \in Range(Checks) : \E i \in 1..9 : Checks[i] = c
  /\ "duplicate" \in Range(Checks)
<1>1. DOMAIN Checks = 1..9 /\ \A i \in 1..9 : Checks[i] # "none"
  BY DEF Checks
<1>2. Checks[4] = "duplicate"
  BY DEF Checks
<1> QED
  BY <1>1, <1>2 DEF Range

(* A set of checks has a first one.                                        *)
LEMMA FirstOf ==
  ASSUME NEW S \in SUBSET (1..9), S # {}
  PROVE  \E i \in S : \A j \in S : i <= j
<1> SUFFICES ASSUME \A i \in S : \E j \in S : ~(i <= j)
             PROVE  FALSE
  OBVIOUS
<1> DEFINE From(k) == \A j \in S : k <= j
<1>1. From(1)
  OBVIOUS
<1>2. \A k \in Int : From(k) => From(k + 1)
  OBVIOUS
<1> HIDE DEF From
<1>3. From(2) /\ From(3) /\ From(4) /\ From(5)
  BY <1>1, <1>2
<1>4. From(6) /\ From(7) /\ From(8) /\ From(9) /\ From(10)
  BY <1>2, <1>3
<1>5. \A j \in S : 10 <= j
  BY <1>4 DEF From
<1>6. \A j \in S : j \in Int /\ j <= 9
  OBVIOUS
<1>7. \A j \in S : FALSE
  BY <1>5, <1>6
<1> QED
  BY <1>7

(* No check fails for a line without a flaw whose id is not seen, and for  *)
(* no other line.                                                          *)
LEMMA FailureMeans ==
  ASSUME NEW line \in Lines
  PROVE  /\ FirstFailure(line) = "none" <=> line.flaws = {} /\ line.id \notin seen
         /\ FirstFailure(line) # "none" => FirstFailure(line) \in Range(Checks)
<1> DEFINE failing == {i \in DOMAIN Checks : Fails(line, Checks[i])}
<1>1. failing \in SUBSET (1..9)
  BY ChecksAre
<1>2. failing = {} <=> line.flaws = {} /\ line.id \notin seen
  <2>1. line.flaws \subseteq Range(Checks) \ {"duplicate"}
    BY LinesAssumption
  <2> QED
    BY <2>1, ChecksAre DEF Fails
<1>3. FirstFailure(line) = IF failing = {} THEN "none"
        ELSE Checks[CHOOSE i \in failing : \A j \in failing : i <= j]
  BY DEF FirstFailure
<1>4. failing # {} => (CHOOSE i \in failing : \A j \in failing : i <= j) \in 1..9
  <2> HIDE DEF failing
  <2> SUFFICES ASSUME failing # {}
               PROVE  (CHOOSE i \in failing : \A j \in failing : i <= j) \in 1..9
    OBVIOUS
  <2>1. \E i \in failing : \A j \in failing : i <= j
    BY <1>1, FirstOf
  <2> QED
    BY <1>1, <2>1
<1> HIDE DEF failing
<1> QED
  BY <1>2, <1>3, <1>4, ChecksAre

-----------------------------------------------------------------------------
(* A line that fails a check is reported once and leaves the ids seen.     *)
LEMMA ReportKeeps ==
  ASSUME InputInv, NEW line \in Lines, Report(line)
  PROVE  InputInv'
<1> DEFINE n == Len(file)
           e == [line_index |-> n + 1, check |-> FirstFailure(line)]
<1>1. /\ Types /\ seen = FlawlessIds(file) /\ Answered(n) /\ outcome = "reading"
      /\ FirstFailure(line) # "none" /\ file' = Append(file, line)
      /\ UNCHANGED <<parsed, seen, outcome>>
  BY DEF Report, Read, InputInv
<1>2. Len(file') = n + 1 /\ n \in Nat /\ file' \in Seq(Lines)
  BY <1>1, AppendFacts DEF Types
<1>3. e \in ReportedLines /\ e.line_index = n + 1
  BY <1>1, <1>2, FailureMeans DEF ReportedLines
<1>4. errors' = Append(errors, e)
  BY <1>2 DEF Report
<1>5. ~(line.flaws = {} /\ line.id \notin FlawlessIds(file))
  BY <1>1, FailureMeans
<1>6. FlawlessIds(file') = FlawlessIds(file) /\ SoundLines(file', n + 1) = SoundLines(file, n)
  <2>1. SoundLines(file', n + 1) = SoundLines(file, n)
    BY <1>1, <1>5, AppendSound DEF Types
  <2>2. CASE line.flaws = {}
    <3>1. FlawlessIds(file') = FlawlessIds(file) \cup {line.id}
      BY <1>1, <2>2, AppendIds DEF Types
    <3> QED
      BY <1>5, <2>1, <2>2, <3>1
  <2>3. CASE line.flaws # {}
    BY <1>1, <2>1, <2>3, AppendIds DEF Types
  <2> QED
    BY <2>2, <2>3
<1> HIDE DEF e
<1>7. /\ errors' \in Seq(ReportedLines) /\ Len(errors') = Len(errors) + 1
      /\ Len(errors) \in Nat /\ Len(parsed) \in Nat
      /\ Indices(errors') = Indices(errors) \cup {n + 1}
  BY <1>1, <1>3, <1>4, AppendFacts, AppendIndices DEF Types
<1>8. (1..(n + 1)) \ SoundLines(file, n) = ((1..n) \ SoundLines(file, n)) \cup {n + 1}
  BY <1>2 DEF SoundLines
<1>9. Answered(Len(file))'
  BY <1>1, <1>2, <1>6, <1>7, <1>8 DEF Answered
<1> QED
  BY <1>1, <1>2, <1>6, <1>7, <1>9 DEF InputInv, Types

(* A line that passes every check is sound and is accepted once.           *)
LEMMA AcceptKeeps ==
  ASSUME InputInv, NEW line \in Lines, Accept(line)
  PROVE  InputInv'
<1> DEFINE n == Len(file)
           p == ParsedLine(n + 1, line)
<1>1. /\ Types /\ seen = FlawlessIds(file) /\ Answered(n) /\ outcome = "reading"
      /\ FirstFailure(line) = "none" /\ file' = Append(file, line)
      /\ seen' = seen \cup {line.id} /\ UNCHANGED <<errors, outcome>>
  BY DEF Accept, Read, InputInv
<1>2. Len(file') = n + 1 /\ n \in Nat /\ file' \in Seq(Lines)
  BY <1>1, AppendFacts DEF Types
<1>3. p \in ParsedLines /\ p.line_index = n + 1
  <2>1. n + 1 \in Nat
    BY <1>2
  <2>2. p \in ParsedLines
    BY <2>1 DEF ParsedLines
  <2>3. p.line_index = n + 1
    BY DEF ParsedLine
  <2> QED
    BY <2>2, <2>3
<1>4. parsed' = Append(parsed, p)
  BY <1>2 DEF Accept, ParsedLine
<1>5. line.flaws = {} /\ line.id \notin FlawlessIds(file)
  BY <1>1, FailureMeans
<1>6. /\ FlawlessIds(file') = FlawlessIds(file) \cup {line.id}
      /\ SoundLines(file', n + 1) = SoundLines(file, n) \cup {n + 1}
  BY <1>1, <1>5, AppendIds, AppendSound DEF Types
<1> HIDE DEF p
<1>7. /\ parsed' \in Seq(ParsedLines) /\ Len(parsed') = Len(parsed) + 1
      /\ Len(errors) \in Nat /\ Len(parsed) \in Nat
      /\ Indices(parsed') = Indices(parsed) \cup {n + 1}
  BY <1>1, <1>3, <1>4, AppendFacts, AppendIndices DEF Types
<1>8. (1..(n + 1)) \ (SoundLines(file, n) \cup {n + 1}) = (1..n) \ SoundLines(file, n)
  BY <1>2 DEF SoundLines
<1>9. Answered(Len(file))'
  BY <1>1, <1>2, <1>6, <1>7, <1>8 DEF Answered
<1> QED
  BY <1>1, <1>2, <1>6, <1>7, <1>9 DEF InputInv, Types

(* The line that crashes the parser is counted as read but not answered.   *)
LEMMA CrashKeeps ==
  ASSUME InputInv, NEW line \in Lines, Crash(line)
  PROVE  InputInv'
<1> DEFINE n == Len(file)
<1>1. /\ Types /\ seen = FlawlessIds(file) /\ Answered(n)
      /\ FirstFailure(line) = "none" /\ file' = Append(file, line)
      /\ seen' = seen \cup {line.id} /\ outcome' = "failed"
      /\ UNCHANGED <<parsed, errors>>
  BY DEF Crash, Read, InputInv
<1>2. Len(file') = n + 1 /\ n \in Nat /\ file' \in Seq(Lines)
  BY <1>1, AppendFacts DEF Types
<1>3. line.flaws = {} /\ line.id \notin FlawlessIds(file)
  BY <1>1, FailureMeans
<1>4. /\ FlawlessIds(file') = FlawlessIds(file) \cup {line.id}
      /\ SoundLines(file', n) = SoundLines(file, n)
  BY <1>1, <1>3, AppendIds, AppendSound DEF Types
<1>5. Len(file') - 1 = n /\ Len(file') > 0
  BY <1>2
<1>6. Answered(Len(file) - 1)'
  BY <1>1, <1>4, <1>5 DEF Answered
<1> QED
  BY <1>1, <1>2, <1>4, <1>5, <1>6 DEF InputInv, Types

(* A file without an error has no line that is not sound.                  *)
LEMMA EndKeeps ==
  ASSUME InputInv, EndOfFile
  PROVE  InputInv'
<1>1. /\ Types /\ seen = FlawlessIds(file) /\ Answered(Len(file))
      /\ UNCHANGED <<file, parsed, errors, seen>>
      /\ outcome' = IF file = <<>> \/ errors # <<>> THEN "rejected" ELSE "accepted"
  BY DEF EndOfFile, InputInv
<1>2. Types' /\ Answered(Len(file))'
  BY <1>1 DEF Types, Answered
<1>3. errors = <<>> <=> Indices(errors) = {}
  <2>1. errors \in Seq(ReportedLines) /\ Len(errors) \in Nat
    BY <1>1 DEF Types
  <2>2. CASE Len(errors) = 0
    BY <2>1, <2>2 DEF Indices
  <2>3. CASE Len(errors) # 0
    <3>1. 1 \in 1..Len(errors) /\ errors # <<>>
      BY <2>1, <2>3
    <3> QED
      BY <3>1 DEF Indices
  <2> QED
    BY <2>2, <2>3
<1>4. Indices(errors) = {} <=> SoundLines(file, Len(file)) = 1..Len(file)
  BY <1>1 DEF Answered, SoundLines
<1> QED
  BY <1>1, <1>2, <1>3, <1>4 DEF InputInv

(* An unread file has no answers.                                          *)
LEMMA InitAnswers == InputInit => InputInv
<1> SUFFICES ASSUME InputInit PROVE InputInv
  OBVIOUS
<1>1. /\ Len(file) = 0 /\ Len(parsed) = 0 /\ Len(errors) = 0 /\ outcome = "reading"
      /\ seen = {} /\ Types
  BY DEF InputInit, Types
<1>2. 1..0 = {}
  OBVIOUS
<1>3. Answered(0) /\ FlawlessIds(file) = {}
  BY <1>1, <1>2 DEF Answered, Indices, SoundLines, FlawlessIds
<1> QED
  BY <1>1, <1>3 DEF InputInv

(* Each way round the loop of parse_batch_input answers one line, but for  *)
(* a crash.                                                                *)
LEMMA StepAnswers == InputInv /\ [InputNext]_inputVars => InputInv'
<1> SUFFICES ASSUME InputInv, [InputNext]_inputVars PROVE InputInv'
  OBVIOUS
<1>1. CASE InputNext
  BY <1>1, ReportKeeps, AcceptKeeps, CrashKeeps, EndKeeps DEF InputNext
<1>2. CASE UNCHANGED inputVars
  BY <1>2 DEF inputVars, InputInv, Types, Answered
<1> QED
  BY <1>1, <1>2

(* parse_batch_input: the ids seen are those of the flawless lines read so *)
(* far, and the lines answered are the lines read, in every file.          *)
THEOREM InputInvariant == InputSpec => []InputInv
BY InitAnswers, StepAnswers, PTL DEF InputSpec

(* The invariant counts lines, the property a set of them.                 *)
LEMMA InvAnswers == InputInv => LinesAnswered
<1> SUFFICES ASSUME InputInv PROVE LinesAnswered
  OBVIOUS
<1> DEFINE n == IF outcome = "failed" THEN Len(file) - 1 ELSE Len(file)
           done == IF outcome = "failed" THEN DOMAIN file \ {Len(file)} ELSE DOMAIN file
<1>1. /\ DOMAIN file = 1..Len(file) /\ Len(file) \in Nat
      /\ DOMAIN parsed = 1..Len(parsed) /\ DOMAIN errors = 1..Len(errors)
  BY DEF InputInv, Types
<1>2. n \in Nat /\ done = 1..n
  <2>1. CASE outcome = "failed"
    <3>1. Len(file) > 0
      BY <2>1 DEF InputInv
    <3>2. \A k \in Nat : k > 0 => (1..k) \ {k} = 1..(k - 1) /\ k - 1 \in Nat
      OBVIOUS
    <3> QED
      BY <1>1, <2>1, <3>1, <3>2
  <2>2. CASE outcome # "failed"
    BY <1>1, <2>2
  <2> QED
    BY <2>1, <2>2
<1>3. Cardinality(1..n) = n
  <2>1. 1 \in Int /\ n \in Int
    BY <1>2
  <2>2. Cardinality(1..n) = IF 1 > n THEN 0 ELSE n - 1 + 1
    BY <2>1, FS_Interval
  <2> HIDE DEF n
  <2> QED
    BY <1>2, <2>2
<1>4. Answered(n)
  BY DEF InputInv
<1>5. outcome \in {"accepted", "rejected"} => done = 1..Len(file)
  BY <1>1
<1>6. outcome \in {"accepted", "rejected"} =>
       (outcome = "accepted" <=> file # <<>> /\ SoundLines(file, Len(file)) = 1..Len(file))
  BY DEF InputInv
<1> HIDE DEF n, done
<1>7. \A m : SoundLines(file, m) = {i \in 1..m : Sound(i)}
  BY DEF SoundLines, IsSound, Sound
<1>8. /\ Len(parsed) + Len(errors) = Cardinality(done)
      /\ {parsed[k].line_index : k \in DOMAIN parsed} = {i \in done : Sound(i)}
      /\ {errors[k].line_index : k \in DOMAIN errors} = {i \in done : ~Sound(i)}
  BY <1>1, <1>2, <1>3, <1>4, <1>7 DEF Answered, Indices
<1>9. outcome \in {"accepted", "rejected"} =>
        (outcome = "accepted" <=> file # <<>> /\ \A i \in done : Sound(i))
  BY <1>5, <1>6, <1>7
<1> QED
  BY <1>8, <1>9 DEF LinesAnswered, done

(* Every line of every input file is accepted or reported, once and under  *)
(* its index, and a file is accepted only when all its lines are sound.    *)
THEOREM LinesAreAnswered == InputSpec => []LinesAnswered
BY InputInvariant, InvAnswers, PTL

-----------------------------------------------------------------------------
(* What a line reserves.                                                   *)

(* Four times the tokens, without the overhead of each message, are at     *)
(* least the characters when that is so for every message.                 *)
LEMMA SumCovers ==
  ASSUME NEW f, NEW g, NEW S, IsFiniteSet(S),
         \A x \in S : f[x] \in Int /\ g[x] \in Int /\ 4 * (f[x] - 4) >= g[x]
  PROVE  4 * (SumFunctionOnSet(f, S) - 4 * Cardinality(S)) >= SumFunctionOnSet(g, S)
<1>1. \E fs : SumsOf(f, S, fs)
  BY SumsExist
<1>2. \E gs : SumsOf(g, S, gs)
  BY SumsExist
<1>3. PICK fs : SumsOf(f, S, fs)
  BY <1>1
<1>4. PICK gs : SumsOf(g, S, gs)
  BY <1>2
<1> DEFINE P == {s \in SUBSET S : 4 * (fs[s] - 4 * Cardinality(s)) >= gs[s]}
           choice == AnyOf(S)
<1>5. {} \in P
  <2>1. fs[{}] = 0 /\ gs[{}] = 0 /\ Cardinality({}) = 0
    BY <1>3, <1>4, FS_EmptySet DEF SumsOf
  <2> QED  BY <2>1
<1>6. ASSUME NEW s \in SUBSET S, s # {}
      PROVE  choice[s] \in s /\ (s \ {choice[s]} \in P => s \in P)
  <2> DEFINE x == choice[s]
             rest == s \ {x}
  <2>1. /\ x \in s
        /\ fs[s] = f[x] + fs[rest] /\ gs[s] = g[x] + gs[rest]
    BY <1>3, <1>4, <1>6 DEF SumsOf
  <2>2. x \in S /\ rest \in SUBSET S
    BY <2>1
  <2>3. fs[rest] \in Int /\ gs[rest] \in Int
    BY <1>3, <1>4, <2>2 DEF SumsOf
  <2>4. Cardinality(s) \in Nat /\ Cardinality(rest) = Cardinality(s) - 1
    BY <2>1, FS_Subset, FS_CardinalityType, FS_RemoveElement
  <2>5. f[x] \in Int /\ g[x] \in Int /\ 4 * (f[x] - 4) >= g[x]
    BY <2>2
  <2> HIDE DEF x, rest
  <2>6. 4 * (fs[rest] - 4 * Cardinality(rest)) >= gs[rest] => 4 * (fs[s] - 4 * Cardinality(s)) >= gs[s]
    BY <2>1, <2>3, <2>4, <2>5
  <2>7. rest \in P => s \in P
    BY <2>6
  <2> QED  BY <2>1, <2>7 DEF x, rest
<1> HIDE DEF P, choice
<1>7. ChoosesFrom(choice, S) /\ GrowsBy(choice, S, P)
  BY <1>6 DEF ChoosesFrom, GrowsBy
<1>8. S \in P
  BY <1>5, <1>7, SubsetsOf
<1> QED  BY <1>3, <1>4, <1>8 DEF P, SumsOf

(* A text part has a length, and a text of n characters is given a token   *)
(* for every four of them, rounded up.                                     *)
LEMMA TokensCover ==
  ASSUME NEW n \in Nat
  PROVE  count_text_tokens(n) \in Nat /\ 4 * count_text_tokens(n) >= n
BY DEF count_text_tokens

Parts == Seq(Nat \cup {NoText})

(* The text of a message is at least as long as its parts together: the    *)
(* separators only add to it.                                              *)
LEMMA PartsSum ==
  ASSUME NEW parts \in Parts
  PROVE  /\ SumFunctionOnSet(parts, TextParts(parts)) \in Nat
         /\ MessageLength(parts) \in Nat
         /\ MessageLength(parts) >= SumFunctionOnSet(parts, TextParts(parts))
<1> DEFINE texts == TextParts(parts)
           total == SumFunctionOnSet(parts, texts)
<1>1. /\ texts \subseteq 1..Len(parts) /\ Len(parts) \in Nat
      /\ \A i \in texts : parts[i] \in Nat
  BY DEF TextParts, Parts, NoText
<1>2. IsFiniteSet(texts)
  <2>1. 1 \in Int /\ Len(parts) \in Int
    BY <1>1
  <2>2. IsFiniteSet(1..Len(parts))
    BY <2>1, FS_Interval
  <2> QED  BY <1>1, <2>2, FS_Subset
<1>3. total \in Nat
  <2> HIDE DEF texts
  <2> QED  BY <1>1, <1>2, SumIsNatural
<1>4. CASE texts = {}
  <2>1. total = 0
    <3>1. \A x \in texts : parts[x] \in Int
      BY <1>4
    <3>2. PICK sums : SumsOf(parts, texts, sums)
      <4> HIDE DEF texts
      <4>1. \E sums : SumsOf(parts, texts, sums)
        BY <1>2, <3>1, SumsExist
      <4> QED  BY <4>1
    <3> QED  BY <1>4, <3>2 DEF SumsOf
  <2> QED  BY <1>3, <1>4, <2>1 DEF MessageLength
<1>5. CASE texts # {}
  <2>1. MessageLength(parts) = total + Cardinality(texts) - 1
    BY <1>5 DEF MessageLength
  <2> HIDE DEF texts
  <2>2. Cardinality(texts) \in Nat /\ Cardinality(texts) # 0
    BY <1>2, <1>5, FS_EmptySet, FS_CardinalityType
  <2> HIDE DEF total
  <2> QED  BY <1>3, <2>1, <2>2 DEF texts, total
<1> QED  BY <1>4, <1>5

Messages == Seq([raw : BOOLEAN, parts : Parts, name : Nat])

(* The estimate covers all text of a request.                              *)
LEMMA EstimateCovers ==
  ASSUME NEW messages \in Messages
  PROVE  /\ estimate_prompt_tokens(messages) \in Nat
         /\ 4 * (estimate_prompt_tokens(messages) - 2 - 4 * Len(messages)) >= Characters(messages)
<1>0. \A i \in 1..Len(messages) : messages[i].parts \in Parts /\ messages[i].name \in Nat
  <2>1. ASSUME NEW i \in 1..Len(messages) PROVE messages[i] \in [raw : BOOLEAN, parts : Parts, name : Nat]
    BY ElementOf DEF Messages
  <2> QED  BY <2>1
<1> DEFINE n == Len(messages)
           tokens == [i \in DOMAIN messages |->
             4 + count_text_tokens(MessageLength(messages[i].parts))
               + count_text_tokens(messages[i].name)]
           chars == [i \in DOMAIN messages |->
             SumFunctionOnSet(messages[i].parts, TextParts(messages[i].parts)) + messages[i].name]
<1>1. DOMAIN messages = 1..n /\ n \in Nat
  BY DEF Messages
<1>2. DOMAIN tokens = 1..n /\ DOMAIN chars = 1..n
  BY <1>1
<1>3. ASSUME NEW i \in 1..n
      PROVE  /\ tokens[i] \in Nat /\ chars[i] \in Int
             /\ 4 * (tokens[i] - 4) >= chars[i]
  <2> DEFINE parts == messages[i].parts
             name == messages[i].name
             length == MessageLength(parts)
             total == SumFunctionOnSet(parts, TextParts(parts))
  <2>1. parts \in Parts /\ name \in Nat
    BY <1>0
  <2>2. tokens[i] = 4 + count_text_tokens(length) + count_text_tokens(name)
    BY <1>1
  <2>3. chars[i] = total + name
    BY <1>1
  <2> HIDE DEF parts, name
  <2>4. total \in Nat /\ length \in Nat /\ length >= total
    BY <2>1, PartsSum
  <2> HIDE DEF length, total, tokens, chars
  <2>5. /\ count_text_tokens(length) \in Nat /\ 4 * count_text_tokens(length) >= length
        /\ count_text_tokens(name) \in Nat /\ 4 * count_text_tokens(name) >= name
    BY <2>1, <2>4, TokensCover
  <2> QED  BY <2>1, <2>2, <2>3, <2>4, <2>5
<1>4. IsFiniteSet(1..n) /\ Cardinality(1..n) = n
  <2>1. 1 \in Int /\ n \in Int
    BY <1>1
  <2>2. IsFiniteSet(1..n) /\ Cardinality(1..n) = IF 1 > n THEN 0 ELSE n - 1 + 1
    BY <2>1, FS_Interval
  <2> HIDE DEF n
  <2> QED  BY <1>1, <2>2
<1>5. /\ estimate_prompt_tokens(messages) = 2 + SumFunctionOnSet(tokens, 1..n)
      /\ Characters(messages) = SumFunctionOnSet(chars, 1..n)
  BY <1>2 DEF estimate_prompt_tokens, Characters, SumFunction, SumFunctionOnSet
<1> HIDE DEF n, tokens, chars
<1>6. SumFunctionOnSet(tokens, 1..n) \in Nat
  BY <1>3, <1>4, SumIsNatural
<1>7. 4 * (SumFunctionOnSet(tokens, 1..n) - 4 * Cardinality(1..n)) >= SumFunctionOnSet(chars, 1..n)
  <2>1. \A i \in 1..n : tokens[i] \in Int /\ chars[i] \in Int /\ 4 * (tokens[i] - 4) >= chars[i]
    BY <1>3
  <2> QED  BY <1>4, <2>1, SumCovers
<1>8. (2 + SumFunctionOnSet(tokens, 1..n)) - 2 - 4 * n = SumFunctionOnSet(tokens, 1..n) - 4 * n
  BY <1>1, <1>6
<1> QED  BY <1>4, <1>5, <1>6, <1>7, <1>8 DEF n

(* Every accepted line is in the file, and reserves what it is given.      *)
Reserved ==
  \A k \in 1..Len(parsed) :
    /\ parsed[k].line_index \in 1..Len(file)
    /\ parsed[k] = ParsedLine(parsed[k].line_index, file[parsed[k].line_index])

(* Accepting a line reserves what estimate_prompt_tokens says of it.       *)
LEMMA StepReserves == InputInv /\ Reserved /\ [InputNext]_inputVars => Reserved'
<1> SUFFICES ASSUME InputInv, Reserved, [InputNext]_inputVars PROVE Reserved'
  OBVIOUS
<1>1. file \in Seq(Lines) /\ parsed \in Seq(ParsedLines)
  BY DEF InputInv, Types
<1>2. ASSUME NEW line \in Lines, file' = Append(file, line)
      PROVE  /\ Len(file') = Len(file) + 1 /\ Len(file) \in Nat
             /\ file'[Len(file) + 1] = line
             /\ \A i \in 1..Len(file) : file'[i] = file[i] /\ i \in 1..Len(file')
  BY <1>1, <1>2, AppendFacts
<1>3. ASSUME NEW line \in Lines, file' = Append(file, line), parsed' = parsed
      PROVE  Reserved'
  <2>1. ASSUME NEW k \in 1..Len(parsed)
        PROVE  /\ parsed[k].line_index \in 1..Len(file')
               /\ parsed[k] = ParsedLine(parsed[k].line_index, file'[parsed[k].line_index])
    BY <1>2, <1>3 DEF Reserved
  <2> QED  BY <1>3, <2>1 DEF Reserved
<1>4. ASSUME NEW line \in Lines, Accept(line) PROVE Reserved'
  <2> DEFINE n == Len(file)
             p == ParsedLine(n + 1, line)
  <2>1. file' = Append(file, line)
    BY <1>4 DEF Accept, Read
  <2>2. /\ Len(file') = n + 1 /\ n \in Nat /\ file'[n + 1] = line
        /\ \A i \in 1..n : file'[i] = file[i] /\ i \in 1..Len(file')
    BY <1>2, <2>1
  <2>3. parsed' = Append(parsed, p)
    BY <1>4, <2>2 DEF Accept, ParsedLine
  <2>4. p \in ParsedLines /\ p.line_index = n + 1
    <3>1. n + 1 \in Nat
      BY <2>2
    <3>2. p.line_index = n + 1
      BY DEF ParsedLine
    <3> QED  BY <3>1, <3>2 DEF ParsedLines
  <2> HIDE DEF p
  <2>5. /\ parsed'[Len(parsed) + 1] = p
        /\ \A k \in 1..Len(parsed) : parsed'[k] = parsed[k]
        /\ 1..Len(parsed') = (1..Len(parsed)) \cup {Len(parsed) + 1}
    BY <1>1, <2>3, <2>4, AppendFacts
  <2>6. ASSUME NEW k \in 1..Len(parsed)
        PROVE  /\ parsed'[k].line_index \in 1..Len(file')
               /\ parsed'[k] = ParsedLine(parsed'[k].line_index, file'[parsed'[k].line_index])
    BY <2>2, <2>5 DEF Reserved
  <2>7. /\ p.line_index \in 1..Len(file')
        /\ p = ParsedLine(p.line_index, file'[p.line_index])
    BY <2>2, <2>4 DEF p
  <2> QED  BY <2>5, <2>6, <2>7 DEF Reserved
<1>5. CASE EndOfFile
  BY <1>5 DEF EndOfFile, Reserved
<1>6. CASE UNCHANGED inputVars
  BY <1>6 DEF inputVars, Reserved
<1>7. ASSUME NEW line \in Lines, Report(line) \/ Crash(line) PROVE Reserved'
  BY <1>3, <1>7 DEF Report, Crash, Read
<1> QED  BY <1>4, <1>5, <1>6, <1>7 DEF InputNext

(* What has been reserved like that covers every text at the ratio         *)
(* assumed.                                                                *)
LEMMA ReservedCovers == Types /\ Reserved => ReservesEnough
<1> SUFFICES ASSUME Types, Reserved, NEW k \in DOMAIN parsed
             PROVE  LET line == file[parsed[k].line_index] IN
                    /\ 4 * (parsed[k].prompt_tokens - 2 - 4 * Len(line.messages)) >= Characters(line.messages)
                    /\ line.max # <<>> => parsed[k].max_tokens >= line.max[1]
  BY DEF ReservesEnough
<1> DEFINE i == parsed[k].line_index
           line == file[i]
<1>1. k \in 1..Len(parsed)
  BY DEF Types
<1>2. i \in 1..Len(file) /\ parsed[k] = ParsedLine(i, line)
  BY <1>1 DEF Reserved
<1>3. line \in Lines
  BY <1>2 DEF Types
<1> HIDE DEF line, i
<1>4. /\ parsed[k].prompt_tokens = estimate_prompt_tokens(line.messages)
      /\ parsed[k].max_tokens = IF line.max = <<>> THEN DefaultMax ELSE line.max[1]
  BY <1>2 DEF ParsedLine
<1>5. line.messages \in Messages /\ (line.max # <<>> => line.max \in Seq(Int) /\ Len(line.max) = 1)
  BY <1>3, LinesAssumption DEF Messages, Parts
<1>6. line.max # <<>> => line.max[1] \in Int
  BY <1>5
<1>7. 4 * (parsed[k].prompt_tokens - 2 - 4 * Len(line.messages)) >= Characters(line.messages)
  BY <1>4, <1>5, EstimateCovers
<1>8. line.max # <<>> => parsed[k].max_tokens >= line.max[1]
  BY <1>4, <1>6
<1> QED  BY <1>7, <1>8 DEF line, i

(* Whatever the messages of an accepted line, their parts and names, the   *)
(* tokens it reserves cover all of its text and the output it may ask for. *)
THEOREM ReservationsCover == InputSpec => []ReservesEnough
<1>1. InputInit => Reserved
  BY DEF InputInit, Reserved
<1>2. InputInv => Types
  BY DEF InputInv
<1>3. InputInv /\ Reserved => ReservesEnough
  BY <1>2, ReservedCovers
<1> QED  BY InputInvariant, <1>1, <1>3, StepReserves, PTL DEF InputSpec

(* The invariants say of every variable what it may hold.                  *)
LEMMA InvTypes == InputInv /\ Reserved /\ Len(file) <= MaxLines => InputTypeOK
<1> SUFFICES ASSUME InputInv, Reserved, Len(file) <= MaxLines PROVE InputTypeOK
  OBVIOUS
<1>1. Types /\ seen = FlawlessIds(file) /\ Len(file) \in Nat
  BY DEF InputInv, Types
<1>2. /\ Indices(parsed) \subseteq SoundLines(file, Len(file))
      /\ Indices(errors) \subseteq 1..Len(file)
  <2>1. CASE outcome # "failed"
    BY <2>1 DEF InputInv, Answered
  <2>2. CASE outcome = "failed"
    <3>1. /\ Indices(parsed) \subseteq SoundLines(file, Len(file) - 1)
          /\ Indices(errors) \subseteq 1..(Len(file) - 1)
      BY <2>2 DEF InputInv, Answered
    <3>2. 1..(Len(file) - 1) \subseteq 1..Len(file)
      BY <1>1
    <3> QED  BY <3>1, <3>2 DEF SoundLines
  <2> QED  BY <2>1, <2>2
<1>3. ASSUME NEW k \in DOMAIN parsed
      PROVE  parsed[k] \in [line_index : 1..Len(file), custom_id : {line.id : line \in Lines},
                            prompt_tokens : Nat, max_tokens : Nat \ {0}]
  <2> DEFINE i == parsed[k].line_index
             line == file[i]
  <2>1. k \in 1..Len(parsed)
    BY <1>1 DEF Types
  <2>2. i \in 1..Len(file) /\ parsed[k] = ParsedLine(i, line)
    BY <2>1 DEF Reserved
  <2>3. line \in Lines
    BY <1>1, <2>2, ElementOf DEF Types
  <2>4. line.flaws = {}
    <3>1. i \in SoundLines(file, Len(file))
      BY <1>2, <2>1 DEF Indices
    <3> QED  BY <3>1 DEF SoundLines, IsSound
  <2> HIDE DEF line, i
  <2>5. line.messages \in Messages /\ (line.max # <<>> => line.max \in Seq(Int) /\ Len(line.max) = 1)
    BY <2>3, LinesAssumption DEF Messages, Parts
  <2>6. estimate_prompt_tokens(line.messages) \in Nat
    BY <2>5, EstimateCovers
  <2>7. (IF line.max = <<>> THEN DefaultMax ELSE line.max[1]) \in Nat \ {0}
    <3>1. CASE line.max = <<>>
      BY <3>1, LinesAssumption
    <3>2. CASE line.max # <<>>
      <4>1. line.max[1] \in Int
        BY <2>5, <3>2
      <4>2. line.max[1] > 0
        BY <2>3, <2>4, <3>2, LinesAssumption
      <4> QED  BY <3>2, <4>1, <4>2
    <3> QED  BY <3>1, <3>2
  <2> QED  BY <2>2, <2>3, <2>6, <2>7 DEF ParsedLine
<1>4. ASSUME NEW k \in DOMAIN errors
      PROVE  errors[k] \in [line_index : 1..Len(file), check : Range(Checks)]
  <2>1. k \in 1..Len(errors)
    BY <1>1 DEF Types
  <2>2. errors[k] \in ReportedLines
    BY <1>1, <2>1, ElementOf DEF Types
  <2>3. errors[k].line_index \in 1..Len(file)
    BY <1>2, <2>1 DEF Indices
  <2> QED  BY <2>2, <2>3 DEF ReportedLines
<1>5. seen \subseteq {line.id : line \in Lines}
  <2>1. \A j \in 1..Len(file) : file[j] \in Lines
    BY <1>1, ElementOf DEF Types
  <2> QED  BY <1>1, <2>1 DEF FlawlessIds
<1> QED  BY <1>1, <1>3, <1>4, <1>5 DEF InputTypeOK, Types, Range

(* The types of the parser's state: an accepted line reserves a number of  *)
(* tokens for its prompt, and at least one for its output.                 *)
THEOREM InputTypes == InputSpec => []InputTypeOK
<1>1. InputInit => Reserved /\ Len(file) <= MaxLines
  BY LinesAssumption DEF InputInit, Reserved
<1>2. InputInv /\ Len(file) <= MaxLines /\ [InputNext]_inputVars => (Len(file) <= MaxLines)'
  <2> SUFFICES ASSUME InputInv, Len(file) <= MaxLines, [InputNext]_inputVars
               PROVE  Len(file') <= MaxLines
    OBVIOUS
  <2>1. file \in Seq(Lines)
    BY DEF InputInv, Types
  <2>2. ASSUME NEW line \in Lines, Read(line) PROVE Len(file') <= MaxLines
    BY <2>1, <2>2, AppendFacts, LinesAssumption DEF Read
  <2>3. CASE EndOfFile \/ UNCHANGED inputVars
    BY <2>3 DEF EndOfFile, inputVars
  <2> QED  BY <2>2, <2>3 DEF InputNext, Report, Accept, Crash
<1> QED  BY InputInvariant, <1>1, <1>2, StepReserves, InvTypes, PTL DEF InputSpec
=============================================================================
