--------------------------- MODULE NodePool_proofs --------------------------
(***************************************************************************)
(* Safety of the node pool for every set of nodes, tasks, configurations,  *)
(* thresholds and numbers of attempts, with nodes that come and go,        *)
(* exceptions and restarts anywhere.                                       *)
(*                                                                         *)
(* The counters and the limit on each node rest on the phases of the loop: *)
(* node rows change only while no worker runs, and claims are placed only  *)
(* then.                                                                   *)
(***************************************************************************)
EXTENDS NodePool, FiniteSetTheorems, TLAPS

(* Workers run only after their pass has been assigned.                    *)
PhaseInv ==
  /\ loop \notin {"running", "dead"} => \A t \in Tasks : worker[t] = "none"
  /\ loop # "placing" => claimed = {}
  /\ loop # "polling" => \A n \in Nodes : answers[n] = "none"

(* What a node row says: health and slots of configured nodes, and that    *)
(* nobody asks or uses the others.                                         *)
RowInv ==
  \A n \in Nodes :
    /\ n \in DOMAIN config =>
         /\ slots[n] = config[n]
         /\ health[n] \in {"healthy", "unhealthy"}
         /\ health[n] = "unhealthy" <=> failures[n] = Threshold
    /\ n \notin DOMAIN config =>
         health[n] \in {"none", "disabled"} /\ answers[n] = "none"
    /\ health[n] = "none" => failures[n] = 0

(* The claimed tasks wait, and have been given healthy nodes with room.    *)
PlanInv ==
  /\ \A t \in Tasks : plan[t] # NoNode => t \in claimed /\ plan[t] \in Healthy
  /\ \A t \in claimed : task[t] = "pending"
  /\ loop = "placing" => \A n \in Nodes : Room(n) >= 0

WorkInv == RunningIsWorked /\ CountersMatch /\ SlotsRespected

PlaceInv == PlanInv /\ EveryClaimFits /\ Levelled

IndInv == TypeOK /\ PhaseInv /\ RowInv /\ WorkInv /\ PlaceInv

-----------------------------------------------------------------------------
(* Finite sets.                                                            *)

LEMMA TasksFinite ==
  ASSUME NEW S \in SUBSET Tasks
  PROVE  IsFiniteSet(S) /\ Cardinality(S) \in Nat
BY FS_Subset, FS_CardinalityType, NodesAssumption

(* A node has finitely many free slots.                                    *)
LEMMA FreeSlotsFinite ==
  ASSUME TypeOK, \A n \in Nodes : Room(n) \in Int
  PROVE  IsFiniteSet(FreeSlots) /\ Cardinality(FreeSlots) \in Nat
<1> DEFINE slotsOf == [n \in Healthy |-> {n} \X (1..Room(n))]
           family == {{n} \X (1..Room(n)) : n \in Healthy}
<1>1. IsFiniteSet(Healthy)
  BY FS_Subset, NodesAssumption DEF Healthy
<1>2. slotsOf \in Surjection(Healthy, family)
  BY DEF Surjection
<1>3. IsFiniteSet(family)
  BY <1>1, <1>2, FS_Surjection
<1>4. \A T \in family : IsFiniteSet(T)
  <2>1. ASSUME NEW n \in Healthy PROVE IsFiniteSet({n} \X (1..Room(n)))
    <3>1. n \in Nodes
      BY DEF Healthy
    <3>2. Room(n) \in Int
      BY <3>1
    <3>3. IsFiniteSet(1..Room(n))
      <4> HIDE DEF slotsOf, family
      <4> QED
        BY <3>2, FS_Interval
    <3>4. IsFiniteSet({n})
      BY FS_Singleton
    <3> QED
      BY <3>3, <3>4, FS_Product
  <2> QED
    BY <2>1
<1>5. IsFiniteSet(UNION family)
  BY <1>3, <1>4, FS_UNION
<1> QED
  BY <1>5, FS_CardinalityType DEF FreeSlots

LEMMA RoomType == TypeOK => \A n \in Nodes : Room(n) \in Int
<1>1. ASSUME TypeOK, NEW n \in Nodes PROVE Cardinality(Placed(n)) \in Nat
  BY <1>1, TasksFinite DEF TypeOK, Placed
<1> QED
  BY <1>1 DEF TypeOK, Room

-----------------------------------------------------------------------------
(* What the steps leave alone.                                             *)

(* Work goes on as it is, and a dead loop stays dead.                      *)
LEMMA WorkFrame ==
  ASSUME WorkInv, UNCHANGED <<workVars, config>>,
         loop = "dead" => loop' = "dead"
  PROVE  WorkInv'
<1>1. \A n \in Nodes : Calls(n)' = Calls(n) /\ ConfiguredSlots(n)' = ConfiguredSlots(n)
  BY DEF Calls, ConfiguredSlots, workVars
<1> QED
  BY <1>1 DEF WorkInv, RunningIsWorked, CountersMatch, SlotsRespected, workVars

(* A placement in progress is not disturbed by what happens to tasks that  *)
(* are not claimed.                                                        *)
LEMMA PlaceFrame ==
  ASSUME PlaceInv, UNCHANGED <<health, slots, inFlight, planVars, loop>>,
         \A t \in claimed : task'[t] = task[t]
  PROVE  PlaceInv'
<1>1. /\ \A n \in Nodes : Placed(n)' = Placed(n) /\ Room(n)' = Room(n)
      /\ Healthy' = Healthy
      /\ Unplaced' = Unplaced
  BY DEF Placed, Room, Healthy, Unplaced, planVars
<1>2. FreeSlots' = FreeSlots
  BY <1>1 DEF FreeSlots, Healthy
<1> QED
  BY <1>1, <1>2 DEF PlaceInv, PlanInv, EveryClaimFits, Levelled, Healthy, planVars

(* Outside of a placement nothing is claimed.                              *)
LEMMA NoPlace ==
  ASSUME claimed' = {}, plan' = [t \in Tasks |-> NoNode], loop' # "placing"
  PROVE  PlaceInv'
BY DEF PlaceInv, PlanInv, EveryClaimFits, Levelled

LEMMA PlanIsEmpty ==
  ASSUME TypeOK, PlaceInv, claimed = {}
  PROVE  plan = [t \in Tasks |-> NoNode]
BY DEF TypeOK, PlaceInv, PlanInv

-----------------------------------------------------------------------------
(* The actions.                                                            *)

LEMMA InitEstablishesInv == Init => IndInv
<1> SUFFICES ASSUME Init PROVE IndInv
  OBVIOUS
<1> USE NodesAssumption, SettingsAssumption DEF Init
<1>1. TypeOK
  BY DEF TypeOK
<1>2. PhaseInv /\ RowInv
  BY DEF PhaseInv, RowInv
<1>3. \A n \in Nodes : Calls(n) = {} /\ ConfiguredSlots(n) \in Nat
  BY DEF Calls, ConfiguredSlots
<1>4. \A n \in Nodes : Cardinality(Calls(n)) = 0
  BY <1>3, FS_EmptySet
<1>5. WorkInv
  BY <1>3, <1>4 DEF WorkInv, RunningIsWorked, CountersMatch, SlotsRespected
<1>6. PlaceInv
  BY DEF PlaceInv, PlanInv, EveryClaimFits, Levelled
<1> QED
  BY <1>1, <1>2, <1>5, <1>6 DEF IndInv

LEMMA WorldPreservesInv ==
  ASSUME IndInv,
         \/ \E n \in Nodes : NodeUp(n) \/ NodeDown(n)
         \/ IntervalPasses
  PROVE  IndInv'
<1> USE DEF IndInv, NodeUp, NodeDown, IntervalPasses, nodeVars, pollVars, workVars
<1>1. TypeOK'
  BY DEF TypeOK, planVars
<1>2. PhaseInv' /\ RowInv'
  BY DEF PhaseInv, RowInv, planVars
<1>3. WorkInv'
  BY WorkFrame
<1>4. PlaceInv'
  BY PlaceFrame
<1> QED
  BY <1>1, <1>2, <1>3, <1>4

LEMMA SubmitPreservesInv ==
  ASSUME IndInv, NEW t \in Tasks, Submit(t)
  PROVE  IndInv'
<1> USE DEF IndInv, Submit, nodeVars, pollVars
<1>1. TypeOK'
  BY DEF TypeOK, planVars
<1>2. PhaseInv' /\ RowInv'
  BY DEF PhaseInv, RowInv, planVars
<1>3. \A n \in Nodes : Calls(n)' = Calls(n) /\ ConfiguredSlots(n)' = ConfiguredSlots(n)
  BY DEF Calls, ConfiguredSlots
<1>4. WorkInv'
  BY <1>3 DEF TypeOK, WorkInv, RunningIsWorked, CountersMatch, SlotsRespected
<1>5. t \notin claimed
  BY DEF PlaceInv, PlanInv
<1>6. PlaceInv'
  BY <1>5, PlaceFrame DEF TypeOK
<1> QED
  BY <1>1, <1>2, <1>4, <1>6

LEMMA RestartPreservesInv ==
  ASSUME IndInv, NEW c \in Configs, Restart(c)
  PROVE  IndInv'
<1> USE NodesAssumption, SettingsAssumption DEF IndInv, Restart
<1>1. TypeOK'
  BY DEF TypeOK, SyncedHealth, SyncedFailures, SyncedSlots, Recovered
<1>2. PhaseInv'
  BY DEF PhaseInv
<1>3. RowInv'
  BY DEF RowInv, TypeOK, SyncedHealth, SyncedFailures, SyncedSlots
<1>4. \A n \in Nodes : Calls(n)' = {} /\ ConfiguredSlots(n)' \in Nat
  BY DEF Calls, ConfiguredSlots
<1>5. \A n \in Nodes : Cardinality(Calls(n))' = 0
  BY <1>4, FS_EmptySet
<1>6. WorkInv'
  BY <1>4, <1>5
     DEF TypeOK, WorkInv, RunningIsWorked, CountersMatch, SlotsRespected, Recovered
<1>7. PlaceInv'
  BY NoPlace
<1> QED
  BY <1>1, <1>2, <1>3, <1>6, <1>7

LEMMA PollPreservesInv ==
  ASSUME IndInv, StartPoll \/ ApplyAnswers \/ \E n \in Nodes : AskNode(n)
  PROVE  IndInv'
<1> USE NodesAssumption, SettingsAssumption
    DEF IndInv, StartPoll, AskNode, ApplyAnswers, nodeVars
<1>1. TypeOK'
  <2>1. CASE ApplyAnswers
    <3>1. \A n \in Nodes : CountedFailures(n) \in 0..Threshold
      BY DEF TypeOK, CountedFailures
    <3> QED
      BY <2>1, <3>1 DEF TypeOK, planVars, workVars
  <2>2. CASE StartPoll \/ \E n \in Nodes : AskNode(n)
    BY <2>2 DEF TypeOK, planVars, workVars
  <2> QED
    BY <2>1, <2>2
<1>2. PhaseInv'
  BY DEF PhaseInv, planVars, workVars
<1>3. RowInv'
  <2>1. CASE StartPoll
    BY <2>1 DEF RowInv, Polled, TypeOK
  <2>2. CASE \E n \in Nodes : AskNode(n)
    BY <2>2 DEF RowInv, TypeOK
  <2>3. CASE ApplyAnswers
    <3>1. ASSUME NEW n \in Nodes
          PROVE  /\ failures'[n] = CountedFailures(n) /\ answers'[n] = "none"
                 /\ health'[n] = CASE answers[n] = "yes" -> "healthy"
                     [] answers[n] = "no" /\ CountedFailures(n) >= Threshold -> "unhealthy"
                     [] OTHER -> health[n]
                 /\ failures[n] \in 0..Threshold /\ answers[n] \in {"none", "yes", "no"}
      BY <2>3 DEF TypeOK
    <3>2. ASSUME NEW n \in Nodes, n \in DOMAIN config
          PROVE  /\ slots'[n] = config'[n]
                 /\ health'[n] \in {"healthy", "unhealthy"}
                 /\ health'[n] = "unhealthy" <=> failures'[n] = Threshold
      <4>1. /\ slots[n] = config[n] /\ health[n] \in {"healthy", "unhealthy"}
            /\ health[n] = "unhealthy" <=> failures[n] = Threshold
        BY <3>2 DEF RowInv
      <4>2. slots'[n] = config'[n]
        BY <2>3, <4>1
      <4>3. CASE answers[n] = "yes"
        BY <3>1, <4>2, <4>3 DEF CountedFailures
      <4>4. CASE answers[n] = "no"
        BY <3>1, <4>1, <4>2, <4>4 DEF CountedFailures
      <4>5. CASE answers[n] = "none"
        BY <3>1, <4>1, <4>2, <4>5 DEF CountedFailures
      <4> QED
        BY <3>1, <4>3, <4>4, <4>5
    <3>3. ASSUME NEW n \in Nodes, n \notin DOMAIN config
          PROVE  health'[n] = health[n] /\ health[n] \in {"none", "disabled"} /\ failures'[n] = failures[n]
      BY <3>1, <3>3 DEF RowInv, CountedFailures
    <3> QED
      BY <2>3, <3>1, <3>2, <3>3 DEF RowInv
  <2> QED
    BY <2>1, <2>2, <2>3
<1>4. WorkInv'
  BY WorkFrame
<1>5. PlaceInv'
  <2>1. claimed = {} /\ loop' # "placing"
    BY DEF PhaseInv
  <2> QED
    BY <2>1, PlanIsEmpty, NoPlace DEF planVars
<1> QED
  BY <1>1, <1>2, <1>3, <1>4, <1>5

LEMMA ErrorsPreserveInv ==
  ASSUME IndInv, LoopError
  PROVE  IndInv'
<1> USE DEF IndInv, LoopError, nodeVars
<1>1. TypeOK' /\ PhaseInv' /\ RowInv'
  BY NodesAssumption DEF TypeOK, PhaseInv, RowInv, workVars
<1>2. WorkInv'
  BY WorkFrame
<1>3. PlaceInv'
  BY NoPlace
<1> QED
  BY <1>1, <1>2, <1>3

(* A claim finds the pool at rest: nothing is in flight.                   *)
LEMMA AtRest ==
  ASSUME IndInv, loop \notin {"running", "dead"}
  PROVE  \A n \in Nodes : inFlight[n] = 0 /\ Calls(n) = {}
<1>1. \A n \in Nodes : Calls(n) = {}
  BY DEF IndInv, PhaseInv, Calls
<1>2. \A n \in Nodes : Cardinality(Calls(n)) = 0
  BY <1>1, FS_EmptySet
<1> QED
  BY <1>1, <1>2 DEF IndInv, WorkInv, CountersMatch

LEMMA ClaimPreservesInv ==
  ASSUME IndInv, NEW S \in SUBSET Tasks, Claim(S)
  PROVE  IndInv'
<1> USE DEF IndInv, Claim, nodeVars
<1>1. TypeOK' /\ PhaseInv' /\ RowInv'
  BY DEF TypeOK, PhaseInv, RowInv, pollVars, workVars, Dispatching
<1>2. WorkInv'
  BY WorkFrame DEF Dispatching
<1>3. claimed = {} /\ loop \notin {"running", "dead", "placing"}
  BY DEF Dispatching, PhaseInv
<1>4. plan = [t \in Tasks |-> NoNode]
  BY <1>3, PlanIsEmpty
<1>5. CASE S = {}
  BY <1>1, <1>2, <1>4, <1>5, NoPlace
<1>6. CASE S # {}
  <2>1. \A n \in Nodes : Placed(n) = {} /\ Placed(n)' = {}
    BY <1>3, <1>4, NodesAssumption DEF Placed
  <2>2. \A n \in Nodes : Cardinality(Placed(n)) = 0 /\ Cardinality(Placed(n))' = 0
    BY <2>1, FS_EmptySet
  <2>3. \A n \in Nodes : inFlight'[n] = 0 /\ inFlight[n] = 0
    BY <1>3, AtRest DEF workVars
  <2>4. \A n \in Nodes : Room(n)' = slots[n] /\ Room(n) = slots[n] /\ slots[n] \in Nat
    BY <2>2, <2>3 DEF TypeOK, Room
  <2>5. FreeSlots' = FreeSlots
    BY <2>4 DEF FreeSlots, Healthy
  <2>6. Unplaced' = S
    BY <1>4 DEF Unplaced
  <2>7. EveryClaimFits'
    <3>1. Cardinality(FreeSlots) \in Nat
      BY RoomType, FreeSlotsFinite
    <3>2. Cardinality(Pending) \in Nat
      BY TasksFinite DEF Pending
    <3> QED
      BY <2>5, <2>6, <3>1, <3>2 DEF ClaimSize, EveryClaimFits
  <2>8. PlanInv'
    BY <1>4, <2>4 DEF PlanInv, Pending, workVars
  <2>9. Levelled'
    BY <2>1 DEF Levelled, Healthy
  <2> QED
    BY <1>1, <1>2, <2>7, <2>8, <2>9 DEF PlaceInv
<1> QED
  BY <1>1, <1>2, <1>5, <1>6

LEMMA PlacePreservesInv ==
  ASSUME IndInv, NEW t \in Tasks, NEW n \in Nodes, Place(t, n)
  PROVE  IndInv'
<1> USE NodesAssumption DEF IndInv, Place, nodeVars
<1>1. TypeOK' /\ PhaseInv' /\ RowInv'
  BY DEF TypeOK, PhaseInv, RowInv, pollVars, workVars
<1>2. WorkInv'
  BY WorkFrame
<1>3. t \in claimed /\ plan[t] = NoNode /\ Healthy' = Healthy
  BY DEF Unplaced, Healthy
<1>4. /\ Placed(n)' = Placed(n) \cup {t}
      /\ t \notin Placed(n)
      /\ \A m \in Nodes : m # n => Placed(m)' = Placed(m)
  BY <1>3 DEF Placed, TypeOK
<1>5. \A m \in Nodes : Room(m) \in Int
  BY RoomType
<1>6. /\ Room(n)' = Room(n) - 1
      /\ \A m \in Nodes : m # n => Room(m)' = Room(m)
  <2>1. Cardinality(Placed(n)') = Cardinality(Placed(n)) + 1
    <3>1. IsFiniteSet(Placed(n))
      BY TasksFinite DEF Placed, TypeOK
    <3> QED
      BY <1>4, <3>1, FS_AddElement
  <2>2. Cardinality(Placed(n)) \in Nat
    BY TasksFinite DEF Placed, TypeOK
  <2> QED
    BY <1>4, <2>1, <2>2 DEF Room, TypeOK, workVars
<1>7. FreeSlots' = FreeSlots \ {<<n, Room(n)>>} /\ <<n, Room(n)>> \in FreeSlots
  <2>1. \A m \in Healthy : m # n => {m} \X (1..Room(m)') = {m} \X (1..Room(m))
    BY <1>6 DEF Healthy
  <2>2. {n} \X (1..Room(n)') = ({n} \X (1..Room(n))) \ {<<n, Room(n)>>}
    BY <1>5, <1>6
  <2>3. <<n, Room(n)>> \in {n} \X (1..Room(n))
    BY <1>5
  <2>4. FreeSlots' = UNION {{m} \X (1..Room(m)') : m \in Healthy}
    BY <1>3 DEF FreeSlots
  <2> QED
    BY <2>1, <2>2, <2>3, <2>4 DEF FreeSlots
<1>8. Unplaced' = Unplaced \ {t}
  BY <1>3 DEF Unplaced, TypeOK
<1>9. EveryClaimFits'
  <2>1. IsFiniteSet(FreeSlots) /\ Cardinality(FreeSlots) \in Nat
    BY <1>5, FreeSlotsFinite
  <2>2. IsFiniteSet(Unplaced) /\ Cardinality(Unplaced) \in Nat
    BY TasksFinite DEF Unplaced, TypeOK
  <2>3. Cardinality(FreeSlots') = Cardinality(FreeSlots) - 1
    BY <1>7, <2>1, FS_RemoveElement
  <2>4. Cardinality(Unplaced') = Cardinality(Unplaced) - 1
    BY <1>8, <2>2, FS_RemoveElement
  <2> QED
    BY <2>1, <2>2, <2>3, <2>4 DEF EveryClaimFits, PlaceInv
<1>10. PlanInv'
  BY <1>3, <1>5, <1>6 DEF PlanInv, PlaceInv, TypeOK, workVars
<1>11. Levelled'
  <2> SUFFICES ASSUME NEW p \in Healthy, NEW m \in Healthy, Placed(p)' # {}
               PROVE  Room(m)' <= Room(p)' + 1
    BY <1>3 DEF Levelled
  <2>1. p \in Nodes /\ m \in Nodes
    BY DEF Healthy
  <2>2. Room(m)' <= Room(m)
    BY <1>5, <1>6, <2>1
  <2>3. CASE p = n
    BY <1>5, <1>6, <2>1, <2>2, <2>3
  <2>4. CASE p # n
    BY <1>4, <1>5, <1>6, <2>1, <2>2, <2>4 DEF Levelled, PlaceInv
  <2> QED
    BY <2>3, <2>4
<1> QED
  BY <1>1, <1>2, <1>9, <1>10, <1>11 DEF PlaceInv

LEMMA AssignPreservesInv ==
  ASSUME IndInv, Assign
  PROVE  IndInv'
<1> USE DEF IndInv, Assign, nodeVars
<1>1. TypeOK'
  <2>1. \A n \in Nodes : Cardinality(Placed(n)) \in Nat
    BY TasksFinite DEF Placed, TypeOK
  <2>2. inFlight' \in [Nodes -> Nat]
    BY <2>1 DEF TypeOK
  <2> QED
    BY <2>2 DEF TypeOK, pollVars
<1>2. PhaseInv' /\ RowInv'
  BY DEF PhaseInv, RowInv, pollVars
<1>3. \A n \in Nodes : inFlight[n] = 0 /\ Calls(n) = {}
  BY AtRest
<1>4. \A n \in Nodes : Calls(n)' = Placed(n)
  BY <1>3, NodesAssumption
     DEF Calls, Placed, Unplaced, TypeOK, PhaseInv, PlaceInv, PlanInv
<1>5. \A n \in Nodes : /\ Cardinality(Placed(n)) \in Nat
                       /\ Cardinality(Placed(n)) <= slots[n]
                       /\ Placed(n) # {} => n \in Healthy
  <2> SUFFICES ASSUME NEW n \in Nodes
               PROVE  /\ Cardinality(Placed(n)) \in Nat
                      /\ Cardinality(Placed(n)) <= slots[n]
                      /\ Placed(n) # {} => n \in Healthy
    OBVIOUS
  <2>1. Cardinality(Placed(n)) \in Nat
    BY TasksFinite DEF Placed, TypeOK
  <2>2. Room(n) >= 0
    BY DEF PlaceInv, PlanInv
  <2>3. Placed(n) # {} => n \in Healthy
    BY NodesAssumption DEF PlaceInv, PlanInv, Placed, TypeOK
  <2> QED
    BY <1>3, <2>1, <2>2, <2>3 DEF Room, TypeOK
<1>6. SlotsRespected'
  <2> SUFFICES ASSUME NEW n \in Nodes
               PROVE  Cardinality(Calls(n))' <= ConfiguredSlots(n)'
    BY DEF SlotsRespected
  <2>1. CASE n \in DOMAIN config
    BY <1>4, <1>5, <2>1 DEF RowInv, ConfiguredSlots
  <2>2. CASE n \notin DOMAIN config
    <3>1. Placed(n) = {}
      BY <1>5, <2>2 DEF RowInv, Healthy
    <3>2. Cardinality(Placed(n)) = 0
      BY <3>1, FS_EmptySet
    <3> QED
      BY <1>4, <2>2, <3>2 DEF ConfiguredSlots
  <2> QED
    BY <2>1, <2>2
<1>7. CountersMatch'
  BY <1>3, <1>4, <1>5 DEF CountersMatch, TypeOK
<1>8. RunningIsWorked'
  BY NodesAssumption DEF RunningIsWorked, WorkInv, Unplaced, TypeOK, PlaceInv, PlanInv
<1>9. PlaceInv'
  BY NoPlace
<1> QED
  BY <1>1, <1>2, <1>6, <1>7, <1>8, <1>9 DEF WorkInv

LEMMA PassEndPreservesInv ==
  ASSUME IndInv, PassEnds
  PROVE  IndInv'
<1> USE DEF IndInv, PassEnds, nodeVars
<1>1. TypeOK' /\ PhaseInv' /\ RowInv'
  BY DEF TypeOK, PhaseInv, RowInv, pollVars, workVars, planVars
<1>2. WorkInv'
  BY WorkFrame
<1>3. PlaceInv'
  BY PlanIsEmpty, NoPlace DEF PhaseInv, planVars
<1> QED
  BY <1>1, <1>2, <1>3

-----------------------------------------------------------------------------
(* The workers.                                                            *)

(* Answer and GiveUp: one call ends, and its slot is given back.           *)
LEMMA LeavePreservesInv ==
  ASSUME IndInv, NEW t \in Tasks, Answer(t) \/ GiveUp(t)
  PROVE  IndInv'
<1> USE DEF IndInv, Answer, GiveUp, LeaveNode, nodeVars
<1>1. node[t] \in Nodes /\ loop \in {"running", "dead"} /\ claimed = {}
  BY DEF WorkInv, RunningIsWorked, TypeOK, PhaseInv
<1>2. TypeOK'
  BY <1>1, SettingsAssumption DEF TypeOK, pollVars, planVars
<1>3. PhaseInv' /\ RowInv'
  BY <1>1 DEF PhaseInv, RowInv, pollVars, planVars
<1>4. /\ Calls(node[t])' = Calls(node[t]) \ {t}
      /\ t \in Calls(node[t])
      /\ \A n \in Nodes : n # node[t] => Calls(n)' = Calls(n)
  BY DEF Calls, TypeOK
<1>5. \A n \in Nodes : Cardinality(Calls(n)) \in Nat
  BY TasksFinite DEF Calls
<1>6. Cardinality(Calls(node[t])') = Cardinality(Calls(node[t])) - 1
  <2>1. IsFiniteSet(Calls(node[t]))
    BY TasksFinite DEF Calls
  <2> QED
    BY <1>4, <2>1, FS_RemoveElement
<1>7. \A n \in Nodes : ConfiguredSlots(n)' = ConfiguredSlots(n)
  BY DEF ConfiguredSlots
<1>8. \A n \in Nodes : ConfiguredSlots(n) \in Nat
  BY NodesAssumption DEF ConfiguredSlots, TypeOK
<1>9. \A n \in Nodes :
        Cardinality(Calls(n)') = IF n = node[t] THEN Cardinality(Calls(n)) - 1
                                                ELSE Cardinality(Calls(n))
  BY <1>4, <1>6
<1>10. SlotsRespected'
  <2> SUFFICES ASSUME NEW n \in Nodes
               PROVE  Cardinality(Calls(n)') <= ConfiguredSlots(n)
    BY <1>7 DEF SlotsRespected
  <2>1. Cardinality(Calls(n)) <= ConfiguredSlots(n)
    BY DEF SlotsRespected, WorkInv
  <2> QED
    BY <1>5, <1>8, <1>9, <2>1
<1>11. CountersMatch'
  <2> SUFFICES ASSUME NEW n \in Nodes
               PROVE  /\ inFlight'[n] >= Cardinality(Calls(n)')
                      /\ loop # "dead" => inFlight'[n] = Cardinality(Calls(n)')
    BY DEF CountersMatch
  <2>1. /\ inFlight[n] >= Cardinality(Calls(n))
        /\ loop # "dead" => inFlight[n] = Cardinality(Calls(n))
    BY DEF CountersMatch, WorkInv
  <2>2. inFlight'[n] = IF n = node[t] /\ inFlight[n] > 0 THEN inFlight[n] - 1
                                                        ELSE inFlight[n]
    BY <1>1 DEF TypeOK
  <2>3. Cardinality(Calls(n)') \in Nat
    <3>1. Calls(n)' \in SUBSET Tasks
      BY DEF Calls
    <3> QED
      BY <3>1, TasksFinite
  <2>4. inFlight[n] \in Nat
    BY DEF TypeOK
  <2> QED
    BY <1>5, <1>9, <2>1, <2>2, <2>3, <2>4
<1>12. RunningIsWorked'
  BY DEF RunningIsWorked, WorkInv, TypeOK
<1>13. PlaceInv'
  BY <1>1, PlanIsEmpty, NoPlace DEF planVars
<1> QED
  BY <1>2, <1>3, <1>10, <1>11, <1>12, <1>13 DEF WorkInv

LEMMA FailAttemptPreservesInv ==
  ASSUME IndInv, NEW t \in Tasks, FailAttempt(t)
  PROVE  IndInv'
<1> USE DEF IndInv, FailAttempt, nodeVars
<1>1. loop \in {"running", "dead"} /\ claimed = {}
  BY DEF PhaseInv
<1>2. TypeOK'
  BY SettingsAssumption DEF TypeOK, pollVars, planVars
<1>3. PhaseInv' /\ RowInv'
  BY DEF PhaseInv, RowInv, pollVars, planVars
<1>4. \A n \in Nodes : Calls(n)' = Calls(n) /\ ConfiguredSlots(n)' = ConfiguredSlots(n)
  BY DEF Calls, ConfiguredSlots
<1>5. WorkInv'
  BY <1>4 DEF WorkInv, RunningIsWorked, CountersMatch, SlotsRespected
<1>6. PlaceInv'
  BY <1>1, PlanIsEmpty, NoPlace DEF planVars
<1> QED
  BY <1>2, <1>3, <1>5, <1>6

(* Settle and WorkerError: a worker ends.  An error may leave its counter  *)
(* too high, but only together with the loop.                              *)
LEMMA WorkerEndPreservesInv ==
  ASSUME IndInv, NEW t \in Tasks, Settle(t) \/ WorkerError(t)
  PROVE  IndInv'
<1> USE NodesAssumption DEF IndInv, Settle, WorkerError, WorkerStops, nodeVars
<1>1. loop \in {"running", "dead"} /\ claimed = {} /\ loop' # "placing"
  BY DEF PhaseInv
<1>2. TypeOK'
  BY SettingsAssumption DEF TypeOK, pollVars, planVars
<1>3. PhaseInv' /\ RowInv'
  BY DEF PhaseInv, RowInv, pollVars, planVars, TypeOK
<1>4. \A n \in Nodes : Calls(n)' = Calls(n) \ {t}
  BY DEF Calls, TypeOK
<1>5. \A n \in Nodes : /\ Cardinality(Calls(n)) \in Nat
                       /\ Cardinality(Calls(n))' \in Nat
                       /\ Cardinality(Calls(n))' <= Cardinality(Calls(n))
  <2> SUFFICES ASSUME NEW n \in Nodes
               PROVE  /\ Cardinality(Calls(n)) \in Nat
                      /\ Cardinality(Calls(n))' \in Nat
                      /\ Cardinality(Calls(n))' <= Cardinality(Calls(n))
    OBVIOUS
  <2>1. IsFiniteSet(Calls(n)) /\ Cardinality(Calls(n)) \in Nat
    BY TasksFinite DEF Calls
  <2>2. Cardinality(Calls(n) \ {t}) \in Nat
    BY TasksFinite DEF Calls
  <2>3. Cardinality(Calls(n) \ {t}) <= Cardinality(Calls(n))
    BY <2>1, FS_Subset
  <2> QED
    BY <1>4, <2>1, <2>2, <2>3
<1>6. \A n \in Nodes : /\ ConfiguredSlots(n)' = ConfiguredSlots(n)
                       /\ ConfiguredSlots(n) \in Nat
  BY DEF ConfiguredSlots, TypeOK
<1>7. SlotsRespected'
  BY <1>5, <1>6 DEF SlotsRespected, WorkInv
<1>8. CountersMatch'
  <2>1. CASE Settle(t)
    <3>1. \A n \in Nodes : Calls(n)' = Calls(n)
      BY <2>1 DEF Calls, TypeOK
    <3> QED
      BY <2>1, <3>1 DEF CountersMatch, WorkInv
  <2>2. CASE WorkerError(t)
    BY <1>5, <2>2 DEF CountersMatch, WorkInv, TypeOK
  <2> QED
    BY <2>1, <2>2
<1>9. RunningIsWorked'
  BY DEF RunningIsWorked, WorkInv, TypeOK
<1>10. PlaceInv'
  BY <1>1, PlanIsEmpty, NoPlace DEF planVars
<1> QED
  BY <1>2, <1>3, <1>7, <1>8, <1>9, <1>10 DEF WorkInv

LEMMA NextPreservesInv == IndInv /\ [Next]_vars => IndInv'
<1> SUFFICES ASSUME IndInv, [Next]_vars PROVE IndInv'
  OBVIOUS
<1>1. CASE WorldNext \/ IntervalPasses
  BY <1>1, WorldPreservesInv, SubmitPreservesInv, RestartPreservesInv DEF WorldNext
<1>2. CASE LoopNext
  BY <1>2, PollPreservesInv, ClaimPreservesInv, PlacePreservesInv,
     AssignPreservesInv, PassEndPreservesInv DEF LoopNext
<1>3. CASE \E t \in Tasks : WorkerNext(t)
  BY <1>3, LeavePreservesInv, FailAttemptPreservesInv, WorkerEndPreservesInv
     DEF WorkerNext
<1>4. CASE ErrorNext
  BY <1>4, ErrorsPreserveInv, WorkerEndPreservesInv DEF ErrorNext
<1>5. CASE UNCHANGED vars
  <2> USE <1>5 DEF IndInv, vars, nodeVars, pollVars
  <2>1. TypeOK' /\ PhaseInv' /\ RowInv'
    BY DEF TypeOK, PhaseInv, RowInv, planVars, workVars
  <2>2. WorkInv' /\ PlaceInv'
    BY WorkFrame, PlaceFrame DEF workVars
  <2> QED
    BY <2>1, <2>2
<1> QED
  BY <1>1, <1>2, <1>3, <1>4, <1>5 DEF Next

THEOREM Invariant == Spec => []IndInv
BY InitEstablishesInv, NextPreservesInv, PTL DEF Spec

-----------------------------------------------------------------------------

(* Every row, counter and worker stays in its set; no task is tried more   *)
(* often than MaxAttempts.                                                 *)
THEOREM TypeCorrect == Spec => []TypeOK
<1>1. IndInv => TypeOK
  BY DEF IndInv
<1> QED
  BY <1>1, Invariant, PTL

(* The in-flight counters are exact while the loop lives.                  *)
THEOREM CountersAreExact == Spec => []CountersMatch
<1>1. IndInv => CountersMatch
  BY DEF IndInv, WorkInv
<1> QED
  BY <1>1, Invariant, PTL

(* No node gets more than its configured slots.                            *)
THEOREM CapacityIsKept == Spec => []SlotsRespected
<1>1. IndInv => SlotsRespected
  BY DEF IndInv, WorkInv
<1> QED
  BY <1>1, Invariant, PTL

(* Running tasks and workers correspond.                                   *)
THEOREM NoTaskIsForgotten == Spec => []RunningIsWorked
<1>1. IndInv => RunningIsWorked
  BY DEF IndInv, WorkInv
<1> QED
  BY <1>1, Invariant, PTL

(* The defensive break of the placement loop is never taken.               *)
THEOREM ClaimsFit == Spec => []EveryClaimFits
<1>1. IndInv => EveryClaimFits
  BY DEF IndInv, PlaceInv
<1> QED
  BY <1>1, Invariant, PTL

(* Placement levels the free slots of the healthy nodes.                   *)
THEOREM PlacementLevels == Spec => []Levelled
<1>1. IndInv => Levelled
  BY DEF IndInv, PlaceInv
<1> QED
  BY <1>1, Invariant, PTL

(* Ejection follows the failure counter, across configurations.            *)
THEOREM EjectionFollowsFailures == Spec => []EjectionIsEarned
<1>1. IndInv => EjectionIsEarned
  BY NodesAssumption DEF IndInv, RowInv, TypeOK, EjectionIsEarned
<1> QED
  BY <1>1, Invariant, PTL
=============================================================================
