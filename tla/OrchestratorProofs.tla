--------------------------- MODULE OrchestratorProofs ---------------------------
(***************************************************************************)
(* The event bus and the orchestrators on it, for any number of instances, *)
(* of events and of slots of the ring, and any set of the event types.     *)
(*                                                                         *)
(* The rewards are accounted for while deliveries are pending: of the      *)
(* audience of a verdict, those not yet rewarded have a delivery that has  *)
(* not begun (RewardsOK).  With events published one at a time, all        *)
(* pending deliveries are of the last one, and whoever has none has made   *)
(* its transition (SerialOK).                                              *)
(***************************************************************************)
EXTENDS Orchestrator, FiniteSetTheorems, TLAPS

\* The receivers with a store whose handler of an event has not begun, and
\* all that it was dispatched to.
Waiting(e) == {o \in stores : [event |-> e, to |-> o, step |-> "start"] \in pending}

Owed(e) == audience[e] \cap stores

IsVerdict(e) == e \in Events /\ published[e] \in Verdicts /\ e \in named

Types ==
  /\ BusTypeOK
  /\ life \in [Listeners -> {"unborn", "running", "stopping", "stopped"}]
  /\ state \in [Listeners -> States]
  /\ stores \subseteq Listeners
  /\ named \subseteq Events
  /\ updates \in [1 .. MaxEvents -> Nat]
  /\ audience \in [1 .. MaxEvents -> SUBSET Listeners]
  /\ serial \in BOOLEAN

PendingOK ==
  \A d \in pending : /\ d.event \in Events
                     /\ d.step = "finish" => Rewards(d)

RewardsOK ==
  \A e \in 1 .. MaxEvents :
    IF IsVerdict(e) THEN updates[e] + Cardinality(Waiting(e)) = Cardinality(Owed(e))
    ELSE updates[e] = 0

SerialOK ==
  serial =>
    /\ \A d \in pending : d.event = Len(published)
    /\ published # << >> =>
         \A o \in audience[Len(published)] :
           (\A d \in pending : d.to # o) => state[o] = Target[Last]

OrchInv == Types /\ PendingOK /\ RewardsOK /\ SerialOK

-------------------------------------------------------------------------------
(* Targets, deliveries, and the ring's indices.                            *)

LEMMA TargetIsState == \A t \in EventTypes : Target[t] \in States
<1>1. DOMAIN Target = {"anomaly_detected", "action_recommended", "action_approved",
        "action_executed", "verification_passed", "verification_failed",
        "failed_critically", "safe_mode_triggered"}
  BY DEF Target
<1>2. \A t \in DOMAIN Target : Target[t] \in States
  BY <1>1 DEF Target, States
<1> QED
  BY <1>2, OrchestratorEvents

LEMMA DeliveryFields ==
  ASSUME NEW d \in Deliveries
  PROVE  /\ d.event \in 1 .. MaxEvents /\ d.to \in Listeners
         /\ d.step \in {"start", "finish"}
         /\ d = [event |-> d.event, to |-> d.to, step |-> d.step]
         /\ [d EXCEPT !.step = "finish"]
              = [event |-> d.event, to |-> d.to, step |-> "finish"]
         /\ [d EXCEPT !.step = "finish"] \in Deliveries
  BY DEF Deliveries

LEMMA SlotAfter ==
  ASSUME NEW i \in Slots PROVE (i + 1) % RingSize \in Slots
  BY BusAssumption DEF Slots

\* The sets of waiting receivers are finite.
LEMMA WaitingFinite ==
  ASSUME OrchInv, NEW e
  PROVE  IsFiniteSet(Waiting(e)) /\ Cardinality(Waiting(e)) \in Nat
<1>1. Waiting(e) \in SUBSET Listeners
  BY DEF Waiting, OrchInv, Types
<1> QED
  BY <1>1, FS_Subset, FS_CardinalityType, BusAssumption

LEMMA OrchInit == Init => OrchInv
<1> SUFFICES ASSUME Init PROVE OrchInv
  OBVIOUS
<1>1. /\ subscribers = [t \in EventTypes |-> {}] /\ ringBuffer = [i \in Slots |-> 0]
      /\ head = 0 /\ count = 0 /\ published = << >> /\ pending = {}
      /\ life = [o \in Listeners |-> "unborn"] /\ state = [o \in Listeners |-> "idle"]
      /\ updates = [e \in 1 .. MaxEvents |-> 0]
      /\ audience = [e \in 1 .. MaxEvents |-> {}] /\ serial = TRUE
      /\ stores \subseteq Listeners /\ named = {}
  BY DEF Init, BusInit
<1>2. BusTypeOK
  BY <1>1, BusAssumption DEF BusTypeOK, Slots
<1>3. Types
  BY <1>1, <1>2 DEF Types, States
<1>4. PendingOK /\ SerialOK
  BY <1>1 DEF PendingOK, SerialOK
<1>5. RewardsOK
  BY <1>1 DEF RewardsOK, IsVerdict, Events
<1> QED
  BY <1>3, <1>4, <1>5 DEF OrchInv

-------------------------------------------------------------------------------
(* Instances come and go: the subscribers change, and nothing that the     *)
(* invariant speaks of.                                                    *)

LEMMA LifeStep ==
  ASSUME OrchInv, NEW o \in Listeners, NewOrchestrator(o) \/ Stop(o) \/ StopReturns(o)
  PROVE  OrchInv'
<1>1. /\ life' \in [Listeners -> {"unborn", "running", "stopping", "stopped"}]
      /\ subscribers' \in [EventTypes -> SUBSET Listeners]
  BY DEF NewOrchestrator, Stop, StopReturns, SubscribeAll, ClearSubscribers, busVars,
     OrchInv, Types, BusTypeOK
<1>2. UNCHANGED << ringBuffer, head, count, published, pending,
                   state, stores, named, updates, audience, serial >>
  BY DEF NewOrchestrator, Stop, StopReturns, SubscribeAll, ClearSubscribers, busVars,
     histVars
<1>3. Types'
  BY <1>1, <1>2 DEF OrchInv, Types, BusTypeOK, Events
<1>4. (PendingOK /\ SerialOK)'
  BY <1>2 DEF OrchInv, PendingOK, SerialOK, Rewards, Events, Last
<1>5. RewardsOK'
  BY <1>2 DEF OrchInv, RewardsOK, IsVerdict, Owed, Waiting, Events
<1> QED
  BY <1>3, <1>4, <1>5 DEF OrchInv

-------------------------------------------------------------------------------
(* An event is published: its audience is all waiting.                     *)

LEMMA PublishStep ==
  ASSUME OrchInv, NEW t \in EventTypes, NEW complete \in BOOLEAN,
         PublishEvent(t, complete)
  PROVE  OrchInv'
<1> DEFINE n == Len(published) + 1
           new == {[event |-> n, to |-> l, step |-> "start"] : l \in subscribers[t]}
<1>1. /\ published \in Seq(EventTypes) /\ Len(published) \in Nat
      /\ n \in 1 .. MaxEvents /\ subscribers[t] \in SUBSET Listeners
      /\ pending \subseteq Deliveries
  BY BusAssumption DEF OrchInv, Types, BusTypeOK, PublishEvent, Publish
<1>2. /\ published' = Append(published, t)
      /\ ringBuffer' = [ringBuffer EXCEPT ![head] = n]
      /\ head' = (head + 1) % RingSize
      /\ count' = (IF count < RingSize THEN count + 1 ELSE count)
      /\ pending' = pending \cup new
      /\ serial' = (serial /\ pending = {})
      /\ UNCHANGED << subscribers, life, state, stores, updates >>
  BY DEF PublishEvent, Publish
<1>3. /\ published' \in Seq(EventTypes) /\ Len(published') = n /\ published'[n] = t
      /\ \A e \in Events : published'[e] = published[e]
      /\ Events' = Events \cup {n} /\ n \notin Events
      /\ named' \subseteq Events'
      /\ \A e \in Events : e \in named' <=> e \in named
  <2>1. /\ published' \in Seq(EventTypes) /\ Len(published') = n /\ published'[n] = t
        /\ \A e \in Events : published'[e] = published[e]
        /\ Events' = Events \cup {n} /\ n \notin Events
    BY <1>1, <1>2 DEF Events
  <2>2. named' = IF complete THEN named \cup {n} ELSE named
    BY <2>1 DEF PublishEvent
  <2> QED
    BY <2>1, <2>2 DEF OrchInv, Types
<1>4. audience' = [audience EXCEPT ![n] = subscribers[t]]
  BY <1>3 DEF PublishEvent
<1>5. /\ audience \in [1 .. MaxEvents -> SUBSET Listeners]
      /\ audience' \in [1 .. MaxEvents -> SUBSET Listeners]
      /\ audience'[n] = subscribers[t]
      /\ \A e \in 1 .. MaxEvents : e # n => audience'[e] = audience[e]
  BY <1>1, <1>4 DEF OrchInv, Types
<1>6. new \subseteq Deliveries
  BY <1>1 DEF Deliveries
<1>7. Types'
  <2>1. ringBuffer' \in [Slots -> 0 .. MaxEvents] /\ head' \in Slots
    BY <1>1, <1>2, SlotAfter DEF OrchInv, Types, BusTypeOK
  <2>2. count' \in 0 .. RingSize
    BY <1>2, BusAssumption DEF OrchInv, Types, BusTypeOK
  <2>3. BusTypeOK'
    BY <1>1, <1>2, <1>3, <1>6, <2>1, <2>2 DEF OrchInv, Types, BusTypeOK
  <2>4. serial' \in BOOLEAN
    BY <1>2
  <2> QED
    BY <1>2, <1>3, <1>5, <2>3, <2>4 DEF OrchInv, Types
<1>8. PendingOK'
  <2> SUFFICES ASSUME NEW d \in pending'
               PROVE  /\ d.event \in Events'
                      /\ d.step = "finish" => Rewards(d)'
    BY DEF PendingOK
  <2>1. CASE d \in pending
    BY <1>2, <1>3, <2>1 DEF OrchInv, PendingOK, Rewards
  <2>2. CASE d \in new
    BY <1>3, <2>2
  <2> QED
    BY <1>2, <2>1, <2>2
<1>9. \A d \in pending : d.event \in Events
  BY DEF OrchInv, PendingOK
<1>10. RewardsOK'
  <2> SUFFICES ASSUME NEW e \in 1 .. MaxEvents
               PROVE  IF IsVerdict(e)'
                      THEN updates'[e] + Cardinality(Waiting(e)') = Cardinality(Owed(e)')
                      ELSE updates'[e] = 0
    BY DEF RewardsOK
  <2>1. IF IsVerdict(e) THEN updates[e] + Cardinality(Waiting(e)) = Cardinality(Owed(e))
        ELSE updates[e] = 0
    BY DEF OrchInv, RewardsOK
  <2>2. CASE e = n
    <3>1. updates'[e] = 0
      BY <1>2, <1>3, <2>1, <2>2 DEF IsVerdict
    <3>2. Waiting(e)' = subscribers[t] \cap stores
      <4>1. Waiting(e)' = {o \in stores : [event |-> e, to |-> o, step |-> "start"] \in pending'}
        BY <1>2 DEF Waiting
      <4>2. \A o \in Listeners : [event |-> e, to |-> o, step |-> "start"] \notin pending
        BY <1>3, <1>9, <2>2
      <4>3. \A o \in Listeners :
              [event |-> e, to |-> o, step |-> "start"] \in new <=> o \in subscribers[t]
        BY <2>2
      <4> QED
        BY <1>1, <1>2, <4>1, <4>2, <4>3 DEF OrchInv, Types
    <3>3. Owed(e)' = subscribers[t] \cap stores
      BY <1>2, <1>5, <2>2 DEF Owed
    <3>4. Cardinality(subscribers[t] \cap stores) \in Nat
      <4>1. subscribers[t] \cap stores \in SUBSET Listeners
        BY <1>1
      <4> QED
        BY <4>1, FS_Subset, FS_CardinalityType, BusAssumption
    <3> QED
      BY <3>1, <3>2, <3>3, <3>4
  <2>3. CASE e # n
    <3>1. IsVerdict(e)' <=> IsVerdict(e)
      BY <1>3, <2>3 DEF IsVerdict
    <3>2. Waiting(e)' = Waiting(e)
      BY <1>2, <2>3 DEF Waiting
    <3>3. Owed(e)' = Owed(e) /\ updates'[e] = updates[e]
      BY <1>2, <1>5, <2>3 DEF Owed
    <3> QED
      BY <2>1, <3>1, <3>2, <3>3
  <2> QED
    BY <2>2, <2>3
<1>11. SerialOK'
  <2> SUFFICES ASSUME serial'
               PROVE  /\ \A d \in pending' : d.event = n
                      /\ \A o \in audience'[n] : \E d \in pending' : d.to = o
    BY <1>3 DEF SerialOK
  <2>1. pending' = new
    BY <1>2
  <2>2. \A o \in subscribers[t] : [event |-> n, to |-> o, step |-> "start"] \in new
    OBVIOUS
  <2>3. \A o \in audience'[n] : \E d \in pending' : d.to = o
    <3> SUFFICES ASSUME NEW o \in subscribers[t] PROVE \E d \in new : d.to = o
      BY <1>5, <2>1
    <3> WITNESS [event |-> n, to |-> o, step |-> "start"] \in new
    <3> QED
      OBVIOUS
  <2> QED
    BY <2>1, <2>3
<1> QED
  BY <1>7, <1>8, <1>10, <1>11 DEF OrchInv

-------------------------------------------------------------------------------
(* A handler runs.                                                         *)

\* The reward moves one receiver from those that wait to those rewarded.
LEMMA RewardStep ==
  ASSUME OrchInv, NEW d \in pending, HandleReward(d) PROVE OrchInv'
<1> DEFINE o == d.to
           f == [event |-> d.event, to |-> o, step |-> "finish"]
<1>1. d \in Deliveries
  BY DEF OrchInv, Types, BusTypeOK
<1>2. /\ d.event \in 1 .. MaxEvents /\ o \in Listeners /\ d.step = "start"
      /\ d = [event |-> d.event, to |-> o, step |-> "start"]
      /\ f \in Deliveries /\ f = [d EXCEPT !.step = "finish"]
  BY <1>1, DeliveryFields DEF HandleReward
<1>3. /\ Rewards(d)
      /\ pending' = (pending \ {d}) \cup {f}
      /\ updates' = [updates EXCEPT ![d.event] = @ + 1]
      /\ UNCHANGED << subscribers, ringBuffer, head, count, published, life, state,
                      stores, named, audience, serial >>
  BY <1>2 DEF HandleReward
<1>4. /\ updates \in [1 .. MaxEvents -> Nat] /\ updates' \in [1 .. MaxEvents -> Nat]
      /\ updates'[d.event] = updates[d.event] + 1
      /\ \A e \in 1 .. MaxEvents : e # d.event => updates'[e] = updates[e]
  BY <1>2, <1>3 DEF OrchInv, Types
<1>5. Types'
  BY <1>2, <1>3, <1>4 DEF OrchInv, Types, BusTypeOK, Events
<1>6. d.event \in Events
  BY DEF OrchInv, PendingOK
<1>7. PendingOK'
  <2> SUFFICES ASSUME NEW x \in pending'
               PROVE  /\ x.event \in Events
                      /\ x.step = "finish" => Rewards(x)
    BY <1>3 DEF PendingOK, Rewards, Events
  <2>1. CASE x \in pending
    BY <2>1 DEF OrchInv, PendingOK
  <2>2. CASE x = f
    BY <1>3, <1>6, <2>2 DEF Rewards
  <2> QED
    BY <1>3, <2>1, <2>2
<1>8. RewardsOK'
  <2> SUFFICES ASSUME NEW e \in 1 .. MaxEvents
               PROVE  IF IsVerdict(e)'
                      THEN updates'[e] + Cardinality(Waiting(e)') = Cardinality(Owed(e)')
                      ELSE updates'[e] = 0
    BY DEF RewardsOK
  <2>1. IF IsVerdict(e) THEN updates[e] + Cardinality(Waiting(e)) = Cardinality(Owed(e))
        ELSE updates[e] = 0
    BY DEF OrchInv, RewardsOK
  <2>2. IsVerdict(e)' <=> IsVerdict(e)
    BY <1>3 DEF IsVerdict, Events
  <2>3. CASE e = d.event
    <3>1. IsVerdict(e) /\ o \in Waiting(e)
      BY <1>2, <1>3, <1>6, <2>3 DEF IsVerdict, Waiting, Rewards
    <3>2. Waiting(e)' = Waiting(e) \ {o}
      BY <1>2, <1>3, <2>3 DEF Waiting
    <3>3. Cardinality(Waiting(e)') = Cardinality(Waiting(e)) - 1
      BY <3>1, <3>2, WaitingFinite, FS_RemoveElement
    <3>4. Cardinality(Waiting(e)) \in Nat /\ updates[e] \in Nat
      BY <1>4, WaitingFinite
    <3>5. Owed(e)' = Owed(e)
      BY <1>3 DEF Owed
    <3> QED
      BY <1>4, <2>1, <2>2, <2>3, <3>1, <3>3, <3>4, <3>5
  <2>4. CASE e # d.event
    <3>1. Waiting(e)' = Waiting(e)
      BY <1>2, <1>3, <2>4 DEF Waiting
    <3> QED
      BY <1>3, <1>4, <2>1, <2>2, <2>4, <3>1 DEF Owed
  <2> QED
    BY <2>3, <2>4
<1>9. SerialOK'
  <2> SUFFICES ASSUME serial
               PROVE  /\ \A x \in pending' : x.event = Len(published)
                      /\ \A x \in audience[Len(published)] :
                           (\A y \in pending' : y.to # x)
                             => /\ published # << >> => state[x] = Target[Last]
    BY <1>3 DEF SerialOK, Last
  <2>1. \A x \in pending : x.event = Len(published)
    BY DEF OrchInv, SerialOK
  <2>2. \A x \in pending' : x.event = Len(published)
    BY <1>3, <2>1
  <2>3. \A y \in pending : \E z \in pending' : z.to = y.to
    BY <1>2, <1>3
  <2> QED
    BY <2>2, <2>3 DEF OrchInv, SerialOK
<1> QED
  BY <1>5, <1>7, <1>8, <1>9 DEF OrchInv

\* The transition ends a delivery, which waits for no reward any more.
LEMMA TransitionStep ==
  ASSUME OrchInv, NEW d \in pending, HandleTransition(d) PROVE OrchInv'
<1>1. d \in Deliveries /\ d.to \in Listeners /\ d.step \in {"start", "finish"}
  BY DeliveryFields DEF OrchInv, Types, BusTypeOK
<1>2. /\ d.step = "finish" \/ ~Rewards(d)
      /\ pending' = pending \ {d}
      /\ state' = [state EXCEPT ![d.to] = Target[published[d.event]]]
      /\ UNCHANGED << subscribers, ringBuffer, head, count, published, life, stores,
                      named, updates, audience, serial >>
  BY DEF HandleTransition, histVars
<1>3. d.event \in Events /\ published[d.event] \in EventTypes
  BY DEF OrchInv, PendingOK, Types, BusTypeOK, Events
<1>4. /\ state \in [Listeners -> States] /\ state' \in [Listeners -> States]
      /\ state'[d.to] = Target[published[d.event]]
      /\ \A o \in Listeners : o # d.to => state'[o] = state[o]
  BY <1>1, <1>2, <1>3, TargetIsState DEF OrchInv, Types
<1>5. Types'
  BY <1>2, <1>4 DEF OrchInv, Types, BusTypeOK, Events
<1>6. PendingOK'
  BY <1>2 DEF OrchInv, PendingOK, Rewards, Events
<1>7. RewardsOK'
  <2> SUFFICES ASSUME NEW e \in 1 .. MaxEvents
               PROVE  IF IsVerdict(e)'
                      THEN updates'[e] + Cardinality(Waiting(e)') = Cardinality(Owed(e)')
                      ELSE updates'[e] = 0
    BY DEF RewardsOK
  <2>1. IF IsVerdict(e) THEN updates[e] + Cardinality(Waiting(e)) = Cardinality(Owed(e))
        ELSE updates[e] = 0
    BY DEF OrchInv, RewardsOK
  <2>2. IsVerdict(e)' <=> IsVerdict(e)
    BY <1>2 DEF IsVerdict, Events
  <2>3. ASSUME IsVerdict(e) PROVE Waiting(e)' = Waiting(e)
    <3>1. ASSUME NEW o \in stores
          PROVE  d # [event |-> e, to |-> o, step |-> "start"]
      BY <1>2, <2>3 DEF IsVerdict, Rewards
    <3> QED
      BY <1>2, <3>1 DEF Waiting
  <2>4. Owed(e)' = Owed(e)
    BY <1>2 DEF Owed
  <2> QED
    BY <1>2, <2>1, <2>2, <2>3, <2>4
<1>8. SerialOK'
  <2> SUFFICES ASSUME serial, published # << >>
               PROVE  /\ \A x \in pending' : x.event = Len(published)
                      /\ \A x \in audience[Len(published)] :
                           (\A y \in pending' : y.to # x) => state'[x] = Target[Last]
    <3>1. published = << >> => \A x \in pending' : x.event = Len(published)
      BY <1>3 DEF Events
    <3> QED
      BY <1>2, <3>1 DEF SerialOK, Last
  <2>1. \A x \in pending : x.event = Len(published)
    BY DEF OrchInv, SerialOK
  <2>2. state'[d.to] = Target[Last]
    BY <1>4, <2>1 DEF Last
  <2>3. audience[Len(published)] \subseteq Listeners
    <3>1. Len(published) \in 1 .. MaxEvents
      BY <1>1, <2>1, DeliveryFields
    <3> QED
      BY <3>1 DEF OrchInv, Types
  <2>4. ASSUME NEW x \in audience[Len(published)], \A y \in pending' : y.to # x
        PROVE  state'[x] = Target[Last]
    <3>1. CASE x = d.to
      BY <2>2, <3>1
    <3>2. CASE x # d.to
      <4>1. \A y \in pending : y.to # x
        BY <1>2, <2>4, <3>2
      <4>2. state[x] = Target[Last]
        BY <4>1 DEF OrchInv, SerialOK
      <4> QED
        BY <1>4, <2>3, <3>2, <4>2
    <3> QED
      BY <3>1, <3>2
  <2> QED
    BY <1>2, <2>1, <2>4
<1> QED
  BY <1>5, <1>6, <1>7, <1>8 DEF OrchInv

LEMMA OrchStep == OrchInv /\ [Next]_orchVars => OrchInv'
<1> SUFFICES ASSUME OrchInv, [Next]_orchVars PROVE OrchInv'
  OBVIOUS
<1>1. CASE UNCHANGED orchVars
  <2>1. UNCHANGED << subscribers, ringBuffer, head, count, published, pending,
                     life, state, stores, named, updates, audience, serial >>
    BY <1>1 DEF orchVars, busVars, histVars
  <2> QED
    BY <2>1 DEF OrchInv, Types, BusTypeOK, PendingOK, RewardsOK, SerialOK,
       IsVerdict, Waiting, Owed, Rewards, Events, Last
<1> QED
  BY <1>1, LifeStep, PublishStep, RewardStep, TransitionStep DEF Next

LEMMA OrchInvariance == Spec => []OrchInv
  BY OrchInit, OrchStep, PTL DEF Spec

-------------------------------------------------------------------------------
(* What follows.                                                           *)

\* A verdict has no more rewards than its audience has members.
LEMMA RewardsBounded ==
  ASSUME OrchInv, NEW e \in 1 .. MaxEvents
  PROVE  updates[e] \in 0 .. Cardinality(stores)
<1>1. updates[e] \in Nat /\ Owed(e) \in SUBSET stores
  BY DEF OrchInv, Types, Owed
<1>a. IsFiniteSet(stores)
  BY FS_Subset, BusAssumption DEF OrchInv, Types
<1>2. /\ Cardinality(Owed(e)) \in Nat /\ Cardinality(stores) \in Nat
      /\ Cardinality(Owed(e)) <= Cardinality(stores)
  BY <1>1, <1>a, FS_Subset, FS_CardinalityType
<1>3. Cardinality(Waiting(e)) \in Nat
  BY WaitingFinite
<1>4. \/ updates[e] = 0
      \/ updates[e] + Cardinality(Waiting(e)) = Cardinality(Owed(e))
  BY DEF OrchInv, RewardsOK
<1> QED
  BY <1>1, <1>2, <1>3, <1>4

\* Types of the bus and of the orchestrators; the ring's indices stay in it,
\* and no verdict is rewarded more often than there are instances.
THEOREM OrchestratorTypes == Spec => []OrchTypeOK
<1>1. OrchInv => OrchTypeOK
  <2> SUFFICES ASSUME OrchInv PROVE OrchTypeOK
    OBVIOUS
  <2>1. updates \in [1 .. MaxEvents -> Nat]
    BY DEF OrchInv, Types
  <2>2. updates \in [1 .. MaxEvents -> 0 .. Cardinality(stores)]
    BY <2>1, RewardsBounded
  <2> QED
    BY <2>2 DEF OrchInv, Types, OrchTypeOK
<1> QED
  BY <1>1, OrchInvariance, PTL

\* orchestrator.go's handlers ask for the reward of each verdict that names a
\* state and an action once for every instance with a store that it was
\* dispatched to, and for no other reward, in whatever order deliveries run
\* and instances stop and start.
THEOREM VerdictsAreRewardedOnce == Spec => []RewardedOncePerInstance
<1>1. OrchInv => RewardedOncePerInstance
  <2> SUFFICES ASSUME OrchInv, NEW e \in Events, \A d \in pending : d.event # e
               PROVE  updates[e] = IF published[e] \in Verdicts /\ e \in named
                                   THEN Cardinality(Owed(e)) ELSE 0
    BY DEF RewardedOncePerInstance, Owed
  <2>1. e \in 1 .. MaxEvents
    BY BusAssumption DEF Events, OrchInv, Types, BusTypeOK
  <2>2. Waiting(e) = {}
    BY DEF Waiting
  <2>3. Cardinality(Waiting(e)) = 0
    BY <2>2, FS_EmptySet
  <2>4. IF published[e] \in Verdicts /\ e \in named
        THEN updates[e] + Cardinality(Waiting(e)) = Cardinality(Owed(e))
        ELSE updates[e] = 0
    BY <2>1 DEF OrchInv, RewardsOK, IsVerdict
  <2>5. updates[e] \in Nat
    BY <2>1 DEF OrchInv, Types
  <2> QED
    BY <2>3, <2>4, <2>5
<1> QED
  BY <1>1, OrchInvariance, PTL

\* Events that are published one at a time drive every instance through the
\* state machine.
THEOREM SerialEventsDrive == Spec => []SerialEventsDriveState
<1>1. OrchInv => SerialEventsDriveState
  BY DEF OrchInv, SerialOK, SerialEventsDriveState
<1> QED
  BY <1>1, OrchInvariance, PTL
-------------------------------------------------------------------------------
(* The ring.  Seen from the head backwards it holds the newest event, the  *)
(* one before, and so on: stated by the distance from the head, which the  *)
(* wrapping of the head leaves as it is.                                   *)

\* The slot of the j-th event before the head.
Back(j) == IF j <= head THEN head - j ELSE head - j + RingSize

RingOK ==
  /\ count = IF Len(published) < RingSize THEN Len(published) ELSE RingSize
  /\ \A j \in 1 .. count : ringBuffer[Back(j)] = Len(published) - j + 1

\* Indices less than two rings wrap at most once: of the next slot, of the
\* slot n before, and of the slot i after.
LEMMA WrapNext ==
  ASSUME NEW h \in Slots
  PROVE  (h + 1) % RingSize = IF h + 1 < RingSize THEN h + 1 ELSE 0
  BY BusAssumption DEF Slots

LEMMA WrapBack ==
  ASSUME NEW h \in Slots, NEW n \in 1 .. RingSize
  PROVE  (h - n + RingSize) % RingSize = IF n <= h THEN h - n ELSE h - n + RingSize
  BY BusAssumption DEF Slots

LEMMA WrapFrom ==
  ASSUME NEW s \in Slots, NEW i \in 1 .. RingSize
  PROVE  (s + i - 1) % RingSize
           = IF s + i - 1 < RingSize THEN s + i - 1 ELSE s + i - 1 - RingSize
  BY BusAssumption DEF Slots

LEMMA RingInit == Init => RingOK
  BY BusAssumption DEF Init, BusInit, RingOK

LEMMA RingPublish ==
  ASSUME OrchInv, RingOK, NEW t \in EventTypes, Publish(t) PROVE RingOK'
<1>1. /\ published \in Seq(EventTypes) /\ Len(published) \in Nat
      /\ head \in Slots /\ count \in 0 .. RingSize /\ RingSize \in Nat \ {0}
      /\ ringBuffer \in [Slots -> 0 .. MaxEvents]
  BY BusAssumption DEF OrchInv, Types, BusTypeOK
<1>2. /\ published' = Append(published, t)
      /\ ringBuffer' = [ringBuffer EXCEPT ![head] = Len(published) + 1]
      /\ head' = (head + 1) % RingSize
      /\ count' = (IF count < RingSize THEN count + 1 ELSE count)
  BY DEF Publish
<1>3. Len(published') = Len(published) + 1
  BY <1>1, <1>2
<1>4. head' = IF head + 1 < RingSize THEN head + 1 ELSE 0
  BY <1>1, <1>2, WrapNext
<1>5. count' = IF Len(published') < RingSize THEN Len(published') ELSE RingSize
  BY <1>1, <1>2, <1>3 DEF RingOK
<1>6. ASSUME NEW j \in 1 .. count'
      PROVE  ringBuffer'[Back(j)'] = Len(published') - j + 1
  <2>1. CASE j = 1
    <3>1. Back(j)' = head
      BY <1>1, <1>4, <2>1 DEF Back, Slots
    <3> QED
      BY <1>1, <1>2, <1>3, <2>1, <3>1
  <2>2. CASE j # 1
    <3>1. j - 1 \in 1 .. count /\ j - 1 < RingSize
      BY <1>1, <1>2, <2>2
    <3>2. Back(j)' = Back(j - 1) /\ Back(j - 1) \in Slots /\ Back(j - 1) # head
      BY <1>1, <1>4, <2>2, <3>1 DEF Back, Slots
    <3>3. ringBuffer[Back(j - 1)] = Len(published) - (j - 1) + 1
      BY <3>1 DEF RingOK
    <3>4. ringBuffer'[Back(j)'] = ringBuffer[Back(j - 1)]
      BY <1>1, <1>2, <3>2
    <3> QED
      BY <1>1, <1>3, <3>1, <3>3, <3>4
  <2> QED
    BY <2>1, <2>2
<1> QED
  BY <1>5, <1>6 DEF RingOK

LEMMA RingStep == OrchInv /\ RingOK /\ [Next]_orchVars => RingOK'
<1> SUFFICES ASSUME OrchInv, RingOK, [Next]_orchVars PROVE RingOK'
  OBVIOUS
<1>1. ASSUME NEW t \in EventTypes, NEW complete \in BOOLEAN,
             PublishEvent(t, complete)
      PROVE  RingOK'
  BY <1>1, RingPublish DEF PublishEvent
<1>2. ASSUME UNCHANGED << ringBuffer, head, count, published >> PROVE RingOK'
  BY <1>2 DEF RingOK, Back
<1>3. ASSUME NEW o \in Listeners, NewOrchestrator(o) \/ Stop(o) \/ StopReturns(o)
      PROVE  UNCHANGED << ringBuffer, head, count, published >>
  BY <1>3 DEF NewOrchestrator, Stop, StopReturns, SubscribeAll, ClearSubscribers, busVars
<1>4. ASSUME NEW d \in pending, HandleReward(d) \/ HandleTransition(d)
      PROVE  UNCHANGED << ringBuffer, head, count, published >>
  BY <1>4 DEF HandleReward, HandleTransition
<1>5. UNCHANGED orchVars => UNCHANGED << ringBuffer, head, count, published >>
  BY DEF orchVars, busVars
<1> QED
  BY <1>1, <1>2, <1>3, <1>4, <1>5 DEF Next

LEMMA RingRead ==
  ASSUME OrchInv, RingOK, NEW limit \in Int
  PROVE  GetRecentEvents(limit) = Newest(limit)
<1>1. /\ Len(published) \in Nat /\ head \in Slots /\ count \in 0 .. RingSize
      /\ RingSize \in Nat \ {0}
  BY BusAssumption DEF OrchInv, Types, BusTypeOK
<1>2. count = IF Len(published) < RingSize THEN Len(published) ELSE RingSize
  BY DEF RingOK
<1>3. CASE limit <= 0 \/ count = 0
  <2> DEFINE m == IF limit <= 0 THEN 0 ELSE IF limit > count THEN count ELSE limit
  <2>1. m = 0
    BY <1>1, <1>3
  <2>2. GetRecentEvents(limit) = << >>
    BY <1>3 DEF GetRecentEvents
  <2>3. Newest(limit) = [i \in 1 .. m |-> Len(published) - m + i]
    BY <1>2 DEF Newest
  <2> HIDE DEF m
  <2>4. [i \in 1 .. m |-> Len(published) - m + i] = << >>
    BY <2>1
  <2> QED
    BY <2>2, <2>3, <2>4
<1>4. CASE ~ (limit <= 0 \/ count = 0)
  <2> DEFINE n == IF limit > count THEN count ELSE limit
             start == (head - n + RingSize) % RingSize
  <2>1. GetRecentEvents(limit) = [i \in 1 .. n |-> ringBuffer[(start + i - 1) % RingSize]]
    BY <1>4 DEF GetRecentEvents
  <2>2. Newest(limit) = [i \in 1 .. n |-> Len(published) - n + i]
    BY <1>2, <1>4 DEF Newest
  <2>3. n \in 1 .. count
    BY <1>1, <1>4
  <2>4. start = Back(n)
    BY <1>1, <2>3, WrapBack DEF Back
  <2> HIDE DEF n, start
  <2>5. ASSUME NEW i \in 1 .. n
        PROVE  ringBuffer[(start + i - 1) % RingSize] = Len(published) - n + i
    <3>1. n - i + 1 \in 1 .. count
      BY <1>1, <2>3
    <3>2. (start + i - 1) % RingSize = Back(n - i + 1)
      <4>1. start \in Slots /\ i \in 1 .. RingSize
        BY <1>1, <2>3, <2>4 DEF Back, Slots
      <4>2. (start + i - 1) % RingSize
              = IF start + i - 1 < RingSize THEN start + i - 1 ELSE start + i - 1 - RingSize
        BY <4>1, WrapFrom
      <4> QED
        BY <1>1, <2>3, <2>4, <4>2 DEF Back, Slots
    <3>3. ringBuffer[Back(n - i + 1)] = Len(published) - (n - i + 1) + 1
      BY <3>1 DEF RingOK
    <3> QED
      BY <1>1, <2>3, <3>2, <3>3
  <2> QED
    BY <2>1, <2>2, <2>5
<1> QED
  BY <1>3, <1>4

\* However often the ring has wrapped, GetRecentEvents returns the newest
\* events in the order of their publication, all of them that were asked for
\* and that the ring can hold (event_bus.go:126-145).
THEOREM RecentEventsAreNewest ==
  Spec => [](\A limit \in Int : GetRecentEvents(limit) = Newest(limit))
<1>1. Spec => []RingOK
  BY RingInit, RingStep, OrchInvariance, PTL DEF Spec
<1>2. OrchInv /\ RingOK => \A limit \in Int : GetRecentEvents(limit) = Newest(limit)
  BY RingRead
<1> QED
  BY <1>1, <1>2, OrchInvariance, PTL

-------------------------------------------------------------------------------
(* Whoever is subscribed is running: Stop takes all subscriptions away,    *)
(* those of other instances too, and an instance subscribes but once.      *)

SubscribedRun ==
  \A t \in EventTypes : \A o \in subscribers[t] : life[o] = "running"

LEMMA SubscribedStep == OrchInv /\ SubscribedRun /\ [Next]_orchVars => SubscribedRun'
<1> SUFFICES ASSUME OrchInv, SubscribedRun, [Next]_orchVars PROVE SubscribedRun'
  OBVIOUS
<1>0. /\ subscribers \in [EventTypes -> SUBSET Listeners]
      /\ life \in [Listeners -> {"unborn", "running", "stopping", "stopped"}]
  BY DEF OrchInv, Types, BusTypeOK
<1>1. ASSUME NEW o \in Listeners, NewOrchestrator(o) PROVE SubscribedRun'
  <2>1. /\ life' = [life EXCEPT ![o] = "running"]
        /\ subscribers' = [t \in EventTypes |-> subscribers[t] \cup {o}]
    BY <1>1 DEF NewOrchestrator, SubscribeAll
  <2> QED
    BY <1>0, <2>1 DEF SubscribedRun
<1>2. ASSUME NEW o \in Listeners, Stop(o) PROVE SubscribedRun'
  BY <1>2 DEF Stop, ClearSubscribers, SubscribedRun
<1>3. ASSUME NEW o \in Listeners, StopReturns(o) PROVE SubscribedRun'
  <2>1. /\ life[o] = "stopping" /\ life' = [life EXCEPT ![o] = "stopped"]
        /\ subscribers' = subscribers
    BY <1>3 DEF StopReturns, busVars
  <2> QED
    BY <1>0, <2>1 DEF SubscribedRun
<1>4. ASSUME UNCHANGED << subscribers, life >> PROVE SubscribedRun'
  BY <1>4 DEF SubscribedRun
<1>5. ASSUME NEW t \in EventTypes, NEW complete \in BOOLEAN,
             PublishEvent(t, complete)
      PROVE  UNCHANGED << subscribers, life >>
  BY <1>5 DEF PublishEvent, Publish
<1>6. ASSUME NEW d \in pending, HandleReward(d) \/ HandleTransition(d)
      PROVE  UNCHANGED << subscribers, life >>
  BY <1>6 DEF HandleReward, HandleTransition
<1>7. UNCHANGED orchVars => UNCHANGED << subscribers, life >>
  BY DEF orchVars, busVars
<1> QED
  BY <1>1, <1>2, <1>3, <1>4, <1>5, <1>6, <1>7 DEF Next

\* No ghosts: an instance that is not running is given nothing that is
\* published from then on; what becomes pending for it is the second half of a
\* handler that was dispatched before Stop (event_bus.go:79-84).
THEOREM StoppedHearNothingNew ==
  Spec => [][\A d \in pending' \ pending :
               life[d.to] # "running" => d.event \in Events]_orchVars
<1> DEFINE Old == \A d \in pending' \ pending : life[d.to] # "running" => d.event \in Events
<1>1. ASSUME OrchInv, SubscribedRun, [Next]_orchVars PROVE Old \/ UNCHANGED orchVars
  <2>1. ASSUME NEW t \in EventTypes, NEW complete \in BOOLEAN,
               PublishEvent(t, complete)
        PROVE  Old
    <3>1. pending' = pending \cup
            {[event |-> Len(published) + 1, to |-> l, step |-> "start"] : l \in subscribers[t]}
      BY <2>1 DEF PublishEvent, Publish
    <3>2. \A d \in pending' \ pending : d.to \in subscribers[t]
      BY <3>1
    <3> QED
      BY <1>1, <3>2 DEF SubscribedRun
  <2>2. ASSUME NEW d \in pending, HandleReward(d) \/ HandleTransition(d) PROVE Old
    <3>1. d.event \in Events /\ d \in Deliveries
      BY <1>1 DEF OrchInv, Types, BusTypeOK, PendingOK
    <3>2. \A e \in pending' \ pending : e = [d EXCEPT !.step = "finish"]
      BY <2>2 DEF HandleReward, HandleTransition
    <3>3. [d EXCEPT !.step = "finish"].event = d.event
      BY <3>1 DEF Deliveries
    <3> QED
      BY <3>1, <3>2, <3>3
  <2>3. ASSUME NEW o \in Listeners, NewOrchestrator(o) \/ Stop(o) \/ StopReturns(o) PROVE Old
    <3>1. pending' = pending
      BY <2>3 DEF NewOrchestrator, Stop, StopReturns, SubscribeAll, ClearSubscribers, busVars
    <3> QED
      BY <3>1
  <2> QED
    BY <1>1, <2>1, <2>2, <2>3 DEF Next
<1>2. Init => SubscribedRun
  BY DEF Init, BusInit, SubscribedRun
<1>3. Spec => []SubscribedRun
  BY <1>2, SubscribedStep, OrchInvariance, PTL DEF Spec
<1>4. OrchInv /\ SubscribedRun /\ [Next]_orchVars => [Old]_orchVars
  BY <1>1
<1> QED
  BY <1>3, <1>4, OrchInvariance, PTL DEF Spec
===============================================================================
