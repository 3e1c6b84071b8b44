------------------------------- MODULE Orchestrator -------------------------------
(***************************************************************************)
(* The orchestrator (orchestrator/orchestrator.go): a state machine driven *)
(* by the event bus, of which several instances may follow one another on  *)
(* one bus (Stop, then New).                                               *)
(*                                                                         *)
(* Handlers run in the bus's goroutines.  The handlers of the verification *)
(* events first update the Q-table, if the instance has a skill store and  *)
(* the event's data names a state and an action, and then the state.  Stop *)
(* clears the bus's subscribers, all of them, and then waits for the write *)
(* queue to drain, which the module DBWriterQueue models.                  *)
(***************************************************************************)
EXTENDS EventBus

VARIABLES
  life,     (* "unborn", "running", "stopping" or "stopped"                *)
  state,    (* Orchestrator.state of each instance                         *)
  stores,   (* the instances that were given a skill store                 *)
  named,    (* the events whose data names a state and an action           *)
  updates,  (* history: calls of UpdateQValue for each event               *)
  audience, (* history: the instances that each event was dispatched to    *)
  serial    (* history: each event was published with no delivery pending  *)

histVars == << updates, audience, serial >>
orchVars == << busVars, life, state, stores, named, histVars >>

\* The target of each handler.  "verification_failed" stands for an event
\* without, "failed_critically" for one with the safe_mode flag.
Target ==
  [anomaly_detected    |-> "analyzing",
   action_recommended  |-> "approving",
   action_approved     |-> "executing",
   action_executed     |-> "verifying",
   verification_passed |-> "idle",
   verification_failed |-> "idle",
   failed_critically   |-> "safe_mode",
   safe_mode_triggered |-> "safe_mode"]

ASSUME OrchestratorEvents == EventTypes \subseteq DOMAIN Target

Verdicts == {"verification_passed", "verification_failed", "failed_critically"}

States == {"idle", "analyzing", "approving", "executing", "verifying", "safe_mode"}

-------------------------------------------------------------------------------

Init ==
  /\ BusInit
  /\ life = [o \in Listeners |-> "unborn"]
  /\ state = [o \in Listeners |-> "idle"]
  /\ stores \in SUBSET Listeners
  /\ named = {}
  /\ updates = [e \in 1 .. MaxEvents |-> 0]
  /\ audience = [e \in 1 .. MaxEvents |-> {}]
  /\ serial = TRUE

\* NewOrchestrator subscribes a handler to every event type.
NewOrchestrator(o) ==
  /\ life[o] = "unborn"
  /\ life' = [life EXCEPT ![o] = "running"]
  /\ SubscribeAll(o)
  /\ UNCHANGED << state, stores, named, histVars >>

\* The data of an event other than a verdict is not looked at.
PublishEvent(t, complete) ==
  /\ Publish(t)
  /\ named' = IF complete THEN named \cup {Len(published')} ELSE named
  /\ audience' = [audience EXCEPT ![Len(published')] = subscribers[t]]
  /\ serial' = (serial /\ pending = {})
  /\ UNCHANGED << life, state, stores, updates >>

\* What the handler of a verdict asks for before it calls UpdateQValue.
Rewards(d) ==
  published[d.event] \in Verdicts /\ d.event \in named /\ d.to \in stores

\* Seeded fault: the handler does not go on after the reward.
HandleRewardAgain(d) ==
  /\ d \in pending /\ d.step = "start"
  /\ Rewards(d)
  /\ updates' = [updates EXCEPT ![d.event] = @ + 1]
  /\ UNCHANGED << busVars, life, state, stores, named, audience, serial >>

\* UpdateQValue, in the handler of a verdict; its error is ignored.
HandleReward(d) ==
  /\ d \in pending /\ d.step = "start"
  /\ Rewards(d)
  /\ pending' = (pending \ {d}) \cup {[d EXCEPT !.step = "finish"]}
  /\ updates' = [updates EXCEPT ![d.event] = @ + 1]
  /\ UNCHANGED << subscribers, ringBuffer, head, count, published, life, state,
                  stores, named, audience, serial >>

\* Seeded faults: a verdict's handler returns before the reward; safe mode
\* is never left.
HandleTransitionEarly(d) ==
  /\ d \in pending
  /\ pending' = pending \ {d}
  /\ state' = [state EXCEPT ![d.to] = Target[published[d.event]]]
  /\ UNCHANGED << subscribers, ringBuffer, head, count, published, life, stores,
                  named, histVars >>

HandleTransitionSticky(d) ==
  /\ d \in pending
  /\ d.step = "finish" \/ ~Rewards(d)
  /\ pending' = pending \ {d}
  /\ state' = [state EXCEPT ![d.to] = IF @ = "safe_mode" THEN @
                                      ELSE Target[published[d.event]]]
  /\ UNCHANGED << subscribers, ringBuffer, head, count, published, life, stores,
                  named, histVars >>

\* TransitionTo, the end of every handler.
HandleTransition(d) ==
  /\ d \in pending
  /\ d.step = "finish" \/ ~Rewards(d)
  /\ pending' = pending \ {d}
  /\ state' = [state EXCEPT ![d.to] = Target[published[d.event]]]
  /\ UNCHANGED << subscribers, ringBuffer, head, count, published, life, stores,
                  named, histVars >>

Stop(o) ==
  /\ life[o] = "running"
  /\ life' = [life EXCEPT ![o] = "stopping"]
  /\ ClearSubscribers
  /\ UNCHANGED << state, stores, named, histVars >>

StopReturns(o) ==
  /\ life[o] = "stopping"
  /\ life' = [life EXCEPT ![o] = "stopped"]
  /\ UNCHANGED << busVars, state, stores, named, histVars >>

Next ==
  \/ \E o \in Listeners : NewOrchestrator(o) \/ Stop(o) \/ StopReturns(o)
  \/ \E t \in EventTypes : PublishEvent(t, FALSE)
  \/ \E t \in EventTypes \cap Verdicts : PublishEvent(t, TRUE)
  \/ \E d \in pending : HandleReward(d) \/ HandleTransition(d)

Spec == Init /\ [][Next]_orchVars

-------------------------------------------------------------------------------
(* Properties.                                                             *)

\* Types of the state; no verdict is rewarded more often than there are
\* instances with a store.
OrchTypeOK ==
  /\ BusTypeOK
  /\ life \in [Listeners -> {"unborn", "running", "stopping", "stopped"}]
  /\ state \in [Listeners -> States]
  /\ stores \subseteq Listeners
  /\ named \subseteq Events
  /\ updates \in [1 .. MaxEvents -> 0 .. Cardinality(stores)]
  /\ audience \in [1 .. MaxEvents -> SUBSET Listeners]
  /\ serial \in BOOLEAN

Last == published[Len(published)]

\* Every delivery is made once: when the handlers of an event are done, the
\* Q-table was updated once for each instance with a store that was subscribed
\* when it was published, however instances are started and stopped meanwhile,
\* if the event is a verdict that names a state and an action; and not at all
\* if it is not.
RewardedOncePerInstance ==
  \A e \in Events :
    (\A d \in pending : d.event # e) =>
      updates[e] = IF published[e] \in Verdicts /\ e \in named
                   THEN Cardinality(audience[e] \cap stores) ELSE 0

\* When events are published one at a time, each after the handlers of the
\* one before are done, every instance that was subscribed for the last event
\* is in the state that this event calls for.
SerialEventsDriveState ==
  serial /\ pending = {} /\ published # << >> =>
    \A o \in audience[Len(published)] : state[o] = Target[Last]
===============================================================================
