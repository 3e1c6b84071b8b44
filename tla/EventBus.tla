--------------------------------- MODULE EventBus ---------------------------------
(***************************************************************************)
(* The event bus (orchestrator/event_bus.go): a map of subscribers, a ring *)
(* of the last events, and a goroutine for each delivery.                  *)
(*                                                                         *)
(* An event is identified by its place in the order of publication; its    *)
(* payload is cloned for the ring and for every subscriber, so deliveries  *)
(* share nothing.  A delivery is pending from the moment Publish copies    *)
(* the list of subscribers, under the lock: clearing the subscribers later *)
(* does not take it back, and pending deliveries run in any order.         *)
(***************************************************************************)
EXTENDS Integers, Sequences, FiniteSets

CONSTANTS
  EventTypes,   (* event types                                             *)
  Listeners,    (* callbacks that may subscribe                            *)
  RingSize,     (* DefaultRingBufferSize: 256 in the code                  *)
  MaxEvents     (* bound: events published in one behaviour                *)

ASSUME BusAssumption ==
  /\ IsFiniteSet(Listeners)
  /\ RingSize \in Nat \ {0}
  /\ MaxEvents \in Nat

VARIABLES
  subscribers,  (* EventBus.subscribers: listeners of each type            *)
  ringBuffer,   (* EventBus.ringBuffer: event numbers, 0 for nil           *)
  head,         (* EventBus.head                                           *)
  count,        (* EventBus.count                                          *)
  published,    (* history: the types of the events, in order              *)
  pending       (* deliveries whose goroutine has not finished             *)

busVars == << subscribers, ringBuffer, head, count, published, pending >>

Slots      == 0 .. RingSize - 1
Events     == 1 .. Len(published)
Deliveries == [event : 1 .. MaxEvents, to : Listeners, step : {"start", "finish"}]

BusInit ==
  /\ subscribers = [t \in EventTypes |-> {}]
  /\ ringBuffer = [i \in Slots |-> 0]
  /\ head = 0
  /\ count = 0
  /\ published = << >>
  /\ pending = {}

\* Subscribe, called for every event type.
SubscribeAll(l) ==
  /\ subscribers' = [t \in EventTypes |-> subscribers[t] \cup {l}]
  /\ UNCHANGED << ringBuffer, head, count, published, pending >>

ClearSubscribers ==
  /\ subscribers' = [t \in EventTypes |-> {}]
  /\ UNCHANGED << ringBuffer, head, count, published, pending >>

Publish(t) ==
  /\ Len(published) < MaxEvents
  /\ published' = Append(published, t)
  /\ ringBuffer' = [ringBuffer EXCEPT ![head] = Len(published) + 1]
  /\ head' = (head + 1) % RingSize
  /\ count' = IF count < RingSize THEN count + 1 ELSE count
  /\ pending' = pending \cup
       {[event |-> Len(published) + 1, to |-> l, step |-> "start"] :
          l \in subscribers[t]}
  /\ UNCHANGED subscribers

\* GetRecentEvents: at most limit events of the ring, from the oldest.
GetRecentEvents(limit) ==
  IF limit <= 0 \/ count = 0 THEN << >>
  ELSE LET n == IF limit > count THEN count ELSE limit
           start == (head - n + RingSize) % RingSize
       IN  [i \in 1 .. n |-> ringBuffer[(start + i - 1) % RingSize]]

-------------------------------------------------------------------------------
(* Properties.                                                             *)

\* Types of the state; the ring's indices stay within it.
BusTypeOK ==
  /\ subscribers \in [EventTypes -> SUBSET Listeners]
  /\ ringBuffer \in [Slots -> 0 .. MaxEvents]
  /\ head \in Slots
  /\ count \in 0 .. RingSize
  /\ published \in Seq(EventTypes) /\ Len(published) <= MaxEvents
  /\ pending \subseteq Deliveries

\* The last events published, at most limit and what the ring has room for.
Newest(limit) ==
  LET held == IF Len(published) < RingSize THEN Len(published) ELSE RingSize
      n == IF limit <= 0 THEN 0 ELSE IF limit > held THEN held ELSE limit
  IN  [i \in 1 .. n |-> Len(published) - n + i]
===============================================================================
