--------------------------- MODULE MCQueueDelivery ---------------------------
(* QueueDelivery on a small instance, in three scenarios that leave some   *)
(* of its actors idle.                                                     *)
EXTENDS QueueDelivery, TLC

VARIABLE scenario

AtMost(n, actors, states, idle) ==
  Cardinality({a \in actors : states[a] # idle}) =< n

OneDelivery ==
  /\ AtMost(1, Deliveries, delivery, NoDelivery)
  /\ AtMost(1, Senders, sender, NoRun)

Within ==
  CASE \* two Ticks send two deliveries
       scenario = "send" -> AtMost(0, AllConsumers, consumer, NoInvocation)
    [] \* two invocations of the platform's consumer, while no Tick sends
       scenario = "consume" ->
         /\ OneDelivery
         /\ AtMost(0, WebsiteConsumers, consumer, NoInvocation)
         /\ \/ AtMost(0, Senders, sender, NoRun)
            \/ AtMost(0, Consumers, consumer, NoInvocation)
    [] \* a Tick and an invocation, the platform's or the website's; after a
       \* switch no Tick sends
       scenario = "both" ->
         /\ OneDelivery
         /\ AtMost(1, AllConsumers, consumer, NoInvocation)
         /\ switches = 0 \/ AtMost(0, Senders, sender, NoRun)
         /\ \A d \in Deliveries : reservation[d][2] = "none"

MCInit == scenario \in {"send", "consume", "both"} /\ Init
MCNext == Next /\ UNCHANGED scenario /\ Within'
MCSpec == MCInit /\ [][MCNext]_<<vars, scenario>>

Symmetry ==
  Permutations(Deliveries) \cup Permutations(Senders)
    \cup Permutations(Consumers) \cup Permutations(WebsiteConsumers)
=============================================================================
