---------------------------- MODULE Links_proofs ----------------------------
(***************************************************************************)
(* Proofs about the components that pass messages between the server and  *)
(* the world: the webhook notifier (Webhook), the agents' connections      *)
(* (AgentLink), the dashboards' hub (UserHub) and the samples that agents  *)
(* send (MetricsService).                                                  *)
(***************************************************************************)
EXTENDS UserHub, AgentLink, Webhook, MetricsService, FiniteSetTheorems,
        WellFoundedInduction, SequenceTheorems, TLAPS

-----------------------------------------------------------------------------
(* The webhook notifier.                                                   *)

(* The queue of notifier.go never holds more than its channel does.        *)
QueueHasRoom == Len(queue) <= QueueRoom

(* An event in Handle was published, and is in a crowd if it is not alone. *)
HandlersCrowd ==
    \A p \in InHandle :
        /\ handling[p].event \in Events
        /\ \A q \in InHandle : p # q => handling[p].event \in crowded

(* Who is alone in Handle finds the room it made (notifier.go:127-146).    *)
EvictionMakesRoom ==
    \A p \in Publishers : handling[p].at = "again" =>
        handling[p].event \in crowded \/ Len(queue) < QueueRoom

WebhookInv ==
    /\ WebhookTypeOK
    /\ QueueHasRoom
    /\ HandlersCrowd
    /\ EvictionMakesRoom
    /\ NewestGoesOnlyInACrowd

(* A handler's place and event, in the terms of Handle's steps.            *)
Handlings == [at : {"out", "offer", "evict", "again"}, event : 0..MaxNews]

(* The notifier starts with an empty queue.                                *)
LEMMA WebhookStarts == WebhookInit => WebhookInv
  BY WebhookAssumption DEF WebhookInit, WebhookInv, WebhookTypeOK, QueueHasRoom,
     HandlersCrowd, EvictionMakesRoom, NewestGoesOnlyInACrowd, InHandle, NotHandling,
     Events

(* What the queue becomes: shorter by its head, or longer by an event.     *)
LEMMA QueueSteps ==
  ASSUME queue \in Seq(Events)
  PROVE  /\ Len(queue) \in Nat
         /\ queue # <<>> => /\ Head(queue) \in Events /\ Tail(queue) \in Seq(Events)
                            /\ Len(Tail(queue)) = Len(queue) - 1
         /\ queue = <<>> => Len(queue) = 0
         /\ \A e \in Events : /\ Append(queue, e) \in Seq(Events)
                              /\ Len(Append(queue, e)) = Len(queue) + 1
  OBVIOUS

(* Handle's steps: each keeps the notifier's invariant.                    *)
LEMMA HandleKeeps ==
  ASSUME WebhookInv, NEW p \in Publishers, HandleStep(p)
  PROVE  WebhookInv'
<1>0. /\ QueueRoom \in Nat \ {0} /\ MaxNews \in Nat
      /\ queue \in Seq(Events) /\ published \in 0..MaxNews
      /\ handling \in [Publishers -> Handlings]
      /\ posting \in 0..MaxNews /\ enabled \in BOOLEAN
      /\ crowded \subseteq Events /\ refused \subseteq Events
      /\ \A q \in Publishers : handling[q] \in Handlings
  BY WebhookAssumption DEF WebhookInv, WebhookTypeOK, Handlings
<1>1. CASE HandleEnter(p)
  <2>1. handling' \in [Publishers -> Handlings]
    BY <1>0, <1>1 DEF HandleEnter, Handlings
  <2>2. crowded' \subseteq Events
    <3>1. /\ published + 1 \in Events
          /\ \A q \in InHandle : handling[q].event \in Events
      BY <1>0, <1>1 DEF HandleEnter, WebhookInv, HandlersCrowd, Events
    <3>2. crowded' \subseteq crowded \cup {published + 1} \cup {handling[q].event : q \in InHandle}
      BY <1>1 DEF HandleEnter
    <3> HIDE DEF Events
    <3> QED
      BY <1>0, <3>1, <3>2
  <2>3. WebhookTypeOK'
    BY <1>0, <1>1, <2>1, <2>2 DEF HandleEnter, WebhookTypeOK, Handlings
  <2>4. HandlersCrowd'
    BY <1>0, <1>1 DEF HandleEnter, WebhookInv, HandlersCrowd, InHandle, Events, Handlings
  <2> QED
    BY <1>0, <1>1, <2>3, <2>4 DEF HandleEnter, WebhookInv, QueueHasRoom, EvictionMakesRoom,
       NewestGoesOnlyInACrowd
<1>2. CASE Offer(p)
  <2>1. handling[p].event \in Events
    BY <1>0, <1>2 DEF Offer, WebhookInv, HandlersCrowd, InHandle
  <2>2. handling' \in [Publishers -> Handlings]
    BY <1>0, <1>2, SMTT(30) DEF Offer, Handlings, Leave, MoveOn, NotHandling
  <2>3. queue' \in Seq(Events) /\ QueueHasRoom'
    BY <1>0, <1>2, <2>1, QueueSteps DEF Offer, WebhookInv, QueueHasRoom
  <2>4. HandlersCrowd'
    BY <1>0, <1>2, <2>1, SMTT(30) DEF Offer, WebhookInv, HandlersCrowd, InHandle, Handlings, Leave,
       MoveOn, NotHandling
  <2>5. EvictionMakesRoom'
    <3> SUFFICES ASSUME NEW q \in Publishers, handling'[q].at = "again"
                 PROVE  handling'[q].event \in crowded' \/ Len(queue') < QueueRoom'
      BY DEF EvictionMakesRoom
    <3>1. q # p /\ handling[q] = handling'[q]
      BY <1>0, <1>2, <2>2 DEF Offer, Handlings, Leave, MoveOn, NotHandling
    <3>2. q \in InHandle /\ p \in InHandle
      BY <1>2, <3>1 DEF InHandle, Offer
    <3> QED
      BY <1>2, <3>1, <3>2 DEF Offer, WebhookInv, HandlersCrowd
  <2> QED
    BY <1>0, <1>2, <2>2, <2>3, <2>4, <2>5 DEF Offer, WebhookInv, WebhookTypeOK, Handlings,
       NewestGoesOnlyInACrowd
<1>3. CASE Evict(p)
  <2>1. queue' \in Seq(Events) /\ Len(queue') < QueueRoom
    BY <1>0, <1>3, QueueSteps DEF Evict, WebhookInv, QueueHasRoom
  <2>2. handling' \in [Publishers -> Handlings]
    BY <1>0, <1>3 DEF Evict, Handlings, MoveOn
  <2>3. HandlersCrowd'
    BY <1>0, <1>3 DEF Evict, WebhookInv, HandlersCrowd, InHandle, Handlings, MoveOn
  <2> QED
    BY <1>0, <1>3, <2>1, <2>2, <2>3, QueueSteps DEF Evict, WebhookInv, WebhookTypeOK, Handlings,
       NewestGoesOnlyInACrowd, QueueHasRoom, EvictionMakesRoom
<1>4. CASE Insist(p)
  <2>1. handling[p].event \in Events
    BY <1>0, <1>4 DEF Insist, WebhookInv, HandlersCrowd, InHandle
  <2>2. handling' \in [Publishers -> Handlings]
    BY <1>0, <1>4 DEF Insist, Handlings, Leave, NotHandling
  <2>3. queue' \in Seq(Events) /\ QueueHasRoom'
    BY <1>0, <1>4, <2>1, QueueSteps, SMTT(30) DEF Insist, WebhookInv, QueueHasRoom
  <2>4. HandlersCrowd'
    BY <1>0, <1>4, <2>1 DEF Insist, WebhookInv, HandlersCrowd, InHandle, Handlings, Leave,
       NotHandling
  <2>5. EvictionMakesRoom'
    BY <1>0, <1>4, <2>1 DEF Insist, WebhookInv, HandlersCrowd, EvictionMakesRoom, InHandle,
       Handlings, Leave, NotHandling
  <2>6. refused' \subseteq Events /\ NewestGoesOnlyInACrowd'
    BY <1>0, <1>4, <2>1 DEF Insist, WebhookInv, EvictionMakesRoom, NewestGoesOnlyInACrowd
  <2> QED
    BY <1>0, <1>4, <2>2, <2>3, <2>4, <2>5, <2>6 DEF Insist, WebhookInv, WebhookTypeOK, Handlings
<1> QED
  BY <1>1, <1>2, <1>3, <1>4 DEF HandleStep

(* The worker only shortens the queue, and the settings touch nothing else.*)
LEMMA WebhookOthersKeep ==
  ASSUME WebhookInv, TakeEvent \/ Post \/ SaveSettings \/ UNCHANGED webhookVars
  PROVE  WebhookInv'
<1>0. /\ QueueRoom \in Nat \ {0} /\ MaxNews \in Nat /\ queue \in Seq(Events)
  BY WebhookAssumption DEF WebhookInv, WebhookTypeOK
<1>1. CASE TakeEvent
  <2>1. /\ queue' \in Seq(Events) /\ Len(queue') <= Len(queue) /\ Len(queue') \in Nat
        /\ Len(queue) \in Nat /\ posting' \in 0..MaxNews
    BY <1>0, <1>1, QueueSteps DEF TakeEvent, Events, WebhookInv, WebhookTypeOK
  <2> QED
    BY <1>0, <1>1, <2>1 DEF TakeEvent, WebhookInv, WebhookTypeOK, QueueHasRoom, HandlersCrowd,
       EvictionMakesRoom, NewestGoesOnlyInACrowd, InHandle
<1>2. CASE Post
  BY <1>0, <1>2 DEF Post, WebhookInv, WebhookTypeOK, QueueHasRoom, HandlersCrowd,
     EvictionMakesRoom, NewestGoesOnlyInACrowd, InHandle
<1>3. CASE SaveSettings
  BY <1>0, <1>3 DEF SaveSettings, WebhookInv, WebhookTypeOK, QueueHasRoom, HandlersCrowd,
     EvictionMakesRoom, NewestGoesOnlyInACrowd, InHandle
<1>4. CASE UNCHANGED webhookVars
  BY <1>4 DEF webhookVars, WebhookInv, WebhookTypeOK, QueueHasRoom, HandlersCrowd,
     EvictionMakesRoom, NewestGoesOnlyInACrowd, InHandle
<1> QED
  BY <1>1, <1>2, <1>3, <1>4

(* All of the notifier's steps together.                                   *)
LEMMA WebhookKeeps == WebhookInv /\ [WebhookNext]_webhookVars => WebhookInv'
  BY HandleKeeps, WebhookOthersKeep DEF WebhookNext

(* For any number of publishers and any room: an event that finds no room  *)
(* in the queue was handled while another was (notifier.go:121-146).       *)
THEOREM NewestIsKept == WebhookSpec => []NewestGoesOnlyInACrowd
<1>1. WebhookInv => NewestGoesOnlyInACrowd
  BY DEF WebhookInv
<1> QED
  BY WebhookStarts, WebhookKeeps, <1>1, PTL DEF WebhookSpec

-----------------------------------------------------------------------------
(* The agents' connections.                                                *)

(* A handler that has set the row and not yet reset it (client.go:60-71).  *)
Accountable(i) == serve[i] \in {"online", "read", "leave", "offline"}

(* Connections are dialled one after another, and pumped once dialled.     *)
DialledInOrder ==
    /\ \A i \in Conns : i > cur => serve[i] = "none"
    /\ loop = "pumps" => cur \in Conns

(* Whoever waits to be registered has never been the client, and waits     *)
(* once (router.go:39-48).                                                 *)
RegistersOnce ==
    /\ \A a, b \in DOMAIN registerQ : registerQ[a] = registerQ[b] => a = b
    /\ \A a \in DOMAIN registerQ : registerQ[a] # agents /\ registerQ[a] \notin ended
    /\ \A i \in Conns : serve[i] \in {"none", "upgraded", "online"} =>
          /\ i # agents /\ i \notin ended
          /\ \A a \in DOMAIN registerQ : registerQ[a] # i

(* is_online is true for a reason: the row follows the handlers.           *)
OnlineHasAHandler == online => forgotten \/ \E i \in Conns : Accountable(i)

(* Unless handlers overlapped, there is one at a time, and the row is its. *)
OneHandlerAtATime ==
    overlap \/ /\ \A i, j \in Conns : i = j \/ serve[i] \in {"none", "gone"}
                                          \/ serve[j] \in {"none", "gone"}
               /\ (\E i \in Conns : Accountable(i)) => online

LinkInv ==
    /\ LinkTypeOK
    /\ registerQ \in Seq(Conns) /\ unregisterQ \in Seq(Conns)
    /\ DialledInOrder
    /\ RegistersOnce
    /\ OnlineHasAHandler
    /\ OneHandlerAtATime
    /\ RouterClosesOnce

(* Nothing is dialled and the row says offline.                            *)
LEMMA LinkStarts == LinkInit => LinkInv
<1> SUFFICES ASSUME LinkInit PROVE LinkInv
  OBVIOUS
<1>0. MaxConns \in Nat \ {0} /\ LinkInbox \in Nat \ {0} /\ 0 \notin Conns
  BY AgentLinkAssumption DEF Conns
<1>1. LinkTypeOK /\ registerQ \in Seq(Conns) /\ unregisterQ \in Seq(Conns)
  <2>1. {secret, online, overlap, forgotten} \subseteq BOOLEAN
    BY DEF LinkInit
  <2>2. 0 \in 0..MaxConns /\ Len(<<>>) <= LinkInbox /\ <<>> \in Seq(Conns)
    BY <1>0
  <2> QED
    BY <2>1, <2>2 DEF LinkInit, LinkTypeOK
<1>2. DialledInOrder /\ OnlineHasAHandler /\ OneHandlerAtATime /\ RouterClosesOnce
  <2>1. \A i \in Conns : serve[i] = "none" /\ ~Accountable(i)
    BY DEF LinkInit, Accountable
  <2>2. DialledInOrder /\ OnlineHasAHandler /\ RouterClosesOnce
    BY <2>1 DEF LinkInit, DialledInOrder, OnlineHasAHandler, RouterClosesOnce
  <2>3. OneHandlerAtATime
    BY <2>1 DEF OneHandlerAtATime
  <2> QED
    BY <2>2, <2>3
<1>3. RegistersOnce
  BY <1>0 DEF LinkInit, RegistersOnce
<1> QED
  BY <1>1, <1>2, <1>3 DEF LinkInv

(* The agent's pumps, its closers and the network change nothing on the    *)
(* server; they keep the types.                                            *)
LEMMA AgentKeeps ==
  ASSUME LinkInv,
         \/ AgentStep \/ \E i \in Conns : CloserWakes(i) \/ CloserCloses(i) \/ LinkBreaks(i)
         \/ RotateSecret \/ UNCHANGED linkVars
  PROVE  LinkInv'
<1>0. /\ MaxConns \in Nat \ {0} /\ LinkTypeOK /\ cur \in 0..MaxConns
      /\ loop = "pumps" => cur \in Conns
  BY AgentLinkAssumption DEF LinkInv, LinkTypeOK, DialledInOrder
<1>1. UNCHANGED <<serverVars, cur>> /\ (loop' = "pumps" => loop = "pumps")
  BY DEF AgentStep, DialFails, ReadNext, ReadReturns, WriteOrPing, PumpsExited, Redial, Restarted,
     CloserWakes, CloserCloses, LinkBreaks, RotateSecret, PumpOnly, Panic, linkVars, agentVars
<1>2. LinkTypeOK'
  <2>1. CASE DialFails \/ Redial \/ Restarted \/ RotateSecret \/ UNCHANGED linkVars
    BY <1>0, <1>1, <2>1 DEF DialFails, Redial, Restarted, RotateSecret, PumpOnly, linkVars,
       agentVars, serverVars, LinkTypeOK
  <2>2. CASE ReadNext
    BY <1>0, <1>1, <2>2 DEF ReadNext, Pumping, Panic, PumpOnly, serverVars, LinkTypeOK
  <2>3. CASE ReadReturns
    BY <1>0, <1>1, <2>3 DEF ReadReturns, Pumping, PumpOnly, serverVars, LinkTypeOK
  <2>4. CASE WriteOrPing
    BY <1>0, <1>1, <2>4 DEF WriteOrPing, Pumping, Panic, PumpOnly, serverVars, LinkTypeOK
  <2>5. CASE PumpsExited
    BY <1>0, <1>1, <2>5 DEF PumpsExited, Pumping, PumpOnly, serverVars, LinkTypeOK
  <2>6. ASSUME NEW i \in Conns, CloserWakes(i) \/ CloserCloses(i) \/ LinkBreaks(i)
        PROVE  LinkTypeOK'
    BY <1>0, <1>1, <2>6 DEF CloserWakes, CloserCloses, LinkBreaks, agentVars, serverVars, LinkTypeOK
  <2> QED
    BY <2>1, <2>2, <2>3, <2>4, <2>5, <2>6 DEF AgentStep
<1> QED
  BY <1>1, <1>2 DEF LinkInv, DialledInOrder, RegistersOnce, OnlineHasAHandler,
     OneHandlerAtATime, RouterClosesOnce, Accountable, serverVars

(* A dial finds no handler of its connection, and joins those of others.   *)
LEMMA DialKeeps ==
  ASSUME LinkInv, Dial
  PROVE  LinkInv'
<1>0. /\ MaxConns \in Nat \ {0} /\ cur \in 0..MaxConns /\ cur + 1 \in Conns
      /\ serve \in [Conns -> {"none", "upgraded", "online", "read", "leave", "offline", "gone"}]
      /\ serve[cur + 1] = "none"
  <2>1. MaxConns \in Nat \ {0} /\ cur \in 0..MaxConns
    BY AgentLinkAssumption DEF LinkInv, LinkTypeOK
  <2>2. cur + 1 \in Conns /\ cur + 1 > cur
    BY <2>1 DEF Dial, Conns
  <2>3. serve \in [Conns -> {"none", "upgraded", "online", "read", "leave", "offline", "gone"}]
    BY DEF LinkInv, LinkTypeOK
  <2>4. serve[cur + 1] = "none"
    BY <2>2 DEF LinkInv, DialledInOrder
  <2> QED
    BY <2>1, <2>2, <2>3, <2>4
<1>1. /\ serve'[cur + 1] = "upgraded" /\ cur' = cur + 1
      /\ \A i \in Conns : i # cur + 1 => serve'[i] = serve[i]
      /\ \A i \in Conns : Accountable(i)' <=> Accountable(i)
      /\ UNCHANGED <<online, agents, registerQ, unregisterQ, ended, forgotten>>
  BY <1>0 DEF Dial, Accountable
<1>2. LinkTypeOK'
  BY <1>0, <1>1 DEF Dial, LinkInv, LinkTypeOK, Conns
<1>3. DialledInOrder'
  BY <1>0, <1>1 DEF LinkInv, DialledInOrder, Conns
<1>4. RegistersOnce'
  BY <1>0, <1>1 DEF LinkInv, RegistersOnce
<1>5. OnlineHasAHandler'
  BY <1>1 DEF LinkInv, OnlineHasAHandler
<1>6. OneHandlerAtATime'
  <2>1. ASSUME ~overlap'
        PROVE  /\ ~overlap /\ \A i \in Conns : serve[i] \in {"none", "gone"}
    BY <2>1 DEF Dial
  <2> QED
    BY <1>0, <1>1, <2>1 DEF LinkInv, OneHandlerAtATime, Accountable
<1> QED
  BY <1>1, <1>2, <1>3, <1>4, <1>5, <1>6 DEF LinkInv, RouterClosesOnce

(* The server's handler and read pump of one connection.                   *)
LEMMA ServeKeeps ==
  ASSUME LinkInv, NEW i \in Conns, ServerStep(i)
  PROVE  LinkInv'
<1>0. /\ MaxConns \in Nat \ {0} /\ LinkInbox \in Nat \ {0} /\ cur \in 0..MaxConns
      /\ serve \in [Conns -> {"none", "upgraded", "online", "read", "leave", "offline", "gone"}]
      /\ registerQ \in Seq(Conns) /\ unregisterQ \in Seq(Conns)
  BY AgentLinkAssumption DEF LinkInv, LinkTypeOK
<1>1. /\ UNCHANGED <<agentVars, overlap, agents, ended>>
      /\ serve[i] # "none"
      /\ \A j \in Conns : j # i => serve'[j] = serve[j]
      /\ serve'[i] \notin {"none", "upgraded"} \/ serve'[i] = serve[i]
      /\ serve'[i] = "online" => serve[i] \in {"upgraded", "online"}
  BY <1>0 DEF ServerStep, ServeOnline, ServeRegister, ServerReadEnds, ServeUnregister, ServeOffline,
     ServerCloses, ServeTo, serverOnly
<1>2. DialledInOrder'
  BY <1>0, <1>1 DEF LinkInv, DialledInOrder, agentVars, Conns
<1>3. LinkTypeOK' /\ registerQ' \in Seq(Conns) /\ unregisterQ' \in Seq(Conns)
  <2>1. CASE ServeOnline(i)
    BY <1>0, <2>1 DEF ServeOnline, UpdateStatus, ServeTo, serverOnly, agentVars, LinkInv, LinkTypeOK
  <2>2. CASE ServeRegister(i)
    BY <1>0, <2>2 DEF ServeRegister, ServeTo, serverOnly, agentVars, LinkInv, LinkTypeOK
  <2>3. CASE ServerReadEnds(i)
    BY <1>0, <2>3 DEF ServerReadEnds, ServeTo, serverOnly, agentVars, LinkInv, LinkTypeOK
  <2>4. CASE ServeUnregister(i)
    BY <1>0, <2>4 DEF ServeUnregister, ServeTo, serverOnly, agentVars, LinkInv, LinkTypeOK
  <2>5. CASE ServeOffline(i)
    BY <1>0, <2>5 DEF ServeOffline, UpdateStatus, ServeTo, serverOnly, agentVars, LinkInv, LinkTypeOK
  <2>6. CASE ServerCloses(i)
    BY <1>0, <2>6 DEF ServerCloses, ServeTo, serverOnly, agentVars, LinkInv, LinkTypeOK
  <2> QED
    BY <2>1, <2>2, <2>3, <2>4, <2>5, <2>6 DEF ServerStep
<1>4. RegistersOnce'
  <2>1. CASE ServeRegister(i)
    <3>1. /\ serve[i] = "online" /\ serve'[i] = "read"
          /\ registerQ' = Append(registerQ, i)
      BY <1>0, <2>1 DEF ServeRegister, ServeTo
    <3>2. /\ DOMAIN registerQ = 1..Len(registerQ) /\ Len(registerQ) \in Nat
          /\ DOMAIN registerQ' = 1..Len(registerQ) + 1
          /\ registerQ'[Len(registerQ) + 1] = i
          /\ \A a \in 1..Len(registerQ) : registerQ'[a] = registerQ[a]
      BY <1>0, <3>1
    <3> QED
      BY <1>1, <3>1, <3>2 DEF LinkInv, RegistersOnce
  <2>2. CASE ~ServeRegister(i)
    <3>1. registerQ' = registerQ
      BY <2>2 DEF ServerStep, ServeOnline, ServerReadEnds, ServeUnregister, ServeOffline, ServerCloses
    <3> QED
      BY <1>1, <3>1 DEF LinkInv, RegistersOnce
  <2> QED
    BY <2>1, <2>2
<1>5. OnlineHasAHandler' /\ OneHandlerAtATime'
  <2>1. CASE ServeOnline(i)
    <3>1. CASE serve'[i] = "online" /\ online'
      BY <1>1, <2>1, <3>1 DEF ServeOnline, LinkInv, OnlineHasAHandler, OneHandlerAtATime, Accountable
    <3>2. CASE serve'[i] = "gone" /\ online' = online /\ forgotten' = forgotten
      <4>1. \A j \in Conns : Accountable(j)' <=> Accountable(j)
        BY <1>1, <2>1, <3>2 DEF ServeOnline, Accountable
      <4>2. OnlineHasAHandler'
        BY <3>2, <4>1 DEF LinkInv, OnlineHasAHandler
      <4> QED
        BY <1>1, <3>2, <4>1, <4>2 DEF LinkInv, OneHandlerAtATime, agentVars
    <3> QED
      BY <1>0, <2>1, <3>1, <3>2 DEF ServeOnline, ServeTo, UpdateStatus
  <2>2. CASE ServeOffline(i)
    <3>1. serve[i] = "offline" /\ serve'[i] = "gone" /\ ~online'
      BY <1>0, <2>2 DEF ServeOffline, ServeTo, UpdateStatus
    <3> QED
      <4>1. ~overlap => \A j \in Conns : serve'[j] \in {"none", "gone"}
        BY <1>1, <3>1 DEF LinkInv, OneHandlerAtATime
      <4> QED
        BY <1>1, <3>1, <4>1 DEF OnlineHasAHandler, OneHandlerAtATime, Accountable
  <2>3. CASE ServeRegister(i) \/ ServerReadEnds(i) \/ ServeUnregister(i) \/ ServerCloses(i)
    <3>1. UNCHANGED <<online, forgotten>> /\ Accountable(i) /\ Accountable(i)'
      BY <1>0, <2>3 DEF ServeRegister, ServerReadEnds, ServeUnregister, ServerCloses, ServeTo,
         Accountable
    <3>2. serve[i] \notin {"none", "gone"} /\ serve'[i] \notin {"none", "gone"}
      BY <3>1 DEF Accountable
    <3> QED
      BY <1>1, <3>1, <3>2 DEF LinkInv, OnlineHasAHandler, OneHandlerAtATime, Accountable
  <2> QED
    BY <2>1, <2>2, <2>3 DEF ServerStep
<1> QED
  BY <1>1, <1>2, <1>3, <1>4, <1>5 DEF LinkInv, RouterClosesOnce

(* The router, and the kill of the server.                                 *)
LEMMA RouterKeeps ==
  ASSUME LinkInv, RouterRegister \/ RouterUnregister \/ ServerKilled
  PROVE  LinkInv'
<1>0. /\ MaxConns \in Nat \ {0} /\ LinkInbox \in Nat \ {0} /\ cur \in 0..MaxConns
      /\ agents \in 0..MaxConns /\ ended \subseteq Conns
      /\ serve \in [Conns -> {"none", "upgraded", "online", "read", "leave", "offline", "gone"}]
      /\ registerQ \in Seq(Conns) /\ unregisterQ \in Seq(Conns)
      /\ Len(registerQ) <= LinkInbox /\ Len(unregisterQ) <= LinkInbox
  BY AgentLinkAssumption DEF LinkInv, LinkTypeOK
<1>1. CASE RouterRegister
  <2>1. /\ Head(registerQ) \in Conns /\ registerQ' \in Seq(Conns)
        /\ Len(registerQ') \in Nat /\ Len(registerQ) \in Nat
        /\ Len(registerQ') = Len(registerQ) - 1
        /\ DOMAIN registerQ = 1..Len(registerQ) /\ DOMAIN registerQ' = 1..Len(registerQ')
        /\ Head(registerQ) = registerQ[1]
        /\ \A a \in 1..Len(registerQ') : registerQ'[a] = registerQ[a + 1]
    BY <1>0, <1>1 DEF RouterRegister
  <2>2. LinkTypeOK'
    BY <1>0, <1>1, <2>1 DEF RouterRegister, LinkInv, LinkTypeOK, Conns, serverOnly, agentVars
  <2>3. \A a \in 1..Len(registerQ') : /\ a + 1 \in 1..Len(registerQ)
                                      /\ registerQ'[a] # Head(registerQ)
    BY <2>1 DEF LinkInv, RegistersOnce
  <2>4. /\ \A a \in 1..Len(registerQ') : registerQ'[a] # agents' /\ registerQ'[a] \notin ended'
        /\ \A a, b \in 1..Len(registerQ') : registerQ'[a] = registerQ'[b] => a = b
    <3>1. \A a, b \in 1..Len(registerQ') : registerQ[a + 1] = registerQ[b + 1] => a + 1 = b + 1
      BY <2>1, <2>3 DEF LinkInv, RegistersOnce
    <3> QED
      BY <1>1, <2>1, <2>3, <3>1 DEF RouterRegister, LinkInv, RegistersOnce
  <2>5. \A i \in Conns : serve'[i] \in {"none", "upgraded", "online"} =>
          /\ i # agents' /\ i \notin ended'
          /\ \A a \in 1..Len(registerQ') : registerQ'[a] # i
    BY <1>1, <2>1, <2>3 DEF RouterRegister, LinkInv, RegistersOnce
  <2>6. RouterClosesOnce'
    BY <1>1, <2>1 DEF RouterRegister, LinkInv, RegistersOnce, RouterClosesOnce
  <2> QED
    BY <1>0, <1>1, <2>1, <2>2, <2>4, <2>5, <2>6 DEF RouterRegister, LinkInv, DialledInOrder,
       RegistersOnce, OnlineHasAHandler, OneHandlerAtATime, Accountable, serverOnly, agentVars
<1>2. CASE RouterUnregister
  <2>1. /\ unregisterQ' \in Seq(Conns) /\ Len(unregisterQ') <= LinkInbox
    BY <1>0, <1>2 DEF RouterUnregister
  <2>2. /\ agents' = 0 /\ ended' \subseteq ended \cup {agents} /\ ended' \subseteq Conns
        /\ 0 \notin Conns
    BY <1>0, <1>2 DEF RouterUnregister, Conns
  <2>3. LinkTypeOK'
    BY <1>0, <1>2, <2>1, <2>2 DEF RouterUnregister, LinkInv, LinkTypeOK, serverOnly, agentVars
  <2>4. RegistersOnce'
    <3>1. \A a \in DOMAIN registerQ : registerQ[a] \in Conns
      BY <1>0
    <3> QED
      BY <1>2, <2>2, <3>1 DEF RouterUnregister, LinkInv, RegistersOnce
  <2> QED
    BY <1>0, <1>2, <2>1, <2>2, <2>3, <2>4 DEF RouterUnregister, LinkInv, DialledInOrder,
       RouterClosesOnce, OnlineHasAHandler, OneHandlerAtATime, Accountable, serverOnly, agentVars
<1>3. CASE ServerKilled
  <2>1. \A i \in Conns : /\ serve'[i] \in {"none", "gone"}
                         /\ serve'[i] = "none" <=> serve[i] = "none"
    BY <1>0, <1>3 DEF ServerKilled
  <2>2. LinkTypeOK' /\ registerQ' \in Seq(Conns) /\ unregisterQ' \in Seq(Conns)
    BY <1>0, <1>3 DEF ServerKilled, LinkInv, LinkTypeOK, agentVars
  <2>3. DialledInOrder' /\ RegistersOnce' /\ RouterClosesOnce'
    BY <1>0, <1>3, <2>1 DEF ServerKilled, LinkInv, DialledInOrder, RegistersOnce, RouterClosesOnce,
       agentVars, Conns
  <2> QED
    <3>1. OnlineHasAHandler'
      BY <1>3 DEF ServerKilled, OnlineHasAHandler
    <3>2. OneHandlerAtATime'
      BY <2>1 DEF OneHandlerAtATime, Accountable
    <3> QED
      BY <2>2, <2>3, <3>1, <3>2 DEF LinkInv
<1> QED
  BY <1>1, <1>2, <1>3

(* The steps of the agent, of the server and of the network together.      *)
LEMMA LinkStepsKeep == LinkInv /\ [LinkNext]_linkVars => LinkInv'
  BY AgentKeeps, DialKeeps, ServeKeeps, RouterKeeps DEF LinkNext

(* For any number of connections and outages: the client that the router   *)
(* closes has an open channel (agentws/router.go:50-57).                   *)
THEOREM RouterClosesAClientOnce == LinkSpec => []RouterClosesOnce
<1>1. LinkInv => RouterClosesOnce
  BY DEF LinkInv
<1> QED
  BY LinkStarts, LinkStepsKeep, <1>1, PTL DEF LinkSpec

(* For any number of connections and outages: once both sides are quiet,   *)
(* is_online says whether there is a connection, but for a killed server   *)
(* and an overlap of two handlers (agentws/client.go:60-71).               *)
THEOREM OnlineAgrees == LinkSpec => []OnlineAgreesOnceQuiet
<1>1. LinkInv => OnlineAgreesOnceQuiet
  BY DEF LinkInv, OnlineHasAHandler, OneHandlerAtATime, OnlineAgreesOnceQuiet, LinkQuiet,
     Accountable
<1> QED
  BY LinkStarts, LinkStepsKeep, <1>1, PTL DEF LinkSpec

-----------------------------------------------------------------------------
(* The dashboard's hub.                                                    *)

(* What a request in hand can be, and an entry of a request channel.       *)
RequestForms == {NoRequest} \cup [kind : Requests, channel : Channels \cup {"none"}]
InboxEntries == [client : Clients, channel : Channels \cup {"none"}]
Places == {"none", "serve", "read", "send", "leave", "gone"}

(* The room in the channels is not needed for what is proved here.         *)
HubTypes ==
    /\ hub \in {"running", "stopping", "stopped", "panicked"}
    /\ members \subseteq Clients /\ closed \subseteq Clients
    /\ inbox \in [Requests -> Seq(InboxEntries)]
    /\ client \in [Clients -> [at : Places, request : RequestForms]]

(* Only Serve registers, once for each client (hub.go:52-56).              *)
ServeRegisters ==
    \A c \in Clients : client[c].request.kind = "register" <=> client[c].at = "serve"

Registering(c) == \E i \in DOMAIN inbox["register"] : inbox["register"][i].client = c

(* A client is registered once, and its channel is closed after that.      *)
RegisteredOnce ==
    /\ \A i, j \in DOMAIN inbox["register"] :
          inbox["register"][i].client = inbox["register"][j].client => i = j
    /\ \A c \in Clients : Registering(c) => c \notin members /\ c \notin closed
    /\ \A c \in Clients : client[c].at \in {"none", "serve"} =>
          ~Registering(c) /\ c \notin members /\ c \notin closed

(* Until the hub has returned, its members' channels are open.             *)
MembersAreOpen == HubRunning => members \cap closed = {}

HubInv == HubTypes /\ ServeRegisters /\ RegisteredOnce /\ MembersAreOpen

(* The hub starts without clients and requests.                            *)
LEMMA HubStarts == HubInit => HubInv
<1> SUFFICES ASSUME HubInit PROVE HubInv
  OBVIOUS
<1>1. HubTypes
  <2>1. NoRequest \in RequestForms /\ <<>> \in Seq(InboxEntries)
    BY DEF RequestForms
  <2> QED
    BY <2>1 DEF HubInit, HubTypes, Places
<1>2. ServeRegisters /\ MembersAreOpen
  BY DEF HubInit, ServeRegisters, NoRequest, MembersAreOpen
<1>3. inbox["register"] = <<>>
  BY DEF HubInit, Requests
<1>4. RegisteredOnce
  BY <1>3 DEF HubInit, RegisteredOnce, Registering
<1> QED
  BY <1>1, <1>2, <1>4 DEF HubInv

(* The steps that neither register nor close anybody: a client goes on to  *)
(* something other than Serve, or the hub takes another request.           *)
LEMMA HubOthersKeep ==
  ASSUME HubInv, HubTypes', ServeRegisters',
         UNCHANGED <<members, closed>>, inbox'["register"] = inbox["register"],
         \A c \in Clients : client'[c].at \in {"none", "serve"} =>
                              client[c].at \in {"none", "serve"},
         hub' \in {"running", "stopping"} => hub \in {"running", "stopping"}
  PROVE  HubInv'
<1>1. \A c \in Clients : Registering(c)' <=> Registering(c)
  BY DEF Registering
<1>2. RegisteredOnce'
  BY <1>1 DEF HubInv, RegisteredOnce
<1>3. MembersAreOpen'
  BY DEF HubInv, MembersAreOpen, HubRunning
<1> QED
  BY <1>2, <1>3 DEF HubInv

(* A client's own steps but the handover, and the publishers' steps.       *)
LEMMA ClientKeeps ==
  ASSUME HubInv,
         \/ \E e \in DOMAIN TargetsOf : PublishEvent(e)
         \/ Broadcast \/ HandleEvent \/ StopHub \/ UNCHANGED hubVars
         \/ \E c \in Clients :
              \/ Connect(c) \/ ReadPing(c) \/ ReadEnds(c) \/ Break(c)
              \/ \E k \in {"subscribe", "unsubscribe"}, ch \in Channels : ReadWish(c, k, ch)
              \/ Write(c) \/ WriteEnds(c)
  PROVE  HubInv'
<1>0. /\ UNCHANGED <<members, closed, inbox>>
      /\ hub' \in {"running", "stopping", "stopped", "panicked"}
      /\ hub' \in {"running", "stopping"} => hub \in {"running", "stopping"}
  BY DEF HubInv, HubTypes, PublishEvent, Broadcast, HandleEvent, StopHub, hubVars, Connect, ReadPing,
     ReadEnds, Break, ReadWish, Write, WriteEnds, outside, fromHub, pumps, clientSide
<1>1. CASE UNCHANGED client
  BY <1>0, <1>1, HubOthersKeep DEF HubInv, HubTypes, ServeRegisters
<1>2. ASSUME NEW c \in Clients, NEW at \in {"serve", "send", "leave"},
             NEW k \in Requests, NEW ch \in Channels \cup {"none"},
             k = "register" <=> at = "serve",
             at = "serve" => client[c].at = "none",
             GoTo(c, at, Request(k, ch))
      PROVE  HubInv'
  <2>1. Request(k, ch) \in RequestForms /\ Request(k, ch).kind = k
    BY DEF Request, RequestForms
  <2>2. /\ client' \in [Clients -> [at : Places, request : RequestForms]]
        /\ client'[c].at = at /\ client'[c].request.kind = k
        /\ \A d \in Clients \ {c} : client'[d] = client[d]
    BY <1>2, <2>1 DEF GoTo, HubInv, HubTypes, Places
  <2> QED
    BY <1>0, <1>2, <2>2, HubOthersKeep DEF HubInv, HubTypes, ServeRegisters
<1>3. ASSUME NEW c \in Clients, Connect(c) PROVE HubInv'
  BY <1>2, <1>3 DEF Connect, Requests
<1>4. ASSUME NEW c \in Clients, ReadEnds(c) PROVE HubInv'
  BY <1>2, <1>4 DEF ReadEnds, Requests
<1>5. ASSUME NEW c \in Clients, NEW k \in {"subscribe", "unsubscribe"}, NEW ch \in Channels,
             ReadWish(c, k, ch)
      PROVE  HubInv'
  <2>1. k \in Requests /\ k # "register" /\ GoTo(c, "send", Request(k, ch))
    BY <1>5 DEF ReadWish, Requests
  <2> QED
    BY <1>2, <2>1
<1>6. ASSUME NEW c \in Clients, ReadPing(c) \/ Break(c) \/ Write(c) \/ WriteEnds(c)
      PROVE  UNCHANGED client
  BY <1>6 DEF ReadPing, Break, Write, WriteEnds, outside
<1>7. ASSUME NEW e \in DOMAIN TargetsOf, PublishEvent(e) PROVE UNCHANGED client
  BY <1>7 DEF PublishEvent, pumps
<1>8. ASSUME Broadcast \/ HandleEvent \/ StopHub \/ UNCHANGED hubVars PROVE UNCHANGED client
  BY <1>8 DEF Broadcast, HandleEvent, StopHub, hubVars, pumps, clientSide
<1> QED
  BY <1>1, <1>3, <1>4, <1>5, <1>6, <1>7, <1>8

(* The handover: Serve's is the only one that enters the register channel. *)
LEMMA HandOverKeeps ==
  ASSUME HubInv, NEW c \in Clients, HandOver(c)
  PROVE  HubInv'
<1> DEFINE r == client[c].request
           entry == [client |-> c, channel |-> r.channel]
<1>0. /\ inbox \in [Requests -> Seq(InboxEntries)]
      /\ client \in [Clients -> [at : Places, request : RequestForms]]
      /\ r \in RequestForms /\ r # NoRequest
  BY DEF HubInv, HubTypes, HandOver
<1>1. r.kind \in Requests /\ r.channel \in Channels \cup {"none"}
  BY <1>0 DEF RequestForms
<1>2. entry \in InboxEntries
  BY <1>1 DEF InboxEntries
<1>3. /\ inbox' = [inbox EXCEPT ![r.kind] = Append(@, entry)]
      /\ \E at \in {"gone", "read"} : GoTo(c, at, NoRequest)
      /\ UNCHANGED <<hub, members, closed>>
  BY DEF HandOver, outside
<1>4. /\ client' \in [Clients -> [at : Places, request : RequestForms]]
      /\ client'[c].at \in {"gone", "read"} /\ client'[c].request = NoRequest
      /\ \A d \in Clients \ {c} : client'[d] = client[d]
  BY <1>0, <1>3 DEF GoTo, Places, RequestForms
<1>5. inbox' \in [Requests -> Seq(InboxEntries)]
  BY <1>0, <1>1, <1>2, <1>3
<1>6. HubTypes' /\ ServeRegisters'
  <2>1. HubTypes'
    BY <1>3, <1>4, <1>5 DEF HubInv, HubTypes
  <2>2. NoRequest.kind # "register"
    BY DEF NoRequest
  <2>3. ServeRegisters'
    BY <1>4, <2>2 DEF HubInv, ServeRegisters
  <2> QED
    BY <2>1, <2>3
<1>7. CASE r.kind # "register"
  <2>1. inbox'["register"] = inbox["register"]
    BY <1>0, <1>1, <1>3, <1>7 DEF Requests
  <2> QED
    BY <1>3, <1>4, <1>6, <2>1, HubOthersKeep
<1>8. CASE r.kind = "register"
  <2> DEFINE q == inbox["register"]
             qn == inbox'["register"]
  <2>1. qn = Append(q, entry) /\ q \in Seq(InboxEntries)
    BY <1>0, <1>1, <1>3, <1>8 DEF Requests
  <2>2. /\ DOMAIN q = 1..Len(q) /\ DOMAIN qn = 1..(Len(q) + 1) /\ Len(q) \in Nat
        /\ qn[Len(q) + 1].client = c /\ \A i \in 1..Len(q) : qn[i] = q[i]
    BY <1>2, <2>1
  <2>3. client[c].at = "serve"
    BY <1>8 DEF HubInv, ServeRegisters
  <2>4. \A i \in 1..Len(q) : q[i].client # c
    BY <2>2, <2>3 DEF HubInv, RegisteredOnce, Registering
  <2>5. \A i, j \in DOMAIN qn : qn[i].client = qn[j].client => i = j
    <3> HIDE DEF q, qn
    <3>1. \A i, j \in 1..Len(q) : q[i].client = q[j].client => i = j
      BY <2>2 DEF q, HubInv, RegisteredOnce
    <3> QED
      BY <2>2, <2>4, <3>1
  <2>6. \A d \in Clients : Registering(d)' <=> Registering(d) \/ d = c
    BY <2>2, SMTT(30) DEF Registering
  <2>7. RegisteredOnce'
    BY <1>3, <1>4, <2>3, <2>5, <2>6 DEF HubInv, RegisteredOnce
  <2>8. MembersAreOpen'
    BY <1>3 DEF HubInv, MembersAreOpen, HubRunning
  <2> QED
    BY <1>6, <2>7, <2>8 DEF HubInv
<1> QED
  BY <1>7, <1>8

(* What the hub's goroutine does to members and their channels.            *)
LEMMA HubRunKeeps ==
  ASSUME HubInv, Register \/ Unregister \/ Subscribe \/ Unsubscribe \/ HubReturns
  PROVE  HubInv'
<1>0. /\ inbox \in [Requests -> Seq(InboxEntries)] /\ members \subseteq Clients /\ closed \subseteq Clients
      /\ UNCHANGED client
  BY DEF HubInv, HubTypes, Register, Unregister, Subscribe, Unsubscribe, HubReturns, clientSide
<1>1. ASSUME NEW k \in Requests, HasRequest(k), Taken(k)
      PROVE  /\ inbox' \in [Requests -> Seq(InboxEntries)]
             /\ Head(inbox[k]) \in InboxEntries
             /\ \A l \in Requests \ {k} : inbox'[l] = inbox[l]
             /\ inbox'[k] = Tail(inbox[k]) /\ inbox[k] # <<>> /\ inbox[k] \in Seq(InboxEntries)
  BY <1>0, <1>1 DEF HasRequest, Taken
<1>2. CASE Subscribe \/ Unsubscribe
  <2>1. PICK k \in {"subscribe", "unsubscribe"} : HasRequest(k) /\ Taken(k)
    BY <1>2 DEF Subscribe, Unsubscribe
  <2>2. k \in Requests /\ "register" \in Requests \ {k}
    BY DEF Requests
  <2>3. inbox' \in [Requests -> Seq(InboxEntries)] /\ inbox'["register"] = inbox["register"]
    BY <1>1, <2>1, <2>2
  <2>4. UNCHANGED <<hub, members, closed, client>>
    BY <1>2 DEF Subscribe, Unsubscribe, clientSide
  <2> QED
    BY <2>3, <2>4, HubOthersKeep DEF HubInv, HubTypes, ServeRegisters
<1>3. CASE Unregister
  <2> DEFINE c == Next1("unregister").client
  <2>1. "unregister" \in Requests /\ "register" \in Requests \ {"unregister"}
    BY DEF Requests
  <2>2. /\ inbox' \in [Requests -> Seq(InboxEntries)] /\ inbox'["register"] = inbox["register"]
        /\ c \in Clients
    BY <1>1, <1>3, <2>1 DEF Unregister, Next1, InboxEntries
  <2>3. \A d \in Clients : Registering(d)' <=> Registering(d)
    BY <2>2 DEF Registering
  <2>4. CASE c \notin members
    BY <1>0, <1>3, <2>2, <2>4, HubOthersKeep DEF Unregister, HubInv, HubTypes, ServeRegisters
  <2>5. CASE c \in members
    <3>1. /\ members' = members \ {c} /\ closed' = closed \cup {c} /\ UNCHANGED hub
      BY <1>3, <2>5 DEF Unregister
    <3>2. HubTypes' /\ ServeRegisters' /\ MembersAreOpen'
      BY <1>0, <2>2, <3>1 DEF HubInv, HubTypes, ServeRegisters, MembersAreOpen, HubRunning
    <3>3. RegisteredOnce'
      BY <1>0, <2>2, <2>3, <2>5, <3>1 DEF HubInv, RegisteredOnce
    <3> QED
      BY <3>2, <3>3 DEF HubInv
  <2> QED
    BY <2>4, <2>5
<1>4. CASE Register
  <2> DEFINE c == Next1("register").client
             q == inbox["register"]
             qn == inbox'["register"]
  <2>1. "register" \in Requests
    BY DEF Requests
  <2>2. /\ inbox' \in [Requests -> Seq(InboxEntries)] /\ c \in Clients
        /\ qn = Tail(q) /\ q # <<>> /\ q \in Seq(InboxEntries) /\ c = Head(q).client
    BY <1>1, <1>4, <2>1 DEF Register, Next1, InboxEntries
  <2>3. /\ Len(q) \in Nat \ {0} /\ DOMAIN q = 1..Len(q) /\ DOMAIN qn = 1..(Len(q) - 1)
        /\ c = q[1].client /\ \A i \in 1..(Len(q) - 1) : qn[i] = q[i + 1]
    BY <2>2
  <2>4. \A i, j \in 1..Len(q) : q[i].client = q[j].client => i = j
    BY <2>3 DEF HubInv, RegisteredOnce
  <2>5. Registering(c)
    BY <2>3 DEF Registering
  <2>6. \A d \in Clients : Registering(d)' => Registering(d) /\ d # c
    <3> SUFFICES ASSUME NEW d \in Clients, NEW i \in 1..(Len(q) - 1), q[i + 1].client = d
                 PROVE  Registering(d) /\ d # c
      BY <2>3 DEF Registering
    <3>1. i + 1 \in DOMAIN q /\ 1 \in DOMAIN q /\ i + 1 # 1
      BY <2>3
    <3> QED
      BY <2>3, <2>4, <3>1 DEF Registering
  <2>7. \A i, j \in DOMAIN qn : qn[i].client = qn[j].client => i = j
    <3> HIDE DEF q, qn
    <3>1. \A i, j \in 1..(Len(q) - 1) : q[i + 1].client = q[j + 1].client => i + 1 = j + 1
      BY <2>3, <2>4
    <3> QED
      BY <2>3, <3>1
  <2>8. members' = members \cup {c} /\ UNCHANGED <<hub, closed>>
    BY <1>4 DEF Register
  <2>9. RegisteredOnce'
    BY <1>0, <2>2, <2>5, <2>6, <2>7, <2>8 DEF HubInv, RegisteredOnce
  <2>10. HubTypes' /\ ServeRegisters' /\ MembersAreOpen'
    BY <1>0, <2>2, <2>5, <2>8 DEF HubInv, HubTypes, ServeRegisters, MembersAreOpen, HubRunning,
       RegisteredOnce
  <2> QED
    BY <2>9, <2>10 DEF HubInv
<1>5. CASE HubReturns
  <2>1. /\ hub' = "stopped" /\ closed' = closed \cup members /\ UNCHANGED <<members, inbox>>
    BY <1>5 DEF HubReturns
  <2>2. \A d \in Clients : Registering(d)' <=> Registering(d)
    BY <2>1 DEF Registering
  <2>3. RegisteredOnce'
    BY <1>0, <2>1, <2>2 DEF HubInv, RegisteredOnce
  <2> QED
    BY <1>0, <2>1, <2>3 DEF HubInv, HubTypes, ServeRegisters, MembersAreOpen, HubRunning
<1> QED
  BY <1>2, <1>3, <1>4, <1>5

(* The steps of the hub and of its clients together.                       *)
LEMMA HubStepsKeep == HubInv /\ [HubNext]_hubVars => HubInv'
  BY ClientKeeps, HandOverKeeps, HubRunKeeps DEF HubNext, HubStep

(* For any number of clients and any room in the channels: a client's      *)
(* channel is closed once, by its unregistration or by the hub's end,      *)
(* although requests of different kinds overtake each other (hub.go:52-76).*)
THEOREM ChannelsCloseOnce == HubSpec => ClosedOnce
<1> DEFINE Step ==
      /\ hub = "stopping" /\ hub' = "stopped" => members \cap closed = {}
      /\ HasRequest("unregister") /\ Len(inbox'["unregister"]) < Len(inbox["unregister"])
         /\ closed' # closed => Next1("unregister").client \notin closed
<1>1. ASSUME HubInv, HubNext PROVE Step
  <2>1. hub = "stopping" /\ hub' = "stopped" => members \cap closed = {}
    BY <1>1 DEF HubInv, MembersAreOpen, HubRunning
  <2>2. ASSUME HasRequest("unregister"),
               Len(inbox'["unregister"]) < Len(inbox["unregister"]), closed' # closed
        PROVE  Next1("unregister").client \notin closed
    <3>1. Unregister \/ HubReturns
      BY <1>1, <2>2 DEF HubNext, HubStep, PublishEvent, Broadcast, HandleEvent, StopHub, Connect,
         ReadPing, ReadEnds, Break, ReadWish, Write, WriteEnds, HandOver, Register, Subscribe,
         Unsubscribe, outside, pumps, fromHub
    <3>2. ~HubReturns
      <4>1. inbox["unregister"] \in Seq(InboxEntries)
        BY <1>1 DEF HubInv, HubTypes, Requests
      <4> QED
        BY <2>2, <4>1 DEF HubReturns
    <3>3. Next1("unregister").client \in members
      BY <2>2, <3>1, <3>2 DEF Unregister
    <3> QED
      BY <1>1, <2>2, <3>3 DEF HubInv, MembersAreOpen, HasRequest
  <2> QED
    BY <2>1, <2>2
<1>2. HubInv /\ [HubNext]_hubVars => [Step]_hubVars
  BY <1>1
<1> QED
  BY HubStarts, HubStepsKeep, <1>2, PTL DEF HubSpec, ClosedOnce

(* What has been broadcast and not yet handed on, and what clients' write  *)
(* pumps have before them: newer broadcasts behind older ones.             *)
Deliveries ==
    /\ sent \in Nat /\ publishing \in Seq(Channels)
    /\ broadcasts \in Seq([n : Nat, channel : Channels])
    /\ send \in [Clients -> Seq(Nat)]

BroadcastsCountUp ==
    \A i \in DOMAIN broadcasts :
        /\ broadcasts[i].n \in 1..sent
        /\ \A j \in DOMAIN broadcasts : i < j => broadcasts[i].n < broadcasts[j].n

SentBeforeQueued ==
    \A c \in Clients : \A i \in DOMAIN send[c] : send[c][i] <= sent

DeliveryInv ==
    Deliveries /\ BroadcastsCountUp /\ SentBeforeQueued /\ DeliveredInOrder

(* Nothing has been broadcast.                                             *)
LEMMA DeliveryStarts == HubInit => DeliveryInv
<1> SUFFICES ASSUME HubInit PROVE DeliveryInv
  OBVIOUS
<1>1. \A c \in Clients : send[c] = <<>>
  BY DEF HubInit
<1>2. Deliveries
  BY DEF HubInit, Deliveries
<1> QED
  BY <1>1, <1>2 DEF HubInit, DeliveryInv, BroadcastsCountUp, SentBeforeQueued, DeliveredInOrder

(* Publishing queues a number that is greater than all that came before.   *)
LEMMA BroadcastKeeps ==
  ASSUME DeliveryInv, Broadcast
  PROVE  DeliveryInv'
<1>0. /\ sent \in Nat /\ broadcasts \in Seq([n : Nat, channel : Channels])
      /\ publishing \in Seq(Channels) /\ publishing # <<>>
      /\ send' = send /\ send \in [Clients -> Seq(Nat)] /\ sent' = sent + 1
      /\ publishing' = Tail(publishing)
  BY DEF DeliveryInv, Deliveries, Broadcast, pumps
<1>1. Head(publishing) \in Channels /\ publishing' \in Seq(Channels)
  BY <1>0
<1>2. \A c \in Clients : \A i \in DOMAIN send[c] : send[c][i] \in Nat /\ send[c][i] <= sent
  BY <1>0 DEF DeliveryInv, SentBeforeQueued
<1>3. SentBeforeQueued'
  BY <1>0, <1>2 DEF SentBeforeQueued
<1>4. \A i \in DOMAIN broadcasts : broadcasts[i].n \in 1..sent
  BY DEF DeliveryInv, BroadcastsCountUp
<1>5. CASE broadcasts' = broadcasts
  BY <1>0, <1>1, <1>3, <1>4, <1>5 DEF DeliveryInv, Deliveries, BroadcastsCountUp, DeliveredInOrder
<1>6. CASE broadcasts' = Append(broadcasts, [n |-> sent + 1, channel |-> Head(publishing)])
  <2> DEFINE m == Len(broadcasts)
  <2>1. /\ m \in Nat /\ DOMAIN broadcasts = 1..m /\ DOMAIN broadcasts' = 1..(m + 1)
        /\ broadcasts'[m + 1].n = sent + 1
        /\ \A i \in 1..m : broadcasts'[i] = broadcasts[i]
        /\ broadcasts' \in Seq([n : Nat, channel : Channels])
    BY <1>0, <1>1, <1>6
  <2>2. Deliveries'
    BY <1>0, <1>1, <2>1 DEF Deliveries
  <2> HIDE DEF m
  <2>3. BroadcastsCountUp'
    <3>1. ASSUME NEW i \in 1..(m + 1)
          PROVE  /\ broadcasts'[i].n \in 1..(sent + 1)
                 /\ i \in 1..m => broadcasts'[i].n = broadcasts[i].n /\ broadcasts[i].n \in 1..sent
      <4>1. CASE i = m + 1
        <5>1. broadcasts'[i].n = sent + 1
          BY <2>1, <4>1
        <5>2. sent + 1 \in 1..(sent + 1) /\ i \notin 1..m
          BY <1>0, <2>1, <4>1
        <5> QED
          BY <5>1, <5>2
      <4>2. CASE i \in 1..m
        <5>1. broadcasts'[i] = broadcasts[i] /\ broadcasts[i].n \in 1..sent
          BY <1>4, <2>1, <4>2
        <5>2. \A x \in 1..sent : x \in 1..(sent + 1)
          BY <1>0
        <5> QED
          BY <5>1, <5>2
      <4> QED
        BY <2>1, <4>1, <4>2
    <3>2. ASSUME NEW i \in 1..(m + 1), NEW j \in 1..(m + 1), i < j
          PROVE  broadcasts'[i].n < broadcasts'[j].n
      <4>1. CASE j = m + 1
        <5>1. i \in 1..m /\ broadcasts'[j].n = sent + 1
          BY <2>1, <3>2, <4>1
        <5>2. broadcasts'[i].n \in 1..sent
          BY <3>1, <5>1
        <5>3. \A x \in 1..sent : x < sent + 1
          BY <1>0
        <5> QED
          BY <5>1, <5>2, <5>3
      <4>2. CASE j \in 1..m
        <5>1. i \in 1..m
          BY <2>1, <3>2, <4>2
        <5>2. broadcasts[i].n < broadcasts[j].n
          BY <3>2, <4>2, <5>1 DEF DeliveryInv, BroadcastsCountUp, m
        <5> QED
          BY <2>1, <4>2, <5>1, <5>2
      <4> QED
        BY <2>1, <4>1, <4>2
    <3> QED
      BY <1>0, <2>1, <3>1, <3>2 DEF BroadcastsCountUp
  <2>4. DeliveredInOrder'
    <3>1. ASSUME NEW c \in Clients, NEW i \in DOMAIN send[c], send[c][i] # 0,
                 NEW j \in 1..(m + 1)
          PROVE  send[c][i] < broadcasts'[j].n
      <4>1. CASE j = m + 1
        BY <1>0, <1>2, <2>1, <3>1, <4>1
      <4>2. CASE j \in 1..m
        BY <2>1, <3>1, <4>2 DEF DeliveryInv, DeliveredInOrder
      <4> QED
        BY <2>1, <4>1, <4>2
    <3> QED
      BY <1>0, <2>1, <3>1 DEF DeliveryInv, DeliveredInOrder
  <2> QED
    BY <1>3, <2>2, <2>3, <2>4 DEF DeliveryInv
<1> QED
  BY <1>5, <1>6 DEF Broadcast

(* The hub takes the oldest broadcast and puts it last in each buffer.     *)
LEMMA HandleEventKeeps ==
  ASSUME DeliveryInv, HandleEvent
  PROVE  DeliveryInv'
<1> DEFINE ev == Head(broadcasts)
           m == Len(broadcasts)
<1>0. /\ sent \in Nat /\ broadcasts \in Seq([n : Nat, channel : Channels])
      /\ send \in [Clients -> Seq(Nat)] /\ broadcasts # <<>>
      /\ broadcasts' = Tail(broadcasts) /\ UNCHANGED <<sent, publishing>>
  BY DEF DeliveryInv, Deliveries, HandleEvent, clientSide
<1>a. ASSUME NEW S, NEW s \in Seq(S), s # <<>>
      PROVE  /\ Len(s) \in Nat \ {0} /\ DOMAIN s = 1..Len(s) /\ DOMAIN Tail(s) = 1..(Len(s) - 1)
             /\ Head(s) = s[1] /\ Head(s) \in S /\ Tail(s) \in Seq(S)
             /\ \A i \in 1..(Len(s) - 1) : Tail(s)[i] = s[i + 1]
  BY <1>a
<1>1. /\ m \in Nat \ {0} /\ DOMAIN broadcasts = 1..m /\ DOMAIN broadcasts' = 1..(m - 1)
      /\ ev = broadcasts[1] /\ ev.n \in Nat
      /\ \A i \in 1..(m - 1) : broadcasts'[i] = broadcasts[i + 1]
      /\ broadcasts' \in Seq([n : Nat, channel : Channels])
  <2> DEFINE S == [n : Nat, channel : Channels]
  <2>1. \A x \in S : x.n \in Nat
    OBVIOUS
  <2> HIDE DEF S
  <2> QED
    BY <1>0, <1>a, <2>1 DEF S
<1>2. \A c \in Clients :
        /\ send'[c] = send[c] \/ send'[c] = Append(send[c], ev.n)
        /\ send[c] \in Seq(Nat)
  BY <1>0 DEF HandleEvent
<1>3. send' \in [Clients -> Seq(Nat)]
  <2>1. CASE UNCHANGED send
    BY <1>0, <2>1
  <2>2. CASE send' = [c \in Clients |-> IF c \in channels[ev.channel] /\ Len(send[c]) < SendRoom
                                        THEN Append(send[c], ev.n) ELSE send[c]]
    <3> HIDE DEF ev
    <3> QED
      BY <1>0, <1>1, <2>2
  <2> QED
    BY <2>1, <2>2 DEF HandleEvent
<1> HIDE DEF m, ev
<1>4. \A i \in 1..(m - 1) : /\ ev.n < broadcasts'[i].n /\ i + 1 \in DOMAIN broadcasts
                            /\ broadcasts'[i].n \in Nat
  <2>1. \A i \in 1..(m - 1) : i + 1 \in 1..m /\ 1 < i + 1 /\ 1 \in 1..m
    BY <1>1
  <2>2. \A i \in 1..(m - 1) : /\ broadcasts[1].n < broadcasts[i + 1].n
                              /\ broadcasts[i + 1].n \in 1..sent
    BY <1>1, <2>1 DEF DeliveryInv, BroadcastsCountUp
  <2>3. \A i \in 1..(m - 1) : broadcasts[i + 1].n \in Nat
    BY <1>0, <2>2
  <2> QED
    BY <1>1, <2>1, <2>2, <2>3
<1>5. ev.n \in 1..sent
  BY <1>0, <1>1 DEF DeliveryInv, BroadcastsCountUp
<1>6. BroadcastsCountUp'
  <2>1. ASSUME NEW i \in 1..(m - 1)
        PROVE  /\ broadcasts[i + 1].n \in 1..sent
               /\ \A j \in 1..(m - 1) : i < j => broadcasts[i + 1].n < broadcasts[j + 1].n
    <3>1. i + 1 \in DOMAIN broadcasts /\ broadcasts[i + 1].n \in 1..sent
      BY <1>4 DEF DeliveryInv, BroadcastsCountUp
    <3>2. ASSUME NEW j \in 1..(m - 1), i < j
          PROVE  broadcasts[i + 1].n < broadcasts[j + 1].n
      <4>1. j + 1 \in DOMAIN broadcasts /\ i + 1 < j + 1
        BY <1>1, <1>4, <3>2
      <4> QED
        BY <3>1, <4>1 DEF DeliveryInv, BroadcastsCountUp
    <3> QED
      BY <3>1, <3>2
  <2>2. sent' = sent
    BY <1>0
  <2> QED
    BY <1>1, <2>1, <2>2 DEF BroadcastsCountUp
<1>7. ASSUME NEW c \in Clients, NEW i \in DOMAIN send'[c], send'[c][i] # 0
      PROVE  /\ send'[c][i] <= sent
             /\ \A j \in 1..(i - 1) : send'[c][j] < send'[c][i]
             /\ \A j \in DOMAIN broadcasts' : send'[c][i] < broadcasts'[j].n
  <2> DEFINE k == Len(send[c])
  <2>1. /\ k \in Nat /\ DOMAIN send[c] = 1..k /\ send[c] \in Seq(Nat)
        /\ \A j \in 1..k : send[c][j] \in Nat
    BY <1>2
  <2>2. ASSUME NEW l \in 1..k
        PROVE  /\ send[c][l] < ev.n
               /\ \A j \in 1..(m - 1) : send[c][l] < broadcasts'[j].n
    <3>1. CASE send[c][l] = 0
      <4>1. 0 < ev.n
        BY <1>0, <1>5
      <4> QED
        BY <1>1, <1>4, <3>1, <4>1
    <3>2. CASE send[c][l] # 0
      <4>1. \A j \in DOMAIN broadcasts : send[c][l] < broadcasts[j].n
        BY <2>1, <3>2 DEF DeliveryInv, DeliveredInOrder
      <4> QED
        <5>1. 1 \in DOMAIN broadcasts
          BY <1>1
        <5> QED
          BY <1>1, <1>4, <4>1, <5>1
    <3> QED
      BY <3>1, <3>2
  <2>3. CASE send'[c] = send[c]
    BY <1>1, <1>7, <2>1, <2>2, <2>3 DEF DeliveryInv, DeliveredInOrder, SentBeforeQueued
  <2>4. CASE send'[c] = Append(send[c], ev.n)
    <3>1. /\ DOMAIN send'[c] = 1..(k + 1) /\ send'[c][k + 1] = ev.n
          /\ \A j \in 1..k : send'[c][j] = send[c][j]
      BY <1>1, <2>1, <2>4
    <3> HIDE DEF k
    <3>2. CASE i = k + 1
      BY <1>1, <1>4, <1>5, <2>1, <2>2, <3>1, <3>2
    <3>3. CASE i \in 1..k
      <4>1. /\ send[c][i] <= sent /\ \A j \in 1..(i - 1) : send[c][j] < send[c][i] /\ j \in 1..k
        BY <1>7, <2>1, <3>1, <3>3 DEF DeliveryInv, DeliveredInOrder, SentBeforeQueued
      <4> QED
        BY <1>1, <2>2, <3>1, <3>3, <4>1
    <3> QED
      BY <2>1, <3>1, <3>2, <3>3
  <2> QED
    BY <1>2, <2>3, <2>4
<1>8. Deliveries'
  BY <1>0, <1>1, <1>3 DEF DeliveryInv, Deliveries
<1>9. SentBeforeQueued'
  <2>1. \A c \in Clients : \A i \in DOMAIN send'[c] : send'[c][i] = 0 => send'[c][i] <= sent
    BY <1>0
  <2> QED
    BY <1>0, <1>7, <2>1 DEF SentBeforeQueued
<1>10. DeliveredInOrder'
  BY <1>7 DEF DeliveredInOrder
<1> QED
  BY <1>6, <1>8, <1>9, <1>10 DEF DeliveryInv

(* A write pump takes from the front, and pings put only zeros behind.     *)
LEMMA WriteKeeps ==
  ASSUME DeliveryInv, NEW c \in Clients, Write(c) \/ ReadPing(c)
  PROVE  DeliveryInv'
<1>0. /\ sent \in Nat /\ broadcasts \in Seq([n : Nat, channel : Channels])
      /\ send \in [Clients -> Seq(Nat)] /\ UNCHANGED <<broadcasts, sent, publishing>>
  BY DEF DeliveryInv, Deliveries, Write, ReadPing, outside
<1>1. \/ UNCHANGED send
      \/ send[c] # <<>> /\ send' = [send EXCEPT ![c] = Tail(@)]
      \/ send' = [send EXCEPT ![c] = Append(@, 0)]
  BY DEF Write, ReadPing
<1> DEFINE k == Len(send[c])
<1>2. /\ k \in Nat /\ DOMAIN send[c] = 1..k /\ send[c] \in Seq(Nat)
      /\ \A i \in 1..k : send[c][i] \in Nat
  BY <1>0
<1>3. CASE UNCHANGED send
  BY <1>0, <1>3 DEF DeliveryInv, Deliveries, BroadcastsCountUp, SentBeforeQueued, DeliveredInOrder
<1>4. ASSUME NEW s \in Seq(Nat), send' = [send EXCEPT ![c] = s],
             \A i \in DOMAIN s : s[i] # 0 =>
               /\ s[i] <= sent /\ \A j \in 1..(i - 1) : s[j] < s[i]
               /\ \A j \in DOMAIN broadcasts : s[i] < broadcasts[j].n
      PROVE  DeliveryInv'
  <2>1. /\ send' \in [Clients -> Seq(Nat)] /\ send'[c] = s
        /\ \A d \in Clients \ {c} : send'[d] = send[d]
        /\ \A i \in DOMAIN s : s[i] = 0 => s[i] <= sent
    BY <1>0, <1>4
  <2>2. SentBeforeQueued'
    BY <1>0, <1>4, <2>1 DEF DeliveryInv, SentBeforeQueued
  <2>3. DeliveredInOrder'
    BY <1>0, <1>4, <2>1 DEF DeliveryInv, DeliveredInOrder
  <2> QED
    BY <1>0, <2>1, <2>2, <2>3 DEF DeliveryInv, Deliveries, BroadcastsCountUp
<1>5. \A i \in 1..k : /\ send[c][i] <= sent
                      /\ send[c][i] # 0 =>
                           /\ \A j \in 1..(i - 1) : send[c][j] < send[c][i]
                           /\ \A j \in DOMAIN broadcasts : send[c][i] < broadcasts[j].n
  BY <1>2 DEF DeliveryInv, SentBeforeQueued, DeliveredInOrder
<1>6. CASE send[c] # <<>> /\ send' = [send EXCEPT ![c] = Tail(@)]
  <2> DEFINE s == Tail(send[c])
  <2>1. /\ s \in Seq(Nat) /\ DOMAIN s = 1..(k - 1)
        /\ \A i \in 1..(k - 1) : s[i] = send[c][i + 1] /\ i + 1 \in 1..k
    BY <1>2, <1>6
  <2>2. send' = [send EXCEPT ![c] = s]
    BY <1>6
  <2> HIDE DEF s, k
  <2>3. ASSUME NEW i \in DOMAIN s, s[i] # 0
        PROVE  /\ s[i] <= sent /\ \A j \in 1..(i - 1) : s[j] < s[i]
               /\ \A j \in DOMAIN broadcasts : s[i] < broadcasts[j].n
    <3>1. s[i] = send[c][i + 1] /\ i + 1 \in 1..k /\ i \in 1..(k - 1)
      BY <2>1, <2>3
    <3>2. \A j \in 1..(i - 1) : j \in 1..(k - 1) /\ j + 1 \in 1..((i + 1) - 1)
      BY <1>2, <3>1
    <3> QED
      BY <1>5, <2>1, <2>3, <3>1, <3>2
  <2> QED
    BY <1>4, <2>1, <2>2, <2>3
<1>7. CASE send' = [send EXCEPT ![c] = Append(@, 0)]
  <2> DEFINE s == Append(send[c], 0)
  <2>1. /\ s \in Seq(Nat) /\ DOMAIN s = 1..(k + 1) /\ s[k + 1] = 0
        /\ \A i \in 1..k : s[i] = send[c][i]
    BY <1>2
  <2>2. send' = [send EXCEPT ![c] = s]
    BY <1>7
  <2> HIDE DEF s, k
  <2>3. ASSUME NEW i \in DOMAIN s, s[i] # 0
        PROVE  /\ s[i] <= sent /\ \A j \in 1..(i - 1) : s[j] < s[i]
               /\ \A j \in DOMAIN broadcasts : s[i] < broadcasts[j].n
    <3>1. s[i] = send[c][i] /\ i \in 1..k /\ \A j \in 1..(i - 1) : j \in 1..k
      BY <1>2, <2>1, <2>3
    <3> QED
      BY <1>5, <2>1, <2>3, <3>1
  <2> QED
    BY <1>4, <2>1, <2>2, <2>3
<1> QED
  BY <1>1, <1>3, <1>6, <1>7

(* Publishing, handing on and writing together; the rest sends nothing.    *)
LEMMA DeliveryStepsKeep == DeliveryInv /\ [HubNext]_hubVars => DeliveryInv'
<1> SUFFICES ASSUME DeliveryInv, [HubNext]_hubVars PROVE DeliveryInv'
  OBVIOUS
<1>1. ASSUME UNCHANGED <<broadcasts, sent, send, publishing>> PROVE DeliveryInv'
  BY <1>1 DEF DeliveryInv, Deliveries, BroadcastsCountUp, SentBeforeQueued, DeliveredInOrder
<1>2. ASSUME NEW e \in DOMAIN TargetsOf, PublishEvent(e) PROVE DeliveryInv'
  <2>1. TargetsOf[e] \in Seq(Channels)
    <3>1. DOMAIN TargetsOf = {"created", "started", "changed"}
      BY DEF TargetsOf
    <3>2. /\ TargetsOf["created"] = <<"list">> /\ TargetsOf["started"] = <<"detail">>
          /\ TargetsOf["changed"] = <<"detail", "list">>
      BY DEF TargetsOf
    <3> QED
      BY <3>1, <3>2, <<"list">> \in Seq(Channels), <<"detail">> \in Seq(Channels),
         <<"detail", "list">> \in Seq(Channels) DEF Channels
  <2>2. publishing' \in Seq(Channels) /\ UNCHANGED <<broadcasts, sent, send>>
    BY <1>2, <2>1 DEF PublishEvent, pumps
  <2> QED
    BY <2>2 DEF DeliveryInv, Deliveries, BroadcastsCountUp, SentBeforeQueued, DeliveredInOrder
<1>3. CASE Register \/ Unregister \/ Subscribe \/ Unsubscribe \/ StopHub \/ HubReturns \/ UNCHANGED hubVars
  BY <1>1, <1>3 DEF Register, Unregister, Subscribe, Unsubscribe, StopHub, HubReturns, hubVars, clientSide
<1>4. ASSUME NEW c \in Clients,
             \/ Connect(c) \/ HandOver(c) \/ ReadEnds(c) \/ Break(c) \/ WriteEnds(c)
             \/ \E k \in {"subscribe", "unsubscribe"}, ch \in Channels : ReadWish(c, k, ch)
      PROVE  DeliveryInv'
  BY <1>1, <1>4 DEF Connect, HandOver, ReadEnds, Break, WriteEnds, ReadWish, outside
<1> QED
  BY <1>2, <1>3, <1>4, BroadcastKeeps, HandleEventKeeps, WriteKeeps DEF HubNext, HubStep

(* For any number of clients, broadcasts and any room in the buffers:      *)
(* what a client is about to be sent is in the order of the broadcasts and *)
(* older than all that the hub still has queued (hub.go:104-156).          *)
THEOREM DeliveryIsInOrder == HubSpec => []DeliveredInOrder
<1>1. DeliveryInv => DeliveredInOrder
  BY DEF DeliveryInv
<1> QED
  BY DeliveryStarts, DeliveryStepsKeep, <1>1, PTL DEF HubSpec

(* The buffers keep to their room, and the rest of what a client is made of*)
(* has its type.                                                           *)
HubRooms ==
    /\ channels \in [Channels -> SUBSET Clients]
    /\ \A k \in Requests : Len(inbox[k]) <= Inbox
    /\ Len(broadcasts) <= EventRoom /\ Len(publishing) <= 2
    /\ send \in [Clients -> Seq(Nat)]
    /\ \A c \in Clients : Len(send[c]) <= SendRoom
    /\ writer \in [Clients -> {"none", "run", "gone"}]
    /\ conn \in [Clients -> BOOLEAN] /\ ctx \in [Clients -> BOOLEAN]

(* A sender looks for room, or gives up, before it puts something in; who  *)
(* takes something makes room.                                             *)
LEMMA RoomsStep ==
  ASSUME HubInv, DeliveryInv, HubRooms, [HubNext]_hubVars
  PROVE  HubRooms'
<1>0. /\ Inbox \in Nat /\ EventRoom \in Nat /\ SendRoom \in Nat
      /\ inbox \in [Requests -> Seq(InboxEntries)]
      /\ broadcasts \in Seq([n : Nat, channel : Channels])
      /\ publishing \in Seq(Channels) /\ send \in [Clients -> Seq(Nat)]
      /\ client \in [Clients -> [at : Places, request : RequestForms]]
  BY UserHubAssumption DEF HubInv, HubTypes, DeliveryInv, Deliveries
<1>t. ASSUME NEW S, NEW s \in Seq(S), s # <<>>
      PROVE  Len(Tail(s)) = Len(s) - 1 /\ Len(s) \in Nat /\ Head(s) \in S /\ Tail(s) \in Seq(S)
  BY <1>t
<1>1. ASSUME NEW e \in DOMAIN TargetsOf, PublishEvent(e) PROVE HubRooms'
  <2>1. Len(TargetsOf[e]) <= 2
    <3>1. e \in {"created", "started", "changed"}
      BY DEF TargetsOf
    <3>2. /\ TargetsOf["created"] = <<"list">> /\ TargetsOf["started"] = <<"detail">>
          /\ TargetsOf["changed"] = <<"detail", "list">>
      BY DEF TargetsOf
    <3>3. CASE e = "created" \/ e = "started"
      <4>1. \E ch : TargetsOf[e] = <<ch>>
        BY <3>2, <3>3
      <4> QED
        BY <4>1
    <3>4. CASE e = "changed"
      <4>1. \E ch, with : TargetsOf[e] = <<ch, with>>
        BY <3>2, <3>4
      <4> QED
        BY <4>1
    <3> QED
      BY <3>1, <3>3, <3>4
  <2> QED
    BY <1>1, <2>1 DEF PublishEvent, HubRooms, fromHub, pumps
<1>2. CASE Broadcast
  <2>1. Len(publishing') <= 2
    <3>1. publishing # <<>> /\ publishing' = Tail(publishing)
      BY <1>2 DEF Broadcast
    <3>2. Len(publishing') = Len(publishing) - 1 /\ Len(publishing) \in Nat
      BY <1>0, <1>t, <3>1
    <3> QED
      BY <3>2 DEF HubRooms
  <2>2. Len(broadcasts') <= EventRoom
    <3>1. CASE UNCHANGED broadcasts
      BY <3>1 DEF HubRooms
    <3>2. CASE ~UNCHANGED broadcasts
      <4>1. PICK x : Len(broadcasts) < EventRoom /\ broadcasts' = Append(broadcasts, x)
        BY <1>2, <3>2 DEF Broadcast
      <4>2. Len(broadcasts) \in Nat /\ Len(broadcasts') = Len(broadcasts) + 1
        BY <1>0, <4>1
      <4> QED
        BY <1>0, <4>1, <4>2
    <3> QED
      BY <3>1, <3>2
  <2> QED
    BY <1>2, <2>1, <2>2 DEF Broadcast, HubRooms, fromHub, pumps
<1>3. ASSUME NEW c \in Clients,
             \/ Connect(c) \/ ReadEnds(c) \/ Break(c) \/ WriteEnds(c)
             \/ \E k \in {"subscribe", "unsubscribe"}, ch \in Channels : ReadWish(c, k, ch)
      PROVE  HubRooms'
  BY <1>3 DEF Connect, ReadEnds, Break, WriteEnds, WriterEnds, ReadWish, HubRooms, outside
<1>4. ASSUME NEW c \in Clients, HandOver(c) PROVE HubRooms'
  <2> DEFINE k == client[c].request.kind
             entry == [client |-> c, channel |-> client[c].request.channel]
  <2>1. k \in Requests
    BY <1>0, <1>4 DEF HandOver, RequestForms
  <2>2. Len(inbox[k]) < Inbox /\ inbox' = [inbox EXCEPT ![k] = Append(@, entry)]
    BY <1>4 DEF HandOver
  <2> HIDE DEF k, entry
  <2>3. \A l \in Requests : Len(inbox'[l]) <= Inbox
    <3>1. Len(Append(inbox[k], entry)) = Len(inbox[k]) + 1 /\ Len(inbox[k]) \in Nat
      BY <1>0, <2>1
    <3> QED
      BY <1>0, <2>1, <2>2, <3>1 DEF HubRooms
  <2> QED
    BY <1>4, <2>3 DEF HandOver, HubRooms, outside
<1>5. ASSUME NEW c \in Clients, NEW s \in Seq(Nat), Len(s) <= SendRoom,
             send' = [send EXCEPT ![c] = s]
      PROVE  send' \in [Clients -> Seq(Nat)] /\ \A d \in Clients : Len(send'[d]) <= SendRoom
  BY <1>0, <1>5 DEF HubRooms
<1>6. ASSUME NEW c \in Clients, ReadPing(c) PROVE HubRooms'
  <2>1. send' \in [Clients -> Seq(Nat)] /\ \A d \in Clients : Len(send'[d]) <= SendRoom
    <3>1. CASE UNCHANGED send
      BY <3>1 DEF HubRooms
    <3>2. CASE Len(send[c]) < SendRoom /\ send' = [send EXCEPT ![c] = Append(@, 0)]
      <4>1. Append(send[c], 0) \in Seq(Nat) /\ Len(Append(send[c], 0)) = Len(send[c]) + 1 /\ Len(send[c]) \in Nat
        BY <1>0
      <4>2. Len(Append(send[c], 0)) <= SendRoom
        BY <1>0, <3>2, <4>1
      <4> QED
        BY <1>5, <3>2, <4>1, <4>2
    <3> QED
      BY <1>6, <3>1, <3>2 DEF ReadPing
  <2> QED
    BY <1>6, <2>1 DEF ReadPing, HubRooms
<1>7. ASSUME NEW c \in Clients, Write(c) PROVE HubRooms'
  <2>1. send[c] # <<>> /\ send[c] \in Seq(Nat) /\ send' = [send EXCEPT ![c] = Tail(@)]
    BY <1>0, <1>7 DEF Write
  <2>2. Tail(send[c]) \in Seq(Nat) /\ Len(Tail(send[c])) <= SendRoom
    BY <1>0, <1>t, <2>1 DEF HubRooms
  <2>3. send' \in [Clients -> Seq(Nat)] /\ \A d \in Clients : Len(send'[d]) <= SendRoom
    BY <1>5, <2>1, <2>2
  <2> QED
    BY <1>7, <2>3 DEF Write, WriterEnds, HubRooms, outside
<1>8. CASE Register \/ Unregister \/ Subscribe \/ Unsubscribe
  <2>1. PICK k \in Requests : HasRequest(k) /\ Taken(k)
    BY <1>8 DEF Register, Unregister, Subscribe, Unsubscribe, Requests
  <2>2. Len(Tail(inbox[k])) <= Inbox /\ Head(inbox[k]) \in InboxEntries
    BY <1>0, <1>t, <2>1 DEF HasRequest, HubRooms
  <2>3. \A l \in Requests : Len(inbox'[l]) <= Inbox
    BY <1>0, <2>1, <2>2 DEF Taken, HubRooms
  <2>4. channels' \in [Channels -> SUBSET Clients]
    <3>1. ASSUME NEW l \in {"subscribe", "unsubscribe"}, HasRequest(l)
          PROVE  Next1(l).client \in Clients
      <4>1. l \in Requests
        BY DEF Requests
      <4>2. Head(inbox[l]) \in InboxEntries
        BY <1>0, <1>t, <3>1, <4>1 DEF HasRequest
      <4> QED
        BY <4>2 DEF Next1, InboxEntries
    <3>2. CASE Subscribe
      <4>1. Next1("subscribe").client \in Clients
        BY <3>1, <3>2 DEF Subscribe
      <4> QED
        BY <3>2, <4>1 DEF Subscribe, HubRooms
    <3>3. CASE Unsubscribe
      BY <3>3 DEF Unsubscribe, HubRooms
    <3>4. CASE Register \/ Unregister
      BY <3>4 DEF Register, Unregister, HubRooms
    <3> QED
      BY <1>8, <3>2, <3>3, <3>4
  <2>5. UNCHANGED <<broadcasts, publishing, send, writer, conn, ctx>>
    BY <1>8 DEF Register, Unregister, Subscribe, Unsubscribe, clientSide
  <2> QED
    BY <2>3, <2>4, <2>5 DEF HubRooms
<1>9. CASE HandleEvent
  <2> DEFINE ev == Head(broadcasts)
  <2>1. /\ ev \in [n : Nat, channel : Channels] /\ ev.n \in Nat
        /\ Len(broadcasts') <= EventRoom
    <3>1. broadcasts # <<>> /\ broadcasts' = Tail(broadcasts)
      BY <1>9 DEF HandleEvent
    <3>2. ev \in [n : Nat, channel : Channels]
      BY <1>0, <1>t, <3>1
    <3>3. Len(broadcasts') = Len(broadcasts) - 1 /\ Len(broadcasts) \in Nat
      BY <1>0, <1>t, <3>1
    <3>4. ASSUME NEW x \in [n : Nat, channel : Channels] PROVE x.n \in Nat
      OBVIOUS
    <3> HIDE DEF ev
    <3> QED
      BY <1>0, <3>2, <3>3, <3>4 DEF HubRooms
  <2>2. ASSUME NEW c \in Clients
        PROVE  send'[c] \in Seq(Nat) /\ Len(send'[c]) <= SendRoom
    <3>1. \/ send'[c] = send[c]
          \/ Len(send[c]) < SendRoom /\ send'[c] = Append(send[c], ev.n)
      BY <1>9 DEF HandleEvent
    <3>2. send[c] \in Seq(Nat) /\ Len(send[c]) \in Nat /\ Len(send[c]) <= SendRoom
      BY <1>0 DEF HubRooms
    <3> HIDE DEF ev
    <3>3. Append(send[c], ev.n) \in Seq(Nat) /\ Len(Append(send[c], ev.n)) = Len(send[c]) + 1
      BY <2>1, <3>2
    <3>4. CASE send'[c] = send[c]
      BY <3>2, <3>4
    <3>5. CASE Len(send[c]) < SendRoom /\ send'[c] = Append(send[c], ev.n)
      BY <1>0, <3>2, <3>3, <3>5
    <3> QED
      BY <3>1, <3>4, <3>5
  <2>3. send' \in [Clients -> Seq(Nat)]
    <3>1. CASE UNCHANGED send
      BY <1>0, <3>1
    <3>2. CASE send' = [c \in Clients |-> IF c \in channels[ev.channel] /\ Len(send[c]) < SendRoom
                                          THEN Append(send[c], ev.n) ELSE send[c]]
      <4> HIDE DEF ev
      <4> QED
        BY <2>2, <3>2
    <3> QED
      BY <1>9, <3>1, <3>2 DEF HandleEvent
  <2> QED
    BY <1>9, <2>1, <2>2, <2>3 DEF HandleEvent, HubRooms, clientSide
<1>10. CASE StopHub \/ HubReturns \/ UNCHANGED hubVars
  BY <1>10 DEF StopHub, HubReturns, hubVars, HubRooms
<1> QED
  BY <1>1, <1>2, <1>3, <1>4, <1>6, <1>7, <1>8, <1>9, <1>10 DEF HubNext, HubStep

(* The hub's variables, from what it is proved with.                       *)
LEMMA HubTypesFollow == HubInv /\ HubRooms => HubTypeOK
<1> SUFFICES ASSUME HubInv, HubRooms PROVE HubTypeOK
  OBVIOUS
<1>1. \A c \in Clients : client[c].at \in Places /\ client[c].request \in RequestForms
  BY DEF HubInv, HubTypes
<1>2. \A r \in RequestForms : r.kind \in Requests \cup {"none"}
  BY DEF RequestForms, NoRequest
<1> QED
  BY <1>1, <1>2 DEF HubInv, HubTypes, HubRooms, HubTypeOK, Places

(* All channels are empty.                                                 *)
LEMMA RoomsStart == HubInit => HubRooms
<1> SUFFICES ASSUME HubInit PROVE HubRooms
  OBVIOUS
<1>1. Inbox \in Nat /\ EventRoom \in Nat /\ SendRoom \in Nat /\ Len(<<>>) = 0
  BY UserHubAssumption
<1> QED
  BY <1>1 DEF HubInit, HubRooms

(* For any number of clients and any room: no channel of the hub ever      *)
(* holds more than its room, since every send either waits for room or     *)
(* gives up without it (hub.go:104-156, client.go).                        *)
THEOREM HubKeepsItsRoom == HubSpec => []HubTypeOK
<1> QED
  BY HubStarts, HubStepsKeep, DeliveryStarts, DeliveryStepsKeep, RoomsStart, RoomsStep,
     HubTypesFollow, PTL DEF HubSpec

-----------------------------------------------------------------------------
(* The metrics service.                                                    *)

(* The places a sample can be in, and that it is in just one, once.        *)
HeldBy(i) == {h \in Ingesters : ingest[h].id = i}
PlacesIn(s, i) == {k \in DOMAIN s : s[k] = i}
Single(S) == \E x : S = {x}
OnePlace(i) ==
    LET H == HeldBy(i)  B == PlacesIn(buffered, i)  W == PlacesIn(writing, i) IN
    \/ Single(H) /\ B = {} /\ W = {} /\ i \notin stored /\ i \notin gone
    \/ H = {} /\ Single(B) /\ W = {} /\ i \notin stored /\ i \notin gone
    \/ H = {} /\ B = {} /\ Single(W) /\ i \notin stored /\ i \notin gone
    \/ H = {} /\ B = {} /\ W = {} /\ i \in stored /\ i \notin gone
    \/ H = {} /\ B = {} /\ W = {} /\ i \notin stored /\ i \in gone

(* The ids given out so far are the ones that are anywhere.                *)
IdsWereGiven ==
    /\ \A h \in Ingesters : /\ ingest[h].id <= ingests
                            /\ ingest[h].at = "out" <=> ingest[h].id = 0
    /\ buffered \in Seq(1..ingests) /\ writing \in Seq(1..ingests)
    /\ stored \subseteq 1..ingests /\ gone \subseteq 1..ingests

(* flushMu is what makes a batch the flusher's own (service.go:243-250).   *)
BatchesAreLocked == ~flushing => writing = <<>>

IngestInv ==
    /\ ingests \in 0..MaxIngests
    /\ ingest \in [Ingesters -> [at : {"out", "latest", "points", "append", "buffer"},
                                 id : 0..MaxIngests, time : Times]]
    /\ IdsWereGiven
    /\ BatchesAreLocked
    /\ \A i \in 1..ingests : OnePlace(i)

(* No sample has been given an id.                                         *)
LEMMA IngestStarts == MetricsInit => IngestInv
<1> SUFFICES ASSUME MetricsInit PROVE IngestInv
  OBVIOUS
<1>1. LastTime \in Nat \ {0} /\ MaxIngests \in Nat
  BY MetricsAssumption
<1>2. NotIngesting \in [at : {"out", "latest", "points", "append", "buffer"},
                        id : 0..MaxIngests, time : Times]
  BY <1>1 DEF NotIngesting, Times
<1> QED
  BY <1>1, <1>2 DEF MetricsInit, IngestInv, IdsWereGiven, BatchesAreLocked, NotIngesting

(* The places of an id in a list that an id is appended to.                *)
LEMMA AppendedPlaces ==
  ASSUME NEW S, NEW s \in Seq(S), NEW e
  PROVE  /\ PlacesIn(Append(s, e), e) = PlacesIn(s, e) \cup {Len(s) + 1}
         /\ \A i : i # e => PlacesIn(Append(s, e), i) = PlacesIn(s, i)
<1>1. /\ DOMAIN s = 1..Len(s) /\ Len(s) \in Nat /\ Len(s) + 1 \notin 1..Len(s)
      /\ DOMAIN Append(s, e) = (1..Len(s)) \cup {Len(s) + 1}
      /\ Append(s, e)[Len(s) + 1] = e
      /\ \A k \in 1..Len(s) : Append(s, e)[k] = s[k]
  OBVIOUS
<1> QED
  BY <1>1 DEF PlacesIn

(* What a list holds, and that it is a list of any larger set.             *)
LEMMA ListsWiden ==
  ASSUME NEW S, NEW T, S \subseteq T, NEW s \in Seq(S)
  PROVE  s \in Seq(T) /\ Range(s) \subseteq S
<1>1. \A k \in DOMAIN s : s[k] \in S
  OBVIOUS
<1>2. s \in Seq(T)
  BY SeqMonotonic
<1> QED
  BY <1>1, <1>2 DEF Range

(* A request's steps: a sample is in its request until it is buffered.     *)
LEMMA IngestKeeps ==
  ASSUME IngestInv, NEW h \in Ingesters,
         IngestStep(h) \/ \E t \in Times : IngestBegins(h, t)
  PROVE  IngestInv'
<1> DEFINE Records == [at : {"out", "latest", "points", "append", "buffer"},
                       id : 0..MaxIngests, time : Times]
<1>0. /\ MaxIngests \in Nat /\ ingests \in 0..MaxIngests /\ ingest \in [Ingesters -> Records]
      /\ buffered \in Seq(1..ingests) /\ writing \in Seq(1..ingests)
      /\ \A g \in Ingesters : /\ ingest[g].id \in 0..MaxIngests /\ ingest[g].id <= ingests
                              /\ ingest[g].at = "out" <=> ingest[g].id = 0
  BY MetricsAssumption DEF IngestInv, IdsWereGiven
<1>1. ASSUME NEW t \in Times, IngestBegins(h, t) PROVE IngestInv'
  <2>0. PICK new \in Nat : new = ingests + 1
    BY <1>0
  <2>1. /\ new \in 1..MaxIngests /\ ingests' = new /\ ingest[h].id = 0
        /\ UNCHANGED <<buffered, writing, flushing, stored, gone>>
    BY <1>0, <1>1, <2>0 DEF IngestBegins, inBuffer
  <2>2. /\ ingest' = [ingest EXCEPT ![h] = [at |-> "latest", id |-> new, time |-> t]]
        /\ [at |-> "latest", id |-> new, time |-> t] \in Records
    BY <1>0, <1>1, <2>0, <2>1 DEF IngestBegins
  <2>3. /\ ingest' \in [Ingesters -> Records] /\ ingest'[h].id = new /\ ingest'[h].at = "latest"
        /\ \A g \in Ingesters \ {h} : ingest'[g] = ingest[g]
    BY <1>0, <2>2
  <2>4. HeldBy(new)' = {h}
    <3>1. \A g \in Ingesters \ {h} : ingest'[g].id # new
      BY <1>0, <2>0, <2>3
    <3> QED
      BY <2>3, <3>1 DEF HeldBy
  <2>5. ASSUME NEW i \in 1..ingests PROVE HeldBy(i)' = HeldBy(i)
    <3>1. i # new /\ i # 0
      BY <1>0, <2>0
    <3> QED
      BY <2>1, <2>3, <3>1 DEF HeldBy
  <2>6. \A i : PlacesIn(buffered, i)' = PlacesIn(buffered, i) /\ PlacesIn(writing, i)' = PlacesIn(writing, i)
    BY <2>1 DEF PlacesIn
  <2>7. PlacesIn(buffered, new) = {} /\ PlacesIn(writing, new) = {} /\ new \notin stored /\ new \notin gone
    <3>1. \A s \in Seq(1..ingests) : \A k \in DOMAIN s : s[k] # new
      BY <1>0, <2>0
    <3> QED
      BY <1>0, <2>0, <2>1, <3>1 DEF PlacesIn, IngestInv, IdsWereGiven
  <2>8. \A i \in 1..new : OnePlace(i)'
    <3>1. OnePlace(new)'
      BY <2>1, <2>4, <2>6, <2>7 DEF OnePlace, Single
    <3>2. \A i \in 1..ingests : OnePlace(i)'
      BY <2>1, <2>5, <2>6 DEF IngestInv, OnePlace
    <3>3. \A i \in 1..new : i = new \/ i \in 1..ingests
      BY <1>0, <2>0
    <3> QED
      BY <3>1, <3>2, <3>3
  <2>9. IdsWereGiven'
    <3>1. 1..ingests \subseteq 1..new /\ new # 0
      BY <1>0, <2>0
    <3>2. buffered \in Seq(1..new) /\ writing \in Seq(1..new)
      BY <1>0, <3>1, ListsWiden
    <3>3. stored \subseteq 1..new /\ gone \subseteq 1..new
      BY <3>1 DEF IngestInv, IdsWereGiven
    <3>4. \A g \in Ingesters : /\ ingest'[g].id <= new
                               /\ ingest'[g].at = "out" <=> ingest'[g].id = 0
      <4>1. ASSUME NEW g \in Ingesters \ {h} PROVE ingest'[g].id <= new
        BY <1>0, <2>0, <2>3
      <4> QED
        BY <1>0, <2>1, <2>3, <3>1, <4>1
    <3> QED
      BY <2>1, <3>2, <3>3, <3>4 DEF IdsWereGiven
  <2> QED
    BY <2>1, <2>3, <2>8, <2>9 DEF IngestInv, BatchesAreLocked
<1>2. CASE RecordLatest(h) \/ RecordPoint(h) \/ AppendPoint(h)
  <2>1. PICK at \in {"points", "append", "buffer"} : MoveTo(h, at)
    BY <1>2 DEF RecordLatest, RecordPoint, AppendPoint
  <2>2. ingest[h].at # "out" /\ UNCHANGED <<ingests, buffered, writing, flushing, stored, gone>>
    BY <1>2 DEF RecordLatest, RecordPoint, AppendPoint, inBuffer
  <2>3. /\ ingest' \in [Ingesters -> Records] /\ ingest'[h].at # "out"
        /\ \A g \in Ingesters : ingest'[g].id = ingest[g].id
        /\ \A g \in Ingesters \ {h} : ingest'[g] = ingest[g]
    BY <1>0, <2>1 DEF MoveTo
  <2>4. \A i : HeldBy(i)' = HeldBy(i)
    BY <2>3 DEF HeldBy
  <2>5. \A i \in 1..ingests : OnePlace(i)'
    BY <2>2, <2>4 DEF IngestInv, OnePlace, PlacesIn
  <2> QED
    BY <1>0, <2>2, <2>3, <2>5 DEF IngestInv, IdsWereGiven, BatchesAreLocked
<1>3. CASE Buffer(h)
  <2>0. PICK e : e = ingest[h].id
    OBVIOUS
  <2>1. /\ e \in 1..ingests /\ buffered' = Append(buffered, e)
        /\ ingest' = [ingest EXCEPT ![h] = NotIngesting]
        /\ UNCHANGED <<ingests, writing, flushing, stored, gone>>
    BY <1>0, <1>3, <2>0 DEF Buffer
  <2>2. NotIngesting \in Records /\ NotIngesting.id = 0 /\ NotIngesting.at = "out"
    BY MetricsAssumption DEF NotIngesting, Times
  <2>3. /\ ingest' \in [Ingesters -> Records] /\ ingest'[h] = NotIngesting
        /\ \A g \in Ingesters \ {h} : ingest'[g] = ingest[g]
    BY <1>0, <2>1, <2>2
  <2>4. OnePlace(e) /\ h \in HeldBy(e)
    BY <2>0, <2>1 DEF IngestInv, HeldBy
  <2>5. /\ HeldBy(e) = {h} /\ PlacesIn(buffered, e) = {} /\ PlacesIn(writing, e) = {}
        /\ e \notin stored /\ e \notin gone
    BY <2>4 DEF OnePlace, Single
  <2>6. \A i \in 1..ingests : HeldBy(i)' = HeldBy(i) \ {h}
    BY <2>2, <2>3 DEF HeldBy
  <2>7. /\ PlacesIn(buffered', e) = {Len(buffered) + 1}
        /\ \A i : i # e => PlacesIn(buffered', i) = PlacesIn(buffered, i)
    BY <1>0, <2>1, <2>5, AppendedPlaces
  <2>8. OnePlace(e)'
    BY <2>1, <2>5, <2>6, <2>7 DEF OnePlace, Single
  <2>9. ASSUME NEW i \in 1..ingests, i # e PROVE OnePlace(i)'
    <3>1. h \notin HeldBy(i)
      BY <2>0, <2>9 DEF HeldBy
    <3>2. HeldBy(i)' = HeldBy(i)
      BY <2>6, <3>1
    <3> QED
      BY <2>1, <2>7, <2>9, <3>2 DEF IngestInv, OnePlace
  <2>10. IdsWereGiven'
    <3>1. buffered' \in Seq(1..ingests)
      BY <1>0, <2>1
    <3> QED
      BY <1>0, <2>1, <2>2, <2>3, <3>1 DEF IngestInv, IdsWereGiven
  <2> QED
    BY <2>1, <2>3, <2>8, <2>9, <2>10 DEF IngestInv, BatchesAreLocked
<1> QED
  BY <1>1, <1>2, <1>3 DEF IngestStep

(* A flush moves the buffer to the batch and the batch to its end; a       *)
(* restart gives up what was in memory.                                    *)
LEMMA FlushKeeps ==
  ASSUME IngestInv, BeginFlush \/ EndFlush \/ ServerRestarts
  PROVE  IngestInv'
<1>0. /\ buffered \in Seq(1..ingests) /\ writing \in Seq(1..ingests)
      /\ stored \subseteq 1..ingests /\ gone \subseteq 1..ingests
      /\ ingests \in 0..MaxIngests /\ <<>> \in Seq(1..ingests)
      /\ \A i : PlacesIn(<<>>, i) = {}
  BY DEF IngestInv, IdsWereGiven, PlacesIn
<1>1. \A s, i : i \in Range(s) <=> PlacesIn(s, i) # {}
  BY DEF Range, PlacesIn
<1>2. \A s \in Seq(1..ingests) : Range(s) \subseteq 1..ingests
  BY ListsWiden
<1>3. CASE BeginFlush
  <2>1. /\ writing = <<>> /\ writing' = buffered /\ buffered' = <<>> /\ flushing'
        /\ UNCHANGED <<ingest, ingests, stored, gone>>
    BY <1>3 DEF BeginFlush, IngestInv, BatchesAreLocked
  <2>2. \A i \in 1..ingests : OnePlace(i)'
    BY <1>0, <2>1 DEF IngestInv, OnePlace, HeldBy, Single
  <2> QED
    BY <1>0, <2>1, <2>2 DEF IngestInv, IdsWereGiven, BatchesAreLocked
<1>4. CASE EndFlush
  <2>1. /\ writing' = <<>> /\ UNCHANGED <<ingest, ingests, buffered>>
        /\ \/ stored' = stored \cup Range(writing) /\ gone' = gone
           \/ gone' = gone \cup Range(writing) /\ stored' = stored
    BY <1>4 DEF EndFlush
  <2>2. \A i \in 1..ingests : HeldBy(i)' = HeldBy(i) /\ PlacesIn(buffered', i) = PlacesIn(buffered, i)
    BY <2>1 DEF HeldBy
  <2>3. ASSUME NEW i \in 1..ingests PROVE OnePlace(i)'
    <3>1. OnePlace(i)
      BY DEF IngestInv
    <3>2. CASE PlacesIn(writing, i) = {}
      <4>1. (i \in stored' <=> i \in stored) /\ (i \in gone' <=> i \in gone)
        BY <1>1, <2>1, <3>2
      <4> QED
        BY <1>0, <2>1, <2>2, <3>1, <3>2, <4>1 DEF OnePlace
    <3>3. CASE PlacesIn(writing, i) # {}
      <4>1. /\ HeldBy(i) = {} /\ PlacesIn(buffered, i) = {} /\ i \notin stored /\ i \notin gone
        BY <3>1, <3>3 DEF OnePlace
      <4>2. (i \in stored' /\ i \notin gone') \/ (i \in gone' /\ i \notin stored')
        BY <1>1, <2>1, <3>3, <4>1
      <4> QED
        BY <1>0, <2>1, <2>2, <4>1, <4>2 DEF OnePlace
    <3> QED
      BY <3>2, <3>3
  <2>4. stored' \subseteq 1..ingests /\ gone' \subseteq 1..ingests
    BY <1>0, <1>2, <2>1
  <2> QED
    BY <1>0, <2>1, <2>3, <2>4 DEF IngestInv, IdsWereGiven, BatchesAreLocked
<1>5. CASE ServerRestarts
  <2> DEFINE ids == {ingest[h].id : h \in Ingesters} \ {0}
             held == Range(buffered) \cup ids
  <2>1. /\ writing' = <<>> /\ buffered' = <<>> /\ UNCHANGED ingests
        /\ ingest' = [h \in Ingesters |-> NotIngesting]
        /\ \/ stored' = stored \cup Range(writing) /\ gone' = gone \cup held
           \/ gone' = gone \cup held \cup Range(writing) /\ stored' = stored
    BY <1>5 DEF ServerRestarts
  <2>2. NotIngesting \in [at : {"out", "latest", "points", "append", "buffer"},
                          id : 0..MaxIngests, time : Times]
        /\ NotIngesting.id = 0 /\ NotIngesting.at = "out"
    BY MetricsAssumption DEF NotIngesting, Times
  <2>3. \A i \in 1..ingests : /\ HeldBy(i)' = {}
                              /\ i \in ids <=> HeldBy(i) # {}
    BY <2>1, <2>2 DEF HeldBy
  <2>4. ids \subseteq 1..ingests
    BY <1>0 DEF IngestInv, IdsWereGiven
  <2> HIDE DEF ids
  <2>5. ASSUME NEW i \in 1..ingests PROVE OnePlace(i)'
    <3>1. OnePlace(i) /\ HeldBy(i)' = {} /\ PlacesIn(buffered', i) = {} /\ PlacesIn(writing', i) = {}
      BY <1>0, <2>1, <2>3 DEF IngestInv
    <3>2. (i \in held <=> HeldBy(i) # {} \/ PlacesIn(buffered, i) # {})
      BY <1>1, <2>3
    <3> HIDE DEF held
    <3>3. (i \in stored' /\ i \notin gone') \/ (i \in gone' /\ i \notin stored')
      BY <1>1, <2>1, <3>1, <3>2 DEF OnePlace, Single
    <3> QED
      BY <3>1, <3>3 DEF OnePlace
  <2>6. stored' \subseteq 1..ingests /\ gone' \subseteq 1..ingests
    BY <1>0, <1>2, <2>1, <2>4
  <2> QED
    BY <1>0, <2>1, <2>2, <2>5, <2>6 DEF IngestInv, IdsWereGiven, BatchesAreLocked
<1> QED
  BY <1>3, <1>4, <1>5

(* Broadcasts and readers of the history move no sample.                   *)
LEMMA IngestStepsKeep == IngestInv /\ [MetricsNext]_metricsVars => IngestInv'
<1> SUFFICES ASSUME IngestInv, [MetricsNext]_metricsVars PROVE IngestInv'
  OBVIOUS
<1>1. CASE BroadcastBegins \/ BroadcastEnds \/ ReaderLooks \/ ReaderReads \/ ReaderSaves
           \/ UNCHANGED metricsVars
  <2>1. UNCHANGED <<ingest, ingests, inBuffer>>
    BY <1>1 DEF BroadcastBegins, BroadcastEnds, ReaderLooks, ReaderReads, ReaderSaves, metricsVars,
       inBuffer
  <2> QED
    BY <2>1 DEF inBuffer, IngestInv, IdsWereGiven, BatchesAreLocked, OnePlace, HeldBy, PlacesIn
<1> QED
  BY <1>1, IngestKeeps, FlushKeeps DEF MetricsNext

(* For any number of requests, samples and restarts: a sample is in one    *)
(* place, once, from its ingestion to the table or to where it was given   *)
(* up, whatever the flusher does (service.go:243-273).                     *)
THEOREM SamplesAreInOnePlace == MetricsSpec => []EveryIngestOnce
<1>1. ASSUME IngestInv PROVE EveryIngestOnce
  <2> DEFINE one(b) == IF b THEN 1 ELSE 0
  <2> SUFFICES ASSUME NEW i \in 1..ingests
               PROVE  Cardinality(HeldBy(i)) + Cardinality(PlacesIn(buffered, i))
                        + Cardinality(PlacesIn(writing, i)) + one(i \in stored) + one(i \in gone) = 1
    BY DEF EveryIngestOnce, HeldBy, PlacesIn
  <2>1. OnePlace(i)
    BY <1>1 DEF IngestInv
  <2>2. Cardinality({}) = 0 /\ \A S : Single(S) => Cardinality(S) = 1
    BY FS_EmptySet, FS_Singleton DEF Single
  <2>3. /\ i \in stored => one(i \in stored) = 1
        /\ i \notin stored => one(i \in stored) = 0
        /\ i \in gone => one(i \in gone) = 1
        /\ i \notin gone => one(i \in gone) = 0
    OBVIOUS
  <2> HIDE DEF one
  <2> QED
    BY <2>1, <2>2, <2>3 DEF OnePlace
<1> QED
  BY IngestStarts, IngestStepsKeep, <1>1, PTL DEF MetricsSpec

(* A sample of a list, of a request or of the batch is not settled.        *)
LEMMA HeldIsOpen ==
  ASSUME IngestInv
  PROVE  /\ Range(buffered) \subseteq Ledger!Open
         /\ Range(writing) \subseteq Ledger!Open
         /\ {ingest[h].id : h \in Ingesters} \ {0} \subseteq Ledger!Open
         /\ Ledger!Open \subseteq Range(buffered) \cup Range(writing)
                                 \cup ({ingest[h].id : h \in Ingesters} \ {0})
         /\ Range(buffered) \cap Range(writing) = {}
         /\ Range(writing) \cap ({ingest[h].id : h \in Ingesters} \ {0}) = {}
<1> DEFINE ids == {ingest[h].id : h \in Ingesters} \ {0}
<1>1. \A s, i : i \in Range(s) <=> PlacesIn(s, i) # {}
  BY DEF Range, PlacesIn
<1>2. \A i \in 1..ingests : i \in ids <=> HeldBy(i) # {}
  BY DEF HeldBy, IngestInv
<1>3. Range(buffered) \subseteq 1..ingests /\ Range(writing) \subseteq 1..ingests
  BY ListsWiden DEF IngestInv, IdsWereGiven
<1>4. ids \subseteq 1..ingests
  BY DEF IngestInv, IdsWereGiven
<1> HIDE DEF ids
<1>5. \A i \in 1..ingests :
         /\ i \in Range(buffered) => i \notin Range(writing) /\ i \notin stored \cup gone
         /\ i \in Range(writing) => i \notin ids /\ i \notin stored \cup gone
         /\ i \in ids => i \notin stored \cup gone
         /\ i \in Range(buffered) \cup Range(writing) \cup ids \/ i \in stored \cup gone
  BY <1>1, <1>2 DEF IngestInv, OnePlace, Single
<1>6. Ledger!Open = (1..ingests) \ (stored \cup gone)
  BY DEF Ledger!Open
<1>7. /\ Range(buffered) \subseteq Ledger!Open /\ Range(writing) \subseteq Ledger!Open
      /\ ids \subseteq Ledger!Open
      /\ Ledger!Open \subseteq Range(buffered) \cup Range(writing) \cup ids
      /\ Range(buffered) \cap Range(writing) = {} /\ Range(writing) \cap ids = {}
  BY <1>3, <1>4, <1>5, <1>6
<1> QED
  BY <1>7 DEF ids

(* Ingestion accepts, a flush settles its batch one way, a restart settles *)
(* all there is; nothing else touches the ledger.                          *)
LEMMA StepsKeepTheLedger ==
  ASSUME IngestInv, [MetricsNext]_metricsVars
  PROVE  [Ledger!Next]_<<ingests, stored, gone>>
<1> USE DEF inBuffer
<1>1. ASSUME NEW h \in Ingesters, NEW t \in Times, IngestBegins(h, t) PROVE Ledger!Accept
  BY <1>1 DEF IngestBegins, Ledger!Accept
<1>2. CASE EndFlush
  <2>1. Range(writing) \in SUBSET Ledger!Open
    BY HeldIsOpen
  <2>2. Ledger!Store(Range(writing)) \/ Ledger!GiveUp(Range(writing))
    BY <1>2 DEF EndFlush, Ledger!Store, Ledger!GiveUp
  <2> QED
    BY <2>1, <2>2 DEF Ledger!Next
<1>3. CASE ServerRestarts
  <2> DEFINE ids == {ingest[h].id : h \in Ingesters} \ {0}
  <2>1. /\ UNCHANGED ingests
        /\ \/ gone' = gone \cup (Range(buffered) \cup ids) \cup Range(writing) /\ stored' = stored
           \/ gone' = gone \cup (Range(buffered) \cup ids) /\ stored' = stored \cup Range(writing)
    BY <1>3 DEF ServerRestarts
  <2>2. /\ Range(buffered) \cup Range(writing) \cup ids = Ledger!Open
        /\ Range(buffered) \cap Range(writing) = {} /\ Range(writing) \cap ids = {}
    BY HeldIsOpen
  <2> HIDE DEF ids
  <2>3. CASE stored' = stored
             /\ gone' = gone \cup (Range(buffered) \cup ids) \cup Range(writing)
    <3>1. Ledger!Restart({})
      BY <2>1, <2>2, <2>3 DEF Ledger!Restart
    <3> QED
      BY <3>1 DEF Ledger!Next
  <2>4. CASE stored' = stored \cup Range(writing)
             /\ gone' = gone \cup (Range(buffered) \cup ids)
    <3>1. Range(writing) \in SUBSET Ledger!Open
      BY <2>2
    <3>2. Ledger!Restart(Range(writing))
      <4>1. Range(buffered) \cup ids = Ledger!Open \ Range(writing)
        BY <2>2
      <4> QED
        BY <2>1, <2>4, <4>1 DEF Ledger!Restart
    <3> QED
      BY <3>1, <3>2 DEF Ledger!Next
  <2> QED
    BY <2>1, <2>3, <2>4
<1>4. ASSUME NEW h \in Ingesters, IngestStep(h) PROVE UNCHANGED <<ingests, stored, gone>>
  BY <1>4 DEF IngestStep, RecordLatest, RecordPoint, AppendPoint, Buffer
<1>5. CASE BeginFlush \/ BroadcastBegins \/ BroadcastEnds \/ ReaderLooks \/ ReaderReads
           \/ ReaderSaves \/ UNCHANGED metricsVars
  BY <1>5 DEF BeginFlush, BroadcastBegins, BroadcastEnds, ReaderLooks, ReaderReads, ReaderSaves,
     metricsVars
<1> QED
  BY <1>1, <1>2, <1>3, <1>4, <1>5 DEF MetricsNext, Ledger!Next

(* For any number of requests, samples and restarts the service implements *)
(* SampleLedger: an accepted sample is settled once and for good, with its *)
(* batch, and nothing is open after a restart (service.go:243-273).        *)
THEOREM MetricsKeepTheLedger == MetricsSpec => SamplesKeepTheLedger
<1>1. MetricsInit => Ledger!Init
  BY DEF MetricsInit, Ledger!Init
<1> QED
  BY <1>1, IngestStarts, IngestStepsKeep, StepsKeepTheLedger, PTL
  DEF MetricsSpec, SamplesKeepTheLedger, Ledger!Spec

(* What is remembered is of the times that samples are recorded at.        *)
ArrivalsAreTimes == arrived \in Seq(Times) /\ mixed \in BOOLEAN

HistoryInv == IngestInv /\ ArrivalsAreTimes /\ HistoryIsExact

(* A set of indices that holds all below each of its own is a prefix.      *)
LEMMA IndexPrefix ==
  ASSUME NEW n \in Nat, NEW S \in SUBSET (1..n),
         \A i \in S : \A j \in 1..i : j \in S
  PROVE  \E m \in 0..n : S = 1..m
<1> DEFINE out == (1..(n + 1)) \ S
<1>1. out \in SUBSET Nat /\ n + 1 \in out
  OBVIOUS
<1>2. \E f \in out : \A k \in out : <<k, f>> \notin OpToRel(<, Nat)
  <2> HIDE DEF out
  <2>1. out # {} /\ out \in SUBSET Nat
    BY <1>1
  <2> QED
    BY <2>1, NatLessThanWellFounded, WFMin
<1>3. PICK f \in out : \A k \in out : ~(k < f)
  <2> HIDE DEF out
  <2> QED
    BY <1>1, <1>2 DEF OpToRel
<1>4. f \in 1..(n + 1) /\ f \notin S /\ \A k \in 1..(f - 1) : k \in S
  BY <1>3
<1> HIDE DEF out
<1>5. \A k \in S : k \in 1..n /\ k < f
  <2> SUFFICES ASSUME NEW k \in S, ~(k < f) PROVE FALSE
    OBVIOUS
  <2>1. f \in 1..k
    BY <1>4
  <2> QED
    BY <1>4, <2>1
<1>6. S = 1..(f - 1)
  <2>1. \A k \in 1..n : k < f <=> k \in 1..(f - 1)
    BY <1>4
  <2>2. \A k \in 1..(f - 1) : k \in 1..n
    BY <1>4
  <2> QED
    BY <1>4, <1>5, <2>1, <2>2
<1>7. f - 1 \in 0..n
  BY <1>4
<1> QED
  BY <1>6, <1>7

(* Pruning at the time of the last point cuts the points before the first  *)
(* one that is fresh, and the last one is (service.go:194-202).            *)
LEMMA PruneCutsStalePoints ==
  ASSUME NEW ps \in Seq(Times), ps # <<>>, NEW t \in Times, ps[Len(ps)] = t
  PROVE  \E m \in 0..(Len(ps) - 1) :
            /\ Prune(ps, t) = SubSeq(ps, m + 1, Len(ps))
            /\ \A i \in 1..m : ps[i] + Retention <= t
            /\ ps[m + 1] + Retention > t
<1> DEFINE n == Len(ps)
           stale == {i \in DOMAIN ps : \A j \in 1..i : ps[j] + Retention <= t}
<1>1. n \in Nat \ {0} /\ DOMAIN ps = 1..n /\ \A i \in 1..n : ps[i] \in Times
  BY LenProperties, ElementOfSeq, EmptySeq
<1>2. Retention \in Nat \ {0} /\ t \in Nat /\ \A i \in 1..n : ps[i] \in Nat
  <2>1. \A x \in Times : x \in Nat
    BY MetricsAssumption DEF Times
  <2> QED
    BY <1>1, <2>1, MetricsAssumption
<1> HIDE DEF n
<1>3. PICK m \in 0..n : stale = 1..m
  <2>1. ASSUME NEW i \in stale, NEW j \in 1..i PROVE j \in stale
    <3>1. i \in 1..n /\ j \in 1..n /\ \A k \in 1..j : k \in 1..i
      BY <1>1
    <3> QED
      BY <1>1, <3>1
  <2>2. stale \in SUBSET (1..n)
    BY <1>1
  <2> HIDE DEF stale
  <2> QED
    BY <1>1, <2>1, <2>2, IndexPrefix
<1>4. \A i \in 1..m : ps[i] + Retention <= t
  <2> SUFFICES ASSUME NEW i \in 1..m PROVE ps[i] + Retention <= t
    OBVIOUS
  <2>1. i \in stale /\ i \in 1..i
    BY <1>3
  <2> QED
    BY <2>1
<1>5. m # n
  <2> SUFFICES ASSUME m = n PROVE FALSE
    OBVIOUS
  <2>1. n \in 1..m /\ ps[n] = t
    BY <1>1 DEF n
  <2> QED
    BY <1>2, <1>4, <2>1
<1>6. ps[m + 1] + Retention > t
  <2> SUFFICES ASSUME ~(ps[m + 1] + Retention > t) PROVE FALSE
    OBVIOUS
  <2>1. m + 1 \in 1..n /\ ~(m + 1 \in 1..m)
    BY <1>1, <1>5
  <2>2. \A j \in 1..(m + 1) : j = m + 1 \/ j \in 1..m
    OBVIOUS
  <2>3. \A j \in 1..(m + 1) : ps[j] + Retention <= t
    BY <1>2, <1>4, <2>1, <2>2
  <2> QED
    BY <1>1, <1>3, <2>1, <2>3
<1>7. Cardinality(1..m) = m
  <2>1. 1 \in Int /\ m \in Int /\ m - 1 + 1 = m /\ (1 > m => m = 0)
    BY <1>1
  <2> QED
    BY <2>1, FS_Interval
<1>8. Prune(ps, t) = SubSeq(ps, m + 1, Len(ps))
  BY <1>3, <1>7 DEF Prune
<1>9. m \in 0..(n - 1)
  BY <1>1, <1>5
<1> QED
  BY <1>4, <1>6, <1>8, <1>9 DEF n

(* A point that is recorded joins the history, and what it makes stale     *)
(* leaves it.                                                              *)
LEMMA RecordPointKeeps ==
  ASSUME HistoryInv, NEW h \in Ingesters, RecordPoint(h)
  PROVE  ArrivalsAreTimes' /\ HistoryIsExact'
<1> DEFINE n == Len(arrived)
<1>0. PICK t \in Times : t = ingest[h].time
  BY DEF HistoryInv, IngestInv
<1>1. /\ arrived \in Seq(Times) /\ arrived' = Append(arrived, t)
      /\ points' = Prune(Append(points, t), t) /\ mixed' = mixed
  BY <1>0 DEF HistoryInv, ArrivalsAreTimes, RecordPoint
<1>2. /\ n \in Nat /\ DOMAIN arrived = 1..n /\ \A i \in 1..n : arrived[i] \in Times
      /\ arrived' \in Seq(Times) /\ Len(arrived') = n + 1 /\ DOMAIN arrived' = 1..(n + 1)
      /\ arrived'[n + 1] = t /\ \A i \in 1..n : arrived'[i] = arrived[i]
  BY <1>1, LenProperties, ElementOfSeq, AppendProperties
<1>3. /\ Retention \in Nat /\ t \in Nat /\ \A i \in 1..n : arrived[i] \in Nat
      /\ \A i \in 1..(n + 1) : arrived'[i] \in Nat
  <2>1. \A x \in Times : x \in Nat
    BY MetricsAssumption DEF Times
  <2>2. \A i \in 1..(n + 1) : i = n + 1 \/ i \in 1..n
    BY <1>2
  <2> QED
    BY <1>2, <2>1, <2>2, MetricsAssumption
<1>4. ArrivalsAreTimes'
  BY <1>1, <1>2 DEF HistoryInv, ArrivalsAreTimes
<1> HIDE DEF n
<1>5. ASSUME ~mixed', \A i, j \in DOMAIN arrived' : i < j => arrived'[i] <= arrived'[j]
      PROVE  \E cut \in 0..(n + 1) :
                /\ points' = SubSeq(arrived', cut + 1, n + 1)
                /\ \A i \in 1..(n + 1) : i > cut <=> arrived'[i] + Retention > t
  <2>1. \A i, j \in 1..n : i < j => arrived[i] <= arrived[j]
    <3> SUFFICES ASSUME NEW i \in 1..n, NEW j \in 1..n, i < j PROVE arrived[i] <= arrived[j]
      OBVIOUS
    <3>1. i \in 1..(n + 1) /\ j \in 1..(n + 1)
      BY <1>2
    <3> QED
      BY <1>2, <1>5, <3>1
  <2>2. \A i \in 1..n : arrived[i] <= t
    <3> SUFFICES ASSUME NEW i \in 1..n PROVE arrived[i] <= t
      OBVIOUS
    <3>1. i \in 1..(n + 1) /\ n + 1 \in 1..(n + 1) /\ i < n + 1
      BY <1>2
    <3> QED
      BY <1>2, <1>5, <3>1
  <2>3. PICK cut \in 0..n : /\ points = SubSeq(arrived, cut + 1, n)
                            /\ \A i \in 1..n : i > cut <=> arrived[i] + Retention > Last(arrived)
    BY <1>1, <1>2, <1>5, <2>1 DEF HistoryInv, HistoryIsExact, n
  <2>4. \A i \in 1..cut : arrived[i] + Retention <= t
    <3> SUFFICES ASSUME NEW i \in 1..cut PROVE arrived[i] + Retention <= t
      OBVIOUS
    <3>1. i \in 1..n /\ n \in 1..n /\ ~(i > cut)
      BY <1>2
    <3>2. Last(arrived) = arrived[n]
      BY DEF Last, n
    <3> QED
      BY <1>3, <2>2, <2>3, <3>1, <3>2
  <2> DEFINE ps == Append(points, t)
  <2>5. /\ points \in Seq(Times) /\ Len(points) = n - cut
        /\ \A k \in 1..(n - cut) : points[k] = arrived[cut + k]
    <3>1. /\ cut + 1 \in 1..(n + 1) /\ n \in 0..n
          /\ n - cut \in Nat /\ n - (cut + 1) + 1 = n - cut
          /\ \A k \in 1..(n - cut) : (cut + 1) + k - 1 = cut + k
      BY <1>2
    <3>2. \A i \in (cut + 1)..n : arrived[i] \in Times
      BY <1>2, <3>1
    <3>3. /\ points \in Seq(Times) /\ Len(points) = (IF cut + 1 <= n THEN n - (cut + 1) + 1 ELSE 0)
          /\ \A k \in 1..(n - (cut + 1) + 1) : points[k] = arrived[(cut + 1) + k - 1]
      <4>1. cut + 1 \in Int /\ n \in Int
        BY <1>2
      <4> QED
        BY <2>3, <3>2, <4>1, SubSeqProperties
    <3>4. Len(points) = n - cut
      BY <1>2, <3>3
    <3> QED
      BY <3>1, <3>3, <3>4
  <2>6. /\ ps \in Seq(Times) /\ Len(ps) = (n - cut) + 1 /\ ps # <<>>
        /\ ps[(n - cut) + 1] = t /\ \A k \in 1..(n - cut) : ps[k] = points[k]
    BY <2>5, AppendProperties
  <2> HIDE DEF ps
  <2>7. PICK m \in 0..(n - cut) :
            /\ Prune(ps, t) = SubSeq(ps, m + 1, (n - cut) + 1)
            /\ \A i \in 1..m : ps[i] + Retention <= t
            /\ ps[m + 1] + Retention > t
    <3>1. PICK m \in 0..(Len(ps) - 1) :
              /\ Prune(ps, t) = SubSeq(ps, m + 1, Len(ps))
              /\ \A i \in 1..m : ps[i] + Retention <= t
              /\ ps[m + 1] + Retention > t
      <4>1. ps[Len(ps)] = t
        BY <2>6
      <4> QED
        BY <2>6, <4>1, PruneCutsStalePoints
    <3>2. Len(ps) - 1 = n - cut
      BY <1>2, <2>6
    <3> QED
      BY <2>6, <3>1, <3>2
  <2>8. \A k \in 1..((n - cut) + 1) : ps[k] = arrived'[cut + k]
    <3> SUFFICES ASSUME NEW k \in 1..((n - cut) + 1) PROVE ps[k] = arrived'[cut + k]
      OBVIOUS
    <3>1. CASE k = (n - cut) + 1
      <4>1. cut + k = n + 1
        BY <1>2, <3>1
      <4> QED
        BY <1>2, <2>6, <3>1, <4>1
    <3>2. CASE k \in 1..(n - cut)
      <4>1. cut + k \in 1..n
        BY <1>2, <3>2
      <4> QED
        BY <1>2, <2>5, <2>6, <3>2, <4>1
    <3> QED
      BY <1>2, <3>1, <3>2
  <2>9. PICK last \in 0..n : last = cut + m
    BY <1>2
  <2>10. SubSeq(ps, m + 1, (n - cut) + 1) = SubSeq(arrived', last + 1, n + 1)
    <3> DEFINE left == SubSeq(ps, m + 1, (n - cut) + 1)
               right == SubSeq(arrived', last + 1, n + 1)
               size == n + 1 - last
    <3>1. size \in Nat /\ size = ((n - cut) + 1) - (m + 1) + 1 /\ size = (n + 1) - (last + 1) + 1
      BY <1>2, <2>9
    <3>2. \A k \in 1..size : /\ m + k \in 1..((n - cut) + 1) /\ m + 1 + k - 1 = m + k
                             /\ last + 1 + k - 1 = last + k /\ cut + (m + k) = last + k
      BY <1>2, <2>9
    <3>3. /\ left \in Seq(Times) /\ Len(left) = size /\ \A k \in 1..size : left[k] = ps[m + k]
      <4>1. m + 1 \in Int /\ (n - cut) + 1 \in Int
        BY <1>2
      <4>2. \A i \in (m + 1)..((n - cut) + 1) : ps[i] \in Times
        <5>1. \A i \in (m + 1)..((n - cut) + 1) : i \in 1..Len(ps)
          BY <1>2, <2>6
        <5> QED
          BY <2>6, <5>1, ElementOfSeq
      <4>3. /\ left \in Seq(Times)
            /\ Len(left) = (IF m + 1 <= (n - cut) + 1 THEN ((n - cut) + 1) - (m + 1) + 1 ELSE 0)
            /\ \A k \in 1..(((n - cut) + 1) - (m + 1) + 1) : left[k] = ps[(m + 1) + k - 1]
        BY <4>1, <4>2, SubSeqProperties
      <4>4. m + 1 <= (n - cut) + 1
        BY <1>2
      <4> HIDE DEF left, size
      <4> QED
        BY <3>1, <3>2, <4>3, <4>4
    <3>4. /\ right \in Seq(Times) /\ Len(right) = size
          /\ \A k \in 1..size : right[k] = arrived'[last + k]
      <4>1. last + 1 \in Int /\ n + 1 \in Int
        BY <1>2
      <4>2. \A i \in (last + 1)..(n + 1) : arrived'[i] \in Times
        <5>1. \A i \in (last + 1)..(n + 1) : i \in 1..Len(arrived')
          BY <1>2
        <5> QED
          BY <1>2, <5>1, ElementOfSeq
      <4>3. /\ right \in Seq(Times)
            /\ Len(right) = (IF last + 1 <= n + 1 THEN (n + 1) - (last + 1) + 1 ELSE 0)
            /\ \A k \in 1..((n + 1) - (last + 1) + 1) : right[k] = arrived'[(last + 1) + k - 1]
        BY <4>1, <4>2, SubSeqProperties
      <4>4. last + 1 <= n + 1
        BY <1>2
      <4> HIDE DEF right, size
      <4> QED
        BY <3>1, <3>2, <4>3, <4>4
    <3>5. \A k \in 1..size : ps[m + k] = arrived'[last + k]
      BY <2>8, <3>2
    <3> HIDE DEF left, right, size
    <3>6. left = right
      BY <3>3, <3>4, <3>5, SeqEqual
    <3> QED
      BY <3>6 DEF left, right
  <2>11. ASSUME NEW i \in 1..(n + 1) PROVE i > last <=> arrived'[i] + Retention > t
    <3>1. CASE i \in 1..cut
      BY <1>2, <1>3, <2>4, <2>9, <3>1
    <3>2. CASE i > cut /\ i <= last
      <4>1. PICK k \in 1..m : i = cut + k
        BY <2>9, <3>2
      <4>2. k \in 1..((n - cut) + 1)
        BY <1>2
      <4>3. arrived'[i] + Retention <= t
        BY <2>7, <2>8, <4>1, <4>2
      <4> QED
        BY <1>3, <3>2, <4>3
    <3>3. CASE i > last
      <4>1. m + 1 \in 1..((n - cut) + 1) /\ cut + (m + 1) = last + 1 /\ last + 1 \in 1..(n + 1)
        BY <1>2, <2>9
      <4>2. arrived'[last + 1] + Retention > t
        BY <2>7, <2>8, <4>1
      <4>3. arrived'[last + 1] <= arrived'[i]
        <5>1. CASE i = last + 1
          BY <1>3, <4>1, <5>1
        <5>2. CASE last + 1 < i
          BY <1>2, <1>5, <4>1, <5>2
        <5> QED
          BY <3>3, <5>1, <5>2
      <4> QED
        BY <1>3, <3>3, <4>1, <4>2, <4>3
    <3> QED
      BY <2>9, <3>1, <3>2, <3>3
  <2>12. points' = SubSeq(arrived', last + 1, n + 1)
    BY <1>1, <2>7, <2>10 DEF ps
  <2>13. last \in 0..(n + 1)
    BY <1>2
  <2> QED
    BY <2>11, <2>12, <2>13
<1>6. Last(arrived') = t
  BY <1>2 DEF Last
<1> QED
  BY <1>2, <1>4, <1>5, <1>6 DEF HistoryIsExact

(* For any number of requests and samples: until a reader has put the      *)
(* stream's points into memory, samples that arrive in the order of their  *)
(* times leave the history with all that is fresh enough and nothing else  *)
(* (service.go:184-203).                                                   *)
THEOREM HistoryStaysExact == MetricsSpec => []HistoryIsExact
<1>1. MetricsInit => HistoryInv
  <2> SUFFICES ASSUME MetricsInit PROVE HistoryInv
    OBVIOUS
  <2>1. arrived = <<>> /\ points = <<>> /\ mixed = FALSE
    BY DEF MetricsInit
  <2>2. <<>> = SubSeq(<<>>, 0 + 1, 0) /\ 0 \in 0..0 /\ Len(<<>>) = 0 /\ DOMAIN <<>> = {}
    OBVIOUS
  <2>3. HistoryIsExact
    BY <2>1, <2>2 DEF HistoryIsExact
  <2> QED
    BY <2>1, <2>3, IngestStarts, EmptySeq DEF HistoryInv, ArrivalsAreTimes
<1>2. HistoryInv /\ [MetricsNext]_metricsVars => HistoryInv'
  <2> SUFFICES ASSUME HistoryInv, [MetricsNext]_metricsVars PROVE HistoryInv'
    OBVIOUS
  <2>1. IngestInv'
    BY IngestStepsKeep DEF HistoryInv
  <2>2. CASE UNCHANGED <<points, arrived, mixed>>
    BY <2>1, <2>2 DEF HistoryInv, ArrivalsAreTimes, HistoryIsExact
  <2>3. CASE ReaderSaves
    BY <2>1, <2>3 DEF ReaderSaves, HistoryInv, ArrivalsAreTimes, HistoryIsExact
  <2>4. CASE ServerRestarts
    <3>1. arrived' = <<>> /\ points' = <<>> /\ mixed' = FALSE
      BY <2>4 DEF ServerRestarts
    <3>2. <<>> = SubSeq(<<>>, 0 + 1, 0) /\ 0 \in 0..0 /\ Len(<<>>) = 0 /\ DOMAIN <<>> = {}
      OBVIOUS
    <3>3. HistoryIsExact'
      BY <3>1, <3>2 DEF HistoryIsExact
    <3> QED
      BY <2>1, <3>1, <3>3, EmptySeq DEF HistoryInv, ArrivalsAreTimes
  <2>5. ASSUME NEW h \in Ingesters, IngestStep(h) \/ \E t \in Times : IngestBegins(h, t)
        PROVE  HistoryInv'
    <3>1. RecordPoint(h) \/ UNCHANGED <<points, arrived, mixed>>
      BY <2>5 DEF IngestStep, IngestBegins, RecordLatest, AppendPoint, Buffer, inHistory
    <3> QED
      BY <2>1, <2>2, <3>1, RecordPointKeeps DEF HistoryInv
  <2>6. CASE BeginFlush \/ EndFlush \/ BroadcastBegins \/ BroadcastEnds \/ ReaderLooks \/ ReaderReads
             \/ UNCHANGED metricsVars
    BY <2>2, <2>6 DEF BeginFlush, EndFlush, BroadcastBegins, BroadcastEnds, ReaderLooks, ReaderReads,
       metricsVars, inHistory
  <2> QED
    BY <2>3, <2>4, <2>5, <2>6 DEF MetricsNext
<1>3. HistoryInv => HistoryIsExact
  BY DEF HistoryInv
<1> QED
  BY <1>1, <1>2, <1>3, PTL DEF MetricsSpec

(* What is in the history, in the stream and in a reader's hands.          *)
HistoryTypes ==
    /\ latestHolder \in {"none", "broadcaster"} /\ flushing \in BOOLEAN
    /\ known \in BOOLEAN /\ mixed \in BOOLEAN
    /\ points \in Seq(Times) /\ registry \in Seq(Times) /\ arrived \in Seq(Times)
    /\ historian \in [at : {"out", "read", "save"}, points : Seq(Times)]
    /\ restarts \in 0..MaxRestarts

(* What pruning leaves of a list, and the list read backwards, are lists of*)
(* the same.                                                               *)
LEMMA PruneAndReverseAreTyped ==
  ASSUME NEW S, NEW s \in Seq(S), NEW t
  PROVE  Reverse(s) \in Seq(S) /\ (s # <<>> => Prune(s, t) \in Seq(S))
<1> DEFINE n == Len(s)
<1>1. n \in Nat /\ \A i \in 1..n : s[i] \in S
  BY LenProperties, ElementOfSeq
<1>2. Reverse(s) \in Seq(S)
  <2>1. \A i \in 1..n : (n - i) + 1 \in 1..n
    BY <1>1
  <2>2. Reverse(s) = [i \in 1..n |-> s[(n - i) + 1]]
    BY DEF Reverse
  <2> HIDE DEF n
  <2>3. Reverse(s) \in [1..n -> S]
    BY <1>1, <2>1, <2>2
  <2> QED
    BY <1>1, <2>3
<1>3. Prune(s, t) \in Seq(S)
  <2> DEFINE stale == {i \in DOMAIN s : \A j \in 1..i : s[j] + Retention <= t}
  <2>1. IsFiniteSet(1..n) /\ stale \in SUBSET (1..n)
    <3>1. DOMAIN s = 1..n
      BY LenProperties
    <3>2. IsFiniteSet(1..n)
      <4> HIDE DEF n
      <4>1. 1 \in Int /\ n \in Int
        BY <1>1
      <4> QED
        BY <4>1, FS_Interval
    <3> QED
      BY <3>1, <3>2
  <2>2. IsFiniteSet(stale)
    BY <2>1, FS_Subset
  <2> HIDE DEF stale
  <2>3. PICK c \in Nat : c = Cardinality(stale)
    BY <2>2, FS_CardinalityType
  <2>4. Prune(s, t) = SubSeq(s, c + 1, n)
    BY <2>3 DEF Prune, stale
  <2>5. c + 1 \in Int /\ n \in Int /\ \A i \in (c + 1)..n : i \in 1..n
    BY <1>1
  <2> HIDE DEF n
  <2>6. SubSeq(s, c + 1, n) \in Seq(S)
    BY <1>1, <2>5, SubSeqProperties
  <2> QED
    BY <2>4, <2>6
<1> QED
  BY <1>2, <1>3

(* Recording, reading and restarting put only times into the histories.    *)
LEMMA HistoryTypesStep ==
  ASSUME IngestInv, HistoryTypes, [MetricsNext]_metricsVars
  PROVE  HistoryTypes'
<1> USE DEF HistoryTypes
<1>0. <<>> \in Seq(Times) /\ NotReading \in [at : {"out", "read", "save"}, points : Seq(Times)]
  BY EmptySeq DEF NotReading
<1>1. ASSUME NEW h \in Ingesters, IngestStep(h) \/ \E t \in Times : IngestBegins(h, t)
      PROVE  HistoryTypes'
  <2>0. PICK t \in Times : t = ingest[h].time
    BY DEF IngestInv
  <2>1. \A s \in Seq(Times) : Append(s, t) \in Seq(Times) /\ Append(s, t) # <<>>
    BY AppendProperties
  <2>2. CASE RecordPoint(h)
    <3>1. points' = Prune(Append(points, t), t) /\ arrived' = Append(arrived, t)
      BY <2>0, <2>2 DEF RecordPoint
    <3>2. points' \in Seq(Times) /\ arrived' \in Seq(Times)
      BY <2>1, <3>1, PruneAndReverseAreTyped
    <3> QED
      BY <2>2, <3>2 DEF RecordPoint, inBuffer
  <2>3. CASE AppendPoint(h)
    BY <2>0, <2>1, <2>3 DEF AppendPoint, inBuffer
  <2>4. CASE RecordLatest(h) \/ Buffer(h) \/ \E u \in Times : IngestBegins(h, u)
    BY <2>4 DEF RecordLatest, Buffer, IngestBegins, inBuffer, inHistory
  <2> QED
    BY <1>1, <2>2, <2>3, <2>4 DEF IngestStep
<1>2. CASE BeginFlush \/ EndFlush \/ BroadcastBegins \/ BroadcastEnds \/ UNCHANGED metricsVars
  BY <1>2 DEF BeginFlush, EndFlush, BroadcastBegins, BroadcastEnds, metricsVars, inBuffer, inHistory
<1>3. CASE ReaderLooks
  BY <1>3 DEF ReaderLooks, inBuffer
<1>4. CASE ReaderReads
  <2>1. Reverse(registry) \in Seq(Times)
    BY PruneAndReverseAreTyped
  <2>2. historian' = NotReading \/ historian' = [at |-> "save", points |-> Reverse(registry)]
    BY <1>4 DEF ReaderReads
  <2>3. historian' \in [at : {"out", "read", "save"}, points : Seq(Times)]
    BY <1>0, <2>1, <2>2
  <2> QED
    BY <1>4, <2>3 DEF ReaderReads, inBuffer
<1>5. CASE ReaderSaves
  BY <1>0, <1>5 DEF ReaderSaves, inBuffer
<1>6. CASE ServerRestarts
  <2>1. restarts' \in 0..MaxRestarts
    BY <1>6, MetricsAssumption DEF ServerRestarts
  <2>2. /\ latestHolder' = "none" /\ flushing' = FALSE /\ known' = FALSE /\ mixed' = FALSE
        /\ points' = <<>> /\ arrived' = <<>> /\ historian' = NotReading /\ registry' = registry
    BY <1>6 DEF ServerRestarts
  <2> QED
    BY <1>0, <2>1, <2>2
<1> QED
  BY <1>1, <1>2, <1>3, <1>4, <1>5, <1>6 DEF MetricsNext

(* Nothing is known yet.                                                   *)
LEMMA HistoryTypesStart == MetricsInit => HistoryTypes
<1>1. <<>> \in Seq(Times) /\ NotReading \in [at : {"out", "read", "save"}, points : Seq(Times)]
  BY EmptySeq DEF NotReading
<1> QED
  <2>1. 0 \in 0..MaxRestarts
    BY MetricsAssumption
  <2> QED
    BY <1>1, <2>1 DEF MetricsInit, HistoryTypes

(* The service's variables, from what it is proved with.                   *)
LEMMA MetricsTypesFollow == IngestInv /\ HistoryTypes => MetricsTypeOK
<1> SUFFICES ASSUME IngestInv, HistoryTypes PROVE MetricsTypeOK
  OBVIOUS
<1>1. ingests \in Nat /\ 1..ingests \subseteq 1..MaxIngests
  BY MetricsAssumption DEF IngestInv
<1>2. buffered \in Seq(1..MaxIngests) /\ writing \in Seq(1..MaxIngests)
  BY <1>1, ListsWiden DEF IngestInv, IdsWereGiven
<1>3. stored \subseteq 1..MaxIngests /\ gone \subseteq 1..MaxIngests
  BY <1>1 DEF IngestInv, IdsWereGiven
<1> QED
  BY <1>2, <1>3 DEF IngestInv, HistoryTypes, MetricsTypeOK

(* For any number of requests, samples and restarts: the service's lists   *)
(* hold what its code puts into them; a reader that finds the stream       *)
(* (service.go:124-137) brings back times and nothing else.                *)
THEOREM MetricsAreTyped == MetricsSpec => []MetricsTypeOK
<1> QED
  BY IngestStarts, IngestStepsKeep, HistoryTypesStart, HistoryTypesStep, MetricsTypesFollow, PTL
  DEF MetricsSpec

=============================================================================
