-------------------------- MODULE MCComponentsLive --------------------------
(***************************************************************************)
(* The components that promise progress, side by side in one run: a        *)
(* behaviour moves one of them, picked at its start.  The fairness is what *)
(* each module states as its own, asked of the component that moves.       *)
(***************************************************************************)
EXTENDS KeyedMutex, HealthGate, UserHub, AgentLink, Webhook, MetricsService

VARIABLE which   \* the component that moves

Picks == {"keyed_mutex", "health_gate", "user_hub", "agent_link", "webhook",
          "metrics_service"}

liveVars == <<which, kmVars, gateVars, hubVars, linkVars, webhookVars, metricsVars>>

LiveInit == /\ which \in Picks
            /\ KMInit /\ GateInit /\ HubInit /\ LinkInit /\ WebhookInit /\ MetricsInit

MoveMutex ==
    /\ which = "keyed_mutex" /\ KMNext
    /\ UNCHANGED <<which, gateVars, hubVars, linkVars, webhookVars, metricsVars>>

MoveGate ==
    /\ which = "health_gate" /\ GateNext
    /\ UNCHANGED <<which, kmVars, hubVars, linkVars, webhookVars, metricsVars>>

(* One of the two channels is enough for a slow listener, and a hub that   *)
(* is told to stop promises nothing.                                       *)
OneChannel ==
    /\ hub' # "stopping" /\ publishing' \in {<<>>, <<"detail">>}
    /\ \A c \in Clients : client'[c].request.channel # "list"

MoveHub ==
    /\ which = "user_hub" /\ HubNext /\ OneChannel
    /\ UNCHANGED <<which, kmVars, gateVars, linkVars, webhookVars, metricsVars>>

MoveLink ==
    /\ which = "agent_link" /\ LinkNext
    /\ UNCHANGED <<which, kmVars, gateVars, hubVars, webhookVars, metricsVars>>

MoveWebhook ==
    /\ which = "webhook" /\ WebhookNext
    /\ UNCHANGED <<which, kmVars, gateVars, hubVars, linkVars, metricsVars>>

MoveMetrics ==
    /\ which = "metrics_service" /\ MetricsNext
    /\ UNCHANGED <<which, kmVars, gateVars, hubVars, linkVars, webhookVars>>

LiveNext == MoveMutex \/ MoveGate \/ MoveHub \/ MoveLink \/ MoveWebhook \/ MoveMetrics

-----------------------------------------------------------------------------
(* KMFairness, GateFairness, HubFairness, LinkFairness, WebhookFairness and *)
(* MetricsFairness; no step of one component is enabled while another moves.*)

Moving(c) == which = c

MutexFairness ==
    \A t \in Threads :
        /\ WF_kmVars(Moving("keyed_mutex") /\ Unlock(t))
        /\ WF_kmVars(Moving("keyed_mutex") /\ Cleanup(t))
        /\ SF_kmVars(Moving("keyed_mutex") /\ Acquire(t))

DeployFairness ==
    /\ WF_gateVars(Moving("health_gate") /\ GateStep)
    /\ WF_gateVars(Moving("health_gate") /\ Deadline)

DashboardFairness ==
    /\ \A k \in Requests :
          WF_hubVars(Moving("user_hub") /\ HubStep /\ inbox'[k] # inbox[k])
    /\ WF_hubVars(Moving("user_hub") /\ HandleEvent)
    /\ \A c \in Clients : /\ WF_hubVars(Moving("user_hub") /\ HandOver(c))
                          /\ WF_hubVars(Moving("user_hub") /\ ReadEnds(c))
                          /\ WF_hubVars(Moving("user_hub") /\ Write(c))
                          /\ WF_hubVars(Moving("user_hub") /\ WriteEnds(c))

AgentFairness ==
    /\ WF_linkVars(Moving("agent_link") /\ ReadNext)
    /\ WF_linkVars(Moving("agent_link") /\ ReadReturns /\ reader' = "gone")
    /\ WF_linkVars(Moving("agent_link") /\ WriteOrPing)
    /\ WF_linkVars(Moving("agent_link") /\ PumpsExited)

NotifierFairness ==
    /\ \A p \in Publishers :
          WF_webhookVars(Moving("webhook") /\ (Offer(p) \/ Evict(p) \/ Insist(p)))
    /\ WF_webhookVars(Moving("webhook") /\ (TakeEvent \/ Post))

SamplesFairness ==
    /\ \A h \in Ingesters : SF_metricsVars(Moving("metrics_service") /\ RecordLatest(h))
    /\ \A h \in Ingesters : WF_metricsVars(Moving("metrics_service") /\ IngestStep(h))
    /\ WF_metricsVars(Moving("metrics_service") /\ BeginFlush)
    /\ WF_metricsVars(Moving("metrics_service") /\ EndFlush)
    /\ WF_metricsVars(Moving("metrics_service") /\ BroadcastEnds)

LiveSpec ==
    /\ LiveInit /\ [][LiveNext]_liveVars
    /\ MutexFairness /\ DeployFairness /\ DashboardFairness
    /\ AgentFairness /\ NotifierFairness /\ SamplesFairness

=============================================================================
