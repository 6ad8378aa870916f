---------------------------- MODULE MCComponents ----------------------------
(***************************************************************************)
(* The components that share no state, side by side in one run: a behaviour*)
(* moves one of them, picked at its start, and the others stay where they  *)
(* began.  What each does is its own module's business.                    *)
(***************************************************************************)
EXTENDS KeyedMutex, Rollout, HealthGate, UserHub, AgentLink, Accounts, RateLimiter,
        Meters, Webhook, Collector, MetricsService, Instance, TLC

VARIABLE which   \* the component that moves

Picks == {"keyed_mutex", "rollout", "health_gate", "user_hub", "agent_link",
          "accounts", "rate_limiter", "meters", "webhook", "collector",
          "metrics_service", "instance"}

componentsVars == <<which, kmVars, rolloutVars, gateVars, hubVars, linkVars,
                    accountVars, limiterVars, metersVars, webhookVars, collectorVars,
                    metricsVars, instanceVars>>

(* Rollout and Meters begin in several states; standing still, one is      *)
(* enough.  A restart of the metrics service takes the place of a sample.  *)
ComponentsInit ==
    /\ which \in Picks
    /\ KMInit /\ RolloutInit /\ GateInit /\ HubInit /\ LinkInit /\ AccountsInit
    /\ LimiterInit /\ MetersInit /\ WebhookInit /\ CollectorInit /\ MetricsInit /\ InstanceInit
    /\ which # "rollout" => remote[branch] = 1
    /\ which # "meters" => watched = "cpu"

MoveMutex ==
    /\ which = "keyed_mutex" /\ KMNext
    /\ UNCHANGED <<which, rolloutVars, gateVars, hubVars, linkVars, accountVars,
                   limiterVars, metersVars, webhookVars, collectorVars, metricsVars, instanceVars>>

MoveRollout ==
    /\ which = "rollout" /\ RolloutNext
    /\ UNCHANGED <<which, kmVars, gateVars, hubVars, linkVars, accountVars,
                   limiterVars, metersVars, webhookVars, collectorVars, metricsVars, instanceVars>>

MoveGate ==
    /\ which = "health_gate" /\ GateNext
    /\ UNCHANGED <<which, kmVars, rolloutVars, hubVars, linkVars, accountVars,
                   limiterVars, metersVars, webhookVars, collectorVars, metricsVars, instanceVars>>

MoveHub ==
    /\ which = "user_hub" /\ HubNext
    /\ UNCHANGED <<which, kmVars, rolloutVars, gateVars, linkVars, accountVars,
                   limiterVars, metersVars, webhookVars, collectorVars, metricsVars, instanceVars>>

MoveLink ==
    /\ which = "agent_link" /\ LinkNext
    /\ UNCHANGED <<which, kmVars, rolloutVars, gateVars, hubVars, accountVars,
                   limiterVars, metersVars, webhookVars, collectorVars, metricsVars, instanceVars>>

MoveAccounts ==
    /\ which = "accounts" /\ AccountsNext
    /\ UNCHANGED <<which, kmVars, rolloutVars, gateVars, hubVars, linkVars,
                   limiterVars, metersVars, webhookVars, collectorVars, metricsVars, instanceVars>>

MoveLimiter ==
    /\ which = "rate_limiter" /\ LimiterNext
    /\ UNCHANGED <<which, kmVars, rolloutVars, gateVars, hubVars, linkVars,
                   accountVars, metersVars, webhookVars, collectorVars, metricsVars, instanceVars>>

MoveMeters ==
    /\ which = "meters" /\ MetersNext
    /\ UNCHANGED <<which, kmVars, rolloutVars, gateVars, hubVars, linkVars,
                   accountVars, limiterVars, webhookVars, collectorVars, metricsVars, instanceVars>>

MoveWebhook ==
    /\ which = "webhook" /\ WebhookNext
    /\ UNCHANGED <<which, kmVars, rolloutVars, gateVars, hubVars, linkVars,
                   accountVars, limiterVars, metersVars, collectorVars, metricsVars, instanceVars>>

MoveCollector ==
    /\ which = "collector" /\ CollectorNext
    /\ UNCHANGED <<which, kmVars, rolloutVars, gateVars, hubVars, linkVars,
                   accountVars, limiterVars, metersVars, webhookVars, metricsVars, instanceVars>>

MoveMetrics ==
    /\ which = "metrics_service" /\ MetricsNext /\ ingests' + restarts' <= MaxIngests
    /\ UNCHANGED <<which, kmVars, rolloutVars, gateVars, hubVars, linkVars,
                   accountVars, limiterVars, metersVars, webhookVars, collectorVars, instanceVars>>

MoveInstance ==
    /\ which = "instance" /\ InstanceNext
    /\ UNCHANGED <<which, kmVars, rolloutVars, gateVars, hubVars, linkVars,
                   accountVars, limiterVars, metersVars, webhookVars, collectorVars, metricsVars>>

ComponentsNext ==
    \/ MoveMutex \/ MoveRollout \/ MoveGate \/ MoveHub
    \/ MoveLink \/ MoveAccounts \/ MoveLimiter \/ MoveMeters
    \/ MoveWebhook \/ MoveCollector \/ MoveMetrics \/ MoveInstance

ComponentsSpec == ComponentsInit /\ [][ComponentsNext]_componentsVars

-----------------------------------------------------------------------------
(* The type invariants of the components, each while it moves.             *)
ComponentsTypeOK ==
    /\ which = "keyed_mutex" => KMTypeOK
    /\ which = "rollout" => RolloutTypeOK
    /\ which = "health_gate" => GateTypeOK
    /\ which = "user_hub" => HubTypeOK
    /\ which = "agent_link" => LinkTypeOK
    /\ which = "accounts" => AccountsTypeOK
    /\ which = "rate_limiter" => LimiterTypeOK
    /\ which = "meters" => MetersTypeOK
    /\ which = "webhook" => WebhookTypeOK
    /\ which = "collector" => CollectorTypeOK
    /\ which = "metrics_service" => MetricsTypeOK
    /\ which = "instance" => InstanceTypeOK

MCKindsOf ==
    [j \in Jobs |-> {"deploy"} \cup
        IF j = 1 THEN {} ELSE {"rollback", "start", "stop", "restart", "destroy"}]

Symm == Permutations(Branches)
=============================================================================
