-------------------------- MODULE Components_proofs --------------------------
(***************************************************************************)
(* The components that share no state, side by side: what one does is a    *)
(* stutter of each of the others, so a behaviour of MCComponents is at once*)
(* a behaviour of every component, and what is proved of them one by one   *)
(* holds while any of them moves.                                          *)
(***************************************************************************)
EXTENDS MCComponents, KeyedMutex_proofs, Rollout_proofs, Host_proofs, Links_proofs,
        Accounts_proofs

(* Every component starts as its own specification says.                   *)
LEMMA ComponentsStart ==
    ASSUME ComponentsInit
    PROVE  /\ KMInit /\ RolloutInit /\ GateInit /\ HubInit /\ LinkInit /\ AccountsInit
           /\ LimiterInit /\ MetersInit /\ WebhookInit /\ CollectorInit /\ MetricsInit
           /\ InstanceInit
BY DEF ComponentsInit

(* Every step is a step or a stutter of every component.                   *)
LEMMA ComponentsStepApart ==
    ASSUME [ComponentsNext]_componentsVars
    PROVE  /\ [KMNext]_kmVars /\ [RolloutNext]_rolloutVars /\ [GateNext]_gateVars
           /\ [HubNext]_hubVars /\ [LinkNext]_linkVars /\ [AccountsNext]_accountVars
           /\ [LimiterNext]_limiterVars /\ [MetersNext]_metersVars
           /\ [WebhookNext]_webhookVars /\ [CollectorNext]_collectorVars
           /\ [MetricsNext]_metricsVars /\ [InstanceNext]_instanceVars
<1> USE DEF ComponentsNext, MoveMutex, MoveRollout, MoveGate, MoveHub, MoveLink, MoveAccounts,
            MoveLimiter, MoveMeters, MoveWebhook, MoveCollector, MoveMetrics, MoveInstance
<1>1. CASE UNCHANGED componentsVars
  BY <1>1 DEF componentsVars
<1>2. CASE ComponentsNext
  BY <1>2
<1> QED BY <1>1, <1>2

(* What is proved of the components one by one.                            *)
ComponentsInv ==
    /\ KMInv /\ RolloutInv /\ AccountsInv /\ LimiterInv /\ MetersInv /\ WebhookInv
    /\ CollectorInv /\ InstanceInv /\ LinkInv
    /\ GateInv /\ GatePlaces
    /\ HubInv /\ DeliveryInv /\ HubRooms
    /\ IngestInv /\ HistoryTypes

(* None of them disturbs another.                                          *)
LEMMA ComponentsInvInductive ==
    /\ ComponentsInit => ComponentsInv
    /\ ComponentsInv /\ [ComponentsNext]_componentsVars => ComponentsInv'
<1>1. ASSUME ComponentsInit PROVE ComponentsInv
  <2>1. KMInv /\ RolloutInv /\ AccountsInv /\ LimiterInv
    BY <1>1, ComponentsStart, KMInvInductive, RolloutBegins, AccountsStart, LimiterStarts
  <2>2. MetersInv /\ WebhookInv /\ CollectorInv /\ InstanceInv
    BY <1>1, ComponentsStart, MetersStart, WebhookStarts, CollectorStarts, InstanceStarts
  <2>3. LinkInv /\ GateInv /\ GatePlaces
    BY <1>1, ComponentsStart, LinkStarts, GateStarts, GatePlacesStart
  <2>4. HubInv /\ DeliveryInv /\ HubRooms
    BY <1>1, ComponentsStart, HubStarts, DeliveryStarts, RoomsStart
  <2>5. IngestInv /\ HistoryTypes
    BY <1>1, ComponentsStart, IngestStarts, HistoryTypesStart
  <2> QED BY <2>1, <2>2, <2>3, <2>4, <2>5 DEF ComponentsInv
<1>2. ASSUME ComponentsInv, [ComponentsNext]_componentsVars PROVE ComponentsInv'
  <2>1. KMInv' /\ RolloutInv' /\ AccountsInv' /\ LimiterInv'
    BY <1>2, ComponentsStepApart, KMInvInductive, RolloutStep, AccountsKeep, LimiterKeeps
    DEF ComponentsInv
  <2>2. MetersInv' /\ WebhookInv' /\ CollectorInv' /\ InstanceInv'
    BY <1>2, ComponentsStepApart, MetersKeep, WebhookKeeps, CollectorKeeps, InstanceKeeps
    DEF ComponentsInv
  <2>3. LinkInv' /\ GateInv' /\ GatePlaces'
    BY <1>2, ComponentsStepApart, LinkStepsKeep, GateStepKeeps, GatePlacesStep
    DEF ComponentsInv
  <2>4. HubInv' /\ DeliveryInv' /\ HubRooms'
    BY <1>2, ComponentsStepApart, HubStepsKeep, DeliveryStepsKeep, RoomsStep
    DEF ComponentsInv
  <2>5. IngestInv' /\ HistoryTypes'
    BY <1>2, ComponentsStepApart, IngestStepsKeep, HistoryTypesStep DEF ComponentsInv
  <2> QED BY <2>1, <2>2, <2>3, <2>4, <2>5 DEF ComponentsInv
<1> QED BY <1>1, <1>2

(* For any number of goroutines, orders, clients, connections, requests,   *)
(* samples and releases: whichever component moves keeps its types, and so *)
(* do the ones that stand still.                                           *)
THEOREM ComponentsAreTyped == ComponentsSpec => []ComponentsTypeOK
<1>1. ASSUME ComponentsInv PROVE ComponentsTypeOK
  <2>1. KMTypeOK /\ RolloutTypeOK /\ AccountsTypeOK /\ LimiterTypeOK
    BY <1>1 DEF ComponentsInv, KMInv, RolloutInv, AccountsInv, LimiterInv
  <2>2. MetersTypeOK /\ WebhookTypeOK /\ CollectorTypeOK /\ InstanceTypeOK /\ LinkTypeOK
    BY <1>1 DEF ComponentsInv, MetersInv, WebhookInv, CollectorInv, InstanceInv, LinkInv
  <2>3. GateTypeOK /\ HubTypeOK /\ MetricsTypeOK
    BY <1>1, GateTypesFollow, HubTypesFollow, MetricsTypesFollow DEF ComponentsInv
  <2> QED BY <2>1, <2>2, <2>3 DEF ComponentsTypeOK
<1> QED BY <1>1, ComponentsInvInductive, PTL DEF ComponentsSpec

=============================================================================
