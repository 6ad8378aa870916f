------------------------------ MODULE Webhook ------------------------------
(***************************************************************************)
(* The webhook notifier.  Handle runs on the goroutine that publishes the  *)
(* event (the bus is synchronous), so requests that finish deployments of  *)
(* different applications are in Handle at the same time; one worker       *)
(* drains the queue.  Handle must never wait, so a full queue makes room   *)
(* by dropping its oldest entry, in two channel operations.                *)
(***************************************************************************)
EXTENDS Naturals, Sequences, SequencesExt

CONSTANTS Publishers,  \* goroutines that publish terminal deployment events
          QueueRoom,   \* capacity of the events channel, 64 in the code
          MaxNews    \* bound: events published

ASSUME WebhookAssumption == QueueRoom \in Nat \ {0} /\ MaxNews \in Nat

VARIABLES
    enabled,   \* webhook settings: enabled and with a URL
    queue,     \* Notifier.events
    handling,  \* handling[p]: where Handle of p stands, and its event
    posting,   \* the event the worker is posting, 0 when it waits
    refused,   \* history: events that found no room
    crowded,   \* history: events whose Handle met another Handle
    published  \* events so far: ids count up as Handle is entered

webhookVars == <<enabled, queue, handling, posting, refused, crowded, published>>

NotHandling == [at |-> "out", event |-> 0]
Events == 1..MaxNews

WebhookTypeOK ==
    /\ enabled \in BOOLEAN
    /\ queue \in Seq(Events)
    /\ handling \in [Publishers -> [at : {"out", "offer", "evict", "again"}, event : 0..MaxNews]]
    /\ posting \in 0..MaxNews /\ published \in 0..MaxNews
    /\ {crowded, refused} \subseteq SUBSET Events

WebhookInit ==
    /\ enabled = TRUE
    /\ queue = <<>>
    /\ handling = [p \in Publishers |-> NotHandling]
    /\ posting = 0 /\ published = 0
    /\ refused = {} /\ crowded = {}

-----------------------------------------------------------------------------
(* Handle.                                                                 *)

InHandle == {p \in Publishers : handling[p].at # "out"}
Leave(p) == handling' = [handling EXCEPT ![p] = NotHandling]
MoveOn(p, at) == handling' = [handling EXCEPT ![p].at = at]

(* The settings are read before anything else; an event that is not        *)
(* terminal returns there too and is not modelled.                         *)
HandleEnter(p) ==
    /\ handling[p].at = "out"
    /\ enabled /\ published < MaxNews
    /\ published' = published + 1
    /\ handling' = [handling EXCEPT ![p] = [at |-> "offer", event |-> published + 1]]
    /\ crowded' = IF InHandle = {} THEN crowded
                  ELSE crowded \cup {published + 1} \cup {handling[q].event : q \in InHandle}
    /\ UNCHANGED <<enabled, queue, posting, refused>>

(* The first select: room, or the default branch.                          *)
Offer(p) ==
    /\ handling[p].at = "offer"
    /\ IF Len(queue) < QueueRoom
       THEN queue' = Append(queue, handling[p].event) /\ Leave(p)
       ELSE UNCHANGED queue /\ MoveOn(p, "evict")
    /\ UNCHANGED <<enabled, posting, refused, crowded, published>>

(* Mutant: with the queue full the new event is what goes.                 *)
EvictNewest(p) ==
    /\ handling[p].at = "evict"
    /\ refused' = refused \cup {handling[p].event}
    /\ Leave(p)
    /\ UNCHANGED <<enabled, queue, posting, crowded, published>>

(* The second select: the oldest goes, if the worker has not emptied the   *)
(* queue since.                                                            *)
Evict(p) ==
    /\ handling[p].at = "evict"
    /\ queue' = IF queue = <<>> THEN queue ELSE Tail(queue)
    /\ MoveOn(p, "again")
    /\ UNCHANGED <<enabled, posting, refused, crowded, published>>

(* The third: another Handle may have taken the room.                      *)
Insist(p) ==
    /\ handling[p].at = "again"
    /\ IF Len(queue) < QueueRoom
       THEN queue' = Append(queue, handling[p].event) /\ UNCHANGED refused
       ELSE refused' = refused \cup {handling[p].event} /\ UNCHANGED queue
    /\ Leave(p)
    /\ UNCHANGED <<enabled, posting, crowded, published>>

-----------------------------------------------------------------------------
(* The worker, and the dashboard's settings page.                          *)

(* Mutant: while the webhook is off the worker leaves the queue alone.      *)
TakeWhileEnabled ==
    /\ posting = 0 /\ queue # <<>> /\ enabled
    /\ queue' = Tail(queue) /\ posting' = Head(queue)
    /\ UNCHANGED <<enabled, handling, refused, crowded, published>>

(* run: the settings are read again, and may say no by now.                *)
TakeEvent ==
    /\ posting = 0 /\ queue # <<>>
    /\ queue' = Tail(queue)
    /\ posting' = IF enabled THEN Head(queue) ELSE posting
    /\ UNCHANGED <<enabled, handling, refused, crowded, published>>

(* post: an answer, an error or the 5 s timeout, which are only logged.    *)
Post ==
    /\ posting # 0
    /\ posting' = 0
    /\ UNCHANGED <<enabled, queue, handling, refused, crowded, published>>

SaveSettings ==
    /\ enabled' = ~enabled
    /\ UNCHANGED <<queue, handling, posting, refused, crowded, published>>

HandleStep(p) == HandleEnter(p) \/ Offer(p) \/ Evict(p) \/ Insist(p)

WebhookNext ==
    \/ \E p \in Publishers : HandleStep(p)
    \/ TakeEvent \/ Post \/ SaveSettings

\* goroutines run, and the HTTP client gives up after its timeout
WebhookFairness ==
    /\ \A p \in Publishers : WF_webhookVars(Offer(p) \/ Evict(p) \/ Insist(p))
    /\ WF_webhookVars(TakeEvent \/ Post)

WebhookSpec == WebhookInit /\ [][WebhookNext]_webhookVars /\ WebhookFairness

-----------------------------------------------------------------------------
(* "if the queue is full, drop the oldest and keep the newest"             *)
(* (notifier.go:127): an event finds no room only when another Handle ran  *)
(* at the same time.  With one that overlaps it the newest may go.         *)
NewestGoesOnlyInACrowd == refused \subseteq crowded

(* What is being handled or queued is done with in the end, whoever else   *)
(* fills the queue, also when posts fail or the webhook is switched off in *)
(* between (notifier.go:8-11, 76-88).                                      *)
InFlight(e) == posting = e \/ e \in Range(queue) \/ \E p \in InHandle : handling[p].event = e
QueueDrains == \A e \in Events : InFlight(e) ~> ~InFlight(e)
=============================================================================
