------------------------------ MODULE UserHub ------------------------------
(***************************************************************************)
(* The dashboard's websocket hub: handlers that register clients, the two  *)
(* pumps of every client, the hub's goroutine with its five channels, and  *)
(* the subscribers of the event bus that broadcast domain events.          *)
(*                                                                         *)
(* A client's requests to the hub travel in one Go channel per kind of     *)
(* request; the hub's select takes from any that is not empty.             *)
(***************************************************************************)
EXTENDS Naturals, Sequences

CONSTANTS
    Clients,
    Inbox,         \* room in each request channel (64 in the code)
    EventRoom,     \* room in the broadcast channel (256)
    SendRoom,      \* room in a client's send channel (256)
    MaxWishes,     \* bound: subscriptions changed
    MaxBroadcasts  \* bound: broadcasts

ASSUME UserHubAssumption ==
    /\ {Inbox, EventRoom, SendRoom} \subseteq Nat \ {0}
    /\ {MaxWishes, MaxBroadcasts} \subseteq Nat

VARIABLES
    hub,        \* is the hub running, told to stop, returned or dead of a panic
    members,    \* Hub.clients
    channels,   \* Hub.channels: the subscribers of each
    inbox,      \* the hub's request channels
    broadcasts, \* Hub.events
    publishing, \* the channels a publisher has yet to broadcast to
    client,     \* each client: its read pump and the request it has in hand
    writer,     \* each client's write pump
    conn,       \* is the client's websocket open?
    ctx,        \* is the client's context alive?
    send,       \* each client's send channel
    closed,     \* clients whose send channel was closed
    sent,       \* broadcasts so far
    wishes

hubVars == <<hub, members, channels, inbox, broadcasts, publishing, client,
             writer, conn, ctx, send, closed, sent, wishes>>

(* A domain object has a channel of its own and one for the list it is in. *)
Channels == {"detail", "list"}
Requests == {"register", "unregister", "subscribe", "unsubscribe"}

(* The subscribers: which channels hear an event of each kind.             *)
TargetsOf == [created |-> <<"list">>, started |-> <<"detail">>,
              changed |-> <<"detail", "list">>]

NoRequest == [kind |-> "none", channel |-> "none"]
Request(k, ch) == [kind |-> k, channel |-> ch]

HubTypeOK ==
    /\ hub \in {"running", "stopping", "stopped", "panicked"}
    /\ members \subseteq Clients
    /\ channels \in [Channels -> SUBSET Clients]
    /\ \A k \in Requests : Len(inbox[k]) <= Inbox
    /\ Len(broadcasts) <= EventRoom /\ Len(publishing) <= 2
    /\ \A c \in Clients :
        /\ client[c].at \in {"none", "serve", "read", "send", "leave", "gone"}
        /\ client[c].request.kind \in Requests \cup {"none"}
        /\ writer[c] \in {"none", "run", "gone"}
        /\ Len(send[c]) <= SendRoom
    /\ conn \in [Clients -> BOOLEAN] /\ ctx \in [Clients -> BOOLEAN]
    /\ closed \subseteq Clients

HubInit ==
    /\ hub = "running" /\ members = {}
    /\ channels = [ch \in Channels |-> {}]
    /\ inbox = [k \in Requests |-> <<>>]
    /\ broadcasts = <<>> /\ publishing = <<>>
    /\ client = [c \in Clients |-> [at |-> "none", request |-> NoRequest]]
    /\ writer = [c \in Clients |-> "none"]
    /\ conn = [c \in Clients |-> FALSE] /\ ctx = [c \in Clients |-> TRUE]
    /\ send = [c \in Clients |-> <<>>] /\ closed = {}
    /\ sent = 0 /\ wishes = 0

-----------------------------------------------------------------------------
(* Publishers.                                                             *)

fromHub == <<hub, members, channels, inbox>>
pumps == <<client, writer, conn, ctx, send, closed>>

(* A domain event is published; its subscriber broadcasts channel by       *)
(* channel.                                                                *)
PublishEvent(e) ==
    /\ publishing = <<>> /\ hub # "panicked"
    /\ sent + Len(TargetsOf[e]) <= MaxBroadcasts
    /\ publishing' = TargetsOf[e]
    /\ UNCHANGED <<fromHub, broadcasts, pumps, sent, wishes>>

(* Hub.Broadcast: the event is dropped when there is no room, or, if the   *)
(* hub has stopped, perhaps.                                               *)
Broadcast ==
    /\ publishing # <<>> /\ hub # "panicked"
    /\ publishing' = Tail(publishing)
    /\ sent' = sent + 1
    /\ \/ /\ Len(broadcasts) < EventRoom
          /\ broadcasts' = Append(broadcasts, [n |-> sent + 1, channel |-> Head(publishing)])
       \/ /\ Len(broadcasts) = EventRoom \/ hub # "running"
          /\ UNCHANGED broadcasts
    /\ UNCHANGED <<fromHub, pumps, wishes>>

-----------------------------------------------------------------------------
(* A client: Serve, readPump, writePump.                                   *)

outside == <<hub, members, channels, broadcasts, publishing, closed, sent>>

Alive == hub # "panicked"
GoTo(c, at, request) == client' = [client EXCEPT ![c] = [at |-> at, request |-> request]]

(* Serve has upgraded the connection and is about to register the client.  *)
(* After a stop the HTTP server takes no more connections.                 *)
Connect(c) ==
    /\ client[c].at = "none" /\ hub = "running"
    /\ GoTo(c, "serve", Request("register", "none"))
    /\ conn' = [conn EXCEPT ![c] = TRUE]
    /\ UNCHANGED <<outside, inbox, writer, ctx, send, wishes>>

(* The blocking send of a request to the hub.  Registered, the client gets *)
(* its pumps; unregistered, it closes the connection.                      *)
HandOver(c) ==
    LET r == client[c].request IN
    /\ Alive /\ r # NoRequest
    /\ Len(inbox[r.kind]) < Inbox
    /\ inbox' = [inbox EXCEPT ![r.kind] = Append(@, [client |-> c, channel |-> r.channel])]
    /\ GoTo(c, IF client[c].at = "leave" THEN "gone" ELSE "read", NoRequest)
    /\ writer' = IF client[c].at = "serve" THEN [writer EXCEPT ![c] = "run"] ELSE writer
    /\ conn' = IF client[c].at = "leave" THEN [conn EXCEPT ![c] = FALSE] ELSE conn
    /\ UNCHANGED <<outside, ctx, send, wishes>>

Reading(c) == Alive /\ client[c].at = "read"

(* A message to subscribe or to unsubscribe.                               *)
ReadWish(c, k, ch) ==
    /\ Reading(c) /\ conn[c] /\ wishes < MaxWishes
    /\ wishes' = wishes + 1
    /\ GoTo(c, "send", Request(k, ch))
    /\ UNCHANGED <<outside, inbox, writer, conn, ctx, send>>

(* A ping is answered through the send channel, unless that is full.  Once *)
(* the hub has returned, the channel is closed and the answer panics.      *)
ReadPing(c) ==
    /\ Reading(c) /\ conn[c] /\ wishes < MaxWishes
    /\ wishes' = wishes + 1
    /\ IF c \in closed THEN hub' = "panicked" /\ UNCHANGED send
       ELSE /\ send' = IF Len(send[c]) < SendRoom THEN [send EXCEPT ![c] = Append(@, 0)]
                                                 ELSE send
            /\ UNCHANGED hub
    /\ UNCHANGED <<members, channels, broadcasts, publishing, closed, sent, inbox,
                   client, writer, conn, ctx>>

(* The read fails on a broken or closed connection, or the context is done:*)
(* the deferred calls cancel the client's context and unregister it.       *)
ReadEnds(c) ==
    /\ Reading(c) /\ ~(conn[c] /\ ctx[c])
    /\ ctx' = [ctx EXCEPT ![c] = FALSE]
    /\ GoTo(c, "leave", Request("unregister", "none"))
    /\ UNCHANGED <<outside, inbox, writer, conn, send, wishes>>

(* The browser goes away, or the connection breaks.                        *)
Break(c) ==
    /\ Alive /\ conn[c]
    /\ conn' = [conn EXCEPT ![c] = FALSE]
    /\ UNCHANGED <<outside, inbox, client, writer, ctx, send, wishes>>

WriterEnds(c) == /\ writer' = [writer EXCEPT ![c] = "gone"]
                 /\ conn' = [conn EXCEPT ![c] = FALSE]

(* writePump: the next message, unless the connection fails ...            *)
Write(c) ==
    /\ Alive /\ writer[c] = "run" /\ send[c] # <<>>
    /\ send' = [send EXCEPT ![c] = Tail(@)]
    /\ IF conn[c] THEN UNCHANGED <<writer, conn>> ELSE WriterEnds(c)
    /\ UNCHANGED <<outside, inbox, client, ctx, wishes>>

(* ... or the end: context done, channel closed and empty, failed ping.    *)
WriteEnds(c) ==
    /\ Alive /\ writer[c] = "run"
    /\ ~ctx[c] \/ (c \in closed /\ send[c] = <<>>) \/ ~conn[c]
    /\ WriterEnds(c)
    /\ UNCHANGED <<outside, inbox, client, ctx, send, wishes>>

-----------------------------------------------------------------------------
(* Hub.Run.                                                                *)

clientSide == <<client, conn, ctx, writer, sent, wishes, publishing>>

Next1(k) == Head(inbox[k])
Taken(k) == inbox' = [inbox EXCEPT ![k] = Tail(@)]

(* Mutant: handleEvent waits for a subscriber whose buffer is full.        *)
HubRunningBlocks ==
    /\ hub \in {"running", "stopping"}
    /\ broadcasts # <<>> => \A c \in channels[Head(broadcasts).channel] :
                               Len(send[c]) < SendRoom

HubRunning == hub \in {"running", "stopping"}
HasRequest(k) == HubRunning /\ inbox[k] # <<>>

Register ==
    /\ HasRequest("register") /\ Taken("register")
    /\ members' = members \cup {Next1("register").client}
    /\ UNCHANGED <<hub, channels, broadcasts, send, closed, clientSide>>

(* Mutant: an unknown client is closed as well.                            *)
UnregisterUnchecked ==
    LET c == Next1("unregister").client IN
    /\ HasRequest("unregister") /\ Taken("unregister")
    /\ members' = members \ {c}
    /\ closed' = closed \cup {c}
    /\ channels' = [ch \in Channels |-> channels[ch] \ {c}]
    /\ UNCHANGED <<hub, broadcasts, send, clientSide>>

(* Only a member's channel is closed, and it leaves all channels.          *)
Unregister ==
    LET c == Next1("unregister").client IN
    /\ HasRequest("unregister") /\ Taken("unregister")
    /\ IF c \in members
       THEN /\ members' = members \ {c}
            /\ closed' = closed \cup {c}
            /\ channels' = [ch \in Channels |-> channels[ch] \ {c}]
       ELSE UNCHANGED <<members, closed, channels>>
    /\ UNCHANGED <<hub, broadcasts, send, clientSide>>

Subscribe ==
    LET s == Next1("subscribe") IN
    /\ HasRequest("subscribe") /\ Taken("subscribe")
    /\ channels' = [channels EXCEPT ![s.channel] = @ \cup {s.client}]
    /\ UNCHANGED <<hub, members, broadcasts, send, closed, clientSide>>

Unsubscribe ==
    LET s == Next1("unsubscribe") IN
    /\ HasRequest("unsubscribe") /\ Taken("unsubscribe")
    /\ channels' = [channels EXCEPT ![s.channel] = @ \ {s.client}]
    /\ UNCHANGED <<hub, members, broadcasts, send, closed, clientSide>>

(* Mutant: the events are handled by goroutines of their own.              *)
HandleAnyEvent ==
    /\ HubRunning /\ broadcasts # <<>>
    /\ \E i \in 1..Len(broadcasts) :
        LET ev == broadcasts[i]  to == channels[ev.channel] IN
        /\ broadcasts' = SubSeq(broadcasts, 1, i - 1)
                            \o SubSeq(broadcasts, i + 1, Len(broadcasts))
        /\ to \cap closed = {}
        /\ send' = [c \in Clients |-> IF c \in to /\ Len(send[c]) < SendRoom
                                     THEN Append(send[c], ev.n) ELSE send[c]]
    /\ UNCHANGED <<hub, members, channels, inbox, closed, clientSide>>

(* handleEvent: to the channel's subscribers, dropped for those whose      *)
(* buffer is full.  Sending on a closed channel panics, and nothing        *)
(* recovers: the process ends.                                             *)
HandleEvent ==
    /\ HubRunning /\ broadcasts # <<>>
    /\ LET ev == Head(broadcasts)  to == channels[ev.channel] IN
       IF to \cap closed # {} THEN hub' = "panicked" /\ UNCHANGED send
       ELSE /\ send' = [c \in Clients |-> IF c \in to /\ Len(send[c]) < SendRoom
                                          THEN Append(send[c], ev.n) ELSE send[c]]
            /\ UNCHANGED hub
    /\ broadcasts' = Tail(broadcasts)
    /\ UNCHANGED <<members, channels, inbox, closed, clientSide>>

(* Hub.Stop: the clients' contexts descend from the hub's.                 *)
StopHub ==
    /\ hub = "running" /\ hub' = "stopping"
    /\ ctx' = [c \in Clients |-> FALSE]
    /\ UNCHANGED <<members, channels, inbox, broadcasts, publishing, client,
                   writer, conn, send, closed, sent, wishes>>

(* Run takes the case of its context in the end: every member's channel is *)
(* closed.                                                                 *)
HubReturns ==
    /\ hub = "stopping" /\ hub' = "stopped"
    /\ closed' = closed \cup members
    /\ UNCHANGED <<members, channels, inbox, broadcasts, publishing, client,
                   writer, conn, ctx, send, sent, wishes>>

HubStep == Register \/ Unregister \/ Subscribe \/ Unsubscribe \/ HandleEvent

HubNext ==
    \/ \E e \in DOMAIN TargetsOf : PublishEvent(e)
    \/ Broadcast
    \/ \E c \in Clients :
        \/ Connect(c) \/ HandOver(c) \/ ReadPing(c) \/ ReadEnds(c) \/ Break(c)
        \/ \E k \in {"subscribe", "unsubscribe"}, ch \in Channels : ReadWish(c, k, ch)
        \/ Write(c) \/ WriteEnds(c)
    \/ HubStep \/ StopHub \/ HubReturns

(* Go's select is fair to each of its ready cases; goroutines that can run *)
(* do.  Nobody needs to connect, to publish, to leave or to stop the hub.  *)
HubFairness ==
    /\ \A k \in Requests : WF_hubVars(HubStep /\ inbox'[k] # inbox[k])
    /\ WF_hubVars(HandleEvent)
    /\ \A c \in Clients : /\ WF_hubVars(HandOver(c)) /\ WF_hubVars(ReadEnds(c))
                          /\ WF_hubVars(Write(c)) /\ WF_hubVars(WriteEnds(c))

HubSpec == HubInit /\ [][HubNext]_hubVars /\ HubFairness

-----------------------------------------------------------------------------
(* Properties.                                                             *)

(* A dashboard gets what it gets in the order it was broadcast: drops leave*)
(* gaps but never show an old status after a newer one (hub.go:104-156).   *)
DeliveredInOrder ==
    \A c \in Clients : \A i \in DOMAIN send[c] : send[c][i] # 0 =>
        /\ \A j \in 1..(i - 1) : send[c][j] < send[c][i]
        /\ \A j \in DOMAIN broadcasts : send[c][i] < broadcasts[j].n

(* A channel is closed once (closing it again would panic): by the client's*)
(* unregistration or by the hub's end, in whatever order the hub took the  *)
(* requests (hub.go:61-63, 70-76).                                         *)
ClosedOnce ==
    [][/\ hub = "stopping" /\ hub' = "stopped" => members \cap closed = {}
       /\ HasRequest("unregister") /\ Len(inbox'["unregister"]) < Len(inbox["unregister"])
          /\ closed' # closed => Next1("unregister").client \notin closed]_hubVars

(* "A slow client is not a broken client" (hub.go:145): neither a listener *)
(* whose buffer is full nor one that has vanished with a full buffer holds *)
(* up the hub, so that whoever leaves a running hub gets rid of both pumps *)
(* and, once registered, of its membership (hub.go:136-156).               *)
LeaversAreForgotten ==
    \A c \in Clients :
        (client[c].at = "leave" /\ c \in members) ~>
            (hub # "running" \/ (c \notin members /\ client[c].at = "gone"
                                                  /\ writer[c] = "gone"))

(* "Channel-scoped event: only `sub` gets it" (hub_test.go:79): whoever left a *)
(* channel, or the hub, gets no more events; the hub of a running server   *)
(* never sends to a client whose channel it has closed (hub.go:76, 143).   *)
NoSendOnClosed == [][hub = "running" => hub' # "panicked"]_hubVars

=============================================================================
