----------------------------- MODULE AgentLink -----------------------------
(***************************************************************************)
(* The websocket between one host's agent and the server: the agent's dial *)
(* loop, its two pumps and the goroutine that closes the shared connection *)
(* pointer; the server's handler, its client per connection, the router,   *)
(* and servers.is_online.                                                  *)
(***************************************************************************)
EXTENDS Naturals, Sequences

CONSTANTS
    MaxConns,    \* bound: connections dialled
    LinkInbox,   \* room in the router's channels (64 in the code)
    MaxOutages   \* bound: rotated secrets and killed servers

ASSUME AgentLinkAssumption ==
    /\ MaxConns \in Nat \ {0} /\ LinkInbox \in Nat \ {0}
    /\ MaxOutages \in Nat

VARIABLES
    link,       \* each connection: open, closed by a close message, or broken
    \* the agent
    loop,       \* where Agent.Start is
    cur,        \* the connection of the last dial
    pointer,    \* Agent.conn, shared by all its goroutines; 0 is nil
    reader,     \* the read pump of the current dial
    writerA,    \* its write pump
    cancelled,  \* connections whose errgroup context has ended
    closer,     \* the goroutine that waits for the context of each dial
    secret,     \* does the agent hold the server's current secret?
    \* the server
    online,     \* servers.is_online
    serve,      \* the handler and the read pump of each connection
    agents,     \* Router.agents for this server; 0 is none
    registerQ, unregisterQ,
    ended,      \* connections whose send channel the router has closed
    overlap,    \* history: a connection was accepted before the last had left
    forgotten,  \* history: is_online was left by a server that was killed
    outages

agentVars == <<loop, cur, pointer, reader, writerA, cancelled, closer, secret>>
serverVars == <<online, serve, agents, registerQ, unregisterQ, ended, overlap,
                forgotten>>
linkVars == <<link, agentVars, serverVars, outages>>

Conns == 1..MaxConns

LinkTypeOK ==
    /\ link \in [Conns -> {"none", "open", "closed", "broken"}]
    /\ loop \in {"dial", "pumps", "wait", "stopped", "panicked"}
    /\ cur \in 0..MaxConns /\ pointer \in {0, cur} /\ agents \in 0..MaxConns
    /\ reader \in {"none", "top", "reading", "gone"}
    /\ writerA \in {"none", "select", "gone"}
    /\ cancelled \subseteq Conns /\ ended \subseteq Conns
    /\ closer \in [Conns -> {"none", "waiting", "closing", "done"}]
    /\ {secret, online, overlap, forgotten} \subseteq BOOLEAN
    /\ serve \in [Conns -> {"none", "upgraded", "online", "read", "leave",
                            "offline", "gone"}]
    /\ Len(registerQ) <= LinkInbox /\ Len(unregisterQ) <= LinkInbox

LinkInit ==
    /\ link = [i \in Conns |-> "none"]
    /\ loop = "dial" /\ cur = 0 /\ pointer = 0
    /\ reader = "none" /\ writerA = "none"
    /\ cancelled = {} /\ closer = [i \in Conns |-> "none"]
    /\ secret = TRUE /\ online = FALSE
    /\ serve = [i \in Conns |-> "none"] /\ agents = 0
    /\ registerQ = <<>> /\ unregisterQ = <<>> /\ ended = {}
    /\ overlap = FALSE /\ forgotten = FALSE /\ outages = 0

-----------------------------------------------------------------------------
(* The agent.                                                              *)

Pumping == loop = "pumps"
Cancelled == cur \in cancelled

(* dialUp: the handler's AuthorizeAgent accepts the secret, and the pumps  *)
(* and the closer of this dial begin.                                      *)
Dial ==
    /\ loop = "dial" /\ secret /\ cur < MaxConns
    /\ cur' = cur + 1 /\ pointer' = cur + 1
    /\ link' = [link EXCEPT ![cur + 1] = "open"]
    /\ serve' = [serve EXCEPT ![cur + 1] = "upgraded"]
    /\ overlap' = (overlap \/ \E i \in Conns : serve[i] \notin {"none", "gone"})
    /\ loop' = "pumps" /\ reader' = "top" /\ writerA' = "select"
    /\ closer' = [closer EXCEPT ![cur + 1] = "waiting"]
    /\ UNCHANGED <<cancelled, secret, online, agents, registerQ, unregisterQ, ended,
                   forgotten, outages>>

(* The dial fails, or the secret is refused, which ends Start for good.    *)
DialFails ==
    /\ loop = "dial"
    /\ loop' = IF secret THEN "wait" ELSE "stopped"
    /\ UNCHANGED <<link, cur, pointer, reader, writerA, cancelled, closer, secret,
                   serverVars, outages>>

(* The process dies of a nil connection; its sockets are closed.           *)
Panic == /\ loop' = "panicked" /\ link' = [link EXCEPT ![cur] = "broken"]
         /\ UNCHANGED <<reader, writerA, cancelled>>

PumpOnly == UNCHANGED <<cur, pointer, closer, secret, serverVars, outages>>

(* readPump: the context, then ReadMessage on what the pointer is now.     *)
ReadNext ==
    /\ Pumping /\ reader = "top"
    /\ \/ Cancelled /\ reader' = "gone" /\ UNCHANGED <<loop, link, cancelled, writerA>>
       \/ ~Cancelled /\ pointer # 0 /\ reader' = "reading"
          /\ UNCHANGED <<loop, link, cancelled, writerA>>
       \/ ~Cancelled /\ pointer = 0 /\ Panic
    /\ PumpOnly

(* A message was read, or the connection failed: an error ends the errgroup*)
(* context, a close message of the normal kind does not.                   *)
ReadReturns ==
    /\ Pumping /\ reader = "reading"
    /\ \/ link[cur] = "open" /\ reader' = "top" /\ UNCHANGED cancelled
       \/ /\ link[cur] # "open" /\ reader' = "gone"
          /\ cancelled' = cancelled \cup {cur}
       \/ /\ link[cur] = "closed" /\ reader' = "gone"
          /\ UNCHANGED cancelled
    /\ UNCHANGED <<loop, link, writerA>> /\ PumpOnly

(* Mutant: the write pump looks at messages only, and none comes.          *)
WriteWithoutPing ==
    /\ Pumping /\ writerA = "select" /\ Cancelled /\ writerA' = "gone"
    /\ UNCHANGED <<loop, link, cancelled, reader>> /\ PumpOnly

(* writePump: a message or the ticker, whose write goes to what the pointer*)
(* is now, even when the context has ended as well.                        *)
WriteOrPing ==
    /\ Pumping /\ writerA = "select"
    /\ \/ pointer = 0 /\ Panic
       \/ /\ pointer # 0 /\ link[cur] # "open"
          /\ writerA' = "gone" /\ cancelled' = cancelled \cup {cur}
          /\ UNCHANGED <<loop, link, reader>>
       \/ /\ Cancelled /\ writerA' = "gone"
          /\ UNCHANGED <<loop, link, cancelled, reader>>
    /\ PumpOnly

(* g.Wait has both pumps' results, which ends the context in any case.     *)
PumpsExited ==
    /\ Pumping /\ reader = "gone" /\ writerA = "gone"
    /\ loop' = "wait" /\ cancelled' = cancelled \cup {cur}
    /\ UNCHANGED <<link, reader, writerA>> /\ PumpOnly

(* Five seconds later.                                                     *)
Redial ==
    /\ loop = "wait" /\ loop' = "dial"
    /\ UNCHANGED <<link, reader, writerA, cancelled>> /\ PumpOnly

(* The closer of dial i wakes up, finds a connection and writes a close    *)
(* message, which may take the ten seconds of its deadline ...             *)
CloserWakes(i) ==
    /\ loop # "panicked" /\ closer[i] = "waiting" /\ i \in cancelled
    /\ closer' = [closer EXCEPT ![i] = IF pointer = 0 THEN "done" ELSE "closing"]
    /\ UNCHANGED <<link, loop, cur, pointer, reader, writerA, cancelled, secret,
                   serverVars, outages>>

(* ... and then closes and clears what the pointer is by then.             *)
CloserCloses(i) ==
    /\ loop # "panicked" /\ closer[i] = "closing"
    /\ closer' = [closer EXCEPT ![i] = "done"]
    /\ pointer' = 0
    /\ IF pointer = 0 THEN loop' = "panicked" /\ UNCHANGED link
       ELSE /\ link' = [link EXCEPT ![pointer] = IF @ = "open" THEN "closed" ELSE @]
            /\ UNCHANGED loop
    /\ UNCHANGED <<cur, reader, writerA, cancelled, secret, serverVars, outages>>

(* systemd starts the agent again (Restart=always).                        *)
Restarted ==
    /\ loop = "panicked" /\ loop' = "dial"
    /\ pointer' = 0 /\ reader' = "none" /\ writerA' = "none"
    /\ cancelled' = Conns /\ closer' = [i \in Conns |-> "done"]
    /\ UNCHANGED <<link, cur, secret, serverVars, outages>>

(* The network breaks a connection; either side may be the first to notice.*)
LinkBreaks(i) ==
    /\ link[i] = "open" /\ link' = [link EXCEPT ![i] = "broken"]
    /\ UNCHANGED <<agentVars, serverVars, outages>>

-----------------------------------------------------------------------------
(* The server.                                                             *)

serverOnly == <<agentVars, overlap, outages>>
ServeTo(i, at) == serve' = [serve EXCEPT ![i] = at]

(* Service.UpdateStatus: an unconditional update of the row.               *)
UpdateStatus(status) == online' = status /\ forgotten' = FALSE

(* Handler.Serve sets the server online once the connection is upgraded, or*)
(* gives up when it cannot.                                                *)
ServeOnline(i) ==
    /\ serve[i] = "upgraded"
    /\ \/ UpdateStatus(TRUE) /\ ServeTo(i, "online") /\ UNCHANGED link
       \/ /\ ServeTo(i, "gone") /\ link' = [link EXCEPT ![i] = "broken"]
          /\ UNCHANGED <<online, forgotten>>
    /\ UNCHANGED <<agents, registerQ, unregisterQ, ended, serverOnly>>

ServeRegister(i) ==
    /\ serve[i] = "online" /\ Len(registerQ) < LinkInbox
    /\ registerQ' = Append(registerQ, i) /\ ServeTo(i, "read")
    /\ UNCHANGED <<link, online, forgotten, agents, unregisterQ, ended, serverOnly>>

(* The server's read pump fails.                                           *)
ServerReadEnds(i) ==
    /\ serve[i] = "read" /\ link[i] # "open"
    /\ ServeTo(i, "leave")
    /\ UNCHANGED <<link, online, forgotten, agents, registerQ, unregisterQ, ended,
                   serverOnly>>

(* Its deferred calls: unregister, offline, close.                         *)
ServeUnregister(i) ==
    /\ serve[i] = "leave" /\ Len(unregisterQ) < LinkInbox
    /\ unregisterQ' = Append(unregisterQ, i) /\ ServeTo(i, "offline")
    /\ UNCHANGED <<link, online, forgotten, agents, registerQ, ended, serverOnly>>

(* Mutant: a client whose channel the router closed leaves the row alone.  *)
ServeOfflineUnlessEnded(i) ==
    /\ serve[i] = "offline"
    /\ IF i \in ended THEN UNCHANGED <<online, forgotten>> ELSE UpdateStatus(FALSE)
    /\ ServeTo(i, "gone")
    /\ UNCHANGED <<link, agents, registerQ, unregisterQ, ended, serverOnly>>

ServeOffline(i) ==
    /\ serve[i] = "offline"
    /\ UpdateStatus(FALSE)
    /\ ServeTo(i, "gone")
    /\ UNCHANGED <<link, agents, registerQ, unregisterQ, ended, serverOnly>>

(* Router.Run: the newest registration of a server is its client.          *)
RouterRegister ==
    /\ registerQ # <<>> /\ registerQ' = Tail(registerQ)
    /\ agents' = Head(registerQ)
    /\ UNCHANGED <<link, online, forgotten, serve, unregisterQ, ended, serverOnly>>

(* Mutant: the closed client stays in the map.                             *)
RouterUnregisterKeeps ==
    /\ unregisterQ # <<>> /\ unregisterQ' = Tail(unregisterQ)
    /\ ended' = IF agents = 0 THEN ended ELSE ended \cup {agents}
    /\ UNCHANGED <<agents, link, online, forgotten, serve, registerQ, serverOnly>>

(* Whoever unregisters, it is the server's client of the moment that is    *)
(* closed, which may be a newer one.                                       *)
RouterUnregister ==
    /\ unregisterQ # <<>> /\ unregisterQ' = Tail(unregisterQ)
    /\ ended' = IF agents = 0 THEN ended ELSE ended \cup {agents}
    /\ agents' = 0
    /\ UNCHANGED <<link, online, forgotten, serve, registerQ, serverOnly>>

(* The write pump of a client whose channel was closed ends the connection *)
(* with a close message without a status, which is not the normal kind.    *)
ServerCloses(i) ==
    /\ i \in ended /\ serve[i] = "read" /\ link[i] = "open"
    /\ link' = [link EXCEPT ![i] = "broken"]
    /\ UNCHANGED <<online, forgotten, serve, agents, registerQ, unregisterQ, ended,
                   serverOnly>>

(* Service.RotateSecret or Delete: the next dial is refused, while the     *)
(* connection there is goes on.                                            *)
RotateSecret ==
    /\ outages < MaxOutages /\ outages' = outages + 1
    /\ secret' = FALSE
    /\ UNCHANGED <<link, loop, cur, pointer, reader, writerA, cancelled, closer,
                   serverVars>>

(* The server process is killed; no deferred call runs.  The next one      *)
(* starts with an empty router and the row as it was left.                 *)
ServerKilled ==
    /\ outages < MaxOutages /\ outages' = outages + 1
    /\ link' = [i \in Conns |-> IF link[i] = "open" THEN "broken" ELSE link[i]]
    /\ serve' = [i \in Conns |-> IF serve[i] = "none" THEN "none" ELSE "gone"]
    /\ agents' = 0 /\ registerQ' = <<>> /\ unregisterQ' = <<>> /\ ended' = {}
    /\ forgotten' = TRUE
    /\ UNCHANGED <<online, overlap, agentVars>>

AgentStep == \/ DialFails \/ ReadNext \/ ReadReturns \/ WriteOrPing \/ PumpsExited
             \/ Redial \/ Restarted

ServerStep(i) == \/ ServeOnline(i) \/ ServeRegister(i) \/ ServerReadEnds(i)
                 \/ ServeUnregister(i) \/ ServeOffline(i) \/ ServerCloses(i)

LinkNext ==
    \/ Dial \/ AgentStep
    \/ \E i \in Conns : CloserWakes(i) \/ CloserCloses(i) \/ LinkBreaks(i) \/ ServerStep(i)
    \/ RouterRegister \/ RouterUnregister
    \/ RotateSecret \/ ServerKilled

(* The agent's goroutines run, and its ping ticker ticks; the pumps wait   *)
(* for each other, so each needs its turn.                                 *)
LinkFairness ==
    /\ WF_linkVars(ReadNext) /\ WF_linkVars(ReadReturns /\ reader' = "gone")
    /\ WF_linkVars(WriteOrPing) /\ WF_linkVars(PumpsExited)

LinkSpec == LinkInit /\ [][LinkNext]_linkVars /\ LinkFairness

-----------------------------------------------------------------------------
(* Properties.                                                             *)

LinkQuiet == /\ registerQ = <<>> /\ unregisterQ = <<>>
             /\ \A i \in Conns : \/ serve[i] \in {"none", "gone"}
                                 \/ serve[i] = "read" /\ link[i] = "open"

(* is_online decides which hosts get metrics and health jobs               *)
(* (workers/metrics_collect_worker.go:35).  Once both sides are quiet, a   *)
(* server with no connection is never online, unless it was killed, and one*)
(* with a connection is, unless that connection was accepted before the    *)
(* last one's read pump had noticed its end (agentws/client.go:60).        *)
OnlineAgreesOnceQuiet ==
    LET connected == \E i \in Conns : serve[i] = "read" IN
    LinkQuiet => /\ online => connected \/ forgotten
                 /\ connected => online \/ overlap

(* The client in the router's map has an open channel, so that closing it  *)
(* never panics, although anybody's unregistration closes the client of the*)
(* moment (agentws/router.go:50-57).                                       *)
RouterClosesOnce == agents \notin ended

(* "connection lost or failed, will retry" (agent/conn.go:59): an agent    *)
(* whose connection is gone does not stay in its pumps, even if one of them*)
(* returned without an error and so did not end the other's context; short *)
(* of the panic of a pump that finds the pointer cleared.                  *)
LostLinksRedial ==
    (loop = "pumps" /\ cur # 0 /\ link[cur] # "open") ~> (loop # "pumps")

=============================================================================
