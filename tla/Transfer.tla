------------------------------ MODULE Transfer ------------------------------
(***************************************************************************)
(* What a push and a pull have in common: the bounded queues between the   *)
(* controller's main thread, its reader thread, the server and the agent's *)
(* worker, and what the server does with the route of the request.  Every  *)
(* send blocks while its queue is full; a queue stands for the writer      *)
(* queue of wire.rs together with the socket buffers behind it.            *)
(***************************************************************************)
EXTENDS Naturals, Sequences

CONSTANTS
  NDirs, NLinks, NFiles, \* entries of the manifest, numbered in this order from 1
  Size,        \* units of each file; a unit is carried by one Data or Copy frame
  SigFrames,   \* FileSigs frames that carry the signatures of one file
  UpCap,       \* controller -> server
  InCap,       \* server -> agent worker
  DownCap,     \* server -> controller
  EvCap,       \* the event channel of CtrlSession
  OtherAgents, \* agents connected besides the target
  AgentMayDie, \* whether the agent's connection may break
  MayFail      \* whether disks, sources and the controller's connection may fail

ASSUME TransferConstants ==
  /\ {NDirs, NLinks, NFiles, OtherAgents} \subseteq Nat
  /\ {Size, SigFrames, UpCap, InCap, DownCap, EvCap} \subseteq Nat \ {0}
  /\ AgentMayDie \in BOOLEAN /\ MayFail \in BOOLEAN

VARIABLES
  mpc,      \* the controller's main thread
  rc,       \* its exit code
  dest,     \* what is at the destination of each entry
  up, inbox, down, events, \* the four queues, in the order a request travels
  hand,     \* how far relay_to_agent is with the first frame of up: none, found
            \* (its route), insert (agent chosen), send or error
  route,    \* of the request: none yet, open, gone, stray (opened again by a
            \* late frame) or closed with the controller's connection
  alive,    \* the target agent's connection works
  cleanup,  \* what cleanup_agent has done: none, name (removed) or routes
  notify    \* cleanup_agent still has its 410 to send

queues == <<up, inbox, down, events>>
server == <<hand, route, alive, cleanup, notify>>

Entries == 1..NDirs + NLinks + NFiles
Dirs == 1..NDirs
Links == NDirs + 1..NDirs + NLinks
Files == NDirs + NLinks + 1..NDirs + NLinks + NFiles
FirstFile == NDirs + NLinks + 1
LastFile == NDirs + NLinks + NFiles
Plans == {"whole", "skip", "delta"}
Bytes == {"good", "bad"}

(* what was at the destination before: a directory exists or it does not *)
Before == {d \in [Entries -> {"none", "old", "new"}] : \A e \in Dirs : d[e] # "old"}

Msg(op) == [op |-> op]
FileMsg(op, f) == [op |-> op, f |-> f]

TransferInit ==
  /\ up = <<>> /\ inbox = <<>> /\ down = <<>> /\ events = <<>>
  /\ hand = "none" /\ route = "none"
  /\ alive = TRUE /\ cleanup = "none" /\ notify = FALSE

----------------------------------------------------------------------------
(* sends and receives; each leaves the other queues alone *)

MainSend(m) == Len(up) < UpCap /\ up' = Append(up, m)
SendDown(m) == Len(down) < DownCap /\ down' = Append(down, m)
Take == inbox # <<>> /\ inbox' = Tail(inbox)
NextEvent == events # <<>> /\ events' = Tail(events)

(* The controller's reader thread hands frames to the event channel. *)
Read ==
  /\ down # <<>> /\ Len(events) < EvCap
  /\ events' = Append(events, Head(down))
  /\ down' = Tail(down)
  /\ UNCHANGED <<up, inbox, server>>

----------------------------------------------------------------------------
(* The server.  relay_to_agent takes the locks of by_req, routes and agents  *)
(* one after the other, and cleanup_agent runs in another thread: a route    *)
(* may be inserted after the scan that would have answered its request.      *)

Registered == cleanup = "none"

(* choose_agent for a frame with an empty target finds exactly one agent     *)
OneOnline == (IF Registered THEN 1 ELSE 0) + OtherAgents = 1

(* A stray route leads to the one agent that is online, to the target if     *)
(* there is no other.                                                        *)
OnTarget == route = "stray" => OtherAgents = 0

(* The look into by_req and routes; a by_req entry whose route is gone       *)
(* counts as none.                                                           *)
FindRoute ==
  /\ hand = "none" /\ route \in {"open", "stray"}
  /\ hand' = "found"
  /\ UNCHANGED <<queues, route, alive, cleanup, notify>>

(* the connection of the route's agent; if it has left, remove_route         *)
FindAgent ==
  /\ hand = "found"
  /\ IF OnTarget => Registered THEN hand' = "send" /\ UNCHANGED route
                               ELSE hand' = "error" /\ route' = "gone"
  /\ UNCHANGED <<queues, alive, cleanup, notify>>

(* A frame without a route: the first one names its target, a late one goes  *)
(* to whoever is online.                                                     *)
ChooseAgent ==
  /\ hand = "none" /\ route \in {"none", "gone"}
  /\ LET online == IF route = "none" THEN Registered ELSE OneOnline
     IN  hand' = IF online THEN "insert" ELSE "error"
  /\ UNCHANGED <<queues, route, alive, cleanup, notify>>

InsertRoute ==
  /\ hand = "insert"
  /\ hand' = "send"
  /\ route' = IF route = "none" THEN "open" ELSE "stray"
  /\ UNCHANGED <<queues, alive, cleanup, notify>>

(* The frame is done with.  One whose route leads to no worker is dropped    *)
(* by spawn_worker, one written to a broken connection is lost.              *)
Deliver ==
  /\ hand = "send"
  /\ IF route = "open" /\ alive THEN Len(inbox) < InCap /\ inbox' = Append(inbox, Head(up))
                                ELSE UNCHANGED inbox
  /\ hand' = "none" /\ up' = Tail(up)
  /\ UNCHANGED <<down, events, route, alive, cleanup, notify>>

(* the broken connection refuses it: remove_route                            *)
SendFails ==
  /\ hand = "send" /\ ~alive /\ OnTarget
  /\ hand' = "error" /\ route' = "gone"
  /\ UNCHANGED <<queues, alive, cleanup, notify>>

(* send_ctrl_error: no agent (404) or an agent that has gone (410)           *)
AnswerError ==
  /\ hand = "error"
  /\ SendDown(Msg("Error"))
  /\ hand' = "none" /\ up' = Tail(up)
  /\ UNCHANGED <<inbox, events, route, alive, cleanup, notify>>

(* one step with the frame at the head of up                                 *)
Relay ==
  /\ up # <<>>
  /\ \/ FindRoute \/ FindAgent \/ ChooseAgent \/ InsertRoute
     \/ Deliver \/ SendFails \/ AnswerError

(* remove_route once the final payload has been forwarded; if the agent is   *)
(* lost just then the scan takes the route, and its 410 comes on top         *)
ForgetRoute ==
  /\ route = "open"
  /\ route' = "gone"
  /\ UNCHANGED <<queues, hand, alive, cleanup, notify>>

(* the agent's connection breaks *)
LoseAgent ==
  /\ AgentMayDie /\ alive
  /\ alive' = FALSE
  /\ inbox' = <<>>
  /\ UNCHANGED <<up, down, events, hand, route, cleanup, notify>>

(* cleanup_agent: first the name, under the lock of agents ... *)
CleanName ==
  /\ ~alive /\ cleanup = "none"
  /\ cleanup' = "name"
  /\ UNCHANGED <<queues, hand, route, alive, notify>>

(* ... then the routes there are by now, under the lock of routes ... *)
CleanRoutes ==
  /\ cleanup = "name"
  /\ cleanup' = "routes"
  /\ IF route \in {"open", "stray"} /\ OnTarget THEN route' = "gone" /\ notify' = TRUE
                                               ELSE UNCHANGED <<route, notify>>
  /\ UNCHANGED <<queues, hand, alive>>

(* ... and a 410 for each of them *)
Send410 ==
  /\ notify
  /\ SendDown(Msg("Error"))
  /\ notify' = FALSE
  /\ UNCHANGED <<up, inbox, events, hand, route, alive, cleanup>>

CleanupAgent == CleanName \/ CleanRoutes \/ Send410

(* cleanup_ctrl after the controller exits: RouteCancel stops the worker *)
Disconnect ==
  /\ route # "closed"
  /\ up' = <<>> /\ inbox' = <<>> /\ down' = <<>> /\ events' = <<>>
  /\ hand' = "none" /\ route' = "closed" /\ notify' = FALSE
  /\ UNCHANGED <<alive, cleanup>>

----------------------------------------------------------------------------
(* plan_push_target, plan_pull_files: skip what is identical, delta where it *)
(* is worth it                                                               *)
PlansFor(content) ==
  CASE content = "new"  -> {"skip"}
    [] content = "old"  -> {"delta", "whole"}
    [] content = "none" -> {"whole"}

(* what the source yields now: what the manifest hashed, or a file that was  *)
(* changed since, shorter or longer by one unit or of the same length        *)
Streams(plan) ==
  LET unit(b) == IF plan = "delta" THEN {[op |-> "Data", bytes |-> b], Msg("Copy")}
                                   ELSE {[op |-> "Data", bytes |-> b]}
      read(n, b) == [1..n -> unit(b)]
  IN  IF MayFail THEN UNION {read(n, b) : n \in Size - 1..Size + 1, b \in Bytes}
                 ELSE read(Size, "good")

----------------------------------------------------------------------------
(* Push and pull do what Publish promises: destinations change only to the   *)
(* content the manifest hashed, even if source or base changed meanwhile,    *)
(* and exit code 0 means that every entry is in place, whatever was skipped, *)
(* reused or refused, and although a pull takes the agent's word for the     *)
(* end.                                                                      *)
Outcome == IF mpc # "exit" THEN "running" ELSE IF rc = 0 THEN "ok" ELSE "failed"
P == INSTANCE Publish WITH outcome <- Outcome
ImplementsPublish == P!Spec

============================================================================
