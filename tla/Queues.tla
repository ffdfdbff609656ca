------------------------------- MODULE Queues -------------------------------
(***************************************************************************)
(* The threads of server and agent that meet at the `agents` lock and at   *)
(* the two bounded queues of one agent's connection, while several         *)
(* commands use that agent: a push streams data down, an exec job floods   *)
(* output up and its controller disconnects, and `apb stop` may arrive.    *)
(*                                                                         *)
(* Server: relay_to_agent for the push and for the stop, cleanup_ctrl for  *)
(* the exec, agent_loop for the agent.  Agent: reader_loop, the push       *)
(* worker, the output pump of the exec job.  A short critical section of   *)
(* the lock is one step that needs the lock free; the one that sends while *)
(* it holds the lock is two.  The controllers are assumed to read what is  *)
(* forwarded to them, so agent_loop never waits for one.                   *)
(***************************************************************************)
EXTENDS Naturals, Sequences

CONSTANTS
  DownCap,  \* frames between server and agent reader (writer queue and socket)
  UpCap,    \* frames between agent and agent_loop
  InCap,    \* the channel of a worker
  MayFail,  \* whether the push worker may fail
  MayStop   \* whether the agent is told to stop

ASSUME QueueConstants ==
  /\ {DownCap, UpCap, InCap} \subseteq Nat \ {0}
  /\ MayFail \in BOOLEAN /\ MayStop \in BOOLEAN

VARIABLES
  lock,      \* holder of `agents`: cleanup_ctrl or nobody
  downq, upq,
  link,      \* the agent's connection is up; sends fail at once when it is not
  ppc,       \* server thread of the push
  spc,       \* server thread of the stop
  xpc,       \* server thread of the exec
  lpc,       \* agent_loop
  rpc,       \* reader_loop
  wpc,       \* push worker
  inbox,     \* frames in its channel
  cancelled  \* the exec job was told to stop

vars == <<lock, downq, upq, link, ppc, spc, xpc, lpc, rpc, wpc, inbox, cancelled>>

Init ==
  /\ lock = "free" /\ downq = <<>> /\ upq = <<>> /\ link = TRUE
  /\ ppc = "recv" /\ spc = "recv" /\ xpc = "connected" /\ lpc = "recv"
  /\ rpc = "recv" /\ wpc = "work" /\ inbox = 0 /\ cancelled = FALSE

(* Conn::send: waits for room; a closed connection refuses *)
SendDown(f) ==
  IF link THEN Len(downq) < DownCap /\ downq' = Append(downq, f) ELSE UNCHANGED downq
SendUp(f) ==
  IF link THEN Len(upq) < UpCap /\ upq' = Append(upq, f) ELSE UNCHANGED upq

----------------------------------------------------------------------------
(* The server.                                                              *)

(* relay_to_agent of a data frame: the agent's connection is looked up under *)
(* the lock,                                                                 *)
PushLookup ==
  /\ ppc = "recv" /\ lock = "free"
  /\ ppc' = "send"
  /\ UNCHANGED <<lock, downq, upq, link, spc, xpc, lpc, rpc, wpc, inbox, cancelled>>

(* mutant: the queue has no limit *)
PushSendUnbounded ==
  /\ ppc = "send"
  /\ downq' = Append(downq, "Data")
  /\ ppc' = "recv"
  /\ UNCHANGED <<lock, upq, link, spc, xpc, lpc, rpc, wpc, inbox, cancelled>>

(* and the frame is sent without it *)
PushSend ==
  /\ ppc = "send"
  /\ SendDown("Data")
  /\ ppc' = "recv"
  /\ UNCHANGED <<lock, upq, link, spc, xpc, lpc, rpc, wpc, inbox, cancelled>>

StopLookup ==
  /\ MayStop
  /\ spc = "recv" /\ lock = "free"
  /\ spc' = "send"
  /\ UNCHANGED <<lock, downq, upq, link, ppc, xpc, lpc, rpc, wpc, inbox, cancelled>>

StopSend ==
  /\ spc = "send"
  /\ SendDown("Shutdown")
  /\ spc' = "sent"
  /\ UNCHANGED <<lock, upq, link, ppc, xpc, lpc, rpc, wpc, inbox, cancelled>>

(* the exec's controller disconnects: cleanup_ctrl takes the lock *)
CleanLock ==
  /\ xpc = "connected" /\ lock = "free"
  /\ lock' = "cleanup_ctrl" /\ xpc' = "cancel"
  /\ UNCHANGED <<downq, upq, link, ppc, spc, lpc, rpc, wpc, inbox, cancelled>>

(* mutant: the cancel is dropped when the queue is full *)
CleanSendTry ==
  /\ xpc = "cancel"
  /\ downq' = IF Len(downq) < DownCap THEN Append(downq, "RouteCancel") ELSE downq
  /\ lock' = "free" /\ xpc' = "gone"
  /\ UNCHANGED <<upq, link, ppc, spc, lpc, rpc, wpc, inbox, cancelled>>

(* mutant: a refused send returns without the unlock *)
CleanSendLeaks ==
  /\ xpc = "cancel"
  /\ SendDown("RouteCancel")
  /\ lock' = IF link THEN "free" ELSE lock
  /\ xpc' = "gone"
  /\ UNCHANGED <<upq, link, ppc, spc, lpc, rpc, wpc, inbox, cancelled>>

(* and holds it until the RouteCancel is queued *)
CleanSend ==
  /\ xpc = "cancel"
  /\ SendDown("RouteCancel")
  /\ lock' = "free" /\ xpc' = "gone"
  /\ UNCHANGED <<upq, link, ppc, spc, lpc, rpc, wpc, inbox, cancelled>>

(* agent_loop receives a frame; *)
LoopRecv ==
  /\ lpc = "recv" /\ upq # <<>>
  /\ upq' = Tail(upq)
  /\ lpc' = "touch"
  /\ UNCHANGED <<lock, downq, link, ppc, spc, xpc, rpc, wpc, inbox, cancelled>>

(* touch_agent needs the lock before the frame is forwarded *)
LoopTouch ==
  /\ lpc = "touch" /\ lock = "free"
  /\ lpc' = "recv"
  /\ UNCHANGED <<lock, downq, upq, link, ppc, spc, xpc, rpc, wpc, inbox, cancelled>>

----------------------------------------------------------------------------
(* The agent.                                                               *)

(* mutant: a frame whose worker is gone is answered *)
ReaderDropAnswers ==
  /\ rpc = "recv" /\ downq # <<>> /\ Head(downq) = "Data" /\ wpc = "over"
  /\ SendUp("Error")
  /\ downq' = Tail(downq)
  /\ UNCHANGED <<lock, link, ppc, spc, xpc, lpc, rpc, wpc, inbox, cancelled>>

(* spawn_worker: a continuation whose worker is gone is dropped without a word *)
ReaderDrop ==
  /\ rpc = "recv" /\ downq # <<>> /\ Head(downq) = "Data" /\ wpc = "over"
  /\ downq' = Tail(downq)
  /\ UNCHANGED <<lock, upq, link, ppc, spc, xpc, lpc, rpc, wpc, inbox, cancelled>>

(* reader_loop: data goes to the worker's channel, a RouteCancel cancels the *)
(* job, a Shutdown is answered                                               *)
ReaderRecv ==
  /\ rpc = "recv" /\ downq # <<>>
  /\ Head(downq) = "Data" => wpc # "over"
  /\ downq' = Tail(downq)
  /\ rpc' = CASE Head(downq) = "Data" -> "deliver"
              [] Head(downq) = "Shutdown" -> "bye"
              [] Head(downq) = "RouteCancel" -> "recv"
  /\ cancelled' = (cancelled \/ Head(downq) = "RouteCancel")
  /\ UNCHANGED <<lock, upq, link, ppc, spc, xpc, lpc, wpc, inbox>>

(* the blocking send to the worker; it fails once the worker has dropped its *)
(* end of the channel                                                        *)
ReaderDeliver ==
  /\ rpc = "deliver"
  /\ IF wpc = "over" THEN UNCHANGED inbox
                     ELSE inbox < InCap /\ inbox' = inbox + 1
  /\ rpc' = "recv"
  /\ UNCHANGED <<lock, downq, upq, link, ppc, spc, xpc, lpc, wpc, cancelled>>

(* handle_shutdown: the Bye waits for room *)
ReaderBye ==
  /\ rpc = "bye"
  /\ SendUp("Bye")
  /\ rpc' = "stopped"
  /\ UNCHANGED <<lock, downq, link, ppc, spc, xpc, lpc, wpc, inbox, cancelled>>

(* run_once: all jobs are cancelled and the connection is closed *)
CloseLink ==
  /\ rpc = "stopped" /\ link
  /\ link' = FALSE /\ downq' = <<>> /\ cancelled' = TRUE /\ wpc' = "over" /\ inbox' = 0
  /\ UNCHANGED <<lock, upq, ppc, spc, xpc, lpc, rpc>>

WorkerTake ==
  /\ wpc = "work" /\ inbox > 0
  /\ inbox' = inbox - 1
  /\ UNCHANGED <<lock, downq, upq, link, ppc, spc, xpc, lpc, rpc, wpc, cancelled>>

(* the worker cannot write; it stops reading and has an Error to send *)
WorkerFails ==
  /\ MayFail
  /\ wpc = "work" /\ inbox > 0
  /\ inbox' = inbox - 1 /\ wpc' = "error"
  /\ UNCHANGED <<lock, downq, upq, link, ppc, spc, xpc, lpc, rpc, cancelled>>

WorkerError ==
  /\ wpc = "error"
  /\ SendUp("Error")
  /\ wpc' = "over" /\ inbox' = 0
  /\ UNCHANGED <<lock, downq, link, ppc, spc, xpc, lpc, rpc, cancelled>>

(* spawn_pump: the command never stops writing *)
PumpOutput ==
  /\ link /\ ~cancelled
  /\ SendUp("ExecOut")
  /\ UNCHANGED <<lock, downq, link, ppc, spc, xpc, lpc, rpc, wpc, inbox, cancelled>>

----------------------------------------------------------------------------
Push == PushLookup \/ PushSend
Stop == StopLookup \/ StopSend
Loop == LoopRecv \/ LoopTouch
Reader == ReaderDrop \/ ReaderRecv \/ ReaderDeliver \/ ReaderBye \/ CloseLink

Next ==
  \/ Push \/ Stop \/ CleanLock \/ CleanSend \/ Loop
  \/ Reader \/ WorkerTake \/ WorkerFails \/ WorkerError \/ PumpOutput

Spec == Init /\ [][Next]_vars

(* Threads keep running; nobody needs to stop, fail, disconnect or produce.  *)
(* A reply that waits for room competes with the flood of output: the        *)
(* channel wakes its waiting senders, so it is not passed over for ever.     *)
Fairness ==
  /\ WF_vars(PushSend) /\ WF_vars(StopSend) /\ WF_vars(CleanSend) /\ WF_vars(Loop)
  /\ WF_vars(Reader) /\ WF_vars(WorkerTake)
  /\ SF_vars(ReaderBye) /\ SF_vars(WorkerError)

FairSpec == Spec /\ Fairness

----------------------------------------------------------------------------
(* Every variable ranges over the states the code can be in. *)
TypeOK ==
  /\ lock \in {"free", "cleanup_ctrl"} /\ link \in BOOLEAN /\ cancelled \in BOOLEAN
  /\ downq \in Seq({"Data", "RouteCancel", "Shutdown"}) /\ Len(downq) <= DownCap
  /\ upq \in Seq({"ExecOut", "Error", "Bye"}) /\ Len(upq) <= UpCap
  /\ ppc \in {"recv", "send"} /\ spc \in {"recv", "send", "sent"}
  /\ xpc \in {"connected", "cancel", "gone"} /\ lpc \in {"recv", "touch"}
  /\ rpc \in {"recv", "deliver", "bye", "stopped"} /\ wpc \in {"work", "error", "over"}
  /\ inbox \in 0..InCap

(* Everybody waits for everybody: cleanup_ctrl, with the lock, for the queue *)
(* to the agent; the agent's reader for its worker or for its own reply; the *)
(* reply for the queue to the server; agent_loop, its reader, for the lock.  *)
Wedged ==
  /\ lock = "cleanup_ctrl" /\ Len(downq) = DownCap
  /\ rpc = "bye" \/ (rpc = "deliver" /\ inbox = InCap /\ wpc = "error")
  /\ Len(upq) = UpCap /\ lpc = "touch"

(* docs/协议.md line 80: bulk data never blocks the replies that come the     *)
(* other way.  With a lock held across a send they can: the server wedges.   *)
NoWedge == ~Wedged

(* The threads a release of the lock may depend on, each unable to go on. *)
HolderWaits == xpc = "cancel" => link /\ Len(downq) = DownCap
LoopWaits == lpc = "recv" => upq = <<>>
ReaderWaits ==
  CASE rpc = "recv" -> downq = <<>>
    [] rpc = "deliver" -> wpc # "over" /\ inbox = InCap
    [] rpc = "bye" -> link /\ Len(upq) = UpCap
    [] rpc = "stopped" -> ~link
WorkerWaits ==
  CASE wpc = "work" -> inbox = 0
    [] wpc = "error" -> link /\ Len(upq) = UpCap
    [] wpc = "over" -> TRUE

(* While cleanup_ctrl holds the lock one of these threads can go on, for as  *)
(* long as the server has not wedged: of all the ways in which the queues    *)
(* can fill up around the lock, that cycle is the only deadlock.             *)
OnlyWedge ==
  lock = "cleanup_ctrl" /\ HolderWaits /\ LoopWaits /\ ReaderWaits /\ WorkerWaits => Wedged

(* A wedge is for ever: no step of any thread leads out of it. *)
WedgeStays == [][Wedged => Wedged']_vars

(* The lock that cleanup_ctrl holds while it sends is released, so that the  *)
(* server goes on serving every agent; the cycle of NoWedge is the only way  *)
(* it is not.                                                                *)
LockReleased == lock = "cleanup_ctrl" ~> (lock = "free" \/ Wedged)

(* The job of a controller that disconnected is told so, however busy the    *)
(* connection is, unless it is closed or wedged.                             *)
CancelArrives == xpc = "cancel" ~> (cancelled \/ Wedged)

============================================================================
