-------------------------------- MODULE Stop --------------------------------
(***************************************************************************)
(* `apb stop`: controllers ask one agent to end itself.  The agent answers *)
(* Bye, waits until its writer queue has drained (wire.rs flush), sets the *)
(* stop flag and closes the connection after a grace period.  The module   *)
(* follows the agent's end of the connection thread by thread: the reader  *)
(* loop, a job that keeps sending output, and the writer thread with its   *)
(* counter of pending frames.                                              *)
(***************************************************************************)
EXTENDS Integers, Sequences, SequencesExt

CONSTANTS
  Ctrls,        \* controllers that run `apb stop`
  NoCtrl,       \* none of them
  JobFrames,    \* frames the agent's other job still sends
  QueueCap,     \* WRITE_QUEUE
  LinkMayBreak  \* whether the agent's connection may be lost

Output == "output"              \* a frame of the other job
Frames == Ctrls \cup {Output}   \* Bye for a controller, or output

ASSUME StopSizes ==
  /\ NoCtrl \notin Ctrls /\ Output \notin Ctrls /\ JobFrames \in Nat
  /\ QueueCap \in Nat \ {0} /\ LinkMayBreak \in BOOLEAN

VARIABLES
  \* controllers
  cpc,      \* send, top (of the loop), recv, exit
  rc,
  reply,    \* frames on their way to each controller
  \* server
  waiting,  \* controllers whose route is open
  deliver,  \* Shutdown frames on their way to the agent
  known,    \* the agent is registered
  \* agent
  rpc,      \* reader thread
  asker,    \* controller whose Shutdown it handles
  stop,     \* the stop flag
  flushed,  \* what flush returned
  jpc, jleft,   \* the other job, and the frames it has left
  \* the agent's Conn
  queue,    \* the writer's channel
  pending,
  wpc, wmsg, wok,
  sock,     \* written and not yet read by the server
  link      \* up, broken (by the network) or closed (by the agent)

ctrls == <<cpc, rc, reply>>
server == <<waiting, deliver, known>>
reader == <<rpc, asker, stop, flushed>>
job == <<jpc, jleft>>
conn == <<queue, pending, wpc, wmsg, wok, sock, link>>
vars == <<ctrls, server, reader, job, conn>>

Init ==
  /\ cpc = [c \in Ctrls |-> "send"] /\ rc = [c \in Ctrls |-> 0]
  /\ reply = [c \in Ctrls |-> <<>>]
  /\ waiting = {} /\ deliver = <<>> /\ known = TRUE
  /\ rpc = "read" /\ asker = NoCtrl /\ stop = FALSE /\ flushed = FALSE
  /\ jpc = "run" /\ jleft = JobFrames
  /\ queue = <<>> /\ pending = 0
  /\ wpc = "recv" /\ wmsg = Output /\ wok = TRUE
  /\ sock = <<>> /\ link = "up"

----------------------------------------------------------------------------
(* Controllers, ctrl.rs stop.                                               *)

CtrlExit(c, code) == cpc' = [cpc EXCEPT ![c] = "exit"] /\ rc' = [rc EXCEPT ![c] = code]

(* the deadline has passed; close makes the server drop the route *)
GiveUp(c) == waiting' = waiting \ {c}

(* send_request; the server opens a route or answers 404 *)
CtrlSend(c) ==
  /\ cpc[c] = "send"
  /\ cpc' = [cpc EXCEPT ![c] = "top"]
  /\ IF known
       THEN /\ waiting' = waiting \cup {c}
            /\ deliver' = Append(deliver, c)
            /\ UNCHANGED reply
       ELSE reply' = [reply EXCEPT ![c] = Append(@, "Error")] /\ UNCHANGED <<waiting, deliver>>
  /\ UNCHANGED <<rc, known, reader, job, conn>>

(* top of the loop: exit 5 when no time is left, otherwise wait in recv_event *)
CtrlTop(c) ==
  /\ cpc[c] = "top"
  /\ \/ cpc' = [cpc EXCEPT ![c] = "recv"] /\ UNCHANGED rc
        /\ UNCHANGED waiting
     \/ CtrlExit(c, 5) /\ GiveUp(c)
  /\ UNCHANGED <<reply, deliver, known, reader, job, conn>>

(* recv_event returns an answer: Bye ends the command, an Error refuses it *)
CtrlRecv(c) ==
  /\ cpc[c] = "recv"
  /\ reply[c] # <<>>
  /\ CtrlExit(c, IF Head(reply[c]) = "Bye" THEN 0 ELSE 1)
  /\ reply' = [reply EXCEPT ![c] = Tail(@)]
  /\ UNCHANGED <<server, reader, job, conn>>

(* recv_event runs into the deadline *)
CtrlRecvTimeout(c) ==
  /\ cpc[c] = "recv"
  /\ reply[c] = <<>>
  /\ CtrlExit(c, 3)
  /\ GiveUp(c)
  /\ UNCHANGED <<reply, deliver, known, reader, job, conn>>

----------------------------------------------------------------------------
(* The server's thread of the agent.                                        *)

(* agent_loop forwards a result; Bye is final, so its route goes *)
ServerForward ==
  /\ sock # <<>>
  /\ sock' = Tail(sock)
  /\ IF Head(sock) \in waiting
       THEN /\ reply' = [reply EXCEPT ![Head(sock)] = Append(@, "Bye")]
            /\ waiting' = waiting \ {Head(sock)}
       ELSE UNCHANGED <<reply, waiting>>
  /\ UNCHANGED <<cpc, rc, deliver, known, reader, job, queue, pending, wpc, wmsg, wok, link>>

(* end of stream: cleanup_agent answers the open routes with 410 *)
ServerEof ==
  /\ known /\ link # "up" /\ sock = <<>>
  /\ known' = FALSE
  /\ waiting' = {} /\ deliver' = <<>>
  /\ reply' = [c \in Ctrls |-> IF c \in waiting THEN Append(reply[c], "Error") ELSE reply[c]]
  /\ UNCHANGED <<cpc, rc, reader, job, conn>>

----------------------------------------------------------------------------
(* The writer thread and the two halves of Conn::send, wire.rs.             *)

(* mutant: the frame is not counted, as one sent through sender_clone *)
SendAddNone == UNCHANGED pending

(* Conn::send counts the frame before it queues it *)
SendAdd == pending' = pending + 1

(* ... and blocks while the channel is full, or fails if the writer is gone *)
SendPush(m) ==
  \/ wpc # "over" /\ Len(queue) < QueueCap /\ queue' = Append(queue, m) /\ UNCHANGED pending
  \/ wpc = "over" /\ pending' = pending - 1 /\ UNCHANGED queue

WriterRecv ==
  /\ wpc = "recv" /\ queue # <<>>
  /\ wmsg' = Head(queue) /\ queue' = Tail(queue)
  /\ wpc' = "write"
  /\ UNCHANGED <<pending, wok, sock, link, ctrls, server, reader, job>>

WriterWrite ==
  /\ wpc = "write"
  /\ wok' = (link = "up")
  /\ sock' = IF link = "up" THEN Append(sock, wmsg) ELSE sock
  /\ wpc' = "sub"
  /\ UNCHANGED <<queue, pending, wmsg, link, ctrls, server, reader, job>>

WriterSub ==
  /\ wpc = "sub"
  /\ pending' = pending - 1
  /\ wpc' = IF wok THEN "recv" ELSE "over"
  /\ queue' = IF wok THEN queue ELSE <<>>
  /\ UNCHANGED <<wmsg, wok, sock, link, ctrls, server, reader, job>>

(* the connection is lost with what the server has not read *)
LinkBreaks ==
  /\ LinkMayBreak /\ link = "up"
  /\ link' = "broken" /\ sock' = <<>>
  /\ UNCHANGED <<queue, pending, wpc, wmsg, wok, ctrls, server, reader, job>>

----------------------------------------------------------------------------
(* The agent's reader thread: reader_loop, handle_shutdown, run_once.       *)

AgentRead ==
  /\ rpc = "read" /\ link = "up" /\ deliver # <<>>
  /\ asker' = Head(deliver) /\ deliver' = Tail(deliver)
  /\ rpc' = "add"
  /\ UNCHANGED <<stop, flushed, ctrls, waiting, known, job, conn>>

(* recv fails: run_once returns an error and run connects anew *)
AgentLost ==
  /\ rpc = "read" /\ link = "broken"
  /\ rpc' = "lost"
  /\ UNCHANGED <<asker, stop, flushed, ctrls, server, job, conn>>

ByeAdd ==
  /\ rpc = "add"
  /\ SendAdd
  /\ rpc' = "push"
  /\ UNCHANGED <<asker, stop, flushed, ctrls, server, job, queue, wpc, wmsg, wok, sock, link>>

ByePush ==
  /\ rpc = "push"
  /\ SendPush(asker)
  /\ rpc' = "flush"
  /\ UNCHANGED <<asker, stop, flushed, ctrls, server, job, wpc, wmsg, wok, sock, link>>

(* mutant: success is reported without looking at the counter *)
FlushBlind ==
  /\ rpc = "flush"
  /\ flushed' = TRUE
  /\ rpc' = "setstop"
  /\ UNCHANGED <<asker, stop, ctrls, server, job, conn>>

(* flush: the queue has drained, or BYE_FLUSH_TIMEOUT is over *)
Flush ==
  /\ rpc = "flush"
  /\ flushed' = (pending = 0)
  /\ rpc' = "setstop"
  /\ UNCHANGED <<asker, stop, ctrls, server, job, conn>>

(* mutant: the loop returns, but run does not see the flag and reconnects *)
SetStopNot ==
  /\ rpc = "setstop"
  /\ rpc' = "lost"
  /\ UNCHANGED <<asker, stop, flushed, ctrls, server, job, conn>>

(* the flag is set, the loop sees it and returns, and cancel_all stops the job *)
SetStop ==
  /\ rpc = "setstop"
  /\ stop' = TRUE
  /\ rpc' = "grace"
  /\ UNCHANGED <<asker, flushed, ctrls, server, job, conn>>

(* mutant: the connection is closed without the grace period *)
CloseAtOnce ==
  /\ rpc = "grace"
  /\ link' = IF link = "up" THEN "closed" ELSE link
  /\ sock' \in {sock, <<>>}
  /\ rpc' = "exit"
  /\ UNCHANGED <<asker, stop, flushed, queue, pending, wpc, wmsg, wok, ctrls, server, job>>

(* After BYE_GRACE, in which the server reads a Bye that was written, the    *)
(* agent shuts the socket down and exits; what is still unread may be lost.  *)
Close ==
  /\ rpc = "grace"
  /\ asker \notin ToSet(sock)
  /\ link' = IF link = "up" THEN "closed" ELSE link
  /\ sock' \in {sock, <<>>}
  /\ rpc' = "exit"
  /\ UNCHANGED <<asker, stop, flushed, queue, pending, wpc, wmsg, wok, ctrls, server, job>>

(* the other job's output, sent from its own threads until the process ends *)
JobAdd ==
  /\ jpc = "run" /\ jleft > 0 /\ rpc # "exit"
  /\ SendAdd
  /\ jpc' = "push"
  /\ UNCHANGED <<jleft, ctrls, server, reader, queue, wpc, wmsg, wok, sock, link>>

JobPush ==
  /\ jpc = "push" /\ rpc # "exit"
  /\ SendPush(Output)
  /\ jpc' = "run" /\ jleft' = jleft - 1
  /\ UNCHANGED <<ctrls, server, reader, wpc, wmsg, wok, sock, link>>

----------------------------------------------------------------------------
Writer == WriterRecv \/ WriterWrite \/ WriterSub
Agent == AgentRead \/ AgentLost \/ ByeAdd \/ ByePush \/ SetStop \/ Close
Job == JobAdd \/ JobPush
Finished ==
  /\ \A c \in Ctrls : cpc[c] = "exit"
  /\ rpc \in {"read", "exit", "lost"}
  /\ UNCHANGED vars

Next ==
  \/ \E c \in Ctrls : CtrlSend(c) \/ CtrlTop(c) \/ CtrlRecv(c) \/ CtrlRecvTimeout(c)
  \/ ServerForward \/ ServerEof
  \/ Agent \/ Flush \/ Job \/ Writer \/ LinkBreaks
  \/ Finished

Spec == Init /\ [][Next]_vars

(* The threads of the agent and of the server keep running, and flush ends   *)
(* at its deadline at the latest.                                            *)
FairSpec ==
  /\ Spec
  /\ WF_vars(Agent) /\ WF_vars(Flush) /\ WF_vars(Job) /\ WF_vars(Writer)
  /\ WF_vars(ServerForward) /\ WF_vars(ServerEof)

----------------------------------------------------------------------------
(* The counter of pending frames never underflows, and the rest ranges over  *)
(* the states of the code.                                                   *)
TypeOK ==
  /\ cpc \in [Ctrls -> {"send", "top", "recv", "exit"}]
  /\ rc \in [Ctrls -> {0, 1, 3, 5}]
  /\ reply \in [Ctrls -> Seq({"Bye", "Error"})]
  /\ waiting \in SUBSET Ctrls /\ deliver \in Seq(Ctrls) /\ known \in BOOLEAN
  /\ rpc \in {"read", "add", "push", "flush", "setstop", "grace", "exit", "lost"}
  /\ asker \in Ctrls \cup {NoCtrl} /\ stop \in BOOLEAN /\ flushed \in BOOLEAN
  /\ jpc \in {"run", "push"} /\ jleft \in 0..JobFrames
  /\ queue \in Seq(Frames) /\ Len(queue) <= QueueCap
  /\ pending \in Nat
  /\ wpc \in {"recv", "write", "sub", "over"} /\ wmsg \in Frames /\ wok \in BOOLEAN
  /\ sock \in Seq(Frames) /\ link \in {"up", "broken", "closed"}

(* When flush reports success, the Bye has really left the writer: it is     *)
(* neither in the channel nor in the writer's hands, although the job's      *)
(* threads keep queueing frames all the while.                               *)
FlushMeansWritten ==
  flushed /\ link = "up" =>
    asker \notin ToSet(queue) /\ ~(wpc = "write" /\ wmsg = asker)

(* Unless the network failed, the controller whose stop was obeyed is never  *)
(* told that it was refused or that the agent disappeared (docs/协议.md       *)
(* lines 167-168).                                                           *)
ObeyedNotRefused ==
  flushed /\ link # "broken" => rc[asker] # 1 /\ "Error" \notin ToSet(reply[asker])

(* The inductive invariant behind the two properties above.                  *)

InWriter == IF wpc \in {"write", "sub"} THEN 1 ELSE 0
InReader == IF rpc = "push" THEN 1 ELSE 0
InJob == IF jpc = "push" THEN 1 ELSE 0

(* the counter covers every frame between fetch_add and fetch_sub *)
PendingCovers == pending >= Len(queue) + InWriter + InReader + InJob

(* a job that has counted a frame has one to send *)
JobHasFrame == jpc = "push" => jleft > 0

(* requests handled or under way come from controllers past their send *)
AskersAsked ==
  /\ asker # NoCtrl => cpc[asker] # "send"
  /\ \A c \in ToSet(deliver) : cpc[c] # "send"
  /\ rpc \notin {"read", "lost"} => asker # NoCtrl

(* only the agent's exit closes the link *)
ClosedAtExit == link = "closed" => rpc = "exit"

(* a working link: the writer lives, the agent is known, nobody saw an error *)
UpMeansQuiet ==
  link = "up" =>
    /\ known /\ wok /\ wpc # "over" /\ rpc \notin {"exit", "lost"}
    /\ \A c \in Ctrls : rc[c] # 1 /\ "Error" \notin ToSet(reply[c])

(* until it is forwarded, the Bye is in the channel, the writer or the socket *)
ByeOnItsWay ==
  rpc \in {"flush", "setstop", "grace"} /\ link = "up" /\ asker \in waiting =>
    \/ asker \in ToSet(queue) \cup ToSet(sock)
    \/ wpc = "write" /\ wmsg = asker

(* flush succeeded: the Bye has left the writer, and the reader has ended *)
FlushedBye ==
  flushed =>
    /\ rpc \in {"setstop", "grace", "exit"}
    /\ asker \notin ToSet(queue) /\ ~(wpc = "write" /\ wmsg = asker)
    /\ link = "closed" => asker \notin waiting

StopInv ==
  /\ PendingCovers /\ AskersAsked /\ UpMeansQuiet /\ ByeOnItsWay /\ FlushedBye
  /\ JobHasFrame /\ ClosedAtExit /\ ObeyedNotRefused

(* A stop that reports success is followed by the end of the agent process   *)
(* (docs/协议.md line 165).                                                   *)
StopEndsAgent == \A c \in Ctrls : (cpc[c] = "exit" /\ rc[c] = 0) ~> rpc = "exit"

============================================================================
