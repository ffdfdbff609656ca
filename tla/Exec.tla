-------------------------------- MODULE Exec --------------------------------
(***************************************************************************)
(* One `apb exec`: the agent's worker (agent.rs run_exec) that polls the   *)
(* child, its two output pumps, the child's process group with its pipes,  *)
(* and the controller that prints the output and returns the exit code     *)
(* (ctrl.rs exec).  A chunk is what one read of a pipe returns.  The queue *)
(* is the path from the agent through the server to the controller.  The   *)
(* agent's connection to the server may break at any time.                 *)
(***************************************************************************)
EXTENDS Naturals, Sequences

CONSTANTS
  MaxChunks,   \* bound: chunks written to each stream
  PipeCap,     \* chunks a pipe holds
  QueueCap,    \* frames on the way to the controller
  MayLeave,    \* the controller may give up or be interrupted
  MayLinger,   \* a background process may keep the pipes open
  MayBreak     \* the agent's connection may break

ASSUME ExecSizes ==
  /\ MaxChunks \in Nat /\ PipeCap \in Nat \ {0} /\ QueueCap \in Nat \ {0}
  /\ {MayLeave, MayLinger, MayBreak} \subseteq BOOLEAN

VARIABLES
  \* processes and pipes
  child,    \* none, running, exited or killed
  code,     \* its exit code
  linger,   \* a background process holds the write ends
  expired,  \* the deadline has passed; with timeout_secs 0 it never does
  wrote, pipe,
  \* the agent's threads
  wpc,      \* worker
  status,   \* what ended the poll loop
  cancel,   \* the flag shared by worker, pumps and RouteCancel
  ppc,      \* pumps
  \* the way to the controller, and the controller
  link,     \* the agent's connection: up, broken, or broken and cleaned up
  queue, cpc, got, rc

procs == <<child, code, linger, expired, wrote, pipe>>
agent == <<wpc, status, cancel, ppc>>
ctrl == <<cpc, got, rc>>
way == <<link, queue>>
vars == <<procs, agent, way, ctrl>>

Streams == {"stdout", "stderr"}
Codes == {0, 124}
Statuses == {"none", "exited", "timeout", "cancelled"}
Outs == [op : {"ExecOut"}, stream : Streams]
Ends == [op : {"ExecEnd"}, rc : Codes \cup {129}, timed : BOOLEAN] \cup
        [op : {"Error"}, code : {125, 126, 410, 500}]

Init ==
  /\ child = "none" /\ code = 0 /\ linger = FALSE /\ expired = FALSE
  /\ wrote = [s \in Streams |-> 0] /\ pipe = [s \in Streams |-> 0]
  /\ wpc = "start" /\ status = "none" /\ cancel = FALSE
  /\ ppc = [s \in Streams |-> "off"]
  /\ link = "up" /\ queue = <<>>
  /\ cpc = "wait" /\ got = [s \in Streams |-> 0] /\ rc = 0

----------------------------------------------------------------------------
(* The child's process group.                                               *)

(* the command, or a background process it left, writes to a pipe *)
Write(s) ==
  /\ child = "running" \/ linger
  /\ wrote[s] < MaxChunks /\ pipe[s] < PipeCap
  /\ wrote' = [wrote EXCEPT ![s] = @ + 1]
  /\ pipe' = [pipe EXCEPT ![s] = @ + 1]
  /\ UNCHANGED <<child, code, linger, expired, agent, way, ctrl>>

ChildExits ==
  /\ child = "running"
  /\ child' = "exited"
  /\ code' \in Codes
  /\ linger' \in {FALSE, MayLinger}
  /\ UNCHANGED <<expired, wrote, pipe, agent, way, ctrl>>

LingerEnds ==
  /\ linger
  /\ linger' = FALSE
  /\ UNCHANGED <<child, code, expired, wrote, pipe, agent, way, ctrl>>

(* kill_group and wait: only a process that left the group survives *)
KillGroup ==
  /\ child' = IF child = "running" THEN "killed" ELSE child
  /\ linger' \in {FALSE, IF child = "running" THEN MayLinger ELSE linger}

----------------------------------------------------------------------------
(* The agent's worker.                                                      *)

(* mutant: the queue has no limit *)
SendUnbounded(m) == link = "up" /\ queue' = Append(queue, m) /\ UNCHANGED link

(* a send blocks while the queue is full; on a broken connection it fails,   *)
(* or its frame is lost with the ones the writer had not written             *)
Send(m) ==
  /\ IF link = "up" THEN Len(queue) < QueueCap /\ queue' = Append(queue, m)
                    ELSE UNCHANGED queue
  /\ UNCHANGED link

(* no such directory, or the shell cannot be started *)
Refuse ==
  /\ wpc = "start"
  /\ \E c \in {125, 126} : Send([op |-> "Error", code |-> c])
  /\ wpc' = "over"
  /\ UNCHANGED <<procs, status, cancel, ppc, ctrl>>

Spawn ==
  /\ wpc = "start"
  /\ child' = "running"
  /\ ppc' = [s \in Streams |-> "check"]
  /\ wpc' = "poll"
  /\ UNCHANGED <<code, linger, expired, wrote, pipe, status, cancel, way, ctrl>>

(* mutant: the poll loop does not look at the cancel flag *)
PollDeaf ==
  /\ wpc = "poll"
  /\ wpc' = "trywait"
  /\ UNCHANGED <<procs, status, cancel, ppc, way, ctrl>>

(* top of the poll loop: a cancelled job is killed *)
Poll ==
  /\ wpc = "poll"
  /\ IF cancel THEN KillGroup /\ status' = "cancelled" /\ wpc' = "drain"
               ELSE wpc' = "trywait" /\ UNCHANGED <<child, linger, status>>
  /\ UNCHANGED <<code, expired, wrote, pipe, cancel, ppc, way, ctrl>>

TryWait ==
  /\ wpc = "trywait"
  /\ IF child = "running" THEN wpc' = "deadline" /\ UNCHANGED status
                          ELSE status' = "exited" /\ wpc' = "drain"
  /\ UNCHANGED <<procs, cancel, ppc, way, ctrl>>

(* try_wait fails: only the child itself is killed, and the pumps are left *)
TryWaitFails ==
  /\ wpc = "trywait"
  /\ Send([op |-> "Error", code |-> 500])
  /\ child' = IF child = "running" THEN "killed" ELSE child
  /\ linger' = IF child = "running" THEN MayLinger ELSE linger
  /\ wpc' = "over"
  /\ UNCHANGED <<code, expired, wrote, pipe, status, cancel, ppc, ctrl>>

(* the deadline passes while the poll loop still looks at it *)
Expire ==
  /\ wpc \in {"poll", "trywait", "deadline"} /\ ~expired
  /\ expired' = TRUE
  /\ UNCHANGED <<child, code, linger, wrote, pipe, agent, way, ctrl>>

CheckDeadline ==
  /\ wpc = "deadline"
  /\ IF expired THEN KillGroup /\ status' = "timeout" /\ wpc' = "drain"
                ELSE wpc' = "poll" /\ UNCHANGED <<child, linger, status>>
  /\ UNCHANGED <<code, expired, wrote, pipe, cancel, ppc, way, ctrl>>

(* both pumps reported the end of their stream *)
Drained ==
  /\ wpc = "drain"
  /\ \A s \in Streams : ppc[s] = "done"
  /\ wpc' = "final"
  /\ UNCHANGED <<procs, status, cancel, ppc, way, ctrl>>

(* mutant: the worker waits for the pumps without a limit *)
GraceNever == FALSE

(* PUMP_GRACE is over: stop the pumps, so that nothing can hold the worker *)
GraceOver ==
  /\ wpc = "drain"
  /\ cancel' = TRUE
  /\ wpc' = "final"
  /\ UNCHANGED <<procs, status, ppc, way, ctrl>>

(* mutant: a command that exits with 124 is taken for a timeout *)
EndFrameByRc ==
  LET r == CASE status = "exited" -> code [] status = "timeout" -> 124 [] OTHER -> 129
  IN  [op |-> "ExecEnd", rc |-> r, timed |-> r = 124]

EndFrame ==
  [op |-> "ExecEnd",
   rc |-> CASE status = "exited" -> code [] status = "timeout" -> 124 [] OTHER -> 129,
   timed |-> status = "timeout"]

SendEnd ==
  /\ wpc = "final"
  /\ Send(EndFrame)
  /\ wpc' = "over"
  /\ UNCHANGED <<procs, status, cancel, ppc, ctrl>>

----------------------------------------------------------------------------
(* The pumps, spawn_pump.                                                   *)

PumpCheck(s) ==
  /\ ppc[s] = "check"
  /\ ppc' = [ppc EXCEPT ![s] = IF cancel THEN "done" ELSE "read"]
  /\ UNCHANGED <<procs, wpc, status, cancel, way, ctrl>>

(* mutant: the end of the stream is assumed once the child is gone *)
PumpReadHasty(s) ==
  /\ ppc[s] = "read"
  /\ \/ /\ pipe[s] > 0
        /\ pipe' = [pipe EXCEPT ![s] = @ - 1]
        /\ ppc' = [ppc EXCEPT ![s] = "send"]
     \/ /\ child # "running"
        /\ ppc' = [ppc EXCEPT ![s] = "done"]
        /\ UNCHANGED pipe
  /\ UNCHANGED <<child, code, linger, expired, wrote, wpc, status, cancel, way, ctrl>>

(* a chunk, or end of file once every writer has closed the pipe *)
PumpRead(s) ==
  /\ ppc[s] = "read"
  /\ \/ /\ pipe[s] > 0
        /\ pipe' = [pipe EXCEPT ![s] = @ - 1]
        /\ ppc' = [ppc EXCEPT ![s] = "send"]
     \/ /\ pipe[s] = 0 /\ child # "running" /\ ~linger
        /\ ppc' = [ppc EXCEPT ![s] = "done"]
        /\ UNCHANGED pipe
  /\ UNCHANGED <<child, code, linger, expired, wrote, wpc, status, cancel, way, ctrl>>

(* a failed send ends the pump *)
PumpSend(s) ==
  /\ ppc[s] = "send"
  /\ Send([op |-> "ExecOut", stream |-> s])
  /\ ppc' \in {[ppc EXCEPT ![s] = pc] : pc \in IF link = "up" THEN {"check"} ELSE {"check", "done"}}
  /\ UNCHANGED <<procs, wpc, status, cancel, ctrl>>

Pump(s) == PumpCheck(s) \/ PumpRead(s) \/ PumpSend(s)

----------------------------------------------------------------------------
(* The controller.                                                          *)

(* the next frame reaches the controller; once it left, the server drops it *)
Deliver ==
  /\ queue # <<>>
  /\ queue' = Tail(queue)
  /\ LET m == Head(queue) IN
     CASE cpc # "wait" -> UNCHANGED ctrl
       [] cpc = "wait" /\ m.op = "ExecOut" ->
            got' = [got EXCEPT ![m.stream] = @ + 1] /\ UNCHANGED <<cpc, rc>>
       [] cpc = "wait" /\ m.op = "ExecEnd" ->
            cpc' = "ended" /\ rc' = (IF m.timed THEN 5 ELSE m.rc) /\ UNCHANGED got
       [] cpc = "wait" /\ m.op = "Error" ->
            cpc' = "refused" /\ rc' = (IF m.code = 125 THEN 125 ELSE 1) /\ UNCHANGED got
  /\ UNCHANGED <<procs, agent, link>>

(* its own deadline passes or it is interrupted; 3 also stands for the 5 of a *)
(* deadline noticed between two frames                                       *)
Leave ==
  /\ MayLeave /\ cpc = "wait"
  /\ cpc' = "left" /\ rc' = 3
  /\ UNCHANGED <<procs, agent, way, got>>

(* the server's RouteCancel reaches the agent while the job is registered *)
RouteCancel ==
  /\ cpc = "left" /\ link = "up" /\ wpc # "over" /\ ~cancel
  /\ cancel' = TRUE
  /\ UNCHANGED <<procs, wpc, status, ppc, way, ctrl>>

----------------------------------------------------------------------------
(* The agent's connection.                                                  *)

(* what the server has not read by then is lost *)
LinkBreaks ==
  /\ MayBreak /\ link = "up"
  /\ link' = "broken"
  /\ queue' \in {SubSeq(queue, 1, n) : n \in 0..Len(queue)}
  /\ UNCHANGED <<procs, agent, ctrl>>

(* reader_loop fails, and run_once cancels every job *)
CancelAll ==
  /\ link # "up" /\ wpc # "over" /\ ~cancel
  /\ cancel' = TRUE
  /\ UNCHANGED <<procs, wpc, status, ppc, way, ctrl>>

(* mutant: the routes of a lost agent are removed without an answer *)
CleanupAgentSilent ==
  /\ link = "broken"
  /\ link' = "cleaned"
  /\ UNCHANGED <<procs, agent, queue, ctrl>>

(* the server answers 410 for the route, if it is still there: a final frame *)
(* it read before and a controller that left have removed it                 *)
CleanupAgent ==
  /\ link = "broken"
  /\ link' = "cleaned"
  /\ IF cpc = "wait" /\ \A i \in 1..Len(queue) : queue[i].op = "ExecOut"
       THEN Len(queue) < QueueCap /\ queue' = Append(queue, [op |-> "Error", code |-> 410])
       ELSE UNCHANGED queue
  /\ UNCHANGED <<procs, agent, ctrl>>

----------------------------------------------------------------------------
Worker ==
  \/ Spawn \/ Poll \/ TryWait \/ CheckDeadline \/ Drained \/ SendEnd

(* everything has ended *)
Finished == cpc # "wait" /\ wpc = "over" /\ queue = <<>> /\ UNCHANGED vars

Next ==
  \/ \E s \in Streams : Write(s) \/ Pump(s)
  \/ ChildExits \/ LingerEnds \/ Expire
  \/ Refuse \/ Worker \/ TryWaitFails \/ GraceOver
  \/ Deliver \/ Leave \/ RouteCancel
  \/ LinkBreaks \/ CancelAll \/ CleanupAgent \/ Finished

Spec == Init /\ [][Next]_vars

(* The threads run and the grace period ends; the command owes nothing, and   *)
(* there may be no deadline.                                                 *)
FairSpec ==
  /\ Spec
  /\ WF_vars(Worker) /\ WF_vars(GraceOver)
  /\ \A s \in Streams : WF_vars(Pump(s))
  /\ WF_vars(Deliver) /\ WF_vars(RouteCancel)
  /\ WF_vars(CancelAll) /\ WF_vars(CleanupAgent)

----------------------------------------------------------------------------
(* Every variable ranges over the states the code can be in. *)
TypeOK ==
  /\ child \in {"none", "running", "exited", "killed"} /\ code \in Codes
  /\ linger \in BOOLEAN /\ expired \in BOOLEAN
  /\ wrote \in [Streams -> 0..MaxChunks] /\ pipe \in [Streams -> 0..PipeCap]
  /\ wpc \in {"start", "poll", "trywait", "deadline", "drain", "final", "over"}
  /\ status \in Statuses /\ cancel \in BOOLEAN
  /\ ppc \in [Streams -> {"off", "check", "read", "send", "done"}]
  /\ link \in {"up", "broken", "cleaned"}
  /\ queue \in Seq(Outs \cup Ends) /\ Len(queue) <= QueueCap
  /\ cpc \in {"wait", "ended", "refused", "left"}
  /\ got \in [Streams -> 0..MaxChunks] /\ rc \in Codes \cup {1, 3, 5, 125, 129}

(* When the pumps finished within the grace period and the job was not       *)
(* cancelled, the controller has printed every chunk the command and its     *)
(* background processes wrote by the time it sees ExecEnd.                   *)
OutputComplete ==
  cpc = "ended" /\ ~cancel => \A s \in Streams : got[s] = wrote[s]

(* The controller reports a timeout only if the deadline had passed when the *)
(* agent decided, and otherwise the command's own exit code, 124 included    *)
(* (docs/协议.md line 74); never the 129 of a cancelled job.                  *)
ExitFaithful ==
  cpc = "ended" => \/ rc = 5 /\ expired
                   \/ rc = code /\ child = "exited"

(* After the controller is gone, at the deadline, or when the agent has lost *)
(* its connection, the command does not keep running (docs/协议.md line 72),  *)
(* whatever it does with its output.                                         *)
CommandStopped ==
  (child = "running" /\ (cpc = "left" \/ expired \/ link # "up")) ~> child # "running"

(* The controller always learns that its command is over, from the agent or, *)
(* if the agent is lost with the result, from the server.                    *)
ControllerTold == (wpc = "over" \/ link # "up") ~> cpc # "wait"

(* A background process that keeps the pipes open cannot hold the job: once  *)
(* the command is gone the worker ends.                                      *)
WorkerEnds == child \in {"exited", "killed"} ~> wpc = "over"

============================================================================
