-------------------------------- MODULE Pull --------------------------------
(***************************************************************************)
(* One `apb pull`: the controller (ctrl.rs pull) receives what the agent's *)
(* worker (agent.rs run_pull) walks, hashes and sends, over the queues of  *)
(* Transfer.  Phase 1: the agent lists its entries; phase 2: the           *)
(* controller sends plans and signatures; phase 3: the agent sends data.   *)
(***************************************************************************)
EXTENDS Transfer

VARIABLES
  \* controller
  listed,   \* entries of the manifest received so far
  midx,     \* file being planned
  msigs,    \* FileSigs frames already sent for it
  plan,     \* plan decided for each file
  cur,      \* file being written, 0 if none
  recvd,    \* units received of it
  good,     \* all of them what the manifest promised
  \* agent worker
  apc,
  aidx,     \* entry to list, then file to send
  aplan,    \* plan received for each file
  asigs,    \* FileSigs frames received for each file
  aleft     \* frames still to send of the file

ctrl == <<mpc, listed, midx, msigs, plan, cur, recvd, good, dest, rc>>
worker == <<apc, aidx, aplan, asigs, aleft>>
vars == <<ctrl, queues, server, worker>>

UpFrames ==
  [op : {"PullBegin", "PlanEnd"}] \cup
  [op : {"FilePlan"}, f : Files, plan : Plans] \cup
  [op : {"FileSigs"}, f : Files, first : 0..SigFrames - 1]
DownFrames ==
  [op : {"ManifestEnd", "TransferDone", "TransferFailed", "Error", "Copy"}] \cup
  [op : {"Entry", "FileStart", "FileEnd"}, f : Entries] \cup
  [op : {"Data"}, bytes : Bytes]

Init ==
  /\ TransferInit
  /\ mpc = "begin" /\ listed = 0 /\ midx = FirstFile /\ msigs = 0 /\ rc = 0
  /\ plan = [f \in Files |-> "whole"]
  /\ cur = 0 /\ recvd = 0 /\ good = TRUE
  /\ dest \in Before
  /\ apc = "idle" /\ aidx = 1 /\ aleft = <<>>
  /\ aplan = [f \in Files |-> "whole"]
  /\ asigs = [f \in Files |-> 0]

----------------------------------------------------------------------------
(* The controller.                                                          *)

Exit(code) == mpc' = "exit" /\ rc' = code /\ cur' = 0

(* exit code 6; a writer at work is aborted *)
Fail == Exit(6) /\ UNCHANGED <<listed, midx, msigs, plan, recvd, good>>

SendBegin ==
  /\ mpc = "begin"
  /\ MainSend(Msg("PullBegin"))
  /\ mpc' = "mkroot"
  /\ UNCHANGED <<listed, midx, msigs, plan, cur, recvd, good, dest, rc, inbox, down, events, server, worker>>

(* the local root is made after the request is on its way *)
MakeRoot ==
  /\ mpc = "mkroot"
  /\ \/ mpc' = "manifest" /\ UNCHANGED <<cur, rc>>
     \/ MayFail /\ Exit(1)
  /\ UNCHANGED <<listed, midx, msigs, plan, recvd, good, dest, queues, server, worker>>

(* phase 1: directories and links are made at once, files are noted *)
RecvEntry ==
  /\ mpc = "manifest"
  /\ NextEvent /\ Head(events).op = "Entry"
  /\ Head(events).f \in Files => Head(events).f = listed + 1
  /\ LET e == Head(events).f IN
       \/ /\ dest' = IF e \in Files THEN dest ELSE [dest EXCEPT ![e] = "new"]
          /\ listed' = listed + 1
          /\ UNCHANGED <<mpc, midx, msigs, plan, cur, recvd, good, rc>>
       \/ /\ MayFail /\ e \notin Files
          /\ dest' = IF e \in Links THEN [dest EXCEPT ![e] = "none"] ELSE dest
          /\ Fail
  /\ UNCHANGED <<up, inbox, down, server, worker>>

RecvManifestEnd ==
  /\ mpc = "manifest"
  /\ NextEvent /\ Head(events).op = "ManifestEnd"
  /\ mpc' = "plan"
  /\ UNCHANGED <<listed, midx, msigs, plan, cur, recvd, good, dest, rc, up, inbox, down, server, worker>>

(* phase 2: plan_pull_files scans the local copy and sends the plan; nothing *)
(* is received meanwhile                                                     *)
SendPlan ==
  /\ mpc = "plan" /\ midx <= LastFile
  /\ \E p \in PlansFor(dest[midx]) :
       /\ MainSend([op |-> "FilePlan", f |-> midx, plan |-> p])
       /\ plan' = [plan EXCEPT ![midx] = p]
       /\ IF p = "delta" THEN mpc' = "sigs" /\ msigs' = 0 /\ UNCHANGED midx
                         ELSE midx' = midx + 1 /\ UNCHANGED <<mpc, msigs>>
  /\ UNCHANGED <<listed, cur, recvd, good, dest, rc, inbox, down, events, server, worker>>

SendSigs ==
  /\ mpc = "sigs"
  /\ MainSend([op |-> "FileSigs", f |-> midx, first |-> msigs])
  /\ IF msigs + 1 = SigFrames THEN mpc' = "plan" /\ midx' = midx + 1 /\ msigs' = 0
                              ELSE msigs' = msigs + 1 /\ UNCHANGED <<mpc, midx>>
  /\ UNCHANGED <<listed, plan, cur, recvd, good, dest, rc, inbox, down, events, server, worker>>

(* the local copy cannot be scanned *)
ScanFails ==
  /\ MayFail
  /\ mpc = "plan" /\ midx <= LastFile /\ dest[midx] # "none"
  /\ Fail
  /\ UNCHANGED <<dest, queues, server, worker>>

SendPlanEnd ==
  /\ mpc = "plan" /\ midx = LastFile + 1
  /\ MainSend(Msg("PlanEnd"))
  /\ mpc' = "data"
  /\ UNCHANGED <<listed, midx, msigs, plan, cur, recvd, good, dest, rc, inbox, down, events, server, worker>>

(* phase 3: FileWriter create *)
RecvStart ==
  /\ mpc = "data"
  /\ NextEvent /\ Head(events).op = "FileStart" /\ cur = 0
  /\ cur' = Head(events).f /\ recvd' = 0 /\ good' = TRUE
  /\ UNCHANGED <<mpc, listed, midx, msigs, plan, dest, rc, up, inbox, down, server, worker>>

(* mutant: no overrun check *)
RecvDataOverrun ==
  /\ mpc = "data"
  /\ NextEvent /\ Head(events).op \in {"Data", "Copy"}
  /\ cur # 0
  /\ recvd' = recvd + 1
  /\ IF Head(events).op = "Data" THEN good' = (good /\ Head(events).bytes = "good")
     ELSE plan[cur] = "delta" /\ good' \in {good, good /\ ~MayFail}
  /\ UNCHANGED <<mpc, listed, midx, msigs, plan, cur, dest, rc, up, inbox, down, server, worker>>

(* write_literal, copy_from_base: the base of a copy may have been changed *)
RecvData ==
  /\ mpc = "data"
  /\ NextEvent /\ Head(events).op \in {"Data", "Copy"}
  /\ cur # 0 /\ recvd < Size
  /\ recvd' = recvd + 1
  /\ IF Head(events).op = "Data" THEN good' = (good /\ Head(events).bytes = "good")
     ELSE plan[cur] = "delta" /\ good' \in {good, good /\ ~MayFail}
  /\ UNCHANGED <<mpc, listed, midx, msigs, plan, cur, dest, rc, up, inbox, down, server, worker>>

(* what finish requires before it renames: the size and the content hash *)
Verified == recvd = Size /\ good

RecvFileEnd ==
  /\ mpc = "data"
  /\ NextEvent /\ Head(events).op = "FileEnd"
  /\ cur # 0 /\ Verified
  /\ dest' = [dest EXCEPT ![cur] = IF good THEN "new" ELSE "bad"]
  /\ cur' = 0
  /\ UNCHANGED <<mpc, listed, midx, msigs, plan, recvd, good, rc, up, inbox, down, server, worker>>

(* the agent's verdict is final: the files received are not counted again *)
RecvDone ==
  /\ mpc = "data"
  /\ NextEvent /\ Head(events).op = "TransferDone"
  /\ Exit(0)
  /\ UNCHANGED <<listed, midx, msigs, plan, recvd, good, dest, up, inbox, down, server, worker>>

(* mutant: an early verdict is not noticed in phase 1 *)
RefusedUnlessDone(m) ==
  \/ m.op = "Error"
  \/ mpc = "data" /\ m.op = "TransferFailed"

(* an event that ends the pull: a failure of the agent or of the server, a   *)
(* verdict before the manifest is complete, frames out of order, or data the *)
(* writer refuses                                                            *)
Refused(m) ==
  \/ m.op \in {"Error", "TransferFailed"}
  \/ mpc = "manifest" /\ m.op = "TransferDone"
  \/ mpc = "manifest" /\ m.op = "Entry" /\ m.f \in Files /\ m.f # listed + 1
  \/ mpc = "data" /\ m.op \in {"Data", "Copy", "FileEnd"} /\ cur = 0
  \/ mpc = "data" /\ m.op \in {"Data", "Copy"} /\ recvd = Size
  \/ mpc = "data" /\ m.op = "Copy" /\ cur # 0 /\ plan[cur] # "delta"
  \/ mpc = "data" /\ m.op = "FileStart" /\ cur # 0
  \/ mpc = "data" /\ m.op = "FileEnd" /\ ~Verified

RecvRefuse ==
  /\ mpc \in {"manifest", "data"}
  /\ NextEvent /\ Refused(Head(events))
  /\ Fail
  /\ UNCHANGED <<dest, up, inbox, down, server, worker>>

(* the deadlines of phase 1 and 3 *)
Timeout ==
  /\ mpc \in {"manifest", "data"}
  /\ Fail
  /\ UNCHANGED <<dest, queues, server, worker>>

(* the disk fails while a file is created, written or renamed *)
WriteFails ==
  /\ MayFail
  /\ mpc = "data"
  /\ NextEvent /\ Head(events).op \in {"FileStart", "Data", "Copy", "FileEnd"}
  /\ Fail
  /\ UNCHANGED <<dest, up, inbox, down, server, worker>>

(* a send fails or the reader reports the connection closed *)
LinkLost ==
  /\ MayFail
  /\ mpc \notin {"mkroot", "exit"}
  /\ Exit(IF mpc = "begin" THEN 3 ELSE 6)
  /\ UNCHANGED <<listed, midx, msigs, plan, recvd, good, dest, queues, server, worker>>

----------------------------------------------------------------------------
(* The reader thread, the server and its view of both ends.                 *)

Reader == Read /\ UNCHANGED <<ctrl, worker>>
ServerStep == Relay /\ UNCHANGED <<ctrl, worker>>
RemoveRoute == apc = "over" /\ alive /\ ForgetRoute /\ UNCHANGED <<ctrl, worker>>
AgentLeaves == CleanupAgent /\ UNCHANGED <<ctrl, worker>>

(* the worker of a lost agent or controller is cancelled *)
Cancelled == apc' = "over" /\ aleft' = <<>> /\ UNCHANGED <<aidx, aplan, asigs>>

AgentDies == LoseAgent /\ Cancelled /\ UNCHANGED ctrl
CtrlGone == mpc = "exit" /\ Disconnect /\ Cancelled /\ UNCHANGED ctrl

----------------------------------------------------------------------------
(* The agent's worker, run_pull.                                            *)

WorkerBegin ==
  /\ apc = "idle"
  /\ Take
  /\ apc' = "walk"
  /\ UNCHANGED <<ctrl, up, down, events, server, aidx, aplan, asigs, aleft>>

(* phase 1: send_entry for each entry the walk meets, then ManifestEnd *)
WorkerWalk ==
  /\ apc = "walk"
  /\ IF aidx <= LastFile
       THEN /\ SendDown(FileMsg("Entry", aidx))
            /\ aidx' = aidx + 1 /\ UNCHANGED apc
       ELSE /\ SendDown(Msg("ManifestEnd"))
            /\ aidx' = FirstFile /\ apc' = "plans"
  /\ UNCHANGED <<ctrl, up, inbox, events, server, aplan, asigs, aleft>>

(* mutant: a plan leaves the default plan in place *)
WorkerPlanIgnored ==
  /\ apc = "plans"
  /\ Take
  /\ \/ /\ Head(inbox).op = "FilePlan"
        /\ asigs' = [asigs EXCEPT ![Head(inbox).f] = 0]
        /\ UNCHANGED <<apc, aplan>>
     \/ /\ Head(inbox).op = "FileSigs" /\ asigs[Head(inbox).f] = Head(inbox).first
        /\ asigs' = [asigs EXCEPT ![Head(inbox).f] = @ + 1]
        /\ UNCHANGED <<apc, aplan>>
     \/ /\ Head(inbox).op = "PlanEnd"
        /\ apc' = "data"
        /\ UNCHANGED <<aplan, asigs>>
  /\ UNCHANGED <<ctrl, up, down, events, server, aidx, aleft>>

(* mutant: the data phase starts with the last plan, not with PlanEnd *)
WorkerPlanEager ==
  /\ apc = "plans"
  /\ Take
  /\ \/ /\ Head(inbox).op = "FilePlan"
        /\ aplan' = [aplan EXCEPT ![Head(inbox).f] = Head(inbox).plan]
        /\ asigs' = [asigs EXCEPT ![Head(inbox).f] = 0]
        /\ apc' = IF Head(inbox).f = LastFile THEN "data" ELSE apc
     \/ /\ Head(inbox).op = "FileSigs" /\ asigs[Head(inbox).f] = Head(inbox).first
        /\ asigs' = [asigs EXCEPT ![Head(inbox).f] = @ + 1]
        /\ UNCHANGED <<apc, aplan>>
     \/ /\ Head(inbox).op = "PlanEnd"
        /\ apc' = "data"
        /\ UNCHANGED <<aplan, asigs>>
  /\ UNCHANGED <<ctrl, up, down, events, server, aidx, aleft>>

(* Phase 2.  A FileSigs frame out of order would be answered by an Error;    *)
(* here it would leave the worker waiting, so Terminates shows there is none. *)
WorkerPlan ==
  /\ apc = "plans"
  /\ Take
  /\ \/ /\ Head(inbox).op = "FilePlan"
        /\ aplan' = [aplan EXCEPT ![Head(inbox).f] = Head(inbox).plan]
        /\ asigs' = [asigs EXCEPT ![Head(inbox).f] = 0]
        /\ UNCHANGED apc
     \/ /\ Head(inbox).op = "FileSigs" /\ asigs[Head(inbox).f] = Head(inbox).first
        /\ asigs' = [asigs EXCEPT ![Head(inbox).f] = @ + 1]
        /\ UNCHANGED <<apc, aplan>>
     \/ /\ Head(inbox).op = "PlanEnd"
        /\ apc' = "data"
        /\ UNCHANGED <<aplan, asigs>>
  /\ UNCHANGED <<ctrl, up, down, events, server, aidx, aleft>>

(* phase 3: a skipped file costs nothing, any other is announced; a delta    *)
(* needs all its signatures (SigIndex::new)                                  *)
WorkerStart ==
  /\ apc = "data" /\ aidx <= LastFile
  /\ IF aplan[aidx] = "skip"
       THEN aidx' = aidx + 1 /\ UNCHANGED <<apc, aleft, down>>
       ELSE /\ aplan[aidx] = "delta" => asigs[aidx] = SigFrames
            /\ SendDown(FileMsg("FileStart", aidx))
            /\ aleft' \in Streams(aplan[aidx])
            /\ apc' = "stream" /\ UNCHANGED aidx
  /\ UNCHANGED <<ctrl, up, inbox, events, server, aplan, asigs>>

(* stream_file, produce_delta *)
WorkerStream ==
  /\ apc = "stream" /\ aleft # <<>>
  /\ SendDown(Head(aleft))
  /\ aleft' = Tail(aleft)
  /\ UNCHANGED <<ctrl, up, inbox, events, server, apc, aidx, aplan, asigs>>

WorkerEndFile ==
  /\ apc = "stream" /\ aleft = <<>>
  /\ SendDown(FileMsg("FileEnd", aidx))
  /\ apc' = "data" /\ aidx' = aidx + 1
  /\ UNCHANGED <<ctrl, up, inbox, events, server, aplan, asigs, aleft>>

(* mutant: the verdict is sent when one file is still missing *)
WorkerFinishEarly ==
  /\ apc = "data" /\ aidx >= LastFile
  /\ SendDown(Msg("TransferDone"))
  /\ apc' = "over"
  /\ UNCHANGED <<ctrl, up, inbox, events, server, aidx, aplan, asigs, aleft>>

(* finish_pull *)
WorkerFinish ==
  /\ apc = "data" /\ aidx = LastFile + 1
  /\ SendDown(Msg("TransferDone"))
  /\ apc' = "over"
  /\ UNCHANGED <<ctrl, up, inbox, events, server, aidx, aplan, asigs, aleft>>

(* the path does not exist, an entry cannot be read or hashed (TransferDone  *)
(* with ok = false, or an Error), or a source cannot be opened or read       *)
WorkerFails ==
  /\ MayFail
  /\ \/ apc = "walk"
     \/ apc = "stream"
  /\ \E op \in {"TransferFailed", "Error"} : SendDown(Msg(op))
  /\ apc' = "over" /\ aleft' = <<>>
  /\ UNCHANGED <<ctrl, up, inbox, events, server, aidx, aplan, asigs>>

(* produce_delta reports a read that a signal interrupted as if the worker   *)
(* had been cancelled: run_pull ends without a final answer                  *)
WorkerQuits ==
  /\ MayFail
  /\ apc = "stream" /\ aplan[aidx] = "delta"
  /\ apc' = "quit" /\ aleft' = <<>>
  /\ UNCHANGED <<ctrl, queues, server, aidx, aplan, asigs>>

----------------------------------------------------------------------------
CtrlStep ==
  \/ SendBegin \/ MakeRoot \/ RecvEntry \/ RecvManifestEnd
  \/ SendPlan \/ SendSigs \/ SendPlanEnd
  \/ RecvStart \/ RecvData \/ RecvFileEnd \/ RecvDone \/ RecvRefuse

WorkerStep ==
  \/ WorkerBegin \/ WorkerWalk \/ WorkerPlan \/ WorkerStart \/ WorkerStream
  \/ WorkerEndFile \/ WorkerFinish

Finished == route = "closed" /\ UNCHANGED vars

Next ==
  \/ CtrlStep \/ ScanFails \/ WriteFails \/ LinkLost \/ Timeout \/ Reader
  \/ ServerStep \/ RemoveRoute \/ AgentDies \/ AgentLeaves \/ CtrlGone
  \/ WorkerStep \/ WorkerFails \/ WorkerQuits \/ Finished

Spec == Init /\ [][Next]_vars

(* Nobody is left to answer: PullBegin got its route after cleanup_agent had *)
(* scanned the routes, or the worker ended without a word.                   *)
Unanswered ==
  /\ up = <<>> /\ down = <<>> /\ events = <<>> /\ ~notify
  /\ route = "open" /\ (cleanup = "routes" \/ apc = "quit")

(* Every thread keeps running.  A deadline of an hour or a day is no part of *)
(* it but for the Unanswered, so that any other answer lost shows as a pull  *)
(* that never ends.                                                          *)
Fairness ==
  /\ WF_vars(Timeout /\ Unanswered)
  /\ WF_vars(CtrlStep) /\ WF_vars(Reader)
  /\ WF_vars(ServerStep) /\ WF_vars(RemoveRoute) /\ WF_vars(AgentLeaves) /\ WF_vars(CtrlGone)
  /\ WF_vars(WorkerStep)

FairSpec == Spec /\ Fairness

----------------------------------------------------------------------------
(* Every variable ranges over the states the code can be in. *)
TypeOK ==
  /\ mpc \in {"begin", "mkroot", "manifest", "plan", "sigs", "data", "exit"}
  /\ listed \in 0..LastFile /\ midx \in Files \cup {FirstFile, LastFile + 1}
  /\ msigs \in 0..SigFrames - 1 /\ plan \in [Files -> Plans]
  /\ cur \in Files \cup {0} /\ recvd \in 0..Size /\ good \in BOOLEAN
  /\ dest \in [Entries -> {"none", "old", "new", "bad"}] /\ rc \in {0, 1, 3, 6}
  /\ up \in Seq(UpFrames) /\ Len(up) <= UpCap
  /\ inbox \in Seq(UpFrames) /\ Len(inbox) <= InCap
  /\ down \in Seq(DownFrames) /\ Len(down) <= DownCap
  /\ events \in Seq(DownFrames) /\ Len(events) <= EvCap
  /\ hand \in {"none", "found", "insert", "send", "error"}
  /\ route \in {"none", "open", "gone", "stray", "closed"}
  /\ alive \in BOOLEAN /\ cleanup \in {"none", "name", "routes"} /\ notify \in BOOLEAN
  /\ apc \in {"idle", "walk", "plans", "data", "stream", "quit", "over"}
  /\ aidx \in 1..LastFile + 1 /\ aplan \in [Files -> Plans]
  /\ asigs \in [Files -> 0..SigFrames] /\ aleft \in Seq(DownFrames)

(* An unchanged local file costs not a single data frame (docs/协议.md line   *)
(* 96): what the controller planned is what the agent does, file by file.    *)
PlanHonoured ==
  \A f \in Files : apc = "stream" /\ aidx = f => plan[f] = aplan[f] /\ plan[f] # "skip"

(* plan_pull_files reads nothing while it sends, and docs/协议.md line 80     *)
(* promises that this is safe.  As long as the agent is connected it is: the *)
(* worker is only reading, and no frame is under way that would have to be   *)
(* taken before the queues move.                                             *)
PhasesDoNotBlock ==
  mpc \in {"plan", "sigs"} /\ alive => apc = "plans" /\ down = <<>> /\ events = <<>>

(* Nothing but plans is under way while the controller does not listen, so   *)
(* only the server's own errors can fill the way back in phase 2.            *)
Gridlocked ==
  /\ mpc \in {"plan", "sigs"} /\ Len(up) = UpCap
  /\ Len(down) = DownCap /\ Len(events) = EvCap
  /\ hand = "error"

(* A pull always ends, except when the agent is lost in phase 2 and the      *)
(* errors for the plans fill every queue.  Fairness lets a deadline help     *)
(* only where nobody is left to answer.                                      *)
Terminates == <>(mpc = "exit" \/ Gridlocked)

============================================================================
