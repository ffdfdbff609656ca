-------------------------------- MODULE Push --------------------------------
(***************************************************************************)
(* One `apb push`: the controller's main thread (ctrl.rs push) and the     *)
(* agent's worker (agent.rs run_push), over the queues of Transfer.  The   *)
(* transfer runs in three phases: manifest, plans, data.                   *)
(***************************************************************************)
EXTENDS Transfer

VARIABLES
  \* controller
  midx,     \* entry it is at
  mleft,    \* frames still to send of that file
  plans,    \* FilePlan received for each file
  sigs,     \* FileSigs frames received for each file
  \* agent worker
  apc,
  aidx,     \* entry expected next, then file being planned
  asigs,    \* FileSigs frames already sent for it
  aplan,    \* plan decided for each file
  cur,      \* file being written, 0 if none
  recvd,    \* units received of it
  good      \* all of them what the manifest promised

main == <<mpc, midx, mleft, plans, sigs, rc>>
worker == <<apc, aidx, asigs, aplan, cur, recvd, good, dest>>
vars == <<main, queues, server, worker>>

UpFrames ==
  [op : {"PushBegin", "ManifestEnd", "PushEnd"}] \cup
  [op : {"Mkdir", "Symlink", "FileBegin", "FileStart", "FileEnd"}, f : Entries] \cup
  [op : {"Data"}, bytes : Bytes] \cup [op : {"Copy"}]
DownFrames ==
  [op : {"PushReady", "PlanEnd", "TransferDone", "Error"}] \cup
  [op : {"FilePlan"}, f : Files, plan : Plans] \cup
  [op : {"FileSigs"}, f : Files, first : 0..SigFrames - 1]

Init ==
  /\ TransferInit
  /\ mpc = "begin" /\ midx = 1 /\ mleft = <<>> /\ rc = 0
  /\ plans = [f \in Files |-> "whole"]
  /\ sigs = [f \in Files |-> 0]
  /\ apc = "idle" /\ aidx = 1 /\ asigs = 0
  /\ aplan = [f \in Files |-> "whole"]
  /\ cur = 0 /\ recvd = 0 /\ good = TRUE
  /\ dest \in Before

----------------------------------------------------------------------------
(* The controller's main thread.                                            *)

Exit(code) == mpc' = "exit" /\ rc' = code

(* the reason push reports exit code 6 for *)
Fail == Exit(6) /\ UNCHANGED <<midx, mleft, plans, sigs>>

SendBegin ==
  /\ mpc = "begin"
  /\ MainSend(Msg("PushBegin"))
  /\ mpc' = "ready"
  /\ UNCHANGED <<midx, mleft, plans, sigs, rc, inbox, down, events, server, worker>>

(* wait_push_ready *)
WaitReady ==
  /\ mpc = "ready"
  /\ NextEvent
  /\ CASE Head(events).op = "PushReady" ->
            mpc' = "manifest" /\ UNCHANGED <<midx, mleft, plans, sigs, rc>>
       [] Head(events).op = "Error" -> Fail
       [] OTHER -> UNCHANGED main
  /\ UNCHANGED <<up, inbox, down, server, worker>>

ManifestOp(e) ==
  CASE e \in Dirs -> "Mkdir" [] e \in Links -> "Symlink" [] e \in Files -> "FileBegin"

(* phase 1: one frame per entry, then ManifestEnd, feedback after each *)
SendManifest ==
  /\ mpc = "manifest"
  /\ MainSend(IF midx <= LastFile THEN FileMsg(ManifestOp(midx), midx) ELSE Msg("ManifestEnd"))
  /\ midx' = midx + 1
  /\ mpc' = "mfeedback"
  /\ UNCHANGED <<mleft, plans, sigs, rc, inbox, down, events, server, worker>>

(* mutant: the event is looked at and left in the channel *)
DrainFeedbackPeek ==
  /\ mpc \in {"mfeedback", "dfeedback"}
  /\ events # <<>>
  /\ IF Head(events).op = "Error" THEN Fail ELSE UNCHANGED main
  /\ UNCHANGED <<queues, server, worker>>

(* check_send_feedback takes one queued event: errors end the push, anything *)
(* else is thrown away.                                                      *)
DrainFeedback ==
  /\ mpc \in {"mfeedback", "dfeedback"}
  /\ NextEvent
  /\ IF Head(events).op = "Error" THEN Fail ELSE UNCHANGED main
  /\ UNCHANGED <<up, inbox, down, server, worker>>

(* mutant: the data follows the manifest without waiting for the plans *)
ManifestFeedbackDoneEager ==
  /\ mpc = "mfeedback"
  /\ events = <<>>
  /\ IF midx <= LastFile + 1 THEN mpc' = "manifest" /\ UNCHANGED midx
                             ELSE mpc' = "dfeedback" /\ midx' = FirstFile
  /\ UNCHANGED <<mleft, plans, sigs, rc, queues, server, worker>>

(* no event is queued: go on with the next manifest frame, or with phase 2 *)
ManifestFeedbackDone ==
  /\ mpc = "mfeedback"
  /\ events = <<>>
  /\ IF midx <= LastFile + 1 THEN mpc' = "manifest" /\ UNCHANGED midx
                             ELSE mpc' = "plans" /\ midx' = FirstFile
  /\ UNCHANGED <<mleft, plans, sigs, rc, queues, server, worker>>

(* where phase 3 stands when file i is next: check_send_feedback, or the end *)
NextFile(i) == IF i <= LastFile THEN "dfeedback" ELSE "pushend"

(* phase 2: read_push_plans *)
ReadPlan ==
  /\ mpc = "plans"
  /\ NextEvent
  /\ LET e == Head(events) IN
     CASE e.op = "FilePlan" ->
            /\ plans' = [plans EXCEPT ![e.f] = e.plan]
            /\ sigs' = IF e.plan = "delta" THEN [sigs EXCEPT ![e.f] = 0] ELSE sigs
            /\ UNCHANGED <<mpc, midx, mleft, rc>>
       [] e.op = "FileSigs" /\ sigs[e.f] = e.first ->
            /\ sigs' = [sigs EXCEPT ![e.f] = @ + 1]
            /\ UNCHANGED <<mpc, midx, mleft, plans, rc>>
       [] e.op = "FileSigs" /\ sigs[e.f] # e.first -> Fail
       [] e.op = "PlanEnd" ->
            mpc' = NextFile(midx) /\ UNCHANGED <<midx, mleft, plans, sigs, rc>>
       [] e.op = "Error" -> Fail
       [] OTHER -> UNCHANGED main
  /\ UNCHANGED <<up, inbox, down, server, worker>>

(* phase 3: a skipped file costs nothing, any other is announced *)
NextOrSkip ==
  /\ mpc = "dfeedback"
  /\ events = <<>>
  /\ IF plans[midx] = "skip"
       THEN midx' = midx + 1 /\ mpc' = NextFile(midx + 1)
       ELSE mpc' = "filestart" /\ UNCHANGED midx
  /\ UNCHANGED <<mleft, plans, sigs, rc, queues, server, worker>>

StartFile ==
  /\ mpc = "filestart"
  /\ MainSend(FileMsg("FileStart", midx))
  /\ mpc' = "stream"
  /\ mleft' \in Streams(plans[midx])
  /\ UNCHANGED <<midx, plans, sigs, rc, inbox, down, events, server, worker>>

(* stream_local_file, send_file_delta: no feedback is read between frames *)
StreamUnit ==
  /\ mpc = "stream" /\ mleft # <<>>
  /\ MainSend(Head(mleft))
  /\ mleft' = Tail(mleft)
  /\ UNCHANGED <<mpc, midx, plans, sigs, rc, inbox, down, events, server, worker>>

EndFile ==
  /\ mpc = "stream" /\ mleft = <<>>
  /\ MainSend(FileMsg("FileEnd", midx))
  /\ midx' = midx + 1
  /\ mpc' = NextFile(midx + 1)
  /\ UNCHANGED <<mleft, plans, sigs, rc, inbox, down, events, server, worker>>

(* the source cannot be opened or read *)
SourceFails ==
  /\ MayFail
  /\ mpc = "stream"
  /\ Fail
  /\ UNCHANGED <<queues, server, worker>>

SendPushEnd ==
  /\ mpc = "pushend"
  /\ MainSend(Msg("PushEnd"))
  /\ mpc' = "done"
  /\ UNCHANGED <<midx, mleft, plans, sigs, rc, inbox, down, events, server, worker>>

(* wait_transfer_done *)
WaitDone ==
  /\ mpc = "done"
  /\ NextEvent
  /\ CASE Head(events).op = "TransferDone" ->
            Exit(0) /\ UNCHANGED <<midx, mleft, plans, sigs>>
       [] Head(events).op = "Error" -> Fail
       [] OTHER -> UNCHANGED main
  /\ UNCHANGED <<up, inbox, down, server, worker>>

(* a send fails or the reader reports the connection closed *)
LinkLost ==
  /\ MayFail
  /\ mpc # "exit"
  /\ Exit(IF mpc = "begin" THEN 3 ELSE 6)
  /\ UNCHANGED <<midx, mleft, plans, sigs, queues, server, worker>>

(* the deadlines of the three waits *)
Timeout ==
  /\ mpc \in {"ready", "plans", "done"}
  /\ Fail
  /\ UNCHANGED <<queues, server, worker>>

----------------------------------------------------------------------------
(* The reader thread, the server and its view of both ends.                 *)

Reader == Read /\ UNCHANGED <<main, worker>>
ServerStep == Relay /\ UNCHANGED <<main, worker>>
RemoveRoute == apc = "over" /\ alive /\ ForgetRoute /\ UNCHANGED <<main, worker>>
AgentLeaves == CleanupAgent /\ UNCHANGED <<main, worker>>

(* the worker of a lost agent or controller is cancelled; its writer aborts *)
Cancelled == apc' = "over" /\ cur' = 0 /\ UNCHANGED <<aidx, asigs, aplan, recvd, good, dest>>

AgentDies == LoseAgent /\ Cancelled /\ UNCHANGED main
CtrlGone == mpc = "exit" /\ Disconnect /\ Cancelled /\ UNCHANGED main

----------------------------------------------------------------------------
(* The agent's worker, run_push.                                            *)

WorkerBegin ==
  /\ apc = "idle"
  /\ Take /\ Head(inbox).op = "PushBegin"
  /\ SendDown(Msg("PushReady"))
  /\ apc' = "manifest"
  /\ UNCHANGED <<main, up, events, server, aidx, asigs, aplan, cur, recvd, good, dest>>

(* phase 1: create_dir_all *)
WorkerMkdir ==
  /\ apc = "manifest"
  /\ Take /\ Head(inbox).op = "Mkdir"
  /\ dest' = [dest EXCEPT ![Head(inbox).f] = "new"] /\ aidx' = aidx + 1
  /\ UNCHANGED <<main, up, down, events, server, apc, asigs, aplan, cur, recvd, good>>

(* remove_file, then symlink; the link that was there is lost if that fails *)
WorkerSymlink ==
  /\ apc = "manifest"
  /\ Take /\ Head(inbox).op = "Symlink"
  /\ \/ /\ dest' = [dest EXCEPT ![Head(inbox).f] = "new"] /\ aidx' = aidx + 1
        /\ UNCHANGED <<apc, down>>
     \/ /\ MayFail
        /\ dest' = [dest EXCEPT ![Head(inbox).f] = "none"] /\ UNCHANGED aidx
        /\ SendDown(Msg("Error")) /\ apc' = "over"
  /\ UNCHANGED <<main, up, events, server, asigs, aplan, cur, recvd, good>>

(* the targets are listed in order; aidx counts the entries so far *)
WorkerManifest ==
  /\ apc = "manifest"
  /\ Take
  /\ \/ Head(inbox).op = "FileBegin" /\ Head(inbox).f = aidx
        /\ aidx' = aidx + 1 /\ UNCHANGED apc
     \/ Head(inbox).op = "ManifestEnd" /\ aidx = LastFile + 1
        /\ aidx' = FirstFile /\ apc' = "planning"
  /\ UNCHANGED <<main, up, down, events, server, asigs, aplan, cur, recvd, good, dest>>

(* phase 2 *)
WorkerPlan ==
  /\ apc = "planning" /\ aidx <= LastFile
  /\ \E p \in PlansFor(dest[aidx]) :
       /\ SendDown([op |-> "FilePlan", f |-> aidx, plan |-> p])
       /\ aplan' = [aplan EXCEPT ![aidx] = p]
       /\ IF p = "delta" THEN apc' = "sigs" /\ asigs' = 0 /\ UNCHANGED aidx
                         ELSE aidx' = aidx + 1 /\ UNCHANGED <<apc, asigs>>
  /\ UNCHANGED <<main, up, inbox, events, server, cur, recvd, good, dest>>

WorkerSigs ==
  /\ apc = "sigs"
  /\ SendDown([op |-> "FileSigs", f |-> aidx, first |-> asigs])
  /\ IF asigs + 1 = SigFrames THEN apc' = "planning" /\ aidx' = aidx + 1 /\ asigs' = 0
                              ELSE asigs' = asigs + 1 /\ UNCHANGED <<apc, aidx>>
  /\ UNCHANGED <<main, up, inbox, events, server, aplan, cur, recvd, good, dest>>

WorkerPlanEnd ==
  /\ apc = "planning" /\ aidx = LastFile + 1
  /\ SendDown(Msg("PlanEnd"))
  /\ apc' = "data"
  /\ UNCHANGED <<main, up, inbox, events, server, aidx, asigs, aplan, cur, recvd, good, dest>>

(* phase 3: FileWriter create *)
WorkerStart ==
  /\ apc = "data"
  /\ Take /\ Head(inbox).op = "FileStart" /\ cur = 0
  /\ cur' = Head(inbox).f /\ recvd' = 0 /\ good' = TRUE
  /\ UNCHANGED <<main, up, down, events, server, apc, aidx, asigs, aplan, dest>>

(* mutant: no overrun check *)
WorkerWriteOverrun ==
  /\ apc = "data"
  /\ Take /\ Head(inbox).op \in {"Data", "Copy"}
  /\ cur # 0
  /\ recvd' = recvd + 1
  /\ IF Head(inbox).op = "Data" THEN good' = (good /\ Head(inbox).bytes = "good")
     ELSE aplan[cur] = "delta" /\ good' \in {good, good /\ ~MayFail}
  /\ UNCHANGED <<main, up, down, events, server, apc, aidx, asigs, aplan, cur, dest>>

(* write_literal, copy_from_base: the base of a copy may have been changed *)
WorkerWrite ==
  /\ apc = "data"
  /\ Take /\ Head(inbox).op \in {"Data", "Copy"}
  /\ cur # 0 /\ recvd < Size
  /\ recvd' = recvd + 1
  /\ IF Head(inbox).op = "Data" THEN good' = (good /\ Head(inbox).bytes = "good")
     ELSE aplan[cur] = "delta" /\ good' \in {good, good /\ ~MayFail}
  /\ UNCHANGED <<main, up, down, events, server, apc, aidx, asigs, aplan, cur, dest>>

(* mutant: the size is checked and the hash is not *)
VerifiedSize == recvd = Size

(* what finish requires before it renames: the size and the content hash *)
Verified == recvd = Size /\ good

WorkerFinish ==
  /\ apc = "data"
  /\ Take /\ Head(inbox).op = "FileEnd"
  /\ cur # 0 /\ Verified
  /\ dest' = [dest EXCEPT ![cur] = IF good THEN "new" ELSE "bad"]
  /\ cur' = 0
  /\ UNCHANGED <<main, up, down, events, server, apc, aidx, asigs, aplan, recvd, good>>

WorkerEnd ==
  /\ apc = "data"
  /\ Take /\ Head(inbox).op = "PushEnd" /\ cur = 0
  /\ SendDown(Msg("TransferDone"))
  /\ apc' = "over"
  /\ UNCHANGED <<main, up, events, server, aidx, asigs, aplan, cur, recvd, good, dest>>

(* the frame at the head of the inbox is one run_push answers with an Error *)
Refused(m) ==
  \/ apc = "manifest" /\ m.op = "FileBegin" /\ m.f # aidx
  \/ apc = "manifest" /\ m.op = "ManifestEnd" /\ aidx # LastFile + 1
  \/ apc = "data" /\ m.op = "FileStart" /\ cur # 0
  \/ apc = "data" /\ m.op \in {"Data", "Copy"} /\ (cur = 0 \/ recvd = Size)
  \/ apc = "data" /\ m.op = "Copy" /\ cur # 0 /\ aplan[cur] # "delta"
  \/ apc = "data" /\ m.op = "FileEnd" /\ ~(cur # 0 /\ Verified)
  \/ apc = "data" /\ m.op = "PushEnd" /\ cur # 0

WorkerRefuse ==
  /\ Take /\ Refused(Head(inbox))
  /\ SendDown(Msg("Error"))
  /\ apc' = "over" /\ cur' = 0
  /\ UNCHANGED <<main, up, events, server, aidx, asigs, aplan, recvd, good, dest>>

(* the destination cannot be resolved, planned or written: a writer at work  *)
(* is aborted, and the Error is final                                        *)
WorkerFails ==
  /\ MayFail
  /\ \/ apc = "planning" /\ aidx <= LastFile /\ UNCHANGED inbox
     \/ apc \in {"idle", "manifest", "data"} /\ Take
  /\ SendDown(Msg("Error"))
  /\ apc' = "over" /\ cur' = 0
  /\ UNCHANGED <<main, up, events, server, aidx, asigs, aplan, recvd, good, dest>>

(* spawn_worker drops the continuations that arrive after the worker ended *)
DropLate ==
  /\ apc = "over"
  /\ Take
  /\ UNCHANGED <<main, up, down, events, server, worker>>

----------------------------------------------------------------------------
MainStep ==
  \/ SendBegin \/ WaitReady \/ SendManifest \/ DrainFeedback \/ ManifestFeedbackDone
  \/ ReadPlan \/ NextOrSkip \/ StartFile \/ StreamUnit \/ EndFile \/ SendPushEnd \/ WaitDone

WorkerStep ==
  \/ WorkerBegin \/ WorkerMkdir \/ WorkerSymlink \/ WorkerManifest \/ WorkerPlan \/ WorkerSigs \/ WorkerPlanEnd
  \/ WorkerStart \/ WorkerWrite \/ WorkerFinish \/ WorkerEnd \/ WorkerRefuse \/ DropLate

Finished == route = "closed" /\ UNCHANGED vars

Next ==
  \/ MainStep \/ SourceFails \/ LinkLost \/ Timeout \/ Reader
  \/ ServerStep \/ RemoveRoute \/ AgentDies \/ AgentLeaves \/ CtrlGone
  \/ WorkerStep \/ WorkerFails \/ Finished

Spec == Init /\ [][Next]_vars

(* Every thread keeps running, and a wait ends at its deadline. *)
Fairness ==
  /\ WF_vars(MainStep) /\ WF_vars(Timeout) /\ WF_vars(Reader)
  /\ WF_vars(ServerStep) /\ WF_vars(RemoveRoute) /\ WF_vars(AgentLeaves) /\ WF_vars(CtrlGone)
  /\ WF_vars(WorkerStep)

FairSpec == Spec /\ Fairness

----------------------------------------------------------------------------
(* Every variable ranges over the states the code can be in. *)
TypeOK ==
  /\ mpc \in {"begin", "ready", "manifest", "mfeedback", "plans", "dfeedback",
              "filestart", "stream", "pushend", "done", "exit"}
  /\ midx \in 1..LastFile + 2
  /\ mleft \in Seq(UpFrames)
  /\ plans \in [Files -> Plans]
  /\ sigs \in [Files -> 0..SigFrames]
  /\ rc \in {0, 3, 6}
  /\ up \in Seq(UpFrames) /\ Len(up) <= UpCap
  /\ inbox \in Seq(UpFrames) /\ Len(inbox) <= InCap
  /\ down \in Seq(DownFrames) /\ Len(down) <= DownCap
  /\ events \in Seq(DownFrames) /\ Len(events) <= EvCap
  /\ hand \in {"none", "found", "insert", "send", "error"}
  /\ route \in {"none", "open", "gone", "stray", "closed"}
  /\ alive \in BOOLEAN /\ cleanup \in {"none", "name", "routes"} /\ notify \in BOOLEAN
  /\ apc \in {"idle", "manifest", "planning", "sigs", "data", "over"}
  /\ aidx \in 1..LastFile + 1 /\ asigs \in 0..SigFrames - 1
  /\ aplan \in [Files -> Plans]
  /\ cur \in Files \cup {0} /\ recvd \in 0..Size /\ good \in BOOLEAN
  /\ dest \in [Entries -> {"none", "old", "new", "bad"}]

MainBlocked == mpc \in {"manifest", "filestart", "stream", "pushend"} /\ Len(up) = UpCap
ReaderBlocked == Len(down) = DownCap /\ Len(events) = EvCap
Gridlocked == MainBlocked /\ ReaderBlocked /\ hand = "error"

(* While the route is open no cycle of full queues forms: main thread on     *)
(* server, server on worker, worker on the controller's reader, reader on    *)
(* the main thread.                                                          *)
PhasesDoNotBlock ==
  ~(MainBlocked /\ ReaderBlocked /\ route = "open" /\ Len(inbox) = InCap
      /\ apc \in {"planning", "sigs"})

(* The same for the frames that the server answers itself, once the route is *)
(* gone.  docs/协议.md line 80: the phases are one-directional, so data and   *)
(* replies never block each other.                                           *)
NoGridlock == ~Gridlocked

(* A push always ends, with the one exception NoGridlock is about. *)
Terminates == <>(mpc = "exit" \/ Gridlocked)

============================================================================
