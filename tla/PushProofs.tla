----------------------------- MODULE PushProofs -----------------------------
(***************************************************************************)
(* Push proved for manifests, files, queues and signatures of any size,    *)
(* whatever disks, sources, connections and the agent do: its types, that  *)
(* its phases do not block each other, and that it implements Publish.     *)
(***************************************************************************)
EXTENDS Push, TransferProofs

(* the parts of TypeOK *)
TypeMain ==
  /\ mpc \in {"begin", "ready", "manifest", "mfeedback", "plans", "dfeedback",
              "filestart", "stream", "pushend", "done", "exit"}
  /\ midx \in 1..LastFile + 2 /\ mleft \in Seq(UpFrames)
  /\ plans \in [Files -> Plans] /\ sigs \in [Files -> 0..SigFrames] /\ rc \in {0, 3, 6}
TypeWorker ==
  /\ apc \in {"idle", "manifest", "planning", "sigs", "data", "over"}
  /\ aidx \in 1..LastFile + 1 /\ asigs \in 0..SigFrames - 1 /\ aplan \in [Files -> Plans]
  /\ cur \in Files \cup {0} /\ recvd \in 0..Size /\ good \in BOOLEAN
  /\ dest \in [Entries -> {"none", "old", "new", "bad"}]

(* the phases of the two ends *)
Lists == {"begin", "ready", "manifest", "mfeedback"}
Streaming == {"dfeedback", "filestart", "stream", "pushend"}
Planning == {"planning", "sigs"}

(* Frames say what their sender can say, as long as a worker reads them. *)
FrameOK(m) ==
  /\ m.op = "Mkdir" => m.f \in Dirs
  /\ m.op = "Symlink" => m.f \in Links
  /\ m.op \in Marks => m.f \in Files
FramesOK ==
  /\ apc # "over" => \A i \in 1..Len(ToWorker) : FrameOK(ToWorker[i])
  /\ \A i \in 1..Len(mleft) : mleft[i].op \in {"Data", "Copy"}

(* A worker that is not over has its agent and its route. *)
RouteInv == ServerInv /\ (apc # "over" => Served)

(* where each end is in its list *)
PlaceInv ==
  /\ mpc \in {"begin", "ready"} => midx = 1
  /\ mpc = "manifest" => midx <= LastFile + 1
  /\ mpc = "plans" => midx = FirstFile
  /\ mpc \in {"dfeedback", "filestart", "stream"} => midx \in Files
  /\ mpc = "pushend" => midx = LastFile + 1
  /\ apc = "sigs" => aidx \in Files
  /\ apc = "planning" => aidx >= FirstFile

(* Entries arrive in the order of the manifest. *)
Listed == {"Mkdir", "Symlink", "FileBegin"}

ListInv ==
  apc \in {"idle", "manifest"} =>
    /\ Listing(Listed, ToWorker, aidx - 1)
    /\ mpc \in Lists /\ midx <= LastFile + 1 =>
         NextAt(Listed, ToWorker, aidx - 1, Len(ToWorker) + 1, midx)

(* An entry is made when it is listed, a file when its last frame arrives. *)
Makers == [e \in Entries |-> FileMsg(IF e \in Files THEN "FileEnd" ELSE ManifestOp(e), e)]

DestInv ==
  /\ \A e \in Entries : dest[e] # "bad"
  /\ apc \in Planning \cup {"data"} => \A e \in Entries \ Files : dest[e] = "new"

DoneInv ==
  apc # "over" =>
    /\ DoneBy(Makers, ToWorker, dest, "ManifestEnd", Entries \ Files)
    /\ DoneBy(Makers, ToWorker, dest, "PushEnd", Files)
    /\ mpc \in Lists => \A e \in Entries \ Files :
         e < midx => DoneAt(Makers, ToWorker, dest, Len(ToWorker) + 1, e)
    /\ mpc \in Streaming => \A f \in Files :
         f < midx => DoneAt(Makers, ToWorker, dest, Len(ToWorker) + 1, f)

(* A file's FileEnd finds its receiver writing that file. *)
FrameInv ==
  apc # "over" =>
    /\ Framing(ToWorker, cur)
    /\ mpc = "stream" => Within(ToWorker, Len(ToWorker) + 1, cur, midx)

(* A file is skipped when it is in place. *)
SkipInv ==
  /\ \A i \in 1..Len(ToCtrl) :
       ToCtrl[i].op = "FilePlan" /\ ToCtrl[i].plan = "skip" => dest[ToCtrl[i].f] = "new"
  /\ \A f \in Files : plans[f] = "skip" => dest[f] = "new"

(* Each end enters a phase after the frame that ends the one before it. *)
Holds(q, op) == \E i \in 1..Len(q) : q[i].op = op

PhaseInv ==
  /\ apc # "over" /\ (Holds(ToWorker, "ManifestEnd") \/ apc \in Planning \cup {"data"}) =>
       mpc \notin {"begin", "ready", "manifest"} /\ (mpc = "mfeedback" => midx = LastFile + 2)
  /\ Holds(ToCtrl, "PlanEnd") \/ mpc \in Streaming \cup {"done"} => apc \in {"data", "over"}

(* The worker has nothing left to do when success is reported. *)
VerdictInv ==
  /\ Holds(ToCtrl, "TransferDone") => apc = "over" /\ \A e \in Entries : dest[e] = "new"
  /\ mpc = "exit" /\ rc = 0 => apc = "over"

PushInv ==
  /\ TypeOK /\ FramesOK /\ RouteInv /\ PlaceInv /\ ListInv
  /\ DestInv /\ DoneInv /\ FrameInv /\ SkipInv /\ PhaseInv /\ VerdictInv

----------------------------------------------------------------------------
LEMMA TypeParts == TypeOK <=> TypeMain /\ UpOK(UpFrames) /\ DownOK(DownFrames) /\ ServerOK /\ TypeWorker
BY DEF TypeOK, TypeMain, UpOK, DownOK, ServerOK, TypeWorker

Types == UpOK(UpFrames) /\ DownOK(DownFrames) /\ ServerOK
Paths == ToWorker \in Seq(UpFrames) /\ ToCtrl \in Seq(DownFrames)

LEMMA PathTypes == TypeOK => Paths
BY TypeParts, ConcatProperties DEF UpOK, DownOK, ToWorker, ToCtrl, Paths

(* what a frame's fields say *)
LEMMA UpFields ==
  ASSUME Paths
  PROVE  \A i \in 1..Len(ToWorker) :
           /\ ToWorker[i] \in UpFrames
           /\ ToWorker[i].op \in Listed \cup Marks => ToWorker[i].f \in Entries
<1>1. \A i \in 1..Len(ToWorker) : ToWorker[i] \in UpFrames
  BY ElementOfSeq DEF Paths
<1>2. \A m \in UpFrames : m.op \in Listed \cup Marks => m.f \in Entries
  BY DEF UpFrames, Listed, Marks
<1> QED
  BY <1>1, <1>2

LEMMA DownFields ==
  ASSUME Paths
  PROVE  \A i \in 1..Len(ToCtrl) :
           /\ ToCtrl[i] \in DownFrames
           /\ ToCtrl[i].op = "FilePlan" => ToCtrl[i].f \in Files
<1>1. \A i \in 1..Len(ToCtrl) : ToCtrl[i] \in DownFrames
  BY ElementOfSeq DEF Paths
<1>2. \A m \in DownFrames : m.op = "FilePlan" => m.f \in Files
  BY DEF DownFrames
<1> QED
  BY <1>1, <1>2

(* the frame that lists an entry *)
LEMMA ManifestOps ==
  \A e \in Entries :
    /\ FileMsg(ManifestOp(e), e) \in UpFrames
    /\ FileMsg(ManifestOp(e), e).op \in Listed /\ FileMsg(ManifestOp(e), e).f = e
    /\ FrameOK(FileMsg(ManifestOp(e), e))
    /\ e \notin Files => Makers[e] = FileMsg(ManifestOp(e), e)
    /\ e \in Dirs => Makers[e] = FileMsg("Mkdir", e)
    /\ e \in Links => Makers[e] = FileMsg("Symlink", e)
    /\ e \in Files => Makers[e] = FileMsg("FileEnd", e) /\ ManifestOp(e) = "FileBegin"
<1>1. /\ Entries \ Files = Dirs \cup Links /\ Dirs \subseteq Entries \ Files
      /\ Links \subseteq Entries \ Files /\ Dirs \cap Links = {}
  BY Numbering
<1> TAKE e \in Entries
<1>2. /\ e \in Dirs => ManifestOp(e) = "Mkdir"
      /\ e \in Links => ManifestOp(e) = "Symlink"
      /\ e \in Files => ManifestOp(e) = "FileBegin"
      /\ e \in Dirs \/ e \in Links \/ e \in Files
      /\ e \in Dirs \/ e \in Links => e \notin Files
  BY <1>1 DEF ManifestOp
<1>3. ManifestOp(e) \in Listed
  BY <1>2 DEF Listed
<1>4. /\ FileMsg(ManifestOp(e), e).op = ManifestOp(e) /\ FileMsg(ManifestOp(e), e).f = e
      /\ FileMsg(ManifestOp(e), e) \in UpFrames
  BY <1>3 DEF FileMsg, UpFrames, Listed
<1>5. FrameOK(FileMsg(ManifestOp(e), e))
  BY <1>2, <1>3, <1>4 DEF FrameOK, Marks, Listed
<1>6. /\ e \notin Files => Makers[e] = FileMsg(ManifestOp(e), e)
      /\ e \in Files => Makers[e] = FileMsg("FileEnd", e)
  BY DEF Makers
<1> QED
  BY <1>2, <1>3, <1>4, <1>5, <1>6

----------------------------------------------------------------------------
(* What the actions do to the two paths.                                     *)
Adds(m) == m \in UpFrames /\ ToWorker' = Append(ToWorker, m)
Gets(m) == /\ m \in UpFrames /\ ToWorker # <<>> /\ m = Head(ToWorker)
           /\ m = ToWorker[1] /\ 1 \in 1..Len(ToWorker) /\ ToWorker' = Tail(ToWorker)
Says(m) == m \in DownFrames /\ ToCtrl' = Append(ToCtrl, m)
Hears(m) == /\ m \in DownFrames /\ ToCtrl # <<>> /\ m = Head(ToCtrl)
            /\ m = ToCtrl[1] /\ 1 \in 1..Len(ToCtrl) /\ ToCtrl' = Tail(ToCtrl)

LEMMA Rests ==
  ASSUME TypeOK, UNCHANGED <<queues, server>>
  PROVE  Types' /\ UNCHANGED <<ToWorker, ToCtrl, server>>
BY TypeParts DEF queues, server, Types, UpOK, DownOK, ServerOK, ToWorker, ToCtrl

LEMMA MainSends ==
  ASSUME TypeOK, NEW m \in UpFrames, MainSend(m), UNCHANGED <<inbox, down, events, server>>
  PROVE  Types' /\ UNCHANGED <<ToCtrl, server>> /\ Adds(m)
<1>1. UpOK(UpFrames)' /\ ToWorker' = Append(ToWorker, m)
  BY TypeParts, SendsUp
<1>2. DownOK(DownFrames)' /\ ServerOK' /\ UNCHANGED <<ToCtrl, server>>
  BY TypeParts DEF server, DownOK, ServerOK, ToCtrl
<1> QED
  BY <1>1, <1>2 DEF Types, Adds

LEMMA MainTakes ==
  ASSUME TypeOK, NextEvent, UNCHANGED <<up, inbox, down, server>>
  PROVE  Types' /\ UNCHANGED <<ToWorker, server>> /\ Hears(Head(events))
<1>1. /\ DownOK(DownFrames)' /\ ToCtrl # <<>> /\ Head(events) = Head(ToCtrl)
      /\ ToCtrl' = Tail(ToCtrl) /\ Head(events) \in DownFrames
  BY TypeParts, TakesEvent
<1>2. UpOK(UpFrames)' /\ ServerOK' /\ UNCHANGED <<ToWorker, server>>
  BY TypeParts DEF server, UpOK, ServerOK, ToWorker
<1>3. Head(ToCtrl) = ToCtrl[1] /\ 1 \in 1..Len(ToCtrl)
  BY <1>1, PathTypes, HeadAndTail DEF Paths
<1> QED
  BY <1>1, <1>2, <1>3 DEF Types, Hears

LEMMA WorkerTakes ==
  ASSUME TypeOK, Take, UNCHANGED <<up, events, server>>
  PROVE  /\ UNCHANGED <<server>> /\ Gets(Head(inbox))
         /\ UNCHANGED down => Types' /\ UNCHANGED ToCtrl
         /\ \A m \in DownFrames : SendDown(m) => Types' /\ Says(m)
<1>1. /\ UpOK(UpFrames)' /\ ToWorker # <<>> /\ Head(inbox) = Head(ToWorker)
      /\ ToWorker' = Tail(ToWorker) /\ Head(inbox) \in UpFrames
  BY TypeParts, TakesFrame
<1>2. ServerOK' /\ UNCHANGED <<server>>
  BY TypeParts DEF server, ServerOK
<1>3. Head(ToWorker) = ToWorker[1] /\ 1 \in 1..Len(ToWorker)
  BY <1>1, PathTypes, HeadAndTail DEF Paths
<1>4. UNCHANGED down => DownOK(DownFrames)' /\ UNCHANGED ToCtrl
  BY TypeParts DEF DownOK, ToCtrl
<1>5. ASSUME NEW m \in DownFrames, SendDown(m) PROVE DownOK(DownFrames)' /\ Says(m)
  BY <1>5, TypeParts, SendsDown DEF Says
<1> QED
  BY <1>1, <1>2, <1>3, <1>4, <1>5 DEF Types, Gets

LEMMA WorkerSends ==
  ASSUME TypeOK, NEW m \in DownFrames, SendDown(m), UNCHANGED <<up, inbox, events, server>>
  PROVE  Types' /\ UNCHANGED <<ToWorker, server>> /\ Says(m)
<1>1. DownOK(DownFrames)' /\ ToCtrl' = Append(ToCtrl, m)
  BY TypeParts, SendsDown
<1>2. UpOK(UpFrames)' /\ ServerOK' /\ UNCHANGED <<ToWorker, server>>
  BY TypeParts DEF server, UpOK, ServerOK, ToWorker
<1> QED
  BY <1>1, <1>2 DEF Types, Says

(* The reader, the server and the losses, all at once: both ends keep their  *)
(* state unless the worker is cancelled; a worker that goes on keeps its     *)
(* path; the controller loses nothing, and at most an Error is added.        *)
Between ==
  \/ Reader \/ ServerStep \/ RemoveRoute \/ AgentLeaves \/ AgentDies \/ CtrlGone \/ Finished
  \/ UNCHANGED vars

LEMMA BetweenSteps ==
  ASSUME TypeOK, RouteInv, Between
  PROVE  /\ Types' /\ ServerInv' /\ UNCHANGED main
         /\ UNCHANGED worker \/ Cancelled
         /\ apc' # "over" => UNCHANGED ToWorker /\ Served'
         /\ ToCtrl' = ToCtrl \/ ToCtrl' = <<>> \/ Says(Msg("Error"))
<1>0. Msg("Error") \in DownFrames
  BY DEF Msg, DownFrames
<1>a. /\ InCap \in Nat /\ UpCap \in Nat /\ EvCap \in Nat /\ DownCap \in Nat
      /\ \A S : <<>> \in Seq(S) /\ Len(<<>>) = 0
  BY TransferConstants, EmptySeq
<1>1. CASE Reader
  <2>1. UNCHANGED <<up, inbox, server, main, worker>>
    BY <1>1 DEF Reader, Read
  <2>2. DownOK(DownFrames)' /\ ToCtrl' = ToCtrl
    BY <1>1, TypeParts, ReadMoves DEF Reader
  <2>3. UpOK(UpFrames)' /\ ServerOK' /\ UNCHANGED <<ToWorker, server>>
    BY <2>1, TypeParts DEF server, UpOK, ServerOK, ToWorker
  <2>4. UNCHANGED apc /\ ServerInv' /\ (Served => Served')
    BY <2>1 DEF worker, server, RouteInv, ServerInv, Served
  <2> QED
    BY <2>1, <2>2, <2>3, <2>4 DEF Types, RouteInv
<1>2. CASE ServerStep
  <2>1. Relay /\ UNCHANGED <<main, worker>>
    BY <1>2 DEF ServerStep
  <2>2. /\ Types' /\ ServerInv' /\ (Served => Served' /\ UNCHANGED ToWorker)
        /\ UNCHANGED ToCtrl \/ ToCtrl' = Append(ToCtrl, Msg("Error"))
    BY <1>0, <2>1, TypeParts, RelayMoves DEF Types, RouteInv
  <2>3. apc' = apc
    BY <2>1 DEF worker
  <2> QED
    BY <1>0, <2>1, <2>2, <2>3 DEF RouteInv, Says
<1>3. CASE RemoveRoute
  <2>1. apc = "over" /\ ForgetRoute /\ UNCHANGED <<queues, main, worker>>
    BY <1>3 DEF RemoveRoute, ForgetRoute
  <2>2. UpOK(UpFrames)' /\ DownOK(DownFrames)' /\ UNCHANGED <<ToWorker, ToCtrl, apc>>
    BY <2>1, TypeParts DEF queues, worker, UpOK, DownOK, ToWorker, ToCtrl
  <2>3. ServerOK' /\ ServerInv'
    BY <2>1, TypeParts, LosesMoves DEF RouteInv
  <2> QED
    BY <2>1, <2>2, <2>3 DEF Types
<1>4. CASE AgentLeaves
  <2>1. CleanupAgent /\ UNCHANGED <<main, worker>>
    BY <1>4 DEF AgentLeaves
  <2>2. /\ DownOK(DownFrames)' /\ ServerOK' /\ ServerInv' /\ ~alive /\ UNCHANGED <<up, inbox>>
        /\ UNCHANGED ToCtrl \/ ToCtrl' = Append(ToCtrl, Msg("Error"))
    BY <1>0, <2>1, TypeParts, CleanupMoves DEF RouteInv
  <2>3. UpOK(UpFrames)' /\ apc = "over" /\ apc' = apc
    BY <2>1, <2>2, TypeParts DEF UpOK, RouteInv, Served, worker
  <2> QED
    BY <1>0, <2>1, <2>2, <2>3 DEF Types, Says
<1>5. CASE AgentDies
  <2>1. /\ LoseAgent /\ inbox' = <<>> /\ Cancelled
        /\ UNCHANGED <<up, down, events, main>>
    BY <1>5 DEF AgentDies, LoseAgent
  <2>2. UpOK(UpFrames)' /\ DownOK(DownFrames)' /\ ToCtrl' = ToCtrl
    BY <1>a, <2>1, TypeParts DEF UpOK, DownOK, ToCtrl
  <2>3. ServerOK' /\ ServerInv'
    BY <2>1, TypeParts, LosesMoves DEF RouteInv
  <2> QED
    BY <2>1, <2>2, <2>3 DEF Cancelled, Types
<1>6. CASE CtrlGone
  <2>1. /\ up' = <<>> /\ inbox' = <<>> /\ down' = <<>> /\ events' = <<>>
        /\ Disconnect /\ Cancelled /\ UNCHANGED main
    BY <1>6 DEF CtrlGone, Disconnect
  <2>2. UpOK(UpFrames)' /\ DownOK(DownFrames)'
    BY <1>a, <2>1 DEF UpOK, DownOK
  <2>3. ServerOK' /\ ServerInv'
    BY <2>1, TypeParts, LosesMoves DEF RouteInv
  <2>4. ToCtrl' = <<>>
    BY <2>1, ConcatEmptySeq, EmptySeq DEF ToCtrl
  <2> QED
    BY <2>1, <2>2, <2>3, <2>4 DEF Cancelled, Types
<1>7. CASE UNCHANGED vars
  <2>1. UNCHANGED <<queues, server, main, worker>>
    BY <1>7 DEF vars
  <2>2. UNCHANGED apc /\ ServerInv' /\ (Served => Served')
    BY <2>1 DEF worker, server, RouteInv, ServerInv, Served
  <2> QED
    BY <2>1, <2>2, Rests DEF RouteInv
<1> QED
  BY <1>1, <1>2, <1>3, <1>4, <1>5, <1>6, <1>7 DEF Between, Finished

(* every step is one of these *)
MainActs == MainStep \/ SourceFails \/ LinkLost \/ Timeout
LEMMA Steps ==
  [Next]_vars <=> MainActs \/ WorkerStep \/ WorkerFails \/ Between
BY DEF Next, Between, MainActs

----------------------------------------------------------------------------
(* What the main thread's steps come to, seen from the two paths.            *)
SaysBegin == mpc = "begin" /\ mpc' = "ready" /\ midx' = midx /\ Adds(Msg("PushBegin"))
SaysEntry == /\ mpc = "manifest" /\ mpc' = "mfeedback" /\ midx' = midx + 1
             /\ midx \in Entries /\ Adds(FileMsg(ManifestOp(midx), midx))
SaysManifestEnd == /\ mpc = "manifest" /\ mpc' = "mfeedback" /\ midx' = midx + 1
                   /\ midx = LastFile + 1 /\ Adds(Msg("ManifestEnd"))
SaysStart == /\ mpc = "filestart" /\ mpc' = "stream" /\ midx' = midx
             /\ midx \in Files /\ Adds(FileMsg("FileStart", midx))
SaysUnit == /\ mpc = "stream" /\ mpc' = "stream" /\ midx' = midx
            /\ \E m : Adds(m) /\ m.op \in {"Data", "Copy"}
SaysFileEnd == /\ mpc = "stream" /\ mpc' = NextFile(midx + 1) /\ midx' = midx + 1
               /\ midx \in Files /\ Adds(FileMsg("FileEnd", midx))
SaysPushEnd == /\ mpc = "pushend" /\ mpc' = "done" /\ midx' = midx
               /\ midx = LastFile + 1 /\ Adds(Msg("PushEnd"))
MainSays ==
  /\ UNCHANGED <<ToCtrl, plans, rc>>
  /\ SaysBegin \/ SaysEntry \/ SaysManifestEnd \/ SaysStart \/ SaysUnit \/ SaysFileEnd \/ SaysPushEnd

HearsPlan == \E m : /\ Hears(m) /\ m.op = "FilePlan" /\ UNCHANGED <<mpc, midx, rc>>
                    /\ plans' = [plans EXCEPT ![m.f] = m.plan]
HearsPlanEnd == /\ mpc = "plans" /\ mpc' = NextFile(midx) /\ UNCHANGED <<midx, plans, rc>>
                /\ \E m : Hears(m) /\ m.op = "PlanEnd"
HearsDone == /\ mpc = "done" /\ mpc' = "exit" /\ rc' = 0 /\ UNCHANGED <<midx, plans>>
             /\ \E m : Hears(m) /\ m.op = "TransferDone"
HearsOther == /\ \E m : Hears(m)
              /\ UNCHANGED <<midx, plans>>
              /\ \/ mpc' = mpc /\ UNCHANGED rc
                 \/ mpc = "ready" /\ mpc' = "manifest" /\ UNCHANGED rc
                 \/ mpc' = "exit" /\ rc' = 6
MainHears == UNCHANGED ToWorker /\ (HearsPlan \/ HearsPlanEnd \/ HearsDone \/ HearsOther)

Exits == mpc' = "exit" /\ rc' \in {3, 6} /\ UNCHANGED midx
ListsOn == mpc = "mfeedback" /\ mpc' = "manifest" /\ midx' = midx /\ midx <= LastFile + 1 /\ UNCHANGED rc
Waits == mpc = "mfeedback" /\ mpc' = "plans" /\ midx' = FirstFile /\ ~(midx <= LastFile + 1) /\ UNCHANGED rc
Skips == /\ mpc = "dfeedback" /\ mpc' = NextFile(midx + 1) /\ midx' = midx + 1 /\ midx \in Files
         /\ plans[midx] = "skip" /\ UNCHANGED rc
Opens == mpc = "dfeedback" /\ mpc' = "filestart" /\ midx' = midx /\ UNCHANGED rc
MainTurns == UNCHANGED <<ToWorker, ToCtrl, plans>> /\ (Exits \/ ListsOn \/ Waits \/ Skips \/ Opens)

MainMoves ==
  /\ mpc # "exit" /\ UNCHANGED <<worker, server>>
  /\ MainSays \/ MainHears \/ MainTurns

LEMMA MainSteps ==
  ASSUME TypeOK, FramesOK, PlaceInv, MainActs
  PROVE  Types' /\ MainMoves
<1>0. /\ Files = FirstFile..LastFile /\ FirstFile \in Nat \ {0} /\ LastFile \in Nat
      /\ Files \subseteq Entries /\ Entries = 1..LastFile /\ midx \in 1..LastFile + 2
  BY Numbering, TypeParts DEF TypeMain
<1>m. /\ \A op \in {"PushBegin", "ManifestEnd", "PushEnd"} : Msg(op) \in UpFrames
      /\ \A op \in {"FileStart", "FileEnd"}, f \in Entries : FileMsg(op, f) \in UpFrames
  BY DEF Msg, FileMsg, UpFrames
<1>s. ASSUME NEW m \in UpFrames, MainSend(m), UNCHANGED <<plans, rc, inbox, down, events, server, worker>>,
             mpc # "exit",
             Adds(m) => SaysBegin \/ SaysEntry \/ SaysManifestEnd \/ SaysStart \/ SaysUnit \/ SaysFileEnd \/ SaysPushEnd
      PROVE  Types' /\ MainMoves
  <2>1. Types' /\ UNCHANGED <<ToCtrl, server>> /\ Adds(m)
    BY <1>s, MainSends
  <2> QED
    BY <1>s, <2>1 DEF MainMoves, MainSays
<1>h. ASSUME NextEvent, UNCHANGED <<up, inbox, down, server, worker>>, mpc # "exit",
             Hears(Head(events)) => HearsPlan \/ HearsPlanEnd \/ HearsDone \/ HearsOther
      PROVE  Types' /\ MainMoves
  <2>1. Types' /\ UNCHANGED <<ToWorker, server>> /\ Hears(Head(events))
    BY <1>h, MainTakes
  <2> QED
    BY <1>h, <2>1 DEF MainMoves, MainHears
<1>t. ASSUME UNCHANGED <<plans, queues, server, worker>>, mpc # "exit",
             Exits \/ ListsOn \/ Waits \/ Skips \/ Opens
      PROVE  Types' /\ MainMoves
  <2>1. Types' /\ UNCHANGED <<ToWorker, ToCtrl, server>>
    BY <1>t, Rests
  <2> QED
    BY <1>t, <2>1 DEF MainMoves, MainTurns
<1>1. CASE SendBegin
  <2>1. /\ mpc = "begin" /\ MainSend(Msg("PushBegin")) /\ mpc' = "ready" /\ midx' = midx
        /\ UNCHANGED <<plans, rc, inbox, down, events, server, worker>>
    BY <1>1 DEF SendBegin
  <2> QED
    BY <1>m, <1>s, <2>1 DEF SaysBegin
<1>2. CASE SendManifest
  <2>1. /\ mpc = "manifest" /\ mpc' = "mfeedback" /\ midx' = midx + 1
        /\ MainSend(IF midx <= LastFile THEN FileMsg(ManifestOp(midx), midx) ELSE Msg("ManifestEnd"))
        /\ UNCHANGED <<plans, rc, inbox, down, events, server, worker>>
    BY <1>2 DEF SendManifest
  <2>2. CASE midx <= LastFile
    <3>1. midx \in Entries /\ MainSend(FileMsg(ManifestOp(midx), midx))
      BY <1>0, <2>1, <2>2
    <3>2. FileMsg(ManifestOp(midx), midx) \in UpFrames
      BY <3>1, ManifestOps
    <3> QED
      BY <1>s, <2>1, <3>1, <3>2 DEF SaysEntry
  <2>3. CASE ~(midx <= LastFile)
    <3>1. midx = LastFile + 1
      BY <1>0, <2>1, <2>3 DEF PlaceInv
    <3>2. MainSend(Msg("ManifestEnd"))
      BY <2>1, <2>3
    <3> QED
      BY <1>m, <1>s, <2>1, <3>1, <3>2 DEF SaysManifestEnd
  <2> QED
    BY <2>2, <2>3
<1>3. CASE StartFile
  <2>1. /\ mpc = "filestart" /\ MainSend(FileMsg("FileStart", midx)) /\ mpc' = "stream" /\ midx' = midx
        /\ UNCHANGED <<plans, rc, inbox, down, events, server, worker>>
    BY <1>3 DEF StartFile
  <2>2. midx \in Files /\ midx \in Entries
    BY <1>0, <2>1 DEF PlaceInv
  <2> QED
    BY <1>m, <1>s, <2>1, <2>2 DEF SaysStart
<1>4. CASE StreamUnit
  <2>1. /\ mpc = "stream" /\ MainSend(Head(mleft)) /\ mpc' = mpc /\ midx' = midx /\ mleft # <<>>
        /\ UNCHANGED <<plans, rc, inbox, down, events, server, worker>>
    BY <1>4 DEF StreamUnit
  <2>2. Head(mleft) \in UpFrames /\ Head(mleft).op \in {"Data", "Copy"}
    BY <2>1, TypeParts, HeadAndTail DEF TypeMain, FramesOK
  <2> QED
    BY <1>s, <2>1, <2>2 DEF SaysUnit
<1>5. CASE EndFile
  <2>1. /\ mpc = "stream" /\ MainSend(FileMsg("FileEnd", midx)) /\ midx' = midx + 1
        /\ mpc' = NextFile(midx + 1)
        /\ UNCHANGED <<plans, rc, inbox, down, events, server, worker>>
    BY <1>5 DEF EndFile
  <2>2. midx \in Files /\ midx \in Entries
    BY <1>0, <2>1 DEF PlaceInv
  <2> QED
    BY <1>m, <1>s, <2>1, <2>2 DEF SaysFileEnd
<1>6. CASE SendPushEnd
  <2>1. /\ mpc = "pushend" /\ MainSend(Msg("PushEnd")) /\ mpc' = "done" /\ midx' = midx
        /\ UNCHANGED <<plans, rc, inbox, down, events, server, worker>>
    BY <1>6 DEF SendPushEnd
  <2>2. midx = LastFile + 1
    BY <2>1 DEF PlaceInv
  <2> QED
    BY <1>m, <1>s, <2>1, <2>2 DEF SaysPushEnd
<1>7. CASE WaitReady
  <2>1. /\ mpc = "ready" /\ NextEvent /\ UNCHANGED <<midx, plans, up, inbox, down, server, worker>>
        /\ \/ mpc' = mpc /\ UNCHANGED rc
           \/ mpc' = "manifest" /\ UNCHANGED rc
           \/ mpc' = "exit" /\ rc' = 6
    BY <1>7 DEF WaitReady, Fail, Exit, main
  <2> QED
    BY <1>h, <2>1 DEF HearsOther
<1>8. CASE DrainFeedback
  <2>1. /\ mpc # "exit" /\ NextEvent /\ UNCHANGED <<midx, plans, up, inbox, down, server, worker>>
        /\ \/ mpc' = mpc /\ UNCHANGED rc
           \/ mpc' = "exit" /\ rc' = 6
    BY <1>8 DEF DrainFeedback, Fail, Exit, main
  <2> QED
    BY <1>h, <2>1 DEF HearsOther
<1>9. CASE ReadPlan
  <2>1. /\ mpc = "plans" /\ NextEvent /\ UNCHANGED <<midx, up, inbox, down, server, worker>>
        /\ \/ /\ Head(events).op = "FilePlan" /\ UNCHANGED <<mpc, rc>>
              /\ plans' = [plans EXCEPT ![Head(events).f] = Head(events).plan]
           \/ Head(events).op = "PlanEnd" /\ mpc' = NextFile(midx) /\ UNCHANGED <<plans, rc>>
           \/ mpc' = mpc /\ UNCHANGED <<plans, rc>>
           \/ mpc' = "exit" /\ rc' = 6 /\ UNCHANGED plans
    BY <1>9 DEF ReadPlan, Fail, Exit, main
  <2> QED
    BY <1>h, <2>1 DEF HearsPlan, HearsPlanEnd, HearsOther
<1>10. CASE WaitDone
  <2>1. /\ mpc = "done" /\ NextEvent /\ UNCHANGED <<midx, plans, up, inbox, down, server, worker>>
        /\ \/ mpc' = mpc /\ UNCHANGED rc
           \/ Head(events).op = "TransferDone" /\ mpc' = "exit" /\ rc' = 0
           \/ mpc' = "exit" /\ rc' = 6
    BY <1>10 DEF WaitDone, Fail, Exit, main
  <2> QED
    BY <1>h, <2>1 DEF HearsDone, HearsOther
<1>11. CASE SourceFails \/ LinkLost \/ Timeout
  <2>1. mpc # "exit" /\ Exits /\ UNCHANGED <<plans, queues, server, worker>>
    BY <1>11 DEF SourceFails, LinkLost, Timeout, Fail, Exit, Exits
  <2> QED
    BY <1>t, <2>1
<1>12. CASE ManifestFeedbackDone
  <2>1. mpc # "exit" /\ (ListsOn \/ Waits) /\ UNCHANGED <<plans, queues, server, worker>>
    BY <1>12 DEF ManifestFeedbackDone, ListsOn, Waits
  <2> QED
    BY <1>t, <2>1
<1>13. CASE NextOrSkip
  <2>1. mpc = "dfeedback" /\ midx \in Files
    BY <1>13 DEF NextOrSkip, PlaceInv
  <2>2. (Skips \/ Opens) /\ UNCHANGED <<plans, queues, server, worker>>
    BY <1>13, <2>1 DEF NextOrSkip, Skips, Opens
  <2> QED
    BY <1>t, <2>1, <2>2
<1> QED
  BY <1>1, <1>2, <1>3, <1>4, <1>5, <1>6, <1>7, <1>8, <1>9, <1>10, <1>11, <1>12, <1>13
  DEF MainActs, MainStep

----------------------------------------------------------------------------
(* The entry received is the next one.                                       *)
LEMMA NextEntry ==
  ASSUME TypeOK, ListInv, apc = "manifest", NEW m, Gets(m), m.op \in Listed
  PROVE  m.f = aidx /\ m.f \in Entries /\ aidx + 1 \in 1..LastFile + 1
         /\ Listing(Listed, ToWorker', (aidx + 1) - 1)
         /\ \A e \in Nat : NextAt(Listed, ToWorker, aidx - 1, Len(ToWorker) + 1, e) =>
              NextAt(Listed, ToWorker', (aidx + 1) - 1, Len(ToWorker') + 1, e)
<1>1. /\ ToWorker # <<>> /\ m = Head(ToWorker) /\ ToWorker' = Tail(ToWorker)
      /\ m = ToWorker[1] /\ 1 \in 1..Len(ToWorker)
  BY DEF Gets
<1>2. Entries = 1..LastFile /\ LastFile \in Nat /\ aidx \in 1..LastFile + 1
  BY Numbering, TypeParts DEF TypeWorker
<1>3. /\ ToWorker \in Seq(UpFrames) /\ Listing(Listed, ToWorker, aidx - 1)
      /\ \A i \in 1..Len(ToWorker) : ToWorker[i].op \in Listed => ToWorker[i].f \in Entries
  BY PathTypes, UpFields DEF Paths, ListInv
<1>4. \A i \in 1..Len(ToWorker) : ToWorker[i].op \in Listed => ToWorker[i].f \in Nat
  BY <1>2, <1>3
<1>5. aidx - 1 \in Nat /\ (aidx - 1) + 1 = aidx /\ (aidx + 1) - 1 = aidx
  BY <1>2
<1>6. /\ Head(ToWorker).f = (aidx - 1) + 1
      /\ Listing(Listed, Tail(ToWorker), (aidx - 1) + 1)
      /\ \A e \in Nat : NextAt(Listed, ToWorker, aidx - 1, Len(ToWorker) + 1, e) =>
           NextAt(Listed, Tail(ToWorker), (aidx - 1) + 1, Len(Tail(ToWorker)) + 1, e)
  BY <1>1, <1>3, <1>4, <1>5, ListingTakesEntry
<1>7. m.f \in Entries /\ m.f = aidx
  BY <1>1, <1>3, <1>5, <1>6
<1> QED
  BY <1>1, <1>2, <1>5, <1>6, <1>7

(* The FileEnd received is of the file being written.                        *)
LEMMA RightFile ==
  ASSUME FrameInv, apc # "over", NEW m, Gets(m), m.op = "FileEnd"
  PROVE  m.f = cur
<1>1. m = ToWorker[1] /\ 1 \in 1..Len(ToWorker)
  BY DEF Gets
<1>2. Within(ToWorker, 1, cur, m.f)
  BY <1>1 DEF FrameInv, Framing
<1> QED
  BY <1>2, WithinNow

----------------------------------------------------------------------------
(* ... and what the worker's steps come to.                                  *)
GetsBegin == /\ apc = "idle" /\ apc' = "manifest" /\ UNCHANGED <<aidx, cur, dest>>
             /\ Gets(Msg("PushBegin")) /\ Says(Msg("PushReady"))
GetsMade == /\ apc = "manifest" /\ apc' = "manifest" /\ aidx' = aidx + 1 /\ UNCHANGED <<cur, ToCtrl>>
            /\ \E e \in Entries \ Files :
                 /\ Gets(Makers[e]) /\ Makers[e].op \in Listed
                 /\ dest' = [dest EXCEPT ![e] = "new"]
GetsListed == /\ apc = "manifest" /\ apc' = "manifest" /\ aidx' = aidx + 1 /\ UNCHANGED <<cur, dest, ToCtrl>>
              /\ \E m : Gets(m) /\ m.op = "FileBegin"
GetsManifestEnd == /\ apc = "manifest" /\ apc' = "planning" /\ aidx' = FirstFile
                   /\ UNCHANGED <<cur, dest, ToCtrl>> /\ Gets(Msg("ManifestEnd"))
GetsStart == /\ apc = "data" /\ apc' = "data" /\ UNCHANGED <<aidx, dest, ToCtrl>>
             /\ \E f \in Files : Gets(FileMsg("FileStart", f)) /\ cur' = f
GetsUnit == /\ apc = "data" /\ apc' = "data" /\ UNCHANGED <<aidx, cur, dest, ToCtrl>>
            /\ \E m : Gets(m) /\ m.op \in {"Data", "Copy"}
GetsFileEnd == /\ apc = "data" /\ apc' = "data" /\ UNCHANGED <<aidx, ToCtrl>> /\ cur' = 0
               /\ cur \in Files /\ Gets(FileMsg("FileEnd", cur))
               /\ dest' = [dest EXCEPT ![cur] = "new"]
GetsPushEnd == /\ apc = "data" /\ apc' = "over" /\ UNCHANGED dest
               /\ Gets(Msg("PushEnd")) /\ Says(Msg("TransferDone"))
Loses == /\ apc = "manifest" /\ apc' = "over" /\ Says(Msg("Error"))
         /\ \E l \in Links : dest' = [dest EXCEPT ![l] = "none"]
Stops == apc # "over" /\ apc' = "over" /\ UNCHANGED dest /\ Says(Msg("Error"))
Drops == apc = "over" /\ apc' = "over" /\ UNCHANGED <<dest, ToCtrl>>
SaysPlan == /\ apc = "planning" /\ aidx \in Files /\ UNCHANGED <<cur, dest, ToWorker>>
            /\ \/ apc' = "sigs" /\ aidx' = aidx
               \/ apc' = "planning" /\ aidx' = aidx + 1
            /\ \E p \in Plans : /\ Says([op |-> "FilePlan", f |-> aidx, plan |-> p])
                                /\ p = "skip" => dest[aidx] = "new"
SaysSigs == /\ apc = "sigs" /\ UNCHANGED <<cur, dest, ToWorker>>
            /\ \/ apc' = "sigs" /\ aidx' = aidx
               \/ apc' = "planning" /\ aidx' = aidx + 1
            /\ \E m : Says(m) /\ m.op = "FileSigs"
SaysPlanEnd == /\ apc = "planning" /\ apc' = "data" /\ UNCHANGED <<cur, dest, ToWorker>>
               /\ Says(Msg("PlanEnd"))
WorkerMoves ==
  /\ UNCHANGED <<main, server>>
  /\ \/ GetsBegin \/ GetsMade \/ GetsListed \/ GetsManifestEnd \/ GetsStart \/ GetsUnit \/ GetsFileEnd
     \/ GetsPushEnd \/ Loses \/ Stops \/ Drops \/ SaysPlan \/ SaysSigs \/ SaysPlanEnd

LEMMA WorkerSteps ==
  ASSUME TypeOK, FramesOK, PlaceInv, DestInv, FrameInv, WorkerStep \/ WorkerFails
  PROVE  Types' /\ WorkerMoves
<1>0. /\ Files = FirstFile..LastFile /\ FirstFile \in Nat \ {0} /\ LastFile \in Nat
      /\ Files \subseteq Entries /\ aidx \in 1..LastFile + 1
      /\ Dirs \subseteq Entries \ Files /\ Links \subseteq Entries \ Files
  BY Numbering, TypeParts DEF TypeWorker
<1>m. \A op \in {"PushReady", "PlanEnd", "TransferDone", "Error"} : Msg(op) \in DownFrames /\ Msg(op).op = op
  BY DEF Msg, DownFrames
<1>f. ASSUME NEW m, Gets(m), apc # "over" PROVE FrameOK(m)
  BY <1>f DEF Gets, FramesOK
(* what a frame is, by its op *)
<1>u. /\ \A m \in UpFrames : m.op \in {"PushBegin", "ManifestEnd", "PushEnd"} => m = Msg(m.op)
      /\ \A m \in UpFrames : m.op \in Listed \cup Marks => m = FileMsg(m.op, m.f)
  BY DEF UpFrames, Listed, Marks, Msg, FileMsg
(* a frame is taken and not answered *)
<1>g. ASSUME Take, UNCHANGED <<main, up, down, events, server>>,
             Gets(Head(inbox)) /\ UNCHANGED ToCtrl =>
               \/ GetsMade \/ GetsListed \/ GetsManifestEnd \/ GetsStart \/ GetsUnit \/ GetsFileEnd \/ Drops
      PROVE  Types' /\ WorkerMoves
  <2>1. Types' /\ UNCHANGED <<ToCtrl, server>> /\ Gets(Head(inbox))
    BY <1>g, WorkerTakes
  <2> QED
    BY <1>g, <2>1 DEF WorkerMoves
(* ... or answered *)
<1>a. ASSUME NEW m \in DownFrames, Take, SendDown(m), UNCHANGED <<main, up, events, server>>,
             Gets(Head(inbox)) /\ Says(m) => GetsBegin \/ GetsPushEnd \/ Loses \/ Stops
      PROVE  Types' /\ WorkerMoves
  <2>1. UNCHANGED <<server>> /\ Gets(Head(inbox)) /\ Types' /\ Says(m)
    BY <1>a, WorkerTakes
  <2> QED
    BY <1>a, <2>1 DEF WorkerMoves
(* ... or a frame is sent unasked *)
<1>s. ASSUME NEW m \in DownFrames, SendDown(m), UNCHANGED <<main, up, inbox, events, server>>,
             Says(m) /\ UNCHANGED ToWorker => SaysPlan \/ SaysSigs \/ SaysPlanEnd \/ Stops
      PROVE  Types' /\ WorkerMoves
  <2>1. Types' /\ UNCHANGED <<ToWorker, server>> /\ Says(m)
    BY <1>s, WorkerSends
  <2> QED
    BY <1>s, <2>1 DEF WorkerMoves
<1>1. CASE WorkerBegin
  <2>1. /\ apc = "idle" /\ apc' = "manifest" /\ Take /\ Head(inbox).op = "PushBegin"
        /\ SendDown(Msg("PushReady")) /\ UNCHANGED <<main, up, events, server, aidx, cur, dest>>
    BY <1>1 DEF WorkerBegin
  <2>2. Gets(Head(inbox)) => Head(inbox) = Msg("PushBegin")
    BY <1>u, <2>1 DEF Gets
  <2> QED
    BY <1>a, <1>m, <2>1, <2>2 DEF GetsBegin
<1>2. CASE WorkerMkdir
  <2>1. /\ apc = "manifest" /\ Take /\ Head(inbox).op = "Mkdir" /\ UNCHANGED <<apc, cur>>
        /\ dest' = [dest EXCEPT ![Head(inbox).f] = "new"] /\ aidx' = aidx + 1
        /\ UNCHANGED <<main, up, down, events, server>>
    BY <1>2 DEF WorkerMkdir
  <2>2. ASSUME Gets(Head(inbox)), UNCHANGED ToCtrl PROVE GetsMade
    <3>1. Head(inbox).f \in Dirs /\ Head(inbox) = FileMsg("Mkdir", Head(inbox).f)
      BY <1>f, <1>u, <2>1, <2>2 DEF FrameOK, Gets, Listed
    <3>2. Head(inbox).f \in Entries \ Files /\ Head(inbox) = Makers[Head(inbox).f]
      BY <1>0, <3>1, ManifestOps
    <3>3. Makers[Head(inbox).f].op \in Listed
      BY <2>1, <3>2 DEF Listed
    <3> QED
      BY <2>1, <2>2, <3>2, <3>3 DEF GetsMade
  <2> QED
    BY <1>g, <2>1, <2>2
<1>3. CASE WorkerSymlink
  <2>1. apc = "manifest" /\ Take /\ Head(inbox).op = "Symlink" /\ UNCHANGED <<main, up, events, server, cur>>
    BY <1>3 DEF WorkerSymlink
  <2>2. ASSUME Gets(Head(inbox))
        PROVE  /\ Head(inbox).f \in Links /\ Head(inbox).f \in Entries \ Files
               /\ Head(inbox) = Makers[Head(inbox).f] /\ Makers[Head(inbox).f].op \in Listed
    <3>1. Head(inbox).f \in Links /\ Head(inbox) = FileMsg("Symlink", Head(inbox).f)
      BY <1>f, <1>u, <2>1, <2>2 DEF FrameOK, Gets, Listed
    <3>2. Head(inbox).f \in Entries \ Files /\ Head(inbox) = Makers[Head(inbox).f]
      BY <1>0, <3>1, ManifestOps
    <3> QED
      BY <2>1, <3>1, <3>2 DEF Listed
  <2>3. CASE dest' = [dest EXCEPT ![Head(inbox).f] = "new"] /\ aidx' = aidx + 1 /\ UNCHANGED <<apc, down>>
    <3>1. Gets(Head(inbox)) /\ UNCHANGED ToCtrl => GetsMade
      BY <2>1, <2>2, <2>3 DEF GetsMade
    <3> QED
      BY <1>g, <2>1, <2>3, <3>1
  <2>4. CASE dest' = [dest EXCEPT ![Head(inbox).f] = "none"] /\ SendDown(Msg("Error")) /\ apc' = "over"
    <3>1. Gets(Head(inbox)) /\ Says(Msg("Error")) => Loses
      BY <2>1, <2>2, <2>4 DEF Loses
    <3> QED
      BY <1>a, <1>m, <2>1, <2>4, <3>1
  <2> QED
    BY <1>3, <2>3, <2>4 DEF WorkerSymlink
<1>4. CASE WorkerManifest
  <2>1. /\ apc = "manifest" /\ Take /\ UNCHANGED <<main, up, down, events, server, cur, dest>>
        /\ \/ Head(inbox).op = "FileBegin" /\ aidx' = aidx + 1 /\ apc' = apc
           \/ Head(inbox).op = "ManifestEnd" /\ aidx' = FirstFile /\ apc' = "planning"
    BY <1>4 DEF WorkerManifest
  <2>2. Gets(Head(inbox)) /\ Head(inbox).op = "ManifestEnd" => Head(inbox) = Msg("ManifestEnd")
    BY <1>u DEF Gets
  <2>3. Gets(Head(inbox)) /\ UNCHANGED ToCtrl => GetsListed \/ GetsManifestEnd
    BY <2>1, <2>2 DEF GetsListed, GetsManifestEnd
  <2> QED
    BY <1>g, <2>1, <2>3
<1>5. CASE WorkerStart
  <2>1. /\ apc = "data" /\ apc' = apc /\ Take /\ Head(inbox).op = "FileStart" /\ cur' = Head(inbox).f
        /\ UNCHANGED <<main, up, down, events, server, aidx, dest>>
    BY <1>5 DEF WorkerStart
  <2>2. ASSUME Gets(Head(inbox)), UNCHANGED ToCtrl PROVE GetsStart
    <3>1. Head(inbox).f \in Files /\ Head(inbox) = FileMsg("FileStart", Head(inbox).f)
      BY <1>f, <1>u, <2>1, <2>2 DEF FrameOK, Gets, Marks
    <3> QED
      BY <2>1, <2>2, <3>1 DEF GetsStart
  <2> QED
    BY <1>g, <2>1, <2>2
<1>6. CASE WorkerWrite
  <2>1. /\ apc = "data" /\ apc' = apc /\ Take /\ Head(inbox).op \in {"Data", "Copy"}
        /\ UNCHANGED <<main, up, down, events, server, aidx, cur, dest>>
    BY <1>6 DEF WorkerWrite
  <2>2. Gets(Head(inbox)) /\ UNCHANGED ToCtrl => GetsUnit
    BY <2>1 DEF GetsUnit
  <2> QED
    BY <1>g, <2>1, <2>2
<1>7. CASE WorkerFinish
  <2>1. /\ apc = "data" /\ apc' = apc /\ Take /\ Head(inbox).op = "FileEnd" /\ cur # 0 /\ cur' = 0
        /\ dest' = [dest EXCEPT ![cur] = "new"]
        /\ UNCHANGED <<main, up, down, events, server, aidx>>
    BY <1>7 DEF WorkerFinish, Verified
  <2>2. cur \in Files
    BY <2>1, TypeParts DEF TypeWorker
  <2>3. ASSUME Gets(Head(inbox)) PROVE Head(inbox) = FileMsg("FileEnd", cur)
    <3>1. Head(inbox).f = cur
      BY <2>1, <2>3, RightFile
    <3> QED
      BY <1>u, <2>1, <2>3, <3>1 DEF Gets, Marks
  <2>4. Gets(Head(inbox)) /\ UNCHANGED ToCtrl => GetsFileEnd
    BY <2>1, <2>2, <2>3 DEF GetsFileEnd
  <2> QED
    BY <1>g, <2>1, <2>4
<1>8. CASE WorkerEnd
  <2>1. /\ apc = "data" /\ apc' = "over" /\ Take /\ Head(inbox).op = "PushEnd"
        /\ SendDown(Msg("TransferDone")) /\ UNCHANGED <<main, up, events, server, dest>>
    BY <1>8 DEF WorkerEnd
  <2>2. Gets(Head(inbox)) => Head(inbox) = Msg("PushEnd")
    BY <1>u, <2>1 DEF Gets
  <2> QED
    BY <1>a, <1>m, <2>1, <2>2 DEF GetsPushEnd
<1>9. CASE WorkerRefuse
  <2>1. /\ apc # "over" /\ apc' = "over" /\ Take /\ SendDown(Msg("Error"))
        /\ UNCHANGED <<main, up, events, server, dest>>
    BY <1>9 DEF WorkerRefuse, Refused
  <2> QED
    BY <1>a, <1>m, <2>1 DEF Stops
<1>10. CASE WorkerFails
  <2>1. /\ apc # "over" /\ apc' = "over" /\ SendDown(Msg("Error"))
        /\ UNCHANGED inbox \/ Take
        /\ UNCHANGED <<main, up, events, server, dest>>
    BY <1>10 DEF WorkerFails
  <2> QED
    BY <1>a, <1>s, <1>m, <2>1 DEF Stops
<1>11. CASE DropLate
  <2>1. apc = "over" /\ apc' = "over" /\ Take /\ UNCHANGED <<main, up, down, events, server, dest>>
    BY <1>11 DEF DropLate, worker
  <2> QED
    BY <1>g, <2>1 DEF Drops
<1>12. CASE WorkerPlan
  <2>1. /\ apc = "planning" /\ aidx <= LastFile
        /\ UNCHANGED <<main, up, inbox, events, server, cur, dest>>
    BY <1>12 DEF WorkerPlan
  <2>2. PICK p \in PlansFor(dest[aidx]) :
          /\ SendDown([op |-> "FilePlan", f |-> aidx, plan |-> p])
          /\ \/ apc' = "sigs" /\ aidx' = aidx
             \/ apc' = apc /\ aidx' = aidx + 1
    BY <1>12 DEF WorkerPlan
  <2>3. aidx \in Files /\ aidx \in Entries
    BY <1>0, <2>1 DEF PlaceInv
  <2>4. dest[aidx] \in {"none", "old", "new"}
    BY <2>3, TypeParts DEF TypeWorker, DestInv
  <2>5. p \in Plans /\ (p = "skip" => dest[aidx] = "new")
    BY <2>2, <2>4 DEF PlansFor, Plans
  <2>6. [op |-> "FilePlan", f |-> aidx, plan |-> p] \in DownFrames
    BY <2>3, <2>5 DEF DownFrames
  <2>7. Says([op |-> "FilePlan", f |-> aidx, plan |-> p]) /\ UNCHANGED ToWorker => SaysPlan
    BY <2>1, <2>2, <2>3, <2>5 DEF SaysPlan
  <2> QED
    BY <1>s, <2>1, <2>2, <2>6, <2>7
<1>13. CASE WorkerSigs
  <2>1. /\ apc = "sigs" /\ SendDown([op |-> "FileSigs", f |-> aidx, first |-> asigs])
        /\ \/ apc' = apc /\ aidx' = aidx
           \/ apc' = "planning" /\ aidx' = aidx + 1
        /\ UNCHANGED <<main, up, inbox, events, server, cur, dest>>
    BY <1>13 DEF WorkerSigs
  <2>2. [op |-> "FileSigs", f |-> aidx, first |-> asigs] \in DownFrames
    BY <2>1, TypeParts DEF PlaceInv, TypeWorker, DownFrames
  <2>3. Says([op |-> "FileSigs", f |-> aidx, first |-> asigs]) /\ UNCHANGED ToWorker => SaysSigs
    BY <2>1 DEF SaysSigs
  <2> QED
    BY <1>s, <2>1, <2>2, <2>3
<1>14. CASE WorkerPlanEnd
  <2>1. /\ apc = "planning" /\ apc' = "data" /\ SendDown(Msg("PlanEnd"))
        /\ UNCHANGED <<main, up, inbox, events, server, cur, dest>>
    BY <1>14 DEF WorkerPlanEnd
  <2> QED
    BY <1>s, <1>m, <2>1 DEF SaysPlanEnd
<1> QED
  BY <1>1, <1>2, <1>3, <1>4, <1>5, <1>6, <1>7, <1>8, <1>9, <1>10, <1>11, <1>12, <1>13, <1>14
  DEF WorkerStep

----------------------------------------------------------------------------
LEMMA TypeInit == Init => TypeOK
<1> SUFFICES ASSUME Init PROVE TypeOK
  OBVIOUS
<1>1. FirstFile \in Nat \ {0} /\ LastFile \in Nat /\ FirstFile <= LastFile + 1
  BY Numbering
<1>2. UpOK(UpFrames) /\ DownOK(DownFrames) /\ ServerOK
  <2>1. /\ InCap \in Nat /\ UpCap \in Nat /\ EvCap \in Nat /\ DownCap \in Nat
        /\ \A S : <<>> \in Seq(S) /\ Len(<<>>) = 0
    BY TransferConstants, EmptySeq
  <2>2. TransferInit
    BY DEF Init
  <2>3. UpOK(UpFrames) /\ DownOK(DownFrames)
    BY <2>1, <2>2 DEF TransferInit, UpOK, DownOK
  <2>4. ServerOK
    BY <2>2 DEF TransferInit, ServerOK
  <2> QED
    BY <2>3, <2>4
<1>3. 0 \in 0..SigFrames /\ 0 \in 0..SigFrames - 1 /\ 0 \in 0..Size /\ 1 \in 1..LastFile + 1 /\ 1 \in 1..LastFile + 2
  BY <1>1, TransferConstants
<1>4. TypeMain
  BY <1>3, EmptySeq DEF Init, TypeMain, Plans
<1>5. TypeWorker
  <2>1. dest \in [Entries -> {"none", "old", "new", "bad"}]
    BY DEF Init, Before
  <2> QED
    BY <1>3, <2>1 DEF Init, TypeWorker, Plans
<1> QED
  BY <1>2, <1>4, <1>5, TypeParts

LEMMA TypeMainStep ==
  ASSUME TypeOK, FramesOK, PlaceInv, MainActs
  PROVE  TypeMain'
<1>0. /\ Files = FirstFile..LastFile /\ FirstFile \in Nat \ {0} /\ LastFile \in Nat /\ SigFrames \in Nat \ {0}
      /\ FirstFile <= LastFile + 1
  BY Numbering, TransferConstants
<1>t. TypeMain
  BY TypeParts
<1>1. ASSUME UNCHANGED <<mleft, plans, sigs>>, rc' \in {rc, 3, 6, 0},
             mpc' \in {mpc, "ready", "manifest", "mfeedback", "plans", "filestart", "dfeedback", "pushend", "done", "exit"},
             midx' = midx \/ (midx' = midx + 1 /\ midx <= LastFile + 1) \/ midx' = FirstFile
      PROVE  TypeMain'
  <2>1. midx' \in 1..LastFile + 2
    BY <1>0, <1>1, <1>t DEF TypeMain
  <2> QED
    BY <1>1, <1>t, <2>1 DEF TypeMain
<1>2. mpc \in {"dfeedback", "filestart", "stream"} => midx <= LastFile + 1
  BY <1>0 DEF PlaceInv
<1>3. \A i : NextFile(i) \in {"dfeedback", "pushend"}
  BY DEF NextFile
<1>4. CASE SendBegin \/ SendManifest \/ SendPushEnd \/ ManifestFeedbackDone
  <2>1. /\ UNCHANGED <<mleft, plans, sigs, rc>> /\ mpc' \in {"ready", "mfeedback", "done", "manifest", "plans"}
        /\ midx' = midx \/ (midx' = midx + 1 /\ mpc = "manifest") \/ midx' = FirstFile
    BY <1>4 DEF SendBegin, SendManifest, SendPushEnd, ManifestFeedbackDone
  <2>2. mpc = "manifest" => midx <= LastFile + 1
    BY DEF PlaceInv
  <2> QED
    BY <1>1, <2>1, <2>2
<1>5. CASE WaitReady \/ DrainFeedback \/ WaitDone \/ SourceFails \/ LinkLost \/ Timeout
  <2>1. /\ UNCHANGED <<mleft, plans, sigs, midx>> /\ mpc' \in {mpc, "manifest", "exit"}
        /\ rc' \in {rc, 0, 3, 6}
    BY <1>5 DEF WaitReady, DrainFeedback, WaitDone, SourceFails, LinkLost, Timeout, Fail, Exit, main
  <2> QED
    BY <1>1, <2>1
<1>6. CASE NextOrSkip
  <2>1. /\ UNCHANGED <<mleft, plans, sigs, rc>> /\ mpc = "dfeedback"
        /\ \/ midx' = midx + 1 /\ mpc' = NextFile(midx + 1)
           \/ midx' = midx /\ mpc' = "filestart"
    BY <1>6 DEF NextOrSkip
  <2>2. mpc' \in {"dfeedback", "pushend", "filestart"}
    BY <1>3, <2>1
  <2> QED
    BY <1>1, <1>2, <2>1, <2>2
<1>7. CASE EndFile
  <2>1. /\ UNCHANGED <<mleft, plans, sigs, rc>> /\ mpc = "stream"
        /\ midx' = midx + 1 /\ mpc' = NextFile(midx + 1)
    BY <1>7 DEF EndFile
  <2>2. mpc' \in {"dfeedback", "pushend"}
    BY <1>3, <2>1
  <2> QED
    BY <1>1, <1>2, <2>1, <2>2
<1>8. CASE StartFile
  <2>1. /\ UNCHANGED <<midx, plans, sigs, rc>> /\ mpc' = "stream" /\ mleft' \in Streams(plans[midx])
    BY <1>8 DEF StartFile
  <2>2. [op : {"Data"}, bytes : Bytes] \cup [op : {"Copy"}] \subseteq UpFrames
    BY DEF UpFrames
  <2>3. mleft' \in Seq(UpFrames)
    BY <2>1, <2>2, StreamsAreData
  <2> QED
    BY <1>t, <2>1, <2>3 DEF TypeMain
<1>9. CASE StreamUnit
  <2>1. UNCHANGED <<mpc, midx, plans, sigs, rc>> /\ mleft # <<>> /\ mleft' = Tail(mleft)
    BY <1>9 DEF StreamUnit
  <2>2. mleft' \in Seq(UpFrames)
    BY <1>t, <2>1, HeadAndTail DEF TypeMain
  <2> QED
    BY <1>t, <2>1, <2>2 DEF TypeMain
<1>10. CASE ReadPlan
  <2>1. /\ NextEvent /\ UNCHANGED <<midx, mleft, up, inbox, down, server>>
        /\ mpc' \in {mpc, NextFile(midx), "exit"} /\ rc' \in {rc, 6}
        /\ \/ plans' = plans
           \/ Head(events).op = "FilePlan" /\ plans' = [plans EXCEPT ![Head(events).f] = Head(events).plan]
        /\ \/ sigs' = sigs
           \/ sigs' = [sigs EXCEPT ![Head(events).f] = 0]
           \/ /\ Head(events).op = "FileSigs" /\ sigs[Head(events).f] = Head(events).first
              /\ sigs' = [sigs EXCEPT ![Head(events).f] = sigs[Head(events).f] + 1]
    BY <1>10 DEF ReadPlan, Fail, Exit, main
  <2>2. Head(events) \in DownFrames
    BY <2>1, MainTakes DEF Hears
  <2>3. /\ Head(events).op = "FilePlan" => Head(events).plan \in Plans
        /\ Head(events).op = "FileSigs" => Head(events).first \in 0..SigFrames - 1
    BY <2>2 DEF DownFrames
  <2>4. plans' \in [Files -> Plans]
    BY <1>t, <2>1, <2>3 DEF TypeMain
  <2>5. sigs' \in [Files -> 0..SigFrames]
    <3>1. CASE sigs' = sigs
      BY <1>t, <3>1 DEF TypeMain
    <3>2. CASE sigs' = [sigs EXCEPT ![Head(events).f] = 0]
      <4>1. 0 \in 0..SigFrames
        BY <1>0
      <4> QED
        BY <1>t, <3>2, <4>1 DEF TypeMain
    <3>3. CASE /\ Head(events).op = "FileSigs" /\ sigs[Head(events).f] = Head(events).first
               /\ sigs' = [sigs EXCEPT ![Head(events).f] = sigs[Head(events).f] + 1]
      <4>1. sigs[Head(events).f] + 1 \in 0..SigFrames
        BY <1>0, <2>3, <3>3
      <4> QED
        BY <1>t, <3>3, <4>1 DEF TypeMain
    <3> QED
      BY <2>1, <3>1, <3>2, <3>3
  <2>6. mpc' \in {mpc, "dfeedback", "pushend", "exit"}
    BY <1>3, <2>1
  <2> QED
    BY <1>t, <2>1, <2>4, <2>5, <2>6 DEF TypeMain
<1> QED
  BY <1>4, <1>5, <1>6, <1>7, <1>8, <1>9, <1>10 DEF MainActs, MainStep

LEMMA TypeWorkerStep ==
  ASSUME TypeOK, FramesOK, PlaceInv, ListInv, DestInv, FrameInv, WorkerStep \/ WorkerFails
  PROVE  TypeWorker'
<1>0. /\ Files = FirstFile..LastFile /\ FirstFile \in Nat \ {0} /\ LastFile \in Nat
      /\ SigFrames \in Nat \ {0} /\ Size \in Nat \ {0} /\ FirstFile <= LastFile + 1
      /\ MayFail \in BOOLEAN /\ Files \subseteq Entries
  BY Numbering, TransferConstants
<1>t. TypeWorker
  BY TypeParts
<1>g. Take /\ UNCHANGED <<up, events, server>> => Gets(Head(inbox))
  BY WorkerTakes
(* the entry taken is the next one *)
<1>e. ASSUME Take, UNCHANGED <<up, events, server>>, apc = "manifest", Head(inbox).op \in Listed
      PROVE  aidx + 1 \in 1..LastFile + 1
  BY <1>e, <1>g, NextEntry
<1>1. CASE WorkerMkdir \/ WorkerSymlink
  <2>1. /\ apc = "manifest" /\ Take /\ Head(inbox).op \in Listed /\ UNCHANGED <<up, events, server>>
        /\ UNCHANGED <<asigs, aplan, cur, recvd, good>>
        /\ aidx' \in {aidx, aidx + 1} /\ apc' \in {apc, "over"}
        /\ \E x \in {"new", "none"} : dest' = [dest EXCEPT ![Head(inbox).f] = x]
    BY <1>1 DEF WorkerMkdir, WorkerSymlink, Listed
  <2>2. aidx' \in 1..LastFile + 1
    BY <1>e, <1>t, <2>1 DEF TypeWorker
  <2>3. dest' \in [Entries -> {"none", "old", "new", "bad"}]
    BY <1>t, <2>1 DEF TypeWorker
  <2> QED
    BY <1>t, <2>1, <2>2, <2>3 DEF TypeWorker
<1>2. CASE WorkerManifest
  <2>1. /\ apc = "manifest" /\ Take /\ UNCHANGED <<up, events, server>>
        /\ UNCHANGED <<asigs, aplan, cur, recvd, good, dest>> /\ apc' \in {apc, "planning"}
        /\ \/ Head(inbox).op = "FileBegin" /\ aidx' = aidx + 1
           \/ aidx' = FirstFile
    BY <1>2 DEF WorkerManifest
  <2>2. "FileBegin" \in Listed
    BY DEF Listed
  <2>3. aidx' \in 1..LastFile + 1
    BY <1>0, <1>e, <2>1, <2>2
  <2> QED
    BY <1>t, <2>1, <2>3 DEF TypeWorker
<1>3. CASE WorkerBegin \/ WorkerEnd \/ WorkerRefuse \/ WorkerFails \/ WorkerPlanEnd
  <2>1. /\ UNCHANGED <<aidx, asigs, aplan, recvd, good, dest>> /\ cur' \in {cur, 0}
        /\ apc' \in {"manifest", "data", "over"}
    BY <1>3 DEF WorkerBegin, WorkerEnd, WorkerRefuse, WorkerFails, WorkerPlanEnd
  <2> QED
    BY <1>t, <2>1 DEF TypeWorker
<1>4. CASE WorkerPlan
  <2>1. /\ apc = "planning" /\ aidx <= LastFile /\ UNCHANGED <<cur, recvd, good, dest>>
        /\ apc' \in {apc, "sigs"} /\ asigs' \in {asigs, 0} /\ aidx' \in {aidx, aidx + 1}
        /\ \E p \in PlansFor(dest[aidx]) : aplan' = [aplan EXCEPT ![aidx] = p]
    BY <1>4 DEF WorkerPlan
  <2>2. aidx \in Entries /\ aidx \in 1..LastFile
    BY <1>0, <1>t, <2>1 DEF TypeWorker, PlaceInv
  <2>3. dest[aidx] \in {"none", "old", "new"}
    BY <1>t, <2>2 DEF TypeWorker, DestInv
  <2>4. PlansFor(dest[aidx]) \subseteq Plans
    BY <2>3 DEF PlansFor, Plans
  <2>5. aplan' \in [Files -> Plans]
    BY <1>t, <2>1, <2>4 DEF TypeWorker
  <2>6. aidx' \in 1..LastFile + 1 /\ asigs' \in 0..SigFrames - 1
    BY <1>0, <1>t, <2>1, <2>2 DEF TypeWorker
  <2> QED
    BY <1>t, <2>1, <2>5, <2>6 DEF TypeWorker
<1>5. CASE WorkerSigs
  <2>1. /\ apc = "sigs" /\ UNCHANGED <<aplan, cur, recvd, good, dest>> /\ apc' \in {apc, "planning"}
        /\ \/ aidx' = aidx + 1 /\ asigs' = 0
           \/ aidx' = aidx /\ asigs + 1 # SigFrames /\ asigs' = asigs + 1
    BY <1>5 DEF WorkerSigs
  <2>2. aidx \in Files
    BY <2>1 DEF PlaceInv
  <2>3. aidx' \in 1..LastFile + 1 /\ asigs' \in 0..SigFrames - 1
    BY <1>0, <1>t, <2>1, <2>2 DEF TypeWorker
  <2> QED
    BY <1>t, <2>1, <2>3 DEF TypeWorker
<1>6. CASE WorkerStart
  <2>1. /\ apc = "data" /\ Take /\ Head(inbox).op = "FileStart" /\ UNCHANGED <<up, events, server>>
        /\ cur' = Head(inbox).f /\ recvd' = 0 /\ good' = TRUE
        /\ UNCHANGED <<apc, aidx, asigs, aplan, dest>>
    BY <1>6 DEF WorkerStart
  <2>2. Head(inbox).f \in Files
    BY <1>g, <2>1 DEF Gets, FramesOK, FrameOK, Marks
  <2>3. 0 \in 0..Size
    BY <1>0
  <2> QED
    BY <1>t, <2>1, <2>2, <2>3 DEF TypeWorker
<1>7. CASE WorkerWrite
  <2>1. recvd < Size /\ recvd' = recvd + 1 /\ UNCHANGED <<apc, aidx, asigs, aplan, cur, dest>>
    BY <1>7 DEF WorkerWrite
  <2>2. good' \in BOOLEAN
    BY <1>0, <1>7, <1>t DEF WorkerWrite, TypeWorker
  <2>3. recvd' \in 0..Size
    BY <1>0, <1>t, <2>1 DEF TypeWorker
  <2> QED
    BY <1>t, <2>1, <2>2, <2>3 DEF TypeWorker
<1>8. CASE WorkerFinish
  <2>1. /\ dest' = [dest EXCEPT ![cur] = IF good THEN "new" ELSE "bad"] /\ cur' = 0
        /\ UNCHANGED <<apc, aidx, asigs, aplan, recvd, good>>
    BY <1>8 DEF WorkerFinish
  <2> QED
    BY <1>t, <2>1 DEF TypeWorker
<1>9. CASE DropLate
  <2>1. UNCHANGED worker
    BY <1>9 DEF DropLate
  <2> QED
    BY <1>t, <2>1 DEF TypeWorker, worker
<1> QED
  BY <1>1, <1>2, <1>3, <1>4, <1>5, <1>6, <1>7, <1>8, <1>9 DEF WorkerStep

LEMMA TypeStep ==
  ASSUME TypeOK, FramesOK, RouteInv, PlaceInv, ListInv, DestInv, FrameInv, [Next]_vars
  PROVE  TypeOK'
<1>q. ASSUME Types', TypeMain', TypeWorker' PROVE TypeOK'
  <2>1. UpOK(UpFrames)' /\ DownOK(DownFrames)' /\ ServerOK'
    BY <1>q DEF Types
  <2> QED
    BY <1>q, <2>1, TypeParts, PTL
<1>t. TypeMain /\ TypeWorker
  BY TypeParts
<1>1. CASE MainActs
  <2>1. Types' /\ UNCHANGED worker
    BY <1>1, MainSteps DEF MainMoves
  <2>2. TypeWorker'
    BY <1>t, <2>1 DEF TypeWorker, worker
  <2> QED
    BY <1>1, <1>q, <2>1, <2>2, TypeMainStep
<1>2. CASE WorkerStep \/ WorkerFails
  <2>1. Types' /\ UNCHANGED main
    BY <1>2, WorkerSteps DEF WorkerMoves
  <2>2. TypeMain'
    BY <1>t, <2>1 DEF TypeMain, main
  <2> QED
    BY <1>2, <1>q, <2>1, <2>2, TypeWorkerStep
<1>3. CASE Between
  <2>1. Types' /\ UNCHANGED main /\ (UNCHANGED worker \/ Cancelled)
    BY <1>3, BetweenSteps
  <2>2. TypeMain'
    BY <1>t, <2>1 DEF TypeMain, main
  <2>3. TypeWorker'
    BY <1>t, <2>1 DEF TypeWorker, worker, Cancelled
  <2> QED
    BY <1>q, <2>1, <2>2, <2>3
<1> QED
  BY Steps, <1>1, <1>2, <1>3

----------------------------------------------------------------------------
(* What every step comes to.                                                 *)
BetweenMoves ==
  /\ ServerInv' /\ UNCHANGED main /\ (UNCHANGED worker \/ Cancelled)
  /\ apc' # "over" => UNCHANGED ToWorker /\ Served'
  /\ ToCtrl' = ToCtrl \/ ToCtrl' = <<>> \/ Says(Msg("Error"))

LEMMA Moves ==
  ASSUME TypeOK, FramesOK, RouteInv, PlaceInv, DestInv, FrameInv, [Next]_vars
  PROVE  MainMoves \/ WorkerMoves \/ BetweenMoves
<1>1. MainActs => MainMoves
  BY MainSteps
<1>2. WorkerStep \/ WorkerFails => WorkerMoves
  BY WorkerSteps
<1>3. Between => BetweenMoves
  BY BetweenSteps DEF BetweenMoves
<1> QED
  BY Steps, <1>1, <1>2, <1>3

(* ... while the worker goes on *)
LEMMA Going ==
  ASSUME MainMoves \/ WorkerMoves \/ BetweenMoves, apc' # "over"
  PROVE  /\ apc # "over"
         /\ \/ MainSays /\ UNCHANGED <<apc, aidx, cur, dest>>
            \/ UNCHANGED ToWorker /\ UNCHANGED <<apc, aidx, cur, dest>> /\ (MainHears \/ MainTurns)
            \/ WorkerMoves /\ UNCHANGED <<mpc, midx>> /\ ~(Loses \/ Stops \/ Drops \/ GetsPushEnd)
            \/ UNCHANGED <<ToWorker, apc, aidx, cur, dest, mpc, midx>>
<1>1. CASE MainMoves
  BY <1>1 DEF MainMoves, worker, MainHears, MainTurns
<1>2. CASE WorkerMoves
  <2>1. ~(Loses \/ Stops \/ Drops \/ GetsPushEnd)
    BY DEF Loses, Stops, Drops, GetsPushEnd
  <2>2. apc # "over"
    BY <1>2, <2>1 DEF WorkerMoves, GetsBegin, GetsMade, GetsListed, GetsManifestEnd, GetsStart, GetsUnit,
      GetsFileEnd, SaysPlan, SaysSigs, SaysPlanEnd
  <2> QED
    BY <1>2, <2>1, <2>2 DEF WorkerMoves, main
<1>3. CASE BetweenMoves
  BY <1>3 DEF BetweenMoves, worker, main, Cancelled
<1> QED
  BY <1>1, <1>2, <1>3

(* the worker's path shrinks from its head or stays *)
LEMMA Got ==
  ASSUME WorkerMoves, apc' # "over"
  PROVE  ToWorker' = ToWorker \/ \E m : Gets(m)
BY DEF WorkerMoves, GetsBegin, GetsMade, GetsListed, GetsManifestEnd, GetsStart, GetsUnit,
  GetsFileEnd, SaysPlan, SaysSigs, SaysPlanEnd, Loses, Stops, Drops, GetsPushEnd

(* what the main thread sends *)
LEMMA Sent ==
  ASSUME MainSays
  PROVE  \E m : Adds(m) /\ FrameOK(m)
<1>1. /\ \A op \in {"PushBegin", "ManifestEnd", "PushEnd"} : FrameOK(Msg(op))
      /\ \A op \in {"FileStart", "FileEnd"}, f \in Files : FrameOK(FileMsg(op, f))
      /\ \A m : m.op \in {"Data", "Copy"} => FrameOK(m)
  BY DEF FrameOK, Msg, FileMsg, Marks
<1> QED
  BY <1>1, ManifestOps
  DEF MainSays, SaysBegin, SaysEntry, SaysManifestEnd, SaysStart, SaysUnit, SaysFileEnd, SaysPushEnd

----------------------------------------------------------------------------
LEMMA SimpleInit ==
  ASSUME Init
  PROVE  /\ ToWorker = <<>> /\ ToCtrl = <<>> /\ Len(<<>>) = 0
         /\ FramesOK /\ RouteInv /\ PlaceInv /\ DestInv /\ SkipInv /\ PhaseInv /\ VerdictInv
         /\ ListInv /\ DoneInv /\ FrameInv
<1>1. ToWorker = <<>> /\ ToCtrl = <<>> /\ Len(<<>>) = 0
  BY ConcatEmptySeq, EmptySeq DEF Init, TransferInit, ToWorker, ToCtrl
<1>2. FramesOK /\ RouteInv /\ PlaceInv
  BY <1>1 DEF Init, TransferInit, FramesOK, RouteInv, ServerInv, Served, PlaceInv
<1>3. DestInv
  BY DEF Init, Before, DestInv, Planning
<1>4. SkipInv /\ PhaseInv /\ VerdictInv
  BY <1>1 DEF Init, SkipInv, PhaseInv, VerdictInv, Holds, Planning, Streaming
<1>5. ListInv
  BY <1>1 DEF Init, ListInv, Listing, NextAt, Named
<1>6. DoneInv
  <2>1. \A e \in Entries \ Files : ~(e < 1)
    BY Numbering
  <2> QED
    BY <1>1, <2>1 DEF Init, DoneInv, DoneBy, Streaming
<1>7. FrameInv
  BY <1>1 DEF Init, FrameInv, Framing
<1> QED
  BY <1>1, <1>2, <1>3, <1>4, <1>5, <1>6, <1>7

LEMMA FramesStep ==
  ASSUME TypeOK, FramesOK, RouteInv, PlaceInv, DestInv, FrameInv, [Next]_vars
  PROVE  FramesOK'
<1>0. ToWorker \in Seq(UpFrames)
  BY PathTypes DEF Paths
<1>1. ASSUME apc' # "over" PROVE \A i \in 1..Len(ToWorker') : FrameOK(ToWorker'[i])
  <2>1. /\ apc # "over"
        /\ MainSays \/ WorkerMoves \/ UNCHANGED ToWorker
    BY <1>1, Moves, Going
  <2>2. \A i \in 1..Len(ToWorker) : FrameOK(ToWorker[i])
    BY <2>1 DEF FramesOK
  <2>3. CASE UNCHANGED ToWorker
    BY <2>2, <2>3
  <2>4. ASSUME NEW m, Adds(m), FrameOK(m) PROVE \A i \in 1..Len(ToWorker') : FrameOK(ToWorker'[i])
    <3>1. m \in UpFrames /\ ToWorker' = Append(ToWorker, m)
      BY <2>4 DEF Adds
    <3>2. /\ Len(ToWorker) \in Nat /\ Len(Append(ToWorker, m)) = Len(ToWorker) + 1
          /\ Append(ToWorker, m)[Len(ToWorker) + 1] = m
          /\ \A i \in 1..Len(ToWorker) : Append(ToWorker, m)[i] = ToWorker[i]
      BY <1>0, <3>1, AheadSends
    <3> QED
      BY <2>2, <2>4, <3>1, <3>2
  <2>5. ASSUME NEW m, Gets(m) PROVE \A i \in 1..Len(ToWorker') : FrameOK(ToWorker'[i])
    <3>1. ToWorker # <<>> /\ ToWorker' = Tail(ToWorker)
      BY <2>5 DEF Gets
    <3>2. /\ Len(Tail(ToWorker)) = Len(ToWorker) - 1 /\ Len(ToWorker) \in Nat \ {0}
          /\ \A i \in 1..Len(Tail(ToWorker)) : Tail(ToWorker)[i] = ToWorker[i + 1]
      BY <1>0, <3>1, HeadAndTail
    <3>3. \A i \in 1..Len(Tail(ToWorker)) : i + 1 \in 1..Len(ToWorker)
      BY <3>2
    <3> QED
      BY <2>2, <3>1, <3>2, <3>3
  <2> QED
    BY <1>1, <2>1, <2>3, <2>4, <2>5, Sent, Got
<1>2. \A i \in 1..Len(mleft') : mleft'[i].op \in {"Data", "Copy"}
  <2>1. CASE UNCHANGED mleft
    BY <2>1 DEF FramesOK
  <2>2. CASE StartFile
    <3>1. mleft' \in Streams(plans[midx])
      BY <2>2 DEF StartFile
    <3> QED
      BY <3>1, StreamsAreData
  <2>3. CASE StreamUnit
    <3>1. mleft \in Seq(UpFrames) /\ mleft # <<>> /\ mleft' = Tail(mleft)
      BY <2>3, TypeParts DEF StreamUnit, TypeMain
    <3>2. /\ Len(Tail(mleft)) = Len(mleft) - 1 /\ Len(mleft) \in Nat \ {0}
          /\ \A i \in 1..Len(Tail(mleft)) : Tail(mleft)[i] = mleft[i + 1]
      BY <3>1, HeadAndTail
    <3>3. \A i \in 1..Len(Tail(mleft)) : i + 1 \in 1..Len(mleft)
      BY <3>2
    <3> QED
      BY <3>1, <3>2, <3>3 DEF FramesOK
  <2>4. UNCHANGED mleft \/ StartFile \/ StreamUnit
    <3>1. CASE MainActs
      BY <3>1 DEF MainActs, MainStep, SendBegin, WaitReady, SendManifest, DrainFeedback, ManifestFeedbackDone,
        ReadPlan, NextOrSkip, EndFile, SendPushEnd, WaitDone, SourceFails, LinkLost, Timeout, Fail, main
    <3>2. CASE WorkerStep \/ WorkerFails
      BY <3>2, WorkerSteps DEF WorkerMoves, main
    <3>3. CASE Between
      BY <3>3, BetweenSteps DEF main
    <3> QED
      BY Steps, <3>1, <3>2, <3>3
  <2> QED
    BY <2>1, <2>2, <2>3, <2>4
<1> QED
  BY <1>1, <1>2 DEF FramesOK

LEMMA RouteStep ==
  ASSUME TypeOK, FramesOK, RouteInv, PlaceInv, DestInv, FrameInv, [Next]_vars
  PROVE  RouteInv'
<1>1. MainMoves \/ WorkerMoves => ServerInv' /\ (Served => Served')
  BY DEF MainMoves, WorkerMoves, server, RouteInv, ServerInv, Served
<1>2. ServerInv'
  BY Moves, <1>1 DEF BetweenMoves
<1>3. ASSUME apc' # "over" PROVE Served'
  <2>1. Served
    BY <1>3, Moves, Going DEF RouteInv
  <2> QED
    BY Moves, <1>1, <1>3, <2>1 DEF BetweenMoves
<1> QED
  BY <1>2, <1>3 DEF RouteInv

LEMMA PlaceStep ==
  ASSUME TypeOK, FramesOK, RouteInv, PlaceInv, DestInv, FrameInv, [Next]_vars
  PROVE  PlaceInv'
<1>0. /\ Files = FirstFile..LastFile /\ FirstFile \in Nat \ {0} /\ LastFile \in Nat
      /\ FirstFile <= LastFile + 1 /\ Entries = 1..LastFile
      /\ midx \in 1..LastFile + 2 /\ aidx \in 1..LastFile + 1
  BY Numbering, TypeParts DEF TypeMain, TypeWorker
<1>m. MainMoves \/ (WorkerMoves /\ UNCHANGED <<mpc, midx>>) \/ (BetweenMoves /\ UNCHANGED <<mpc, midx>>)
  BY Moves DEF WorkerMoves, BetweenMoves, main
<1> DEFINE Places(p, x) ==
      /\ p \in {"begin", "ready"} => x = 1
      /\ p = "manifest" => x <= LastFile + 1
      /\ p = "plans" => x = FirstFile
      /\ p \in {"dfeedback", "filestart", "stream"} => x \in Files
      /\ p = "pushend" => x = LastFile + 1
<1>p. Places(mpc, midx)
  BY DEF PlaceInv
<1>n. \A x \in FirstFile..LastFile + 1 : Places(NextFile(x), x)
  BY <1>0 DEF NextFile
<1>1. Places(mpc', midx')
  <2>1. CASE UNCHANGED <<mpc, midx>>
    BY <1>p, <2>1
  <2>2. CASE MainSays
    <3>1. CASE SaysFileEnd
      <4>1. mpc' = NextFile(midx + 1) /\ midx' = midx + 1 /\ midx + 1 \in FirstFile..LastFile + 1
        BY <1>0, <3>1 DEF SaysFileEnd
      <4> HIDE DEF Places
      <4> QED
        BY <1>n, <4>1
    <3>2. CASE SaysBegin \/ SaysEntry \/ SaysManifestEnd \/ SaysStart \/ SaysUnit \/ SaysPushEnd
      BY <1>0, <1>p, <3>2 DEF SaysBegin, SaysEntry, SaysManifestEnd, SaysStart, SaysUnit, SaysPushEnd
    <3> QED
      BY <2>2, <3>1, <3>2 DEF MainSays
  <2>3. CASE MainHears
    <3>1. CASE HearsPlanEnd
      <4>1. mpc' = NextFile(midx) /\ midx' = midx /\ midx \in FirstFile..LastFile + 1
        BY <1>0, <1>p, <3>1 DEF HearsPlanEnd
      <4> HIDE DEF Places
      <4> QED
        BY <1>n, <4>1
    <3>2. CASE HearsPlan \/ HearsDone \/ HearsOther
      BY <1>0, <1>p, <3>2 DEF HearsPlan, HearsDone, HearsOther
    <3> QED
      BY <2>3, <3>1, <3>2 DEF MainHears
  <2>4. CASE MainTurns
    <3>1. CASE Skips
      <4>1. mpc' = NextFile(midx + 1) /\ midx' = midx + 1 /\ midx + 1 \in FirstFile..LastFile + 1
        BY <1>0, <3>1 DEF Skips
      <4> HIDE DEF Places
      <4> QED
        BY <1>n, <4>1
    <3>2. CASE Exits \/ ListsOn \/ Waits \/ Opens
      BY <1>0, <1>p, <3>2 DEF Exits, ListsOn, Waits, Opens
    <3> QED
      BY <2>4, <3>1, <3>2 DEF MainTurns
  <2> HIDE DEF Places
  <2> QED
    BY <1>m, <2>1, <2>2, <2>3, <2>4 DEF MainMoves
<1>2. apc' = "sigs" => aidx' \in Files
  <2> SUFFICES ASSUME apc' = "sigs" PROVE aidx' \in Files
    OBVIOUS
  <2>1. apc = "sigs" => aidx \in Files
    BY DEF PlaceInv
  <2>2. (apc = "sigs" /\ aidx' = aidx) \/ (aidx' = aidx /\ aidx \in Files)
    BY <1>m, <2>1 DEF MainMoves, BetweenMoves, Cancelled, worker, WorkerMoves, GetsBegin, GetsMade, GetsListed,
      GetsManifestEnd, GetsStart, GetsUnit, GetsFileEnd, SaysPlan, SaysSigs, SaysPlanEnd, Loses, Stops, Drops, GetsPushEnd
  <2> QED
    BY <2>1, <2>2
<1>3. apc' = "planning" => aidx' >= FirstFile
  <2> SUFFICES ASSUME apc' = "planning" PROVE aidx' >= FirstFile
    OBVIOUS
  <2>1. \/ apc = "planning" /\ aidx' = aidx
        \/ aidx' = aidx + 1 /\ (apc = "planning" \/ apc = "sigs")
        \/ aidx' = FirstFile
    BY <1>m DEF MainMoves, BetweenMoves, Cancelled, worker, WorkerMoves, GetsBegin, GetsMade, GetsListed,
      GetsManifestEnd, GetsStart, GetsUnit, GetsFileEnd, SaysPlan, SaysSigs, SaysPlanEnd, Loses, Stops, Drops, GetsPushEnd
  <2> QED
    BY <1>0, <2>1 DEF PlaceInv
<1> QED
  BY <1>1, <1>2, <1>3 DEF PlaceInv

----------------------------------------------------------------------------
(* What the frames that are not entries leave alone.                         *)
LEMMA Unlisted ==
  /\ \A op \in {"PushBegin", "ManifestEnd", "PushEnd"} :
       Msg(op).op = op /\ Msg(op).op \notin Listed \cup Marks /\ \A e \in Entries : Makers[e] # Msg(op)
  /\ \A op \in {"FileStart", "FileEnd"} :
       \A f : FileMsg(op, f).op = op /\ FileMsg(op, f).op \notin Listed
  /\ \A m : m.op \in {"Data", "Copy", "FileBegin", "FileStart"} => \A e \in Entries : Makers[e] # m
  /\ \A m : m.op \in {"Data", "Copy"} => m.op \notin Listed \cup Marks
<1>1. \A e \in Entries : Makers[e].op \in {"Mkdir", "Symlink", "FileEnd"}
  <2> TAKE e \in Entries
  <2>1. e \in Dirs \/ e \in Links \/ e \in Files
    BY Numbering
  <2>2. \A op : FileMsg(op, e).op = op
    BY DEF FileMsg
  <2> QED
    BY <2>1, <2>2, ManifestOps
<1>2. \A m : m.op \in {"Data", "Copy", "FileBegin", "FileStart"} => \A e \in Entries : Makers[e] # m
  BY <1>1
<1>3. ASSUME NEW op \in {"PushBegin", "ManifestEnd", "PushEnd"}
      PROVE  Msg(op).op = op /\ Msg(op).op \notin Listed \cup Marks /\ \A e \in Entries : Makers[e] # Msg(op)
  <2>1. Msg(op).op = op
    BY DEF Msg
  <2> QED
    BY <1>1, <2>1 DEF Listed, Marks
<1>4. /\ \A op \in {"FileStart", "FileEnd"} :
           \A f : FileMsg(op, f).op = op /\ FileMsg(op, f).op \notin Listed
      /\ \A m : m.op \in {"Data", "Copy"} => m.op \notin Listed \cup Marks
  BY DEF FileMsg, Listed, Marks
<1> QED
  BY <1>2, <1>3, <1>4

LEMMA Phases == \A i : NextFile(i) \in {"dfeedback", "pushend"}
BY DEF NextFile

LEMMA ListStep ==
  ASSUME TypeOK, FramesOK, RouteInv, PlaceInv, DestInv, FrameInv, ListInv, [Next]_vars
  PROVE  ListInv'
<1> SUFFICES ASSUME apc' \in {"idle", "manifest"}
             PROVE  /\ Listing(Listed, ToWorker', aidx' - 1)
                    /\ mpc' \in Lists /\ midx' <= LastFile + 1 =>
                         NextAt(Listed, ToWorker', aidx' - 1, Len(ToWorker') + 1, midx')
  BY DEF ListInv
<1>0. apc # "over" /\ Entries = 1..LastFile /\ LastFile \in Nat
  BY Moves, Going, Numbering
<1>1. /\ ToWorker \in Seq(UpFrames) /\ Len(ToWorker) \in Nat
      /\ midx \in Nat /\ aidx - 1 \in Nat /\ Entries \subseteq Nat
  BY <1>0, PathTypes, LenProperties, TypeParts DEF Paths, TypeMain, TypeWorker
<1>2. \A i \in 1..Len(ToWorker) : ToWorker[i].op \in Listed => ToWorker[i].f \in Nat
  BY <1>1, PathTypes, UpFields
<1>3. apc \in {"idle", "manifest"}
  BY Moves DEF MainMoves, BetweenMoves, Cancelled, worker, WorkerMoves, GetsBegin, GetsMade, GetsListed,
    GetsManifestEnd, GetsStart, GetsUnit, GetsFileEnd, SaysPlan, SaysSigs, SaysPlanEnd, Loses, Stops, Drops, GetsPushEnd
<1>4. /\ Listing(Listed, ToWorker, aidx - 1)
      /\ mpc \in Lists /\ midx <= LastFile + 1 => NextAt(Listed, ToWorker, aidx - 1, Len(ToWorker) + 1, midx)
  BY <1>3 DEF ListInv
<1>5. CASE MainSays /\ UNCHANGED aidx
  <2>1. CASE SaysEntry
    <3> DEFINE m == FileMsg(ManifestOp(midx), midx)
    <3>1. /\ m \in UpFrames /\ ToWorker' = Append(ToWorker, m) /\ midx \in Entries /\ mpc = "manifest" /\ midx' = midx + 1
      BY <2>1 DEF SaysEntry, Adds
    <3>2. m.op \in Listed /\ m.f = midx
      BY <3>1, ManifestOps
    <3> HIDE DEF m
    <3>3. NextAt(Listed, ToWorker, aidx - 1, Len(ToWorker) + 1, m.f)
      BY <1>0, <1>4, <3>1, <3>2 DEF Lists
    <3>4. Listing(Listed, Append(ToWorker, m), aidx - 1)
      BY <1>1, <1>4, <3>1, <3>3, ListingSends
    <3>5. NextAt(Listed, Append(ToWorker, m), aidx - 1, Len(ToWorker) + 2, m.f + 1)
      BY <1>1, <1>2, <3>1, <3>2, <3>3, ListingSendsEntry
    <3>6. Len(Append(ToWorker, m)) + 1 = Len(ToWorker) + 2
      BY <1>1, <3>1, AheadSends
    <3> QED
      BY <1>5, <3>1, <3>2, <3>4, <3>5, <3>6
  <2>2. ASSUME NEW m, Adds(m), m.op \notin Listed,
               mpc' \in Lists /\ midx' <= LastFile + 1 => mpc \in Lists /\ midx' = midx
        PROVE  /\ Listing(Listed, ToWorker', aidx' - 1)
               /\ mpc' \in Lists /\ midx' <= LastFile + 1 =>
                    NextAt(Listed, ToWorker', aidx' - 1, Len(ToWorker') + 1, midx')
    <3>1. m \in UpFrames /\ ToWorker' = Append(ToWorker, m)
      BY <2>2 DEF Adds
    <3>2. Len(Append(ToWorker, m)) + 1 = Len(ToWorker) + 2
      BY <1>1, <3>1, AheadSends
    <3>3. Listing(Listed, Append(ToWorker, m), aidx - 1)
      BY <1>1, <1>4, <2>2, <3>1, ListingSends
    <3>4. \A e : NextAt(Listed, ToWorker, aidx - 1, Len(ToWorker) + 1, e) =>
                 NextAt(Listed, Append(ToWorker, m), aidx - 1, Len(ToWorker) + 2, e)
      BY <1>1, <1>4, <2>2, <3>1, ListingSends
    <3> QED
      BY <1>4, <1>5, <2>2, <3>1, <3>2, <3>3, <3>4
  <2>3. CASE SaysBegin
    BY <2>2, <2>3, Unlisted DEF SaysBegin, Lists
  <2>4. CASE SaysManifestEnd
    <3>1. ~(midx' <= LastFile + 1)
      BY <1>0, <2>4 DEF SaysManifestEnd
    <3> QED
      BY <2>2, <2>4, <3>1, Unlisted DEF SaysManifestEnd
  <2>5. CASE SaysStart \/ SaysUnit \/ SaysFileEnd \/ SaysPushEnd
    <3>1. mpc' \notin Lists
      BY <2>5, Phases DEF SaysStart, SaysUnit, SaysFileEnd, SaysPushEnd, Lists
    <3>2. \E m : Adds(m) /\ m.op \notin Listed
      BY <2>5, Unlisted DEF SaysStart, SaysUnit, SaysFileEnd, SaysPushEnd
    <3> QED
      BY <2>2, <3>1, <3>2
  <2> QED
    BY <1>5, <2>1, <2>3, <2>4, <2>5 DEF MainSays
<1>6. CASE UNCHANGED <<ToWorker, aidx>> /\ (MainHears \/ MainTurns)
  <2>1. mpc' \in Lists => mpc \in Lists /\ midx' = midx
    BY <1>6, Phases DEF MainHears, HearsPlan, HearsPlanEnd, HearsDone, HearsOther,
      MainTurns, Exits, ListsOn, Waits, Skips, Opens, Lists
  <2> QED
    BY <1>4, <1>6, <2>1
<1>7. CASE WorkerMoves /\ UNCHANGED <<mpc, midx>>
  <2>1. GetsBegin \/ GetsMade \/ GetsListed
    BY <1>3, <1>7 DEF WorkerMoves, GetsManifestEnd, GetsStart, GetsUnit, GetsFileEnd, SaysPlan, SaysSigs,
      SaysPlanEnd, Loses, Stops, Drops, GetsPushEnd
  <2>2. CASE GetsBegin
    <3>1. /\ ToWorker # <<>> /\ ToWorker' = Tail(ToWorker) /\ Head(ToWorker) = Msg("PushBegin") /\ aidx' = aidx
      BY <2>2 DEF GetsBegin, Gets
    <3>2. Head(ToWorker).op \notin Listed
      BY <3>1, Unlisted
    <3>3. /\ Listing(Listed, Tail(ToWorker), aidx - 1)
          /\ \A e : NextAt(Listed, ToWorker, aidx - 1, Len(ToWorker) + 1, e) =>
                NextAt(Listed, Tail(ToWorker), aidx - 1, Len(Tail(ToWorker)) + 1, e)
      BY <1>1, <1>4, <3>1, <3>2, ListingTakes
    <3> QED
      BY <1>4, <1>7, <3>1, <3>3
  <2>3. CASE GetsMade \/ GetsListed
    <3>1. apc = "manifest" /\ aidx' = aidx + 1
      BY <2>3 DEF GetsMade, GetsListed
    <3>2. PICK m : Gets(m) /\ m.op \in Listed
      BY <2>3 DEF GetsMade, GetsListed, Listed
    <3>3. /\ Listing(Listed, ToWorker', (aidx + 1) - 1)
          /\ \A e \in Nat : NextAt(Listed, ToWorker, aidx - 1, Len(ToWorker) + 1, e) =>
              NextAt(Listed, ToWorker', (aidx + 1) - 1, Len(ToWorker') + 1, e)
      BY <3>1, <3>2, NextEntry
    <3> QED
      BY <1>1, <1>4, <1>7, <3>1, <3>3
  <2> QED
    BY <2>1, <2>2, <2>3
<1>8. CASE UNCHANGED <<ToWorker, aidx, mpc, midx>>
  BY <1>4, <1>8
<1> QED
  BY <1>5, <1>6, <1>7, <1>8, Moves, Going

----------------------------------------------------------------------------
(* What is in place stays in place while the worker goes on.                 *)
LEMMA NewStays ==
  ASSUME TypeOK, MainMoves \/ WorkerMoves \/ BetweenMoves, NEW e \in Entries, dest[e] = "new",
         apc' # "over" \/ e \in Files
  PROVE  dest'[e] = "new"
<1>0. dest \in [Entries -> {"none", "old", "new", "bad"}] /\ Links \cap Files = {}
  BY TypeParts, Numbering DEF TypeWorker
<1>1. \/ dest' = dest
      \/ \E x : dest' = [dest EXCEPT ![x] = "new"]
      \/ apc' = "over" /\ \E l \in Links : dest' = [dest EXCEPT ![l] = "none"]
  BY DEF MainMoves, BetweenMoves, Cancelled, worker, WorkerMoves, GetsBegin, GetsMade, GetsListed,
    GetsManifestEnd, GetsStart, GetsUnit, GetsFileEnd, SaysPlan, SaysSigs, SaysPlanEnd, Loses, Stops, Drops, GetsPushEnd
<1> QED
  BY <1>0, <1>1

LEMMA DestStep ==
  ASSUME TypeOK, FramesOK, RouteInv, PlaceInv, DestInv, FrameInv, DoneInv, [Next]_vars
  PROVE  DestInv'
<1>0. dest \in [Entries -> {"none", "old", "new", "bad"}] /\ ToWorker \in Seq(UpFrames)
  BY TypeParts, PathTypes DEF TypeWorker, Paths
<1>m. MainMoves \/ WorkerMoves \/ BetweenMoves
  BY Moves
<1>1. \A e \in Entries : dest'[e] # "bad"
  <2>1. \/ dest' = dest
        \/ \E x, v : v \in {"new", "none"} /\ dest' = [dest EXCEPT ![x] = v]
    BY <1>m DEF MainMoves, BetweenMoves, Cancelled, worker, WorkerMoves, GetsBegin, GetsMade, GetsListed,
      GetsManifestEnd, GetsStart, GetsUnit, GetsFileEnd, SaysPlan, SaysSigs, SaysPlanEnd, Loses, Stops, Drops, GetsPushEnd
  <2> QED
    BY <1>0, <2>1 DEF DestInv
<1>2. ASSUME apc' \in Planning \cup {"data"}, NEW e \in Entries \ Files PROVE dest'[e] = "new"
  <2>1. apc' # "over"
    BY <1>2 DEF Planning
  <2>2. dest[e] = "new"
    <3>1. CASE GetsManifestEnd
      <4>1. apc # "over" /\ ToWorker # <<>> /\ Head(ToWorker).op = "ManifestEnd"
        BY <3>1, Unlisted DEF GetsManifestEnd, Gets
      <4> DEFINE E0 == Entries \ Files
      <4>2. DoneBy(Makers, ToWorker, dest, "ManifestEnd", E0)
        BY <4>1 DEF DoneInv
      <4> HIDE DEF E0
      <4>3. \A x \in E0 : dest[x] = "new"
        BY <1>0, <4>1, <4>2, DoneNow
      <4> QED
        BY <4>3 DEF E0
    <3>2. CASE apc \in Planning \cup {"data"}
      BY <3>2 DEF DestInv
    <3>3. GetsManifestEnd \/ apc \in Planning \cup {"data"}
      BY <1>2, <1>m DEF MainMoves, BetweenMoves, Cancelled, worker, WorkerMoves, GetsBegin, GetsMade, GetsListed,
        GetsStart, GetsUnit, GetsFileEnd, SaysPlan, SaysSigs, SaysPlanEnd, Loses, Stops, Drops, GetsPushEnd, Planning
    <3> QED
      BY <3>1, <3>2, <3>3
  <2> QED
    BY <1>m, <2>1, <2>2, NewStays
<1> QED
  BY <1>1, <1>2 DEF DestInv

LEMMA FrameStep ==
  ASSUME TypeOK, FramesOK, RouteInv, PlaceInv, DestInv, FrameInv, [Next]_vars
  PROVE  FrameInv'
<1> SUFFICES ASSUME apc' # "over"
             PROVE  /\ Framing(ToWorker', cur')
                    /\ mpc' = "stream" => Within(ToWorker', Len(ToWorker') + 1, cur', midx')
  BY DEF FrameInv
<1>0. apc # "over" /\ ToWorker \in Seq(UpFrames) /\ Len(ToWorker) \in Nat
  BY Moves, Going, PathTypes, LenProperties DEF Paths
<1>1. /\ Framing(ToWorker, cur)
      /\ mpc = "stream" => Within(ToWorker, Len(ToWorker) + 1, cur, midx)
  BY <1>0 DEF FrameInv
<1>2. CASE MainSays /\ UNCHANGED cur
  <2>1. ASSUME NEW m, Adds(m), m.op = "FileEnd" => Within(ToWorker, Len(ToWorker) + 1, cur, m.f)
        PROVE  /\ Framing(ToWorker', cur')
               /\ m.op \notin Marks /\ Within(ToWorker, Len(ToWorker) + 1, cur, midx) =>
                    Within(ToWorker', Len(ToWorker') + 1, cur', midx)
               /\ m = FileMsg("FileStart", midx) => Within(ToWorker', Len(ToWorker') + 1, cur', midx)
    <3>1. m \in UpFrames /\ ToWorker' = Append(ToWorker, m)
      BY <2>1 DEF Adds
    <3>2. Len(Append(ToWorker, m)) + 1 = Len(ToWorker) + 2
      BY <1>0, <3>1, AheadSends
    <3> QED
      BY <1>0, <1>1, <1>2, <2>1, <3>1, <3>2, FramingSends, WithinSends
  <2>2. CASE SaysStart
    <3>1. Adds(FileMsg("FileStart", midx)) /\ FileMsg("FileStart", midx).op # "FileEnd" /\ midx' = midx
      BY <2>2, Unlisted DEF SaysStart
    <3> QED
      BY <2>1, <3>1
  <2>3. CASE SaysUnit
    <3>1. PICK m : Adds(m) /\ m.op \in {"Data", "Copy"}
      BY <2>3 DEF SaysUnit
    <3>2. m.op # "FileEnd" /\ m.op \notin Marks
      BY <3>1 DEF Marks
    <3> QED
      BY <1>1, <2>1, <2>3, <3>1, <3>2 DEF SaysUnit
  <2>4. CASE SaysFileEnd
    <3>1. /\ Adds(FileMsg("FileEnd", midx)) /\ FileMsg("FileEnd", midx).f = midx
          /\ mpc = "stream" /\ mpc' # "stream"
      BY <2>4, Phases DEF SaysFileEnd, FileMsg
    <3> QED
      BY <1>1, <2>1, <3>1
  <2>5. CASE SaysBegin \/ SaysEntry \/ SaysManifestEnd \/ SaysPushEnd
    <3>1. mpc' # "stream"
      BY <2>5 DEF SaysBegin, SaysEntry, SaysManifestEnd, SaysPushEnd
    <3>2. \E m : Adds(m) /\ m.op # "FileEnd"
      <4>1. "FileEnd" \notin Listed
        BY DEF Listed
      <4> QED
        BY <2>5, <4>1, Unlisted, ManifestOps DEF SaysBegin, SaysEntry, SaysManifestEnd, SaysPushEnd
    <3> QED
      BY <2>1, <3>1, <3>2
  <2> QED
    BY <1>2, <2>2, <2>3, <2>4, <2>5 DEF MainSays
<1>3. CASE UNCHANGED <<ToWorker, cur>> /\ (MainHears \/ MainTurns)
  <2>1. mpc' = "stream" => mpc = "stream" /\ midx' = midx
    BY <1>3, Phases DEF MainHears, HearsPlan, HearsPlanEnd, HearsDone, HearsOther,
      MainTurns, Exits, ListsOn, Waits, Skips, Opens
  <2> QED
    BY <1>1, <1>3, <2>1
<1>4. CASE WorkerMoves /\ UNCHANGED <<mpc, midx>> /\ ~(Loses \/ Stops \/ Drops \/ GetsPushEnd)
  <2>1. ASSUME NEW m, Gets(m),
               \/ m.op \notin Marks /\ cur' = cur
               \/ m.op = "FileEnd"
               \/ m = FileMsg("FileStart", cur')
        PROVE  /\ Framing(ToWorker', cur')
               /\ \A f : Within(ToWorker, Len(ToWorker) + 1, cur, f) => Within(ToWorker', Len(ToWorker') + 1, cur', f)
    BY <1>0, <1>1, <2>1, FramingTakes DEF Gets
  <2>2. CASE GetsBegin \/ GetsMade \/ GetsListed \/ GetsManifestEnd \/ GetsUnit
    <3>1. cur' = cur
      BY <2>2 DEF GetsBegin, GetsMade, GetsListed, GetsManifestEnd, GetsUnit
    <3>2. \E m : Gets(m) /\ m.op \notin Marks
      <4>1. \A op \in Listed \cup {"FileBegin", "Data", "Copy"} : op \notin Marks
        BY DEF Listed, Marks
      <4> QED
        BY <2>2, <4>1, Unlisted DEF GetsBegin, GetsMade, GetsListed, GetsManifestEnd, GetsUnit
    <3> QED
      BY <1>1, <1>4, <2>1, <3>1, <3>2
  <2>3. CASE GetsStart
    BY <1>1, <1>4, <2>1, <2>3 DEF GetsStart
  <2>4. CASE GetsFileEnd
    <3>1. Gets(FileMsg("FileEnd", cur)) /\ FileMsg("FileEnd", cur).op = "FileEnd"
      BY <2>4, Unlisted DEF GetsFileEnd
    <3> QED
      BY <1>1, <1>4, <2>1, <3>1
  <2>5. CASE SaysPlan \/ SaysSigs \/ SaysPlanEnd
    BY <1>1, <1>4, <2>5 DEF SaysPlan, SaysSigs, SaysPlanEnd
  <2> QED
    BY <1>4, <2>2, <2>3, <2>4, <2>5 DEF WorkerMoves
<1>5. CASE UNCHANGED <<ToWorker, cur, mpc, midx>>
  BY <1>1, <1>5
<1> QED
  BY <1>2, <1>3, <1>4, <1>5, Moves, Going

LEMMA DoneStep ==
  ASSUME TypeOK, FramesOK, RouteInv, PlaceInv, DestInv, FrameInv, SkipInv, DoneInv, [Next]_vars
  PROVE  DoneInv'
<1> DEFINE Made(q, d, k) == \A e \in Entries \ Files : e < k => DoneAt(Makers, q, d, Len(q) + 1, e)
           Streamed(q, d, k) == \A f \in Files : f < k => DoneAt(Makers, q, d, Len(q) + 1, f)
           Vouched(q, d) == /\ DoneBy(Makers, q, d, "ManifestEnd", Entries \ Files)
                            /\ DoneBy(Makers, q, d, "PushEnd", Files)
<1> SUFFICES ASSUME apc' # "over"
             PROVE  /\ Vouched(ToWorker', dest')
                    /\ mpc' \in Lists => Made(ToWorker', dest', midx')
                    /\ mpc' \in Streaming => Streamed(ToWorker', dest', midx')
  BY DEF DoneInv
<1>0. apc # "over" /\ ToWorker \in Seq(UpFrames) /\ Len(ToWorker) \in Nat
  BY Moves, Going, PathTypes, LenProperties DEF Paths
<1>1. /\ Vouched(ToWorker, dest)
      /\ mpc \in Lists => Made(ToWorker, dest, midx)
      /\ mpc \in Streaming => Streamed(ToWorker, dest, midx)
  BY <1>0 DEF DoneInv
<1>2. /\ Files = FirstFile..LastFile /\ FirstFile \in Nat \ {0} /\ LastFile \in Nat
      /\ Files \subseteq Entries /\ Entries = 1..LastFile /\ midx \in 1..LastFile + 2
      /\ dest \in [Entries -> {"none", "old", "new", "bad"}]
  BY Numbering, TypeParts DEF TypeMain, TypeWorker
<1> HIDE DEF Made, Streamed, Vouched
(* after a send *)
<1>3. ASSUME NEW m, Adds(m), UNCHANGED dest,
             m.op = "ManifestEnd" => \A e \in Entries \ Files : DoneAt(Makers, ToWorker, dest, Len(ToWorker) + 1, e),
             m.op = "PushEnd" => \A e \in Files : DoneAt(Makers, ToWorker, dest, Len(ToWorker) + 1, e)
      PROVE  /\ Vouched(ToWorker', dest')
             /\ \A k : Made(ToWorker, dest, k) => Made(ToWorker', dest', k)
             /\ \A k : Streamed(ToWorker, dest, k) => Streamed(ToWorker', dest', k)
             /\ \A e : m = Makers[e] => DoneAt(Makers, ToWorker', dest', Len(ToWorker') + 1, e)
  <2>1. m \in UpFrames /\ ToWorker' = Append(ToWorker, m)
    BY <1>3 DEF Adds
  <2>2. Len(Append(ToWorker, m)) + 1 = Len(ToWorker) + 2
    BY <1>0, <2>1, AheadSends
  <2>3. DoneBy(Makers, ToWorker, dest, "ManifestEnd", Entries \ Files) /\ DoneBy(Makers, ToWorker, dest, "PushEnd", Files)
    BY <1>1 DEF Vouched
  <2>4. DoneBy(Makers, Append(ToWorker, m), dest, "ManifestEnd", Entries \ Files)
    <3> DEFINE E0 == Entries \ Files
    <3>1. /\ DoneBy(Makers, ToWorker, dest, "ManifestEnd", E0)
          /\ m.op = "ManifestEnd" => \A e \in E0 : DoneAt(Makers, ToWorker, dest, Len(ToWorker) + 1, e)
      BY <1>3, <2>3
    <3> HIDE DEF E0
    <3>2. DoneBy(Makers, Append(ToWorker, m), dest, "ManifestEnd", E0)
      BY <1>0, <2>1, <3>1, DoneSends
    <3> QED
      BY <3>2 DEF E0
  <2>5. /\ DoneBy(Makers, Append(ToWorker, m), dest, "PushEnd", Files)
        /\ \A e : DoneAt(Makers, ToWorker, dest, Len(ToWorker) + 1, e) =>
                  DoneAt(Makers, Append(ToWorker, m), dest, Len(ToWorker) + 2, e)
        /\ \A e : m = Makers[e] => DoneAt(Makers, Append(ToWorker, m), dest, Len(ToWorker) + 2, e)
    BY <1>0, <1>3, <2>1, <2>3, DoneSends
  <2>6. Vouched(ToWorker', dest')
    BY <1>3, <2>1, <2>4, <2>5 DEF Vouched
  <2>7. /\ \A e : DoneAt(Makers, ToWorker, dest, Len(ToWorker) + 1, e) =>
                  DoneAt(Makers, ToWorker', dest', Len(ToWorker') + 1, e)
        /\ \A e : m = Makers[e] => DoneAt(Makers, ToWorker', dest', Len(ToWorker') + 1, e)
    BY <1>3, <2>1, <2>2, <2>5
  <2> QED
    BY <2>6, <2>7 DEF Made, Streamed
(* after a receive *)
<1>4. ASSUME NEW m, Gets(m), UNCHANGED <<mpc, midx>>,
             \A e \in Entries : dest[e] = "new" \/ m = Makers[e] => dest'[e] = "new"
      PROVE  /\ Vouched(ToWorker', dest')
             /\ mpc' \in Lists => Made(ToWorker', dest', midx')
             /\ mpc' \in Streaming => Streamed(ToWorker', dest', midx')
  <2>1. ToWorker # <<>> /\ ToWorker' = Tail(ToWorker) /\ m = Head(ToWorker)
    BY <1>4 DEF Gets
  <2>2. DoneBy(Makers, ToWorker, dest, "ManifestEnd", Entries \ Files) /\ DoneBy(Makers, ToWorker, dest, "PushEnd", Files)
    BY <1>1 DEF Vouched
  <2>3. DoneBy(Makers, Tail(ToWorker), dest', "ManifestEnd", Entries \ Files)
    <3> DEFINE E0 == Entries \ Files
    <3>1. E0 \in SUBSET Entries /\ DoneBy(Makers, ToWorker, dest, "ManifestEnd", E0)
      BY <2>2
    <3> HIDE DEF E0
    <3>2. DoneBy(Makers, Tail(ToWorker), dest', "ManifestEnd", E0)
      BY <1>0, <1>4, <2>1, <3>1, DoneTakes
    <3> QED
      BY <3>2 DEF E0
  <2>4. /\ DoneBy(Makers, Tail(ToWorker), dest', "PushEnd", Files)
        /\ \A e \in Entries : DoneAt(Makers, ToWorker, dest, Len(ToWorker) + 1, e) =>
                  DoneAt(Makers, Tail(ToWorker), dest', Len(Tail(ToWorker)) + 1, e)
    <3>1. Files \in SUBSET Entries
      BY <1>2
    <3> QED
      BY <1>0, <1>4, <2>1, <2>2, <3>1, DoneTakes
  <2>5. Vouched(ToWorker', dest')
    BY <2>1, <2>3, <2>4 DEF Vouched
  <2>6. \A e \in Entries : DoneAt(Makers, ToWorker, dest, Len(ToWorker) + 1, e) =>
                           DoneAt(Makers, ToWorker', dest', Len(ToWorker') + 1, e)
    BY <2>1, <2>4
  <2>7. /\ \A k : Made(ToWorker, dest, k) => Made(ToWorker', dest', k)
        /\ \A k : Streamed(ToWorker, dest, k) => Streamed(ToWorker', dest', k)
    BY <1>2, <2>6 DEF Made, Streamed
  <2> QED
    BY <1>1, <1>4, <2>5, <2>7
<1>5. CASE MainSays /\ UNCHANGED dest
  <2>1. CASE SaysBegin
    <3>1. /\ Adds(Msg("PushBegin")) /\ midx' = midx /\ mpc \in Lists /\ mpc' \in Lists /\ mpc' \notin Streaming
          /\ Msg("PushBegin").op \notin {"ManifestEnd", "PushEnd"}
      BY <2>1, Unlisted DEF SaysBegin, Lists, Streaming
    <3> QED
      BY <1>1, <1>3, <1>5, <3>1
  <2>2. CASE SaysEntry
    <3> DEFINE m == FileMsg(ManifestOp(midx), midx)
    <3>1. Adds(m) /\ midx \in Entries /\ midx' = midx + 1 /\ mpc \in Lists /\ mpc' \notin Streaming
      BY <2>2 DEF SaysEntry, Lists, Streaming
    <3>2. m.op \notin {"ManifestEnd", "PushEnd"} /\ (midx \notin Files => m = Makers[midx])
      BY <3>1, ManifestOps DEF Listed
    <3> HIDE DEF m
    <3>3. /\ Vouched(ToWorker', dest') /\ Made(ToWorker', dest', midx)
          /\ midx \notin Files => DoneAt(Makers, ToWorker', dest', Len(ToWorker') + 1, midx)
      BY <1>1, <1>3, <1>5, <3>1, <3>2
    <3>4. Made(ToWorker', dest', midx + 1)
      <4>1. \A e \in Entries : e < midx + 1 => e < midx \/ e = midx
        BY <1>2
      <4> QED
        BY <3>3, <4>1 DEF Made
    <3> QED
      BY <3>1, <3>3, <3>4
  <2>3. CASE SaysManifestEnd
    <3>1. /\ Adds(Msg("ManifestEnd")) /\ midx = LastFile + 1 /\ midx' = midx + 1 /\ mpc \in Lists /\ mpc' \notin Streaming
          /\ Msg("ManifestEnd").op # "PushEnd"
      BY <2>3, Unlisted DEF SaysManifestEnd, Lists, Streaming
    <3>2. \A e \in Entries \ Files : e < midx /\ DoneAt(Makers, ToWorker, dest, Len(ToWorker) + 1, e)
      BY <1>1, <1>2, <3>1 DEF Made
    <3>3. Vouched(ToWorker', dest') /\ Made(ToWorker', dest', midx)
      BY <1>1, <1>3, <1>5, <3>1, <3>2
    <3>4. Made(ToWorker', dest', midx + 1)
      BY <3>2, <3>3 DEF Made
    <3> QED
      BY <3>1, <3>3, <3>4
  <2>4. CASE SaysStart \/ SaysUnit
    <3>1. /\ \E m : Adds(m) /\ m.op \notin {"ManifestEnd", "PushEnd"}
          /\ midx' = midx /\ mpc \in Streaming /\ mpc' \notin Lists
      BY <2>4, Unlisted DEF SaysStart, SaysUnit, Lists, Streaming
    <3> QED
      BY <1>1, <1>3, <1>5, <3>1
  <2>5. CASE SaysFileEnd
    <3>1. /\ Adds(FileMsg("FileEnd", midx)) /\ midx \in Files /\ midx' = midx + 1 /\ mpc \in Streaming /\ mpc' \notin Lists
          /\ FileMsg("FileEnd", midx).op \notin {"ManifestEnd", "PushEnd"}
      BY <2>5, Phases, Unlisted DEF SaysFileEnd, Lists, Streaming
    <3>2. FileMsg("FileEnd", midx) = Makers[midx]
      BY <1>2, <3>1, ManifestOps
    <3>3. /\ Vouched(ToWorker', dest') /\ Streamed(ToWorker', dest', midx)
          /\ DoneAt(Makers, ToWorker', dest', Len(ToWorker') + 1, midx)
      BY <1>1, <1>3, <1>5, <3>1, <3>2
    <3>4. Streamed(ToWorker', dest', midx + 1)
      <4>1. \A f \in Files : f < midx + 1 => f < midx \/ f = midx
        BY <1>2
      <4> QED
        BY <3>3, <4>1 DEF Streamed
    <3> QED
      BY <3>1, <3>3, <3>4
  <2>6. CASE SaysPushEnd
    <3>1. /\ Adds(Msg("PushEnd")) /\ midx = LastFile + 1 /\ mpc \in Streaming /\ mpc' \notin Lists \cup Streaming
          /\ Msg("PushEnd").op # "ManifestEnd"
      BY <2>6, Unlisted DEF SaysPushEnd, Lists, Streaming
    <3>2. \A f \in Files : f < midx /\ DoneAt(Makers, ToWorker, dest, Len(ToWorker) + 1, f)
      BY <1>1, <1>2, <3>1 DEF Streamed
    <3> QED
      BY <1>3, <1>5, <3>1, <3>2
  <2> QED
    BY <1>5, <2>1, <2>2, <2>3, <2>4, <2>5, <2>6 DEF MainSays
<1>6. CASE UNCHANGED <<ToWorker, dest>> /\ (MainHears \/ MainTurns)
  <2>1. mpc' \in Lists => mpc \in Lists /\ midx' = midx
    BY <1>6, Phases DEF MainHears, HearsPlan, HearsPlanEnd, HearsDone, HearsOther,
      MainTurns, Exits, ListsOn, Waits, Skips, Opens, Lists
  <2>2. CASE HearsPlanEnd
    <3>1. midx = FirstFile /\ midx' = midx
      BY <2>2 DEF HearsPlanEnd, PlaceInv
    <3>2. Streamed(ToWorker, dest, midx)
      <4>1. \A f \in Files : ~(f < FirstFile)
        BY <1>2
      <4> QED
        BY <3>1, <4>1 DEF Streamed
    <3> QED
      BY <1>1, <1>6, <2>1, <3>1, <3>2
  <2>3. CASE Skips
    <3>1. midx \in Files /\ midx' = midx + 1 /\ mpc \in Streaming /\ dest[midx] = "new"
      BY <2>3 DEF Skips, SkipInv, Streaming
    <3>2. Streamed(ToWorker, dest, midx + 1)
      <4>1. \A f \in Files : f < midx + 1 => f < midx \/ f = midx
        BY <1>2
      <4> QED
        BY <1>1, <3>1, <4>1 DEF Streamed, DoneAt
    <3> QED
      BY <1>1, <1>6, <2>1, <3>1, <3>2
  <2>4. CASE ~(HearsPlanEnd \/ Skips)
    <3>1. mpc' \in Streaming => mpc \in Streaming /\ midx' = midx
      BY <1>6, <2>4 DEF MainHears, HearsPlan, HearsDone, HearsOther,
        MainTurns, Exits, ListsOn, Waits, Opens, Streaming
    <3> QED
      BY <1>1, <1>6, <2>1, <3>1
  <2> QED
    BY <2>2, <2>3, <2>4
<1>7. CASE WorkerMoves /\ UNCHANGED <<mpc, midx>> /\ ~(Loses \/ Stops \/ Drops \/ GetsPushEnd)
  <2>1. CASE GetsMade
    <3>1. PICK e \in Entries \ Files : Gets(Makers[e]) /\ dest' = [dest EXCEPT ![e] = "new"]
      BY <2>1 DEF GetsMade
    <3>2. \A x \in Entries : Makers[e] = Makers[x] => x = e
      BY ManifestOps DEF Makers, FileMsg
    <3>3. \A x \in Entries : dest[x] = "new" \/ Makers[e] = Makers[x] => dest'[x] = "new"
      BY <1>2, <3>1, <3>2
    <3> QED
      BY <1>4, <1>7, <3>1, <3>3
  <2>2. CASE GetsFileEnd
    <3>1. cur \in Files /\ Gets(FileMsg("FileEnd", cur)) /\ dest' = [dest EXCEPT ![cur] = "new"]
      BY <2>2 DEF GetsFileEnd
    <3>2. \A x \in Entries : FileMsg("FileEnd", cur) = Makers[x] => x = cur
      BY DEF Makers, FileMsg
    <3>3. \A x \in Entries : dest[x] = "new" \/ FileMsg("FileEnd", cur) = Makers[x] => dest'[x] = "new"
      BY <1>2, <3>1, <3>2
    <3> QED
      BY <1>4, <1>7, <3>1, <3>3
  <2>3. CASE GetsBegin \/ GetsListed \/ GetsManifestEnd \/ GetsStart \/ GetsUnit
    <3>1. dest' = dest
      BY <2>3 DEF GetsBegin, GetsListed, GetsManifestEnd, GetsStart, GetsUnit
    <3>2. PICK m : Gets(m) /\ \A e \in Entries : m # Makers[e]
      BY <2>3, Unlisted DEF GetsBegin, GetsListed, GetsManifestEnd, GetsStart, GetsUnit
    <3>3. \A e \in Entries : dest[e] = "new" \/ m = Makers[e] => dest'[e] = "new"
      BY <3>1, <3>2
    <3> QED
      BY <1>4, <1>7, <3>2, <3>3
  <2>4. CASE SaysPlan \/ SaysSigs \/ SaysPlanEnd
    BY <1>1, <1>7, <2>4 DEF SaysPlan, SaysSigs, SaysPlanEnd
  <2> QED
    BY <1>7, <2>1, <2>2, <2>3, <2>4 DEF WorkerMoves
<1>8. CASE UNCHANGED <<ToWorker, dest, mpc, midx>>
  BY <1>1, <1>8
<1> QED
  BY <1>5, <1>6, <1>7, <1>8, Moves, Going

----------------------------------------------------------------------------
(* What the agent says, and where the frames on the way to the controller    *)
(* come from.                                                                *)
Spoken(m) ==
  \/ m.op \in {"Error", "PushReady", "FileSigs"}
  \/ m.op = "FilePlan" /\ m.f \in Files /\ (m.plan = "skip" => dest[m.f] = "new")
  \/ m.op = "PlanEnd" /\ apc' = "data"
  \/ m.op = "TransferDone" /\ GetsPushEnd

LEMMA Spoke ==
  ASSUME MainMoves \/ WorkerMoves \/ BetweenMoves
  PROVE  \/ ToCtrl' = ToCtrl \/ ToCtrl' = <<>>
         \/ \E m : Hears(m)
         \/ \E m : Says(m) /\ Spoken(m)
<1>m. /\ \A op : Msg(op).op = op
      /\ \A f, p : LET m == [op |-> "FilePlan", f |-> f, plan |-> p]
                   IN  m.op = "FilePlan" /\ m.f = f /\ m.plan = p
  BY DEF Msg
<1>1. CASE MainMoves
  BY <1>1 DEF MainMoves, MainSays, MainHears, HearsPlan, HearsPlanEnd, HearsDone, HearsOther, MainTurns
<1>2. CASE BetweenMoves
  BY <1>2, <1>m DEF BetweenMoves, Spoken
<1>3. CASE WorkerMoves
  <2>1. CASE GetsMade \/ GetsListed \/ GetsManifestEnd \/ GetsStart \/ GetsUnit \/ GetsFileEnd \/ Drops
    BY <2>1 DEF GetsMade, GetsListed, GetsManifestEnd, GetsStart, GetsUnit, GetsFileEnd, Drops
  <2>2. CASE GetsBegin \/ Loses \/ Stops \/ SaysSigs
    BY <1>m, <2>2 DEF GetsBegin, Loses, Stops, SaysSigs, Spoken
  <2>3. CASE SaysPlan
    BY <1>m, <2>3 DEF SaysPlan, Spoken
  <2>4. CASE SaysPlanEnd
    BY <1>m, <2>4 DEF SaysPlanEnd, Spoken
  <2>5. CASE GetsPushEnd
    <3>1. Says(Msg("TransferDone"))
      BY <2>5 DEF GetsPushEnd
    <3> QED
      BY <1>m, <2>5, <3>1 DEF Spoken
  <2> QED
    BY <1>3, <2>1, <2>2, <2>3, <2>4, <2>5 DEF WorkerMoves
<1> QED
  BY <1>1, <1>2, <1>3

LEMMA CtrlFrames ==
  ASSUME TypeOK, MainMoves \/ WorkerMoves \/ BetweenMoves, NEW i \in 1..Len(ToCtrl')
  PROVE  (\E j \in 1..Len(ToCtrl) : ToCtrl[j] = ToCtrl'[i]) \/ Spoken(ToCtrl'[i])
<1>0. ToCtrl \in Seq(DownFrames) /\ Len(ToCtrl) \in Nat
  BY PathTypes, LenProperties DEF Paths
<1>1. CASE ToCtrl' = ToCtrl
  BY <1>1
<1>2. CASE ToCtrl' = <<>>
  BY <1>2, EmptySeq
<1>3. ASSUME NEW m, Hears(m) PROVE \E j \in 1..Len(ToCtrl) : ToCtrl[j] = ToCtrl'[i]
  <2>1. ToCtrl # <<>> /\ ToCtrl' = Tail(ToCtrl)
    BY <1>3 DEF Hears
  <2>2. /\ Len(Tail(ToCtrl)) = Len(ToCtrl) - 1 /\ Len(ToCtrl) \in Nat \ {0}
        /\ \A k \in 1..Len(Tail(ToCtrl)) : Tail(ToCtrl)[k] = ToCtrl[k + 1]
    BY <1>0, <2>1, HeadAndTail
  <2>3. i + 1 \in 1..Len(ToCtrl) /\ ToCtrl'[i] = ToCtrl[i + 1]
    BY <2>1, <2>2
  <2> QED
    BY <2>3
<1>4. ASSUME NEW m, Says(m), Spoken(m)
      PROVE  (\E j \in 1..Len(ToCtrl) : ToCtrl[j] = ToCtrl'[i]) \/ Spoken(ToCtrl'[i])
  <2>1. m \in DownFrames /\ ToCtrl' = Append(ToCtrl, m)
    BY <1>4 DEF Says
  <2>2. /\ Len(Append(ToCtrl, m)) = Len(ToCtrl) + 1
        /\ Append(ToCtrl, m)[Len(ToCtrl) + 1] = m
        /\ \A k \in 1..Len(ToCtrl) : Append(ToCtrl, m)[k] = ToCtrl[k]
    BY <1>0, <2>1, AheadSends
  <2>3. i \in 1..Len(ToCtrl) \/ i = Len(ToCtrl) + 1
    BY <1>0, <2>1, <2>2
  <2>4. (i \in 1..Len(ToCtrl) /\ ToCtrl[i] = ToCtrl'[i]) \/ ToCtrl'[i] = m
    BY <2>1, <2>2, <2>3
  <2> QED
    BY <1>4, <2>4
<1> QED
  BY <1>1, <1>2, <1>3, <1>4, Spoke

LEMMA SkipStep ==
  ASSUME TypeOK, FramesOK, RouteInv, PlaceInv, DestInv, FrameInv, SkipInv, [Next]_vars
  PROVE  SkipInv'
<1>m. MainMoves \/ WorkerMoves \/ BetweenMoves
  BY Moves
<1>0. /\ Paths /\ plans \in [Files -> Plans] /\ Files \subseteq Entries
      /\ \A f \in Files : dest[f] = "new" => dest'[f] = "new"
  BY <1>m, PathTypes, TypeParts, Numbering, NewStays DEF TypeMain
<1>1. ASSUME NEW i \in 1..Len(ToCtrl'), ToCtrl'[i].op = "FilePlan", ToCtrl'[i].plan = "skip"
      PROVE  dest'[ToCtrl'[i].f] = "new"
  <2>1. CASE Spoken(ToCtrl'[i])
    <3>1. ToCtrl'[i].f \in Files /\ dest[ToCtrl'[i].f] = "new"
      BY <1>1, <2>1 DEF Spoken
    <3> QED
      BY <1>0, <3>1
  <2>2. ASSUME NEW j \in 1..Len(ToCtrl), ToCtrl[j] = ToCtrl'[i] PROVE dest'[ToCtrl'[i].f] = "new"
    <3>1. ToCtrl[j].f \in Files
      BY <1>0, <1>1, <2>2, DownFields
    <3>2. dest[ToCtrl[j].f] = "new"
      BY <1>1, <2>2 DEF SkipInv
    <3> QED
      BY <1>0, <2>2, <3>1, <3>2
  <2> QED
    BY <1>m, <2>1, <2>2, CtrlFrames
<1>2. ASSUME NEW f \in Files, plans'[f] = "skip" PROVE dest'[f] = "new"
  <2>1. CASE plans' = plans
    BY <1>0, <1>2, <2>1 DEF SkipInv
  <2>2. CASE HearsPlan
    <3>1. PICK m : Hears(m) /\ m.op = "FilePlan" /\ plans' = [plans EXCEPT ![m.f] = m.plan]
      BY <2>2 DEF HearsPlan
    <3>2. m = ToCtrl[1] /\ 1 \in 1..Len(ToCtrl)
      BY <3>1 DEF Hears
    <3>3. m.plan = "skip" => dest[m.f] = "new"
      BY <3>1, <3>2 DEF SkipInv
    <3>4. plans[f] = "skip" \/ (f = m.f /\ m.plan = "skip")
      BY <1>0, <1>2, <3>1
    <3> QED
      BY <1>0, <3>3, <3>4 DEF SkipInv
  <2>3. plans' = plans \/ HearsPlan
    BY <1>m DEF MainMoves, MainSays, MainHears, HearsPlanEnd, HearsDone, HearsOther, MainTurns,
      WorkerMoves, BetweenMoves, main
  <2> QED
    BY <2>1, <2>2, <2>3
<1> QED
  BY <1>1, <1>2 DEF SkipInv

(* An agent that sends data stays at it until it is over, and over is final. *)
LEMMA Onwards ==
  ASSUME MainMoves \/ WorkerMoves \/ BetweenMoves
  PROVE  /\ apc \in {"data", "over"} => apc' \in {"data", "over"}
         /\ apc = "over" => apc' = "over" /\ dest' = dest
BY DEF MainMoves, BetweenMoves, Cancelled, worker, WorkerMoves, GetsBegin, GetsMade, GetsListed,
  GetsManifestEnd, GetsStart, GetsUnit, GetsFileEnd, SaysPlan, SaysSigs, SaysPlanEnd, Loses, Stops, Drops, GetsPushEnd

(* A path holds what it held or what was just sent. *)
LEMMA HoldsKept ==
  ASSUME NEW S, NEW q \in Seq(S), NEW op
  PROVE  /\ q # <<>> => (Holds(Tail(q), op) => Holds(q, op))
         /\ \A m \in S : Holds(Append(q, m), op) => Holds(q, op) \/ m.op = op
<1>1. ASSUME q # <<>>, Holds(Tail(q), op) PROVE Holds(q, op)
  <2>1. /\ Len(Tail(q)) = Len(q) - 1 /\ Len(q) \in Nat \ {0}
        /\ \A i \in 1..Len(Tail(q)) : Tail(q)[i] = q[i + 1]
    BY <1>1, HeadAndTail
  <2>2. PICK i \in 1..Len(Tail(q)) : Tail(q)[i].op = op
    BY <1>1 DEF Holds
  <2>3. i + 1 \in 1..Len(q) /\ q[i + 1].op = op
    BY <2>1, <2>2
  <2> QED
    BY <2>3 DEF Holds
<1>2. ASSUME NEW m \in S, Holds(Append(q, m), op) PROVE Holds(q, op) \/ m.op = op
  <2>1. /\ Len(Append(q, m)) = Len(q) + 1 /\ Len(q) \in Nat
        /\ Append(q, m)[Len(q) + 1] = m
        /\ \A i \in 1..Len(q) : Append(q, m)[i] = q[i]
    BY AheadSends
  <2>2. PICK i \in 1..Len(Append(q, m)) : Append(q, m)[i].op = op
    BY <1>2 DEF Holds
  <2>3. i \in 1..Len(q) \/ i = Len(q) + 1
    BY <2>1
  <2> QED
    BY <2>1, <2>2, <2>3 DEF Holds
<1> QED
  BY <1>1, <1>2

LEMMA PhaseStep ==
  ASSUME TypeOK, FramesOK, RouteInv, PlaceInv, DestInv, FrameInv, PhaseInv, [Next]_vars
  PROVE  PhaseInv'
<1> DEFINE Past(q, a) == Holds(q, "ManifestEnd") \/ a \in Planning \cup {"data"}
           Left(p, i) == p \notin {"begin", "ready", "manifest"} /\ (p = "mfeedback" => i = LastFile + 2)
<1>m. MainMoves \/ WorkerMoves \/ BetweenMoves
  BY Moves
<1>0. ToWorker \in Seq(UpFrames) /\ LastFile \in Nat
  BY PathTypes, Numbering DEF Paths
<1>1. ASSUME apc' # "over", Past(ToWorker', apc') PROVE Left(mpc', midx')
  <2>1. apc # "over" /\ (Past(ToWorker, apc) => Left(mpc, midx))
    BY <1>m, <1>1, Going DEF PhaseInv
  <2> HIDE DEF Past
  <2>2. CASE MainSays /\ UNCHANGED apc
    <3>1. CASE SaysManifestEnd
      <4>1. mpc' = "mfeedback" /\ midx' = LastFile + 2
        BY <1>0, <3>1 DEF SaysManifestEnd
      <4> QED
        BY <4>1
    <3>2. CASE ~SaysManifestEnd
      <4>1. PICK m : Adds(m) /\ m.op # "ManifestEnd"
        <5>1. \A e \in Entries : FileMsg(ManifestOp(e), e).op # "ManifestEnd"
          BY ManifestOps DEF Listed
        <5>2. Msg("PushBegin").op # "ManifestEnd" /\ Msg("PushEnd").op # "ManifestEnd"
          BY DEF Msg
        <5>3. \A f : FileMsg("FileStart", f).op # "ManifestEnd" /\ FileMsg("FileEnd", f).op # "ManifestEnd"
          BY DEF FileMsg
        <5> QED
          BY <2>2, <3>2, <5>1, <5>2, <5>3
          DEF MainSays, SaysBegin, SaysEntry, SaysStart, SaysUnit, SaysFileEnd, SaysPushEnd
      <4>2. m \in UpFrames /\ ToWorker' = Append(ToWorker, m)
        BY <4>1 DEF Adds
      <4>3. Holds(Append(ToWorker, m), "ManifestEnd") => Holds(ToWorker, "ManifestEnd")
        BY <1>0, <4>1, <4>2, HoldsKept
      <4>4. Past(ToWorker, apc)
        BY <1>1, <2>2, <4>2, <4>3 DEF Past
      <4>5. mpc' \in Streaming \cup {"done"}
        BY <2>1, <2>2, <3>2, <4>4, Phases
        DEF MainSays, SaysBegin, SaysEntry, SaysStart, SaysUnit, SaysFileEnd, SaysPushEnd, Streaming
      <4> QED
        BY <4>5 DEF Streaming
    <3> QED
      BY <3>1, <3>2
  <2>3. CASE UNCHANGED <<ToWorker, apc>> /\ (MainHears \/ MainTurns)
    <3>1. Left(mpc, midx)
      BY <1>1, <2>1, <2>3
    <3>2. ~ListsOn
      BY <1>0, <3>1 DEF ListsOn
    <3> QED
      BY <2>3, <3>1, <3>2, Phases DEF MainHears, HearsPlan, HearsPlanEnd, HearsDone, HearsOther,
        MainTurns, Exits, Waits, Skips, Opens
  <2>4. CASE WorkerMoves /\ UNCHANGED <<mpc, midx>> /\ ~(Loses \/ Stops \/ Drops \/ GetsPushEnd)
    <3>1. Holds(ToWorker', "ManifestEnd") => Holds(ToWorker, "ManifestEnd")
      <4>1. ASSUME NEW m, Gets(m) PROVE Holds(ToWorker', "ManifestEnd") => Holds(ToWorker, "ManifestEnd")
        <5>1. ToWorker # <<>> /\ ToWorker' = Tail(ToWorker)
          BY <4>1 DEF Gets
        <5> QED
          BY <1>0, <5>1, HoldsKept
      <4>2. ToWorker' = ToWorker \/ \E m : Gets(m)
        BY <1>1, <2>4, Got
      <4> QED
        BY <4>1, <4>2
    <3>2. GetsManifestEnd => Holds(ToWorker, "ManifestEnd")
      <4>1. ASSUME Gets(Msg("ManifestEnd")) PROVE Holds(ToWorker, "ManifestEnd")
        <5>1. 1 \in 1..Len(ToWorker) /\ ToWorker[1].op = "ManifestEnd"
          BY <4>1 DEF Gets, Msg
        <5> QED
          BY <5>1 DEF Holds
      <4> QED
        BY <4>1 DEF GetsManifestEnd
    <3>3. apc' \in Planning \cup {"data"} => apc \in Planning \cup {"data"} \/ GetsManifestEnd
      BY <2>4 DEF WorkerMoves, GetsBegin, GetsMade, GetsListed, GetsStart, GetsUnit,
        GetsFileEnd, SaysPlan, SaysSigs, SaysPlanEnd, Planning
    <3> QED
      BY <1>1, <2>1, <2>4, <3>1, <3>2, <3>3 DEF Past
  <2>5. CASE UNCHANGED <<ToWorker, apc, mpc, midx>>
    BY <1>1, <2>1, <2>5
  <2> QED
    BY <1>1, <1>m, <2>2, <2>3, <2>4, <2>5, Going
<1>2. ASSUME Holds(ToCtrl', "PlanEnd") \/ mpc' \in Streaming \cup {"done"} PROVE apc' \in {"data", "over"}
  <2>1. Holds(ToCtrl, "PlanEnd") \/ mpc \in Streaming \cup {"done"} => apc' \in {"data", "over"}
    BY <1>m, Onwards DEF PhaseInv
  <2>2. CASE Holds(ToCtrl', "PlanEnd")
    <3>1. PICK i \in 1..Len(ToCtrl') : ToCtrl'[i].op = "PlanEnd"
      BY <2>2 DEF Holds
    <3>2. Spoken(ToCtrl'[i]) => apc' = "data"
      BY <3>1 DEF Spoken
    <3>3. (\E j \in 1..Len(ToCtrl) : ToCtrl[j] = ToCtrl'[i]) => Holds(ToCtrl, "PlanEnd")
      BY <3>1 DEF Holds
    <3> QED
      BY <1>m, <2>1, <3>2, <3>3, CtrlFrames
  <2>3. CASE mpc' \in Streaming \cup {"done"}
    <3>1. HearsPlanEnd => Holds(ToCtrl, "PlanEnd")
      BY DEF HearsPlanEnd, Hears, Holds
    <3>2. mpc \in Streaming \cup {"done"} \/ HearsPlanEnd
      BY <1>m, <2>3 DEF MainMoves, MainSays, SaysBegin, SaysEntry, SaysManifestEnd, SaysStart, SaysUnit, SaysFileEnd,
        SaysPushEnd, MainHears, HearsPlan, HearsDone, HearsOther, MainTurns, Exits, ListsOn, Waits, Skips, Opens,
        WorkerMoves, BetweenMoves, main, Streaming
    <3> QED
      BY <2>1, <3>1, <3>2
  <2> QED
    BY <1>2, <2>2, <2>3
<1> QED
  BY <1>1, <1>2 DEF PhaseInv

LEMMA VerdictStep ==
  ASSUME TypeOK, FramesOK, RouteInv, PlaceInv, DestInv, DoneInv, FrameInv, VerdictInv, [Next]_vars
  PROVE  VerdictInv'
<1>m. MainMoves \/ WorkerMoves \/ BetweenMoves
  BY Moves
<1>1. ASSUME Holds(ToCtrl', "TransferDone") PROVE apc' = "over" /\ \A e \in Entries : dest'[e] = "new"
  <2>1. PICK i \in 1..Len(ToCtrl') : ToCtrl'[i].op = "TransferDone"
    BY <1>1 DEF Holds
  <2>2. CASE \E j \in 1..Len(ToCtrl) : ToCtrl[j] = ToCtrl'[i]
    <3>1. Holds(ToCtrl, "TransferDone")
      BY <2>1, <2>2 DEF Holds
    <3> QED
      BY <1>m, <3>1, Onwards DEF VerdictInv
  <2>3. CASE GetsPushEnd
    <3>1. apc = "data" /\ apc' = "over" /\ dest' = dest /\ Gets(Msg("PushEnd"))
      BY <2>3 DEF GetsPushEnd
    <3>2. ToWorker \in Seq(UpFrames) /\ ToWorker # <<>> /\ Head(ToWorker).op = "PushEnd"
      BY <3>1, PathTypes DEF Paths, Gets, Msg
    <3>3. DoneBy(Makers, ToWorker, dest, "PushEnd", Files)
      BY <3>1 DEF DoneInv
    <3>4. \A f \in Files : dest[f] = "new"
      BY <3>2, <3>3, DoneNow
    <3>5. \A e \in Entries \ Files : dest[e] = "new"
      BY <3>1 DEF DestInv
    <3> QED
      BY <3>1, <3>4, <3>5
  <2>4. Spoken(ToCtrl'[i]) => GetsPushEnd
    BY <2>1 DEF Spoken
  <2> QED
    BY <1>m, <2>2, <2>3, <2>4, CtrlFrames
<1>2. ASSUME mpc' = "exit", rc' = 0 PROVE apc' = "over"
  <2>1. HearsDone => Holds(ToCtrl, "TransferDone")
    BY DEF HearsDone, Hears, Holds
  <2>2. (mpc = "exit" /\ rc = 0) \/ HearsDone
    BY <1>2, <1>m, Phases DEF MainMoves, MainSays, SaysBegin, SaysEntry, SaysManifestEnd, SaysStart, SaysUnit,
      SaysFileEnd, SaysPushEnd, MainHears, HearsPlan, HearsPlanEnd, HearsOther, MainTurns, Exits, ListsOn, Waits,
      Skips, Opens, WorkerMoves, BetweenMoves, main
  <2> QED
    BY <1>m, <2>1, <2>2, Onwards DEF VerdictInv
<1> QED
  BY <1>1, <1>2 DEF VerdictInv

----------------------------------------------------------------------------
(* The two ends agree on entry, phase and file at every step of a push: what  *)
(* run_push and the controller's main thread rely on without checking it.     *)
THEOREM PushInvariant == Spec => []PushInv
<1>1. Init => PushInv
  BY TypeInit, SimpleInit DEF PushInv
<1>2. PushInv /\ [Next]_vars => PushInv'
  BY TypeStep, FramesStep, RouteStep, PlaceStep, ListStep, DestStep, DoneStep, FrameStep,
    SkipStep, PhaseStep, VerdictStep
  DEF PushInv
<1> QED
  BY <1>1, <1>2, PTL DEF Spec

(* Every variable of a push keeps the range it has in the code, the queues    *)
(* their capacities, the lists their ends and the writer its size.            *)
THEOREM PushTypes == Spec => []TypeOK
<1>1. PushInv => TypeOK
  BY DEF PushInv
<1> QED
  BY <1>1, PushInvariant, PTL

(* While the route is open the main thread never sends into a full path while *)
(* the agent waits to get its plans out: run_push answers between phases only *)
(* and push reads every plan before it sends data.                            *)
THEOREM PushPhasesDoNotBlock == Spec => []PhasesDoNotBlock
<1>1. PushInv => PhasesDoNotBlock
  <2> SUFFICES ASSUME PushInv, MainBlocked, apc \in Planning PROVE FALSE
    BY DEF PhasesDoNotBlock, Planning
  <2>1. apc # "over" /\ apc # "data" /\ PhaseInv
    BY DEF Planning, PushInv
  <2>2. mpc # "manifest"
    BY <2>1 DEF PhaseInv
  <2>3. mpc \notin Streaming
    BY <2>1 DEF PhaseInv
  <2> QED
    BY <2>2, <2>3 DEF MainBlocked, Streaming
<1> QED
  BY <1>1, PushInvariant, PTL

----------------------------------------------------------------------------
LEMMA PushStarts == Init => P!Init
<1> SUFFICES ASSUME Init PROVE P!Init
  OBVIOUS
<1>1. dest \in [Entries -> {"none", "old", "new"}]
  BY DEF Init, Before
<1>2. Outcome = "running"
  BY DEF Init, Outcome
<1> QED
  BY <1>1, <1>2, SameEntries DEF P!Init

(* Only the worker touches the destinations, and only before it is over.      *)
LEMMA DestMoves ==
  ASSUME MainMoves \/ WorkerMoves \/ BetweenMoves
  PROVE  \/ dest' = dest
         \/ /\ apc # "over" /\ UNCHANGED <<mpc, rc>>
            /\ \/ \E e \in Entries : dest' = [dest EXCEPT ![e] = "new"]
               \/ \E l \in Links : dest' = [dest EXCEPT ![l] = "none"]
<1>1. CASE MainMoves \/ BetweenMoves
  BY <1>1 DEF MainMoves, BetweenMoves, Cancelled, worker
<1>2. CASE WorkerMoves
  <2>1. UNCHANGED <<mpc, rc>>
    BY <1>2 DEF WorkerMoves, main
  <2>2. CASE GetsMade \/ GetsFileEnd
    BY <2>1, <2>2, SameEntries DEF GetsMade, GetsFileEnd
  <2>3. CASE Loses
    BY <2>1, <2>3 DEF Loses
  <2> QED
    BY <1>2, <2>2, <2>3 DEF WorkerMoves, GetsBegin, GetsListed, GetsManifestEnd, GetsStart, GetsUnit,
      GetsPushEnd, Stops, Drops, SaysPlan, SaysSigs, SaysPlanEnd
<1> QED
  BY <1>1, <1>2

(* The exit code is reported once, and 0 only for a TransferDone.             *)
LEMMA OutcomeMoves ==
  ASSUME MainMoves \/ WorkerMoves \/ BetweenMoves
  PROVE  \/ Outcome' = Outcome
         \/ Outcome = "running" /\ Outcome' = "failed" /\ dest' = dest
         \/ HearsDone /\ Outcome = "running" /\ Outcome' = "ok" /\ dest' = dest
<1>1. CASE WorkerMoves \/ BetweenMoves
  BY <1>1 DEF WorkerMoves, BetweenMoves, main, Outcome
<1>2. CASE MainMoves
  <2>1. mpc # "exit" /\ dest' = dest
    BY <1>2 DEF MainMoves, worker
  <2>2. \/ mpc' # "exit" \/ (mpc' = "exit" /\ rc' \in {3, 6})
        \/ HearsDone /\ mpc' = "exit" /\ rc' = 0
    BY <1>2, Phases DEF MainMoves, MainSays, SaysBegin, SaysEntry, SaysManifestEnd, SaysStart, SaysUnit, SaysFileEnd,
      SaysPushEnd, MainHears, HearsPlan, HearsPlanEnd, HearsDone, HearsOther, MainTurns, Exits, ListsOn, Waits,
      Skips, Opens
  <2> QED
    BY <2>1, <2>2 DEF Outcome
<1> QED
  BY <1>1, <1>2

LEMMA PushMoves ==
  ASSUME PushInv, [Next]_vars
  PROVE  [P!Next]_<<dest, Outcome>>
<1>m. MainMoves \/ WorkerMoves \/ BetweenMoves
  BY Moves DEF PushInv
<1>1. CASE UNCHANGED <<dest, Outcome>>
  BY <1>1
<1>2. CASE apc # "over" /\ UNCHANGED <<mpc, rc>>
  <2>1. Outcome # "ok" /\ Outcome' = Outcome
    BY <1>2 DEF PushInv, VerdictInv, Outcome
  <2>2. ASSUME NEW e \in Entries, dest' = [dest EXCEPT ![e] = "new"] PROVE P!Next
    <3>1. P!Place(e)
      BY <2>1, <2>2 DEF P!Place
    <3> QED
      BY <3>1, SameEntries DEF P!Next
  <2>3. ASSUME NEW l \in Links, dest' = [dest EXCEPT ![l] = "none"] PROVE P!Next
    <3>1. P!Lose(l)
      BY <2>1, <2>3 DEF P!Lose
    <3> QED
      BY <3>1 DEF P!Next
  <2>4. CASE dest' = dest
    BY <2>1, <2>4
  <2> QED
    BY <1>m, <2>2, <2>3, <2>4, DestMoves
<1>3. CASE Outcome = "running" /\ Outcome' = "failed" /\ dest' = dest
  BY <1>3 DEF P!Next, P!Fail
<1>4. CASE HearsDone /\ Outcome = "running" /\ Outcome' = "ok" /\ dest' = dest
  <2>1. Holds(ToCtrl, "TransferDone")
    BY <1>4 DEF HearsDone, Hears, Holds
  <2>2. \A e \in Entries : dest[e] = "new"
    BY <2>1 DEF PushInv, VerdictInv
  <2>3. P!Succeed
    BY <1>4, <2>2, SameEntries DEF P!Succeed
  <2> QED
    BY <2>3 DEF P!Next
<1> QED
  BY <1>m, <1>1, <1>2, <1>3, <1>4, DestMoves, OutcomeMoves

(* A push implements Publish: an entry at the target changes in one step, to  *)
(* what the manifest announced, a link apart that is lost when it cannot be   *)
(* made again, and exit code 0 means that all of the manifest is in place.    *)
THEOREM PushRefines == Spec => ImplementsPublish
<1>1. Init => P!Init
  BY PushStarts
<1>2. PushInv /\ [Next]_vars => [P!Next]_P!vars
  BY PushMoves DEF P!vars
<1> QED
  BY <1>1, <1>2, PushInvariant, PTL DEF Spec, ImplementsPublish, P!Spec

(* What Publish promises therefore holds of a push: exit code 0 means that    *)
(* every directory, link and file of the manifest is in place, as announced. *)
THEOREM PushSucceeds == Spec => []P!SuccessMeansPlaced
BY PushRefines, PublishSuccess, PTL DEF ImplementsPublish

(* Whatever fails in a push, no file or directory of the manifest that was   *)
(* there is ever missing, not even between two steps.                        *)
THEOREM PushKeeps == Spec => P!NothingVanishes
BY PushRefines, PublishKeeps, PTL DEF ImplementsPublish

============================================================================
