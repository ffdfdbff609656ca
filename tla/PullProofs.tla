----------------------------- MODULE PullProofs -----------------------------
(***************************************************************************)
(* Pull proved for manifests, files, queues and signatures of any size,    *)
(* whatever disks, sources, connections and the agent do: its types, that  *)
(* plans are honoured, and that it implements Publish.                     *)
(***************************************************************************)
EXTENDS Pull, TransferProofs

Planned(f) == f < midx \/ (f = midx /\ mpc = "sigs")
PlanFrame(f, p) == [op |-> "FilePlan", f |-> f, plan |-> p]

(* the parts of TypeOK *)
TypeCtrl ==
  /\ mpc \in {"begin", "mkroot", "manifest", "plan", "sigs", "data", "exit"}
  /\ listed \in 0..LastFile /\ midx \in Files \cup {FirstFile, LastFile + 1}
  /\ msigs \in 0..SigFrames - 1 /\ plan \in [Files -> Plans]
  /\ cur \in Files \cup {0} /\ recvd \in 0..Size /\ good \in BOOLEAN
  /\ dest \in [Entries -> {"none", "old", "new", "bad"}] /\ rc \in {0, 1, 3, 6}
TypeWorker ==
  /\ apc \in {"idle", "walk", "plans", "data", "stream", "quit", "over"}
  /\ aidx \in 1..LastFile + 1 /\ aplan \in [Files -> Plans]
  /\ asigs \in [Files -> 0..SigFrames] /\ aleft \in Seq(DownFrames)

(* Frames say what their senders can say. *)
FramesOK ==
  /\ \A i \in 1..Len(ToCtrl) : ToCtrl[i].op \in Marks => ToCtrl[i].f \in Files
  /\ \A i \in 1..Len(aleft) : aleft[i].op \in {"Data", "Copy"}

(* The server is in a state it can be in, a worker that is not over is       *)
(* served, and it starts with PullBegin.                                     *)
RouteInv ==
  /\ ServerInv /\ (apc # "over" => Served)
  /\ mpc = "begin" => ToWorker = <<>>
  /\ apc = "idle" => /\ ToWorker # <<>> => ToWorker[1].op = "PullBegin"
                     /\ mpc \notin {"begin", "exit"} => ToWorker # <<>>

(* Plans on their way: the worker that gets PlanEnd has every plan.          *)
PlanAt(q, ap, p, i, f) == ap[f] = p[f] \/ Ahead(q, i, PlanFrame(f, p[f]))

SentPlans ==
  \A i \in 1..Len(ToWorker) : ToWorker[i].op = "FilePlan" =>
    LET f == ToWorker[i].f IN
    /\ f \in Files /\ ToWorker[i] = PlanFrame(f, plan[f])
    /\ f < midx \/ (f = midx /\ mpc \in {"sigs", "exit"})
PlansArrive ==
  \A f \in Files : Planned(f) => PlanAt(ToWorker, aplan, plan, Len(ToWorker) + 1, f)
EndsPlans ==
  \A i \in 1..Len(ToWorker) : ToWorker[i].op = "PlanEnd" =>
    midx = LastFile + 1 /\ \A f \in Files : PlanAt(ToWorker, aplan, plan, i, f)
PlansAgree == apc \in {"data", "stream"} => midx = LastFile + 1 /\ aplan = plan

PlanInv == apc # "over" => SentPlans /\ PlansArrive /\ EndsPlans /\ PlansAgree

(* where each end is in its list, and what a skipped file looks like *)
SendInv ==
  /\ mpc = "sigs" => midx \in Files
  /\ apc = "plans" => aidx = FirstFile
  /\ apc = "stream" => aidx \in Files /\ aplan[aidx] # "skip"
  /\ apc = "data" => aidx >= FirstFile
  /\ \A f \in Files : plan[f] = "skip" => dest[f] = "new"

(* Entries arrive in the order of the manifest. *)
Listed == {"Entry"}

ListInv ==
  mpc # "exit" =>
    /\ Listing(Listed, ToCtrl, listed)
    /\ apc \in {"idle", "walk"} => NextAt(Listed, ToCtrl, listed, Len(ToCtrl) + 1, aidx)

(* An entry is made when it is listed, a file when its last frame arrives. *)
Makers == [e \in Entries |-> FileMsg(IF e \in Files THEN "FileEnd" ELSE "Entry", e)]

DestInv ==
  /\ \A e \in Entries : dest[e] # "bad"
  /\ mpc \in {"plan", "sigs", "data"} => \A e \in Entries \ Files : dest[e] = "new"

DoneInv ==
  mpc # "exit" =>
    /\ DoneBy(Makers, ToCtrl, dest, "ManifestEnd", Entries \ Files)
    /\ DoneBy(Makers, ToCtrl, dest, "TransferDone", Files)
    /\ apc \in {"idle", "walk"} => \A e \in 1..aidx - 1 :
         e \notin Files => DoneAt(Makers, ToCtrl, dest, Len(ToCtrl) + 1, e)
    /\ apc \in {"data", "stream"} => \A f \in Files :
         f < aidx => DoneAt(Makers, ToCtrl, dest, Len(ToCtrl) + 1, f)

(* A file's FileEnd finds its receiver writing that file. *)
FrameInv ==
  mpc # "exit" =>
    /\ Framing(ToCtrl, cur)
    /\ apc = "stream" => Within(ToCtrl, Len(ToCtrl) + 1, cur, aidx)

PullInv ==
  /\ TypeOK /\ FramesOK /\ RouteInv /\ PlanInv /\ SendInv
  /\ ListInv /\ DestInv /\ DoneInv /\ FrameInv

----------------------------------------------------------------------------
LEMMA TypeParts == TypeOK <=> TypeCtrl /\ UpOK(UpFrames) /\ DownOK(DownFrames) /\ ServerOK /\ TypeWorker
BY DEF TypeOK, TypeCtrl, UpOK, DownOK, ServerOK, TypeWorker

----------------------------------------------------------------------------
(* What the actions do to the two paths.  Each end sends and receives with   *)
(* the other end's state and the other path unchanged.                       *)
Types == UpOK(UpFrames) /\ DownOK(DownFrames) /\ ServerOK
Paths == ToWorker \in Seq(UpFrames) /\ ToCtrl \in Seq(DownFrames)

LEMMA PathTypes == TypeOK => Paths
BY TypeParts, ConcatProperties DEF UpOK, DownOK, ToWorker, ToCtrl, Paths

(* what a frame's fields say *)
LEMMA DownFields ==
  ASSUME Paths
  PROVE  \A i \in 1..Len(ToCtrl) :
           /\ ToCtrl[i] \in DownFrames
           /\ ToCtrl[i].op \in {"Entry", "FileStart", "FileEnd"} => ToCtrl[i].f \in Entries
<1>1. \A i \in 1..Len(ToCtrl) : ToCtrl[i] \in DownFrames
  BY ElementOfSeq DEF Paths
<1>2. \A m \in DownFrames : m.op \in {"Entry", "FileStart", "FileEnd"} => m.f \in Entries
  BY DEF DownFrames
<1> QED
  BY <1>1, <1>2

LEMMA Rests ==
  ASSUME TypeOK, UNCHANGED <<queues, server>>
  PROVE  Types' /\ UNCHANGED <<ToWorker, ToCtrl, server>>
BY TypeParts DEF queues, server, Types, UpOK, DownOK, ServerOK, ToWorker, ToCtrl

LEMMA CtrlSends ==
  ASSUME TypeOK, NEW m \in UpFrames, MainSend(m), UNCHANGED <<inbox, down, events, server, worker>>
  PROVE  /\ Types' /\ TypeWorker' /\ UNCHANGED <<ToCtrl, server, worker>>
         /\ ToWorker' = Append(ToWorker, m)
<1>1. UpOK(UpFrames)' /\ ToWorker' = Append(ToWorker, m)
  BY TypeParts, SendsUp
<1>2. DownOK(DownFrames)' /\ ServerOK' /\ TypeWorker' /\ UNCHANGED <<ToCtrl, server>>
  BY TypeParts DEF server, worker, DownOK, ServerOK, TypeWorker, ToCtrl
<1> QED
  BY <1>1, <1>2 DEF Types

LEMMA CtrlTakes ==
  ASSUME TypeOK, NextEvent, UNCHANGED <<up, inbox, down, server, worker>>
  PROVE  /\ Types' /\ TypeWorker' /\ UNCHANGED <<ToWorker, server, worker>>
         /\ ToCtrl # <<>> /\ Head(events) = Head(ToCtrl) /\ ToCtrl' = Tail(ToCtrl)
         /\ Head(events) = ToCtrl[1] /\ 1 \in 1..Len(ToCtrl) /\ Head(events) \in DownFrames
<1>1. /\ DownOK(DownFrames)' /\ ToCtrl # <<>> /\ Head(events) = Head(ToCtrl)
      /\ ToCtrl' = Tail(ToCtrl) /\ Head(events) \in DownFrames
  BY TypeParts, TakesEvent
<1>2. UpOK(UpFrames)' /\ ServerOK' /\ TypeWorker' /\ UNCHANGED <<ToWorker, server>>
  BY TypeParts DEF server, worker, UpOK, ServerOK, TypeWorker, ToWorker
<1>3. Head(ToCtrl) = ToCtrl[1] /\ 1 \in 1..Len(ToCtrl)
  BY <1>1, PathTypes, HeadAndTail DEF Paths
<1> QED
  BY <1>1, <1>2, <1>3 DEF Types

LEMMA WorkerSends ==
  ASSUME TypeOK, NEW m \in DownFrames, SendDown(m), UNCHANGED <<ctrl, up, inbox, events, server>>
  PROVE  /\ Types' /\ TypeCtrl' /\ UNCHANGED <<ToWorker, server, ctrl>>
         /\ ToCtrl' = Append(ToCtrl, m)
<1>1. DownOK(DownFrames)' /\ ToCtrl' = Append(ToCtrl, m)
  BY TypeParts, SendsDown
<1>2. UpOK(UpFrames)' /\ ServerOK' /\ TypeCtrl' /\ UNCHANGED <<ToWorker, server>>
  BY TypeParts DEF server, ctrl, UpOK, ServerOK, TypeCtrl, ToWorker
<1> QED
  BY <1>1, <1>2 DEF Types

LEMMA WorkerTakes ==
  ASSUME TypeOK, Take, UNCHANGED <<ctrl, up, down, events, server>>
  PROVE  /\ Types' /\ TypeCtrl' /\ UNCHANGED <<ToCtrl, server, ctrl>>
         /\ ToWorker # <<>> /\ Head(inbox) = Head(ToWorker) /\ ToWorker' = Tail(ToWorker)
         /\ Head(inbox) = ToWorker[1] /\ 1 \in 1..Len(ToWorker) /\ Head(inbox) \in UpFrames
<1>1. /\ UpOK(UpFrames)' /\ ToWorker # <<>> /\ Head(inbox) = Head(ToWorker)
      /\ ToWorker' = Tail(ToWorker) /\ Head(inbox) \in UpFrames
  BY TypeParts, TakesFrame
<1>2. DownOK(DownFrames)' /\ ServerOK' /\ TypeCtrl' /\ UNCHANGED <<ToCtrl, server>>
  BY TypeParts DEF server, ctrl, DownOK, ServerOK, TypeCtrl, ToCtrl
<1>3. Head(ToWorker) = ToWorker[1] /\ 1 \in 1..Len(ToWorker)
  BY <1>1, PathTypes, HeadAndTail DEF Paths
<1> QED
  BY <1>1, <1>2, <1>3 DEF Types

(* The reader, the server and the losses, all at once: both ends keep their  *)
(* state unless the worker is cancelled; a worker that goes on keeps its     *)
(* path; the controller loses nothing, and at most an Error is added.        *)
Between ==
  \/ Reader \/ ServerStep \/ RemoveRoute \/ AgentLeaves \/ AgentDies \/ CtrlGone \/ Finished
  \/ UNCHANGED vars

LEMMA BetweenSteps ==
  ASSUME TypeOK, RouteInv, Between
  PROVE  /\ Types' /\ ServerInv' /\ UNCHANGED ctrl
         /\ UNCHANGED worker \/ Cancelled
         /\ apc' # "over" => UNCHANGED ToWorker /\ Served'
         /\ ToWorker = <<>> => ToWorker' = <<>>
         /\ \/ mpc = "exit" /\ ToCtrl' = <<>>
            \/ ToCtrl' = ToCtrl \/ ToCtrl' = Append(ToCtrl, Msg("Error"))
<1>0. Msg("Error") \in DownFrames
  BY DEF Msg, DownFrames
<1>a. /\ InCap \in Nat /\ UpCap \in Nat /\ EvCap \in Nat /\ DownCap \in Nat
      /\ \A S : <<>> \in Seq(S) /\ Len(<<>>) = 0
  BY TransferConstants, EmptySeq
<1>1. CASE Reader
  <2>1. UNCHANGED <<up, inbox, server, ctrl, worker>>
    BY <1>1 DEF Reader, Read
  <2>2. DownOK(DownFrames)' /\ ToCtrl' = ToCtrl
    BY <1>1, TypeParts, ReadMoves DEF Reader
  <2>3. UpOK(UpFrames)' /\ ServerOK' /\ UNCHANGED <<ToWorker, server>>
    BY <2>1, TypeParts DEF server, UpOK, ServerOK, ToWorker
  <2>4. UNCHANGED apc /\ ServerInv' /\ (Served => Served')
    BY <2>1 DEF worker, server, RouteInv, ServerInv, Served
  <2> QED
    BY <2>1, <2>2, <2>3, <2>4 DEF Types, RouteInv
<1>2. CASE ServerStep
  <2>1. Relay /\ UNCHANGED <<ctrl, worker>>
    BY <1>2 DEF ServerStep
  <2>2. /\ Types' /\ ServerInv' /\ up # <<>> /\ (Served => Served' /\ UNCHANGED ToWorker)
        /\ UNCHANGED ToCtrl \/ ToCtrl' = Append(ToCtrl, Msg("Error"))
    BY <1>0, <2>1, TypeParts, RelayMoves DEF Types, RouteInv
  <2>3. up # <<>> => ToWorker # <<>>
    BY TypeParts, ConcatProperties, LenProperties, EmptySeq DEF UpOK, ToWorker
  <2>4. apc' = apc
    BY <2>1 DEF worker
  <2> QED
    BY <2>1, <2>2, <2>3, <2>4 DEF RouteInv
<1>3. CASE RemoveRoute
  <2>1. apc = "over" /\ ForgetRoute /\ UNCHANGED <<queues, ctrl, worker>>
    BY <1>3 DEF RemoveRoute, ForgetRoute
  <2>2. UpOK(UpFrames)' /\ DownOK(DownFrames)' /\ UNCHANGED <<ToWorker, ToCtrl, apc>>
    BY <2>1, TypeParts DEF queues, worker, UpOK, DownOK, ToWorker, ToCtrl
  <2>3. ServerOK' /\ ServerInv'
    BY <2>1, TypeParts, LosesMoves DEF RouteInv
  <2> QED
    BY <2>1, <2>2, <2>3 DEF Types
<1>4. CASE AgentLeaves
  <2>1. CleanupAgent /\ UNCHANGED <<ctrl, worker>>
    BY <1>4 DEF AgentLeaves
  <2>2. /\ DownOK(DownFrames)' /\ ServerOK' /\ ServerInv' /\ ~alive /\ UNCHANGED <<up, inbox>>
        /\ UNCHANGED ToCtrl \/ ToCtrl' = Append(ToCtrl, Msg("Error"))
    BY <1>0, <2>1, TypeParts, CleanupMoves DEF RouteInv
  <2>3. UpOK(UpFrames)' /\ ToWorker' = ToWorker /\ apc = "over" /\ apc' = apc
    BY <2>1, <2>2, TypeParts DEF UpOK, ToWorker, RouteInv, Served, worker
  <2> QED
    BY <2>1, <2>2, <2>3 DEF Types
<1>5. CASE AgentDies
  <2>1. /\ LoseAgent /\ inbox' = <<>> /\ Cancelled
        /\ UNCHANGED <<up, down, events, ctrl>>
    BY <1>5 DEF AgentDies, LoseAgent
  <2>2. UpOK(UpFrames)' /\ DownOK(DownFrames)' /\ ToCtrl' = ToCtrl
    BY <1>a, <2>1, TypeParts DEF UpOK, DownOK, ToCtrl
  <2>3. ServerOK' /\ ServerInv'
    BY <2>1, TypeParts, LosesMoves DEF RouteInv
  <2>4. ToWorker = <<>> => ToWorker' = <<>>
    <3>1. ToWorker = <<>> => up = <<>>
      BY TypeParts, ConcatProperties, LenProperties, EmptySeq DEF UpOK, ToWorker
    <3> QED
      BY <2>1, <3>1, ConcatEmptySeq, TypeParts DEF UpOK, ToWorker
  <2> QED
    BY <2>1, <2>2, <2>3, <2>4 DEF Cancelled, Types
<1>6. CASE CtrlGone
  <2>1. /\ up' = <<>> /\ inbox' = <<>> /\ down' = <<>> /\ events' = <<>>
        /\ mpc = "exit" /\ Disconnect /\ Cancelled /\ UNCHANGED ctrl
    BY <1>6 DEF CtrlGone, Disconnect
  <2>2. UpOK(UpFrames)' /\ DownOK(DownFrames)'
    BY <1>a, <2>1 DEF UpOK, DownOK
  <2>3. ServerOK' /\ ServerInv'
    BY <2>1, TypeParts, LosesMoves DEF RouteInv
  <2>4. ToWorker' = <<>> /\ ToCtrl' = <<>>
    BY <2>1, ConcatEmptySeq, EmptySeq DEF ToWorker, ToCtrl
  <2> QED
    BY <2>1, <2>2, <2>3, <2>4 DEF Cancelled, Types
<1>7. CASE UNCHANGED vars
  <2>1. UNCHANGED <<queues, server, ctrl, worker>>
    BY <1>7 DEF vars
  <2>2. UNCHANGED apc /\ ServerInv' /\ (Served => Served')
    BY <2>1 DEF worker, server, RouteInv, ServerInv, Served
  <2> QED
    BY <2>1, <2>2, Rests DEF RouteInv
<1> QED
  BY <1>1, <1>2, <1>3, <1>4, <1>5, <1>6, <1>7 DEF Between, Finished

(* every step is one of these *)
LEMMA Steps ==
  [Next]_vars <=>
    \/ CtrlStep \/ ScanFails \/ WriteFails \/ LinkLost \/ Timeout
    \/ WorkerStep \/ WorkerFails \/ WorkerQuits \/ Between
BY DEF Next, Between

----------------------------------------------------------------------------
(* The entry received is the next one.                                       *)
LEMMA NextEntry ==
  ASSUME TypeOK, ListInv, mpc # "exit", NextEvent, Head(events).op = "Entry",
         UNCHANGED <<up, inbox, down, server, worker>>
  PROVE  /\ Head(events).f = listed + 1 /\ Head(events).f \in Entries /\ listed + 1 <= LastFile
         /\ Listing(Listed, ToCtrl', listed + 1)
         /\ \A e \in Nat : NextAt(Listed, ToCtrl, listed, Len(ToCtrl) + 1, e) =>
              NextAt(Listed, ToCtrl', listed + 1, Len(ToCtrl') + 1, e)
<1>1. /\ ToCtrl # <<>> /\ Head(events) = Head(ToCtrl) /\ ToCtrl' = Tail(ToCtrl)
      /\ Head(events) = ToCtrl[1] /\ 1 \in 1..Len(ToCtrl)
  BY CtrlTakes
<1>2. Entries \subseteq Nat /\ Entries = 1..LastFile /\ LastFile \in Nat
  BY Numbering
<1>3. \A i \in 1..Len(ToCtrl) : ToCtrl[i].op = "Entry" => ToCtrl[i].f \in Entries
  BY PathTypes, DownFields
<1>4. ToCtrl \in Seq(DownFrames) /\ listed \in Nat /\ Listing(Listed, ToCtrl, listed)
  BY PathTypes, TypeParts, <1>2 DEF Paths, TypeCtrl, ListInv
<1>5. \A i \in 1..Len(ToCtrl) : ToCtrl[i].op = "Entry" => ToCtrl[i].f \in Nat
  BY <1>2, <1>3
<1>6. Head(ToCtrl).op = "Entry" /\ Head(events).f \in Entries
  BY <1>1, <1>3
<1>7. /\ Head(ToCtrl).f = listed + 1 /\ Listing(Listed, Tail(ToCtrl), listed + 1)
      /\ \A e \in Nat : NextAt(Listed, ToCtrl, listed, Len(ToCtrl) + 1, e) =>
           NextAt(Listed, Tail(ToCtrl), listed + 1, Len(Tail(ToCtrl)) + 1, e)
  <2>1. /\ Head(ToCtrl).op \in Listed
        /\ \A i \in 1..Len(ToCtrl) : ToCtrl[i].op \in Listed => ToCtrl[i].f \in Nat
    BY <1>5, <1>6 DEF Listed
  <2> QED
    BY <1>1, <1>4, <2>1, ListingTakesEntry
<1> QED
  BY <1>1, <1>2, <1>6, <1>7

(* The FileEnd received is of the file being written.                        *)
LEMMA RightFile ==
  ASSUME TypeOK, FrameInv, mpc # "exit", NextEvent, Head(events).op = "FileEnd",
         UNCHANGED <<up, inbox, down, server, worker>>
  PROVE  Head(events).f = cur
<1>1. Head(events) = ToCtrl[1] /\ 1 \in 1..Len(ToCtrl)
  BY CtrlTakes
<1>2. Within(ToCtrl, 1, cur, ToCtrl[1].f)
  BY <1>1 DEF FrameInv, Framing
<1> QED
  BY <1>1, <1>2, WithinNow

(* What phase 2 sends.                                                       *)
LEMMA PlanSent ==
  ASSUME TypeOK, DestInv, SendPlan
  PROVE  /\ mpc = "plan" /\ midx \in Files
         /\ UNCHANGED <<inbox, down, events, server, worker>>
         /\ UNCHANGED <<listed, cur, recvd, good, dest, rc>>
         /\ \E p \in Plans :
              /\ PlanFrame(midx, p) \in UpFrames /\ MainSend(PlanFrame(midx, p))
              /\ plan' = [plan EXCEPT ![midx] = p]
              /\ p = "skip" => dest[midx] = "new"
              /\ \/ mpc' = "sigs" /\ msigs' = 0 /\ midx' = midx
                 \/ midx' = midx + 1 /\ UNCHANGED <<mpc, msigs>>
<1>1. PICK p \in PlansFor(dest[midx]) :
        /\ MainSend(PlanFrame(midx, p))
        /\ plan' = [plan EXCEPT ![midx] = p]
        /\ \/ mpc' = "sigs" /\ msigs' = 0 /\ midx' = midx
           \/ midx' = midx + 1 /\ UNCHANGED <<mpc, msigs>>
  BY DEF SendPlan, PlanFrame
<1>2. /\ UNCHANGED <<inbox, down, events, server, worker>>
      /\ UNCHANGED <<listed, cur, recvd, good, dest, rc>> /\ mpc = "plan" /\ midx <= LastFile
  BY DEF SendPlan
<1>3. midx \in Files /\ midx \in Entries
  BY <1>2, Numbering, TypeParts DEF TypeCtrl
<1>4. dest[midx] \in {"none", "old", "new"}
  BY <1>3, TypeParts DEF TypeCtrl, DestInv
<1>5. p \in Plans /\ (p = "skip" => dest[midx] = "new")
  BY <1>1, <1>4 DEF PlansFor, Plans
<1>6. PlanFrame(midx, p) \in UpFrames
  BY <1>3, <1>5 DEF PlanFrame, UpFrames
<1> QED
  BY <1>1, <1>2, <1>3, <1>5, <1>6

LEMMA SigsSent ==
  ASSUME TypeOK, SendInv, SendSigs
  PROVE  /\ mpc = "sigs" /\ midx \in Files
         /\ UNCHANGED <<listed, plan, cur, recvd, good, dest, rc>>
         /\ UNCHANGED <<inbox, down, events, server, worker>>
         /\ \E m \in UpFrames : MainSend(m) /\ m.op = "FileSigs"
         /\ \/ mpc' = "plan" /\ midx' = midx + 1 /\ msigs' = 0
            \/ /\ msigs + 1 # SigFrames /\ msigs' = msigs + 1
               /\ UNCHANGED <<mpc, midx>>
<1>1. /\ MainSend([op |-> "FileSigs", f |-> midx, first |-> msigs]) /\ mpc = "sigs"
      /\ UNCHANGED <<listed, plan, cur, recvd, good, dest, rc>>
      /\ UNCHANGED <<inbox, down, events, server, worker>>
      /\ \/ mpc' = "plan" /\ midx' = midx + 1 /\ msigs' = 0
         \/ /\ msigs + 1 # SigFrames /\ msigs' = msigs + 1
            /\ UNCHANGED <<mpc, midx>>
  BY DEF SendSigs
<1>2. midx \in Files
  BY <1>1 DEF SendInv
<1>3. [op |-> "FileSigs", f |-> midx, first |-> msigs] \in UpFrames
  BY <1>2, TypeParts DEF TypeCtrl, UpFrames
<1> QED
  BY <1>1, <1>2, <1>3

LEMMA TypeInit == Init => TypeOK
<1> SUFFICES ASSUME Init PROVE TypeOK
  OBVIOUS
<1>1. /\ FirstFile \in Nat \ {0} /\ LastFile \in Nat /\ FirstFile <= LastFile + 1
      /\ Entries = 1..LastFile /\ Files = FirstFile..LastFile
  BY Numbering
<1>2. UpOK(UpFrames) /\ DownOK(DownFrames) /\ ServerOK
  <2>1. /\ InCap \in Nat /\ UpCap \in Nat /\ EvCap \in Nat /\ DownCap \in Nat
        /\ \A S : <<>> \in Seq(S) /\ Len(<<>>) = 0
    BY TransferConstants, EmptySeq
  <2>2. TransferInit
    BY DEF Init
  <2>3. UpOK(UpFrames) /\ DownOK(DownFrames)
    BY <2>1, <2>2 DEF TransferInit, UpOK, DownOK
  <2>4. ServerOK
    BY <2>2 DEF TransferInit, ServerOK
  <2> QED
    BY <2>3, <2>4
<1>3. TypeWorker
  BY <1>1, EmptySeq, TransferConstants DEF Init, TypeWorker, Plans
<1>4. TypeCtrl
  <2>1. dest \in [Entries -> {"none", "old", "new", "bad"}]
    BY DEF Init, Before
  <2>2. 0 \in 0..LastFile /\ 0 \in 0..SigFrames - 1 /\ 0 \in 0..Size
    BY <1>1, TransferConstants
  <2> QED
    BY <2>1, <2>2 DEF Init, TypeCtrl, Plans
<1> QED
  BY <1>2, <1>3, <1>4, TypeParts

LEMMA TypeStep ==
  ASSUME TypeOK, FramesOK, RouteInv, SendInv, ListInv, DestInv, [Next]_vars
  PROVE  TypeOK'
<1> USE DEF TypeCtrl, TypeWorker
<1>0. /\ FirstFile \in Nat \ {0} /\ LastFile \in Nat /\ FirstFile <= LastFile + 1
      /\ Entries = 1..LastFile /\ Files = FirstFile..LastFile /\ Files \subseteq Entries
      /\ Size \in Nat \ {0} /\ SigFrames \in Nat \ {0}
  BY Numbering, TransferConstants
<1>t. TypeCtrl /\ TypeWorker
  BY TypeParts
<1>q. ASSUME Types', TypeCtrl', TypeWorker' PROVE TypeOK'
  <2>1. UpOK(UpFrames)' /\ DownOK(DownFrames)' /\ ServerOK'
    BY <1>q DEF Types
  <2> QED
    BY <1>q, <2>1, TypeParts, PTL
<1>1. CASE SendBegin
  <2>1. Msg("PullBegin") \in UpFrames
    BY DEF Msg, UpFrames
  <2>2. Types' /\ TypeWorker'
    BY <1>1, <2>1, CtrlSends DEF SendBegin
  <2> QED
    BY <1>1, <1>q, <1>t, <2>2 DEF SendBegin
<1>2. CASE SendPlan
  <2>1. midx \in Files /\ midx + 1 \in Files \cup {FirstFile, LastFile + 1}
    BY <1>0, <1>2, <1>t, PlanSent
  <2>2. Types' /\ TypeWorker'
    BY <1>2, PlanSent, CtrlSends
  <2>3. PICK p \in Plans : plan' = [plan EXCEPT ![midx] = p]
    BY <1>2, PlanSent
  <2>4. /\ UNCHANGED <<listed, cur, recvd, good, dest, rc>> /\ mpc' \in {"plan", "sigs"}
        /\ midx' \in {midx, midx + 1} /\ msigs' \in {msigs, 0}
    BY <1>2, PlanSent
  <2>5. 0 \in 0..SigFrames - 1
    BY <1>0
  <2>6. TypeCtrl'
    BY <1>t, <2>1, <2>3, <2>4, <2>5
  <2> QED
    BY <1>q, <2>2, <2>6
<1>3. CASE SendSigs
  <2>1. midx \in Files /\ midx + 1 \in Files \cup {FirstFile, LastFile + 1}
    BY <1>0, <1>3, <1>t, SigsSent
  <2>2. Types' /\ TypeWorker'
    BY <1>3, SigsSent, CtrlSends
  <2>3. UNCHANGED <<listed, plan, cur, recvd, good, dest, rc>> /\ mpc' \in {"plan", "sigs"}
        /\ midx' \in {midx, midx + 1}
    BY <1>3, SigsSent
  <2>4. msigs' = 0 \/ (msigs + 1 # SigFrames /\ msigs' = msigs + 1)
    BY <1>3, SigsSent
  <2>5. msigs' \in 0..SigFrames - 1
    BY <1>0, <1>t, <2>4
  <2>6. TypeCtrl'
    BY <1>t, <2>1, <2>3, <2>5
  <2> QED
    BY <1>q, <2>2, <2>6
<1>4. CASE SendPlanEnd
  <2>1. Msg("PlanEnd") \in UpFrames
    BY DEF Msg, UpFrames
  <2>2. Types' /\ TypeWorker'
    BY <1>4, <2>1, CtrlSends DEF SendPlanEnd
  <2> QED
    BY <1>4, <1>q, <1>t, <2>2 DEF SendPlanEnd
<1>5. CASE MakeRoot \/ ScanFails \/ Timeout \/ LinkLost
  <2>1. UNCHANGED <<listed, midx, msigs, plan, recvd, good, dest, queues, server, worker>>
    BY <1>5 DEF MakeRoot, ScanFails, Timeout, LinkLost, Fail
  <2>2. /\ mpc' \in {"manifest", "exit"} /\ cur' \in {cur, 0} /\ rc' \in {rc, 1, 3, 6}
    BY <1>5 DEF MakeRoot, ScanFails, Timeout, LinkLost, Fail, Exit
  <2>3. Types'
    BY <2>1, Rests
  <2>4. TypeWorker'
    BY <1>t, <2>1 DEF worker
  <2>5. TypeCtrl'
    BY <1>t, <2>1, <2>2
  <2> QED
    BY <1>q, <2>3, <2>4, <2>5
<1>6. CASE RecvRefuse \/ RecvDone \/ WriteFails \/ RecvManifestEnd
  <2>1. NextEvent /\ UNCHANGED <<listed, midx, msigs, plan, recvd, good, dest, up, inbox, down, server, worker>>
    BY <1>6 DEF RecvRefuse, RecvDone, WriteFails, RecvManifestEnd, Fail
  <2>2. /\ mpc' \in {"plan", "exit"} /\ cur' \in {cur, 0} /\ rc' \in {rc, 0, 6}
    BY <1>6 DEF RecvRefuse, RecvDone, WriteFails, RecvManifestEnd, Fail, Exit
  <2>3. Types' /\ TypeWorker'
    BY <2>1, CtrlTakes
  <2>5. TypeCtrl'
    BY <1>t, <2>1, <2>2
  <2> QED
    BY <1>q, <2>3, <2>5
<1>7. CASE RecvEntry
  <2>1. /\ NextEvent /\ Head(events).op = "Entry" /\ mpc = "manifest"
        /\ UNCHANGED <<up, inbox, down, server, worker>>
    BY <1>7 DEF RecvEntry
  <2>2. Types' /\ TypeWorker'
    BY <2>1, CtrlTakes
  <2>3. listed + 1 \in 0..LastFile /\ listed + 1 \in Entries
    BY <1>0, <1>t, <2>1, NextEntry
  <2>4. UNCHANGED <<midx, msigs, plan, recvd, good>> /\ listed' \in {listed, listed + 1}
    BY <1>7 DEF RecvEntry, Fail
  <2>5. mpc' \in {mpc, "exit"} /\ cur' \in {cur, 0} /\ rc' \in {rc, 6}
    BY <1>7 DEF RecvEntry, Fail, Exit
  <2>6. \E x \in {"new", "none"} : dest' = dest \/ dest' = [dest EXCEPT ![Head(events).f] = x]
    BY <1>7 DEF RecvEntry
  <2>7. dest' \in [Entries -> {"none", "old", "new", "bad"}]
    BY <1>t, <2>6
  <2>8. TypeCtrl'
    BY <1>t, <2>3, <2>4, <2>5, <2>7
  <2> QED
    BY <1>q, <2>2, <2>8
<1>8. CASE RecvStart
  <2>1. /\ NextEvent /\ Head(events).op = "FileStart"
        /\ cur' = Head(events).f /\ recvd' = 0 /\ good' = TRUE
        /\ UNCHANGED <<mpc, listed, midx, msigs, plan, dest, rc, up, inbox, down, server, worker>>
    BY <1>8 DEF RecvStart
  <2>2. Types' /\ TypeWorker' /\ Head(events) = ToCtrl[1] /\ 1 \in 1..Len(ToCtrl)
    BY <2>1, CtrlTakes
  <2>3. Head(events).f \in Files
    BY <2>1, <2>2 DEF FramesOK, Marks
  <2>4. TypeCtrl'
    BY <1>0, <1>t, <2>1, <2>3
  <2> QED
    BY <1>q, <2>2, <2>4
<1>9. CASE RecvData
  <2>1. /\ NextEvent /\ recvd < Size /\ recvd' = recvd + 1
        /\ UNCHANGED <<mpc, listed, midx, msigs, plan, cur, dest, rc, up, inbox, down, server, worker>>
    BY <1>9 DEF RecvData
  <2>2. good' \in BOOLEAN
    BY <1>9, <1>t, TransferConstants DEF RecvData
  <2>3. Types' /\ TypeWorker'
    BY <2>1, CtrlTakes
  <2>4. TypeCtrl'
    BY <1>0, <1>t, <2>1, <2>2
  <2> QED
    BY <1>q, <2>3, <2>4
<1>10. CASE RecvFileEnd
  <2>1. /\ NextEvent /\ cur' = 0
        /\ dest' = [dest EXCEPT ![cur] = IF good THEN "new" ELSE "bad"]
        /\ UNCHANGED <<mpc, listed, midx, msigs, plan, recvd, good, rc, up, inbox, down, server, worker>>
    BY <1>10 DEF RecvFileEnd
  <2>2. Types' /\ TypeWorker'
    BY <2>1, CtrlTakes
  <2>3. TypeCtrl'
    BY <1>t, <2>1
  <2> QED
    BY <1>q, <2>2, <2>3
<1>11. CASE WorkerWalk
  <2>1. /\ UNCHANGED <<ctrl, up, inbox, events, server, aplan, asigs, aleft>>
        /\ aidx <= LastFile \/ aidx = LastFile + 1
    BY <1>0, <1>11, <1>t DEF WorkerWalk
  <2>2. CASE aidx <= LastFile
    <3>1. SendDown(FileMsg("Entry", aidx)) /\ aidx' = aidx + 1 /\ UNCHANGED apc
      BY <1>11, <2>2 DEF WorkerWalk
    <3>2. FileMsg("Entry", aidx) \in DownFrames /\ aidx + 1 \in 1..LastFile + 1
      BY <1>0, <1>t, <2>2 DEF FileMsg, DownFrames
    <3>3. Types' /\ TypeCtrl'
      BY <2>1, <3>1, <3>2, WorkerSends
    <3>4. TypeWorker'
      BY <1>t, <2>1, <3>1, <3>2
    <3> QED
      BY <1>q, <3>3, <3>4
  <2>3. CASE ~(aidx <= LastFile)
    <3>1. SendDown(Msg("ManifestEnd")) /\ aidx' = FirstFile /\ apc' = "plans"
      BY <1>11, <2>3 DEF WorkerWalk
    <3>2. Msg("ManifestEnd") \in DownFrames /\ FirstFile \in 1..LastFile + 1
      BY <1>0 DEF Msg, DownFrames
    <3>3. Types' /\ TypeCtrl'
      BY <2>1, <3>1, <3>2, WorkerSends
    <3>4. TypeWorker'
      BY <1>t, <2>1, <3>1, <3>2
    <3> QED
      BY <1>q, <3>3, <3>4
  <2> QED
    BY <2>2, <2>3
<1>12. CASE WorkerStart
  <2>1. /\ UNCHANGED <<ctrl, up, inbox, events, server, aplan, asigs>>
        /\ aidx <= LastFile /\ apc = "data"
    BY <1>12 DEF WorkerStart
  <2>2. aidx \in Files /\ aidx \in Entries /\ aidx + 1 \in 1..LastFile + 1
    BY <1>0, <1>t, <2>1 DEF SendInv
  <2>3. CASE aplan[aidx] = "skip"
    <3>1. aidx' = aidx + 1 /\ UNCHANGED <<apc, aleft, down>>
      BY <1>12, <2>3 DEF WorkerStart
    <3>2. TypeWorker'
      BY <1>t, <2>1, <2>2, <3>1
    <3>3. Types' /\ TypeCtrl'
      BY <1>t, <2>1, <3>1, Rests DEF queues, ctrl
    <3> QED
      BY <1>q, <3>2, <3>3
  <2>4. CASE aplan[aidx] # "skip"
    <3>1. /\ SendDown(FileMsg("FileStart", aidx)) /\ aleft' \in Streams(aplan[aidx])
          /\ apc' = "stream" /\ UNCHANGED aidx
      BY <1>12, <2>4 DEF WorkerStart
    <3>2. FileMsg("FileStart", aidx) \in DownFrames
      BY <2>2 DEF FileMsg, DownFrames
    <3>3. aleft' \in Seq(DownFrames)
      <4>1. [op : {"Data"}, bytes : Bytes] \cup [op : {"Copy"}] \subseteq DownFrames
        BY DEF DownFrames
      <4> QED
        BY <3>1, <4>1, StreamsAreData
    <3>4. Types' /\ TypeCtrl'
      BY <2>1, <3>1, <3>2, WorkerSends
    <3>5. TypeWorker'
      BY <1>t, <2>1, <3>1, <3>3
    <3> QED
      BY <1>q, <3>4, <3>5
  <2> QED
    BY <2>3, <2>4
<1>13. CASE WorkerStream
  <2>1. /\ aleft # <<>> /\ SendDown(Head(aleft)) /\ aleft' = Tail(aleft)
        /\ UNCHANGED <<ctrl, up, inbox, events, server, apc, aidx, aplan, asigs>>
    BY <1>13 DEF WorkerStream
  <2>2. Head(aleft) \in DownFrames /\ Tail(aleft) \in Seq(DownFrames)
    BY <1>t, <2>1, HeadAndTail
  <2>3. Types' /\ TypeCtrl'
    BY <2>1, <2>2, WorkerSends
  <2>4. TypeWorker'
    BY <1>t, <2>1, <2>2
  <2> QED
    BY <1>q, <2>3, <2>4
<1>14. CASE WorkerEndFile
  <2>1. /\ SendDown(FileMsg("FileEnd", aidx)) /\ apc = "stream"
        /\ apc' = "data" /\ aidx' = aidx + 1
        /\ UNCHANGED <<ctrl, up, inbox, events, server, aplan, asigs, aleft>>
    BY <1>14 DEF WorkerEndFile
  <2>2. FileMsg("FileEnd", aidx) \in DownFrames /\ aidx + 1 \in 1..LastFile + 1
    BY <1>0, <1>t, <2>1 DEF SendInv, FileMsg, DownFrames
  <2>3. Types' /\ TypeCtrl'
    BY <2>1, <2>2, WorkerSends
  <2>4. TypeWorker'
    BY <1>t, <2>1, <2>2
  <2> QED
    BY <1>q, <2>3, <2>4
<1>15. CASE WorkerFinish \/ WorkerFails
  <2>1. /\ \E op \in {"TransferDone", "TransferFailed", "Error"} : SendDown(Msg(op))
        /\ apc' = "over" /\ (aleft' = aleft \/ aleft' = <<>>)
        /\ UNCHANGED <<ctrl, up, inbox, events, server, aidx, aplan, asigs>>
    BY <1>15 DEF WorkerFinish, WorkerFails
  <2>2. \A op \in {"TransferDone", "TransferFailed", "Error"} : Msg(op) \in DownFrames
    BY DEF Msg, DownFrames
  <2>3. Types' /\ TypeCtrl'
    BY <2>1, <2>2, WorkerSends
  <2>4. TypeWorker'
    BY <1>t, <2>1, EmptySeq
  <2> QED
    BY <1>q, <2>3, <2>4
<1>19. CASE WorkerQuits
  <2>1. /\ apc' = "quit" /\ aleft' = <<>> /\ UNCHANGED <<ctrl, queues, server, aidx, aplan, asigs>>
    BY <1>19 DEF WorkerQuits
  <2>2. Types' /\ TypeCtrl'
    BY <1>t, <2>1, Rests DEF ctrl
  <2>3. TypeWorker'
    BY <1>t, <2>1, EmptySeq
  <2> QED
    BY <1>q, <2>2, <2>3
<1>16. CASE WorkerBegin
  <2>1. /\ Take /\ apc' = "walk"
        /\ UNCHANGED <<ctrl, up, down, events, server, aidx, aplan, asigs, aleft>>
    BY <1>16 DEF WorkerBegin
  <2>2. Types' /\ TypeCtrl'
    BY <2>1, WorkerTakes
  <2>3. TypeWorker'
    BY <1>t, <2>1
  <2> QED
    BY <1>q, <2>2, <2>3
<1>17. CASE WorkerPlan
  <2>1. /\ Take /\ apc = "plans" /\ apc' \in {apc, "data"}
        /\ UNCHANGED <<ctrl, up, down, events, server, aidx, aleft>>
    BY <1>17 DEF WorkerPlan
  <2>2. Types' /\ TypeCtrl' /\ Head(inbox) \in UpFrames
    BY <2>1, WorkerTakes
  <2>3. /\ aplan' = aplan \/ \E f : Head(inbox).op = "FilePlan" /\ aplan' = [aplan EXCEPT ![f] = Head(inbox).plan]
        /\ \/ asigs' = asigs
           \/ asigs' = [asigs EXCEPT ![Head(inbox).f] = 0]
           \/ /\ Head(inbox).op = "FileSigs" /\ asigs[Head(inbox).f] = Head(inbox).first
              /\ asigs' = [asigs EXCEPT ![Head(inbox).f] = asigs[Head(inbox).f] + 1]
    BY <1>17 DEF WorkerPlan
  <2>4. aplan' \in [Files -> Plans]
    BY <1>t, <2>2, <2>3 DEF UpFrames
  <2>5. Head(inbox).op = "FileSigs" => Head(inbox).first \in 0..SigFrames - 1
    BY <2>2 DEF UpFrames
  <2>6. asigs' \in [Files -> 0..SigFrames]
    <3>1. CASE asigs' = asigs
      BY <1>t, <3>1
    <3>2. CASE asigs' = [asigs EXCEPT ![Head(inbox).f] = 0]
      <4>1. 0 \in 0..SigFrames
        BY <1>0
      <4> QED
        BY <1>t, <3>2, <4>1
    <3>3. CASE /\ Head(inbox).op = "FileSigs" /\ asigs[Head(inbox).f] = Head(inbox).first
               /\ asigs' = [asigs EXCEPT ![Head(inbox).f] = asigs[Head(inbox).f] + 1]
      <4>1. asigs[Head(inbox).f] + 1 \in 0..SigFrames
        BY <1>0, <2>5, <3>3
      <4> QED
        BY <1>t, <3>3, <4>1
    <3> QED
      BY <2>3, <3>1, <3>2, <3>3
  <2>7. TypeWorker'
    BY <1>t, <2>1, <2>4, <2>6
  <2> QED
    BY <1>q, <2>2, <2>7
<1>18. CASE Between
  <2>1. Types' /\ UNCHANGED ctrl /\ (UNCHANGED worker \/ Cancelled)
    BY <1>18, BetweenSteps
  <2>2. TypeCtrl'
    BY <1>t, <2>1 DEF ctrl
  <2>3. TypeWorker'
    <3>1. CASE UNCHANGED worker
      BY <1>t, <3>1 DEF worker
    <3>2. CASE Cancelled
      BY <1>t, <3>2, EmptySeq DEF Cancelled
    <3> QED
      BY <2>1, <3>1, <3>2
  <2> QED
    BY <1>q, <2>1, <2>2, <2>3
<1> QED
  BY Steps, <1>1, <1>2, <1>3, <1>4, <1>5, <1>6, <1>7, <1>8, <1>9, <1>10, <1>11, <1>12, <1>13,
     <1>14, <1>15, <1>16, <1>17, <1>18, <1>19 DEF CtrlStep, WorkerStep

----------------------------------------------------------------------------
LEMMA FramesInit == Init => FramesOK
<1> SUFFICES ASSUME Init PROVE FramesOK
  OBVIOUS
<1>1. ToCtrl = <<>> /\ aleft = <<>> /\ Len(<<>>) = 0
  BY ConcatEmptySeq, EmptySeq DEF Init, TransferInit, ToCtrl
<1> QED
  BY <1>1 DEF FramesOK

LEMMA FramesStep ==
  ASSUME TypeOK, FramesOK, RouteInv, SendInv, [Next]_vars
  PROVE  FramesOK'
<1> DEFINE Said(q) == \A i \in 1..Len(q) : q[i].op \in Marks => q[i].f \in Files
           Left(q) == \A i \in 1..Len(q) : q[i].op \in {"Data", "Copy"}
<1>0. ToCtrl \in Seq(DownFrames) /\ Said(ToCtrl) /\ Left(aleft) /\ aleft \in Seq(DownFrames)
  BY PathTypes, TypeParts DEF Paths, FramesOK, TypeWorker
<1>1. ASSUME NEW m \in DownFrames, m.op \in Marks => m.f \in Files, ToCtrl' = Append(ToCtrl, m)
      PROVE  Said(ToCtrl)'
  BY <1>0, <1>1, AheadSends
<1>2. ASSUME ToCtrl # <<>>, ToCtrl' = Tail(ToCtrl) PROVE Said(ToCtrl)'
  BY <1>0, <1>2, HeadAndTail
<1>3. ASSUME ToCtrl' = <<>> PROVE Said(ToCtrl)'
  BY <1>3, EmptySeq
<1>4. /\ Msg("ManifestEnd") \in DownFrames /\ Msg("Error") \in DownFrames
      /\ Msg("TransferDone") \in DownFrames /\ Msg("TransferFailed") \in DownFrames
      /\ \A op, f : Msg(op).op = op /\ FileMsg(op, f).op = op /\ FileMsg(op, f).f = f
      /\ \A op \in {"Entry", "FileStart", "FileEnd"}, f \in Entries : FileMsg(op, f) \in DownFrames
  BY DEF Msg, FileMsg, DownFrames
<1>5. ASSUME Said(ToCtrl)', Left(aleft)' PROVE FramesOK'
  BY <1>5 DEF FramesOK
<1>6. /\ Files \subseteq Entries /\ FirstFile \in Nat /\ LastFile \in Nat
      /\ Files = FirstFile..LastFile /\ Entries = 1..LastFile /\ aidx \in 1..LastFile + 1
  BY Numbering, TypeParts DEF TypeWorker
<1> HIDE DEF Said, Left
<1>a. CASE SendBegin \/ SendPlan \/ SendSigs \/ SendPlanEnd \/ MakeRoot \/ ScanFails \/ Timeout \/ LinkLost
  <2>1. UNCHANGED <<down, events, worker>>
    BY <1>a DEF SendBegin, SendPlan, SendSigs, SendPlanEnd, MakeRoot, ScanFails, Timeout, LinkLost, queues
  <2>2. UNCHANGED <<ToCtrl, aleft>>
    BY <2>1 DEF worker, ToCtrl
  <2> QED
    BY <1>0, <1>5, <2>2 DEF Said, Left
<1>b. CASE \/ RecvEntry \/ RecvManifestEnd \/ RecvStart \/ RecvData \/ RecvFileEnd \/ RecvDone
           \/ RecvRefuse \/ WriteFails
  <2>1. NextEvent /\ UNCHANGED <<up, inbox, down, server, worker>>
    BY <1>b DEF RecvEntry, RecvManifestEnd, RecvStart, RecvData, RecvFileEnd, RecvDone, RecvRefuse, WriteFails
  <2>2. Said(ToCtrl)' /\ UNCHANGED aleft
    BY <1>2, <2>1, CtrlTakes DEF worker
  <2> QED
    BY <1>0, <1>5, <2>2 DEF Left
<1>c. CASE WorkerWalk
  <2>1. /\ UNCHANGED <<ctrl, up, inbox, events, server, aplan, asigs, aleft>>
        /\ \/ aidx <= LastFile /\ SendDown(FileMsg("Entry", aidx))
           \/ SendDown(Msg("ManifestEnd"))
    BY <1>c DEF WorkerWalk
  <2>2. CASE aidx <= LastFile /\ SendDown(FileMsg("Entry", aidx))
    <3>1. aidx \in Entries
      BY <1>6, <2>2
    <3>2. FileMsg("Entry", aidx).op \notin Marks
      BY <1>4 DEF Marks
    <3>3. Said(ToCtrl)'
      BY <1>1, <1>4, <2>1, <2>2, <3>1, <3>2, WorkerSends
    <3> QED
      BY <1>0, <1>5, <2>1, <3>3 DEF Left
  <2>3. CASE SendDown(Msg("ManifestEnd"))
    <3>1. Said(ToCtrl)'
      BY <1>1, <1>4, <2>1, <2>3, WorkerSends DEF Marks
    <3> QED
      BY <1>0, <1>5, <2>1, <3>1 DEF Left
  <2> QED
    BY <2>1, <2>2, <2>3
<1>d. CASE WorkerStart
  <2>1. /\ UNCHANGED <<ctrl, up, inbox, events, server, aplan, asigs>>
        /\ aidx <= LastFile /\ apc = "data"
        /\ \/ UNCHANGED <<aleft, down>>
           \/ SendDown(FileMsg("FileStart", aidx)) /\ aleft' \in Streams(aplan[aidx])
    BY <1>d DEF WorkerStart
  <2>2. CASE UNCHANGED <<aleft, down>>
    BY <1>0, <1>5, <2>1, <2>2 DEF Said, Left, ToCtrl
  <2>3. CASE SendDown(FileMsg("FileStart", aidx)) /\ aleft' \in Streams(aplan[aidx])
    <3>1. aidx \in Files /\ FileMsg("FileStart", aidx) \in DownFrames
      BY <1>4, <1>6, <2>1 DEF SendInv
    <3>2. Said(ToCtrl)'
      BY <1>1, <1>4, <2>1, <2>3, <3>1, WorkerSends
    <3>3. Left(aleft)'
      BY <2>3, StreamsAreData DEF Left
    <3> QED
      BY <1>5, <3>2, <3>3
  <2> QED
    BY <2>1, <2>2, <2>3
<1>e. CASE WorkerStream
  <2>1. /\ aleft # <<>> /\ SendDown(Head(aleft)) /\ aleft' = Tail(aleft)
        /\ UNCHANGED <<ctrl, up, inbox, events, server>>
    BY <1>e DEF WorkerStream
  <2>2. Head(aleft) \in DownFrames /\ Head(aleft).op \in {"Data", "Copy"}
    BY <1>0, <2>1, HeadAndTail DEF Left
  <2>3. Said(ToCtrl)'
    BY <1>1, <2>1, <2>2, WorkerSends DEF Marks
  <2>4. Left(aleft)'
    BY <1>0, <2>1, HeadAndTail DEF Left
  <2> QED
    BY <1>5, <2>3, <2>4
<1>f. CASE WorkerEndFile
  <2>1. /\ SendDown(FileMsg("FileEnd", aidx)) /\ apc = "stream"
        /\ UNCHANGED <<ctrl, up, inbox, events, server, aleft>>
    BY <1>f DEF WorkerEndFile
  <2>2. aidx \in Files /\ FileMsg("FileEnd", aidx) \in DownFrames
    BY <1>4, <1>6, <2>1 DEF SendInv
  <2>3. Said(ToCtrl)'
    BY <1>1, <1>4, <2>1, <2>2, WorkerSends
  <2> QED
    BY <1>0, <1>5, <2>1, <2>3 DEF Left
<1>g. CASE WorkerFinish \/ WorkerFails
  <2>1. /\ \E op \in {"TransferDone", "TransferFailed", "Error"} : SendDown(Msg(op))
        /\ aleft' = aleft \/ aleft' = <<>>
        /\ UNCHANGED <<ctrl, up, inbox, events, server>>
    BY <1>g DEF WorkerFinish, WorkerFails
  <2>2. Said(ToCtrl)'
    BY <1>1, <1>4, <2>1, WorkerSends DEF Marks
  <2>3. Left(aleft)'
    BY <1>0, <2>1, EmptySeq DEF Left
  <2> QED
    BY <1>5, <2>2, <2>3
<1>h. CASE WorkerBegin \/ WorkerPlan \/ WorkerQuits
  <2>1. UNCHANGED <<down, events>> /\ (aleft' = aleft \/ aleft' = <<>>)
    BY <1>h DEF WorkerBegin, WorkerPlan, WorkerQuits, queues
  <2> QED
    BY <1>0, <1>5, <2>1, EmptySeq DEF Said, Left, ToCtrl
<1>i. CASE Between
  <2>1. /\ UNCHANGED worker \/ Cancelled
        /\ ToCtrl' = <<>> \/ ToCtrl' = ToCtrl \/ ToCtrl' = Append(ToCtrl, Msg("Error"))
    BY <1>i, BetweenSteps
  <2>2. Said(ToCtrl)'
    <3>1. CASE ToCtrl' = ToCtrl
      BY <1>0, <3>1 DEF Said
    <3> QED
      BY <1>1, <1>3, <1>4, <2>1, <3>1 DEF Marks
  <2>3. Left(aleft)'
    <3>1. aleft' = aleft \/ aleft' = <<>>
      BY <2>1 DEF worker, Cancelled
    <3> QED
      BY <1>0, <3>1, EmptySeq DEF Left
  <2> QED
    BY <1>5, <2>2, <2>3
<1> QED
  BY Steps, <1>a, <1>b, <1>c, <1>d, <1>e, <1>f, <1>g, <1>h, <1>i DEF CtrlStep, WorkerStep

LEMMA RouteInit == Init => RouteInv
<1>1. Init => ToWorker = <<>>
  BY ConcatEmptySeq, EmptySeq DEF Init, TransferInit, ToWorker
<1> QED
  BY <1>1 DEF Init, TransferInit, RouteInv, ServerInv, Served

LEMMA RouteStep ==
  ASSUME TypeOK, RouteInv, SendInv, DestInv, [Next]_vars
  PROVE  RouteInv'
<1>0. UNCHANGED server => ServerInv' /\ (Served => Served')
  BY DEF RouteInv, server, ServerInv, Served
<1>1. CASE SendBegin
  <2>1. /\ mpc = "begin" /\ MainSend(Msg("PullBegin")) /\ mpc' = "mkroot"
        /\ UNCHANGED <<inbox, down, events, server, worker>>
    BY <1>1 DEF SendBegin
  <2>2. Msg("PullBegin") \in UpFrames /\ Msg("PullBegin").op = "PullBegin"
    BY DEF Msg, UpFrames
  <2>3. /\ ToWorker' = Append(ToWorker, Msg("PullBegin")) /\ UNCHANGED <<server, apc>>
        /\ ToWorker = <<>>
    BY <2>1, <2>2, CtrlSends DEF worker, RouteInv
  <2>4. ToWorker' # <<>> /\ ToWorker'[1].op = "PullBegin"
    <3>1. ToWorker' = <<Msg("PullBegin")>>
      BY <2>3
    <3> QED
      BY <2>2, <3>1
  <2> QED
    BY <1>0, <2>1, <2>3, <2>4 DEF RouteInv
<1>2. CASE SendPlan \/ SendSigs \/ SendPlanEnd
  <2>1. /\ mpc \notin {"begin", "exit"} /\ mpc' \notin {"begin", "exit"}
        /\ UNCHANGED <<inbox, down, events, server, worker>>
        /\ \E m \in UpFrames : MainSend(m)
    <3>1. Msg("PlanEnd") \in UpFrames
      BY DEF Msg, UpFrames
    <3> QED
      BY <1>2, <3>1, PlanSent, SigsSent DEF SendPlanEnd
  <2>2. PICK m \in UpFrames : ToWorker' = Append(ToWorker, m)
    BY <2>1, CtrlSends
  <2>3. UNCHANGED <<server, apc>>
    BY <2>1 DEF worker
  <2>4. ToWorker # <<>> => ToWorker' # <<>> /\ ToWorker'[1] = ToWorker[1]
    BY <2>2, PathTypes, AppendProperties, EmptySeq DEF Paths
  <2> QED
    BY <1>0, <2>1, <2>3, <2>4 DEF RouteInv
<1>3. CASE \/ MakeRoot \/ ScanFails \/ Timeout \/ LinkLost
           \/ RecvEntry \/ RecvManifestEnd \/ RecvStart \/ RecvData \/ RecvFileEnd \/ RecvDone
           \/ RecvRefuse \/ WriteFails
  <2>1. UNCHANGED <<up, inbox, server, apc>>
    BY <1>3 DEF MakeRoot, ScanFails, Timeout, LinkLost, RecvEntry, RecvManifestEnd, RecvStart,
      RecvData, RecvFileEnd, RecvDone, RecvRefuse, WriteFails, queues, worker
  <2>2. mpc' # "begin" /\ (mpc' # "exit" => mpc \notin {"begin", "exit"})
    BY <1>3 DEF MakeRoot, ScanFails, Timeout, LinkLost, RecvEntry, RecvManifestEnd, RecvStart,
      RecvData, RecvFileEnd, RecvDone, RecvRefuse, WriteFails, Fail, Exit
  <2>3. ToWorker' = ToWorker
    BY <2>1 DEF ToWorker
  <2> QED
    BY <1>0, <2>1, <2>2, <2>3 DEF RouteInv
<1>4. CASE WorkerBegin \/ WorkerPlan
  <2>1. /\ Take /\ apc # "over" /\ apc' # "idle"
        /\ UNCHANGED <<ctrl, up, down, events, server>>
    BY <1>4 DEF WorkerBegin, WorkerPlan
  <2>2. UNCHANGED <<server, mpc>> /\ ToWorker # <<>>
    BY <2>1, WorkerTakes DEF ctrl
  <2> QED
    BY <1>0, <2>1, <2>2 DEF RouteInv
<1>5. CASE WorkerWalk \/ WorkerStart \/ WorkerStream \/ WorkerEndFile \/ WorkerFinish \/ WorkerFails
           \/ WorkerQuits
  <2>1. /\ apc \notin {"over", "idle"} /\ apc' # "idle"
        /\ UNCHANGED <<up, inbox, server, mpc>>
    BY <1>5 DEF WorkerWalk, WorkerStart, WorkerStream, WorkerEndFile, WorkerFinish, WorkerFails,
      WorkerQuits, ctrl, queues
  <2>2. ToWorker' = ToWorker
    BY <2>1 DEF ToWorker
  <2> QED
    BY <1>0, <2>1, <2>2 DEF RouteInv
<1>6. CASE Between
  <2>1. /\ UNCHANGED mpc /\ (UNCHANGED apc \/ apc' = "over")
        /\ ServerInv' /\ (apc' # "over" => UNCHANGED ToWorker /\ Served')
        /\ ToWorker = <<>> => ToWorker' = <<>>
    BY <1>6, BetweenSteps DEF ctrl, worker, Cancelled
  <2> QED
    BY <2>1 DEF RouteInv
<1> QED
  BY Steps, <1>1, <1>2, <1>3, <1>4, <1>5, <1>6 DEF CtrlStep, WorkerStep

----------------------------------------------------------------------------
LEMMA PlanSends ==
  ASSUME NEW S, NEW q \in Seq(S), NEW m \in S, NEW ap, NEW p
  PROVE  /\ \A i \in 1..Len(q) + 1 : \A f : PlanAt(Append(q, m), ap, p, i, f) <=> PlanAt(q, ap, p, i, f)
         /\ \A f : PlanAt(Append(q, m), ap, p, Len(q) + 2, f) <=>
                  PlanAt(q, ap, p, Len(q) + 1, f) \/ m = PlanFrame(f, p[f])
BY AheadSends DEF PlanAt

LEMMA PlanTakes ==
  ASSUME NEW S, NEW q \in Seq(S), q # <<>>, NEW ap, NEW p, NEW a2,
         NEW i \in 1..Len(q), NEW f, PlanAt(q, ap, p, i + 1, f),
         ap[f] = p[f] \/ Head(q) = PlanFrame(f, p[f]) => a2[f] = p[f]
  PROVE  PlanAt(Tail(q), a2, p, i, f)
BY AheadTakes DEF PlanAt

LEMMA PlanInit == Init => PlanInv
<1> SUFFICES ASSUME Init PROVE PlanInv
  OBVIOUS
<1>1. ToWorker = <<>> /\ Len(<<>>) = 0
  BY ConcatEmptySeq, EmptySeq DEF Init, TransferInit, ToWorker
<1>2. SentPlans /\ EndsPlans
  BY <1>1 DEF SentPlans, EndsPlans
<1>3. PlansArrive /\ PlansAgree
  BY DEF Init, PlansArrive, PlansAgree, PlanAt
<1> QED
  BY <1>2, <1>3 DEF PlanInv

(* a step that neither sends nor receives a plan *)
LEMMA PlanRests ==
  ASSUME PlanInv, UNCHANGED <<ToWorker, midx, plan, aplan>>,
         mpc \in {"sigs", "exit"} => mpc' \in {"sigs", "exit"}, mpc' = "sigs" => mpc = "sigs",
         apc' # "over" => apc # "over", apc' \in {"data", "stream"} => apc \in {"data", "stream"}
  PROVE  PlanInv'
<1> SUFFICES ASSUME apc' # "over" PROVE (SentPlans /\ PlansArrive /\ EndsPlans /\ PlansAgree)'
  BY DEF PlanInv
<1>1. SentPlans /\ PlansArrive /\ EndsPlans /\ PlansAgree
  BY DEF PlanInv
<1>2. SentPlans'
  BY <1>1 DEF SentPlans
<1>3. PlansArrive'
  BY <1>1 DEF PlansArrive, Planned
<1>4. EndsPlans'
  BY <1>1 DEF EndsPlans
<1>5. PlansAgree'
  BY <1>1 DEF PlansAgree
<1> QED
  BY <1>2, <1>3, <1>4, <1>5

LEMMA PlanStep ==
  ASSUME TypeOK, RouteInv, PlanInv, SendInv, DestInv, [Next]_vars
  PROVE  PlanInv'
<1>0. /\ ToWorker \in Seq(UpFrames) /\ Len(ToWorker) \in Nat /\ plan \in [Files -> Plans]
      /\ aplan \in [Files -> Plans] /\ Files = FirstFile..LastFile
      /\ FirstFile \in Nat \ {0} /\ LastFile \in Nat
      /\ midx \in FirstFile..LastFile + 1
  BY PathTypes, TypeParts, LenProperties, Numbering, SMTT(60) DEF Paths, TypeCtrl, TypeWorker
<1>1. CASE apc = "over" \/ apc' = "over"
  <2>1. apc = "over" => apc' = "over"
    <3>1. CASE CtrlStep \/ ScanFails \/ WriteFails \/ LinkLost \/ Timeout
      BY <3>1 DEF CtrlStep, SendBegin, MakeRoot, RecvEntry, RecvManifestEnd, SendPlan, SendSigs,
        SendPlanEnd, RecvStart, RecvData, RecvFileEnd, RecvDone, RecvRefuse, ScanFails,
        WriteFails, LinkLost, Timeout, worker
    <3>2. CASE WorkerStep \/ WorkerFails \/ WorkerQuits
      BY <3>2 DEF WorkerStep, WorkerBegin, WorkerWalk, WorkerPlan, WorkerStart, WorkerStream,
        WorkerEndFile, WorkerFinish, WorkerFails, WorkerQuits
    <3>3. CASE Between
      BY <3>3, BetweenSteps DEF worker, Cancelled
    <3> QED
      BY Steps, <3>1, <3>2, <3>3
  <2> QED
    BY <1>1, <2>1 DEF PlanInv
<1> SUFFICES ASSUME apc # "over", apc' # "over" PROVE PlanInv'
  BY <1>1
<1>2. SentPlans /\ PlansArrive /\ EndsPlans /\ PlansAgree
  BY DEF PlanInv
<1>3. ASSUME NEW m \in UpFrames, ToWorker' = Append(ToWorker, m)
      PROVE  /\ Len(ToWorker') = Len(ToWorker) + 1 /\ ToWorker'[Len(ToWorker) + 1] = m
             /\ \A i \in 1..Len(ToWorker) : ToWorker'[i] = ToWorker[i]
             /\ \A i \in 1..Len(ToWorker) + 1 : \A f :
                  PlanAt(ToWorker', aplan, plan, i, f) <=> PlanAt(ToWorker, aplan, plan, i, f)
             /\ \A f : PlanAt(ToWorker', aplan, plan, Len(ToWorker') + 1, f) <=>
                  PlanAt(ToWorker, aplan, plan, Len(ToWorker) + 1, f) \/ m = PlanFrame(f, plan[f])
  <2>1. /\ ToWorker' = Append(ToWorker, m) /\ Len(ToWorker') = Len(ToWorker) + 1
        /\ ToWorker'[Len(ToWorker) + 1] = m
        /\ \A i \in 1..Len(ToWorker) : ToWorker'[i] = ToWorker[i]
    BY <1>0, <1>3, AppendProperties
  <2>2. Len(ToWorker') + 1 = Len(ToWorker) + 2
    BY <1>0, <2>1
  <2> QED
    BY <1>0, <2>1, <2>2, PlanSends, ZenonT(60)
<1>4. ASSUME SentPlans', PlansArrive', EndsPlans', PlansAgree' PROVE PlanInv'
  BY <1>4 DEF PlanInv
<1>5. CASE SendBegin
  <2>1. /\ mpc = "begin" /\ mpc' = "mkroot" /\ MainSend(Msg("PullBegin"))
        /\ UNCHANGED <<midx, plan>> /\ UNCHANGED <<inbox, down, events, server, worker>>
    BY <1>5 DEF SendBegin
  <2>2. Msg("PullBegin") \in UpFrames /\ Msg("PullBegin").op = "PullBegin"
    BY DEF Msg, UpFrames
  <2>3. ToWorker' = Append(ToWorker, Msg("PullBegin")) /\ UNCHANGED <<apc, aplan>>
    BY <2>1, <2>2, CtrlSends DEF worker
  <2>4. SentPlans'
    BY <1>2, <1>3, <2>1, <2>2, <2>3 DEF SentPlans
  <2>5. PlansArrive'
    BY <1>2, <1>3, <2>1, <2>2, <2>3 DEF PlansArrive, Planned
  <2>6. EndsPlans'
    BY <1>0, <1>2, <1>3, <2>1, <2>2, <2>3 DEF EndsPlans
  <2>7. PlansAgree'
    BY <1>2, <2>1, <2>3 DEF PlansAgree
  <2> QED
    BY <1>4, <2>4, <2>5, <2>6, <2>7
<1>6. CASE SendPlan
  <2>1. PICK p \in Plans :
          /\ PlanFrame(midx, p) \in UpFrames /\ MainSend(PlanFrame(midx, p))
          /\ plan' = [plan EXCEPT ![midx] = p]
          /\ \/ mpc' = "sigs" /\ midx' = midx
             \/ midx' = midx + 1 /\ mpc' = mpc
    BY <1>6, PlanSent
  <2>2. /\ mpc = "plan" /\ midx \in Files /\ UNCHANGED <<inbox, down, events, server, worker>>
    BY <1>6, PlanSent
  <2> DEFINE m == PlanFrame(midx, p)
  <2>3. m \in UpFrames /\ m.op = "FilePlan" /\ m.f = midx
    BY <2>1 DEF PlanFrame
  <2>4. ToWorker' = Append(ToWorker, m) /\ UNCHANGED <<apc, aplan>>
    BY <2>1, <2>2, CtrlSends DEF worker
  <2>5. plan'[midx] = p /\ \A f \in Files : f # midx => plan'[f] = plan[f]
    BY <1>0, <2>1, <2>2
  <2>6. midx < LastFile + 1 /\ ~(apc \in {"data", "stream"})
    BY <1>0, <1>2, <2>2 DEF PlansAgree
  <2> HIDE DEF m
  <2>7. SentPlans'
    <3>1. ASSUME NEW i \in 1..Len(ToWorker), ToWorker[i].op = "FilePlan"
          PROVE  LET f == ToWorker[i].f IN
                 f \in Files /\ ToWorker[i] = PlanFrame(f, plan'[f]) /\ f < midx'
      <4>1. LET f == ToWorker[i].f IN
            f \in Files /\ ToWorker[i] = PlanFrame(f, plan[f]) /\ f < midx
        BY <1>2, <2>2, <3>1 DEF SentPlans
      <4> QED
        BY <1>0, <2>1, <2>5, <4>1
    <3>2. m = PlanFrame(m.f, plan'[m.f]) /\ (m.f < midx' \/ (m.f = midx' /\ mpc' = "sigs"))
      BY <1>0, <2>1, <2>3, <2>5 DEF m
    <3>3. \A i \in 1..Len(ToWorker') : i \in 1..Len(ToWorker) \/ i = Len(ToWorker) + 1
      BY <1>0, <1>3, <2>3, <2>4
    <3> QED
      BY <1>3, <2>2, <2>3, <2>4, <3>1, <3>2, <3>3 DEF SentPlans
  <2>8. PlansArrive'
    <3>1. ASSUME NEW f \in Files, Planned(f)'
          PROVE  PlanAt(ToWorker', aplan', plan', Len(ToWorker') + 1, f)
      <4>1. CASE f = midx
        <5>1. Len(ToWorker') + 1 = Len(ToWorker) + 2
          BY <1>0, <1>3, <2>3, <2>4
        <5>2. m = PlanFrame(f, plan'[f])
          BY <2>5, <4>1 DEF m
        <5> QED
          BY <1>0, <2>3, <2>4, <5>1, <5>2, PlanSends
      <4>2. CASE f # midx
        <5>1. Planned(f) /\ plan'[f] = plan[f]
          <6>1. f < midx' \/ f = midx'
            BY <3>1 DEF Planned
          <6>2. midx' = midx \/ midx' = midx + 1
            BY <2>1
          <6>3. midx' = midx + 1 => f # midx'
            BY <2>1, <2>2, <3>1 DEF Planned
          <6>4. f < midx
            BY <1>0, <4>2, <6>1, <6>2, <6>3
          <6> QED
            BY <2>5, <4>2, <6>4 DEF Planned
        <5>2. PlanAt(ToWorker', aplan, plan, Len(ToWorker') + 1, f)
          BY <1>2, <1>3, <2>3, <2>4, <5>1 DEF PlansArrive
        <5> QED
          BY <2>4, <5>1, <5>2 DEF PlanAt
      <4> QED
        BY <4>1, <4>2
    <3> QED
      BY <3>1 DEF PlansArrive
  <2>9. EndsPlans'
    BY <1>0, <1>2, <1>3, <2>3, <2>4, <2>6 DEF EndsPlans
  <2>10. PlansAgree'
    BY <2>4, <2>6 DEF PlansAgree
  <2> QED
    BY <1>4, <2>7, <2>8, <2>9, <2>10
<1>7. CASE SendSigs
  <2>1. /\ mpc = "sigs" /\ midx \in Files /\ UNCHANGED plan
        /\ UNCHANGED <<inbox, down, events, server, worker>>
        /\ \/ mpc' = "plan" /\ midx' = midx + 1
           \/ mpc' = mpc /\ midx' = midx
    BY <1>7, SigsSent
  <2>2. PICK m \in UpFrames : MainSend(m) /\ m.op = "FileSigs"
    BY <1>7, SigsSent
  <2>3. ToWorker' = Append(ToWorker, m) /\ UNCHANGED <<apc, aplan>>
    BY <2>1, <2>2, CtrlSends DEF worker
  <2>4. midx < LastFile + 1 /\ ~(apc \in {"data", "stream"})
    BY <1>0, <1>2, <2>1 DEF PlansAgree
  <2>5. \A i \in 1..Len(ToWorker') : i \in 1..Len(ToWorker) \/ i = Len(ToWorker) + 1
    BY <1>0, <1>3, <2>3
  <2>6. SentPlans'
    <3>1. \A f \in Files : f < midx \/ (f = midx /\ mpc \in {"sigs", "exit"}) =>
            f < midx' \/ (f = midx' /\ mpc' \in {"sigs", "exit"})
      BY <1>0, <2>1
    <3> QED
      BY <1>2, <1>3, <2>1, <2>2, <2>3, <2>5, <3>1 DEF SentPlans
  <2>7. PlansArrive'
    <3>1. \A f \in Files : Planned(f)' => Planned(f)
      BY <1>0, <2>1 DEF Planned
    <3> QED
      BY <1>2, <1>3, <2>1, <2>3, <3>1 DEF PlansArrive
  <2>8. EndsPlans'
    <3>1. \A i \in 1..Len(ToWorker) : ToWorker[i].op # "PlanEnd"
      BY <1>0, <1>2, <2>4 DEF EndsPlans
    <3>2. \A i \in 1..Len(ToWorker') : ToWorker'[i].op # "PlanEnd"
      BY <1>3, <2>2, <2>3, <2>5, <3>1
    <3> QED
      BY <3>2 DEF EndsPlans
  <2>9. PlansAgree'
    BY <2>3, <2>4 DEF PlansAgree
  <2> QED
    BY <1>4, <2>6, <2>7, <2>8, <2>9
<1>8. CASE SendPlanEnd
  <2>1. /\ mpc = "plan" /\ mpc' = "data" /\ midx = LastFile + 1 /\ MainSend(Msg("PlanEnd"))
        /\ UNCHANGED <<midx, plan>> /\ UNCHANGED <<inbox, down, events, server, worker>>
    BY <1>8 DEF SendPlanEnd
  <2>2. Msg("PlanEnd") \in UpFrames /\ Msg("PlanEnd").op = "PlanEnd"
    BY DEF Msg, UpFrames
  <2>3. ToWorker' = Append(ToWorker, Msg("PlanEnd")) /\ UNCHANGED <<apc, aplan>>
    BY <2>1, <2>2, CtrlSends DEF worker
  <2>4. \A i \in 1..Len(ToWorker') : i \in 1..Len(ToWorker) \/ i = Len(ToWorker) + 1
    BY <1>0, <1>3, <2>2, <2>3
  <2>5. SentPlans'
    BY <1>2, <1>3, <2>1, <2>2, <2>3, <2>4 DEF SentPlans
  <2>6. PlansArrive'
    BY <1>2, <1>3, <2>1, <2>2, <2>3 DEF PlansArrive, Planned
  <2>7. EndsPlans'
    <3>1. \A f \in Files : PlanAt(ToWorker, aplan, plan, Len(ToWorker) + 1, f)
      BY <1>0, <1>2, <2>1 DEF PlansArrive, Planned
    <3>2. \A i \in 1..Len(ToWorker) : i \in 1..Len(ToWorker) + 1
      BY <1>0
    <3>3. Len(ToWorker) + 1 \in 1..Len(ToWorker) + 1
      BY <1>0
    <3> QED
      BY <1>2, <1>3, <2>1, <2>2, <2>3, <2>4, <3>1, <3>2, <3>3 DEF EndsPlans
  <2>8. PlansAgree'
    BY <1>2, <2>1, <2>3 DEF PlansAgree
  <2> QED
    BY <1>4, <2>5, <2>6, <2>7, <2>8
<1>9. CASE \/ MakeRoot \/ ScanFails \/ Timeout \/ LinkLost
           \/ RecvEntry \/ RecvManifestEnd \/ RecvStart \/ RecvData \/ RecvFileEnd \/ RecvDone
           \/ RecvRefuse \/ WriteFails
  <2>1. UNCHANGED <<up, inbox, midx, plan, apc, aplan>>
    BY <1>9 DEF MakeRoot, ScanFails, Timeout, LinkLost, RecvEntry, RecvManifestEnd, RecvStart,
      RecvData, RecvFileEnd, RecvDone, RecvRefuse, WriteFails, Fail, queues, worker
  <2>2. mpc' = "exit" \/ (mpc \notin {"sigs", "exit"} /\ mpc' # "sigs")
    BY <1>9 DEF MakeRoot, ScanFails, Timeout, LinkLost, RecvEntry, RecvManifestEnd, RecvStart,
      RecvData, RecvFileEnd, RecvDone, RecvRefuse, WriteFails, Fail, Exit
  <2>3. ToWorker' = ToWorker
    BY <2>1 DEF ToWorker
  <2> QED
    BY <2>1, <2>2, <2>3, PlanRests
<1>10. CASE WorkerWalk \/ WorkerStart \/ WorkerStream \/ WorkerEndFile \/ WorkerFinish \/ WorkerFails
            \/ WorkerQuits
  <2>1. /\ UNCHANGED <<up, inbox, midx, plan, mpc, aplan>>
        /\ apc' \in {"data", "stream"} => apc \in {"data", "stream"}
    BY <1>10 DEF WorkerWalk, WorkerStart, WorkerStream, WorkerEndFile, WorkerFinish, WorkerFails,
      WorkerQuits, ctrl, queues
  <2>2. ToWorker' = ToWorker
    BY <2>1 DEF ToWorker
  <2> QED
    BY <2>1, <2>2, PlanRests
<1>11. CASE Between
  <2>1. UNCHANGED <<ToWorker, ctrl, worker>>
    BY <1>11, BetweenSteps DEF Cancelled
  <2>2. UNCHANGED <<ToWorker, midx, plan, mpc, apc, aplan>>
    BY <2>1 DEF ctrl, worker
  <2> QED
    BY <2>2, PlanRests
<1>12. CASE WorkerBegin \/ WorkerPlan
  <2>1. Take /\ UNCHANGED <<ctrl, up, down, events, server>>
    BY <1>12 DEF WorkerBegin, WorkerPlan
  <2>2. /\ ToWorker # <<>> /\ ToWorker' = Tail(ToWorker) /\ Head(inbox) = Head(ToWorker)
        /\ Head(inbox) = ToWorker[1] /\ 1 \in 1..Len(ToWorker) /\ Head(inbox) \in UpFrames
        /\ UNCHANGED <<mpc, midx, plan>>
    BY <2>1, WorkerTakes DEF ctrl
  <2>3. /\ Len(ToWorker') = Len(ToWorker) - 1
        /\ \A i \in 1..Len(ToWorker') : /\ ToWorker'[i] = ToWorker[i + 1]
                                         /\ i \in 1..Len(ToWorker) /\ i + 1 \in 1..Len(ToWorker)
    BY <1>0, <2>2, HeadAndTail
  <2>4. SentPlans'
    BY <1>2, <2>2, <2>3 DEF SentPlans
  <2>5. ASSUME \A f \in Files : aplan[f] = plan[f] \/ Head(inbox) = PlanFrame(f, plan[f]) => aplan'[f] = plan[f]
        PROVE  PlansArrive' /\ EndsPlans'
    <3>1. ASSUME NEW i \in 1..Len(ToWorker), NEW f \in Files, PlanAt(ToWorker, aplan, plan, i + 1, f)
          PROVE  PlanAt(ToWorker', aplan', plan, i, f)
      BY <1>0, <2>2, <2>5, <3>1, PlanTakes
    <3>2. PlansArrive'
      <4>1. Len(ToWorker) \in 1..Len(ToWorker) /\ Len(ToWorker') + 1 = Len(ToWorker)
        BY <1>0, <2>2, <2>3
      <4> QED
        BY <1>2, <2>2, <3>1, <4>1 DEF PlansArrive, Planned
    <3>3. EndsPlans'
      BY <1>2, <2>2, <2>3, <3>1 DEF EndsPlans
    <3> QED
      BY <3>2, <3>3
  <2>6. CASE WorkerBegin
    <3>1. aplan' = aplan /\ apc = "idle" /\ apc' = "walk"
      BY <2>6 DEF WorkerBegin
    <3>2. Head(inbox).op = "PullBegin"
      BY <2>2, <3>1 DEF RouteInv
    <3>3. \A f \in Files : Head(inbox) # PlanFrame(f, plan[f])
      BY <3>2 DEF PlanFrame
    <3>4. PlansAgree'
      BY <3>1 DEF PlansAgree
    <3> QED
      BY <1>4, <2>4, <2>5, <3>1, <3>3, <3>4
  <2>7. CASE WorkerPlan /\ Head(inbox).op = "FilePlan"
    <3>1. aplan' = [aplan EXCEPT ![Head(inbox).f] = Head(inbox).plan] /\ apc = "plans" /\ apc' = apc
      BY <2>7 DEF WorkerPlan
    <3>2. PICK g \in Files : Head(inbox) = PlanFrame(g, plan[g])
      BY <1>2, <2>2, <2>7 DEF SentPlans
    <3>3. aplan' = [aplan EXCEPT ![g] = plan[g]]
      <4>1. Head(inbox).f = g /\ Head(inbox).plan = plan[g]
        BY <3>2 DEF PlanFrame
      <4> QED
        BY <3>1, <4>1
    <3>4. \A f \in Files : aplan[f] = plan[f] \/ Head(inbox) = PlanFrame(f, plan[f]) => aplan'[f] = plan[f]
      BY <1>0, <3>2, <3>3 DEF PlanFrame
    <3>5. PlansAgree'
      BY <3>1 DEF PlansAgree
    <3> QED
      BY <1>4, <2>4, <2>5, <3>4, <3>5
  <2>8. CASE WorkerPlan /\ Head(inbox).op = "FileSigs"
    <3>1. aplan' = aplan /\ apc = "plans" /\ apc' = apc
      BY <2>8 DEF WorkerPlan
    <3>2. \A f \in Files : Head(inbox) # PlanFrame(f, plan[f])
      BY <2>8 DEF PlanFrame
    <3>3. PlansAgree'
      BY <3>1 DEF PlansAgree
    <3> QED
      BY <1>4, <2>4, <2>5, <3>1, <3>2, <3>3
  <2>9. CASE WorkerPlan /\ Head(inbox).op = "PlanEnd"
    <3>1. aplan' = aplan /\ apc = "plans" /\ apc' = "data"
      BY <2>9 DEF WorkerPlan
    <3>2. \A f \in Files : Head(inbox) # PlanFrame(f, plan[f])
      BY <2>9 DEF PlanFrame
    <3>3. midx = LastFile + 1 /\ \A f \in Files : PlanAt(ToWorker, aplan, plan, 1, f)
      BY <1>2, <2>2, <2>9 DEF EndsPlans
    <3>4. \A f \in Files : aplan[f] = plan[f]
      <4>1. \A x : ~Ahead(ToWorker, 1, x)
        BY DEF Ahead
      <4> QED
        BY <3>3, <4>1 DEF PlanAt
    <3>5. aplan = plan
      BY <1>0, <3>4
    <3>6. PlansAgree'
      BY <2>2, <3>1, <3>3, <3>5 DEF PlansAgree
    <3> QED
      BY <1>4, <2>4, <2>5, <3>1, <3>2, <3>6
  <2> QED
    BY <1>12, <2>6, <2>7, <2>8, <2>9 DEF WorkerPlan
<1> QED
  BY Steps, <1>5, <1>6, <1>7, <1>8, <1>9, <1>10, <1>11, <1>12 DEF CtrlStep, WorkerStep

----------------------------------------------------------------------------
(* The four ways in which the destination changes, or does not.              *)
Made(e) == /\ NextEvent /\ Head(events) = Makers[e]
           /\ UNCHANGED <<up, inbox, down, server, worker>>
           /\ dest' = [dest EXCEPT ![e] = "new"]
           /\ mpc' = mpc

LEMMA DestMoves ==
  ASSUME TypeOK, ListInv, FrameInv, [Next]_vars
  PROVE  \/ UNCHANGED dest
         \/ mpc = "manifest" /\ \E e \in Entries \ Files : Made(e)
         \/ mpc = "data" /\ \E f \in Files : Made(f)
         \/ mpc = "manifest" /\ mpc' = "exit" /\ rc' = 6 /\ \E l \in Links : dest' = [dest EXCEPT ![l] = "none"]
<1>1. CASE RecvEntry
  <2>1. /\ mpc = "manifest" /\ NextEvent /\ Head(events).op = "Entry"
        /\ UNCHANGED <<up, inbox, down, server, worker>>
    BY <1>1 DEF RecvEntry
  <2>2. Head(events).f \in Entries /\ Head(events) \in DownFrames
    BY <2>1, NextEntry, CtrlTakes
  <2>3. Head(events) = FileMsg("Entry", Head(events).f)
    BY <2>1, <2>2 DEF FileMsg, DownFrames
  <2>4. \/ UNCHANGED dest
        \/ Head(events).f \notin Files /\ dest' = [dest EXCEPT ![Head(events).f] = "new"] /\ mpc' = mpc
        \/ Head(events).f \in Links /\ dest' = [dest EXCEPT ![Head(events).f] = "none"] /\ mpc' = "exit" /\ rc' = 6
    BY <1>1 DEF RecvEntry, Fail, Exit
  <2>5. CASE Head(events).f \notin Files /\ dest' = [dest EXCEPT ![Head(events).f] = "new"] /\ mpc' = mpc
    <3>1. Made(Head(events).f)
      BY <2>1, <2>2, <2>3, <2>5 DEF Made, Makers
    <3> QED
      BY <2>1, <2>2, <2>5, <3>1
  <2> QED
    BY <2>1, <2>4, <2>5
<1>2. CASE RecvFileEnd
  <2>1. /\ mpc = "data" /\ NextEvent /\ Head(events).op = "FileEnd" /\ cur # 0 /\ good
        /\ dest' = [dest EXCEPT ![cur] = IF good THEN "new" ELSE "bad"]
        /\ UNCHANGED <<up, inbox, down, server, worker>> /\ mpc' = mpc
    BY <1>2 DEF RecvFileEnd, Verified
  <2>2. Head(events).f = cur /\ Head(events) \in DownFrames
    BY <2>1, RightFile, CtrlTakes
  <2>3. cur \in Files
    BY <2>1, TypeParts DEF TypeCtrl
  <2>4. Head(events) = FileMsg("FileEnd", cur)
    BY <2>1, <2>2 DEF FileMsg, DownFrames
  <2>5. Made(cur)
    BY <2>1, <2>3, <2>4, Numbering DEF Made, Makers
  <2> QED
    BY <2>1, <2>3, <2>5
<1>3. CASE \/ SendBegin \/ MakeRoot \/ RecvManifestEnd \/ SendPlan \/ SendSigs \/ SendPlanEnd
           \/ RecvStart \/ RecvData \/ RecvDone \/ RecvRefuse
           \/ ScanFails \/ WriteFails \/ LinkLost \/ Timeout
  BY <1>3 DEF SendBegin, MakeRoot, RecvManifestEnd, SendPlan, SendSigs, SendPlanEnd, RecvStart,
    RecvData, RecvDone, RecvRefuse, ScanFails, WriteFails, LinkLost, Timeout
<1>4. CASE WorkerStep \/ WorkerFails \/ WorkerQuits \/ Between
  <2>1. UNCHANGED ctrl
    BY <1>4 DEF WorkerStep, WorkerBegin, WorkerWalk, WorkerPlan, WorkerStart, WorkerStream,
      WorkerEndFile, WorkerFinish, WorkerFails, WorkerQuits, Between, Reader, ServerStep, RemoveRoute, AgentLeaves,
      AgentDies, CtrlGone, Finished, vars
  <2> QED
    BY <2>1 DEF ctrl
<1> QED
  BY Steps, <1>1, <1>2, <1>3, <1>4 DEF CtrlStep

(* so what is new stays new, but for a link that fails and ends the pull *)
LEMMA NewStays ==
  ASSUME TypeOK, ListInv, FrameInv, [Next]_vars
  PROVE  \A e \in Entries : dest[e] = "new" /\ (mpc' # "exit" \/ e \in Files) => dest'[e] = "new"
<1>1. dest \in [Entries -> {"none", "old", "new", "bad"}] /\ Files \cap Links = {}
  BY TypeParts, Numbering DEF TypeCtrl
<1> QED
  BY <1>1, DestMoves DEF Made

LEMMA SendInit == Init => SendInv
BY DEF Init, SendInv

LEMMA SendStep ==
  ASSUME TypeOK, RouteInv, SendInv, ListInv, DestInv, FrameInv, [Next]_vars
  PROVE  SendInv'
<1>0. /\ Files = FirstFile..LastFile /\ FirstFile \in Nat \ {0} /\ LastFile \in Nat
      /\ FirstFile <= LastFile + 1 /\ Files \subseteq Entries
      /\ aidx \in 1..LastFile + 1 /\ plan \in [Files -> Plans] /\ midx \in Nat
  BY Numbering, TypeParts, SMTT(60) DEF TypeCtrl, TypeWorker
<1>1. /\ mpc = "sigs" => midx \in Files
      /\ apc = "plans" => aidx = FirstFile
      /\ apc = "stream" => aidx \in Files /\ aplan[aidx] # "skip"
      /\ apc = "data" => aidx >= FirstFile
      /\ \A f \in Files : plan[f] = "skip" => dest[f] = "new"
  BY DEF SendInv
<1>2. mpc' = "sigs" => midx' \in Files
  <2>1. CASE SendPlan \/ SendSigs
    BY <2>1, PlanSent, SigsSent
  <2>2. CASE \/ SendBegin \/ MakeRoot \/ RecvEntry \/ RecvManifestEnd \/ SendPlanEnd
             \/ RecvStart \/ RecvData \/ RecvFileEnd \/ RecvDone \/ RecvRefuse
             \/ ScanFails \/ WriteFails \/ LinkLost \/ Timeout
    BY <2>2 DEF SendBegin, MakeRoot, RecvEntry, RecvManifestEnd, SendPlanEnd, RecvStart,
      RecvData, RecvFileEnd, RecvDone, RecvRefuse, ScanFails, WriteFails, LinkLost, Timeout, Fail, Exit
  <2>3. CASE WorkerStep \/ WorkerFails \/ WorkerQuits \/ Between
    <3>1. UNCHANGED ctrl
      BY <2>3 DEF WorkerStep, WorkerBegin, WorkerWalk, WorkerPlan, WorkerStart, WorkerStream,
        WorkerEndFile, WorkerFinish, WorkerFails, WorkerQuits, Between, Reader, ServerStep, RemoveRoute, AgentLeaves,
        AgentDies, CtrlGone, Finished, vars
    <3> QED
      BY <1>1, <3>1 DEF ctrl
  <2> QED
    BY Steps, <2>1, <2>2, <2>3 DEF CtrlStep
<1>3. \A f \in Files : plan'[f] = "skip" => dest'[f] = "new"
  <2>1. \A f \in Files : dest[f] = "new" => dest'[f] = "new"
    BY <1>0, NewStays
  <2>2. CASE SendPlan
    <3>1. PICK p \in Plans : plan' = [plan EXCEPT ![midx] = p] /\ (p = "skip" => dest[midx] = "new")
      BY <2>2, PlanSent
    <3> QED
      BY <1>0, <1>1, <2>1, <3>1
  <2>3. CASE \/ SendBegin \/ MakeRoot \/ RecvEntry \/ RecvManifestEnd \/ SendSigs \/ SendPlanEnd
             \/ RecvStart \/ RecvData \/ RecvFileEnd \/ RecvDone \/ RecvRefuse
             \/ ScanFails \/ WriteFails \/ LinkLost \/ Timeout
    <3>1. UNCHANGED plan
      BY <2>3 DEF SendBegin, MakeRoot, RecvEntry, RecvManifestEnd, SendSigs, SendPlanEnd, RecvStart,
        RecvData, RecvFileEnd, RecvDone, RecvRefuse, ScanFails, WriteFails, LinkLost, Timeout, Fail
    <3> QED
      BY <1>1, <2>1, <3>1
  <2>4. CASE WorkerStep \/ WorkerFails \/ WorkerQuits \/ Between
    <3>1. UNCHANGED ctrl
      BY <2>4 DEF WorkerStep, WorkerBegin, WorkerWalk, WorkerPlan, WorkerStart, WorkerStream,
        WorkerEndFile, WorkerFinish, WorkerFails, WorkerQuits, Between, Reader, ServerStep, RemoveRoute, AgentLeaves,
        AgentDies, CtrlGone, Finished, vars
    <3> QED
      BY <1>1, <2>1, <3>1 DEF ctrl
  <2> QED
    BY Steps, <2>2, <2>3, <2>4 DEF CtrlStep
<1>4. /\ apc' = "plans" => aidx' = FirstFile
      /\ apc' = "stream" => aidx' \in Files /\ aplan'[aidx'] # "skip"
      /\ apc' = "data" => aidx' >= FirstFile
  <2>1. CASE CtrlStep \/ ScanFails \/ WriteFails \/ LinkLost \/ Timeout
    <3>1. UNCHANGED worker
      BY <2>1 DEF CtrlStep, SendBegin, MakeRoot, RecvEntry, RecvManifestEnd, SendPlan, SendSigs,
        SendPlanEnd, RecvStart, RecvData, RecvFileEnd, RecvDone, RecvRefuse, ScanFails,
        WriteFails, LinkLost, Timeout
    <3> QED
      BY <1>1, <3>1 DEF worker
  <2>2. CASE WorkerWalk \/ WorkerBegin
    BY <1>0, <2>2 DEF WorkerWalk, WorkerBegin
  <2>3. CASE WorkerPlan
    <3>1. apc = "plans" /\ apc' \in {"plans", "data"} /\ aidx' = aidx
      BY <2>3 DEF WorkerPlan
    <3> QED
      BY <1>0, <1>1, <3>1
  <2>4. CASE WorkerStart
    <3>1. /\ apc = "data" /\ aidx <= LastFile /\ UNCHANGED aplan
          /\ \/ aplan[aidx] = "skip" /\ aidx' = aidx + 1 /\ apc' = apc
             \/ aplan[aidx] # "skip" /\ apc' = "stream" /\ aidx' = aidx
      BY <2>4 DEF WorkerStart
    <3> QED
      BY <1>0, <1>1, <3>1
  <2>5. CASE WorkerStream \/ WorkerFinish \/ WorkerFails \/ WorkerQuits
    BY <1>1, <2>5 DEF WorkerStream, WorkerFinish, WorkerFails, WorkerQuits
  <2>6. CASE WorkerEndFile
    <3>1. apc = "stream" /\ apc' = "data" /\ aidx' = aidx + 1
      BY <2>6 DEF WorkerEndFile
    <3> QED
      BY <1>0, <1>1, <3>1
  <2>7. CASE Between
    BY <1>1, <2>7, BetweenSteps DEF worker, Cancelled
  <2> QED
    BY Steps, <2>1, <2>2, <2>3, <2>4, <2>5, <2>6, <2>7 DEF WorkerStep
<1> QED
  BY <1>2, <1>3, <1>4 DEF SendInv

----------------------------------------------------------------------------
(* Most steps of a pull that goes on leave what is on its way to the         *)
(* controller as it is, or add a frame that says nothing of entries.         *)
Quiet ==
  /\ UNCHANGED <<listed, cur, dest, aidx>>
  /\ mpc' \in {"plan", "sigs", "data"} => mpc \in {"plan", "sigs", "data"}
  /\ apc' \in {"idle", "walk"} => apc \in {"idle", "walk"}
  /\ apc' \in {"data", "stream"} => apc \in {"data", "stream"} \/ aidx = FirstFile
  /\ apc' = "stream" => apc = "stream"
  /\ \/ ToCtrl' = ToCtrl
     \/ \E m \in DownFrames : m.op \in {"Error", "TransferFailed", "Data", "Copy"} /\ ToCtrl' = Append(ToCtrl, m)

LEMMA Kinds ==
  ASSUME TypeOK, FramesOK, RouteInv, SendInv, DestInv, [Next]_vars, mpc' # "exit"
  PROVE  /\ mpc # "exit"
         /\ \/ Quiet
            \/ RecvEntry \/ RecvManifestEnd \/ RecvStart \/ RecvData \/ RecvFileEnd
            \/ WorkerWalk \/ WorkerStart \/ WorkerEndFile \/ WorkerFinish
<1>1. CASE SendBegin \/ SendPlan \/ SendSigs \/ SendPlanEnd \/ MakeRoot
  <2>1. /\ UNCHANGED <<listed, cur, dest, down, events, worker>> /\ mpc # "exit"
        /\ mpc' \in {"plan", "sigs", "data"} => mpc \in {"plan", "sigs", "data"}
    BY <1>1 DEF SendBegin, SendPlan, SendSigs, SendPlanEnd, MakeRoot, Exit, queues
  <2>2. ToCtrl' = ToCtrl /\ UNCHANGED <<apc, aidx>>
    BY <2>1 DEF ToCtrl, worker
  <2> QED
    BY <2>1, <2>2 DEF Quiet
<1>2. CASE WorkerBegin \/ WorkerPlan
  <2>1. /\ UNCHANGED <<ctrl, down, events, aidx>>
        /\ \/ apc = "idle" /\ apc' = "walk"
           \/ apc = "plans" /\ apc' \in {"plans", "data"}
    BY <1>2 DEF WorkerBegin, WorkerPlan
  <2>2. ToCtrl' = ToCtrl
    BY <2>1 DEF ToCtrl
  <2>3. apc = "plans" => aidx = FirstFile
    BY DEF SendInv
  <2> QED
    BY <2>1, <2>2, <2>3 DEF Quiet, ctrl
<1>3. CASE WorkerStream
  <2>1. /\ aleft # <<>> /\ SendDown(Head(aleft)) /\ UNCHANGED <<ctrl, up, inbox, events, server>>
        /\ UNCHANGED <<apc, aidx>>
    BY <1>3 DEF WorkerStream
  <2>2. Head(aleft) \in DownFrames /\ Head(aleft).op \in {"Data", "Copy"}
    BY <2>1, TypeParts, HeadAndTail DEF TypeWorker, FramesOK
  <2>3. ToCtrl' = Append(ToCtrl, Head(aleft))
    BY <2>1, <2>2, WorkerSends
  <2> QED
    BY <2>1, <2>2, <2>3 DEF Quiet, ctrl
<1>4. CASE WorkerFails
  <2>1. /\ apc' = "over" /\ UNCHANGED <<ctrl, up, inbox, events, server, aidx>>
        /\ \E op \in {"TransferFailed", "Error"} : SendDown(Msg(op))
    BY <1>4 DEF WorkerFails
  <2>2. PICK op \in {"TransferFailed", "Error"} : SendDown(Msg(op))
    BY <2>1
  <2>3. Msg(op) \in DownFrames /\ Msg(op).op = op
    BY DEF Msg, DownFrames
  <2>4. ToCtrl' = Append(ToCtrl, Msg(op))
    BY <2>1, <2>2, <2>3, WorkerSends
  <2> QED
    BY <2>1, <2>3, <2>4 DEF Quiet, ctrl
<1>9. CASE WorkerQuits
  <2>1. apc' = "quit" /\ UNCHANGED <<ctrl, down, events, aidx>>
    BY <1>9 DEF WorkerQuits, queues
  <2>2. ToCtrl' = ToCtrl
    BY <2>1 DEF ToCtrl
  <2> QED
    BY <2>1, <2>2 DEF Quiet, ctrl
<1>5. CASE Between
  <2>1. /\ UNCHANGED ctrl /\ (UNCHANGED worker \/ Cancelled)
        /\ ToCtrl' = ToCtrl \/ ToCtrl' = Append(ToCtrl, Msg("Error"))
    BY <1>5, BetweenSteps DEF ctrl
  <2>2. Msg("Error") \in DownFrames /\ Msg("Error").op = "Error"
    BY DEF Msg, DownFrames
  <2>3. aidx' = aidx /\ (apc' = apc \/ apc' = "over")
    BY <2>1 DEF worker, Cancelled
  <2>4. UNCHANGED <<listed, cur, dest, mpc>>
    BY <2>1 DEF ctrl
  <2>5. Quiet
    BY <2>1, <2>2, <2>3, <2>4 DEF Quiet
  <2> QED
    BY <2>4, <2>5
<1>6. CASE RecvDone \/ RecvRefuse \/ ScanFails \/ WriteFails \/ LinkLost \/ Timeout
  BY <1>6 DEF RecvDone, RecvRefuse, ScanFails, WriteFails, LinkLost, Timeout, Fail, Exit
<1>7. CASE RecvEntry \/ RecvManifestEnd \/ RecvStart \/ RecvData \/ RecvFileEnd
  BY <1>7 DEF RecvEntry, RecvManifestEnd, RecvStart, RecvData, RecvFileEnd
<1>8. CASE WorkerWalk \/ WorkerStart \/ WorkerEndFile \/ WorkerFinish
  BY <1>8 DEF WorkerWalk, WorkerStart, WorkerEndFile, WorkerFinish, ctrl
<1> QED
  BY Steps, <1>1, <1>2, <1>3, <1>4, <1>5, <1>6, <1>7, <1>8, <1>9 DEF CtrlStep, WorkerStep

(* ... and what the other steps do to that path. *)
LEMMA Heard ==
  ASSUME TypeOK, RecvManifestEnd \/ RecvStart \/ RecvData \/ RecvFileEnd \/ RecvEntry
  PROVE  /\ NextEvent /\ UNCHANGED <<up, inbox, down, server, worker, apc, aidx>>
         /\ ToCtrl # <<>> /\ Head(events) = Head(ToCtrl) /\ ToCtrl' = Tail(ToCtrl)
         /\ Head(events) = ToCtrl[1] /\ 1 \in 1..Len(ToCtrl) /\ Head(events) \in DownFrames
         /\ ToCtrl \in Seq(DownFrames)
         /\ RecvEntry => Head(events).op = "Entry"
         /\ RecvManifestEnd => Head(events).op = "ManifestEnd"
         /\ RecvStart => Head(events).op = "FileStart"
         /\ RecvData => Head(events).op \in {"Data", "Copy"}
         /\ RecvFileEnd => Head(events).op = "FileEnd"
<1>1. /\ NextEvent /\ UNCHANGED <<up, inbox, down, server, worker>>
      /\ RecvEntry => Head(events).op = "Entry"
      /\ RecvManifestEnd => Head(events).op = "ManifestEnd"
      /\ RecvStart => Head(events).op = "FileStart"
      /\ RecvData => Head(events).op \in {"Data", "Copy"}
      /\ RecvFileEnd => Head(events).op = "FileEnd"
  BY DEF RecvManifestEnd, RecvStart, RecvData, RecvFileEnd, RecvEntry
<1>2. UNCHANGED <<apc, aidx>>
  BY <1>1 DEF worker
<1> QED
  BY <1>1, <1>2, CtrlTakes, PathTypes DEF Paths

Adds(m) == m \in DownFrames /\ ToCtrl' = Append(ToCtrl, m)

LEMMA Told ==
  ASSUME TypeOK, SendInv, WorkerWalk \/ WorkerStart \/ WorkerEndFile \/ WorkerFinish
  PROVE  /\ UNCHANGED <<mpc, listed, cur, dest>> /\ ToCtrl \in Seq(DownFrames)
         /\ WorkerWalk =>
              /\ apc = "walk"
              /\ \/ aidx \in Entries /\ Adds(FileMsg("Entry", aidx)) /\ aidx' = aidx + 1 /\ apc' = "walk"
                 \/ aidx = LastFile + 1 /\ Adds(Msg("ManifestEnd")) /\ apc' = "plans"
         /\ WorkerStart =>
              /\ apc = "data" /\ aidx \in Files
              /\ \/ aplan[aidx] = "skip" /\ ToCtrl' = ToCtrl /\ apc' = "data" /\ aidx' = aidx + 1
                 \/ Adds(FileMsg("FileStart", aidx)) /\ apc' = "stream" /\ aidx' = aidx
         /\ WorkerEndFile =>
              /\ apc = "stream" /\ aidx \in Files
              /\ Adds(FileMsg("FileEnd", aidx)) /\ apc' = "data" /\ aidx' = aidx + 1
         /\ WorkerFinish =>
              /\ apc = "data" /\ aidx = LastFile + 1
              /\ Adds(Msg("TransferDone")) /\ apc' = "over"
<1>0. /\ Files = FirstFile..LastFile /\ FirstFile \in Nat \ {0} /\ LastFile \in Nat
      /\ Files \subseteq Entries /\ Entries = 1..LastFile /\ aidx \in 1..LastFile + 1
  BY Numbering, TypeParts DEF TypeWorker
<1>1. UNCHANGED <<ctrl, up, inbox, events, server>>
  BY DEF WorkerWalk, WorkerStart, WorkerEndFile, WorkerFinish
<1>2. /\ \A op \in {"ManifestEnd", "TransferDone"} : Msg(op) \in DownFrames
      /\ \A op \in {"Entry", "FileStart", "FileEnd"}, f \in Entries : FileMsg(op, f) \in DownFrames
  BY DEF Msg, FileMsg, DownFrames
<1>3. ASSUME NEW m \in DownFrames, SendDown(m) PROVE Adds(m)
  BY <1>1, <1>3, WorkerSends DEF Adds
<1>4. ASSUME WorkerWalk
      PROVE  /\ apc = "walk"
             /\ \/ aidx \in Entries /\ Adds(FileMsg("Entry", aidx)) /\ aidx' = aidx + 1 /\ apc' = "walk"
                \/ aidx = LastFile + 1 /\ Adds(Msg("ManifestEnd")) /\ apc' = "plans"
  <2>1. /\ apc = "walk"
        /\ aidx <= LastFile => SendDown(FileMsg("Entry", aidx)) /\ aidx' = aidx + 1 /\ apc' = apc
        /\ ~(aidx <= LastFile) => SendDown(Msg("ManifestEnd")) /\ apc' = "plans"
    BY <1>4 DEF WorkerWalk
  <2>2. aidx <= LastFile => aidx \in Entries
    BY <1>0
  <2>3. ~(aidx <= LastFile) => aidx = LastFile + 1
    BY <1>0
  <2> QED
    BY <1>2, <1>3, <2>1, <2>2, <2>3
<1>5. ASSUME WorkerStart
      PROVE  /\ apc = "data" /\ aidx \in Files
             /\ \/ aplan[aidx] = "skip" /\ ToCtrl' = ToCtrl /\ apc' = "data" /\ aidx' = aidx + 1
                \/ Adds(FileMsg("FileStart", aidx)) /\ apc' = "stream" /\ aidx' = aidx
  <2>1. /\ apc = "data" /\ aidx <= LastFile
        /\ \/ aplan[aidx] = "skip" /\ aidx' = aidx + 1 /\ apc' = apc /\ UNCHANGED down
           \/ SendDown(FileMsg("FileStart", aidx)) /\ apc' = "stream" /\ aidx' = aidx
    BY <1>5 DEF WorkerStart
  <2>2. aidx \in Files /\ aidx \in Entries
    BY <1>0, <2>1 DEF SendInv
  <2>3. UNCHANGED down => ToCtrl' = ToCtrl
    BY <1>1 DEF ToCtrl
  <2> QED
    BY <1>2, <1>3, <2>1, <2>2, <2>3
<1>6. ASSUME WorkerEndFile
      PROVE  /\ apc = "stream" /\ aidx \in Files
             /\ Adds(FileMsg("FileEnd", aidx)) /\ apc' = "data" /\ aidx' = aidx + 1
  <2>1. apc = "stream" /\ SendDown(FileMsg("FileEnd", aidx)) /\ apc' = "data" /\ aidx' = aidx + 1
    BY <1>6 DEF WorkerEndFile
  <2>2. aidx \in Files /\ aidx \in Entries
    BY <1>0, <2>1 DEF SendInv
  <2> QED
    BY <1>2, <1>3, <2>1, <2>2
<1>7. ASSUME WorkerFinish
      PROVE  apc = "data" /\ aidx = LastFile + 1 /\ Adds(Msg("TransferDone")) /\ apc' = "over"
  BY <1>2, <1>3, <1>7 DEF WorkerFinish
<1>8. UNCHANGED <<mpc, listed, cur, dest>> /\ ToCtrl \in Seq(DownFrames)
  BY <1>1, PathTypes DEF ctrl, Paths
<1> QED
  BY <1>4, <1>5, <1>6, <1>7, <1>8

----------------------------------------------------------------------------
LEMMA PathInit ==
  ASSUME Init
  PROVE  ListInv /\ DestInv /\ DoneInv /\ FrameInv
<1>1. ToCtrl = <<>> /\ Len(<<>>) = 0
  BY ConcatEmptySeq, EmptySeq DEF Init, TransferInit, ToCtrl
<1>2. ListInv
  BY <1>1 DEF Init, ListInv, Listing, NextAt
<1>3. DestInv
  BY DEF Init, DestInv, Before
<1>4. DoneInv
  BY <1>1 DEF Init, DoneInv, DoneBy
<1>5. FrameInv
  BY <1>1 DEF Init, FrameInv, Framing
<1> QED
  BY <1>2, <1>3, <1>4, <1>5

LEMMA ListStep ==
  ASSUME TypeOK, FramesOK, RouteInv, SendInv, DestInv, ListInv, [Next]_vars
  PROVE  ListInv'
<1> SUFFICES ASSUME mpc' # "exit"
             PROVE  /\ Listing(Listed, ToCtrl', listed')
                    /\ apc' \in {"idle", "walk"} => NextAt(Listed, ToCtrl', listed', Len(ToCtrl') + 1, aidx')
  BY DEF ListInv
<1>0. mpc # "exit"
  BY Kinds
<1>1. /\ Listing(Listed, ToCtrl, listed) /\ ToCtrl \in Seq(DownFrames) /\ Len(ToCtrl) \in Nat
      /\ apc \in {"idle", "walk"} => NextAt(Listed, ToCtrl, listed, Len(ToCtrl) + 1, aidx)
  BY <1>0, PathTypes, LenProperties DEF ListInv, Paths
<1>2. /\ listed \in Nat /\ Entries \subseteq Nat /\ aidx \in Nat
      /\ \A i \in 1..Len(ToCtrl) : ToCtrl[i].op = "Entry" => ToCtrl[i].f \in Nat
  BY PathTypes, DownFields, TypeParts, Numbering, SMTT(60) DEF TypeCtrl, TypeWorker
<1>3. ASSUME NEW m \in DownFrames, ToCtrl' = Append(ToCtrl, m), m.op \notin Listed, listed' = listed
      PROVE  /\ Listing(Listed, ToCtrl', listed')
             /\ \A e : NextAt(Listed, ToCtrl, listed, Len(ToCtrl) + 1, e) => NextAt(Listed, ToCtrl', listed', Len(ToCtrl') + 1, e)
  <2>1. Len(Append(ToCtrl, m)) + 1 = Len(ToCtrl) + 2
    BY <1>1, AppendProperties
  <2> QED
    BY <1>1, <1>3, <2>1, ListingSends
<1>4. CASE Quiet
  <2>1. UNCHANGED <<listed, aidx>> /\ (apc' \in {"idle", "walk"} => apc \in {"idle", "walk"})
    BY <1>4 DEF Quiet
  <2>2. CASE ToCtrl' = ToCtrl
    BY <1>1, <2>1, <2>2
  <2>3. CASE ToCtrl' # ToCtrl
    <3>1. PICK m \in DownFrames : m.op \notin Listed /\ ToCtrl' = Append(ToCtrl, m)
      BY <1>4, <2>3 DEF Quiet, Listed
    <3> QED
      BY <1>1, <1>3, <2>1, <3>1
  <2> QED
    BY <2>2, <2>3
<1>5. CASE RecvEntry
  <2>1. listed' = listed + 1
    BY <1>5 DEF RecvEntry, Fail, Exit
  <2>2. /\ Listing(Listed, ToCtrl', listed')
        /\ \A e \in Nat : NextAt(Listed, ToCtrl, listed, Len(ToCtrl) + 1, e) =>
             NextAt(Listed, ToCtrl', listed', Len(ToCtrl') + 1, e)
    BY <1>0, <1>5, <2>1, Heard, NextEntry
  <2> QED
    BY <1>1, <1>2, <1>5, <2>2, Heard
<1>6. CASE RecvManifestEnd \/ RecvStart \/ RecvData \/ RecvFileEnd
  <2>1. listed' = listed
    BY <1>6 DEF RecvManifestEnd, RecvStart, RecvData, RecvFileEnd
  <2>2. /\ ToCtrl # <<>> /\ ToCtrl' = Tail(ToCtrl) /\ Head(ToCtrl).op \notin Listed /\ UNCHANGED <<apc, aidx>>
    BY <1>6, Heard DEF Listed
  <2> QED
    BY <1>1, <2>1, <2>2, ListingTakes
<1>7. CASE WorkerWalk
  <2>1. CASE aidx \in Entries /\ Adds(FileMsg("Entry", aidx)) /\ aidx' = aidx + 1 /\ apc' = "walk"
    <3> DEFINE m == FileMsg("Entry", aidx)
    <3>1. /\ m \in DownFrames /\ ToCtrl' = Append(ToCtrl, m) /\ m.f = aidx /\ listed' = listed
          /\ m.op \in Listed /\ apc = "walk"
      BY <1>7, <2>1, Told DEF Adds, FileMsg, Listed
    <3>2. NextAt(Listed, ToCtrl, listed, Len(ToCtrl) + 1, m.f)
      BY <1>1, <3>1
    <3>3. Len(Append(ToCtrl, m)) + 1 = Len(ToCtrl) + 2
      BY <1>1, <3>1, AppendProperties
    <3>4. NextAt(Listed, Append(ToCtrl, m), listed, Len(ToCtrl) + 2, aidx + 1)
      <4>1. \A i \in 1..Len(ToCtrl) : ToCtrl[i].op \in Listed => ToCtrl[i].f \in Nat
        BY <1>2 DEF Listed
      <4> HIDE DEF m
      <4>2. NextAt(Listed, Append(ToCtrl, m), listed, Len(ToCtrl) + 2, m.f + 1)
        BY <1>1, <1>2, <3>1, <3>2, <4>1, ListingSendsEntry
      <4> QED
        BY <3>1, <4>2
    <3>5. Listing(Listed, Append(ToCtrl, m), listed)
      BY <1>1, <3>1, <3>2, ListingSends
    <3> QED
      BY <2>1, <3>1, <3>3, <3>4, <3>5
  <2>2. CASE Adds(Msg("ManifestEnd")) /\ apc' = "plans"
    <3>1. /\ Msg("ManifestEnd") \in DownFrames /\ ToCtrl' = Append(ToCtrl, Msg("ManifestEnd"))
          /\ Msg("ManifestEnd").op \notin Listed /\ listed' = listed
      BY <1>7, <2>2, Told DEF Adds, Msg, Listed
    <3> QED
      BY <1>3, <2>2, <3>1
  <2> QED
    BY <1>7, <2>1, <2>2, Told
<1>8. CASE WorkerStart \/ WorkerEndFile \/ WorkerFinish
  <2>1. apc' \notin {"idle", "walk"} /\ listed' = listed
    BY <1>8, Told
  <2>2. ToCtrl' = ToCtrl \/ \E m \in DownFrames : m.op \notin Listed /\ ToCtrl' = Append(ToCtrl, m)
    <3>1. /\ \A op \in {"FileStart", "FileEnd"} : FileMsg(op, aidx).op \notin Listed
          /\ Msg("TransferDone").op \notin Listed
      BY DEF FileMsg, Msg, Listed
    <3> QED
      BY <1>8, <3>1, Told DEF Adds
  <2> QED
    BY <1>1, <1>3, <2>1, <2>2
<1> QED
  BY Kinds, <1>4, <1>5, <1>6, <1>7, <1>8

LEMMA DestStep ==
  ASSUME TypeOK, FramesOK, RouteInv, SendInv, ListInv, DestInv, DoneInv, FrameInv, [Next]_vars
  PROVE  DestInv'
<1>0. dest \in [Entries -> {"none", "old", "new", "bad"}] /\ Files \subseteq Entries /\ Links \subseteq Entries
  BY TypeParts, Numbering DEF TypeCtrl
<1>1. \A e \in Entries : dest'[e] # "bad"
  BY <1>0, DestMoves DEF DestInv, Made
<1>2. ASSUME mpc' \in {"plan", "sigs", "data"}, NEW e \in Entries \ Files
      PROVE  dest'[e] = "new"
  <2>1. dest[e] = "new" => dest'[e] = "new"
    BY <1>2, NewStays
  <2>2. CASE RecvManifestEnd
    <3>1. /\ ToCtrl # <<>> /\ Head(ToCtrl).op = "ManifestEnd" /\ ToCtrl \in Seq(DownFrames)
          /\ mpc # "exit"
      BY <2>2, Heard DEF RecvManifestEnd
    <3>2. DoneBy(Makers, ToCtrl, dest, "ManifestEnd", Entries \ Files)
      BY <3>1 DEF DoneInv
    <3>3. \A x \in Entries \ Files : dest[x] = "new"
      <4> DEFINE E0 == Entries \ Files
      <4>1. DoneBy(Makers, ToCtrl, dest, "ManifestEnd", E0)
        BY <3>2
      <4> HIDE DEF E0
      <4>2. \A x \in E0 : dest[x] = "new"
        BY <3>1, <4>1, DoneNow, ZenonT(60)
      <4> QED
        BY <4>2 DEF E0
    <3> QED
      BY <1>2, <2>1, <3>3
  <2>3. CASE mpc \in {"plan", "sigs", "data"}
    BY <1>2, <2>1, <2>3 DEF DestInv
  <2>4. RecvManifestEnd \/ mpc \in {"plan", "sigs", "data"}
    <3>1. CASE Quiet
      BY <1>2, <3>1 DEF Quiet
    <3>2. CASE RecvEntry \/ RecvStart \/ RecvData \/ RecvFileEnd
      BY <1>2, <3>2 DEF RecvEntry, RecvStart, RecvData, RecvFileEnd, Fail, Exit
    <3>3. CASE WorkerWalk \/ WorkerStart \/ WorkerEndFile \/ WorkerFinish
      BY <1>2, <3>3, Told
    <3> QED
      BY <1>2, <3>1, <3>2, <3>3, Kinds
  <2> QED
    BY <2>2, <2>3, <2>4
<1> QED
  BY <1>1, <1>2 DEF DestInv

LEMMA DoneStep ==
  ASSUME TypeOK, FramesOK, RouteInv, PlanInv, SendInv, ListInv, DestInv, DoneInv, FrameInv, [Next]_vars
  PROVE  DoneInv'
<1> DEFINE Walked(q, d, k) == \A e \in 1..k - 1 : e \notin Files => DoneAt(Makers, q, d, Len(q) + 1, e)
           Sent(q, d, k) == \A f \in Files : f < k => DoneAt(Makers, q, d, Len(q) + 1, f)
<1> SUFFICES ASSUME mpc' # "exit"
             PROVE  /\ DoneBy(Makers, ToCtrl', dest', "ManifestEnd", Entries \ Files)
                    /\ DoneBy(Makers, ToCtrl', dest', "TransferDone", Files)
                    /\ apc' \in {"idle", "walk"} => Walked(ToCtrl', dest', aidx')
                    /\ apc' \in {"data", "stream"} => Sent(ToCtrl', dest', aidx')
  BY DEF DoneInv
<1>0. mpc # "exit"
  BY Kinds
<1>1. /\ DoneBy(Makers, ToCtrl, dest, "ManifestEnd", Entries \ Files)
      /\ DoneBy(Makers, ToCtrl, dest, "TransferDone", Files)
      /\ apc \in {"idle", "walk"} => Walked(ToCtrl, dest, aidx)
      /\ apc \in {"data", "stream"} => Sent(ToCtrl, dest, aidx)
  BY <1>0 DEF DoneInv
<1>2. /\ ToCtrl \in Seq(DownFrames) /\ Len(ToCtrl) \in Nat
      /\ Files = FirstFile..LastFile /\ FirstFile \in Nat \ {0} /\ LastFile \in Nat
      /\ Files \subseteq Entries /\ Entries = 1..LastFile /\ aidx \in 1..LastFile + 1
      /\ dest \in [Entries -> {"none", "old", "new", "bad"}]
  BY PathTypes, LenProperties, Numbering, TypeParts DEF Paths, TypeCtrl, TypeWorker
<1> HIDE DEF Walked, Sent
(* after a send *)
<1>3. ASSUME NEW m \in DownFrames, ToCtrl' = Append(ToCtrl, m), dest' = dest,
             m.op = "ManifestEnd" => \A e \in Entries \ Files : DoneAt(Makers, ToCtrl, dest, Len(ToCtrl) + 1, e),
             m.op = "TransferDone" => \A e \in Files : DoneAt(Makers, ToCtrl, dest, Len(ToCtrl) + 1, e)
      PROVE  /\ DoneBy(Makers, ToCtrl', dest', "ManifestEnd", Entries \ Files)
             /\ DoneBy(Makers, ToCtrl', dest', "TransferDone", Files)
             /\ \A e : DoneAt(Makers, ToCtrl, dest, Len(ToCtrl) + 1, e) => DoneAt(Makers, ToCtrl', dest', Len(ToCtrl') + 1, e)
             /\ \A e : m = Makers[e] => DoneAt(Makers, ToCtrl', dest', Len(ToCtrl') + 1, e)
             /\ \A k : Walked(ToCtrl, dest, k) => Walked(ToCtrl', dest', k)
             /\ \A k : Sent(ToCtrl, dest, k) => Sent(ToCtrl', dest', k)
  <2>1. Len(Append(ToCtrl, m)) + 1 = Len(ToCtrl) + 2
    BY <1>2, AppendProperties
  <2>2. /\ DoneBy(Makers, ToCtrl', dest', "ManifestEnd", Entries \ Files)
        /\ DoneBy(Makers, ToCtrl', dest', "TransferDone", Files)
        /\ \A e : DoneAt(Makers, ToCtrl, dest, Len(ToCtrl) + 1, e) => DoneAt(Makers, ToCtrl', dest', Len(ToCtrl') + 1, e)
        /\ \A e : m = Makers[e] => DoneAt(Makers, ToCtrl', dest', Len(ToCtrl') + 1, e)
    BY <1>1, <1>2, <1>3, <2>1, DoneSends
  <2>3. \A k : Walked(ToCtrl, dest, k) => Walked(ToCtrl', dest', k)
    BY <2>2 DEF Walked
  <2>4. \A k : Sent(ToCtrl, dest, k) => Sent(ToCtrl', dest', k)
    BY <2>2 DEF Sent
  <2> QED
    BY <2>2, <2>3, <2>4
(* after a receive *)
<1>4. ASSUME ToCtrl # <<>>, ToCtrl' = Tail(ToCtrl), UNCHANGED <<apc, aidx>>,
             \A e \in Entries : dest[e] = "new" \/ Head(ToCtrl) = Makers[e] => dest'[e] = "new"
      PROVE  /\ DoneBy(Makers, ToCtrl', dest', "ManifestEnd", Entries \ Files)
             /\ DoneBy(Makers, ToCtrl', dest', "TransferDone", Files)
             /\ apc' \in {"idle", "walk"} => Walked(ToCtrl', dest', aidx')
             /\ apc' \in {"data", "stream"} => Sent(ToCtrl', dest', aidx')
  <2>1. /\ DoneBy(Makers, ToCtrl', dest', "ManifestEnd", Entries \ Files)
        /\ DoneBy(Makers, ToCtrl', dest', "TransferDone", Files)
        /\ \A e \in Entries : DoneAt(Makers, ToCtrl, dest, Len(ToCtrl) + 1, e) => DoneAt(Makers, ToCtrl', dest', Len(ToCtrl') + 1, e)
    <3>1. (Entries \ Files) \in SUBSET Entries /\ Files \in SUBSET Entries
      BY <1>2
    <3> QED
      BY <1>1, <1>2, <1>4, <3>1, DoneTakes
  <2>2. Walked(ToCtrl, dest, aidx) => Walked(ToCtrl', dest', aidx)
    <3>1. \A e \in 1..aidx - 1 : e \in Entries
      BY <1>2
    <3> QED
      BY <2>1, <3>1 DEF Walked
  <2>3. Sent(ToCtrl, dest, aidx) => Sent(ToCtrl', dest', aidx)
    BY <1>2, <2>1 DEF Sent
  <2> QED
    BY <1>1, <1>4, <2>1, <2>2, <2>3
<1>5. CASE Quiet
  <2>1. /\ UNCHANGED <<dest, aidx>> /\ (apc' \in {"idle", "walk"} => apc \in {"idle", "walk"})
        /\ apc' \in {"data", "stream"} => apc \in {"data", "stream"} \/ aidx = FirstFile
    BY <1>5 DEF Quiet
  <2>2. aidx = FirstFile => Sent(ToCtrl', dest', aidx)
    BY <1>2 DEF Sent
  <2>3. CASE ToCtrl' = ToCtrl
    BY <1>1, <2>1, <2>2, <2>3
  <2>4. CASE ToCtrl' # ToCtrl
    <3>1. PICK m \in DownFrames : m.op \notin {"ManifestEnd", "TransferDone"} /\ ToCtrl' = Append(ToCtrl, m)
      BY <1>5, <2>4 DEF Quiet
    <3> QED
      BY <1>1, <1>3, <2>1, <2>2, <3>1
  <2> QED
    BY <2>3, <2>4
<1>6. CASE RecvEntry
  <2>1. Head(ToCtrl).op = "Entry" /\ ToCtrl # <<>> /\ ToCtrl' = Tail(ToCtrl) /\ UNCHANGED <<apc, aidx>>
    BY <1>6, Heard
  <2>2. ASSUME NEW e \in Entries, dest[e] = "new" \/ Head(ToCtrl) = Makers[e] PROVE dest'[e] = "new"
    <3>1. CASE dest[e] = "new"
      BY <3>1, NewStays
    <3>2. CASE Head(ToCtrl) = Makers[e]
      <4>1. e \notin Files /\ Head(events).f = e
        BY <1>6, <2>1, <3>2, Heard DEF Makers, FileMsg
      <4>2. dest' = [dest EXCEPT ![e] = "new"]
        BY <1>6, <4>1 DEF RecvEntry, Fail, Exit
      <4> QED
        BY <1>2, <4>2
    <3> QED
      BY <2>2, <3>1, <3>2
  <2> QED
    BY <1>4, <2>1, <2>2
<1>7. CASE RecvFileEnd
  <2>1. Head(ToCtrl).op = "FileEnd" /\ ToCtrl # <<>> /\ ToCtrl' = Tail(ToCtrl) /\ UNCHANGED <<apc, aidx>>
    BY <1>7, Heard
  <2>2. Head(ToCtrl).f = cur
    BY <1>0, <1>7, Heard, RightFile
  <2>3. ASSUME NEW e \in Entries, dest[e] = "new" \/ Head(ToCtrl) = Makers[e] PROVE dest'[e] = "new"
    <3>1. CASE dest[e] = "new"
      BY <3>1, NewStays
    <3>2. CASE Head(ToCtrl) = Makers[e]
      <4>1. e = cur
        BY <2>2, <3>2 DEF Makers, FileMsg
      <4>2. dest' = [dest EXCEPT ![cur] = "new"]
        BY <1>7 DEF RecvFileEnd, Verified
      <4> QED
        BY <1>2, <4>1, <4>2
    <3> QED
      BY <2>3, <3>1, <3>2
  <2> QED
    BY <1>4, <2>1, <2>3
<1>8. CASE RecvManifestEnd \/ RecvStart \/ RecvData
  <2>1. /\ Head(ToCtrl).op \notin {"Entry", "FileEnd"} /\ ToCtrl # <<>> /\ ToCtrl' = Tail(ToCtrl)
        /\ UNCHANGED <<apc, aidx>>
    BY <1>8, Heard
  <2>2. dest' = dest
    BY <1>8 DEF RecvManifestEnd, RecvStart, RecvData
  <2>3. \A e \in Entries : Head(ToCtrl) # Makers[e]
    BY <2>1 DEF Makers, FileMsg
  <2> QED
    BY <1>4, <2>1, <2>2, <2>3
<1>9. CASE WorkerWalk
  <2>1. dest' = dest /\ apc = "walk"
    BY <1>9, Told
  <2>2. CASE aidx \in Entries /\ Adds(FileMsg("Entry", aidx)) /\ aidx' = aidx + 1 /\ apc' = "walk"
    <3> DEFINE m == FileMsg("Entry", aidx)
    <3>1. m \in DownFrames /\ ToCtrl' = Append(ToCtrl, m) /\ m.op = "Entry"
      BY <2>2 DEF Adds, FileMsg
    <3>2. aidx \notin Files => m = Makers[aidx]
      BY <2>2 DEF Makers
    <3> HIDE DEF m
    <3>3. /\ DoneBy(Makers, ToCtrl', dest', "ManifestEnd", Entries \ Files)
          /\ DoneBy(Makers, ToCtrl', dest', "TransferDone", Files)
          /\ Walked(ToCtrl', dest', aidx)
          /\ aidx \notin Files => DoneAt(Makers, ToCtrl', dest', Len(ToCtrl') + 1, aidx)
      BY <1>1, <1>3, <2>1, <3>1, <3>2
    <3>4. Walked(ToCtrl', dest', aidx + 1)
      <4>1. \A e \in 1..(aidx + 1) - 1 : e \in 1..aidx - 1 \/ e = aidx
        BY <1>2
      <4> QED
        BY <3>3, <4>1 DEF Walked
    <3> QED
      BY <2>2, <3>3, <3>4
  <2>3. CASE aidx = LastFile + 1 /\ Adds(Msg("ManifestEnd")) /\ apc' = "plans"
    <3>1. /\ Msg("ManifestEnd") \in DownFrames /\ ToCtrl' = Append(ToCtrl, Msg("ManifestEnd"))
          /\ Msg("ManifestEnd").op = "ManifestEnd"
      BY <2>3 DEF Adds, Msg
    <3>2. \A e \in Entries \ Files : DoneAt(Makers, ToCtrl, dest, Len(ToCtrl) + 1, e)
      <4>1. Walked(ToCtrl, dest, LastFile + 1)
        BY <1>1, <2>1, <2>3
      <4>2. \A e \in Entries \ Files : e \in 1..(LastFile + 1) - 1
        BY <1>2
      <4> QED
        BY <4>1, <4>2 DEF Walked
    <3> QED
      BY <1>3, <2>1, <2>3, <3>1, <3>2
  <2> QED
    BY <1>9, <2>2, <2>3, Told
<1>10. CASE WorkerStart
  <2>1. dest' = dest /\ apc = "data" /\ aidx \in Files
    BY <1>10, Told
  <2>2. CASE aplan[aidx] = "skip" /\ ToCtrl' = ToCtrl /\ apc' = "data" /\ aidx' = aidx + 1
    <3>1. aplan = plan
      <4>1. PlansAgree
        BY <2>1 DEF PlanInv
      <4> QED
        BY <2>1, <4>1 DEF PlansAgree
    <3>2. dest[aidx] = "new"
      BY <2>1, <2>2, <3>1 DEF SendInv
    <3>3. Sent(ToCtrl, dest, aidx + 1)
      <4>1. \A f \in Files : f < aidx + 1 => f < aidx \/ f = aidx
        BY <1>2
      <4> QED
        BY <1>1, <2>1, <3>2, <4>1 DEF Sent, DoneAt
    <3> QED
      BY <1>1, <2>1, <2>2, <3>3
  <2>3. CASE Adds(FileMsg("FileStart", aidx)) /\ apc' = "stream" /\ aidx' = aidx
    <3>1. /\ FileMsg("FileStart", aidx) \in DownFrames /\ ToCtrl' = Append(ToCtrl, FileMsg("FileStart", aidx))
          /\ FileMsg("FileStart", aidx).op \notin {"ManifestEnd", "TransferDone"}
      BY <2>3 DEF Adds, FileMsg
    <3> QED
      BY <1>1, <1>3, <2>1, <2>3, <3>1
  <2> QED
    BY <1>10, <2>2, <2>3, Told
<1>11. CASE WorkerEndFile
  <2>1. /\ dest' = dest /\ apc = "stream" /\ aidx \in Files /\ apc' = "data" /\ aidx' = aidx + 1
        /\ Adds(FileMsg("FileEnd", aidx))
    BY <1>11, Told
  <2>2. /\ FileMsg("FileEnd", aidx) \in DownFrames /\ ToCtrl' = Append(ToCtrl, FileMsg("FileEnd", aidx))
        /\ FileMsg("FileEnd", aidx).op \notin {"ManifestEnd", "TransferDone"}
    BY <2>1 DEF Adds, FileMsg
  <2>3. FileMsg("FileEnd", aidx) = Makers[aidx]
    BY <1>2, <2>1 DEF Makers
  <2>4. Sent(ToCtrl', dest', aidx) /\ DoneAt(Makers, ToCtrl', dest', Len(ToCtrl') + 1, aidx)
    BY <1>1, <1>3, <2>1, <2>2, <2>3
  <2>5. Sent(ToCtrl', dest', aidx + 1)
    <3>1. \A f \in Files : f < aidx + 1 => f < aidx \/ f = aidx
      BY <1>2
    <3> QED
      BY <2>4, <3>1 DEF Sent
  <2> QED
    BY <1>3, <2>1, <2>2, <2>5
<1>12. CASE WorkerFinish
  <2>1. /\ dest' = dest /\ apc = "data" /\ aidx = LastFile + 1 /\ apc' = "over"
        /\ Adds(Msg("TransferDone"))
    BY <1>12, Told
  <2>2. /\ Msg("TransferDone") \in DownFrames /\ ToCtrl' = Append(ToCtrl, Msg("TransferDone"))
        /\ Msg("TransferDone").op = "TransferDone"
    BY <2>1 DEF Adds, Msg
  <2>3. \A f \in Files : DoneAt(Makers, ToCtrl, dest, Len(ToCtrl) + 1, f)
    <3>1. \A f \in Files : f < LastFile + 1
      BY <1>2
    <3> QED
      BY <1>1, <2>1, <3>1 DEF Sent
  <2> QED
    BY <1>3, <2>1, <2>2, <2>3
<1> QED
  BY Kinds, <1>5, <1>6, <1>7, <1>8, <1>9, <1>10, <1>11, <1>12

LEMMA FrameStep ==
  ASSUME TypeOK, FramesOK, RouteInv, SendInv, DestInv, FrameInv, [Next]_vars
  PROVE  FrameInv'
<1> SUFFICES ASSUME mpc' # "exit"
             PROVE  /\ Framing(ToCtrl', cur')
                    /\ apc' = "stream" => Within(ToCtrl', Len(ToCtrl') + 1, cur', aidx')
  BY DEF FrameInv
<1>0. mpc # "exit"
  BY Kinds
<1>1. /\ Framing(ToCtrl, cur) /\ ToCtrl \in Seq(DownFrames) /\ Len(ToCtrl) \in Nat
      /\ apc = "stream" => Within(ToCtrl, Len(ToCtrl) + 1, cur, aidx)
  BY <1>0, PathTypes, LenProperties DEF FrameInv, Paths
<1>2. ASSUME NEW m \in DownFrames, ToCtrl' = Append(ToCtrl, m), cur' = cur,
             m.op = "FileEnd" => Within(ToCtrl, Len(ToCtrl) + 1, cur, m.f)
      PROVE  /\ Framing(ToCtrl', cur')
             /\ m.op \notin Marks => \A f : Within(ToCtrl, Len(ToCtrl) + 1, cur, f) => Within(ToCtrl', Len(ToCtrl') + 1, cur', f)
             /\ \A f : m = FileMsg("FileStart", f) => Within(ToCtrl', Len(ToCtrl') + 1, cur', f)
  <2>1. Len(Append(ToCtrl, m)) + 1 = Len(ToCtrl) + 2
    BY <1>1, AppendProperties
  <2> QED
    BY <1>1, <1>2, <2>1, FramingSends, WithinSends
<1>3. CASE Quiet
  <2>1. UNCHANGED <<cur, aidx>> /\ (apc' = "stream" => apc = "stream")
    BY <1>3 DEF Quiet
  <2>2. CASE ToCtrl' = ToCtrl
    BY <1>1, <2>1, <2>2
  <2>3. CASE ToCtrl' # ToCtrl
    <3>1. PICK m \in DownFrames : m.op \notin Marks /\ ToCtrl' = Append(ToCtrl, m)
      BY <1>3, <2>3 DEF Quiet, Marks
    <3>2. m.op # "FileEnd"
      BY <3>1 DEF Marks
    <3> QED
      BY <1>1, <1>2, <2>1, <3>1, <3>2
  <2> QED
    BY <2>2, <2>3
<1>4. CASE RecvEntry \/ RecvManifestEnd \/ RecvStart \/ RecvData \/ RecvFileEnd
  <2>1. ToCtrl # <<>> /\ ToCtrl' = Tail(ToCtrl) /\ UNCHANGED <<apc, aidx>>
    BY <1>4, Heard
  <2>2. \/ Head(ToCtrl).op \notin Marks /\ cur' = cur
        \/ Head(ToCtrl).op = "FileEnd"
        \/ Head(ToCtrl) = FileMsg("FileStart", cur')
    <3>1. CASE RecvEntry \/ RecvManifestEnd \/ RecvData
      <4>1. cur' = cur
        BY <3>1 DEF RecvEntry, RecvManifestEnd, RecvData, Fail, Exit
      <4> QED
        BY <3>1, <4>1, Heard DEF Marks
    <3>2. CASE RecvStart
      <4>1. Head(events).op = "FileStart" /\ Head(events) \in DownFrames /\ Head(events) = Head(ToCtrl)
        BY <3>2, Heard
      <4>2. cur' = Head(events).f
        BY <3>2 DEF RecvStart
      <4>3. Head(events) = FileMsg("FileStart", Head(events).f)
        BY <4>1 DEF FileMsg, DownFrames
      <4> QED
        BY <4>1, <4>2, <4>3
    <3>3. CASE RecvFileEnd
      BY <3>3, Heard
    <3> QED
      BY <1>4, <3>1, <3>2, <3>3
  <2> QED
    BY <1>1, <2>1, <2>2, FramingTakes
<1>5. CASE WorkerWalk \/ WorkerFinish
  <2>1. apc' # "stream" /\ cur' = cur
    BY <1>5, Told
  <2>2. \E m \in DownFrames : m.op # "FileEnd" /\ ToCtrl' = Append(ToCtrl, m)
    <3>1. /\ FileMsg("Entry", aidx).op # "FileEnd" /\ Msg("ManifestEnd").op # "FileEnd"
          /\ Msg("TransferDone").op # "FileEnd"
      BY DEF FileMsg, Msg
    <3> QED
      BY <1>5, <3>1, Told DEF Adds
  <2> QED
    BY <1>2, <2>1, <2>2
<1>6. CASE WorkerStart
  <2>1. cur' = cur
    BY <1>6, Told
  <2>2. CASE ToCtrl' = ToCtrl /\ apc' = "data"
    BY <1>1, <2>1, <2>2
  <2>3. CASE Adds(FileMsg("FileStart", aidx)) /\ aidx' = aidx
    <3>1. /\ FileMsg("FileStart", aidx) \in DownFrames /\ ToCtrl' = Append(ToCtrl, FileMsg("FileStart", aidx))
          /\ FileMsg("FileStart", aidx).op # "FileEnd"
      BY <2>3 DEF Adds, FileMsg
    <3> QED
      BY <1>2, <2>1, <2>3, <3>1
  <2> QED
    BY <1>6, <2>2, <2>3, Told
<1>7. CASE WorkerEndFile
  <2>1. apc = "stream" /\ apc' = "data" /\ cur' = cur /\ Adds(FileMsg("FileEnd", aidx))
    BY <1>7, Told
  <2>2. /\ FileMsg("FileEnd", aidx) \in DownFrames /\ ToCtrl' = Append(ToCtrl, FileMsg("FileEnd", aidx))
        /\ FileMsg("FileEnd", aidx).f = aidx
    BY <2>1 DEF Adds, FileMsg
  <2> QED
    BY <1>1, <1>2, <2>1, <2>2
<1> QED
  BY Kinds, <1>3, <1>4, <1>5, <1>6, <1>7

----------------------------------------------------------------------------
(* The inductive invariant: entries, plans, data and verdicts are where the  *)
(* two ends of the pull think they are, whatever is lost on the way.          *)
THEOREM PullInvariant == Spec => []PullInv
<1>1. Init => PullInv
  BY TypeInit, FramesInit, RouteInit, PlanInit, SendInit, PathInit DEF PullInv
<1>2. PullInv /\ [Next]_vars => PullInv'
  BY TypeStep, FramesStep, RouteStep, PlanStep, SendStep, ListStep, DestStep, DoneStep, FrameStep
  DEF PullInv
<1> QED
  BY <1>1, <1>2, PTL DEF Spec

(* Every variable of a pull keeps the range it has in the code, the queues    *)
(* their capacities and the writer its size.                                  *)
THEOREM PullTypes == Spec => []TypeOK
<1>1. PullInv => TypeOK
  BY DEF PullInv
<1> QED
  BY <1>1, PullInvariant, PTL

(* The agent streams a file in the way the controller planned it, and no file *)
(* that the controller wanted skipped (run_pull, plan_pull_files).            *)
THEOREM PullHonoursPlans == Spec => []PlanHonoured
<1>1. PullInv => PlanHonoured
  <2> SUFFICES ASSUME PullInv, NEW f \in Files, apc = "stream", aidx = f
               PROVE  plan[f] = aplan[f] /\ plan[f] # "skip"
    BY DEF PlanHonoured
  <2>1. PlansAgree /\ aplan[aidx] # "skip"
    BY DEF PullInv, PlanInv, SendInv
  <2> QED
    BY <2>1 DEF PlansAgree
<1> QED
  BY <1>1, PullInvariant, PTL

----------------------------------------------------------------------------
(* Phase 2 is one-directional.  Up to PlanEnd a worker that is not over has   *)
(* nothing to send after ManifestEnd, ManifestEnd is the last frame of the    *)
(* agent, and the server itself only speaks for an agent that is lost.        *)
Opening == mpc \notin {"data", "exit"}

ReadingInv ==
  Opening /\ apc # "over" =>
    /\ apc \notin {"data", "stream"}
    /\ \A i \in 1..Len(ToWorker) : ToWorker[i].op # "PlanEnd"
EndsListInv ==
  Opening /\ alive =>
    \A i \in 1..Len(ToCtrl) : ToCtrl[i].op = "ManifestEnd" => apc = "plans" /\ i = Len(ToCtrl)
SilentInv == mpc \in {"plan", "sigs"} /\ alive => apc = "plans" /\ ToCtrl = <<>>

PhaseInv == ReadingInv /\ EndsListInv /\ SilentInv

LEMMA PhaseInit == Init => PhaseInv
<1> SUFFICES ASSUME Init PROVE PhaseInv
  OBVIOUS
<1>1. ToWorker = <<>> /\ ToCtrl = <<>> /\ Len(<<>>) = 0
  BY ConcatEmptySeq, EmptySeq DEF Init, TransferInit, ToWorker, ToCtrl
<1>2. mpc = "begin" /\ apc = "idle"
  BY DEF Init, TransferInit
<1> QED
  BY <1>1, <1>2 DEF PhaseInv, ReadingInv, EndsListInv, SilentInv

(* what the threads in between do to a connected agent that has a worker *)
LEMMA BetweenOpening ==
  ASSUME TypeOK, RouteInv, Between, mpc # "exit"
  PROVE  /\ alive' => alive /\ apc' = apc
         /\ apc' # "over" => apc' = apc /\ ToWorker' = ToWorker
         /\ alive' => \/ ToCtrl' = ToCtrl
                      \/ apc = "over" /\ ToCtrl' = Append(ToCtrl, Msg("Error"))
<1>1. /\ apc' # "over" => ToWorker' = ToWorker
      /\ UNCHANGED worker \/ Cancelled
  BY BetweenSteps
<1>2. apc' # "over" => apc' = apc
  BY <1>1 DEF worker, Cancelled
<1>3. CASE Reader
  <2>1. ToCtrl' = ToCtrl
    BY <1>3, TypeParts, ReadMoves DEF Reader
  <2> QED
    BY <1>1, <1>2, <1>3, <2>1 DEF Reader, Read, server, worker
<1>4. CASE ServerStep
  <2>1. Relay /\ UNCHANGED worker
    BY <1>4 DEF ServerStep
  <2>2. Msg("Error") \in DownFrames
    BY DEF Msg, DownFrames
  <2>3. /\ UNCHANGED alive /\ (Served => ToCtrl' = ToCtrl)
        /\ ToCtrl' = ToCtrl \/ ToCtrl' = Append(ToCtrl, Msg("Error"))
    BY <2>1, <2>2, TypeParts, RelayMoves DEF RouteInv
  <2>4. UNCHANGED apc
    BY <2>1 DEF worker
  <2> QED
    BY <1>1, <1>2, <2>3, <2>4 DEF RouteInv
<1>5. CASE RemoveRoute
  BY <1>1, <1>2, <1>5 DEF RemoveRoute, ForgetRoute, queues, worker, ToCtrl
<1>6. CASE AgentLeaves \/ AgentDies
  <2>1. ~alive'
    <3>1. CASE AgentLeaves
      <4>1. Msg("Error") \in DownFrames
        BY DEF Msg, DownFrames
      <4> QED
        BY <3>1, <4>1, TypeParts, CleanupMoves DEF AgentLeaves, RouteInv
    <3>2. CASE AgentDies
      BY <3>2 DEF AgentDies, LoseAgent
    <3> QED
      BY <1>6, <3>1, <3>2
  <2> QED
    BY <1>1, <1>2, <2>1
<1>7. CASE CtrlGone
  BY <1>7 DEF CtrlGone
<1>8. CASE UNCHANGED vars
  BY <1>1, <1>2, <1>8 DEF vars, queues, server, worker, ToCtrl
<1> QED
  BY <1>3, <1>4, <1>5, <1>6, <1>7, <1>8 DEF Between, Finished

LEMMA PhaseStep ==
  ASSUME PullInv, PhaseInv, [Next]_vars
  PROVE  PhaseInv'
<1>0. /\ TypeOK /\ RouteInv /\ SendInv /\ DestInv
      /\ ReadingInv /\ EndsListInv /\ SilentInv
  BY DEF PullInv, PhaseInv
<1>p. /\ ToWorker \in Seq(UpFrames) /\ Len(ToWorker) \in Nat
      /\ ToCtrl \in Seq(DownFrames) /\ Len(ToCtrl) \in Nat
  BY <1>0, PathTypes, LenProperties DEF Paths
(* a frame sent or received, on either path *)
<1>a. ASSUME NEW m \in UpFrames, ToWorker' = Append(ToWorker, m), m.op # "PlanEnd",
             Opening, UNCHANGED apc
      PROVE  ReadingInv'
  <2>1. /\ Len(ToWorker') = Len(ToWorker) + 1 /\ ToWorker'[Len(ToWorker) + 1] = m
        /\ \A i \in 1..Len(ToWorker) : ToWorker'[i] = ToWorker[i]
    BY <1>p, <1>a, AppendProperties
  <2> QED
    BY <1>0, <1>a, <1>p, <2>1 DEF ReadingInv
<1>b. ASSUME ToWorker # <<>>, ToWorker' = Tail(ToWorker), Opening, apc # "over", apc' \in {"walk", "plans"}
      PROVE  ReadingInv'
  <2>1. /\ Len(ToWorker') = Len(ToWorker) - 1
        /\ \A i \in 1..Len(ToWorker') : ToWorker'[i] = ToWorker[i + 1]
    BY <1>p, <1>b, HeadAndTail
  <2> QED
    BY <1>0, <1>b, <1>p, <2>1 DEF ReadingInv
<1>c. ASSUME NEW m \in DownFrames, ToCtrl' = Append(ToCtrl, m), m.op # "ManifestEnd",
             Opening, alive, apc # "plans"
      PROVE  EndsListInv'
  <2>1. /\ Len(ToCtrl') = Len(ToCtrl) + 1 /\ ToCtrl'[Len(ToCtrl) + 1] = m
        /\ \A i \in 1..Len(ToCtrl) : ToCtrl'[i] = ToCtrl[i]
    BY <1>p, <1>c, AppendProperties
  <2>2. \A i \in 1..Len(ToCtrl) : ToCtrl[i].op # "ManifestEnd"
    BY <1>0, <1>c DEF EndsListInv
  <2> QED
    BY <1>p, <1>c, <2>1, <2>2 DEF EndsListInv
<1>d. ASSUME ToCtrl # <<>>, ToCtrl' = Tail(ToCtrl), Opening, UNCHANGED <<apc, alive>>
      PROVE  EndsListInv'
  <2>1. /\ Len(ToCtrl') = Len(ToCtrl) - 1
        /\ \A i \in 1..Len(ToCtrl') : ToCtrl'[i] = ToCtrl[i + 1]
    BY <1>p, <1>d, HeadAndTail
  <2> SUFFICES ASSUME alive, NEW i \in 1..Len(ToCtrl'), ToCtrl'[i].op = "ManifestEnd"
               PROVE  apc = "plans" /\ i = Len(ToCtrl')
    BY <1>d DEF EndsListInv
  <2>2. i + 1 \in 1..Len(ToCtrl) /\ ToCtrl[i + 1].op = "ManifestEnd"
    BY <1>p, <2>1
  <2>3. apc = "plans" /\ i + 1 = Len(ToCtrl)
    BY <1>0, <1>d, <2>2 DEF EndsListInv
  <2> QED
    BY <1>p, <2>1, <2>3
<1>1. CASE SendBegin
  <2>1. /\ mpc = "begin" /\ MainSend(Msg("PullBegin")) /\ mpc' = "mkroot"
        /\ UNCHANGED <<inbox, down, events, server, worker>>
    BY <1>1 DEF SendBegin
  <2>2. Msg("PullBegin") \in UpFrames /\ Msg("PullBegin").op # "PlanEnd"
    BY DEF Msg, UpFrames
  <2>3. ToWorker' = Append(ToWorker, Msg("PullBegin")) /\ UNCHANGED <<ToCtrl, alive, apc>>
    BY <1>0, <2>1, <2>2, CtrlSends DEF server, worker
  <2>4. Opening
    BY <2>1 DEF Opening
  <2> QED
    BY <1>0, <1>a, <2>1, <2>2, <2>3, <2>4 DEF PhaseInv, EndsListInv, SilentInv
<1>2. CASE SendPlan \/ SendSigs
  <2>1. /\ mpc \in {"plan", "sigs"} /\ mpc' \in {"plan", "sigs"}
        /\ UNCHANGED <<inbox, down, events, server, worker>>
        /\ \E m \in UpFrames : MainSend(m) /\ m.op # "PlanEnd"
    <3>1. \A p : PlanFrame(midx, p).op # "PlanEnd"
      BY DEF PlanFrame
    <3> QED
      BY <1>0, <1>2, <3>1, PlanSent, SigsSent
  <2>2. PICK m \in UpFrames : MainSend(m) /\ m.op # "PlanEnd"
    BY <2>1
  <2>3. ToWorker' = Append(ToWorker, m) /\ UNCHANGED <<ToCtrl, alive, apc>>
    BY <1>0, <2>1, <2>2, CtrlSends DEF server, worker
  <2>4. Opening
    BY <2>1 DEF Opening
  <2> QED
    BY <1>0, <1>a, <2>1, <2>2, <2>3, <2>4 DEF PhaseInv, EndsListInv, SilentInv
<1>3. CASE MakeRoot
  <2>1. /\ mpc = "mkroot" /\ mpc' \in {"manifest", "exit"} /\ UNCHANGED <<queues, server, worker>>
    BY <1>3 DEF MakeRoot, Exit
  <2>2. UNCHANGED <<ToWorker, ToCtrl, alive, apc>>
    BY <2>1 DEF queues, server, worker, ToWorker, ToCtrl
  <2> QED
    BY <1>0, <2>1, <2>2 DEF PhaseInv, ReadingInv, EndsListInv, SilentInv, Opening
<1>4. CASE RecvEntry \/ RecvManifestEnd
  <2>1. /\ mpc = "manifest" /\ NextEvent /\ UNCHANGED <<up, inbox, down, server, worker>>
        /\ RecvManifestEnd => Head(events).op = "ManifestEnd" /\ mpc' = "plan"
        /\ RecvEntry => mpc' \in {"manifest", "exit"}
    BY <1>4 DEF RecvEntry, RecvManifestEnd, Fail, Exit
  <2>2. /\ UNCHANGED <<ToWorker, alive, apc>> /\ ToCtrl # <<>> /\ ToCtrl' = Tail(ToCtrl)
        /\ Head(events) = ToCtrl[1] /\ 1 \in 1..Len(ToCtrl)
    BY <1>0, <2>1, CtrlTakes DEF server, worker
  <2>3. Opening
    BY <2>1 DEF Opening
  <2>4. ReadingInv' /\ EndsListInv'
    BY <1>0, <1>d, <2>2, <2>3 DEF ReadingInv
  <2>5. RecvManifestEnd /\ alive => apc = "plans" /\ ToCtrl' = <<>>
    <3> SUFFICES ASSUME RecvManifestEnd, alive PROVE apc = "plans" /\ ToCtrl' = <<>>
      OBVIOUS
    <3>1. apc = "plans" /\ Len(ToCtrl) = 1
      BY <1>0, <2>1, <2>2, <2>3 DEF EndsListInv
    <3>2. Tail(ToCtrl) \in Seq(DownFrames) /\ Len(Tail(ToCtrl)) = 0
      BY <1>p, <2>2, <3>1, HeadAndTail
    <3> QED
      BY <2>2, <3>1, <3>2, EmptySeq
  <2> QED
    BY <1>0, <1>4, <2>1, <2>2, <2>4, <2>5 DEF PhaseInv, SilentInv
<1>5. CASE \/ SendPlanEnd \/ RecvStart \/ RecvData \/ RecvFileEnd \/ RecvDone \/ RecvRefuse
           \/ ScanFails \/ WriteFails \/ LinkLost \/ Timeout
  <2>1. mpc' \in {"data", "exit"}
    BY <1>5 DEF SendPlanEnd, RecvStart, RecvData, RecvFileEnd, RecvDone, RecvRefuse, ScanFails,
      WriteFails, LinkLost, Timeout, Fail, Exit
  <2> QED
    BY <1>0, <2>1 DEF PhaseInv, ReadingInv, EndsListInv, SilentInv, Opening
<1>6. CASE WorkerBegin \/ WorkerPlan
  <2>1. /\ Take /\ apc # "over" /\ UNCHANGED <<ctrl, up, down, events, server>>
        /\ \/ apc = "idle" /\ apc' = "walk"
           \/ apc = "plans" /\ apc' = "plans"
           \/ apc = "plans" /\ apc' = "data" /\ Head(inbox).op = "PlanEnd"
    BY <1>6 DEF WorkerBegin, WorkerPlan
  <2>2. /\ UNCHANGED <<ToCtrl, alive, mpc>> /\ ToWorker # <<>> /\ ToWorker' = Tail(ToWorker)
        /\ Head(inbox) = ToWorker[1] /\ 1 \in 1..Len(ToWorker)
    BY <1>0, <2>1, WorkerTakes DEF server, ctrl
  <2>3. CASE Opening
    <3>1. Opening' /\ ((apc = "idle" /\ apc' = "walk") \/ (apc = "plans" /\ apc' = "plans"))
      BY <1>0, <2>1, <2>2, <2>3 DEF ReadingInv, Opening
    <3> QED
      BY <1>0, <1>b, <2>1, <2>2, <2>3, <3>1 DEF PhaseInv, EndsListInv, SilentInv
  <2>4. CASE ~Opening
    BY <1>0, <2>2, <2>4 DEF PhaseInv, ReadingInv, EndsListInv, SilentInv, Opening
  <2> QED
    BY <2>3, <2>4
<1>7. CASE WorkerWalk
  <2>1. /\ UNCHANGED <<mpc, alive>> /\ apc = "walk" /\ ToWorker' = ToWorker
        /\ \/ Adds(FileMsg("Entry", aidx)) /\ apc' = "walk"
           \/ Adds(Msg("ManifestEnd")) /\ apc' = "plans"
    <3>1. UNCHANGED <<up, inbox, server>>
      BY <1>7 DEF WorkerWalk
    <3> QED
      BY <1>0, <1>7, <3>1, Told DEF server, ToWorker
  <2>2. FileMsg("Entry", aidx).op # "ManifestEnd"
    BY DEF FileMsg
  <2>3. ReadingInv' /\ SilentInv'
    BY <1>0, <2>1 DEF ReadingInv, SilentInv, Opening
  <2>4. EndsListInv'
    <3> SUFFICES ASSUME Opening, alive PROVE EndsListInv'
      BY <2>1 DEF EndsListInv, Opening
    <3>1. CASE Adds(FileMsg("Entry", aidx))
      BY <1>c, <2>1, <2>2, <3>1 DEF Adds
    <3>2. CASE Adds(Msg("ManifestEnd")) /\ apc' = "plans"
      <4>1. /\ Len(ToCtrl') = Len(ToCtrl) + 1
            /\ \A i \in 1..Len(ToCtrl) : ToCtrl'[i] = ToCtrl[i]
        BY <1>p, <3>2, AppendProperties DEF Adds
      <4>2. \A i \in 1..Len(ToCtrl) : ToCtrl[i].op # "ManifestEnd"
        BY <1>0, <2>1 DEF EndsListInv
      <4> QED
        BY <1>p, <3>2, <4>1, <4>2 DEF EndsListInv
    <3> QED
      BY <2>1, <3>1, <3>2
  <2> QED
    BY <1>0, <2>3, <2>4 DEF PhaseInv
<1>8. CASE WorkerStart \/ WorkerStream \/ WorkerEndFile \/ WorkerFinish \/ WorkerQuits
           \/ (WorkerFails /\ apc # "walk")
  <2>1. apc \in {"data", "stream"} /\ UNCHANGED mpc
    BY <1>8 DEF WorkerStart, WorkerStream, WorkerEndFile, WorkerFinish, WorkerFails, WorkerQuits, ctrl
  <2>2. ~Opening /\ ~Opening'
    BY <1>0, <2>1 DEF ReadingInv, Opening
  <2> QED
    BY <1>0, <2>2 DEF PhaseInv, ReadingInv, EndsListInv, SilentInv, Opening
<1>9. CASE WorkerFails /\ apc = "walk"
  <2>1. /\ apc' = "over" /\ UNCHANGED <<ctrl, up, inbox, events, server>>
        /\ \E op \in {"TransferFailed", "Error"} : SendDown(Msg(op))
    BY <1>9 DEF WorkerFails
  <2>2. PICK op \in {"TransferFailed", "Error"} : SendDown(Msg(op))
    BY <2>1
  <2>3. Msg(op) \in DownFrames /\ Msg(op).op # "ManifestEnd"
    BY DEF Msg, DownFrames
  <2>4. ToCtrl' = Append(ToCtrl, Msg(op)) /\ UNCHANGED <<mpc, alive>>
    BY <1>0, <2>1, <2>2, <2>3, WorkerSends DEF server, ctrl
  <2>5. ReadingInv' /\ SilentInv'
    BY <1>0, <1>9, <2>1, <2>4 DEF ReadingInv, SilentInv
  <2>6. EndsListInv'
    <3>1. CASE Opening /\ alive
      BY <1>9, <1>c, <2>3, <2>4, <3>1
    <3>2. CASE ~(Opening /\ alive)
      BY <2>4, <3>2 DEF EndsListInv, Opening
    <3> QED
      BY <3>1, <3>2
  <2> QED
    BY <1>0, <2>5, <2>6 DEF PhaseInv
<1>10. CASE Between
  <2>1. UNCHANGED mpc
    BY <1>0, <1>10, BetweenSteps DEF ctrl
  <2>2. CASE ~Opening
    BY <1>0, <2>1, <2>2 DEF PhaseInv, ReadingInv, EndsListInv, SilentInv, Opening
  <2>3. CASE Opening
    <3>1. /\ alive' => alive /\ apc' = apc
          /\ apc' # "over" => apc' = apc /\ ToWorker' = ToWorker
          /\ alive' => \/ ToCtrl' = ToCtrl
                       \/ apc = "over" /\ ToCtrl' = Append(ToCtrl, Msg("Error"))
      BY <1>0, <1>10, <2>3, BetweenOpening DEF Opening
    <3>2. ReadingInv'
      BY <1>0, <2>1, <3>1 DEF ReadingInv, Opening
    <3>3. SilentInv'
      BY <1>0, <2>1, <3>1 DEF SilentInv
    <3>4. EndsListInv'
      <4>1. CASE ~alive'
        BY <4>1 DEF EndsListInv
      <4>2. CASE alive' /\ ToCtrl' = ToCtrl
        BY <1>0, <2>1, <3>1, <4>2 DEF EndsListInv, Opening
      <4>3. CASE alive' /\ apc = "over" /\ ToCtrl' = Append(ToCtrl, Msg("Error"))
        <5>1. Msg("Error") \in DownFrames /\ Msg("Error").op # "ManifestEnd"
          BY DEF Msg, DownFrames
        <5> QED
          BY <1>c, <2>3, <3>1, <4>3, <5>1
      <4> QED
        BY <3>1, <4>1, <4>2, <4>3
    <3> QED
      BY <1>0, <3>2, <3>3, <3>4 DEF PhaseInv
  <2> QED
    BY <2>2, <2>3
<1> QED
  BY Steps, <1>1, <1>2, <1>3, <1>4, <1>5, <1>6, <1>7, <1>8, <1>9, <1>10 DEF CtrlStep, WorkerStep

(* While plans and signatures travel to an agent that is connected,           *)
(* nothing travels the other way, for any capacities of the queues: the       *)
(* controller, which reads nothing meanwhile, never waits for itself.         *)
THEOREM PullPhasesDoNotBlock == Spec => []PhasesDoNotBlock
<1>1. Init => PhaseInv
  BY PhaseInit
<1>2. PullInv /\ PhaseInv /\ [Next]_vars => PhaseInv'
  BY PhaseStep
<1>3. PullInv /\ PhaseInv => PhasesDoNotBlock
  <2> SUFFICES ASSUME PullInv, PhaseInv, mpc \in {"plan", "sigs"}, alive
               PROVE  apc = "plans" /\ down = <<>> /\ events = <<>>
    BY DEF PhasesDoNotBlock
  <2>1. apc = "plans" /\ events \o down = <<>>
    BY DEF PhaseInv, SilentInv, ToCtrl
  <2>2. events \in Seq(DownFrames) /\ down \in Seq(DownFrames)
    BY TypeParts DEF PullInv, DownOK
  <2>3. Len(events) + Len(down) = 0 /\ Len(events) \in Nat /\ Len(down) \in Nat
    BY <2>1, <2>2, ConcatProperties, LenProperties, EmptySeq
  <2> QED
    BY <2>1, <2>2, <2>3, EmptySeq
<1> QED
  BY <1>1, <1>2, <1>3, PullInvariant, PTL DEF Spec

----------------------------------------------------------------------------
LEMMA PullStarts == Init => P!Init
<1> SUFFICES ASSUME Init PROVE P!Init
  OBVIOUS
<1>1. dest \in [Entries -> {"none", "old", "new"}]
  BY DEF Init, Before
<1>2. Outcome = "running"
  BY DEF Init, Outcome
<1> QED
  BY <1>1, <1>2, SameEntries DEF P!Init

(* Exit code 0 is reported when the whole manifest is in place.               *)
LEMMA DoneMeansPlaced ==
  ASSUME PullInv, RecvDone
  PROVE  \A e \in Entries : dest[e] = "new"
<1>1. /\ mpc = "data" /\ NextEvent /\ Head(events).op = "TransferDone"
      /\ UNCHANGED <<up, inbox, down, server, worker>>
  BY DEF RecvDone
<1>2. TypeOK /\ ToCtrl \in Seq(DownFrames) /\ DoneBy(Makers, ToCtrl, dest, "TransferDone", Files)
  BY <1>1, PathTypes DEF PullInv, DoneInv, Paths
<1>3. ToCtrl # <<>> /\ Head(ToCtrl).op = "TransferDone"
  BY <1>1, <1>2, CtrlTakes
<1>4. \A f \in Files : dest[f] = "new"
  BY <1>2, <1>3, DoneNow
<1>5. \A e \in Entries \ Files : dest[e] = "new"
  BY <1>1 DEF PullInv, DestInv
<1> QED
  BY <1>4, <1>5

LEMMA PullMoves ==
  ASSUME PullInv, [Next]_vars
  PROVE  [P!Next]_<<dest, Outcome>>
<1>0. TypeOK /\ ListInv /\ FrameInv /\ DestInv
  BY DEF PullInv
<1>1. CASE UNCHANGED <<dest, Outcome>>
  BY <1>1
<1>2. CASE \E e \in Entries : Made(e) /\ mpc \in {"manifest", "data"}
  <2>1. PICK e \in Entries : Made(e)
    BY <1>2
  <2>2. Outcome = "running" /\ Outcome' = Outcome
    BY <1>2 DEF Outcome, Made
  <2>3. P!Place(e)
    BY <2>1, <2>2 DEF P!Place, Made
  <2> QED
    BY <2>3, SameEntries DEF P!Next
<1>3. CASE mpc = "manifest" /\ mpc' = "exit" /\ rc' = 6 /\ \E l \in Links : dest' = [dest EXCEPT ![l] = "none"]
  <2>1. PICK l \in Links : dest' = [dest EXCEPT ![l] = "none"]
    BY <1>3
  <2>2. Outcome = "running" /\ Outcome' = "failed"
    BY <1>3 DEF Outcome
  <2>3. P!Lose(l)
    BY <2>1, <2>2 DEF P!Lose
  <2> QED
    BY <2>3 DEF P!Next
<1>4. CASE UNCHANGED dest /\ Outcome' # Outcome
  <2>1. CASE RecvDone
    <3>1. mpc = "data" /\ mpc' = "exit" /\ rc' = 0
      BY <2>1 DEF RecvDone, Exit
    <3>2. Outcome = "running" /\ Outcome' = "ok"
      BY <3>1 DEF Outcome
    <3>3. \A e \in Entries : dest[e] = "new"
      BY <2>1, DoneMeansPlaced
    <3>4. P!Succeed
      BY <1>4, <3>2, <3>3, SameEntries DEF P!Succeed
    <3> QED
      BY <3>4 DEF P!Next
  <2>2. CASE \/ RecvEntry \/ MakeRoot \/ RecvRefuse \/ ScanFails \/ WriteFails \/ LinkLost \/ Timeout
    <3>1. mpc # "exit" /\ (mpc' # "exit" \/ rc' # 0)
      BY <2>2 DEF RecvEntry, MakeRoot, RecvRefuse, ScanFails, WriteFails, LinkLost, Timeout, Fail, Exit
    <3>2. Outcome = "running" /\ Outcome' = "failed"
      BY <1>4, <3>1 DEF Outcome
    <3>3. P!Fail
      BY <1>4, <3>2 DEF P!Fail
    <3> QED
      BY <3>3 DEF P!Next
  <2>3. CASE \/ SendBegin \/ RecvManifestEnd \/ SendPlan \/ SendSigs \/ SendPlanEnd
             \/ RecvStart \/ RecvData \/ RecvFileEnd
    <3>1. mpc # "exit" /\ mpc' # "exit"
      BY <2>3 DEF SendBegin, RecvManifestEnd, SendPlan, SendSigs, SendPlanEnd, RecvStart, RecvData, RecvFileEnd
    <3> QED
      BY <1>4, <3>1 DEF Outcome
  <2>4. CASE WorkerStep \/ WorkerFails \/ WorkerQuits \/ Between
    <3>1. UNCHANGED ctrl
      BY <2>4 DEF WorkerStep, WorkerBegin, WorkerWalk, WorkerPlan, WorkerStart, WorkerStream,
        WorkerEndFile, WorkerFinish, WorkerFails, WorkerQuits, Between, Reader, ServerStep, RemoveRoute, AgentLeaves,
        AgentDies, CtrlGone, Finished, vars
    <3> QED
      BY <1>4, <3>1 DEF ctrl, Outcome
  <2> QED
    BY Steps, <2>1, <2>2, <2>3, <2>4 DEF CtrlStep
<1>5. \/ UNCHANGED dest
      \/ \E e \in Entries : Made(e) /\ mpc \in {"manifest", "data"}
      \/ mpc = "manifest" /\ mpc' = "exit" /\ rc' = 6 /\ \E l \in Links : dest' = [dest EXCEPT ![l] = "none"]
  BY <1>0, DestMoves, SameEntries
<1> QED
  BY <1>1, <1>2, <1>3, <1>4, <1>5

(* A pull implements Publish: a local file changes in one step, only to what  *)
(* the manifest hashed, and exit code 0 means that all of it is in place.     *)
THEOREM PullRefines == Spec => ImplementsPublish
<1>1. Init => P!Init
  BY PullStarts
<1>2. PullInv /\ [Next]_vars => [P!Next]_P!vars
  BY PullMoves DEF P!vars
<1> QED
  BY <1>1, <1>2, PullInvariant, PTL DEF Spec, ImplementsPublish, P!Spec

(* What Publish promises therefore holds of a pull: exit code 0 means that    *)
(* every directory, link and file of the manifest is in place, as announced. *)
THEOREM PullSucceeds == Spec => []P!SuccessMeansPlaced
BY PullRefines, PublishSuccess, PTL DEF ImplementsPublish

(* Whatever fails in a pull, no file or directory of the manifest that was   *)
(* there is ever missing, not even between two steps.                        *)
THEOREM PullKeeps == Spec => P!NothingVanishes
BY PullRefines, PublishKeeps, PTL DEF ImplementsPublish

============================================================================
