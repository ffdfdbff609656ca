---------------------------- MODULE QueuesProofs ----------------------------
(***************************************************************************)
(* Theorems about Queues, for any capacities of the queues and with or     *)
(* without faults: the variables stay in their types, the wedge of         *)
(* cleanup_ctrl is the only way to be stuck with the lock held, and the    *)
(* server does not come out of it.                                         *)
(***************************************************************************)
EXTENDS Queues, SequenceTheorems, TLAPS

(* What the threads know of each other: cleanup_ctrl sends exactly while it  *)
(* has the lock, and the connection is only closed by a reader that stopped, *)
(* with every worker gone.                                                   *)
LockInv == lock = "cleanup_ctrl" <=> xpc = "cancel"
LinkInv == ~link => rpc = "stopped" /\ wpc = "over" /\ cancelled

QueuesInv == TypeOK /\ LockInv /\ LinkInv

(* What Conn::send does to a queue of at most cap frames. *)
LEMMA AppendFits ==
  ASSUME NEW F, NEW q \in Seq(F), NEW f \in F, NEW cap \in Nat, Len(q) < cap
  PROVE  Append(q, f) \in Seq(F) /\ Len(Append(q, f)) <= cap
  BY AppendProperties, LenProperties

LEMMA TailFits ==
  ASSUME NEW F, NEW q \in Seq(F), NEW cap \in Nat, Len(q) <= cap, q # <<>>
  PROVE  Tail(q) \in Seq(F) /\ Len(Tail(q)) <= cap /\ Head(q) \in F
  BY HeadTailProperties, LenProperties, EmptySeq

LEMMA SendDownType ==
  ASSUME QueuesInv, NEW f \in {"Data", "RouteCancel", "Shutdown"}, SendDown(f)
  PROVE  downq' \in Seq({"Data", "RouteCancel", "Shutdown"}) /\ Len(downq') <= DownCap
<1>1. CASE link
  <2>1. downq' = Append(downq, f) /\ Len(downq) < DownCap /\ downq \in Seq({"Data", "RouteCancel", "Shutdown"}) /\ DownCap \in Nat
    BY <1>1, QueueConstants DEF QueuesInv, TypeOK, SendDown
  <2> QED
    BY <2>1
<1>2. CASE ~link
  BY <1>2 DEF QueuesInv, TypeOK, SendDown
<1> QED
  BY <1>1, <1>2

LEMMA SendUpType ==
  ASSUME QueuesInv, NEW f \in {"ExecOut", "Error", "Bye"}, SendUp(f)
  PROVE  upq' \in Seq({"ExecOut", "Error", "Bye"}) /\ Len(upq') <= UpCap
<1>1. CASE link
  <2>1. upq' = Append(upq, f) /\ Len(upq) < UpCap /\ upq \in Seq({"ExecOut", "Error", "Bye"}) /\ UpCap \in Nat
    BY <1>1, QueueConstants DEF QueuesInv, TypeOK, SendUp
  <2> QED
    BY <2>1
<1>2. CASE ~link
  BY <1>2 DEF QueuesInv, TypeOK, SendUp
<1> QED
  BY <1>1, <1>2

LEMMA QueuesStart == Init => QueuesInv
<1> SUFFICES ASSUME Init PROVE QueuesInv
    OBVIOUS
<1>1. downq = <<>> /\ upq = <<>> /\ link /\ ~cancelled /\ lock = "free" /\ xpc = "connected"
  BY DEF Init
<1>2. /\ <<>> \in Seq({"Data", "RouteCancel", "Shutdown"}) /\ <<>> \in Seq({"ExecOut", "Error", "Bye"})
      /\ Len(<<>>) = 0
  BY EmptySeq
<1>3. link \in BOOLEAN /\ cancelled \in BOOLEAN
  BY ZenonT(20) DEF Init
<1>4. /\ lock \in {"free", "cleanup_ctrl"}
      /\ ppc \in {"recv", "send"} /\ spc \in {"recv", "send", "sent"}
      /\ xpc \in {"connected", "cancel", "gone"} /\ lpc \in {"recv", "touch"}
      /\ rpc \in {"recv", "deliver", "bye", "stopped"} /\ wpc \in {"work", "error", "over"}
      /\ inbox = 0
  BY DEF Init
<1>5. Len(downq) <= DownCap /\ Len(upq) <= UpCap /\ inbox \in 0..InCap
  BY <1>1, <1>2, <1>4, QueueConstants
<1> QED
  BY <1>1, <1>2, <1>3, <1>4, <1>5 DEF QueuesInv, TypeOK, LockInv, LinkInv

LEMMA QueuesStep == QueuesInv /\ [Next]_vars => QueuesInv'
<1> SUFFICES ASSUME QueuesInv, [Next]_vars PROVE QueuesInv'
    OBVIOUS
<1> USE QueueConstants DEF LockInv, LinkInv
<1>1. CASE UNCHANGED vars
  BY <1>1 DEF QueuesInv, TypeOK, vars
<1>2. CASE PushLookup
  BY <1>2 DEF QueuesInv, TypeOK, PushLookup
<1>3. CASE PushSend
  BY <1>3, SendDownType DEF QueuesInv, TypeOK, PushSend
<1>4. CASE StopLookup
  BY <1>4 DEF QueuesInv, TypeOK, StopLookup
<1>5. CASE StopSend
  BY <1>5, SendDownType DEF QueuesInv, TypeOK, StopSend
<1>6. CASE CleanLock
  BY <1>6 DEF QueuesInv, TypeOK, CleanLock
<1>7. CASE CleanSend
  BY <1>7, SendDownType DEF QueuesInv, TypeOK, CleanSend
<1>8. CASE LoopRecv
  <2>1. upq' \in Seq({"ExecOut", "Error", "Bye"}) /\ Len(upq') <= UpCap
    BY <1>8, TailFits DEF QueuesInv, TypeOK, LoopRecv
  <2> QED
    BY <1>8, <2>1 DEF QueuesInv, TypeOK, LoopRecv
<1>9. CASE LoopTouch
  BY <1>9 DEF QueuesInv, TypeOK, LoopTouch
<1>10. CASE ReaderDrop
  <2>1. downq' \in Seq({"Data", "RouteCancel", "Shutdown"}) /\ Len(downq') <= DownCap
    BY <1>10, TailFits DEF QueuesInv, TypeOK, ReaderDrop
  <2> QED
    BY <1>10, <2>1 DEF QueuesInv, TypeOK, ReaderDrop
<1>11. CASE ReaderRecv
  <2>1. /\ downq' \in Seq({"Data", "RouteCancel", "Shutdown"}) /\ Len(downq') <= DownCap
        /\ Head(downq) \in {"Data", "RouteCancel", "Shutdown"}
    BY <1>11, TailFits DEF QueuesInv, TypeOK, ReaderRecv
  <2>2. rpc' \in {"recv", "deliver", "bye"}
    BY <1>11, <2>1 DEF ReaderRecv
  <2> QED
    BY <1>11, <2>1, <2>2 DEF QueuesInv, TypeOK, ReaderRecv
<1>12. CASE ReaderDeliver
  BY <1>12 DEF QueuesInv, TypeOK, ReaderDeliver
<1>13. CASE ReaderBye
  BY <1>13, SendUpType DEF QueuesInv, TypeOK, ReaderBye
<1>14. CASE CloseLink
  <2>1. /\ ~link' /\ cancelled' /\ downq' = <<>> /\ wpc' = "over" /\ inbox' = 0
        /\ UNCHANGED <<lock, upq, ppc, spc, xpc, lpc, rpc>> /\ rpc = "stopped"
    BY <1>14 DEF CloseLink
  <2>2. link' \in BOOLEAN /\ cancelled' \in BOOLEAN
    BY <1>14, ZenonT(20) DEF CloseLink
  <2>3. <<>> \in Seq({"Data", "RouteCancel", "Shutdown"}) /\ Len(<<>>) = 0
    BY EmptySeq
  <2>4. inbox' \in 0..InCap /\ Len(downq') <= DownCap
    BY <2>1, <2>3
  <2> QED
    BY <2>1, <2>2, <2>3, <2>4 DEF QueuesInv, TypeOK
<1>15. CASE WorkerTake
  BY <1>15 DEF QueuesInv, TypeOK, WorkerTake
<1>16. CASE WorkerFails
  BY <1>16 DEF QueuesInv, TypeOK, WorkerFails
<1>17. CASE WorkerError
  BY <1>17, SendUpType DEF QueuesInv, TypeOK, WorkerError
<1>18. CASE PumpOutput
  BY <1>18, SendUpType DEF QueuesInv, TypeOK, PumpOutput
<1> QED
  BY <1>1, <1>2, <1>3, <1>4, <1>5, <1>6, <1>7, <1>8, <1>9, <1>10, <1>11, <1>12,
     <1>13, <1>14, <1>15, <1>16, <1>17, <1>18 DEF Next, Push, Stop, Loop, Reader

(* The invariant: lock, connection and threads agree. *)
THEOREM QueuesInvariant == Spec => []QueuesInv
  BY QueuesStart, QueuesStep, PTL DEF Spec

(* No queue, inbox or thread leaves its type, whatever the capacities. *)
THEOREM QueuesTypes == Spec => []TypeOK
<1>1. QueuesInv => TypeOK
  BY DEF QueuesInv
<1> QED
  BY <1>1, QueuesInvariant, PTL

(* Who waits for whom: the holder for the reader, the reader for its worker  *)
(* or its own reply, both for agent_loop, agent_loop for the lock.           *)
LEMMA WaitsInCircle == QueuesInv => OnlyWedge
<1> SUFFICES ASSUME QueuesInv, lock = "cleanup_ctrl",
                    HolderWaits, LoopWaits, ReaderWaits, WorkerWaits
             PROVE  Wedged
    BY DEF OnlyWedge
<1> USE QueueConstants
<1>1. link /\ Len(downq) = DownCap /\ downq # <<>>
  BY EmptySeq DEF QueuesInv, LockInv, HolderWaits
<1>2. rpc \in {"deliver", "bye"}
  BY <1>1 DEF QueuesInv, TypeOK, ReaderWaits
<1>3. Len(upq) = UpCap => lpc = "touch"
  BY EmptySeq DEF QueuesInv, TypeOK, LoopWaits
<1>4. CASE rpc = "bye"
  BY <1>1, <1>3, <1>4 DEF ReaderWaits, Wedged
<1>5. CASE rpc = "deliver"
  <2>1. wpc = "error" /\ inbox = InCap
    BY <1>5 DEF QueuesInv, TypeOK, ReaderWaits, WorkerWaits
  <2> QED
    BY <1>1, <1>3, <1>5, <2>1 DEF WorkerWaits, Wedged
<1> QED
  BY <1>2, <1>4, <1>5

(* The cycle through the lock is the only deadlock around it: with any       *)
(* capacities, one of the four threads can go on while the lock is held, or  *)
(* the server has wedged.                                                    *)
THEOREM QueuesOnlyWedge == Spec => []OnlyWedge
  BY WaitsInCircle, QueuesInvariant, PTL

(* Once wedged, always wedged: each of the threads in the cycle is blocked,  *)
(* and no other one takes a frame, the lock or the connection from them.     *)
THEOREM QueuesWedgeStays == Spec => WedgeStays
<1>1. QueuesInv /\ [Next]_vars => (Wedged => Wedged')
  <2> SUFFICES ASSUME QueuesInv, [Next]_vars, Wedged PROVE Wedged'
      OBVIOUS
  <2>1. /\ lock = "cleanup_ctrl" /\ xpc = "cancel" /\ link /\ lpc = "touch"
        /\ Len(downq) = DownCap /\ Len(upq) = UpCap
        /\ rpc = "bye" \/ (rpc = "deliver" /\ inbox = InCap /\ wpc = "error")
    BY DEF QueuesInv, LockInv, LinkInv, Wedged
  <2>a. upq # <<>> /\ DownCap \in Nat /\ UpCap \in Nat /\ InCap \in Nat
    BY <2>1, QueueConstants, EmptySeq
  <2>2. CASE PushLookup \/ StopLookup \/ CleanLock \/ LoopTouch \/ LoopRecv
    BY <2>1, <2>2 DEF PushLookup, StopLookup, CleanLock, LoopTouch, LoopRecv
  <2>b. ~(Len(downq) < DownCap) /\ ~(Len(upq) < UpCap) /\ ~(InCap < InCap)
    BY <2>1, <2>a
  <2>3. CASE PushSend \/ StopSend \/ CleanSend
    BY <2>1, <2>b, <2>3, Zenon DEF PushSend, StopSend, CleanSend, SendDown
  <2>4. CASE ReaderDrop \/ ReaderRecv \/ CloseLink
    BY <2>1, <2>4 DEF ReaderDrop, ReaderRecv, CloseLink
  <2>5. CASE ReaderDeliver \/ WorkerTake \/ WorkerFails
    <3>1. CASE rpc = "bye"
      BY <2>1, <2>5, <3>1 DEF ReaderDeliver, WorkerTake, WorkerFails, Wedged
    <3>2. CASE rpc = "deliver" /\ inbox = InCap /\ wpc = "error"
      BY <2>b, <2>5, <3>2, Zenon DEF ReaderDeliver, WorkerTake, WorkerFails
    <3> QED
      BY <2>1, <3>1, <3>2
  <2>6. CASE ReaderBye \/ WorkerError \/ PumpOutput
    BY <2>1, <2>b, <2>6, Zenon DEF ReaderBye, WorkerError, PumpOutput, SendUp
  <2>7. CASE UNCHANGED vars
    BY <2>7 DEF vars, Wedged
  <2> QED
    BY <2>2, <2>3, <2>4, <2>5, <2>6, <2>7 DEF Next, Push, Stop, Loop, Reader
<1> QED
  BY <1>1, QueuesInvariant, PTL DEF Spec, WedgeStays

=============================================================================
