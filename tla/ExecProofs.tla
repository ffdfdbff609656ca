----------------------------- MODULE ExecProofs -----------------------------
(***************************************************************************)
(* What `apb exec` tells its caller, proved for pipes, queues and outputs  *)
(* of any size and whatever the controller, the command's background       *)
(* processes and the connection do.                                        *)
(***************************************************************************)
EXTENDS Exec, SequenceTheorems, TLAPS

Polling == {"poll", "trywait", "deadline"}
Out(s) == [op |-> "ExecOut", stream |-> s]

(* the chunk a pump has read and not sent yet *)
InHand(s) == IF ppc[s] = "send" THEN 1 ELSE 0

(* The worker, its child and its pumps.  The poll loop is left with the      *)
(* reason, a cancelled job has lost its controller or its connection, and a  *)
(* pump that ended by itself on a good connection has emptied its pipe.      *)
WorkerInv ==
  /\ wpc = "start" => child = "none"
  /\ wpc = "drain" \/ wpc = "final" => child # "none"
  /\ child = "none" => \A s \in Streams : ppc[s] = "off"
  /\ wpc \in Polling => child \in {"running", "exited"}
  /\ wpc \in Polling \cup {"start"} => status = "none"
  /\ wpc \in {"drain", "final"} => status # "none"
  /\ linger => child \in {"exited", "killed"}
  /\ status = "exited" => child = "exited"
  /\ status = "timeout" => expired
  /\ status = "cancelled" \/ (cancel /\ wpc \in Polling \cup {"start"}) =>
       cpc = "left" \/ link # "up"
  /\ wpc = "final" /\ ~cancel => \A s \in Streams : ppc[s] = "done"
  /\ ~cancel /\ link = "up" => \A s \in Streams :
       ppc[s] = "done" => pipe[s] = 0 /\ child \in {"exited", "killed"} /\ ~linger

(* An ExecEnd on its way to a controller that waits tells the truth, and     *)
(* unless the job was cancelled nothing writes or pumps any more.            *)
EndInv ==
  \A i \in 1..Len(queue) : queue[i].op = "ExecEnd" /\ cpc = "wait" =>
    /\ wpc = "over"
    /\ IF queue[i].timed THEN expired ELSE queue[i].rc = code /\ child = "exited"
    /\ ~cancel => /\ child \in {"exited", "killed"} /\ ~linger
                  /\ \A s \in Streams : ppc[s] = "done" /\ pipe[s] = 0

(* The chunks of stream s when g are printed, w written and r still in the   *)
(* pipe or in the pump's hand: n[i] is what the controller will have printed *)
(* once it has the first i frames of the queue q.  Nothing is printed that   *)
(* was not written, on a good connection every chunk is somewhere on its     *)
(* way, and unless the job was cancelled ExecEnd comes after the last one.   *)
Tally(n, q, s, g, w, r, lk, cn) ==
  /\ n[0] = g
  /\ \A i \in 1..Len(q) : n[i] = n[i - 1] + (IF q[i] = Out(s) THEN 1 ELSE 0)
  /\ \A i \in 0..Len(q) : n[i] + r <= w
  /\ lk = "up" => n[Len(q)] + r = w
  /\ cn \/ \A i \in 1..Len(q) : q[i].op = "ExecEnd" => n[i] = w

Accounted(q, s, g, w, r, lk, cn) ==
  \E n \in [0..Len(q) -> 0..MaxChunks] : Tally(n, q, s, g, w, r, lk, cn)

Conserved ==
  cpc = "wait" => \A s \in Streams :
    Accounted(queue, s, got[s], wrote[s], pipe[s] + InHand(s), link, cancel)

(* a job that ended stays as the controller was told *)
EndedInv ==
  cpc = "ended" =>
    /\ wpc = "over"
    /\ ~cancel => child \in {"exited", "killed"} /\ ~linger

ExecInv ==
  /\ TypeOK /\ WorkerInv /\ EndInv /\ Conserved /\ EndedInv
  /\ OutputComplete /\ ExitFaithful

----------------------------------------------------------------------------
(* taking the head of a sequence moves every other frame one place forward *)
LEMMA TailShifts ==
  ASSUME NEW S, NEW q \in Seq(S), q # <<>>
  PROVE  /\ Head(q) \in S /\ Head(q) = q[1]
         /\ Tail(q) \in Seq(S) /\ Len(Tail(q)) = Len(q) - 1 /\ Len(q) \in Nat \ {0}
         /\ \A i \in 1..Len(Tail(q)) : Tail(q)[i] = q[i + 1]
BY HeadTailProperties, LenProperties, ElementOfSeq, EmptySeq

(* a broken connection keeps a prefix of the frames *)
LEMMA PrefixKeeps ==
  ASSUME NEW S, NEW q \in Seq(S), NEW n \in 0..Len(q)
  PROVE  /\ SubSeq(q, 1, n) \in Seq(S) /\ Len(SubSeq(q, 1, n)) = n
         /\ \A i \in 1..n : SubSeq(q, 1, n)[i] = q[i]
<1>1. \A i \in 1..n : q[i] \in S
  BY ElementOfSeq, LenProperties
<1> QED
  BY <1>1, SubSeqProperties, LenProperties

(* What a send does to the frames on the way to the controller: it appends   *)
(* one on a good connection and is lost on a broken one.                     *)
LEMMA SendAppends ==
  ASSUME TypeOK, NEW m \in Outs \cup Ends, Send(m)
  PROVE  /\ queue' \in Seq(Outs \cup Ends) /\ Len(queue') <= QueueCap
         /\ link' = link
         /\ \A i \in 1..Len(queue) : queue'[i] = queue[i]
         /\ \/ link = "up" /\ Len(queue') = Len(queue) + 1 /\ queue'[Len(queue) + 1] = m
            \/ link # "up" /\ queue' = queue
<1> USE DEF TypeOK, Send
<1>1. CASE link = "up"
  <2>1. queue' = Append(queue, m) /\ Len(queue) < QueueCap
    BY <1>1
  <2>2. /\ queue' \in Seq(Outs \cup Ends) /\ Len(queue') = Len(queue) + 1
        /\ \A i \in 1..Len(queue) : queue'[i] = queue[i]
        /\ queue'[Len(queue) + 1] = m
    BY <2>1, AppendProperties
  <2> QED
    BY <1>1, <2>1, <2>2, ExecSizes, LenProperties
<1>2. CASE link # "up"
  BY <1>2
<1> QED
  BY <1>1, <1>2

(* the frames a worker or a pump can send *)
LEMMA FramesAreTyped ==
  ASSUME TypeOK
  PROVE  /\ \A s \in Streams : Out(s) \in Outs \cup Ends
         /\ EndFrame \in Outs \cup Ends
         /\ \A c \in {125, 126, 410, 500} : [op |-> "Error", code |-> c] \in Outs \cup Ends
BY DEF TypeOK, Outs, Ends, Out, EndFrame, Codes, Statuses

----------------------------------------------------------------------------
(* Lemmas about the tally: a chunk changes hands, frames are lost, one is     *)
(* queued, one is printed.                                                   *)
LEMMA TallySame ==
  ASSUME NEW F, NEW q \in Seq(F), NEW s, NEW g, NEW w \in Nat, NEW r \in Nat, NEW lk, NEW cn,
         Accounted(q, s, g, w, r, lk, cn),
         NEW w2 \in Nat, NEW r2 \in Nat, NEW lk2, NEW cn2,
         w2 - r2 = w - r, lk2 = lk \/ lk2 # "up",
         cn2 \/ (~cn /\ (w2 = w \/ \A i \in 1..Len(q) : q[i].op # "ExecEnd"))
  PROVE  Accounted(q, s, g, w2, r2, lk2, cn2)
<1>1. PICK n \in [0..Len(q) -> 0..MaxChunks] : Tally(n, q, s, g, w, r, lk, cn)
  BY DEF Accounted
<1>2. \A i \in 0..Len(q) : n[i] \in 0..MaxChunks /\ n[i] + r2 <= w2
  BY <1>1, ExecSizes DEF Tally
<1>3. lk2 = "up" => n[Len(q)] + r2 = w2
  <2>1. n[Len(q)] \in Nat
    BY <1>2, LenProperties
  <2>2. lk2 = "up" => n[Len(q)] + r = w
    BY <1>1 DEF Tally
  <2>3. \A v \in Nat : v + r = w => v + r2 = w2
    OBVIOUS
  <2> QED
    BY <2>1, <2>2, <2>3
<1>4. cn2 \/ \A i \in 1..Len(q) : q[i].op = "ExecEnd" => n[i] = w2
  BY <1>1 DEF Tally
<1> QED
  BY <1>1, <1>2, <1>3, <1>4 DEF Tally, Accounted

LEMMA TallyCut ==
  ASSUME NEW F, NEW q \in Seq(F), NEW s, NEW g, NEW w \in Nat, NEW r \in Nat, NEW lk, NEW cn,
         Accounted(q, s, g, w, r, lk, cn),
         NEW k \in 0..Len(q), NEW lk2, lk2 # "up"
  PROVE  Accounted(SubSeq(q, 1, k), s, g, w, r, lk2, cn)
<1> DEFINE p == SubSeq(q, 1, k)
<1>0. Len(q) \in Nat /\ k \in Nat /\ k <= Len(q)
  BY LenProperties
<1>1. Len(p) = k /\ \A i \in 1..k : p[i] = q[i] /\ i \in 1..Len(q)
  BY <1>0, PrefixKeeps
<1>2. PICK n \in [0..Len(q) -> 0..MaxChunks] : Tally(n, q, s, g, w, r, lk, cn)
  BY DEF Accounted
<1>3. PICK x \in [0..k -> 0..MaxChunks] : \A i \in 0..k : x[i] = n[i] /\ i \in 0..Len(q)
  <2> DEFINE x == [i \in 0..k |-> n[i]]
  <2>1. x \in [0..k -> 0..MaxChunks] /\ \A i \in 0..k : x[i] = n[i] /\ i \in 0..Len(q)
    BY <1>0
  <2> QED
    BY <2>1
<1> HIDE DEF p
<1>4. x[0] = g /\ \A i \in 0..k : x[i] + r <= w
  BY <1>0, <1>2, <1>3 DEF Tally
<1>5. \A i \in 1..k : x[i] = x[i - 1] + (IF p[i] = Out(s) THEN 1 ELSE 0)
  <2>1. \A i \in 1..k : i \in 0..k /\ i - 1 \in 0..k
    BY <1>0
  <2> QED
    BY <1>1, <1>2, <1>3, <2>1 DEF Tally
<1>6. cn \/ \A i \in 1..k : p[i].op = "ExecEnd" => x[i] = w
  <2>1. \A i \in 1..k : i \in 0..k /\ i \in 1..Len(q) /\ p[i] = q[i]
    BY <1>0, <1>1
  <2>2. cn \/ \A i \in 1..Len(q) : q[i].op = "ExecEnd" => n[i] = w
    BY <1>2 DEF Tally
  <2> QED
    BY <1>3, <2>1, <2>2
<1> QED
  BY <1>1, <1>3, <1>4, <1>5, <1>6, ZenonT(60) DEF Tally, Accounted, p

LEMMA TallyAppend ==
  ASSUME NEW F, NEW q \in Seq(F), NEW m \in F, NEW s, NEW g,
         NEW w \in 0..MaxChunks, NEW r \in Nat, NEW r2 \in Nat, NEW lk, NEW cn,
         Accounted(q, s, g, w, r, lk, cn),
         r = r2 + (IF m = Out(s) THEN 1 ELSE 0),
         m.op = "ExecEnd" => cn \/ (lk = "up" /\ r = 0)
  PROVE  Accounted(Append(q, m), s, g, w, r2, lk, cn)
<1> DEFINE p == Append(q, m)
           l == Len(q)
<1>0. l \in Nat /\ MaxChunks \in Nat
  BY LenProperties, ExecSizes
<1>1. Len(p) = l + 1 /\ p[l + 1] = m /\ \A i \in 1..l : p[i] = q[i]
  BY AppendProperties
<1>2. PICK n \in [0..l -> 0..MaxChunks] : Tally(n, q, s, g, w, r, lk, cn)
  BY DEF Accounted
<1>3. PICK d \in {0, 1} : d = (IF m = Out(s) THEN 1 ELSE 0)
  OBVIOUS
<1>4. r = r2 + d
  BY <1>3
<1>5. n[l] \in 0..MaxChunks /\ n[l] + d <= MaxChunks
  BY <1>0, <1>2, <1>4 DEF Tally
<1>6. PICK x \in [0..(l + 1) -> 0..MaxChunks] :
        (\A i \in 0..l : x[i] = n[i]) /\ x[l + 1] = n[l] + d
  <2> DEFINE x == [i \in 0..(l + 1) |-> IF i <= l THEN n[i] ELSE n[l] + d]
  <2>1. n[l] + d \in 0..MaxChunks
    BY <1>0, <1>5
  <2>2. x \in [0..(l + 1) -> 0..MaxChunks]
    BY <1>0, <2>1
  <2>3. (\A i \in 0..l : x[i] = n[i]) /\ x[l + 1] = n[l] + d
    BY <1>0
  <2> QED
    BY <2>2, <2>3
<1>t. \A i \in 0..l : n[i] \in Nat /\ n[i] + (r2 + d) <= w
  <2>1. \A i \in 0..l : n[i] \in Nat
    BY <1>0, <1>2, SMTT(60)
  <2> QED
    BY <1>2, <1>4, <2>1 DEF Tally
<1> HIDE DEF p, l
<1>7. x[0] = g
  BY <1>0, <1>2, <1>6 DEF Tally
<1>8. \A i \in 1..(l + 1) : x[i] = x[i - 1] + (IF p[i] = Out(s) THEN 1 ELSE 0)
  <2>1. ASSUME NEW i \in 1..l
        PROVE  x[i] = x[i - 1] + (IF p[i] = Out(s) THEN 1 ELSE 0)
    <3>1. i \in 0..l /\ i - 1 \in 0..l
      BY <1>0
    <3> QED
      BY <1>1, <1>2, <1>6, <3>1 DEF Tally, l
  <2> TAKE i \in 1..(l + 1)
  <2>3. CASE i \in 1..l
    BY <2>1, <2>3
  <2>4. CASE i = l + 1
    <3>1. i - 1 = l /\ l \in 0..l
      BY <1>0, <2>4
    <3> QED
      BY <1>1, <1>3, <1>6, <2>4, <3>1
  <2> QED
    BY <1>0, <2>3, <2>4
<1>9. \A i \in 0..(l + 1) : x[i] + r2 <= w
  <2>2. ASSUME NEW i \in 0..l PROVE x[i] + r2 <= w
    <3>1. n[i] \in Nat /\ n[i] + (r2 + d) <= w
      BY <1>t
    <3> QED
      BY <1>6, <3>1
  <2>3. x[l + 1] + r2 <= w
    <3>1. n[l] \in Nat /\ n[l] + (r2 + d) <= w
      BY <1>0, <1>t
    <3> QED
      BY <1>6, <3>1
  <2> TAKE i \in 0..(l + 1)
  <2>4. i \in 0..l \/ i = l + 1
    BY <1>0
  <2> QED
    BY <2>2, <2>3, <2>4
<1>10. lk = "up" => x[l + 1] + r2 = w
  BY <1>0, <1>2, <1>4, <1>5, <1>6 DEF Tally, l
<1>11. cn \/ \A i \in 1..(l + 1) : p[i].op = "ExecEnd" => x[i] = w
  <2>1. cn \/ \A i \in 1..l : p[i].op = "ExecEnd" => x[i] = w
    BY <1>0, <1>1, <1>2, <1>6, SMTT(60) DEF Tally, l
  <2>2. cn \/ (m.op = "ExecEnd" => x[l + 1] = w)
    BY <1>0, <1>4, <1>5, <1>10
  <2>3. \A i \in 1..(l + 1) : i \in 1..l \/ i = l + 1
    BY <1>0
  <2> QED
    BY <1>1, <2>1, <2>2, <2>3
<1> QED
  BY <1>1, <1>6, <1>7, <1>8, <1>9, <1>10, <1>11, ZenonT(60) DEF Tally, Accounted, p

LEMMA TallyEnd ==
  ASSUME NEW F, NEW q \in Seq(F), q # <<>>, NEW s, NEW g,
         NEW w \in Nat, NEW r \in Nat, NEW lk, NEW cn,
         Accounted(q, s, g, w, r, lk, cn), Head(q).op = "ExecEnd"
  PROVE  cn \/ g = w
<1>1. Head(q) = q[1] /\ 1 \in 1..Len(q) /\ Head(q) # Out(s)
  BY TailShifts DEF Out
<1>2. PICK n \in [0..Len(q) -> 0..MaxChunks] : Tally(n, q, s, g, w, r, lk, cn)
  BY DEF Accounted
<1>3. n[1] = n[0] + 0 /\ n[0] \in Nat
  BY <1>1, <1>2, ExecSizes DEF Tally
<1> QED
  BY <1>1, <1>2, <1>3 DEF Tally

LEMMA TallyTail ==
  ASSUME NEW F, NEW q \in Seq(F), q # <<>>, NEW s, NEW g,
         NEW w \in Nat, NEW r \in Nat, NEW lk, NEW cn,
         Accounted(q, s, g, w, r, lk, cn)
  PROVE  /\ g + (IF Head(q) = Out(s) THEN 1 ELSE 0) \in 0..MaxChunks
         /\ Accounted(Tail(q), s, g + (IF Head(q) = Out(s) THEN 1 ELSE 0), w, r, lk, cn)
<1> DEFINE p == Tail(q)
           l == Len(p)
<1>0. l \in Nat /\ Len(q) = l + 1 /\ MaxChunks \in Nat
  BY TailShifts, LenProperties, ExecSizes
<1>1. Head(q) = q[1] /\ \A i \in 1..l : p[i] = q[i + 1]
  BY TailShifts
<1>2. PICK n \in [0..(l + 1) -> 0..MaxChunks] : Tally(n, q, s, g, w, r, lk, cn)
  BY <1>0 DEF Accounted
<1>3. PICK x \in [0..l -> 0..MaxChunks] : \A i \in 0..l : x[i] = n[i + 1]
  <2> DEFINE x == [i \in 0..l |-> n[i + 1]]
  <2>1. x \in [0..l -> 0..MaxChunks] /\ \A i \in 0..l : x[i] = n[i + 1]
    BY <1>0
  <2> QED
    BY <2>1
<1> HIDE DEF p, l
<1>4. n[1] = g + (IF Head(q) = Out(s) THEN 1 ELSE 0) /\ n[1] \in 0..MaxChunks
  BY <1>0, <1>1, <1>2, SMTT(60) DEF Tally
<1>5. x[0] = n[1]
  BY <1>0, <1>3
<1>6. \A i \in 1..l : x[i] = x[i - 1] + (IF p[i] = Out(s) THEN 1 ELSE 0)
  <2>1. ASSUME NEW i \in 1..l
        PROVE  x[i] = x[i - 1] + (IF p[i] = Out(s) THEN 1 ELSE 0)
    <3>1. i \in 0..l /\ i - 1 \in 0..l /\ i + 1 \in 1..Len(q) /\ (i + 1) - 1 = (i - 1) + 1
      BY <1>0
    <3> QED
      BY <1>1, <1>2, <1>3, <3>1, SMTT(60) DEF Tally
  <2> QED
    BY <2>1
<1>7. \A i \in 0..l : x[i] + r <= w
  BY <1>0, <1>2, <1>3 DEF Tally
<1>8. lk = "up" => x[l] + r = w
  BY <1>0, <1>2, <1>3 DEF Tally
<1>9. cn \/ \A i \in 1..l : p[i].op = "ExecEnd" => x[i] = w
  <2>1. \A i \in 1..l : i \in 0..l /\ i + 1 \in 1..Len(q) /\ p[i] = q[i + 1]
    BY <1>0, <1>1
  <2>2. cn \/ \A i \in 1..Len(q) : q[i].op = "ExecEnd" => n[i] = w
    BY <1>2 DEF Tally
  <2> QED
    BY <1>3, <2>1, <2>2
<1> QED
  BY <1>3, <1>4, <1>5, <1>6, <1>7, <1>8, <1>9, ZenonT(60) DEF Tally, Accounted, l, p

----------------------------------------------------------------------------
LEMMA TypeInit == Init => TypeOK
<1> SUFFICES ASSUME Init PROVE TypeOK
  OBVIOUS
<1>1. queue \in Seq(Outs \cup Ends) /\ Len(queue) <= QueueCap
  BY ExecSizes, EmptySeq DEF Init
<1>2. /\ wrote \in [Streams -> 0..MaxChunks] /\ pipe \in [Streams -> 0..PipeCap]
      /\ got \in [Streams -> 0..MaxChunks]
  BY ExecSizes DEF Init
<1> QED
  BY <1>1, <1>2 DEF Init, TypeOK, Codes, Statuses

(* Every step keeps the types; that a chunk printed was one of MaxChunks      *)
(* written needs the tally.                                                  *)
LEMMA TypeStep ==
  ASSUME TypeOK, Conserved, [Next]_vars
  PROVE  TypeOK'
<1> USE ExecSizes DEF procs, agent, ctrl, way, Codes, Statuses
<1>1. ASSUME NEW s \in Streams, Write(s) PROVE TypeOK'
  BY <1>1, SMTT(60) DEF Write, TypeOK
<1>2. ASSUME ChildExits \/ LingerEnds \/ Expire PROVE TypeOK'
  <2>1. CASE ChildExits
    <3>1. linger' \in BOOLEAN
      BY <2>1 DEF ChildExits
    <3> QED
      BY <2>1, <3>1 DEF ChildExits, TypeOK
  <2>2. CASE LingerEnds
    <3>1. linger' \in BOOLEAN /\ UNCHANGED <<child, code, expired, wrote, pipe, agent, way, ctrl>>
      BY <2>2 DEF LingerEnds
    <3> QED
      BY <3>1 DEF TypeOK
  <2>3. CASE Expire
    BY <2>3 DEF Expire, TypeOK
  <2> QED
    BY <1>2, <2>1, <2>2, <2>3
<1>3. ASSUME NEW s \in Streams, PumpCheck(s) \/ PumpRead(s) PROVE TypeOK'
  <2>1. CASE PumpCheck(s)
    BY <2>1 DEF PumpCheck, TypeOK
  <2>2. CASE PumpRead(s)
    <3>1. CASE pipe[s] > 0
      <4>1. /\ pipe' = [pipe EXCEPT ![s] = @ - 1] /\ ppc' = [ppc EXCEPT ![s] = "send"]
            /\ UNCHANGED <<child, code, linger, expired, wrote, wpc, status, cancel, way, ctrl>>
        BY <2>2, <3>1 DEF PumpRead
      <4> QED
        BY <3>1, <4>1 DEF TypeOK
    <3>2. CASE pipe[s] = 0
      <4>1. /\ ppc' = [ppc EXCEPT ![s] = "done"]
            /\ UNCHANGED <<child, code, linger, expired, wrote, pipe, wpc, status, cancel, way, ctrl>>
        BY <2>2, <3>2 DEF PumpRead
      <4> QED
        BY <4>1 DEF TypeOK
    <3> QED BY <3>1, <3>2, SMTT(60) DEF TypeOK
  <2> QED
    BY <1>3, <2>1, <2>2
<1>4. ASSUME NEW s \in Streams, PumpSend(s) PROVE TypeOK'
  <2>1. /\ queue' \in Seq(Outs \cup Ends) /\ Len(queue') <= QueueCap /\ link' = link
    BY <1>4, SendAppends, FramesAreTyped DEF PumpSend, Out
  <2>2. /\ UNCHANGED <<procs, wpc, status, cancel, ctrl>>
        /\ \E pc \in {"check", "done"} : ppc' = [ppc EXCEPT ![s] = pc]
    BY <1>4 DEF PumpSend
  <2> QED
    BY <2>1, <2>2 DEF TypeOK
<1>5. CASE Refuse
  <2>1. /\ queue' \in Seq(Outs \cup Ends) /\ Len(queue') <= QueueCap /\ link' = link
    BY <1>5, SendAppends, FramesAreTyped DEF Refuse
  <2> QED
    BY <1>5, <2>1 DEF Refuse, TypeOK
<1>6. CASE Spawn
  BY <1>6 DEF Spawn, TypeOK
<1>7. CASE Poll \/ CheckDeadline
  <2>1. ASSUME KillGroup PROVE child' \in {child, "killed"} /\ linger' \in BOOLEAN
    BY <2>1, ZenonT(60) DEF KillGroup, TypeOK
  <2>2. /\ child' \in {child, "killed"} /\ linger' \in BOOLEAN
        /\ wpc' \in {"drain", "trywait", "poll"}
        /\ status' \in {status, "cancelled", "timeout"}
        /\ UNCHANGED <<code, expired, wrote, pipe, cancel, ppc, way, ctrl>>
    BY <1>7, <2>1 DEF Poll, CheckDeadline, TypeOK
  <2> QED
    BY <2>2 DEF TypeOK
<1>8. CASE TryWait \/ Drained \/ GraceOver
  <2>1. /\ wpc' \in {"deadline", "drain", "final"} /\ status' \in {status, "exited"}
        /\ UNCHANGED <<procs, ppc, way, ctrl>>
    BY <1>8 DEF TryWait, Drained, GraceOver
  <2>2. cancel' \in BOOLEAN
    BY <1>8 DEF TryWait, Drained, GraceOver, TypeOK
  <2> QED
    BY <2>1, <2>2 DEF TypeOK
<1>9. CASE SendEnd
  <2>1. /\ queue' \in Seq(Outs \cup Ends) /\ Len(queue') <= QueueCap /\ link' = link
    BY <1>9, SendAppends, FramesAreTyped DEF SendEnd
  <2> QED
    BY <1>9, <2>1 DEF SendEnd, TypeOK
<1>10. CASE TryWaitFails
  <2>1. /\ queue' \in Seq(Outs \cup Ends) /\ Len(queue') <= QueueCap /\ link' = link
    BY <1>10, SendAppends, FramesAreTyped DEF TryWaitFails
  <2>2. child' \in {child, "killed"} /\ linger' \in BOOLEAN
    BY <1>10 DEF TryWaitFails, TypeOK
  <2> QED
    BY <1>10, <2>1, <2>2 DEF TryWaitFails, TypeOK
<1>11. CASE Deliver
  <2> DEFINE m == Head(queue)
  <2>1. /\ m \in Outs \cup Ends /\ m = queue[1]
        /\ queue' \in Seq(Outs \cup Ends) /\ Len(queue') <= QueueCap
    BY <1>11, TailShifts DEF Deliver, TypeOK
  <2>2. UNCHANGED <<procs, agent, link>>
    BY <1>11 DEF Deliver
  <2>3. CASE cpc # "wait"
    <3>1. UNCHANGED ctrl
      BY <1>11, <2>3 DEF Deliver
    <3> QED
      BY <2>1, <2>2, <3>1 DEF TypeOK
  <2>4. CASE cpc = "wait" /\ m.op = "ExecOut"
    <3>1. got' = [got EXCEPT ![m.stream] = @ + 1] /\ UNCHANGED <<cpc, rc>>
      BY <1>11, <2>4 DEF Deliver
    <3>2. m = Out(m.stream) /\ m.stream \in Streams
      BY <2>1, <2>4 DEF Outs, Ends, Out
    <3>3. Accounted(queue, m.stream, got[m.stream], wrote[m.stream],
                    pipe[m.stream] + InHand(m.stream), link, cancel)
      BY <2>4, <3>2 DEF Conserved
    <3>4. wrote[m.stream] \in Nat /\ pipe[m.stream] + InHand(m.stream) \in Nat
      BY <3>2 DEF TypeOK, InHand
    <3>5. got[m.stream] + 1 \in 0..MaxChunks
      BY <1>11, <3>2, <3>3, <3>4, TallyTail DEF Deliver, TypeOK
    <3> QED
      BY <2>1, <2>2, <3>1, <3>2, <3>5, SMTT(60) DEF TypeOK
  <2>5. CASE cpc = "wait" /\ m.op = "ExecEnd"
    <3>1. cpc' = "ended" /\ rc' = (IF m.timed THEN 5 ELSE m.rc) /\ UNCHANGED got
      BY <1>11, <2>5 DEF Deliver
    <3>2. rc' \in Codes \cup {5, 129}
      BY <2>1, <2>5, <3>1 DEF Outs, Ends
    <3> QED
      BY <2>1, <2>2, <3>1, <3>2 DEF TypeOK
  <2>6. CASE cpc = "wait" /\ m.op = "Error"
    <3>1. cpc' = "refused" /\ rc' \in {125, 1} /\ UNCHANGED got
      BY <1>11, <2>6 DEF Deliver
    <3> QED
      BY <2>1, <2>2, <3>1 DEF TypeOK
  <2> QED
    BY <2>1, <2>3, <2>4, <2>5, <2>6 DEF Outs, Ends
<1>12. CASE Leave \/ RouteCancel \/ CancelAll
  <2>1. CASE Leave
    BY <2>1 DEF Leave, TypeOK
  <2>2. CASE RouteCancel \/ CancelAll
    <3>1. cancel' \in BOOLEAN /\ UNCHANGED <<procs, wpc, status, ppc, way, ctrl>>
      BY <2>2 DEF RouteCancel, CancelAll
    <3> QED
      BY <3>1 DEF TypeOK
  <2> QED
    BY <1>12, <2>1, <2>2
<1>13. CASE LinkBreaks
  <2>1. queue' \in Seq(Outs \cup Ends) /\ Len(queue') <= Len(queue) /\ Len(queue) \in Nat
    BY <1>13, PrefixKeeps, LenProperties DEF LinkBreaks, TypeOK
  <2>2. Len(queue') \in Nat
    BY <2>1, LenProperties
  <2> QED
    BY <1>13, <2>1, <2>2 DEF LinkBreaks, TypeOK
<1>14. CASE CleanupAgent
  <2>1. Append(queue, [op |-> "Error", code |-> 410]) \in Seq(Outs \cup Ends)
    BY FramesAreTyped, AppendProperties DEF TypeOK
  <2>2. Len(Append(queue, [op |-> "Error", code |-> 410])) = Len(queue) + 1
    BY FramesAreTyped, AppendProperties DEF TypeOK
  <2> QED
    <3>1. /\ queue' \in Seq(Outs \cup Ends) /\ Len(queue') <= QueueCap
      <4>1. CASE UNCHANGED queue
        BY <4>1 DEF TypeOK
      <4>2. CASE Len(queue) < QueueCap /\ queue' = Append(queue, [op |-> "Error", code |-> 410])
        BY <2>1, <2>2, <4>2, LenProperties DEF TypeOK
      <4> QED
        BY <1>14, <4>1, <4>2 DEF CleanupAgent
    <3> QED
      BY <1>14, <3>1 DEF CleanupAgent, TypeOK
<1>15. CASE Finished \/ UNCHANGED vars
  BY <1>15 DEF Finished, vars, TypeOK
<1> QED
  BY <1>1, <1>2, <1>3, <1>4, <1>5, <1>6, <1>7, <1>8, <1>9, <1>10, <1>11, <1>12,
     <1>13, <1>14, <1>15 DEF Next, Worker, Pump

----------------------------------------------------------------------------
(* The worker and its pumps. *)
LEMMA WorkerStep ==
  ASSUME TypeOK, WorkerInv, [Next]_vars
  PROVE  WorkerInv'
<1> USE DEF procs, agent, ctrl, way, Polling
<1>0. ASSUME UNCHANGED <<child, linger, expired, pipe, wpc, status, cancel, ppc, link>>,
             cpc' = cpc \/ cpc = "wait"
      PROVE  WorkerInv'
  BY <1>0 DEF WorkerInv
<1>1. ASSUME NEW s \in Streams, Write(s) PROVE WorkerInv'
  <2>1. ~cancel /\ link = "up" => ppc[s] # "done"
    BY <1>1 DEF Write, WorkerInv, TypeOK
  <2> QED
    BY <1>1, <2>1 DEF Write, WorkerInv, TypeOK
<1>2. CASE ChildExits
  BY <1>2 DEF ChildExits, WorkerInv
<1>3. CASE LingerEnds
  BY <1>3 DEF LingerEnds, WorkerInv
<1>4. CASE Expire
  BY <1>4 DEF Expire, WorkerInv
<1>5. ASSUME NEW s \in Streams, PumpCheck(s) PROVE WorkerInv'
  BY <1>5 DEF PumpCheck, WorkerInv, TypeOK
<1>6. ASSUME NEW s \in Streams, PumpRead(s) PROVE WorkerInv'
  <2>0. UNCHANGED <<child, linger, expired, wpc, status, cancel, link, cpc>>
    BY <1>6 DEF PumpRead
  <2>1. CASE pipe' = [pipe EXCEPT ![s] = @ - 1] /\ ppc' = [ppc EXCEPT ![s] = "send"]
    <3>1. ppc[s] = "read" /\ child # "none" /\ (wpc # "final" \/ cancel)
      BY <1>6 DEF PumpRead, WorkerInv
    <3> QED
      <4>1. \A t \in Streams : /\ ppc'[t] = "done" => ppc[t] = "done" /\ t # s
                               /\ ppc[t] = "done" => ppc'[t] = "done"
                               /\ t # s => pipe'[t] = pipe[t]
        BY <2>1, <3>1 DEF TypeOK
      <4> QED
        BY <2>0, <3>1, <4>1 DEF WorkerInv
  <2>2. CASE /\ pipe[s] = 0 /\ child # "running" /\ ~linger
             /\ ppc' = [ppc EXCEPT ![s] = "done"] /\ UNCHANGED pipe
    <3>1. child # "none"
      BY <1>6 DEF PumpRead, WorkerInv
    <3>2. \A t \in Streams : /\ ppc'[t] = "done" => ppc[t] = "done" \/ pipe[t] = 0
                             /\ ppc[t] = "done" => ppc'[t] = "done"
      BY <2>2 DEF TypeOK
    <3> QED
      BY <2>0, <2>2, <3>1, <3>2 DEF WorkerInv, TypeOK
  <2> QED
    BY <1>6, <2>1, <2>2 DEF PumpRead
<1>7. ASSUME NEW s \in Streams, PumpSend(s) PROVE WorkerInv'
  BY <1>7 DEF PumpSend, Send, WorkerInv, TypeOK
<1>8. CASE Refuse
  BY <1>8 DEF Refuse, Send, WorkerInv
<1>9. CASE Spawn
  BY <1>9 DEF Spawn, WorkerInv
<1>10. CASE Poll
  BY <1>10, ZenonT(60) DEF Poll, KillGroup, WorkerInv, TypeOK
<1>11. CASE TryWait
  BY <1>11 DEF TryWait, WorkerInv, TypeOK
<1>12. CASE TryWaitFails
  BY <1>12 DEF TryWaitFails, Send, WorkerInv, TypeOK
<1>13. CASE CheckDeadline
  BY <1>13, ZenonT(60) DEF CheckDeadline, KillGroup, WorkerInv, TypeOK
<1>14. CASE Drained
  BY <1>14 DEF Drained, WorkerInv, TypeOK
<1>15. CASE GraceOver
  BY <1>15 DEF GraceOver, WorkerInv, TypeOK
<1>16. CASE SendEnd
  BY <1>16 DEF SendEnd, Send, WorkerInv, TypeOK
<1>17. CASE Deliver
  BY <1>17, <1>0 DEF Deliver
<1>18. CASE Leave
  BY <1>18, <1>0 DEF Leave
<1>19. CASE RouteCancel \/ CancelAll
  BY <1>19 DEF RouteCancel, CancelAll, WorkerInv, TypeOK
<1>20. CASE LinkBreaks
  BY <1>20 DEF LinkBreaks, WorkerInv
<1>21. CASE CleanupAgent
  BY <1>21 DEF CleanupAgent, WorkerInv
<1>22. CASE Finished \/ UNCHANGED vars
  BY <1>22, <1>0 DEF Finished, vars
<1> QED
  BY <1>1, <1>2, <1>3, <1>4, <1>5, <1>6, <1>7, <1>8, <1>9, <1>10, <1>11, <1>12,
     <1>13, <1>14, <1>15, <1>16, <1>17, <1>18, <1>19, <1>20, <1>21, <1>22
  DEF Next, Worker, Pump

(* The frames that say how the command ended.                               *)
LEMMA EndStep ==
  ASSUME TypeOK, WorkerInv, EndInv, [Next]_vars
  PROVE  EndInv'
<1> USE DEF procs, agent, ctrl, way
<1> USE LenProperties
<1>0. Len(queue) \in Nat
  BY DEF TypeOK
(* a step that queues and delivers nothing *)
<1>1. ASSUME queue' = queue \/ \E n \in 0..Len(queue) : queue' = SubSeq(queue, 1, n),
             cpc' = cpc \/ cpc = "wait",
             UNCHANGED <<code>>, wpc = "over" => wpc' = "over" /\ cancel' = cancel,
             expired => expired', linger' => linger,
             child \in {"exited", "killed"} => child' = child,
             \A s \in Streams : ppc[s] = "done" => ppc'[s] = "done" /\ pipe'[s] = pipe[s]
      PROVE  EndInv'
  <2>1. Len(queue') <= Len(queue) /\ \A i \in 1..Len(queue') : queue'[i] = queue[i]
    BY <1>0, <1>1, PrefixKeeps DEF TypeOK
  <2>2. 1..Len(queue') \subseteq 1..Len(queue)
    BY <1>0, <2>1, <1>1, PrefixKeeps DEF TypeOK
  <2> QED
    BY <1>1, <2>1, <2>2 DEF EndInv, TypeOK
(* a step that sends a frame other than ExecEnd *)
<1>2. ASSUME wpc # "over",
             \A i \in 1..Len(queue') : \/ i \in 1..Len(queue) /\ queue'[i] = queue[i]
                                       \/ queue'[i].op # "ExecEnd",
             cpc' = cpc
      PROVE  EndInv'
  BY <1>2 DEF EndInv
<1>3. ASSUME NEW s \in Streams, Write(s) PROVE EndInv'
  BY <1>3 DEF Write, EndInv
<1>4. CASE ChildExits \/ LingerEnds
  <2>1. CASE ChildExits
    BY <2>1 DEF ChildExits, EndInv
  <2>2. CASE LingerEnds
    BY <1>1, <2>2 DEF LingerEnds
  <2> QED
    BY <1>4, <2>1, <2>2
<1>5. CASE Expire \/ Leave \/ RouteCancel \/ CancelAll \/ LinkBreaks
  BY <1>1, <1>5 DEF Expire, Leave, RouteCancel, CancelAll, LinkBreaks
<1>6. ASSUME NEW s \in Streams, PumpCheck(s) \/ PumpRead(s) PROVE EndInv'
  <2>1. \A t \in Streams : ppc[t] = "done" => ppc'[t] = "done" /\ pipe'[t] = pipe[t]
    BY <1>6 DEF PumpCheck, PumpRead, TypeOK
  <2> QED
    BY <1>1, <1>6, <2>1 DEF PumpCheck, PumpRead
<1>7. ASSUME NEW s \in Streams, PumpSend(s) PROVE EndInv'
  <2>1. /\ \A i \in 1..Len(queue) : queue'[i] = queue[i]
        /\ \/ Len(queue') = Len(queue) + 1 /\ queue'[Len(queue) + 1] = Out(s)
           \/ queue' = queue
    BY <1>7, SendAppends, FramesAreTyped DEF PumpSend, Out
  <2>2. \A i \in 1..Len(queue') : \/ i \in 1..Len(queue) /\ queue'[i] = queue[i]
                                  \/ queue'[i] = Out(s)
    BY <1>0, <2>1
  <2>3. /\ UNCHANGED <<child, code, linger, expired, pipe, wpc, cancel, cpc>>
        /\ ppc[s] = "send" /\ \A t \in Streams \ {s} : ppc'[t] = ppc[t]
    BY <1>7 DEF PumpSend, TypeOK
  <2> QED
    BY <2>2, <2>3 DEF EndInv, Out
<1>8. CASE Refuse
  <2>1. /\ \A i \in 1..Len(queue) : queue'[i] = queue[i]
        /\ \/ Len(queue') = Len(queue) + 1 /\ queue'[Len(queue) + 1].op = "Error"
           \/ queue' = queue
    BY <1>8, SendAppends, FramesAreTyped DEF Refuse
  <2> QED
    BY <1>0, <1>2, <1>8, <2>1 DEF Refuse
<1>9. CASE TryWaitFails
  <2>1. /\ \A i \in 1..Len(queue) : queue'[i] = queue[i]
        /\ \/ Len(queue') = Len(queue) + 1 /\ queue'[Len(queue) + 1].op = "Error"
           \/ queue' = queue
    BY <1>9, SendAppends, FramesAreTyped DEF TryWaitFails
  <2> QED
    BY <1>0, <1>2, <1>9, <2>1 DEF TryWaitFails
<1>10. CASE Spawn \/ Poll \/ TryWait \/ CheckDeadline \/ Drained \/ GraceOver
  BY <1>2, <1>10 DEF Spawn, Poll, TryWait, CheckDeadline, Drained, GraceOver
<1>11. CASE SendEnd
  <2>1. /\ \A i \in 1..Len(queue) : queue'[i] = queue[i]
        /\ \/ link = "up" /\ Len(queue') = Len(queue) + 1 /\ queue'[Len(queue) + 1] = EndFrame
           \/ queue' = queue
    BY <1>11, SendAppends, FramesAreTyped DEF SendEnd
  <2>2. /\ wpc = "final" /\ wpc' = "over"
        /\ UNCHANGED <<child, code, linger, expired, pipe, cancel, ppc, cpc>>
    BY <1>11 DEF SendEnd
  <2>3. ASSUME link = "up", cpc = "wait"
        PROVE  /\ IF EndFrame.timed THEN expired ELSE EndFrame.rc = code /\ child = "exited"
               /\ ~cancel => /\ child \in {"exited", "killed"} /\ ~linger
                             /\ \A s \in Streams : ppc[s] = "done" /\ pipe[s] = 0
    <3>1. status \in {"exited", "timeout"}
      BY <2>2, <2>3 DEF WorkerInv, TypeOK, Statuses
    <3>2. IF EndFrame.timed THEN expired ELSE EndFrame.rc = code /\ child = "exited"
      BY <3>1 DEF EndFrame, WorkerInv
    <3>3. ~cancel => /\ child \in {"exited", "killed"} /\ ~linger
                     /\ \A s \in Streams : ppc[s] = "done" /\ pipe[s] = 0
      BY <2>2, <2>3 DEF WorkerInv, Streams
    <3> QED
      BY <3>2, <3>3
  <2> QED
    <3>1. ASSUME NEW i \in 1..Len(queue'), queue'[i].op = "ExecEnd", cpc = "wait"
          PROVE  link = "up" /\ queue'[i] = EndFrame
      BY <1>0, <2>1, <2>2, <3>1 DEF EndInv
    <3> QED
      BY <2>2, <2>3, <3>1 DEF EndInv
<1>12. CASE Deliver
  <2>1. /\ Len(queue') = Len(queue) - 1
        /\ \A i \in 1..Len(queue') : queue'[i] = queue[i + 1] /\ i + 1 \in 1..Len(queue)
    BY <1>0, <1>12, TailShifts DEF Deliver, TypeOK
  <2>2. UNCHANGED <<procs, agent>> /\ (cpc' = "wait" => cpc = "wait")
    BY <1>12 DEF Deliver
  <2> QED
    BY <2>1, <2>2 DEF EndInv
<1>13. CASE CleanupAgent
  <2> DEFINE m == [op |-> "Error", code |-> 410]
  <2>1. UNCHANGED <<procs, agent, ctrl>> /\ (queue' = queue \/ queue' = Append(queue, m))
    BY <1>13 DEF CleanupAgent
  <2>2. \A i \in 1..Len(queue') : \/ i \in 1..Len(queue) /\ queue'[i] = queue[i]
                                  \/ queue'[i] = m
    <3>1. CASE queue' = Append(queue, m)
      <4>1. m \in Outs \cup Ends
        BY FramesAreTyped
      <4>2. /\ Len(queue') = Len(queue) + 1 /\ queue'[Len(queue) + 1] = m
            /\ \A i \in 1..Len(queue) : queue'[i] = queue[i]
        BY <3>1, <4>1, AppendProperties DEF TypeOK
      <4> QED
        BY <1>0, <4>2
    <3> QED
      BY <2>1, <3>1
  <2> QED
    BY <2>1, <2>2 DEF EndInv
<1>14. CASE Finished \/ UNCHANGED vars
  BY <1>1, <1>14 DEF Finished, vars
<1> QED
  BY <1>3, <1>4, <1>5, <1>6, <1>7, <1>8, <1>9, <1>10, <1>11, <1>12, <1>13, <1>14
  DEF Next, Worker, Pump

(* Where the chunks are.                                                    *)
LEMMA ConservedStep ==
  ASSUME TypeOK, WorkerInv, EndInv, Conserved, [Next]_vars
  PROVE  Conserved'
<1> USE DEF procs, agent, ctrl, way
<1> SUFFICES ASSUME cpc' = "wait", NEW s \in Streams
             PROVE  Accounted(queue, s, got[s], wrote[s], pipe[s] + InHand(s), link, cancel)'
  BY DEF Conserved
<1> DEFINE r == pipe[s] + InHand(s)
<1>0. /\ queue \in Seq(Outs \cup Ends) /\ wrote[s] \in Nat /\ wrote[s] \in 0..MaxChunks
      /\ pipe[s] \in Nat /\ InHand(s) \in {0, 1} /\ r \in Nat
  BY ExecSizes DEF TypeOK, InHand
<1>1. cpc = "wait"
  BY DEF Next, Worker, Pump, Write, PumpCheck, PumpRead, PumpSend, ChildExits, LingerEnds,
     Expire, Refuse, Spawn, Poll, TryWait, CheckDeadline, Drained, SendEnd, TryWaitFails,
     GraceOver, Deliver, Leave, RouteCancel, LinkBreaks, CancelAll, CleanupAgent, Finished,
     vars
<1>2. Accounted(queue, s, got[s], wrote[s], r, link, cancel)
  BY <1>1 DEF Conserved
(* no frame moves, and what is in the pipe and in the pump's hand is the same *)
<1>3. ASSUME UNCHANGED <<queue, got, wrote, link>>, cancel => cancel', r' = r
      PROVE  Accounted(queue, s, got[s], wrote[s], r, link, cancel)'
  BY <1>0, <1>2, <1>3, TallySame
(* a frame other than a chunk or ExecEnd is queued, or none *)
<1>4. ASSUME UNCHANGED <<got, wrote, pipe, ppc, link, cancel>>,
             NEW m \in Outs \cup Ends, m.op = "Error",
             queue' = queue \/ queue' = Append(queue, m)
      PROVE  Accounted(queue, s, got[s], wrote[s], r, link, cancel)'
  <2>1. r' = r
    BY <1>4 DEF InHand
  <2>2. r = r + (IF m = Out(s) THEN 1 ELSE 0)
    BY <1>0, <1>4 DEF Out
  <2> QED
    BY <1>0, <1>2, <1>4, <2>1, <2>2, TallyAppend
<1>5. ASSUME NEW t \in Streams, Write(t)
      PROVE  Accounted(queue, s, got[s], wrote[s], r, link, cancel)'
  <2>1. /\ InHand(s)' = InHand(s) /\ UNCHANGED <<queue, got, link, cancel>>
        /\ \/ t # s /\ wrote'[s] = wrote[s] /\ pipe'[s] = pipe[s]
           \/ t = s /\ wrote'[s] = wrote[s] + 1 /\ pipe'[s] = pipe[s] + 1
    BY <1>5 DEF Write, TypeOK, InHand
  <2>2. \A i \in 1..Len(queue) : queue[i].op = "ExecEnd" => cancel
    BY <1>1, <1>5 DEF Write, EndInv
  <2>3. wrote'[s] \in Nat /\ r' \in Nat /\ wrote'[s] - r' = wrote[s] - r
    BY <1>0, <2>1, SMTT(60)
  <2>4. cancel' \/ (~cancel /\ \A i \in 1..Len(queue) : queue[i].op # "ExecEnd")
    <3>0. cancel' = cancel
      BY <2>1
    <3>1. CASE cancel
      BY <3>0, <3>1
    <3>2. CASE ~cancel
      BY <2>2, <3>2
    <3> QED
      BY <3>1, <3>2
  <2> HIDE DEF r
  <2>5. Accounted(queue, s, got[s], wrote'[s], r', link', cancel')
    <3>1. link' = link
      BY <2>1
    <3> QED
      BY <1>0, <1>2, <2>3, <2>4, <3>1, TallySame
  <2> QED
    BY <2>1, <2>5
<1>6. ASSUME NEW t \in Streams, PumpCheck(t) \/ PumpRead(t)
      PROVE  Accounted(queue, s, got[s], wrote[s], r, link, cancel)'
  <2>1. UNCHANGED <<queue, got, wrote, link, cancel>>
    BY <1>6 DEF PumpCheck, PumpRead
  <2>2. r' = r
    BY <1>0, <1>6, SMTT(60) DEF PumpCheck, PumpRead, TypeOK, InHand
  <2> QED
    BY <1>3, <2>1, <2>2
<1>7. ASSUME NEW t \in Streams, PumpSend(t)
      PROVE  Accounted(queue, s, got[s], wrote[s], r, link, cancel)'
  <2>1. /\ UNCHANGED <<got, wrote, pipe, link, cancel>>
        /\ link = "up" => queue' = Append(queue, Out(t))
        /\ link # "up" => queue' = queue
    BY <1>7 DEF PumpSend, Send, Out
  <2>2. r = r' + (IF t = s THEN 1 ELSE 0) /\ r' \in Nat
    BY <1>0, <1>7, <2>1 DEF PumpSend, TypeOK, InHand
  <2>3. CASE link = "up"
    <3>1. Out(t) \in Outs \cup Ends /\ (Out(t) = Out(s) <=> t = s) /\ Out(t).op # "ExecEnd"
      BY FramesAreTyped DEF Out
    <3> QED
      BY <1>0, <1>2, <2>1, <2>2, <2>3, <3>1, TallyAppend, ZenonT(60)
  <2>4. CASE link # "up"
    <3>1. PICK n \in [0..Len(queue) -> 0..MaxChunks] :
            Tally(n, queue, s, got[s], wrote[s], r, link, cancel)
      BY <1>2 DEF Accounted
    <3>2. \A i \in 0..Len(queue) : n[i] + r' <= wrote[s]
      <4>1. \A v \in Nat : v + r <= wrote[s] => v + r' <= wrote[s]
        BY <1>0, <2>2
      <4>2. \A i \in 0..Len(queue) : n[i] \in Nat /\ n[i] + r <= wrote[s]
        BY <3>1, ExecSizes DEF Tally
      <4> HIDE DEF r
      <4> QED
        BY <4>1, <4>2
    <3>3. Tally(n, queue, s, got[s], wrote[s], r', link, cancel)
      BY <2>4, <3>1, <3>2 DEF Tally
    <3> QED
      BY <2>1, <2>4, <3>3 DEF Accounted
  <2> QED
    BY <2>3, <2>4
<1>8. CASE Refuse \/ TryWaitFails
  <2>1. /\ UNCHANGED <<got, wrote, pipe, ppc, link, cancel>>
        /\ \E c \in {125, 126, 500} : Send([op |-> "Error", code |-> c])
    BY <1>8 DEF Refuse, TryWaitFails, Send
  <2> QED
    BY <1>4, <2>1, FramesAreTyped DEF Send
<1>9. CASE Spawn
  <2>1. r' = r
    BY <1>0, <1>9 DEF Spawn, InHand, WorkerInv
  <2> QED
    BY <1>3, <1>9, <2>1 DEF Spawn
<1>10. CASE SendEnd
  <2>1. UNCHANGED <<got, wrote, pipe, ppc, link, cancel>> /\ r' = r /\ wpc = "final"
    BY <1>10 DEF SendEnd, Send, InHand
  <2>2. CASE link # "up"
    BY <1>3, <1>10, <2>1, <2>2 DEF SendEnd, Send
  <2>3. CASE link = "up"
    <3>1. queue' = Append(queue, EndFrame) /\ EndFrame \in Outs \cup Ends
      BY <1>10, <2>3, FramesAreTyped DEF SendEnd, Send
    <3>2. EndFrame # Out(s)
      BY DEF EndFrame, Out
    <3>3. EndFrame.op = "ExecEnd" => cancel \/ (link = "up" /\ r = 0)
      <4>1. ASSUME ~cancel PROVE r = 0
        <5>1. ppc[s] = "done"
          BY <2>1, <4>1 DEF WorkerInv
        <5>2. pipe[s] = 0
          BY <2>3, <4>1, <5>1 DEF WorkerInv
        <5> QED
          BY <5>1, <5>2 DEF InHand
      <4>2. cancel \/ (link = "up" /\ r = 0)
        BY <2>3, <4>1
      <4> QED
        BY <4>2
    <3>4. r = r + (IF EndFrame = Out(s) THEN 1 ELSE 0)
      BY <1>0, <3>2
    <3>5. Accounted(Append(queue, EndFrame), s, got[s], wrote[s], r, link, cancel)
      BY <1>0, <1>2, <3>1, <3>3, <3>4, TallyAppend
    <3> QED
      BY <2>1, <3>1, <3>5
  <2> QED
    BY <2>2, <2>3
<1>11. CASE Deliver
  <2> DEFINE m == Head(queue)
             g == got[s] + (IF m = Out(s) THEN 1 ELSE 0)
  <2>1. queue # <<>> /\ queue' = Tail(queue) /\ UNCHANGED <<wrote, link, cancel>> /\ r' = r
    BY <1>11 DEF Deliver, InHand
  <2>2. Accounted(Tail(queue), s, g, wrote[s], r, link, cancel)
    BY <1>0, <1>2, <2>1, TallyTail
  <2>3. got'[s] = g
    <3>1. m \in Outs \cup Ends
      BY <1>0, <2>1, TailShifts
    <3>2. m.op = "ExecOut" /\ got' = [got EXCEPT ![m.stream] = @ + 1]
      BY <1>1, <1>11, <3>1, ZenonT(60) DEF Deliver, Outs, Ends
    <3>3. m = Out(m.stream) /\ m.stream \in Streams
      BY <3>1, <3>2 DEF Outs, Ends, Out
    <3>4. m = Out(s) <=> m.stream = s
      BY <3>3 DEF Out
    <3> QED
      BY <3>2, <3>3, <3>4 DEF TypeOK
  <2> QED
    BY <2>1, <2>2, <2>3
<1>12. CASE LinkBreaks
  <2>1. /\ UNCHANGED <<got, wrote, cancel>> /\ r' = r /\ link' # "up"
        /\ \E k \in 0..Len(queue) : queue' = SubSeq(queue, 1, k)
    BY <1>12 DEF LinkBreaks, InHand
  <2> QED
    BY <1>0, <1>2, <2>1, TallyCut
<1>13. CASE CleanupAgent
  <2> DEFINE m == [op |-> "Error", code |-> 410]
  <2>1. /\ UNCHANGED <<got, wrote, pipe, ppc, cancel>> /\ m \in Outs \cup Ends /\ r' = r
        /\ link # "up" /\ link' # "up" /\ (queue' = queue \/ queue' = Append(queue, m))
    BY <1>13, FramesAreTyped DEF CleanupAgent, InHand
  <2>2. r = r + (IF m = Out(s) THEN 1 ELSE 0)
    BY <1>0 DEF Out
  <2>3. Accounted(queue', s, got[s], wrote[s], r, link, cancel)
    <3>1. m.op # "ExecEnd"
      OBVIOUS
    <3> HIDE DEF m
    <3>2. Accounted(Append(queue, m), s, got[s], wrote[s], r, link, cancel)
      BY <1>0, <1>2, <2>1, <2>2, <3>1, TallyAppend
    <3> QED
      BY <1>2, <2>1, <3>2
  <2>4. queue' \in Seq(Outs \cup Ends)
    BY <1>0, <2>1, AppendProperties
  <2>5. cancel \/ (~cancel /\ wrote[s] = wrote[s])
    OBVIOUS
  <2>6. Accounted(queue', s, got[s], wrote[s], r, link', cancel)
    BY <1>0, <2>1, <2>3, <2>4, <2>5, TallySame
  <2> QED
    BY <2>1, <2>6
<1>14. CASE \/ ChildExits \/ LingerEnds \/ Expire \/ Poll \/ TryWait \/ CheckDeadline
            \/ Drained \/ GraceOver \/ Leave \/ RouteCancel \/ CancelAll \/ Finished
            \/ UNCHANGED vars
  <2>1. UNCHANGED <<queue, got, wrote, link, pipe, ppc>>
    BY <1>14 DEF ChildExits, LingerEnds, Expire, Poll, TryWait, CheckDeadline, Drained,
       GraceOver, Leave, RouteCancel, CancelAll, Finished, vars
  <2>c. cancel => cancel'
    BY <1>14 DEF ChildExits, LingerEnds, Expire, Poll, TryWait, CheckDeadline, Drained,
       GraceOver, Leave, RouteCancel, CancelAll, Finished, vars
  <2>2. r' = r
    BY <2>1 DEF InHand
  <2> QED
    BY <1>3, <2>1, <2>c, <2>2
<1> QED
  BY <1>5, <1>6, <1>7, <1>8, <1>9, <1>10, <1>11, <1>12, <1>13, <1>14
  DEF Next, Worker, Pump
(* The controller that has seen ExecEnd.                                    *)
LEMMA EndedStep ==
  ASSUME TypeOK, WorkerInv, EndInv, Conserved, EndedInv, OutputComplete, ExitFaithful,
         [Next]_vars
  PROVE  EndedInv' /\ OutputComplete' /\ ExitFaithful'
<1> USE DEF procs, agent, ctrl, way
<1>1. CASE cpc = "ended"
  <2>1. /\ wpc = "over" /\ (~cancel => child \in {"exited", "killed"} /\ ~linger)
        /\ (rc = 5 /\ expired) \/ (rc = code /\ child = "exited")
    BY <1>1 DEF EndedInv, ExitFaithful
  <2> DEFINE Stays ==
        /\ UNCHANGED <<cpc, got, rc>> /\ (code' = code \/ child = "running")
        /\ wpc' = "over" /\ cancel' = cancel
        /\ child' = child \/ (child = "running" /\ child' = "exited")
        /\ expired => expired'
        /\ linger' => linger \/ child = "running"
        /\ wrote' = wrote \/ child = "running" \/ linger
  <2>2. Stays
    <3>1. ASSUME NEW s \in Streams, Write(s) \/ PumpCheck(s) \/ PumpRead(s) \/ PumpSend(s)
          PROVE  Stays
      BY <2>1, <3>1 DEF Write, PumpCheck, PumpRead, PumpSend
    <3>2. CASE ChildExits \/ LingerEnds \/ Expire
      <4>1. CASE ChildExits
        BY <2>1, <4>1 DEF ChildExits
      <4>2. CASE LingerEnds
        BY <2>1, <4>2 DEF LingerEnds
      <4>3. CASE Expire
        BY <2>1, <4>3 DEF Expire
      <4> QED
        BY <3>2, <4>1, <4>2, <4>3
    <3>3. CASE Refuse \/ Worker \/ TryWaitFails \/ GraceOver
      BY <2>1, <3>3 DEF Refuse, Worker, Spawn, Poll, TryWait, CheckDeadline, Drained,
         SendEnd, TryWaitFails, GraceOver
    <3>4. CASE Deliver \/ Leave \/ RouteCancel
      BY <1>1, <2>1, <3>4 DEF Deliver, Leave, RouteCancel
    <3>5. CASE LinkBreaks \/ CancelAll \/ CleanupAgent \/ Finished \/ UNCHANGED vars
      BY <2>1, <3>5 DEF LinkBreaks, CancelAll, CleanupAgent, Finished, vars
    <3> QED
      BY <3>1, <3>2, <3>3, <3>4, <3>5 DEF Next, Pump
  <2> QED
    BY <1>1, <2>1, <2>2 DEF EndedInv, OutputComplete, ExitFaithful
<1>2. CASE cpc # "ended" /\ cpc' = "ended"
  <2> DEFINE m == Head(queue)
  <2>1. Deliver /\ cpc = "wait" /\ m.op = "ExecEnd"
    <3>1. Deliver \/ Leave
      BY <1>2 DEF Next, Worker, Pump, Write, PumpCheck, PumpRead, PumpSend, ChildExits,
         LingerEnds, Expire, Refuse, Spawn, Poll, TryWait, CheckDeadline, Drained, SendEnd,
         TryWaitFails, GraceOver, RouteCancel, LinkBreaks, CancelAll, CleanupAgent, Finished,
         vars
    <3>2. queue \in Seq(Outs \cup Ends)
      BY DEF TypeOK
    <3>3. Deliver /\ m \in Outs \cup Ends
      BY <1>2, <3>1, <3>2, TailShifts DEF Leave, Deliver
    <3> QED
      BY <1>2, <3>3, ZenonT(60) DEF Deliver, Outs, Ends
  <2>2. /\ UNCHANGED <<procs, agent, got>> /\ rc' = (IF m.timed THEN 5 ELSE m.rc)
        /\ queue # <<>> /\ queue \in Seq(Outs \cup Ends)
    BY <2>1 DEF Deliver, TypeOK
  <2>3. m = queue[1] /\ 1 \in 1..Len(queue)
    BY <2>2, TailShifts
  <2>4. /\ wpc = "over"
        /\ IF m.timed THEN expired ELSE m.rc = code /\ child = "exited"
        /\ ~cancel => child \in {"exited", "killed"} /\ ~linger
    BY <2>1, <2>3 DEF EndInv
  <2>5. ASSUME ~cancel, NEW s \in Streams PROVE got[s] = wrote[s]
    <3>1. Accounted(queue, s, got[s], wrote[s], pipe[s] + InHand(s), link, cancel)
      BY <2>1 DEF Conserved
    <3>2. wrote[s] \in Nat /\ pipe[s] + InHand(s) \in Nat
      BY DEF TypeOK, InHand
    <3>3. Head(queue).op = "ExecEnd" => cancel \/ got[s] = wrote[s]
      BY <2>2, <3>1, <3>2, TallyEnd
    <3> QED
      BY <2>1, <2>5, <3>3
  <2>6. EndedInv'
    BY <2>2, <2>4 DEF EndedInv
  <2>7. OutputComplete'
    BY <2>2, <2>5 DEF OutputComplete
  <2>8. ExitFaithful'
    BY <2>2, <2>4 DEF ExitFaithful
  <2> QED
    BY <2>6, <2>7, <2>8
<1> QED
  BY <1>1, <1>2 DEF EndedInv, OutputComplete, ExitFaithful

(* The invariant holds of every reachable state.                            *)
THEOREM ExecInvariant == Spec => []ExecInv
<1>1. Init => ExecInv
  <2> SUFFICES ASSUME Init PROVE ExecInv
    OBVIOUS
  <2>1. WorkerInv /\ EndInv /\ EndedInv /\ OutputComplete /\ ExitFaithful
    BY DEF Init, WorkerInv, EndInv, EndedInv, OutputComplete, ExitFaithful, Polling
  <2>2. ASSUME NEW s \in Streams
        PROVE  Accounted(queue, s, got[s], wrote[s], pipe[s] + InHand(s), link, cancel)
    <3> DEFINE n == [i \in 0..0 |-> 0]
    <3>1. Len(queue) = 0 /\ n \in [0..Len(queue) -> 0..MaxChunks] /\ InHand(s) = 0
      BY <2>2, ExecSizes DEF Init, InHand
    <3>2. Tally(n, queue, s, got[s], wrote[s], pipe[s] + InHand(s), link, cancel)
      BY <2>2, <3>1 DEF Init, Tally
    <3> QED
      BY <3>1, <3>2 DEF Accounted
  <2> QED
    BY <2>1, <2>2, TypeInit DEF ExecInv, Conserved
<1>2. ExecInv /\ [Next]_vars => ExecInv'
  BY TypeStep, WorkerStep, EndStep, ConservedStep, EndedStep DEF ExecInv
<1> QED
  BY <1>1, <1>2, PTL DEF Spec

(* Every variable stays in the states the code can be in, and no more chunks  *)
(* are printed than the command wrote.                                       *)
THEOREM ExecTypes == Spec => []TypeOK
<1>1. ExecInv => TypeOK
  BY DEF ExecInv
<1> QED
  BY <1>1, ExecInvariant, PTL

(* By the time the controller sees ExecEnd of a job that was not cancelled   *)
(* it has printed every chunk that was written, for outputs of any length.   *)
THEOREM ExecOutputComplete == Spec => []OutputComplete
<1>1. ExecInv => OutputComplete
  BY DEF ExecInv
<1> QED
  BY <1>1, ExecInvariant, PTL

(* The exit code of `apb exec` is the command's own, or 5 for a command that *)
(* was killed at its deadline.                                               *)
THEOREM ExecExitFaithful == Spec => []ExitFaithful
<1>1. ExecInv => ExitFaithful
  BY DEF ExecInv
<1> QED
  BY <1>1, ExecInvariant, PTL

============================================================================
