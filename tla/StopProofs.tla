----------------------------- MODULE StopProofs -----------------------------
(***************************************************************************)
(* Proofs about Stop, for any set of controllers, any number of frames of  *)
(* the other job and any queue capacity: the pending counter never         *)
(* underflows, a flush that reports success means that the Bye was         *)
(* written, and an obeyed stop is not reported as refused.                 *)
(***************************************************************************)
EXTENDS Stop, TLAPS

(* What Append does to the elements of a queue. *)
LEMMA InAppend ==
  ASSUME NEW S, NEW s \in Seq(S), NEW e \in S
  PROVE  /\ Append(s, e) \in Seq(S) /\ Len(Append(s, e)) = Len(s) + 1
         /\ ToSet(Append(s, e)) = ToSet(s) \cup {e}
<1>1. /\ Append(s, e) \in Seq(S) /\ Len(Append(s, e)) = Len(s) + 1 /\ Len(s) \in Nat
      /\ \A i \in 1..Len(s) : Append(s, e)[i] = s[i]
      /\ Append(s, e)[Len(s) + 1] = e
  OBVIOUS
<1>2. DOMAIN s = 1..Len(s) /\ DOMAIN Append(s, e) = 1..(Len(s) + 1)
  BY <1>1
<1>3. ToSet(Append(s, e)) = ToSet(s) \cup {e}
  BY <1>1, <1>2 DEF ToSet
<1> QED
  BY <1>1, <1>3

(* What Tail does to the elements of a queue. *)
LEMMA InTail ==
  ASSUME NEW S, NEW s \in Seq(S), s # <<>>
  PROVE  /\ Head(s) \in S /\ Tail(s) \in Seq(S) /\ Len(Tail(s)) = Len(s) - 1
         /\ Len(s) > 0
         /\ ToSet(s) = {Head(s)} \cup ToSet(Tail(s))
<1>1. /\ Head(s) \in S /\ Tail(s) \in Seq(S) /\ Len(Tail(s)) = Len(s) - 1
      /\ Len(s) \in Nat /\ Len(s) > 0 /\ Head(s) = s[1]
      /\ \A i \in 1..(Len(s) - 1) : Tail(s)[i] = s[i + 1]
  OBVIOUS
<1>2. DOMAIN s = 1..Len(s) /\ DOMAIN Tail(s) = 1..(Len(s) - 1)
  BY <1>1
<1>3. ASSUME NEW x \in ToSet(s) PROVE x \in {Head(s)} \cup ToSet(Tail(s))
  <2>1. PICK i \in 1..Len(s) : x = s[i]
    BY <1>2 DEF ToSet
  <2>2. CASE i = 1
    BY <1>1, <2>1, <2>2
  <2>3. CASE i # 1
    <3>1. i - 1 \in 1..(Len(s) - 1) /\ Tail(s)[i - 1] = s[i]
      BY <1>1, <2>1, <2>3
    <3> QED
      BY <1>2, <2>1, <3>1 DEF ToSet
  <2> QED
    BY <2>2, <2>3
<1>4. ASSUME NEW x \in {Head(s)} \cup ToSet(Tail(s)) PROVE x \in ToSet(s)
  <2>1. CASE x = Head(s)
    BY <1>1, <1>2, <2>1 DEF ToSet
  <2>2. CASE x \in ToSet(Tail(s))
    <3>1. PICK i \in 1..(Len(s) - 1) : x = Tail(s)[i]
      BY <1>2, <2>2 DEF ToSet
    <3>2. i + 1 \in 1..Len(s) /\ x = s[i + 1]
      BY <1>1, <3>1
    <3> QED
      BY <1>2, <3>2 DEF ToSet
  <2> QED
    BY <1>4, <2>1, <2>2
<1>5. ToSet(s) = {Head(s)} \cup ToSet(Tail(s))
  BY <1>3, <1>4
<1> QED
  BY <1>1, <1>5

(* The elements of a queue are frames; an empty queue has none. *)
LEMMA Elements ==
  /\ ToSet(<<>>) = {}
  /\ \A S : \A s \in Seq(S) : ToSet(s) \subseteq S /\ Len(s) \in Nat /\ (Len(s) = 0 => s = <<>>)
<1>1. ToSet(<<>>) = {}
  BY DEF ToSet
<1>2. ASSUME NEW S, NEW s \in Seq(S)
      PROVE  ToSet(s) \subseteq S /\ Len(s) \in Nat /\ (Len(s) = 0 => s = <<>>)
  <2>1. DOMAIN s = 1..Len(s) /\ \A i \in 1..Len(s) : s[i] \in S
    OBVIOUS
  <2> QED
    BY <2>1 DEF ToSet
<1> QED
  BY <1>1, <1>2

(* One step of the system keeps the type invariant and the inductive invariant. *)
LEMMA StopStep ==
  TypeOK /\ StopInv /\ [Next]_vars => TypeOK' /\ StopInv'
<1> SUFFICES ASSUME TypeOK, StopInv, [Next]_vars
             PROVE  TypeOK' /\ StopInv'
  OBVIOUS
<1>p. PendingCovers
  BY DEF StopInv
<1>a. AskersAsked
  BY DEF StopInv
<1>u. UpMeansQuiet
  BY DEF StopInv
<1>b. ByeOnItsWay
  BY DEF StopInv
<1>f. FlushedBye
  BY DEF StopInv
<1>j. JobHasFrame
  BY DEF StopInv
<1>c. ClosedAtExit
  BY DEF StopInv
<1>o. ObeyedNotRefused
  BY DEF StopInv
<1>n. InWriter \in 0..1 /\ InReader \in 0..1 /\ InJob \in 0..1
  BY DEF InWriter, InReader, InJob
<1>l. Len(queue) \in Nat /\ pending \in Nat /\ (Len(queue) = 0 => queue = <<>>)
  BY Elements DEF TypeOK
<1>e. ToSet(<<>>) = {} /\ Len(<<>>) = 0
  BY Elements
<1>d. ToSet(deliver) \subseteq Ctrls
  BY Elements DEF TypeOK
<1>s. <<>> \in Seq(Frames) /\ <<>> \in Seq(Ctrls)
  OBVIOUS
<1>1. ASSUME NEW c \in Ctrls, CtrlSend(c) PROVE TypeOK' /\ StopInv'
  <2>1. /\ Append(reply[c], "Error") \in Seq({"Bye", "Error"})
           /\ Append(deliver, c) \in Seq(Ctrls) /\ ToSet(Append(deliver, c)) = ToSet(deliver) \cup {c}
    BY <1>1, InAppend DEF TypeOK
  <2>2. /\ cpc' = [cpc EXCEPT ![c] = "top"]
        /\ \/ reply' = reply /\ waiting' = waiting \cup {c} /\ deliver' = Append(deliver, c)
           \/ reply' = [reply EXCEPT ![c] = Append(reply[c], "Error")] /\ UNCHANGED <<waiting, deliver>>
    BY <1>1 DEF CtrlSend
  <2>3. InWriter' = InWriter /\ InReader' = InReader /\ InJob' = InJob
    BY <1>1 DEF InWriter, InReader, InJob, CtrlSend, reader, job, conn
  <2>4. TypeOK'
    <3>1. CASE reply' = reply /\ waiting' = waiting \cup {c} /\ deliver' = Append(deliver, c)
      BY <3>1, <1>1, <2>1, <2>2 DEF TypeOK, CtrlSend, reader, job, conn
    <3>2. CASE reply' = [reply EXCEPT ![c] = Append(reply[c], "Error")] /\ UNCHANGED <<waiting, deliver>>
      BY <3>2, <1>1, <2>1, <2>2 DEF TypeOK, CtrlSend, reader, job, conn
    <3> QED
      BY <3>1, <3>2, <2>2
  <2>5. PendingCovers'
    BY <1>1, <1>p, <2>1, <2>2, <1>l, <1>n, <2>3 DEF PendingCovers, CtrlSend, reader, job, conn
  <2>6. AskersAsked'
    <3>1. CASE deliver' = Append(deliver, c)
      BY <3>1, <1>1, <1>a, <1>d, <2>1, <2>2 DEF TypeOK, AskersAsked, CtrlSend, reader
    <3>2. CASE deliver' = deliver
      BY <3>2, <1>1, <1>a, <1>d, <2>2 DEF TypeOK, AskersAsked, CtrlSend, reader
    <3> QED
      BY <3>1, <3>2, <2>2
  <2>7. UpMeansQuiet'
    BY <1>1, <1>u, <2>1, <2>2 DEF TypeOK, UpMeansQuiet, CtrlSend, reader, job, conn
  <2>8. ByeOnItsWay'
    BY <1>1, <1>b, <1>a, <2>1, <2>2 DEF TypeOK, ByeOnItsWay, AskersAsked, CtrlSend, reader, job, conn
  <2>9. FlushedBye'
    BY <1>1, <1>f, <1>a, <2>1, <2>2 DEF TypeOK, FlushedBye, AskersAsked, CtrlSend, reader, job, conn
  <2>10. JobHasFrame'
    BY <1>1, <1>j DEF JobHasFrame, CtrlSend, reader, job, conn
  <2>11. ClosedAtExit'
    BY <1>1, <1>c DEF ClosedAtExit, CtrlSend, reader, job, conn
  <2>12. ObeyedNotRefused'
    BY <1>1, <1>o, <1>a, <1>f, <1>u, <2>1, <2>2 DEF TypeOK, ObeyedNotRefused, AskersAsked, FlushedBye, UpMeansQuiet, CtrlSend, reader, job, conn
  <2> QED
    BY <2>4, <2>5, <2>6, <2>7, <2>8, <2>9, <2>10, <2>11, <2>12 DEF StopInv
<1>2. ASSUME NEW c \in Ctrls, CtrlTop(c) PROVE TypeOK' /\ StopInv'
  <2>1. InWriter' = InWriter /\ InReader' = InReader /\ InJob' = InJob
    BY <1>2 DEF InWriter, InReader, InJob, CtrlTop, CtrlExit, GiveUp, reader, job, conn
  <2>2. TypeOK'
    <3>1. CASE UNCHANGED <<rc, waiting>> /\ cpc' = [cpc EXCEPT ![c] = "recv"]
      BY <3>1, <1>2, <1>s, StopSizes DEF TypeOK, CtrlTop, CtrlExit, GiveUp, reader, job, conn
    <3>2. CASE CtrlExit(c, 5) /\ GiveUp(c)
      BY <3>2, <1>2, <1>s, StopSizes DEF TypeOK, CtrlTop, CtrlExit, GiveUp, reader, job, conn
    <3> QED
      BY <3>1, <3>2, <1>2 DEF CtrlTop
  <2>3. PendingCovers'
    BY <1>2, <1>p, <1>l, <1>n, <2>1 DEF PendingCovers, CtrlTop, CtrlExit, GiveUp, reader, job, conn
  <2>4. AskersAsked'
    <3>1. CASE UNCHANGED <<rc, waiting>> /\ cpc' = [cpc EXCEPT ![c] = "recv"]
      BY <3>1, <1>2, <1>a, <1>d, StopSizes DEF TypeOK, AskersAsked, CtrlTop, CtrlExit, GiveUp, reader, job, conn
    <3>2. CASE CtrlExit(c, 5) /\ GiveUp(c)
      BY <3>2, <1>2, <1>a, <1>d, StopSizes DEF TypeOK, AskersAsked, CtrlTop, CtrlExit, GiveUp, reader, job, conn
    <3> QED
      BY <3>1, <3>2, <1>2 DEF CtrlTop
  <2>5. UpMeansQuiet'
    BY <1>2, <1>u DEF TypeOK, UpMeansQuiet, CtrlTop, CtrlExit, GiveUp, reader, job, conn
  <2>6. ByeOnItsWay'
    BY <1>2, <1>b DEF TypeOK, ByeOnItsWay, CtrlTop, CtrlExit, GiveUp, reader, job, conn
  <2>7. FlushedBye'
    BY <1>2, <1>f DEF TypeOK, FlushedBye, CtrlTop, CtrlExit, GiveUp, reader, job, conn
  <2>8. JobHasFrame'
    BY <1>2, <1>j DEF JobHasFrame, CtrlTop, CtrlExit, GiveUp, reader, job, conn
  <2>9. ClosedAtExit'
    BY <1>2, <1>c DEF ClosedAtExit, CtrlTop, CtrlExit, GiveUp, reader, job, conn
  <2>10. ObeyedNotRefused'
    BY <1>2, <1>o, <1>a, <1>f, <1>u DEF TypeOK, ObeyedNotRefused, AskersAsked, FlushedBye, UpMeansQuiet, CtrlTop, CtrlExit, GiveUp, reader, job, conn
  <2> QED
    BY <2>2, <2>3, <2>4, <2>5, <2>6, <2>7, <2>8, <2>9, <2>10 DEF StopInv
<1>3. ASSUME NEW c \in Ctrls, CtrlRecv(c) PROVE TypeOK' /\ StopInv'
  <2>1. /\ Tail(reply[c]) \in Seq({"Bye", "Error"}) /\ Head(reply[c]) \in {"Bye", "Error"}
           /\ ToSet(reply[c]) = {Head(reply[c])} \cup ToSet(Tail(reply[c]))
    BY <1>3, InTail DEF TypeOK, CtrlRecv
  <2>2. InWriter' = InWriter /\ InReader' = InReader /\ InJob' = InJob
    BY <1>3 DEF InWriter, InReader, InJob, CtrlRecv, CtrlExit, server, reader, job, conn
  <2>3. TypeOK'
    BY <1>3, <1>s, <2>1, StopSizes DEF TypeOK, CtrlRecv, CtrlExit, server, reader, job, conn
  <2>4. PendingCovers'
    BY <1>3, <1>p, <2>1, <1>l, <1>n, <2>2 DEF PendingCovers, CtrlRecv, CtrlExit, server, reader, job, conn
  <2>5. AskersAsked'
    BY <1>3, <1>a, <2>1, <1>d, StopSizes DEF TypeOK, AskersAsked, CtrlRecv, CtrlExit, server, reader, job, conn
  <2>6. UpMeansQuiet'
    BY <1>3, <1>u, <2>1 DEF TypeOK, UpMeansQuiet, CtrlRecv, CtrlExit, server, reader, job, conn
  <2>7. ByeOnItsWay'
    BY <1>3, <1>b, <2>1 DEF TypeOK, ByeOnItsWay, CtrlRecv, CtrlExit, server, reader, job, conn
  <2>8. FlushedBye'
    BY <1>3, <1>f, <2>1 DEF TypeOK, FlushedBye, CtrlRecv, CtrlExit, server, reader, job, conn
  <2>9. JobHasFrame'
    BY <1>3, <1>j DEF JobHasFrame, CtrlRecv, CtrlExit, server, reader, job, conn
  <2>10. ClosedAtExit'
    BY <1>3, <1>c DEF ClosedAtExit, CtrlRecv, CtrlExit, server, reader, job, conn
  <2>11. ObeyedNotRefused'
    BY <1>3, <1>o, <1>a, <1>f, <1>u, <2>1 DEF TypeOK, ObeyedNotRefused, AskersAsked, FlushedBye, UpMeansQuiet, CtrlRecv, CtrlExit, server, reader, job, conn
  <2> QED
    BY <2>3, <2>4, <2>5, <2>6, <2>7, <2>8, <2>9, <2>10, <2>11 DEF StopInv
<1>4. ASSUME NEW c \in Ctrls, CtrlRecvTimeout(c) PROVE TypeOK' /\ StopInv'
  <2>1. InWriter' = InWriter /\ InReader' = InReader /\ InJob' = InJob
    BY <1>4 DEF InWriter, InReader, InJob, CtrlRecvTimeout, CtrlExit, GiveUp, reader, job, conn
  <2>2. TypeOK'
    BY <1>4, <1>s, StopSizes DEF TypeOK, CtrlRecvTimeout, CtrlExit, GiveUp, reader, job, conn
  <2>3. PendingCovers'
    BY <1>4, <1>p, <1>l, <1>n, <2>1 DEF PendingCovers, CtrlRecvTimeout, CtrlExit, GiveUp, reader, job, conn
  <2>4. AskersAsked'
    BY <1>4, <1>a, <1>d, StopSizes DEF TypeOK, AskersAsked, CtrlRecvTimeout, CtrlExit, GiveUp, reader, job, conn
  <2>5. UpMeansQuiet'
    BY <1>4, <1>u DEF TypeOK, UpMeansQuiet, CtrlRecvTimeout, CtrlExit, GiveUp, reader, job, conn
  <2>6. ByeOnItsWay'
    BY <1>4, <1>b DEF TypeOK, ByeOnItsWay, CtrlRecvTimeout, CtrlExit, GiveUp, reader, job, conn
  <2>7. FlushedBye'
    BY <1>4, <1>f DEF TypeOK, FlushedBye, CtrlRecvTimeout, CtrlExit, GiveUp, reader, job, conn
  <2>8. JobHasFrame'
    BY <1>4, <1>j DEF JobHasFrame, CtrlRecvTimeout, CtrlExit, GiveUp, reader, job, conn
  <2>9. ClosedAtExit'
    BY <1>4, <1>c DEF ClosedAtExit, CtrlRecvTimeout, CtrlExit, GiveUp, reader, job, conn
  <2>10. ObeyedNotRefused'
    BY <1>4, <1>o, <1>a, <1>f, <1>u DEF TypeOK, ObeyedNotRefused, AskersAsked, FlushedBye, UpMeansQuiet, CtrlRecvTimeout, CtrlExit, GiveUp, reader, job, conn
  <2> QED
    BY <2>2, <2>3, <2>4, <2>5, <2>6, <2>7, <2>8, <2>9, <2>10 DEF StopInv
<1>5. ASSUME ServerForward PROVE TypeOK' /\ StopInv'
  <2>1. Head(sock) \in Frames /\ Tail(sock) \in Seq(Frames) /\ ToSet(sock) = {Head(sock)} \cup ToSet(Tail(sock))
    BY <1>5, InTail DEF TypeOK, ServerForward
  <2>2. \A c \in Ctrls : /\ Append(reply[c], "Bye") \in Seq({"Bye", "Error"})
                           /\ ToSet(Append(reply[c], "Bye")) = ToSet(reply[c]) \cup {"Bye"}
    <3> TAKE c \in Ctrls
    <3>1. reply[c] \in Seq({"Bye", "Error"}) /\ "Bye" \in {"Bye", "Error"}
      BY DEF TypeOK
    <3> QED
      BY <3>1, InAppend
  <2>3. \/ UNCHANGED <<reply, waiting>>
        \/ /\ Head(sock) \in Ctrls /\ waiting' = waiting \ {Head(sock)}
           /\ reply' = [reply EXCEPT ![Head(sock)] = Append(reply[Head(sock)], "Bye")]
    BY <1>5 DEF TypeOK, ServerForward
  <2>4. \A c \in Ctrls : "Error" \notin ToSet(reply[c]) => "Error" \notin ToSet(reply'[c])
    <3> SUFFICES ASSUME NEW c \in Ctrls, "Error" \notin ToSet(reply[c])
                 PROVE  "Error" \notin ToSet(reply'[c])
      OBVIOUS
    <3>1. reply'[c] = reply[c] \/ reply'[c] = Append(reply[c], "Bye")
      BY <2>3 DEF TypeOK
    <3>2. "Error" \notin ToSet(Append(reply[c], "Bye"))
      BY <2>2
    <3> QED
      BY <3>1, <3>2
  <2>5. InWriter' = InWriter /\ InReader' = InReader /\ InJob' = InJob
    BY <1>5 DEF InWriter, InReader, InJob, ServerForward, reader, job
  <2>6. TypeOK'
    <3>1. reply' \in [Ctrls -> Seq({"Bye", "Error"})] /\ waiting' \in SUBSET Ctrls
      BY <2>2, <2>3, ZenonT(60) DEF TypeOK
    <3> QED
      BY <3>1, <1>5, <2>1 DEF TypeOK, ServerForward, reader, job
  <2>7. PendingCovers'
    BY <1>5, <1>p, <2>1, <2>2, <2>3, <2>4, <1>l, <1>n, <2>5 DEF PendingCovers, ServerForward, reader, job
  <2>8. AskersAsked'
    BY <1>5, <1>a, <2>1, <2>2, <2>3, <2>4, StopSizes DEF TypeOK, AskersAsked, ServerForward, reader, job
  <2>9. UpMeansQuiet'
    BY <1>5, <1>u, <2>4 DEF TypeOK, UpMeansQuiet, ServerForward, reader
  <2>10. ByeOnItsWay'
    BY <1>5, <1>b, <1>a, <1>u, <2>1, <2>2, <2>3, <2>4 DEF TypeOK, ByeOnItsWay, AskersAsked, UpMeansQuiet, ServerForward, reader, job
  <2>11. FlushedBye'
    BY <1>5, <1>f, <1>a, <2>1, <2>2, <2>3, <2>4 DEF TypeOK, FlushedBye, AskersAsked, ServerForward, reader, job
  <2>12. JobHasFrame'
    BY <1>5, <1>j DEF JobHasFrame, ServerForward, reader, job
  <2>13. ClosedAtExit'
    BY <1>5, <1>c DEF ClosedAtExit, ServerForward, reader, job
  <2>14. ObeyedNotRefused'
    <3>1. flushed => asker \in Ctrls
      BY <1>f, <1>a DEF TypeOK, FlushedBye, AskersAsked
    <3> QED
      BY <3>1, <1>5, <1>o, <2>4 DEF ObeyedNotRefused, ServerForward, reader
  <2> QED
    BY <2>6, <2>7, <2>8, <2>9, <2>10, <2>11, <2>12, <2>13, <2>14 DEF StopInv
<1>6. ASSUME ServerEof PROVE TypeOK' /\ StopInv'
  <2>1. \A c \in Ctrls : Append(reply[c], "Error") \in Seq({"Bye", "Error"})
    BY <1>6, InAppend DEF TypeOK
  <2>2. InWriter' = InWriter /\ InReader' = InReader /\ InJob' = InJob
    BY <1>6 DEF InWriter, InReader, InJob, ServerEof, reader, job, conn
  <2>3. TypeOK'
    BY <1>6, <1>s, <2>1, StopSizes, ZenonT(60) DEF TypeOK, ServerEof, reader, job, conn
  <2>4. PendingCovers'
    BY <1>6, <1>p, <2>1, <1>l, <1>n, <2>2 DEF PendingCovers, ServerEof, reader, job, conn
  <2>5. AskersAsked'
    BY <1>6, <1>a, <2>1, <1>e, StopSizes DEF TypeOK, AskersAsked, ServerEof, reader, job, conn
  <2>6. UpMeansQuiet'
    BY <1>6, <1>u, <2>1 DEF TypeOK, UpMeansQuiet, ServerEof, reader, job, conn
  <2>7. ByeOnItsWay'
    BY <1>6, <1>b, <1>u, <2>1, <1>e DEF TypeOK, ByeOnItsWay, UpMeansQuiet, ServerEof, reader, job, conn
  <2>8. FlushedBye'
    BY <1>6, <1>f, <1>u, <1>a, <2>1, <1>e DEF TypeOK, FlushedBye, UpMeansQuiet, AskersAsked, ServerEof, reader, job, conn
  <2>9. JobHasFrame'
    BY <1>6, <1>j DEF JobHasFrame, ServerEof, reader, job, conn
  <2>10. ClosedAtExit'
    BY <1>6, <1>c DEF ClosedAtExit, ServerEof, reader, job, conn
  <2>11. ObeyedNotRefused'
    BY <1>6, <1>o, <1>a, <1>f, <1>u, <2>1 DEF TypeOK, ObeyedNotRefused, AskersAsked, FlushedBye, UpMeansQuiet, ServerEof, reader, job, conn
  <2> QED
    BY <2>3, <2>4, <2>5, <2>6, <2>7, <2>8, <2>9, <2>10, <2>11 DEF StopInv
<1>7. ASSUME AgentRead PROVE TypeOK' /\ StopInv'
  <2>1. Head(deliver) \in Ctrls /\ Tail(deliver) \in Seq(Ctrls) /\ ToSet(deliver) = {Head(deliver)} \cup ToSet(Tail(deliver))
    BY <1>7, InTail DEF TypeOK, AgentRead
  <2>2. InWriter' = InWriter /\ InReader' = InReader /\ InJob' = InJob
    BY <1>7 DEF InWriter, InReader, InJob, AgentRead, ctrls, job, conn
  <2>3. TypeOK'
    BY <1>7, <1>s, <2>1, StopSizes DEF TypeOK, AgentRead, ctrls, job, conn
  <2>4. PendingCovers'
    BY <1>7, <1>p, <2>1, <1>l, <1>n, <2>2 DEF PendingCovers, AgentRead, ctrls, job, conn
  <2>5. AskersAsked'
    BY <1>7, <1>a, <2>1, StopSizes DEF TypeOK, AskersAsked, AgentRead, ctrls, job, conn
  <2>6. UpMeansQuiet'
    BY <1>7, <1>u, <2>1 DEF TypeOK, UpMeansQuiet, AgentRead, ctrls, job, conn
  <2>7. ByeOnItsWay'
    BY <1>7, <1>b, <2>1 DEF TypeOK, ByeOnItsWay, AgentRead, ctrls, job, conn
  <2>8. FlushedBye'
    BY <1>7, <1>f, <1>u, <2>1 DEF TypeOK, FlushedBye, UpMeansQuiet, AgentRead, ctrls, job, conn
  <2>9. JobHasFrame'
    BY <1>7, <1>j DEF JobHasFrame, AgentRead, ctrls, job, conn
  <2>10. ClosedAtExit'
    BY <1>7, <1>c, <1>u DEF ClosedAtExit, UpMeansQuiet, AgentRead, ctrls, job, conn
  <2>11. ObeyedNotRefused'
    BY <1>7, <1>o, <1>f, <1>u, <2>1 DEF TypeOK, ObeyedNotRefused, FlushedBye, UpMeansQuiet, AgentRead, ctrls, job, conn
  <2> QED
    BY <2>3, <2>4, <2>5, <2>6, <2>7, <2>8, <2>9, <2>10, <2>11 DEF StopInv
<1>8. ASSUME AgentLost PROVE TypeOK' /\ StopInv'
  <2>1. InWriter' = InWriter /\ InReader' = InReader /\ InJob' = InJob
    BY <1>8 DEF InWriter, InReader, InJob, AgentLost, ctrls, server, job, conn
  <2>2. TypeOK'
    BY <1>8, <1>s, StopSizes DEF TypeOK, AgentLost, ctrls, server, job, conn
  <2>3. PendingCovers'
    BY <1>8, <1>p, <1>l, <1>n, <2>1 DEF PendingCovers, AgentLost, ctrls, server, job, conn
  <2>4. AskersAsked'
    BY <1>8, <1>a, StopSizes DEF TypeOK, AskersAsked, AgentLost, ctrls, server, job, conn
  <2>5. UpMeansQuiet'
    BY <1>8, <1>u DEF TypeOK, UpMeansQuiet, AgentLost, ctrls, server, job, conn
  <2>6. ByeOnItsWay'
    BY <1>8, <1>b DEF TypeOK, ByeOnItsWay, AgentLost, ctrls, server, job, conn
  <2>7. FlushedBye'
    BY <1>8, <1>f, <1>u DEF TypeOK, FlushedBye, UpMeansQuiet, AgentLost, ctrls, server, job, conn
  <2>8. JobHasFrame'
    BY <1>8, <1>j DEF JobHasFrame, AgentLost, ctrls, server, job, conn
  <2>9. ClosedAtExit'
    BY <1>8, <1>c DEF ClosedAtExit, AgentLost, ctrls, server, job, conn
  <2>10. ObeyedNotRefused'
    BY <1>8, <1>o DEF TypeOK, ObeyedNotRefused, AgentLost, ctrls, server, job, conn
  <2> QED
    BY <2>2, <2>3, <2>4, <2>5, <2>6, <2>7, <2>8, <2>9, <2>10 DEF StopInv
<1>9. ASSUME ByeAdd PROVE TypeOK' /\ StopInv'
  <2>1. InWriter' = InWriter /\ InJob' = InJob /\ InReader = 0 /\ InReader' = 1
    BY <1>9 DEF InWriter, InReader, InJob, ByeAdd, SendAdd, ctrls, server, job
  <2>2. TypeOK'
    BY <1>9, <1>s, StopSizes DEF TypeOK, ByeAdd, SendAdd, ctrls, server, job
  <2>3. PendingCovers'
    BY <1>9, <1>p, <1>l, <1>n, <2>1 DEF PendingCovers, ByeAdd, SendAdd, ctrls, server, job
  <2>4. AskersAsked'
    BY <1>9, <1>a, StopSizes DEF TypeOK, AskersAsked, ByeAdd, SendAdd, ctrls, server, job
  <2>5. UpMeansQuiet'
    BY <1>9, <1>u DEF TypeOK, UpMeansQuiet, ByeAdd, SendAdd, ctrls, server, job
  <2>6. ByeOnItsWay'
    BY <1>9, <1>b DEF TypeOK, ByeOnItsWay, ByeAdd, SendAdd, ctrls, server, job
  <2>7. FlushedBye'
    BY <1>9, <1>f, <1>a DEF TypeOK, FlushedBye, AskersAsked, ByeAdd, SendAdd, ctrls, server, job
  <2>8. JobHasFrame'
    BY <1>9, <1>j DEF JobHasFrame, ByeAdd, SendAdd, ctrls, server, job
  <2>9. ClosedAtExit'
    BY <1>9, <1>c DEF ClosedAtExit, ByeAdd, SendAdd, ctrls, server, job
  <2>10. ObeyedNotRefused'
    BY <1>9, <1>o DEF TypeOK, ObeyedNotRefused, ByeAdd, SendAdd, ctrls, server, job
  <2> QED
    BY <2>2, <2>3, <2>4, <2>5, <2>6, <2>7, <2>8, <2>9, <2>10 DEF StopInv
<1>10. ASSUME ByePush PROVE TypeOK' /\ StopInv'
  <2>1. /\ asker \in Ctrls /\ asker \in Frames
    BY <1>10 DEF TypeOK, StopInv, AskersAsked, ByePush, Frames
  <2>2. /\ Append(queue, asker) \in Seq(Frames) /\ Len(Append(queue, asker)) = Len(queue) + 1
           /\ ToSet(Append(queue, asker)) = ToSet(queue) \cup {asker}
    BY <1>10, <2>1, InAppend DEF TypeOK
  <2>3. InWriter' = InWriter /\ InJob' = InJob /\ InReader = 1 /\ InReader' = 0
    BY <1>10 DEF InWriter, InReader, InJob, ByePush, SendPush, ctrls, server, job
  <2>4. pending' \in Nat
    BY <1>10, <1>p, <1>n, <1>l, <2>3 DEF PendingCovers, ByePush, SendPush, ctrls, server, job
  <2>5. TypeOK'
    <3>1. CASE wpc # "over" /\ queue' = Append(queue, asker) /\ Len(queue) < QueueCap /\ UNCHANGED pending
      BY <3>1, <1>10, <1>s, <2>1, <2>2, StopSizes, <1>j, <2>4 DEF TypeOK, JobHasFrame, ByePush, SendPush, ctrls, server, job
    <3>2. CASE wpc = "over" /\ UNCHANGED queue
      BY <3>2, <1>10, <1>s, <2>1, <2>2, StopSizes, <1>j, <2>4 DEF TypeOK, JobHasFrame, ByePush, SendPush, ctrls, server, job
    <3> QED
      BY <3>1, <3>2, <1>10 DEF ByePush, SendPush
  <2>6. PendingCovers'
    BY <1>10, <1>p, <2>1, <2>2, <1>l, <1>n, <2>3 DEF PendingCovers, ByePush, SendPush, ctrls, server, job
  <2>7. AskersAsked'
    BY <1>10, <1>a, <2>1, <2>2, StopSizes DEF TypeOK, AskersAsked, ByePush, SendPush, ctrls, server, job
  <2>8. UpMeansQuiet'
    BY <1>10, <1>u, <2>1, <2>2 DEF TypeOK, UpMeansQuiet, ByePush, SendPush, ctrls, server, job
  <2>9. ByeOnItsWay'
    BY <1>10, <1>b, <1>u, <1>a, <2>1, <2>2 DEF TypeOK, ByeOnItsWay, UpMeansQuiet, AskersAsked, ByePush, SendPush, ctrls, server, job
  <2>10. FlushedBye'
    BY <1>10, <1>f, <1>a, <2>1, <2>2 DEF TypeOK, FlushedBye, AskersAsked, ByePush, SendPush, ctrls, server, job
  <2>11. JobHasFrame'
    BY <1>10, <1>j DEF JobHasFrame, ByePush, SendPush, ctrls, server, job
  <2>12. ClosedAtExit'
    BY <1>10, <1>c DEF ClosedAtExit, ByePush, SendPush, ctrls, server, job
  <2>13. ObeyedNotRefused'
    BY <1>10, <1>o, <2>1, <2>2 DEF TypeOK, ObeyedNotRefused, ByePush, SendPush, ctrls, server, job
  <2> QED
    BY <2>5, <2>6, <2>7, <2>8, <2>9, <2>10, <2>11, <2>12, <2>13 DEF StopInv
<1>11. ASSUME SetStop PROVE TypeOK' /\ StopInv'
  <2>1. InWriter' = InWriter /\ InReader' = InReader /\ InJob' = InJob
    BY <1>11 DEF InWriter, InReader, InJob, SetStop, ctrls, server, job, conn
  <2>2. TypeOK'
    BY <1>11, <1>s, StopSizes DEF TypeOK, SetStop, ctrls, server, job, conn
  <2>3. PendingCovers'
    BY <1>11, <1>p, <1>l, <1>n, <2>1 DEF PendingCovers, SetStop, ctrls, server, job, conn
  <2>4. AskersAsked'
    BY <1>11, <1>a, StopSizes DEF TypeOK, AskersAsked, SetStop, ctrls, server, job, conn
  <2>5. UpMeansQuiet'
    BY <1>11, <1>u DEF TypeOK, UpMeansQuiet, SetStop, ctrls, server, job, conn
  <2>6. ByeOnItsWay'
    BY <1>11, <1>b DEF TypeOK, ByeOnItsWay, SetStop, ctrls, server, job, conn
  <2>7. FlushedBye'
    BY <1>11, <1>f DEF TypeOK, FlushedBye, SetStop, ctrls, server, job, conn
  <2>8. JobHasFrame'
    BY <1>11, <1>j DEF JobHasFrame, SetStop, ctrls, server, job, conn
  <2>9. ClosedAtExit'
    BY <1>11, <1>c DEF ClosedAtExit, SetStop, ctrls, server, job, conn
  <2>10. ObeyedNotRefused'
    BY <1>11, <1>o DEF TypeOK, ObeyedNotRefused, SetStop, ctrls, server, job, conn
  <2> QED
    BY <2>2, <2>3, <2>4, <2>5, <2>6, <2>7, <2>8, <2>9, <2>10 DEF StopInv
<1>12. ASSUME Close PROVE TypeOK' /\ StopInv'
  <2>1. InWriter' = InWriter /\ InReader' = InReader /\ InJob' = InJob
    BY <1>12 DEF InWriter, InReader, InJob, Close, ctrls, server, job
  <2>2. TypeOK'
    BY <1>12, <1>s, StopSizes, ZenonT(60) DEF TypeOK, Close, ctrls, server, job
  <2>3. PendingCovers'
    BY <1>12, <1>p, <1>l, <1>n, <2>1 DEF PendingCovers, Close, ctrls, server, job
  <2>4. AskersAsked'
    BY <1>12, <1>a, <1>e, StopSizes DEF TypeOK, AskersAsked, Close, ctrls, server, job
  <2>5. UpMeansQuiet'
    BY <1>12, <1>u DEF TypeOK, UpMeansQuiet, Close, ctrls, server, job
  <2>6. ByeOnItsWay'
    BY <1>12, <1>b, <1>e DEF TypeOK, ByeOnItsWay, Close, ctrls, server, job
  <2>7. FlushedBye'
    BY <1>12, <1>f, <1>b, <1>a, <1>u, <1>c, <1>e DEF TypeOK, FlushedBye, ByeOnItsWay, AskersAsked, UpMeansQuiet, ClosedAtExit, Close, ctrls, server, job
  <2>8. JobHasFrame'
    BY <1>12, <1>j DEF JobHasFrame, Close, ctrls, server, job
  <2>9. ClosedAtExit'
    BY <1>12, <1>c DEF ClosedAtExit, Close, ctrls, server, job
  <2>10. ObeyedNotRefused'
    BY <1>12, <1>o, <1>f, <1>u DEF TypeOK, ObeyedNotRefused, FlushedBye, UpMeansQuiet, Close, ctrls, server, job
  <2> QED
    BY <2>2, <2>3, <2>4, <2>5, <2>6, <2>7, <2>8, <2>9, <2>10 DEF StopInv
<1>13. ASSUME Flush PROVE TypeOK' /\ StopInv'
  <2>1. InWriter' = InWriter /\ InReader' = InReader /\ InJob' = InJob
    BY <1>13 DEF InWriter, InReader, InJob, Flush, ctrls, server, job, conn
  <2>2. TypeOK'
    BY <1>13, <1>s, StopSizes DEF TypeOK, Flush, ctrls, server, job, conn
  <2>3. PendingCovers'
    BY <1>13, <1>p, <1>l, <1>n, <2>1 DEF PendingCovers, Flush, ctrls, server, job, conn
  <2>4. AskersAsked'
    BY <1>13, <1>a, StopSizes DEF TypeOK, AskersAsked, Flush, ctrls, server, job, conn
  <2>5. UpMeansQuiet'
    BY <1>13, <1>u DEF TypeOK, UpMeansQuiet, Flush, ctrls, server, job, conn
  <2>6. ByeOnItsWay'
    BY <1>13, <1>b DEF TypeOK, ByeOnItsWay, Flush, ctrls, server, job, conn
  <2>7. FlushedBye'
    <3>1. CASE pending = 0
      <4>1. Len(queue) = 0 /\ InWriter = 0
        BY <3>1, <1>p, <1>l, <1>n DEF PendingCovers
      <4>2. ToSet(queue) = {} /\ wpc # "write"
        BY <4>1, <1>l, <1>e DEF InWriter
      <4> QED
        BY <4>2, <1>13, <1>c DEF FlushedBye, ClosedAtExit, Flush, server, conn
    <3>2. CASE pending # 0
      BY <3>2, <1>13 DEF FlushedBye, Flush
    <3> QED
      BY <3>1, <3>2
  <2>8. JobHasFrame'
    BY <1>13, <1>j DEF JobHasFrame, Flush, ctrls, server, job, conn
  <2>9. ClosedAtExit'
    BY <1>13, <1>c DEF ClosedAtExit, Flush, ctrls, server, job, conn
  <2>10. ObeyedNotRefused'
    BY <1>13, <1>o, <1>u, <1>c, <1>a, <1>f DEF TypeOK, ObeyedNotRefused, UpMeansQuiet, ClosedAtExit, AskersAsked, FlushedBye, Flush, ctrls, server, job, conn
  <2> QED
    BY <2>2, <2>3, <2>4, <2>5, <2>6, <2>7, <2>8, <2>9, <2>10 DEF StopInv
<1>14. ASSUME JobAdd PROVE TypeOK' /\ StopInv'
  <2>1. InWriter' = InWriter /\ InReader' = InReader /\ InJob = 0 /\ InJob' = 1
    BY <1>14 DEF InWriter, InReader, InJob, JobAdd, SendAdd, ctrls, server, reader
  <2>2. TypeOK'
    BY <1>14, <1>s, StopSizes DEF TypeOK, JobAdd, SendAdd, ctrls, server, reader
  <2>3. PendingCovers'
    BY <1>14, <1>p, <1>l, <1>n, <2>1 DEF PendingCovers, JobAdd, SendAdd, ctrls, server, reader
  <2>4. AskersAsked'
    BY <1>14, <1>a, StopSizes DEF TypeOK, AskersAsked, JobAdd, SendAdd, ctrls, server, reader
  <2>5. UpMeansQuiet'
    BY <1>14, <1>u DEF TypeOK, UpMeansQuiet, JobAdd, SendAdd, ctrls, server, reader
  <2>6. ByeOnItsWay'
    BY <1>14, <1>b DEF TypeOK, ByeOnItsWay, JobAdd, SendAdd, ctrls, server, reader
  <2>7. FlushedBye'
    BY <1>14, <1>f DEF TypeOK, FlushedBye, JobAdd, SendAdd, ctrls, server, reader
  <2>8. JobHasFrame'
    BY <1>14, <1>j DEF JobHasFrame, JobAdd, SendAdd, ctrls, server, reader
  <2>9. ClosedAtExit'
    BY <1>14, <1>c DEF ClosedAtExit, JobAdd, SendAdd, ctrls, server, reader
  <2>10. ObeyedNotRefused'
    BY <1>14, <1>o DEF TypeOK, ObeyedNotRefused, JobAdd, SendAdd, ctrls, server, reader
  <2> QED
    BY <2>2, <2>3, <2>4, <2>5, <2>6, <2>7, <2>8, <2>9, <2>10 DEF StopInv
<1>15. ASSUME JobPush PROVE TypeOK' /\ StopInv'
  <2>1. Output \in Frames /\ (asker # NoCtrl => Output # asker)
    BY <1>15, StopSizes DEF TypeOK, Frames
  <2>2. /\ Append(queue, Output) \in Seq(Frames) /\ Len(Append(queue, Output)) = Len(queue) + 1
           /\ ToSet(Append(queue, Output)) = ToSet(queue) \cup {Output}
    BY <1>15, <2>1, InAppend DEF TypeOK
  <2>3. InWriter' = InWriter /\ InReader' = InReader /\ InJob = 1 /\ InJob' = 0
    BY <1>15 DEF InWriter, InReader, InJob, JobPush, SendPush, ctrls, server, reader
  <2>4. pending' \in Nat
    BY <1>15, <1>p, <1>n, <1>l, <2>3 DEF PendingCovers, JobPush, SendPush, ctrls, server, reader
  <2>5. TypeOK'
    <3>1. CASE wpc # "over" /\ queue' = Append(queue, Output) /\ Len(queue) < QueueCap /\ UNCHANGED pending
      BY <3>1, <1>15, <1>s, <2>1, <2>2, StopSizes, <1>j, <2>4 DEF TypeOK, JobHasFrame, JobPush, SendPush, ctrls, server, reader
    <3>2. CASE wpc = "over" /\ UNCHANGED queue
      BY <3>2, <1>15, <1>s, <2>1, <2>2, StopSizes, <1>j, <2>4 DEF TypeOK, JobHasFrame, JobPush, SendPush, ctrls, server, reader
    <3> QED
      BY <3>1, <3>2, <1>15 DEF JobPush, SendPush
  <2>6. PendingCovers'
    BY <1>15, <1>p, <2>1, <2>2, <1>l, <1>n, <2>3 DEF PendingCovers, JobPush, SendPush, ctrls, server, reader
  <2>7. AskersAsked'
    BY <1>15, <1>a, <2>1, <2>2, StopSizes DEF TypeOK, AskersAsked, JobPush, SendPush, ctrls, server, reader
  <2>8. UpMeansQuiet'
    BY <1>15, <1>u, <2>1, <2>2 DEF TypeOK, UpMeansQuiet, JobPush, SendPush, ctrls, server, reader
  <2>9. ByeOnItsWay'
    BY <1>15, <1>b, <1>u, <2>1, <2>2 DEF TypeOK, ByeOnItsWay, UpMeansQuiet, JobPush, SendPush, ctrls, server, reader
  <2>10. FlushedBye'
    <3>1. CASE wpc # "over" /\ queue' = Append(queue, Output) /\ Len(queue) < QueueCap /\ UNCHANGED pending
      BY <3>1, <1>15, <1>f, <1>a, <2>1, <2>2 DEF TypeOK, FlushedBye, AskersAsked, JobPush, SendPush, ctrls, server, reader
    <3>2. CASE wpc = "over" /\ UNCHANGED queue
      BY <3>2, <1>15, <1>f, <1>a, <2>1, <2>2 DEF TypeOK, FlushedBye, AskersAsked, JobPush, SendPush, ctrls, server, reader
    <3> QED
      BY <3>1, <3>2, <1>15 DEF JobPush, SendPush
  <2>11. JobHasFrame'
    BY <1>15, <1>j DEF JobHasFrame, JobPush, SendPush, ctrls, server, reader
  <2>12. ClosedAtExit'
    BY <1>15, <1>c DEF ClosedAtExit, JobPush, SendPush, ctrls, server, reader
  <2>13. ObeyedNotRefused'
    BY <1>15, <1>o, <2>1, <2>2 DEF TypeOK, ObeyedNotRefused, JobPush, SendPush, ctrls, server, reader
  <2> QED
    BY <2>5, <2>6, <2>7, <2>8, <2>9, <2>10, <2>11, <2>12, <2>13 DEF StopInv
<1>16. ASSUME WriterRecv PROVE TypeOK' /\ StopInv'
  <2>1. /\ Head(queue) \in Frames /\ Tail(queue) \in Seq(Frames) /\ Len(Tail(queue)) = Len(queue) - 1
           /\ Len(queue) > 0 /\ ToSet(queue) = {Head(queue)} \cup ToSet(Tail(queue))
    BY <1>16, InTail DEF TypeOK, WriterRecv
  <2>2. InReader' = InReader /\ InJob' = InJob /\ InWriter = 0 /\ InWriter' = 1
    BY <1>16 DEF InWriter, InReader, InJob, WriterRecv, ctrls, server, reader, job
  <2>3. TypeOK'
    BY <1>16, <1>s, <2>1, StopSizes DEF TypeOK, WriterRecv, ctrls, server, reader, job
  <2>4. PendingCovers'
    BY <1>16, <1>p, <2>1, <1>l, <1>n, <2>2 DEF PendingCovers, WriterRecv, ctrls, server, reader, job
  <2>5. AskersAsked'
    BY <1>16, <1>a, <2>1, StopSizes DEF TypeOK, AskersAsked, WriterRecv, ctrls, server, reader, job
  <2>6. UpMeansQuiet'
    BY <1>16, <1>u, <2>1 DEF TypeOK, UpMeansQuiet, WriterRecv, ctrls, server, reader, job
  <2>7. ByeOnItsWay'
    BY <1>16, <1>b, <2>1 DEF TypeOK, ByeOnItsWay, WriterRecv, ctrls, server, reader, job
  <2>8. FlushedBye'
    BY <1>16, <1>f, <2>1 DEF TypeOK, FlushedBye, WriterRecv, ctrls, server, reader, job
  <2>9. JobHasFrame'
    BY <1>16, <1>j DEF JobHasFrame, WriterRecv, ctrls, server, reader, job
  <2>10. ClosedAtExit'
    BY <1>16, <1>c DEF ClosedAtExit, WriterRecv, ctrls, server, reader, job
  <2>11. ObeyedNotRefused'
    BY <1>16, <1>o, <2>1 DEF TypeOK, ObeyedNotRefused, WriterRecv, ctrls, server, reader, job
  <2> QED
    BY <2>3, <2>4, <2>5, <2>6, <2>7, <2>8, <2>9, <2>10, <2>11 DEF StopInv
<1>17. ASSUME WriterWrite PROVE TypeOK' /\ StopInv'
  <2>1. /\ Append(sock, wmsg) \in Seq(Frames) /\ ToSet(Append(sock, wmsg)) = ToSet(sock) \cup {wmsg}
    BY <1>17, InAppend DEF TypeOK
  <2>2. InReader' = InReader /\ InJob' = InJob /\ InWriter' = InWriter
    BY <1>17 DEF InWriter, InReader, InJob, WriterWrite, ctrls, server, reader, job
  <2>3. TypeOK'
    BY <1>17, <1>s, <2>1, StopSizes DEF TypeOK, WriterWrite, ctrls, server, reader, job
  <2>4. PendingCovers'
    BY <1>17, <1>p, <2>1, <1>l, <1>n, <2>2 DEF PendingCovers, WriterWrite, ctrls, server, reader, job
  <2>5. AskersAsked'
    BY <1>17, <1>a, <2>1, StopSizes DEF TypeOK, AskersAsked, WriterWrite, ctrls, server, reader, job
  <2>6. UpMeansQuiet'
    BY <1>17, <1>u, <2>1 DEF TypeOK, UpMeansQuiet, WriterWrite, ctrls, server, reader, job
  <2>7. ByeOnItsWay'
    BY <1>17, <1>b, <2>1 DEF TypeOK, ByeOnItsWay, WriterWrite, ctrls, server, reader, job
  <2>8. FlushedBye'
    BY <1>17, <1>f, <2>1 DEF TypeOK, FlushedBye, WriterWrite, ctrls, server, reader, job
  <2>9. JobHasFrame'
    BY <1>17, <1>j DEF JobHasFrame, WriterWrite, ctrls, server, reader, job
  <2>10. ClosedAtExit'
    BY <1>17, <1>c DEF ClosedAtExit, WriterWrite, ctrls, server, reader, job
  <2>11. ObeyedNotRefused'
    BY <1>17, <1>o, <2>1 DEF TypeOK, ObeyedNotRefused, WriterWrite, ctrls, server, reader, job
  <2> QED
    BY <2>3, <2>4, <2>5, <2>6, <2>7, <2>8, <2>9, <2>10, <2>11 DEF StopInv
<1>18. ASSUME WriterSub PROVE TypeOK' /\ StopInv'
  <2>1. InReader' = InReader /\ InJob' = InJob /\ InWriter = 1 /\ InWriter' = 0
    BY <1>18 DEF InWriter, InReader, InJob, WriterSub, ctrls, server, reader, job
  <2>2. pending' \in Nat
    BY <1>18, <1>p, <1>n, <1>l, <2>1 DEF PendingCovers, WriterSub, ctrls, server, reader, job
  <2>3. TypeOK'
    BY <1>18, <1>s, StopSizes, <1>j, <2>2 DEF TypeOK, JobHasFrame, WriterSub, ctrls, server, reader, job
  <2>4. PendingCovers'
    BY <1>18, <1>p, <1>l, <1>n, <2>1, <1>e DEF PendingCovers, WriterSub, ctrls, server, reader, job
  <2>5. AskersAsked'
    BY <1>18, <1>a, <1>e, StopSizes DEF TypeOK, AskersAsked, WriterSub, ctrls, server, reader, job
  <2>6. UpMeansQuiet'
    BY <1>18, <1>u DEF TypeOK, UpMeansQuiet, WriterSub, ctrls, server, reader, job
  <2>7. ByeOnItsWay'
    BY <1>18, <1>b, <1>u, <1>e DEF TypeOK, ByeOnItsWay, UpMeansQuiet, WriterSub, ctrls, server, reader, job
  <2>8. FlushedBye'
    BY <1>18, <1>f, <1>e DEF TypeOK, FlushedBye, WriterSub, ctrls, server, reader, job
  <2>9. JobHasFrame'
    BY <1>18, <1>j DEF JobHasFrame, WriterSub, ctrls, server, reader, job
  <2>10. ClosedAtExit'
    BY <1>18, <1>c DEF ClosedAtExit, WriterSub, ctrls, server, reader, job
  <2>11. ObeyedNotRefused'
    BY <1>18, <1>o DEF TypeOK, ObeyedNotRefused, WriterSub, ctrls, server, reader, job
  <2> QED
    BY <2>3, <2>4, <2>5, <2>6, <2>7, <2>8, <2>9, <2>10, <2>11 DEF StopInv
<1>19. ASSUME LinkBreaks PROVE TypeOK' /\ StopInv'
  <2>1. InWriter' = InWriter /\ InReader' = InReader /\ InJob' = InJob
    BY <1>19 DEF InWriter, InReader, InJob, LinkBreaks, ctrls, server, reader, job
  <2>2. TypeOK'
    BY <1>19, <1>s, StopSizes DEF TypeOK, LinkBreaks, ctrls, server, reader, job
  <2>3. PendingCovers'
    BY <1>19, <1>p, <1>l, <1>n, <2>1 DEF PendingCovers, LinkBreaks, ctrls, server, reader, job
  <2>4. AskersAsked'
    BY <1>19, <1>a, <1>e, StopSizes DEF TypeOK, AskersAsked, LinkBreaks, ctrls, server, reader, job
  <2>5. UpMeansQuiet'
    BY <1>19, <1>u DEF TypeOK, UpMeansQuiet, LinkBreaks, ctrls, server, reader, job
  <2>6. ByeOnItsWay'
    BY <1>19, <1>b, <1>e DEF TypeOK, ByeOnItsWay, LinkBreaks, ctrls, server, reader, job
  <2>7. FlushedBye'
    BY <1>19, <1>f, <1>e DEF TypeOK, FlushedBye, LinkBreaks, ctrls, server, reader, job
  <2>8. JobHasFrame'
    BY <1>19, <1>j DEF JobHasFrame, LinkBreaks, ctrls, server, reader, job
  <2>9. ClosedAtExit'
    BY <1>19, <1>c DEF ClosedAtExit, LinkBreaks, ctrls, server, reader, job
  <2>10. ObeyedNotRefused'
    BY <1>19, <1>o DEF TypeOK, ObeyedNotRefused, LinkBreaks, ctrls, server, reader, job
  <2> QED
    BY <2>2, <2>3, <2>4, <2>5, <2>6, <2>7, <2>8, <2>9, <2>10 DEF StopInv
<1>20. CASE UNCHANGED vars
  <2> USE <1>20 DEF vars, ctrls, server, reader, job, conn
  <2>1. TypeOK'
    BY DEF TypeOK
  <2>2. InWriter' = InWriter /\ InReader' = InReader /\ InJob' = InJob
    BY DEF InWriter, InReader, InJob
  <2>3. PendingCovers' /\ JobHasFrame' /\ ClosedAtExit'
    BY <2>2, <1>p, <1>j, <1>c DEF PendingCovers, JobHasFrame, ClosedAtExit
  <2>4. AskersAsked' /\ UpMeansQuiet'
    BY <1>a, <1>u DEF AskersAsked, UpMeansQuiet
  <2>5. ByeOnItsWay' /\ FlushedBye' /\ ObeyedNotRefused'
    BY <1>b, <1>f, <1>o DEF ByeOnItsWay, FlushedBye, ObeyedNotRefused
  <2> QED
    BY <2>1, <2>3, <2>4, <2>5 DEF StopInv
<1> QED
  BY <1>1, <1>2, <1>3, <1>4, <1>5, <1>6, <1>7, <1>8, <1>9, <1>10, <1>11, <1>12, <1>13, <1>14, <1>15, <1>16, <1>17, <1>18, <1>19, <1>20 DEF Next, Agent, Writer, Job, Finished

(* The initial state satisfies both invariants. *)
LEMMA StopInit ==
  Init => TypeOK /\ StopInv
<1> SUFFICES ASSUME Init PROVE TypeOK /\ StopInv
  OBVIOUS
<1>1. TypeOK
  <2>1. JobFrames \in 0..JobFrames /\ <<>> \in Seq(Frames) /\ <<>> \in Seq(Ctrls) /\ Len(<<>>) = 0
    BY StopSizes
  <2>2. [c \in Ctrls |-> <<>>] \in [Ctrls -> Seq({"Bye", "Error"})]
    OBVIOUS
  <2>3. /\ queue \in Seq(Frames) /\ Len(queue) <= QueueCap /\ sock \in Seq(Frames) /\ deliver \in Seq(Ctrls)
        /\ wmsg \in Frames /\ jleft \in 0..JobFrames /\ pending \in Nat
    BY <2>1, StopSizes DEF Init, Frames
  <2>4. cpc \in [Ctrls -> {"send", "top", "recv", "exit"}] /\ rc \in [Ctrls -> {0, 1, 3, 5}]
    BY DEF Init
  <2>5. reply \in [Ctrls -> Seq({"Bye", "Error"})]
    BY <2>2 DEF Init
  <2> QED
    BY <2>3, <2>4, <2>5 DEF Init, TypeOK
<1>2. ToSet(<<>>) = {} /\ Len(<<>>) = 0
  BY Elements
<1>3. PendingCovers
  BY <1>2 DEF Init, PendingCovers, InWriter, InReader, InJob
<1>4. AskersAsked /\ UpMeansQuiet
  BY <1>2 DEF Init, AskersAsked, UpMeansQuiet
<1>5. ByeOnItsWay /\ FlushedBye /\ JobHasFrame /\ ClosedAtExit /\ ObeyedNotRefused
  BY DEF Init, ByeOnItsWay, FlushedBye, JobHasFrame, ClosedAtExit, ObeyedNotRefused
<1> QED
  BY <1>1, <1>3, <1>4, <1>5 DEF StopInv

(* Both invariants hold in every reachable state. *)
THEOREM StopSafe == Spec => [](TypeOK /\ StopInv)
<1>1. Init => TypeOK /\ StopInv
  BY StopInit
<1>2. TypeOK /\ StopInv /\ [Next]_vars => TypeOK' /\ StopInv'
  BY StopStep
<1> QED
  BY <1>1, <1>2, PTL DEF Spec

(* The pending counter of wire.rs never underflows, and no variable leaves   *)
(* its type.                                                                 *)
THEOREM StopTypeOK == Spec => []TypeOK
BY StopSafe, PTL

(* flush returns true only when the Bye has left the writer (wire.rs flush,  *)
(* agent.rs handle_shutdown).                                                *)
THEOREM StopFlush == Spec => []FlushMeansWritten
<1>1. StopInv => FlushMeansWritten
  BY DEF StopInv, FlushedBye, FlushMeansWritten
<1> QED
  BY <1>1, StopSafe, PTL

(* While the network holds, the controller whose stop was obeyed and flushed *)
(* is never told of an error.                                                *)
THEOREM StopObeyed == Spec => []ObeyedNotRefused
<1>1. StopInv => ObeyedNotRefused
  BY DEF StopInv
<1> QED
  BY <1>1, StopSafe, PTL

============================================================================
