--------------------------- MODULE TransferProofs ---------------------------
(***************************************************************************)
(* Lemmas about the two paths of a transfer.  A path is a receiver's queue *)
(* followed by the queue that feeds it: handing a frame on leaves it as it *)
(* is, a send appends to it and a receive takes its head, whatever the     *)
(* capacities are.  Push and Pull are proved over their paths.             *)
(***************************************************************************)
EXTENDS Transfer, SequenceTheorems, TLAPS

ToWorker == inbox \o up
ToCtrl == events \o down

UpOK(S) ==
  /\ up \in Seq(S) /\ Len(up) <= UpCap
  /\ inbox \in Seq(S) /\ Len(inbox) <= InCap
DownOK(S) ==
  /\ down \in Seq(S) /\ Len(down) <= DownCap
  /\ events \in Seq(S) /\ Len(events) <= EvCap
ServerOK ==
  /\ hand \in {"none", "found", "insert", "send", "error"}
  /\ route \in {"none", "open", "gone", "stray", "closed"}
  /\ alive \in BOOLEAN /\ cleanup \in {"none", "name", "routes"} /\ notify \in BOOLEAN

(* Where relay_to_agent is agrees with the route, and only a lost agent is   *)
(* cleaned up after.                                                         *)
ServerInv ==
  /\ hand = "insert" => route # "open"
  /\ hand \in {"found", "send"} => route # "none"
  /\ cleanup # "none" \/ notify => ~alive

(* as long as the request is served, its frames reach the worker *)
Served == alive /\ route \in {"none", "open"} /\ hand # "error"

(* m is one of the frames before place i *)
Ahead(q, i, m) == \E j \in 1..i - 1 : q[j] = m

Marks == {"FileStart", "FileEnd"}

(* Whoever has taken the frames before place i is in the middle of file f,   *)
(* if it is in the middle of file c now.                                     *)
Within(q, i, c, f) ==
  \/ \E k \in 1..i - 1 : q[k] = FileMsg("FileStart", f) /\
                         \A l \in k + 1..i - 1 : q[l].op \notin Marks
  \/ c = f /\ \A l \in 1..i - 1 : q[l].op \notin Marks

----------------------------------------------------------------------------
LEMMA HeadAndTail ==
  ASSUME NEW S, NEW q \in Seq(S), q # <<>>
  PROVE  /\ Head(q) \in S /\ Head(q) = q[1] /\ 1 \in 1..Len(q)
         /\ Tail(q) \in Seq(S) /\ Len(Tail(q)) = Len(q) - 1 /\ Len(q) \in Nat \ {0}
         /\ \A i \in 1..Len(Tail(q)) : Tail(q)[i] = q[i + 1]
<1>1. Len(q) \in Nat \ {0}
  BY EmptySeq
<1>2. Head(q) \in S /\ Tail(q) \in Seq(S) /\ Len(Tail(q)) = Len(q) - 1
  BY HeadTailProperties
<1>3. \A i \in 1..Len(Tail(q)) : Tail(q)[i] = q[i + 1]
  BY HeadTailProperties
<1> QED
  BY <1>1, <1>2, <1>3

(* the queues of a path *)
LEMMA PathSends ==
  ASSUME NEW S, NEW s \in Seq(S), NEW t \in Seq(S), NEW m \in S
  PROVE  s \o Append(t, m) = Append(s \o t, m)
<1>1. <<m>> \in Seq(S) /\ s \o t \in Seq(S)
  BY ConcatProperties
<1>2. s \o (t \o <<m>>) = (s \o t) \o <<m>>
  BY <1>1, ConcatAssociative
<1> QED
  BY <1>1, <1>2, AppendIsConcat

LEMMA PathTakes ==
  ASSUME NEW S, NEW s \in Seq(S), NEW t \in Seq(S), s # <<>>
  PROVE  /\ s \o t \in Seq(S) /\ s \o t # <<>>
         /\ Head(s \o t) = Head(s) /\ Tail(s) \o t = Tail(s \o t)
<1> USE LenProperties
<1>1. s \o t \in Seq(S) /\ Len(s \o t) = Len(s) + Len(t) /\ Len(s) \in Nat \ {0} /\ Len(t) \in Nat
  BY ConcatProperties, EmptySeq
<1>2. s \o t # <<>> /\ (s \o t)[1] = s[1]
  BY <1>1, ConcatProperties, EmptySeq
<1>3. Tail(s) \in Seq(S) /\ Len(Tail(s)) = Len(s) - 1
      /\ Tail(s \o t) \in Seq(S) /\ Len(Tail(s \o t)) = Len(s) + Len(t) - 1
  BY <1>1, <1>2, HeadAndTail
<1>4. Tail(s) \o t \in Seq(S) /\ Len(Tail(s) \o t) = Len(Tail(s \o t))
  BY <1>1, <1>3, ConcatProperties
<1>5. ASSUME NEW i \in 1..Len(Tail(s) \o t)
      PROVE  (Tail(s) \o t)[i] = Tail(s \o t)[i]
  <2>1. i \in 1..Len(s) + Len(t) - 1
    BY <1>3, <1>4
  <2>2. Tail(s \o t)[i] = (s \o t)[i + 1]
    BY <1>1, <1>2, <1>3, <2>1, HeadAndTail
  <2>3. CASE i <= Len(s) - 1
    <3>1. (Tail(s) \o t)[i] = s[i + 1]
      BY <1>3, <2>1, <2>3, HeadAndTail, ConcatProperties
    <3> QED
      BY <1>1, <2>1, <2>2, <2>3, <3>1, ConcatProperties
  <2>4. CASE i > Len(s) - 1
    <3>1. (Tail(s) \o t)[i] = t[i - (Len(s) - 1)]
      BY <1>1, <1>3, <2>1, <2>4, ConcatProperties
    <3>2. (s \o t)[i + 1] = t[(i + 1) - Len(s)]
      BY <1>1, <2>1, <2>4, ConcatProperties
    <3>3. i - (Len(s) - 1) = (i + 1) - Len(s)
      BY <1>1, <2>1
    <3> QED
      BY <2>2, <3>1, <3>2, <3>3
  <2> QED
    BY <1>1, <2>1, <2>3, <2>4
<1>6. Tail(s) \o t = Tail(s \o t)
  BY <1>3, <1>4, <1>5, SeqEqual
<1>7. Head(s \o t) = Head(s)
  BY <1>1, <1>2, HeadAndTail
<1> QED
  BY <1>1, <1>2, <1>6, <1>7

LEMMA PathMoves ==
  ASSUME NEW S, NEW s \in Seq(S), NEW t \in Seq(S), t # <<>>
  PROVE  Append(s, Head(t)) \o Tail(t) = s \o t
<1>1. Head(t) \in S /\ Tail(t) \in Seq(S) /\ <<Head(t)>> \in Seq(S)
  BY HeadAndTail
<1>2. <<Head(t)>> \o Tail(t) = t
  <2>1. t = <<Head(t)>> \o Tail(t)
    <3>1. /\ <<Head(t)>> \o Tail(t) \in Seq(S)
          /\ Len(<<Head(t)>> \o Tail(t)) = Len(t) /\ Len(t) \in Nat
      BY <1>1, HeadAndTail, ConcatProperties
    <3>2. ASSUME NEW i \in 1..Len(t) PROVE t[i] = (<<Head(t)>> \o Tail(t))[i]
      <4>1. CASE i = 1
        BY <1>1, <3>1, <4>1, HeadAndTail, ConcatProperties
      <4>2. CASE i > 1
        <5>1. (<<Head(t)>> \o Tail(t))[i] = Tail(t)[i - 1]
          BY <1>1, <3>1, <4>2, HeadAndTail, ConcatProperties
        <5>2. i - 1 \in 1..Len(Tail(t)) /\ (i - 1) + 1 = i
          BY <3>1, <4>2, HeadAndTail
        <5> QED
          BY <5>1, <5>2, HeadAndTail
      <4> QED
        BY <3>1, <4>1, <4>2
    <3> QED
      BY <3>1, <3>2, SeqEqual
  <2> QED
    BY <2>1
<1>3. Append(s, Head(t)) = s \o <<Head(t)>>
  BY <1>1, AppendIsConcat
<1>4. (s \o <<Head(t)>>) \o Tail(t) = s \o (<<Head(t)>> \o Tail(t))
  BY <1>1, ConcatAssociative
<1> QED
  BY <1>2, <1>3, <1>4

----------------------------------------------------------------------------
(* what is ahead of a place, and which file that place is in, after a send *)
LEMMA AheadSends ==
  ASSUME NEW S, NEW q \in Seq(S), NEW m \in S
  PROVE  /\ Append(q, m) \in Seq(S) /\ Len(q) \in Nat
         /\ Len(Append(q, m)) = Len(q) + 1 /\ Append(q, m)[Len(q) + 1] = m
         /\ \A i \in 1..Len(q) : Append(q, m)[i] = q[i]
         /\ \A i \in 1..Len(q) + 1 : \A x : Ahead(Append(q, m), i, x) <=> Ahead(q, i, x)
         /\ \A x : Ahead(Append(q, m), Len(q) + 2, x) <=> (Ahead(q, Len(q) + 1, x) \/ x = m)
<1>1. /\ Append(q, m) \in Seq(S) /\ Len(q) \in Nat
      /\ Len(Append(q, m)) = Len(q) + 1 /\ Append(q, m)[Len(q) + 1] = m
      /\ \A i \in 1..Len(q) : Append(q, m)[i] = q[i]
  BY AppendProperties, LenProperties
<1>2. ASSUME NEW i \in 1..Len(q) + 1, NEW x
      PROVE  Ahead(Append(q, m), i, x) <=> Ahead(q, i, x)
  BY <1>1 DEF Ahead
<1>3. ASSUME NEW x
      PROVE  Ahead(Append(q, m), Len(q) + 2, x) <=> (Ahead(q, Len(q) + 1, x) \/ x = m)
  BY <1>1 DEF Ahead
<1> QED
  BY <1>1, <1>2, <1>3

LEMMA WithinSends ==
  ASSUME NEW S, NEW q \in Seq(S), NEW m \in S, NEW c, NEW f
  PROVE  /\ \A i \in 1..Len(q) + 1 : Within(q, i, c, f) => Within(Append(q, m), i, c, f)
         /\ m.op \notin Marks /\ Within(q, Len(q) + 1, c, f) =>
              Within(Append(q, m), Len(q) + 2, c, f)
         /\ m = FileMsg("FileStart", f) => Within(Append(q, m), Len(q) + 2, c, f)
<1>1. /\ Len(q) \in Nat /\ Append(q, m)[Len(q) + 1] = m
      /\ \A i \in 1..Len(q) : Append(q, m)[i] = q[i]
  BY AppendProperties, LenProperties
<1>2. ASSUME NEW i \in 1..Len(q) + 1, Within(q, i, c, f)
      PROVE  Within(Append(q, m), i, c, f)
  BY <1>1, <1>2 DEF Within
<1>3. ASSUME m.op \notin Marks, Within(q, Len(q) + 1, c, f)
      PROVE  Within(Append(q, m), Len(q) + 2, c, f)
  BY <1>1, <1>3 DEF Within
<1>4. ASSUME m = FileMsg("FileStart", f)
      PROVE  Within(Append(q, m), Len(q) + 2, c, f)
  BY <1>1, <1>4 DEF Within
<1> QED
  BY <1>2, <1>3, <1>4

(* ... and after a receive *)
LEMMA AheadTakes ==
  ASSUME NEW S, NEW q \in Seq(S), q # <<>>
  PROVE  /\ \A i \in 1..Len(q) : \A x :
              Ahead(q, i + 1, x) <=> (x = Head(q) \/ Ahead(Tail(q), i, x))
         /\ \A x : ~Ahead(q, 1, x)
<1>1. /\ Head(q) = q[1] /\ Len(Tail(q)) = Len(q) - 1 /\ Len(q) \in Nat \ {0}
      /\ \A i \in 1..Len(Tail(q)) : Tail(q)[i] = q[i + 1]
  BY HeadAndTail
<1>2. ASSUME NEW i \in 1..Len(q), NEW x
      PROVE  Ahead(q, i + 1, x) <=> (x = Head(q) \/ Ahead(Tail(q), i, x))
  <2>1. ASSUME NEW j \in 1..i, q[j] = x PROVE x = Head(q) \/ Ahead(Tail(q), i, x)
    <3>1. CASE j = 1
      BY <1>1, <2>1, <3>1
    <3>2. CASE j # 1
      <4>1. j - 1 \in 1..i - 1 /\ Tail(q)[j - 1] = x
        BY <1>1, <2>1, <3>2
      <4> QED
        BY <4>1 DEF Ahead
    <3> QED
      BY <3>1, <3>2
  <2>2. ASSUME NEW j \in 1..i - 1, Tail(q)[j] = x PROVE Ahead(q, i + 1, x)
    <3>1. j + 1 \in 1..i /\ q[j + 1] = x
      BY <1>1, <2>2
    <3> QED
      BY <3>1 DEF Ahead
  <2>3. ASSUME x = Head(q) PROVE Ahead(q, i + 1, x)
    BY <1>1, <2>3 DEF Ahead
  <2> QED
    BY <2>1, <2>2, <2>3 DEF Ahead
<1>3. \A x : ~Ahead(q, 1, x)
  BY DEF Ahead
<1> QED
  BY <1>2, <1>3

LEMMA WithinTakes ==
  ASSUME NEW S, NEW q \in Seq(S), q # <<>>, NEW c, NEW f, NEW i \in 1..Len(q),
         Within(q, i + 1, c, f)
  PROVE  /\ Head(q).op \notin Marks => Within(Tail(q), i, c, f)
         /\ \A g : Head(q) = FileMsg("FileStart", g) => Within(Tail(q), i, g, f)
         /\ \A d : Head(q).op = "FileEnd" => Within(Tail(q), i, d, f)
<1>1. /\ Head(q) = q[1] /\ Len(Tail(q)) = Len(q) - 1 /\ Len(q) \in Nat \ {0}
      /\ \A j \in 1..Len(Tail(q)) : Tail(q)[j] = q[j + 1]
  BY HeadAndTail
<1>2. CASE \E k \in 1..i : q[k] = FileMsg("FileStart", f) /\
                           \A l \in k + 1..i : q[l].op \notin Marks
  <2>1. PICK k \in 1..i : q[k] = FileMsg("FileStart", f) /\
                          \A l \in k + 1..i : q[l].op \notin Marks
    BY <1>2
  <2>2. CASE k = 1
    <3>1. \A l \in 1..i - 1 : Tail(q)[l].op \notin Marks
      BY <1>1, <2>1, <2>2
    <3>2. Head(q) = FileMsg("FileStart", f)
      BY <1>1, <2>1, <2>2
    <3> QED
      BY <3>1, <3>2 DEF Within, Marks, FileMsg
  <2>3. CASE k # 1
    <3>1. k - 1 \in 1..i - 1 /\ Tail(q)[k - 1] = FileMsg("FileStart", f)
      BY <1>1, <2>1, <2>3
    <3>2. \A l \in (k - 1) + 1..i - 1 : Tail(q)[l].op \notin Marks
      BY <1>1, <2>1, <2>3
    <3> QED
      BY <3>1, <3>2 DEF Within
  <2> QED
    BY <2>2, <2>3
<1>3. CASE c = f /\ \A l \in 1..i : q[l].op \notin Marks
  <2>1. \A l \in 1..i - 1 : Tail(q)[l].op \notin Marks
    BY <1>1, <1>3
  <2>2. Head(q).op \notin Marks
    BY <1>1, <1>3
  <2> QED
    BY <1>3, <2>1, <2>2 DEF Within, Marks, FileMsg
<1>4. (i + 1) - 1 = i
  BY <1>1
<1> QED
  BY <1>2, <1>3, <1>4 DEF Within

(* the frame received belongs to the file its receiver is in the middle of *)
LEMMA WithinNow ==
  ASSUME NEW q, NEW c, NEW f, Within(q, 1, c, f)
  PROVE  c = f
BY DEF Within

(* Every file's FileEnd is met in the middle of that file, and a receiver in  *)
(* the middle of file c stays in step when it takes a frame.                  *)
Framing(q, c) == \A i \in 1..Len(q) : q[i].op = "FileEnd" => Within(q, i, c, q[i].f)

LEMMA FramingSends ==
  ASSUME NEW S, NEW q \in Seq(S), NEW m \in S, NEW c, Framing(q, c),
         m.op = "FileEnd" => Within(q, Len(q) + 1, c, m.f)
  PROVE  Framing(Append(q, m), c)
<1>1. /\ Len(q) \in Nat /\ Len(Append(q, m)) = Len(q) + 1 /\ Append(q, m)[Len(q) + 1] = m
      /\ \A i \in 1..Len(q) : Append(q, m)[i] = q[i]
  BY AheadSends
<1>2. ASSUME NEW i \in 1..Len(q), q[i].op = "FileEnd"
      PROVE  Within(Append(q, m), i, c, q[i].f)
  <2>1. Within(q, i, c, q[i].f)
    BY <1>2 DEF Framing
  <2>2. i \in 1..Len(q) + 1
    BY <1>1, <1>2
  <2> QED
    BY <2>1, <2>2, WithinSends
<1>3. ASSUME m.op = "FileEnd" PROVE Within(Append(q, m), Len(q) + 1, c, m.f)
  <2>1. Len(q) + 1 \in 1..Len(q) + 1
    BY <1>1
  <2> QED
    BY <1>3, <2>1, WithinSends
<1> QED
  BY <1>1, <1>2, <1>3 DEF Framing

LEMMA FramingTakes ==
  ASSUME NEW S, NEW q \in Seq(S), q # <<>>, NEW c, NEW d, Framing(q, c),
         \/ Head(q).op \notin Marks /\ d = c
         \/ Head(q).op = "FileEnd"
         \/ Head(q) = FileMsg("FileStart", d)
  PROVE  /\ Framing(Tail(q), d)
         /\ \A f : Within(q, Len(q) + 1, c, f) => Within(Tail(q), Len(Tail(q)) + 1, d, f)
<1>1. /\ Len(Tail(q)) = Len(q) - 1 /\ Len(q) \in Nat \ {0}
      /\ \A i \in 1..Len(Tail(q)) : Tail(q)[i] = q[i + 1]
  BY HeadAndTail
<1>2. ASSUME NEW i \in 1..Len(q), NEW f, Within(q, i + 1, c, f)
      PROVE  Within(Tail(q), i, d, f)
  BY <1>2, WithinTakes
<1>3. ASSUME NEW i \in 1..Len(Tail(q)), Tail(q)[i].op = "FileEnd"
      PROVE  Within(Tail(q), i, d, Tail(q)[i].f)
  <2>1. i \in 1..Len(q) /\ i + 1 \in 1..Len(q) /\ Tail(q)[i] = q[i + 1]
    BY <1>1, <1>3
  <2>2. Within(q, i + 1, c, Tail(q)[i].f)
    BY <1>3, <2>1 DEF Framing
  <2> QED
    BY <1>2, <2>1, <2>2
<1>4. ASSUME NEW f, Within(q, Len(q) + 1, c, f)
      PROVE  Within(Tail(q), Len(Tail(q)) + 1, d, f)
  <2>1. Len(q) \in 1..Len(q) /\ Len(Tail(q)) + 1 = Len(q)
    BY <1>1
  <2> QED
    BY <1>2, <1>4, <2>1
<1> QED
  BY <1>3, <1>4 DEF Framing

(* Entries in order: e is the next one named after place i by frames of the   *)
(* kinds K, for a receiver that has l of them.                               *)
Named(K, q, i, g) == \E j \in 1..i - 1 : q[j].op \in K /\ q[j].f = g
NextAt(K, q, l, i, e) ==
  /\ e > l
  /\ \A g \in l + 1..e - 1 : Named(K, q, i, g)
  /\ \A j \in 1..i - 1 : q[j].op \in K => q[j].f < e
Listing(K, q, l) == \A i \in 1..Len(q) : q[i].op \in K => NextAt(K, q, l, i, q[i].f)

LEMMA ListingSends ==
  ASSUME NEW S, NEW K, NEW q \in Seq(S), NEW m \in S, NEW l, Listing(K, q, l),
         m.op \in K => NextAt(K, q, l, Len(q) + 1, m.f)
  PROVE  /\ Listing(K, Append(q, m), l)
         /\ \A e : m.op \notin K /\ NextAt(K, q, l, Len(q) + 1, e) =>
              NextAt(K, Append(q, m), l, Len(q) + 2, e)
<1>1. /\ Len(q) \in Nat /\ Len(Append(q, m)) = Len(q) + 1 /\ Append(q, m)[Len(q) + 1] = m
      /\ \A i \in 1..Len(q) : Append(q, m)[i] = q[i]
  BY AheadSends
<1>2. ASSUME NEW i \in 1..Len(q) + 1, NEW e, NextAt(K, q, l, i, e)
      PROVE  NextAt(K, Append(q, m), l, i, e)
  <2>1. \A j \in 1..i - 1 : j \in 1..Len(q)
    BY <1>1
  <2> QED
    BY <1>1, <1>2, <2>1 DEF NextAt, Named
<1>3. Listing(K, Append(q, m), l)
  BY <1>1, <1>2 DEF Listing
<1>4. ASSUME NEW e, m.op \notin K, NextAt(K, q, l, Len(q) + 1, e)
      PROVE  NextAt(K, Append(q, m), l, Len(q) + 2, e)
  <2>1. \A j \in 1..(Len(q) + 1) - 1 : j \in 1..Len(q) /\ j \in 1..(Len(q) + 2) - 1
    BY <1>1
  <2>2. \A j \in 1..(Len(q) + 2) - 1 : j \in 1..(Len(q) + 1) - 1 \/ j = Len(q) + 1
    BY <1>1
  <2>3. \A g \in l + 1..e - 1 : Named(K, Append(q, m), Len(q) + 2, g)
    BY <1>1, <1>4, <2>1 DEF NextAt, Named
  <2>4. \A j \in 1..(Len(q) + 2) - 1 : Append(q, m)[j].op \in K => Append(q, m)[j].f < e
    BY <1>1, <1>4, <2>1, <2>2 DEF NextAt
  <2> QED
    BY <1>4, <2>3, <2>4 DEF NextAt
<1> QED
  BY <1>3, <1>4

LEMMA ListingSendsEntry ==
  ASSUME NEW S, NEW K, NEW q \in Seq(S), NEW m \in S, NEW l \in Nat,
         m.op \in K, m.f \in Nat, NextAt(K, q, l, Len(q) + 1, m.f),
         \A i \in 1..Len(q) : q[i].op \in K => q[i].f \in Nat
  PROVE  NextAt(K, Append(q, m), l, Len(q) + 2, m.f + 1)
<1>1. /\ Len(q) \in Nat /\ Append(q, m)[Len(q) + 1] = m
      /\ \A i \in 1..Len(q) : Append(q, m)[i] = q[i]
  BY AheadSends
<1>2. ASSUME NEW g \in l + 1..(m.f + 1) - 1
      PROVE  Named(K, Append(q, m), Len(q) + 2, g)
  <2>1. CASE g = m.f
    <3>1. Len(q) + 1 \in 1..(Len(q) + 2) - 1
      BY <1>1
    <3> QED
      BY <1>1, <2>1, <3>1 DEF Named
  <2>2. CASE g # m.f
    <3>1. g \in l + 1..m.f - 1
      BY <1>2, <2>2
    <3>2. PICK j \in 1..(Len(q) + 1) - 1 : q[j].op \in K /\ q[j].f = g
      BY <3>1 DEF NextAt, Named
    <3>3. j \in 1..Len(q) /\ j \in 1..(Len(q) + 2) - 1
      BY <1>1
    <3> QED
      BY <1>1, <3>2, <3>3 DEF Named
  <2> QED
    BY <2>1, <2>2
<1>3. ASSUME NEW j \in 1..(Len(q) + 2) - 1, Append(q, m)[j].op \in K
      PROVE  Append(q, m)[j].f < m.f + 1
  <2>1. CASE j = Len(q) + 1
    BY <1>1, <2>1
  <2>2. CASE j # Len(q) + 1
    <3>1. j \in 1..(Len(q) + 1) - 1 /\ j \in 1..Len(q)
      BY <1>1, <1>3, <2>2
    <3>2. q[j].op \in K /\ q[j].f < m.f /\ q[j].f \in Nat
      BY <1>1, <1>3, <3>1 DEF NextAt
    <3> QED
      BY <1>1, <3>1, <3>2
  <2> QED
    BY <2>1, <2>2
<1>4. m.f + 1 > l
  BY DEF NextAt
<1> QED
  BY <1>2, <1>3, <1>4 DEF NextAt

LEMMA ListingTakes ==
  ASSUME NEW S, NEW K, NEW q \in Seq(S), q # <<>>, NEW l, Listing(K, q, l), Head(q).op \notin K
  PROVE  /\ Listing(K, Tail(q), l)
         /\ \A e : NextAt(K, q, l, Len(q) + 1, e) => NextAt(K, Tail(q), l, Len(Tail(q)) + 1, e)
<1>1. /\ Len(Tail(q)) = Len(q) - 1 /\ Len(q) \in Nat \ {0} /\ Head(q) = q[1]
      /\ \A i \in 1..Len(Tail(q)) : Tail(q)[i] = q[i + 1]
  BY HeadAndTail
<1>2. ASSUME NEW i \in 1..Len(q), NEW e, NextAt(K, q, l, i + 1, e)
      PROVE  NextAt(K, Tail(q), l, i, e)
  <2>1. ASSUME NEW g \in l + 1..e - 1 PROVE Named(K, Tail(q), i, g)
    <3>1. PICK j \in 1..(i + 1) - 1 : q[j].op \in K /\ q[j].f = g
      BY <1>2, <2>1 DEF NextAt, Named
    <3>2. j # 1
      BY <1>1, <3>1
    <3>3. j - 1 \in 1..i - 1 /\ j - 1 \in 1..Len(Tail(q)) /\ (j - 1) + 1 = j
      BY <1>1, <3>2
    <3> QED
      BY <1>1, <3>1, <3>3 DEF Named
  <2>2. \A j \in 1..i - 1 : j \in 1..Len(Tail(q)) /\ j + 1 \in 1..(i + 1) - 1
    BY <1>1
  <2> QED
    BY <1>1, <1>2, <2>1, <2>2 DEF NextAt
<1>3. Listing(K, Tail(q), l)
  <2>1. \A i \in 1..Len(Tail(q)) : i \in 1..Len(q) /\ i + 1 \in 1..Len(q)
    BY <1>1
  <2> QED
    BY <1>1, <1>2, <2>1 DEF Listing
<1>4. Len(q) \in 1..Len(q) /\ Len(Tail(q)) + 1 = Len(q)
  BY <1>1
<1> QED
  BY <1>2, <1>3, <1>4

(* the entry received is the next one, and the receiver counts it *)
LEMMA ListingTakesEntry ==
  ASSUME NEW S, NEW K, NEW q \in Seq(S), q # <<>>, NEW l \in Nat, Listing(K, q, l),
         Head(q).op \in K,
         \A i \in 1..Len(q) : q[i].op \in K => q[i].f \in Nat
  PROVE  /\ Head(q).f = l + 1
         /\ Listing(K, Tail(q), l + 1)
         /\ \A e \in Nat : NextAt(K, q, l, Len(q) + 1, e) =>
              NextAt(K, Tail(q), l + 1, Len(Tail(q)) + 1, e)
<1>1. /\ Len(Tail(q)) = Len(q) - 1 /\ Len(q) \in Nat \ {0} /\ Head(q) = q[1]
      /\ \A i \in 1..Len(Tail(q)) : Tail(q)[i] = q[i + 1]
  BY HeadAndTail
<1>2. Head(q).f \in Nat
  BY <1>1
<1>3. Head(q).f = l + 1
  <2>1. NextAt(K, q, l, 1, Head(q).f)
    BY <1>1 DEF Listing
  <2>2. Head(q).f > l /\ \A g \in l + 1..Head(q).f - 1 : FALSE
    BY <2>1 DEF NextAt, Named
  <2>3. l + 1 \in l + 1..Head(q).f - 1 \/ Head(q).f = l + 1
    BY <1>2, <2>2
  <2> QED
    BY <1>2, <2>2, <2>3
<1>4. ASSUME NEW i \in 1..Len(q), NEW e \in Nat, NextAt(K, q, l, i + 1, e)
      PROVE  NextAt(K, Tail(q), l + 1, i, e)
  <2>1. 1 \in 1..(i + 1) - 1
    OBVIOUS
  <2>2. Head(q).f < e
    BY <1>1, <1>4, <2>1 DEF NextAt
  <2>3. ASSUME NEW g \in (l + 1) + 1..e - 1 PROVE Named(K, Tail(q), i, g)
    <3>1. g \in l + 1..e - 1 /\ g # l + 1
      BY <2>3
    <3>2. PICK j \in 1..(i + 1) - 1 : q[j].op \in K /\ q[j].f = g
      BY <1>4, <3>1 DEF NextAt, Named
    <3>3. j # 1
      BY <1>1, <1>3, <3>1, <3>2
    <3>4. j - 1 \in 1..i - 1 /\ j - 1 \in 1..Len(Tail(q)) /\ (j - 1) + 1 = j
      BY <1>1, <3>3
    <3> QED
      BY <1>1, <3>2, <3>4 DEF Named
  <2>4. \A j \in 1..i - 1 : j \in 1..Len(Tail(q)) /\ j + 1 \in 1..(i + 1) - 1
    BY <1>1
  <2>5. \A j \in 1..i - 1 : Tail(q)[j].op \in K => Tail(q)[j].f < e
    BY <1>1, <1>4, <2>4 DEF NextAt
  <2> QED
    BY <1>3, <1>4, <2>2, <2>3, <2>5 DEF NextAt
<1>5. Len(q) \in 1..Len(q) /\ Len(Tail(q)) + 1 = Len(q)
  BY <1>1
<1>6. Listing(K, Tail(q), l + 1)
  <2>1. ASSUME NEW i \in 1..Len(Tail(q)), Tail(q)[i].op \in K
        PROVE  NextAt(K, Tail(q), l + 1, i, Tail(q)[i].f)
    <3>1. i \in 1..Len(q) /\ i + 1 \in 1..Len(q) /\ Tail(q)[i] = q[i + 1]
      BY <1>1
    <3>2. NextAt(K, q, l, i + 1, Tail(q)[i].f) /\ Tail(q)[i].f \in Nat
      BY <2>1, <3>1 DEF Listing
    <3> QED
      BY <1>4, <3>1, <3>2
  <2> QED
    BY <2>1 DEF Listing
<1> QED
  BY <1>3, <1>4, <1>5, <1>6

(* What is done before place i of the path to a receiver whose destination is *)
(* d: entry e is in place, or mk[e], the frame that puts it there, is ahead;  *)
(* and a frame op vouches for the entries E.                                  *)
DoneAt(mk, q, d, i, e) == d[e] = "new" \/ Ahead(q, i, mk[e])
DoneBy(mk, q, d, op, E) ==
  \A i \in 1..Len(q) : q[i].op = op => \A e \in E : DoneAt(mk, q, d, i, e)

LEMMA DoneSends ==
  ASSUME NEW S, NEW q \in Seq(S), NEW m \in S, NEW mk, NEW d, NEW op, NEW E, DoneBy(mk, q, d, op, E),
         m.op = op => \A e \in E : DoneAt(mk, q, d, Len(q) + 1, e)
  PROVE  /\ DoneBy(mk, Append(q, m), d, op, E)
         /\ \A e : DoneAt(mk, q, d, Len(q) + 1, e) => DoneAt(mk, Append(q, m), d, Len(q) + 2, e)
         /\ \A e : m = mk[e] => DoneAt(mk, Append(q, m), d, Len(q) + 2, e)
<1>1. /\ Len(q) \in Nat /\ Len(Append(q, m)) = Len(q) + 1 /\ Append(q, m)[Len(q) + 1] = m
      /\ \A i \in 1..Len(q) : Append(q, m)[i] = q[i]
      /\ \A i \in 1..Len(q) + 1 : \A x : Ahead(Append(q, m), i, x) <=> Ahead(q, i, x)
      /\ \A x : Ahead(Append(q, m), Len(q) + 2, x) <=> (Ahead(q, Len(q) + 1, x) \/ x = m)
  BY AheadSends
<1>2. ASSUME NEW i \in 1..Len(q) + 1, NEW e, DoneAt(mk, q, d, i, e)
      PROVE  DoneAt(mk, Append(q, m), d, i, e)
  BY <1>1, <1>2 DEF DoneAt
<1>3. DoneBy(mk, Append(q, m), d, op, E)
  BY <1>1, <1>2 DEF DoneBy
<1> QED
  BY <1>1, <1>3 DEF DoneAt

LEMMA DoneTakes ==
  ASSUME NEW S, NEW q \in Seq(S), q # <<>>, NEW mk, NEW d, NEW d2, NEW op, NEW E \in SUBSET Entries,
         DoneBy(mk, q, d, op, E),
         \A e \in Entries : d[e] = "new" \/ Head(q) = mk[e] => d2[e] = "new"
  PROVE  /\ DoneBy(mk, Tail(q), d2, op, E)
         /\ \A e \in Entries : DoneAt(mk, q, d, Len(q) + 1, e) => DoneAt(mk, Tail(q), d2, Len(Tail(q)) + 1, e)
<1>1. /\ Len(Tail(q)) = Len(q) - 1 /\ Len(q) \in Nat \ {0}
      /\ \A i \in 1..Len(Tail(q)) : Tail(q)[i] = q[i + 1]
  BY HeadAndTail
<1>2. ASSUME NEW i \in 1..Len(q), NEW e \in Entries, DoneAt(mk, q, d, i + 1, e)
      PROVE  DoneAt(mk, Tail(q), d2, i, e)
  <2>1. Ahead(q, i + 1, mk[e]) <=> (mk[e] = Head(q) \/ Ahead(Tail(q), i, mk[e]))
    BY AheadTakes
  <2> QED
    BY <1>2, <2>1 DEF DoneAt
<1>3. \A i \in 1..Len(Tail(q)) : i \in 1..Len(q) /\ i + 1 \in 1..Len(q)
  BY <1>1
<1>4. Len(q) \in 1..Len(q) /\ Len(Tail(q)) + 1 = Len(q)
  BY <1>1
<1> QED
  BY <1>1, <1>2, <1>3, <1>4 DEF DoneBy

(* what the head of the queue vouches for is there *)
LEMMA DoneNow ==
  ASSUME NEW S, NEW q \in Seq(S), q # <<>>, NEW mk, NEW d, NEW op, NEW E, DoneBy(mk, q, d, op, E),
         Head(q).op = op
  PROVE  \A e \in E : d[e] = "new"
<1>1. Head(q) = q[1] /\ 1 \in 1..Len(q)
  BY HeadAndTail
<1>2. \A x : ~Ahead(q, 1, x)
  BY AheadTakes
<1> QED
  BY <1>1, <1>2 DEF DoneBy, DoneAt

----------------------------------------------------------------------------
(* the entries of a manifest of any size, numbered through *)
LEMMA Numbering ==
  /\ FirstFile \in Nat \ {0} /\ LastFile \in Nat /\ FirstFile <= LastFile + 1
  /\ Entries = 1..LastFile /\ Files = FirstFile..LastFile /\ Files \subseteq Entries
  /\ Entries \ Files = 1..FirstFile - 1 /\ Entries \ Files = Dirs \cup Links
  /\ Dirs \subseteq Entries \ Files /\ Links \subseteq Entries \ Files /\ Dirs \cap Links = {}
<1> USE TransferConstants DEF FirstFile, LastFile, Entries, Files, Dirs, Links
<1>1. NDirs \in Nat /\ NLinks \in Nat /\ NFiles \in Nat
  OBVIOUS
<1>2. /\ FirstFile \in Nat \ {0} /\ LastFile \in Nat /\ FirstFile <= LastFile + 1
      /\ Entries = 1..LastFile /\ Files = FirstFile..LastFile
  BY <1>1
<1>3. Files \subseteq Entries /\ Entries \ Files = 1..FirstFile - 1
  BY <1>1
<1>4. Entries \ Files = Dirs \cup Links
  BY <1>1
<1>5. Dirs \subseteq Entries \ Files /\ Links \subseteq Entries \ Files /\ Dirs \cap Links = {}
  BY <1>1
<1> QED
  BY <1>2, <1>3, <1>4, <1>5

(* what is read from a source are data frames and copies *)
LEMMA StreamsAreData ==
  ASSUME NEW p, NEW s \in Streams(p)
  PROVE  /\ s \in Seq([op : {"Data"}, bytes : Bytes] \cup [op : {"Copy"}])
         /\ \A i \in 1..Len(s) : s[i].op \in {"Data", "Copy"}
<1> DEFINE U == [op : {"Data"}, bytes : Bytes] \cup [op : {"Copy"}]
<1>1. PICK n \in Size - 1..Size + 1 : s \in [1..n -> U]
  <2> DEFINE unit(b) == IF p = "delta" THEN {[op |-> "Data", bytes |-> b], Msg("Copy")}
                                       ELSE {[op |-> "Data", bytes |-> b]}
  <2>1. \A b \in Bytes : unit(b) \subseteq U
    BY DEF Bytes, Msg
  <2>2. Size - 1..Size + 1 \subseteq Int /\ Size \in Size - 1..Size + 1 /\ "good" \in Bytes
    BY TransferConstants DEF Bytes
  <2>3. \E n \in Size - 1..Size + 1, b \in Bytes : s \in [1..n -> unit(b)]
    <3>1. CASE MayFail
      BY <3>1 DEF Streams
    <3>2. CASE ~MayFail
      BY <2>2, <3>2 DEF Streams
    <3> QED
      BY <3>1, <3>2
  <2> HIDE DEF unit, U
  <2> QED
    BY <2>1, <2>3
<1>2. n \in Nat
  BY TransferConstants, <1>1
<1>3. s \in Seq(U) /\ Len(s) = n
  BY <1>1, <1>2
<1>4. \A i \in 1..Len(s) : s[i] \in U
  BY <1>1, <1>3
<1> QED
  BY <1>3, <1>4

----------------------------------------------------------------------------
(* queues: a send stays within its capacity, a receive is of a typed frame *)
LEMMA SendsDown ==
  ASSUME NEW S, DownOK(S), NEW m \in S, SendDown(m), UNCHANGED events
  PROVE  DownOK(S)' /\ ToCtrl' = Append(ToCtrl, m) /\ ToCtrl \in Seq(S)
<1>1. down' = Append(down, m) /\ down' \in Seq(S) /\ Len(down') <= DownCap
  BY AppendProperties, LenProperties, TransferConstants, SMTT(60) DEF DownOK, SendDown
<1>2. ToCtrl' = Append(ToCtrl, m)
  BY <1>1, PathSends DEF DownOK, ToCtrl
<1>3. ToCtrl \in Seq(S)
  BY ConcatProperties DEF DownOK, ToCtrl
<1> QED
  BY <1>1, <1>2, <1>3 DEF DownOK

LEMMA TakesEvent ==
  ASSUME NEW S, DownOK(S), NextEvent, UNCHANGED down
  PROVE  /\ DownOK(S)' /\ ToCtrl \in Seq(S) /\ ToCtrl # <<>>
         /\ Head(events) = Head(ToCtrl) /\ ToCtrl' = Tail(ToCtrl)
         /\ Head(events) \in S
<1>1. events # <<>> /\ events' = Tail(events)
  BY DEF NextEvent
<1>2. events' \in Seq(S) /\ Len(events') <= EvCap /\ Head(events) \in S
  BY <1>1, HeadAndTail, TransferConstants DEF DownOK
<1>3. /\ ToCtrl \in Seq(S) /\ ToCtrl # <<>> /\ Head(events) = Head(ToCtrl)
      /\ ToCtrl' = Tail(ToCtrl)
  BY <1>1, PathTakes DEF DownOK, ToCtrl
<1> QED
  BY <1>2, <1>3 DEF DownOK

LEMMA SendsUp ==
  ASSUME NEW S, UpOK(S), NEW m \in S, MainSend(m), UNCHANGED inbox
  PROVE  UpOK(S)' /\ ToWorker' = Append(ToWorker, m) /\ ToWorker \in Seq(S)
<1>1. up' = Append(up, m) /\ up' \in Seq(S) /\ Len(up') <= UpCap
  BY AppendProperties, LenProperties, TransferConstants DEF UpOK, MainSend
<1>2. ToWorker' = Append(ToWorker, m)
  BY <1>1, PathSends DEF UpOK, ToWorker
<1>3. ToWorker \in Seq(S)
  BY ConcatProperties DEF UpOK, ToWorker
<1> QED
  BY <1>1, <1>2, <1>3 DEF UpOK

LEMMA TakesFrame ==
  ASSUME NEW S, UpOK(S), Take, UNCHANGED up
  PROVE  /\ UpOK(S)' /\ ToWorker \in Seq(S) /\ ToWorker # <<>>
         /\ Head(inbox) = Head(ToWorker) /\ ToWorker' = Tail(ToWorker)
         /\ Head(inbox) \in S
<1>1. inbox # <<>> /\ inbox' = Tail(inbox)
  BY DEF Take
<1>2. inbox' \in Seq(S) /\ Len(inbox') <= InCap /\ Head(inbox) \in S
  BY <1>1, HeadAndTail, TransferConstants DEF UpOK
<1>3. /\ ToWorker \in Seq(S) /\ ToWorker # <<>> /\ Head(inbox) = Head(ToWorker)
      /\ ToWorker' = Tail(ToWorker)
  BY <1>1, PathTakes DEF UpOK, ToWorker
<1> QED
  BY <1>2, <1>3 DEF UpOK

(* the reader thread hands a frame on *)
LEMMA ReadMoves ==
  ASSUME NEW S, DownOK(S), Read
  PROVE  DownOK(S)' /\ ToCtrl' = ToCtrl
<1>1. down # <<>> /\ Len(events) < EvCap /\ events' = Append(events, Head(down)) /\ down' = Tail(down)
  BY DEF Read
<1>2. down' \in Seq(S) /\ Len(down') <= DownCap /\ Head(down) \in S
  BY <1>1, HeadAndTail, TransferConstants DEF DownOK
<1>3. events' \in Seq(S) /\ Len(events') <= EvCap
  BY <1>1, <1>2, AppendProperties, LenProperties, TransferConstants DEF DownOK
<1>4. ToCtrl' = ToCtrl
  BY <1>1, PathMoves DEF DownOK, ToCtrl
<1> QED
  BY <1>2, <1>3, <1>4 DEF DownOK

(* What the server does for a request that is served: the frame at the head  *)
(* of up moves to the worker.  Otherwise the frame is lost, with or without  *)
(* an Error for the controller.                                              *)
LEMMA RelayMoves ==
  ASSUME NEW R, NEW S, Msg("Error") \in S, UpOK(R), DownOK(S), ServerOK, ServerInv, Relay
  PROVE  /\ UpOK(R)' /\ DownOK(S)' /\ ServerOK' /\ ServerInv'
         /\ up # <<>> /\ ToCtrl \in Seq(S) /\ UNCHANGED <<alive, notify>>
         /\ Served => Served' /\ UNCHANGED <<ToWorker, ToCtrl>>
         /\ UNCHANGED ToWorker \/ UNCHANGED inbox
         /\ UNCHANGED ToCtrl \/ ToCtrl' = Append(ToCtrl, Msg("Error"))
<1>0. up # <<>> /\ Head(up) \in R /\ Tail(up) \in Seq(R) /\ Len(Tail(up)) <= UpCap
  BY HeadAndTail, TransferConstants, SMTT(60) DEF Relay, UpOK
<1>1. ASSUME Len(inbox) < InCap, inbox' = Append(inbox, Head(up)), up' = Tail(up)
      PROVE  UpOK(R)' /\ ToWorker' = ToWorker
  <2>1. inbox' \in Seq(R) /\ Len(inbox') <= InCap
    BY <1>0, <1>1, AppendProperties, LenProperties, TransferConstants DEF UpOK
  <2> QED
    BY <1>0, <1>1, <2>1, PathMoves DEF UpOK, ToWorker
<1>2. ToCtrl \in Seq(S)
  BY ConcatProperties DEF DownOK, ToCtrl
<1>3. ASSUME UNCHANGED <<down, events>> PROVE DownOK(S)' /\ ToCtrl' = ToCtrl
  BY <1>3 DEF DownOK, ToCtrl
<1>4. ASSUME UNCHANGED inbox, UNCHANGED up \/ up' = Tail(up) PROVE UpOK(R)'
  BY <1>0, <1>4 DEF UpOK
<1>5. CASE FindRoute \/ FindAgent \/ ChooseAgent \/ InsertRoute \/ SendFails
  <2>1. UNCHANGED <<queues, alive, cleanup, notify>>
    BY <1>5 DEF FindRoute, FindAgent, ChooseAgent, InsertRoute, SendFails
  <2>2. UNCHANGED <<ToWorker, ToCtrl>> /\ UpOK(R)' /\ DownOK(S)'
    BY <1>3, <1>4, <2>1 DEF queues, ToWorker
  <2>3. ServerOK' /\ ServerInv' /\ (Served => Served')
    BY <1>5, <2>1 DEF FindRoute, FindAgent, ChooseAgent, InsertRoute, SendFails,
      ServerOK, ServerInv, Served, Registered, OnTarget
  <2> QED
    BY <1>0, <1>2, <2>1, <2>2, <2>3
<1>6. CASE Deliver
  <2>1. /\ hand = "send" /\ hand' = "none" /\ up' = Tail(up)
        /\ UNCHANGED <<down, events, route, alive, cleanup, notify>>
        /\ IF route = "open" /\ alive THEN Len(inbox) < InCap /\ inbox' = Append(inbox, Head(up))
                                      ELSE UNCHANGED inbox
    BY <1>6 DEF Deliver
  <2>2. ServerOK' /\ ServerInv' /\ (Served => Served' /\ route = "open" /\ alive)
    BY <2>1 DEF ServerOK, ServerInv, Served
  <2>3. CASE route = "open" /\ alive
    BY <1>0, <1>1, <1>2, <1>3, <2>1, <2>2, <2>3
  <2>4. CASE ~(route = "open" /\ alive)
    BY <1>0, <1>2, <1>3, <1>4, <2>1, <2>2, <2>4
  <2> QED
    BY <2>3, <2>4
<1>7. CASE AnswerError
  <2>1. /\ hand = "error" /\ hand' = "none" /\ up' = Tail(up) /\ SendDown(Msg("Error"))
        /\ UNCHANGED <<inbox, events, route, alive, cleanup, notify>>
    BY <1>7 DEF AnswerError
  <2>2. ServerOK' /\ ServerInv' /\ ~Served
    BY <2>1 DEF ServerOK, ServerInv, Served
  <2>3. DownOK(S)' /\ ToCtrl' = Append(ToCtrl, Msg("Error"))
    BY <2>1, SendsDown
  <2> QED
    BY <1>0, <1>2, <1>4, <2>1, <2>2, <2>3
<1> QED
  BY <1>5, <1>6, <1>7 DEF Relay

(* cleanup_agent takes its locks one by one, and may add an Error.           *)
LEMMA CleanupMoves ==
  ASSUME NEW S, Msg("Error") \in S, DownOK(S), ServerOK, ServerInv, CleanupAgent
  PROVE  /\ DownOK(S)' /\ ServerOK' /\ ServerInv'
         /\ ~alive /\ UNCHANGED <<up, inbox, events, alive>>
         /\ UNCHANGED ToCtrl \/ ToCtrl' = Append(ToCtrl, Msg("Error"))
<1>1. CASE CleanName \/ CleanRoutes
  <2>1. UNCHANGED <<queues, hand, alive>>
    BY <1>1 DEF CleanName, CleanRoutes
  <2>2. DownOK(S)' /\ UNCHANGED ToCtrl
    BY <2>1 DEF queues, DownOK, ToCtrl
  <2>3. ServerOK' /\ ServerInv' /\ ~alive
    BY <1>1, <2>1 DEF CleanName, CleanRoutes, ServerOK, ServerInv
  <2> QED
    BY <2>1, <2>2, <2>3 DEF queues
<1>2. CASE Send410
  <2>1. /\ SendDown(Msg("Error")) /\ notify /\ notify' = FALSE
        /\ UNCHANGED <<up, inbox, events, hand, route, alive, cleanup>>
    BY <1>2 DEF Send410
  <2>2. DownOK(S)' /\ ToCtrl' = Append(ToCtrl, Msg("Error"))
    BY <2>1, SendsDown
  <2>3. ServerOK' /\ ServerInv' /\ ~alive
    BY <2>1 DEF ServerOK, ServerInv
  <2> QED
    BY <2>1, <2>2, <2>3
<1> QED
  BY <1>1, <1>2 DEF CleanupAgent

(* the connections end *)
LEMMA LosesMoves ==
  ASSUME ServerOK, ServerInv, LoseAgent \/ Disconnect \/ ForgetRoute
  PROVE  ServerOK' /\ ServerInv'
<1>1. CASE LoseAgent
  BY <1>1 DEF LoseAgent, ServerOK, ServerInv
<1>2. CASE Disconnect
  BY <1>2 DEF Disconnect, ServerOK, ServerInv
<1>3. CASE ForgetRoute
  BY <1>3 DEF ForgetRoute, ServerOK, ServerInv
<1> QED
  BY <1>1, <1>2, <1>3

----------------------------------------------------------------------------
(* What Publish promises, whatever sets of files, links and directories it   *)
(* is about; PushProofs and PullProofs show that their steps are steps of    *)
(* Publish.                                                                  *)
LEMMA SameEntries == P!Entries = Entries /\ Links \subseteq Entries /\ Files \subseteq Entries
BY Numbering DEF P!Entries

Contents == {"none", "old", "new"}
PublishType == dest \in [P!Entries -> Contents] /\ Outcome \in {"running", "ok", "failed"}
PublishInv == PublishType /\ P!SuccessMeansPlaced

(* A step changes at most one destination, and none after success. *)
LEMMA PublishStep ==
  ASSUME PublishInv, [P!Next]_P!vars
  PROVE  PublishInv'
<1> USE DEF PublishInv, PublishType, Contents, P!SuccessMeansPlaced
<1>1. ASSUME NEW e \in P!Entries, P!Place(e) PROVE PublishInv'
  BY <1>1 DEF P!Place
<1>2. ASSUME NEW l \in Links, P!Lose(l) PROVE PublishInv'
  <2>1. l \in P!Entries
    BY DEF P!Entries
  <2> QED
    BY <1>2, <2>1 DEF P!Lose
<1>3. CASE P!Succeed
  BY <1>3 DEF P!Succeed
<1>4. CASE P!Fail
  BY <1>4 DEF P!Fail
<1>5. CASE UNCHANGED P!vars
  BY <1>5 DEF P!vars
<1> QED
  BY <1>1, <1>2, <1>3, <1>4, <1>5 DEF P!Next

(* A push or pull that reports success has put every directory, link and     *)
(* file of its manifest in place, and never touches them afterwards.         *)
THEOREM PublishSuccess == P!Spec => []P!SuccessMeansPlaced
<1>1. P!Init => PublishInv
  BY DEF P!Init, PublishInv, PublishType, Contents, P!SuccessMeansPlaced
<1>2. PublishInv /\ [P!Next]_P!vars => PublishInv'
  BY PublishStep
<1>3. PublishInv => P!SuccessMeansPlaced
  BY DEF PublishInv
<1> QED
  BY <1>1, <1>2, <1>3, PTL DEF P!Spec

(* A transfer never makes a file or a directory disappear: only a symbolic   *)
(* link, which is removed before it is made again, can be lost.              *)
THEOREM PublishKeeps == P!Spec => P!NothingVanishes
<1>1. P!Init => PublishType
  BY DEF P!Init, PublishType, Contents
<1>2. PublishType /\ [P!Next]_P!vars => PublishType'
  <2> USE DEF PublishType, Contents
  <2>1. ASSUME PublishType, NEW e \in P!Entries, P!Place(e) PROVE PublishType'
    BY <2>1 DEF P!Place
  <2>2. ASSUME PublishType, NEW l \in Links, P!Lose(l) PROVE PublishType'
    BY <2>2 DEF P!Lose
  <2>3. ASSUME PublishType, P!Succeed \/ P!Fail \/ UNCHANGED P!vars PROVE PublishType'
    BY <2>3 DEF P!Succeed, P!Fail, P!vars
  <2> QED
    BY <2>1, <2>2, <2>3 DEF P!Next
<1>3. PublishType /\ [P!Next]_P!vars =>
        [\A e \in P!Entries \ Links : dest[e] # "none" => dest'[e] # "none"]_P!vars
  <2> SUFFICES ASSUME PublishType, [P!Next]_P!vars, NEW e \in P!Entries \ Links, dest[e] # "none"
               PROVE  dest'[e] # "none"
    OBVIOUS
  <2> USE DEF PublishType, Contents
  <2>1. ASSUME NEW d \in P!Entries, P!Place(d) PROVE dest'[e] # "none"
    BY <2>1 DEF P!Place
  <2>2. ASSUME NEW l \in Links, P!Lose(l) PROVE dest'[e] # "none"
    BY <2>2 DEF P!Lose
  <2>3. ASSUME P!Succeed \/ P!Fail \/ UNCHANGED P!vars PROVE dest'[e] # "none"
    BY <2>3 DEF P!Succeed, P!Fail, P!vars
  <2> QED
    BY <2>1, <2>2, <2>3 DEF P!Next
<1> QED
  BY <1>1, <1>2, <1>3, PTL DEF P!Spec, P!NothingVanishes

============================================================================
