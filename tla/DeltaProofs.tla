---------------------------- MODULE DeltaProofs ----------------------------
(***************************************************************************)
(* Proofs about Delta, for any block size, chunk, read size, modulus and   *)
(* content.  The inductive invariant says that what produce_delta has      *)
(* emitted cuts the source into pieces, and that FileWriter has written it *)
(* up to one of the cuts.  Three arguments build on it: the pieces,        *)
(* appended, spell the source (a fold over the instructions), roll is the  *)
(* checksum of the window one byte on (sums over sequences and arithmetic  *)
(* modulo WeakMod), and of a file that only grew the open copy leads.      *)
(***************************************************************************)
EXTENDS Delta, SequenceTheorems, WellFoundedInduction, TLAPS

(* the least element of a nonempty set of numbers *)
LEMMA MinNat ==
  ASSUME NEW S, S \subseteq Nat, S # {}
  PROVE  Min(S) \in S /\ \A y \in S : Min(S) <= y
<1>1. PICK x \in S : \A y \in S : ~(<<y, x>> \in OpToRel(<, Nat))
  BY NatLessThanWellFounded, WFMin, Zenon
<1>2. ASSUME NEW y \in S PROVE x <= y
  <2>1. <<y, x>> \in Nat \X Nat /\ <<y, x>>[1] = y /\ <<y, x>>[2] = x
    OBVIOUS
  <2>2. ~(<<y, x>>[1] < <<y, x>>[2])
    BY <1>1, <2>1, Zenon DEF OpToRel
  <2> QED
    BY <2>1, <2>2
<1> QED
  BY <1>2 DEF Min

(* induction, for a set of numbers *)
LEMMA Induction ==
  ASSUME NEW S, 0 \in S, \A i \in Nat : i \in S => i + 1 \in S
  PROVE  Nat \subseteq S
<1> DEFINE T == Nat \ S
<1> SUFFICES ASSUME T # {} PROVE FALSE
  OBVIOUS
<1> DEFINE m == Min(T)
<1>1. m \in T /\ \A y \in T : m <= y
  <2>1. T \subseteq Nat /\ T # {}
    OBVIOUS
  <2> HIDE DEF T
  <2> QED
    BY <2>1, MinNat
<1> HIDE DEF m
<1>2. m - 1 \in Nat /\ (m - 1) + 1 = m
  BY <1>1
<1>3. m - 1 \in S
  BY <1>1, <1>2
<1> QED
  BY <1>1, <1>2, <1>3

LEMMA MaxNat ==
  ASSUME NEW n \in Nat, NEW s \in SUBSET (1..n), s # {}
  PROVE  Max(s) \in s /\ \A y \in s : y <= Max(s)
<1> DEFINE U == {k \in Nat : \A x \in s : x <= k}
           m == Min(U)
<1>1. m \in U /\ \A k \in U : m <= k
  <2>1. U \subseteq Nat /\ n \in U
    OBVIOUS
  <2> HIDE DEF U
  <2> QED
    BY <2>1, MinNat
<1> HIDE DEF m
<1>2. m \in s
  <2> SUFFICES ASSUME m \notin s PROVE FALSE
    OBVIOUS
  <2>1. PICK x \in s : TRUE
    OBVIOUS
  <2>2. m - 1 \in U
    BY <1>1, <2>1
  <2> QED
    BY <1>1, <2>2
<1> QED
  BY <1>1, <1>2 DEF Max

(* the prefix 1..k of a domain *)
LEMMA MaxPrefix ==
  ASSUME NEW n \in Nat, NEW k \in 1..n
  PROVE  /\ 1..k \in SUBSET (1..n) /\ 1..k # {} /\ Max(1..k) = k
         /\ (1..k) \ {k} = 1..k - 1 /\ 1..k - 1 \in SUBSET (1..n)
<1>1. k \in Nat /\ 1..k \in SUBSET (1..k) /\ k \in 1..k
  OBVIOUS
<1> DEFINE s == 1..k
<1>2. s \in SUBSET (1..k) /\ s # {} /\ k \in s /\ \A y \in s : y \in Int /\ y <= k
  BY <1>1
<1> HIDE DEF s
<1>3. Max(s) \in s /\ \A y \in s : y <= Max(s)
  BY <1>1, <1>2, MaxNat
<1>4. Max(s) = k
  <2> DEFINE x == Max(s)
  <2>1. x \in s /\ k <= x
    BY <1>2, <1>3
  <2> HIDE DEF x
  <2>2. x \in Int /\ x <= k
    BY <1>2, <2>1
  <2>3. x = k
    BY <1>1, <2>1, <2>2
  <2> QED
    BY <2>3 DEF x
<1> QED
  BY <1>1, <1>4 DEF s

(* A fold over a sequence of n elements is a function on the subsets of its  *)
(* domain, defined by its value on the set without the greatest element.     *)
FoldOf(f, n, e, F) ==
  f = [s \in SUBSET (1..n) |-> IF s = {} THEN e ELSE F[<<Max(s), f[s \ {Max(s)}]>>]]

LEMMA FoldsExist ==
  ASSUME NEW n \in Nat, NEW Y, NEW e \in Y, NEW F \in [(1..n) \X Y -> Y]
  PROVE  \E f \in [SUBSET (1..n) -> Y] : FoldOf(f, n, e, F)
<1> DEFINE P(k) == \E f \in [SUBSET (1..k) -> Y] : FoldOf(f, k, e, F)
           S == {k \in Nat : k <= n => P(k)}
<1>1. P(0)
  <2> DEFINE f == [s \in SUBSET (1..0) |-> e]
  <2>1. f \in [SUBSET (1..0) -> Y]
    OBVIOUS
  <2>2. \A s \in SUBSET (1..0) : s = {}
    OBVIOUS
  <2>3. FoldOf(f, 0, e, F)
    BY <2>2, Zenon DEF FoldOf
  <2> QED
    BY <2>1, <2>3
<1>2. ASSUME NEW k \in Nat, k + 1 <= n, P(k) PROVE P(k + 1)
  <2>1. PICK f \in [SUBSET (1..k) -> Y] : FoldOf(f, k, e, F)
    BY <1>2
  <2> DEFINE m == k + 1
             g == [s \in SUBSET (1..m) |-> IF m \in s THEN F[<<m, f[s \ {m}]>>] ELSE f[s]]
  <2>2. ASSUME NEW s \in SUBSET (1..m)
        PROVE  IF m \in s THEN s \ {m} \in SUBSET (1..k) ELSE s \in SUBSET (1..k)
    OBVIOUS
  <2>3. m \in 1..n /\ m \in Nat
    BY <1>2
  <2>4. g \in [SUBSET (1..m) -> Y]
    <3>1. ASSUME NEW s \in SUBSET (1..m) PROVE g[s] \in Y
      <4>1. CASE m \in s
        <5>1. f[s \ {m}] \in Y
          BY <2>2, <4>1
        <5>2. <<m, f[s \ {m}]>> \in (1..n) \X Y
          BY <2>3, <5>1
        <5> QED
          BY <4>1, <5>2
      <4>2. CASE m \notin s
        BY <2>2, <4>2
      <4> QED
        BY <4>1, <4>2
    <3> QED
      BY <3>1
  <2>5. ASSUME NEW s \in SUBSET (1..m), s # {}
        PROVE  g[s] = F[<<Max(s), g[s \ {Max(s)}]>>]
    <3>1. Max(s) \in s /\ \A y \in s : y <= Max(s)
      BY <2>3, <2>5, MaxNat
    <3>2. CASE m \in s
      <4>1. Max(s) = m
        <5> DEFINE x == Max(s)
        <5>1. x \in s /\ m <= x
          BY <3>1, <3>2
        <5> HIDE DEF x
        <5>2. x \in Int /\ x <= m
          BY <2>3, <5>1
        <5>3. x = m
          BY <2>3, <5>1, <5>2
        <5> QED
          BY <5>3 DEF x
      <4>2. s \ {m} \in SUBSET (1..m) /\ m \notin s \ {m}
        OBVIOUS
      <4>3. g[s \ {m}] = f[s \ {m}]
        BY <4>2
      <4> QED
        BY <3>2, <4>1, <4>3
    <3>3. CASE m \notin s
      <4>1. s \in SUBSET (1..k) /\ s \ {Max(s)} \in SUBSET (1..k) /\ s \ {Max(s)} \in SUBSET (1..m) /\ m \notin s \ {Max(s)}
        BY <2>2, <3>3
      <4>2. f[s] = F[<<Max(s), f[s \ {Max(s)}]>>]
        BY <2>1, <2>5, <4>1, Zenon DEF FoldOf
      <4>3. g[s \ {Max(s)}] = f[s \ {Max(s)}] /\ g[s] = f[s]
        BY <3>3, <4>1
      <4> QED
        BY <4>2, <4>3
    <3> QED
      BY <3>2, <3>3
  <2>6. g[{}] = e
    <3>1. {} \in SUBSET (1..m) /\ m \notin {} /\ {} \in SUBSET (1..k)
      OBVIOUS
    <3>2. f[{}] = e
      BY <2>1, <3>1, Zenon DEF FoldOf
    <3> QED
      BY <3>1, <3>2
  <2> HIDE DEF g
  <2>7. FoldOf(g, m, e, F)
    <3>1. g = [s \in SUBSET (1..m) |-> g[s]]
      BY <2>4, Zenon
    <3>2. \A s \in SUBSET (1..m) : g[s] = IF s = {} THEN e ELSE F[<<Max(s), g[s \ {Max(s)}]>>]
      BY <2>5, <2>6, Zenon
    <3>3. [s \in SUBSET (1..m) |-> g[s]] = [s \in SUBSET (1..m) |-> IF s = {} THEN e ELSE F[<<Max(s), g[s \ {Max(s)}]>>]]
      BY <3>2, Zenon
    <3> QED
      BY <3>1, <3>3, Zenon DEF FoldOf
  <2> QED
    BY <2>4, <2>7
<1> HIDE DEF P
<1>3. \A k \in Nat : k \in S => k + 1 \in S
  BY <1>2
<1>4. 0 \in S
  BY <1>1
<1>5. Nat \subseteq S
  <2> HIDE DEF S
  <2> QED
    BY <1>3, <1>4, Induction
<1>6. P(n)
  BY <1>5
<1> QED
  BY <1>6 DEF P

(* a fold along the prefixes of its domain *)
LEMMA AlongPrefixes ==
  ASSUME NEW n \in Nat, NEW e, NEW F, NEW f, FoldOf(f, n, e, F)
  PROVE  /\ f[1..0] = e
         /\ \A k \in 1..n : f[1..k] = F[<<k, f[1..k - 1]>>]
<1>1. 1..0 = {} /\ {} \in SUBSET (1..n)
  OBVIOUS
<1>2. f[{}] = e
  BY <1>1, Zenon DEF FoldOf
<1>3. ASSUME NEW k \in 1..n PROVE f[1..k] = F[<<k, f[1..k - 1]>>]
  <2> DEFINE s == 1..k
             r == 1..k - 1
  <2>1. s \in SUBSET (1..n) /\ s # {} /\ Max(s) = k /\ s \ {k} = r
    BY MaxPrefix
  <2> HIDE DEF s, r
  <2>2. f[s] = F[<<Max(s), f[s \ {Max(s)}]>>]
    BY <2>1, Zenon DEF FoldOf
  <2> QED
    BY <2>1, <2>2 DEF s, r
<1> QED
  BY <1>1, <1>2, <1>3

(* the partial sums of a sequence of numbers *)
Sums(g, w, n) ==
  g \in [0..n -> Int] /\ g[0] = 0 /\ \A k \in 1..n : g[k] = g[k - 1] + w[k]

LEMMA SumOfPrefixes ==
  ASSUME NEW n \in Nat, NEW w \in [1..n -> Int]
  PROVE  \E g : Sums(g, w, n) /\ FoldLeft(+, 0, w) = g[n]
<1> DEFINE F == [p \in (1..n) \X Int |-> p[2] + w[p[1]]]
           Rec(f) == f = [s \in SUBSET DOMAIN w |-> IF s = {} THEN 0 ELSE f[s \ {Max(s)}] + w[Max(s)]]
           h == CHOOSE f : Rec(f)
           g == [k \in 0..n |-> h[1..k]]
<1>1. FoldLeft(+, 0, w) = h[DOMAIN w]
  BY Zenon DEF FoldLeft, MapThenFoldSet
<1>2. DOMAIN w = 1..n
  OBVIOUS
<1>3. F \in [(1..n) \X Int -> Int]
  OBVIOUS
<1>4. \A i \in 1..n, y \in Int : F[<<i, y>>] = y + w[i]
  OBVIOUS
<1> HIDE DEF F
<1>5. Rec(h)
  <2>1. PICK f \in [SUBSET (1..n) -> Int] : FoldOf(f, n, 0, F)
    <3>1. 0 \in Int
      OBVIOUS
    <3> QED
      BY <1>3, <3>1, FoldsExist, Zenon
  <2>2. ASSUME NEW s \in SUBSET (1..n), s # {}
        PROVE  F[<<Max(s), f[s \ {Max(s)}]>>] = f[s \ {Max(s)}] + w[Max(s)]
    <3>1. Max(s) \in 1..n
      BY <2>2, MaxNat
    <3>2. s \ {Max(s)} \in SUBSET (1..n)
      OBVIOUS
    <3>3. f[s \ {Max(s)}] \in Int
      BY <2>1, <3>2
    <3> QED
      BY <1>4, <3>1, <3>3
  <2>3. Rec(f)
    <3>1. f = [s \in SUBSET (1..n) |-> IF s = {} THEN 0 ELSE F[<<Max(s), f[s \ {Max(s)}]>>]]
      BY <2>1, Zenon DEF FoldOf
    <3>2. [s \in SUBSET (1..n) |-> IF s = {} THEN 0 ELSE F[<<Max(s), f[s \ {Max(s)}]>>]]
          = [s \in SUBSET (1..n) |-> IF s = {} THEN 0 ELSE f[s \ {Max(s)}] + w[Max(s)]]
      BY <2>2, Zenon
    <3> QED
      BY <1>2, <3>1, <3>2, Zenon
  <2> HIDE DEF Rec
  <2> QED
    BY <2>3, Zenon
<1> HIDE DEF h
<1>6. h[1..0] = 0 /\ \A k \in 1..n : h[1..k] = h[1..k - 1] + w[k]
  <2>1. 1..0 = {} /\ {} \in SUBSET (1..n)
    OBVIOUS
  <2>2. h[{}] = 0
    BY <1>2, <1>5, <2>1, Zenon
  <2>3. ASSUME NEW k \in 1..n PROVE h[1..k] = h[1..k - 1] + w[k]
    <3> DEFINE s == 1..k
               r == 1..k - 1
    <3>1. s \in SUBSET (1..n) /\ s # {} /\ Max(s) = k /\ s \ {k} = r
      BY MaxPrefix
    <3> HIDE DEF s, r
    <3>2. h[s] = h[s \ {Max(s)}] + w[Max(s)]
      BY <1>2, <1>5, <3>1, Zenon
    <3> QED
      BY <3>1, <3>2 DEF s, r
  <2> QED
    BY <2>1, <2>2, <2>3
<1> DEFINE S == {k \in Nat : k <= n => h[1..k] \in Int}
<1>7. Nat \subseteq S
  <2>1. 0 \in S
    BY <1>6
  <2>2. ASSUME NEW k \in Nat, k \in S PROVE k + 1 \in S
    <3> SUFFICES ASSUME k + 1 <= n PROVE h[1..k + 1] \in Int
      OBVIOUS
    <3>1. k + 1 \in 1..n /\ (k + 1) - 1 = k /\ k <= n
      OBVIOUS
    <3>2. h[1..k + 1] = h[1..k] + w[k + 1]
      BY <1>6, <3>1
    <3> QED
      BY <2>2, <3>1, <3>2
  <2> HIDE DEF S
  <2> QED
    BY <2>1, <2>2, Induction
<1>8. Sums(g, w, n)
  <2>1. g \in [0..n -> Int]
    BY <1>7
  <2>2. g[0] = 0
    BY <1>6
  <2>3. ASSUME NEW k \in 1..n PROVE g[k] = g[k - 1] + w[k]
    <3>1. k \in 0..n /\ k - 1 \in 0..n
      OBVIOUS
    <3> QED
      BY <1>6, <3>1
  <2> HIDE DEF g
  <2> QED
    BY <2>1, <2>2, <2>3 DEF Sums
<1>9. g[n] = FoldLeft(+, 0, w)
  <2>1. n \in 0..n
    OBVIOUS
  <2> QED
    BY <1>1, <1>2, <2>1
<1> QED
  BY <1>8, <1>9

LEMMA MaxPair ==
  ASSUME NEW a \in Int, NEW b \in Int
  PROVE  Max({a, b}) \in {a, b} /\ Max({a, b}) >= a /\ Max({a, b}) >= b
<1>1. \E x \in {a, b} : \A y \in {a, b} : x >= y
  <2>1. CASE a >= b
    BY <2>1
  <2>2. CASE b >= a
    BY <2>2
  <2> QED
    BY <2>1, <2>2
<1> QED
  BY <1>1 DEF Max

LEMMA MinPair ==
  ASSUME NEW a \in Int, NEW b \in Int
  PROVE  Min({a, b}) \in {a, b} /\ Min({a, b}) <= a /\ Min({a, b}) <= b
<1>1. \E x \in {a, b} : \A y \in {a, b} : x <= y
  <2>1. CASE a <= b
    BY <2>1
  <2>2. CASE b <= a
    BY <2>2
  <2> QED
    BY <2>1, <2>2
<1> QED
  BY <1>1 DEF Min

(* division with remainder *)
LEMMA DivBounds ==
  ASSUME NEW a \in Nat, NEW m \in Nat \ {0}
  PROVE  /\ a \div m \in Nat /\ (a \div m) * m <= a /\ a < (a \div m) * m + m
OBVIOUS

LEMMA DivExact ==
  ASSUME NEW i \in Nat, NEW m \in Nat \ {0}
  PROVE  (i * m) \div m = i
OBVIOUS

LEMMA TimesMonotone ==
  ASSUME NEW i \in Nat, NEW j \in Nat, i <= j, NEW m \in Nat
  PROVE  i * m \in Nat /\ j * m \in Nat /\ i * m <= j * m /\ (i + 1) * m = i * m + m /\ (i < j => i * m + m <= j * m)
OBVIOUS

LEMMA Constants ==
  /\ WeakMod \in Nat \ {0} /\ Chunk \in Nat \ {0} /\ ReadChunk \in Nat \ {0}
  /\ Byte \subseteq Nat
  /\ \A n \in Nat : choose_block_size(n) \in Nat \ {0}
<1>1. /\ WeakMod \in Nat \ {0} /\ Chunk \in Nat \ {0} /\ ReadChunk \in Nat \ {0}
      /\ SmallBlock \in Nat \ {0} /\ LargeBlock \in Nat \ {0} /\ Byte \subseteq Nat
  BY DeltaConstants
<1>2. ASSUME NEW n \in Nat PROVE choose_block_size(n) \in Nat \ {0}
  <2> DEFINE big == IF n > LargeFile THEN LargeBlock ELSE SmallBlock
             cap == Max({n, 1})
             low == Min({big, cap})
  <2>1. big \in Int
    BY <1>1
  <2>2. cap \in Int
    BY MaxPair
  <2> HIDE DEF big, cap
  <2>3. low \in Int
    BY <2>1, <2>2, MinPair
  <2> HIDE DEF low
  <2>4. Max({1, low}) \in Int /\ Max({1, low}) >= 1
    BY <2>3, MaxPair
  <2>5. choose_block_size(n) = Max({1, low})
    BY DEF choose_block_size, low, big, cap
  <2> QED
    BY <2>4, <2>5
<1> QED
  BY <1>1, <1>2

(* Rust's buf[from..upto] of a sequence *)
LEMMA SliceProps ==
  ASSUME NEW S, NEW s \in Seq(S), NEW from \in Nat, NEW upto \in Nat, from <= upto, upto <= Len(s)
  PROVE  /\ Slice(s, from, upto) \in Seq(S) /\ Len(Slice(s, from, upto)) = upto - from
         /\ \A k \in 1..upto - from : Slice(s, from, upto)[k] = s[from + k]
<1>1. from + 1 \in Int /\ upto \in Int /\ \A i \in from + 1..upto : s[i] \in S
  OBVIOUS
<1>2. /\ SubSeq(s, from + 1, upto) \in Seq(S)
      /\ Len(SubSeq(s, from + 1, upto)) = IF from + 1 <= upto THEN upto - (from + 1) + 1 ELSE 0
      /\ \A i \in 1..upto - (from + 1) + 1 : SubSeq(s, from + 1, upto)[i] = s[from + 1 + i - 1]
  BY <1>1, SubSeqProperties
<1> QED
  BY <1>2 DEF Slice

LEMMA FilesAreSeqs ==
  ASSUME NEW n \in Nat, NEW f \in Files(n)
  PROVE  f \in Seq(Byte)
<1>1. PICK k \in 0..n : f \in [1..k -> Byte]
  BY DEF Files
<1> QED
  BY <1>1

----------------------------------------------------------------------------
(* The batcher of produce_delta.  An instruction carries a piece of the      *)
(* source, from its byte a up to its byte b, if it yields just those bytes   *)
(* when the base is the one that was signed.                                 *)
Copies == [op : {"Copy"}, start : Nat, len : Nat]
Instrs == [op : {"Data"}, bytes : Seq(Byte)] \cup Copies
Outs == [ops : Seq(Instrs), pending : Seq(Byte), copy : Copies]

OpLen(op) == IF op.op = "Data" THEN Len(op.bytes) ELSE op.len
OpByte(op, k) == IF op.op = "Data" THEN op.bytes[k] ELSE base[op.start + k]

Carries(op, a, b) ==
  /\ b = a + OpLen(op) /\ b <= Len(src)
  /\ \A k \in 1..OpLen(op) : OpByte(op, k) = src[a + k]

(* The instructions cut the source, from its start, at these places. *)
Cuts(cut, ops, to) ==
  /\ cut \in [0..Len(ops) -> Nat] /\ cut[0] = 0 /\ cut[Len(ops)] = to
  /\ \A i \in 1..Len(ops) : Carries(ops[i], cut[i - 1], cut[i])

(* With the literals that wait and the copy that is open they reach further. *)
Spells(cut, o, to) ==
  LET here == cut[Len(o.ops)] IN
    /\ Cuts(cut, o.ops, here)
    /\ Carries(Data(o.pending), here, here + Len(o.pending))
    /\ Carries(o.copy, here + Len(o.pending), to)

(* a frame the receiver accepts, and what becomes one *)
Fits(op) ==
  IF op.op = "Data" THEN Len(op.bytes) \in 1..Chunk
  ELSE op.len > 0 /\ op.start + op.len <= BlockCount * bs
OutFits(o) ==
  /\ \A i \in 1..Len(o.ops) : Fits(o.ops[i])
  /\ Len(o.pending) < Chunk
  /\ o.copy = NoCopy \/ Fits(o.copy)

Good(cut, o, to) == o \in Outs /\ OutFits(o) /\ Spells(cut, o, to)

(* Instructions once sent stay, and so do their cuts. *)
Keeps(o, o2) == Len(o.ops) <= Len(o2.ops) /\ \A i \in 1..Len(o.ops) : o2.ops[i] = o.ops[i]
Reaches(cut, o, o2, to) ==
  /\ Keeps(o, o2)
  /\ \E cut2 : Good(cut2, o2, to) /\ \A i \in 0..Len(o.ops) : cut2[i] = cut[i]

LEMMA DataProps ==
  ASSUME NEW b \in Seq(Byte)
  PROVE  /\ Data(b) \in Instrs /\ Data(b).op = "Data" /\ Data(b).bytes = b
         /\ OpLen(Data(b)) = Len(b) /\ \A k : OpByte(Data(b), k) = b[k]
BY DEF Data, Instrs, OpLen, OpByte

LEMMA CopyProps ==
  ASSUME NEW s \in Nat, NEW l \in Nat
  PROVE  /\ Copy(s, l) \in Copies /\ Copy(s, l) \in Instrs /\ Copy(s, l).op = "Copy"
         /\ Copy(s, l).start = s /\ Copy(s, l).len = l
         /\ OpLen(Copy(s, l)) = l /\ \A k : OpByte(Copy(s, l), k) = base[s + k]
BY DEF Copy, Copies, Instrs, OpLen, OpByte

LEMMA InstrProps ==
  /\ Copies \subseteq Instrs
  /\ \A op \in Instrs : OpLen(op) \in Nat
  /\ \A c \in Copies : c.op = "Copy" /\ c.start \in Nat /\ c.len \in Nat /\ c = Copy(c.start, c.len)
  /\ NoCopy \in Copies /\ NoCopy.start = 0 /\ NoCopy.len = 0
BY DEF Copies, Instrs, OpLen, Copy, NoCopy

LEMMA OneMore ==
  ASSUME NEW ops \in Seq(Instrs), NEW op \in Instrs
  PROVE  /\ ops \o <<op>> \in Seq(Instrs) /\ Len(ops \o <<op>>) = Len(ops) + 1
         /\ \A i \in 1..Len(ops) : (ops \o <<op>>)[i] = ops[i]
         /\ (ops \o <<op>>)[Len(ops) + 1] = op
OBVIOUS

(* one more instruction *)
LEMMA CutsOne ==
  ASSUME NEW cut, NEW ops \in Seq(Instrs), NEW a, Cuts(cut, ops, a),
         NEW op \in Instrs, NEW b, Carries(op, a, b),
         NEW more \in Seq(Instrs), Len(more) = Len(ops) + 1,
         \A i \in 1..Len(ops) : more[i] = ops[i], more[Len(ops) + 1] = op
  PROVE  \E cut2 : Cuts(cut2, more, b) /\ \A i \in 0..Len(ops) : cut2[i] = cut[i]
<1> DEFINE n == Len(ops)
           cut2 == [i \in 0..n + 1 |-> IF i <= n THEN cut[i] ELSE b]
<1>1. /\ more \in Seq(Instrs) /\ Len(more) = n + 1 /\ n \in Nat
      /\ \A i \in 1..n : more[i] = ops[i]
      /\ more[n + 1] = op
  OBVIOUS
<1>2. a \in Nat /\ b \in Nat /\ \A i \in 0..n : cut[i] \in Nat
  <2>1. cut \in [0..n -> Nat] /\ cut[n] = a
    BY DEF Cuts
  <2>2. OpLen(op) \in Nat /\ b = a + OpLen(op)
    BY InstrProps DEF Carries
  <2>3. n \in 0..n
    BY <1>1
  <2> QED
    BY <2>1, <2>2, <2>3
<1>3. cut2 \in [0..n + 1 -> Nat] /\ cut2[0] = 0 /\ cut2[n + 1] = b /\ \A i \in 0..n : cut2[i] = cut[i]
  BY <1>1, <1>2 DEF Cuts
<1> HIDE DEF n, cut2
<1>4. ASSUME NEW i \in 1..n + 1 PROVE Carries(more[i], cut2[i - 1], cut2[i])
  <2>1. CASE i <= n
    <3>1. i \in 1..n /\ i \in 0..n /\ i - 1 \in 0..n
      BY <1>1, <2>1
    <3> QED
      BY <1>1, <1>3, <3>1 DEF Cuts, n
  <2>2. CASE i = n + 1
    BY <1>1, <1>3, <2>2 DEF Cuts, n
  <2> QED
    BY <1>1, <2>1, <2>2
<1>5. Cuts(cut2, more, b)
  BY <1>1, <1>3, <1>4 DEF Cuts
<1> QED
  BY <1>1, <1>3, <1>5 DEF n

(* any number of full frames *)
FullFrames(new, a) ==
  /\ new \in Seq(Instrs)
  /\ \A k \in 1..Len(new) : Carries(new[k], a + (k - 1) * Chunk, a + k * Chunk)
Joined(more, ops, new) ==
  /\ more \in Seq(Instrs) /\ Len(more) = Len(ops) + Len(new)
  /\ \A i \in 1..Len(ops) : more[i] = ops[i]
  /\ \A i \in 1..Len(new) : more[Len(ops) + i] = new[i]

LEMMA CutsMany ==
  ASSUME NEW cut, NEW ops \in Seq(Instrs), NEW a, Cuts(cut, ops, a),
         NEW new, FullFrames(new, a), NEW more, Joined(more, ops, new)
  PROVE  \E cut2 : Cuts(cut2, more, a + Len(new) * Chunk) /\ \A i \in 0..Len(ops) : cut2[i] = cut[i]
<1> DEFINE n == Len(ops)
           m == Len(new)
           cut2 == [i \in 0..n + m |-> IF i <= n THEN cut[i] ELSE a + (i - n) * Chunk]
<1>1. /\ Len(more) = n + m /\ n \in Nat /\ m \in Nat
      /\ \A i \in 1..n : more[i] = ops[i]
      /\ \A i \in 1..m : more[n + i] = new[i]
  BY DEF FullFrames, Joined
<1>2. Chunk \in Nat \ {0} /\ \A k \in Nat : k * Chunk \in Nat
  BY Constants
<1>3. a \in Nat /\ \A i \in 0..n : cut[i] \in Nat
  <2>1. cut \in [0..n -> Nat] /\ cut[n] = a
    BY DEF Cuts
  <2>2. n \in 0..n
    BY <1>1
  <2> QED
    BY <2>1, <2>2
<1>4. cut2 \in [0..n + m -> Nat]
  <2>1. ASSUME NEW i \in 0..n + m, i > n PROVE a + (i - n) * Chunk \in Nat
    <3>1. i - n \in Nat
      BY <1>1, <2>1
    <3>2. (i - n) * Chunk \in Nat
      BY <1>2, <3>1
    <3> QED
      BY <1>3, <3>2
  <2> QED
    BY <1>1, <1>3, <2>1
<1>5. /\ cut2[0] = 0 /\ \A i \in 0..n : cut2[i] = cut[i]
      /\ \A k \in 1..m : cut2[n + k] = a + k * Chunk
  BY <1>1, <1>3 DEF Cuts
<1>6. cut2[n] = a
  BY <1>1, <1>5 DEF Cuts, n
<1>7. \A k \in 0..m : cut2[n + k] = a + k * Chunk
  <2>1. n + 0 = n /\ a + 0 * Chunk = a
    BY <1>1, <1>2, <1>3
  <2> SUFFICES ASSUME NEW k \in 0..m, k # 0 PROVE cut2[n + k] = a + k * Chunk
    BY <1>6, <2>1
  <2>2. k \in 1..m
    BY <1>1
  <2> QED
    BY <1>5, <2>2
<1> HIDE DEF n, m, cut2
<1>8. ASSUME NEW i \in 1..n + m PROVE Carries(more[i], cut2[i - 1], cut2[i])
  <2>1. CASE i <= n
    <3>1. i \in 1..n /\ i \in 0..n /\ i - 1 \in 0..n
      BY <1>1, <2>1
    <3> QED
      BY <1>1, <1>5, <3>1 DEF Cuts, n
  <2>2. CASE i > n
    <3>1. PICK k \in 1..m : i = n + k
      <4>1. i - n \in 1..m /\ i = n + (i - n)
        BY <1>1, <2>2
      <4> QED
        BY <4>1
    <3>2. more[i] = new[k] /\ cut2[i] = a + k * Chunk
      BY <1>1, <1>7, <3>1
    <3>3. cut2[i - 1] = a + (k - 1) * Chunk
      <4>1. i - 1 = n + (k - 1) /\ k - 1 \in 0..m
        BY <1>1, <3>1
      <4> QED
        BY <1>7, <4>1
    <3> QED
      BY <3>2, <3>3 DEF m, FullFrames
  <2> QED
    BY <1>1, <2>1, <2>2
<1>9. cut2[n + m] = a + m * Chunk
  <2>1. m \in 0..m
    BY <1>1
  <2> QED
    BY <1>7, <2>1
<1>10. Cuts(cut2, more, a + m * Chunk)
  BY <1>1, <1>4, <1>5, <1>8, <1>9 DEF Cuts
<1> QED
  BY <1>1, <1>5, <1>10 DEF n, m

(* no copy is open: the literals that wait reach to the end *)
LEMMA Closed ==
  ASSUME NEW cut, NEW ops \in Seq(Instrs), NEW a, Cuts(cut, ops, a),
         \A i \in 1..Len(ops) : Fits(ops[i]),
         NEW p \in Seq(Byte), Len(p) < Chunk, Carries(Data(p), a, a + Len(p))
  PROVE  Good(cut, [ops |-> ops, pending |-> p, copy |-> NoCopy], a + Len(p))
<1> DEFINE o == [ops |-> ops, pending |-> p, copy |-> NoCopy]
<1>1. o.ops = ops /\ o.pending = p /\ o.copy = NoCopy /\ o \in Outs
  BY InstrProps DEF Outs
<1>2. cut[Len(ops)] = a /\ Len(p) \in Nat
  BY DEF Cuts
<1>3. a \in Nat
  <2>1. Len(ops) \in 0..Len(ops) /\ cut \in [0..Len(ops) -> Nat]
    BY DEF Cuts
  <2> QED
    BY <1>2, <2>1
<1>4. Carries(NoCopy, a + Len(p), a + Len(p))
  <2>1. OpLen(NoCopy) = 0
    BY InstrProps DEF OpLen
  <2>2. a + Len(p) <= Len(src)
    BY DEF Carries
  <2> QED
    BY <1>2, <1>3, <2>1, <2>2 DEF Carries
<1> HIDE DEF o
<1>5. OutFits(o)
  BY <1>1 DEF OutFits
<1>6. Spells(cut, o, a + Len(p))
  BY <1>1, <1>2, <1>4 DEF Spells
<1> QED
  BY <1>1, <1>5, <1>6 DEF Good, o

(* an empty batch *)
LEMMA NothingWaits ==
  ASSUME NEW a \in Nat, a <= Len(src)
  PROVE  /\ <<>> \in Seq(Byte) /\ Len(<<>>) = 0 /\ Len(<<>>) < Chunk
         /\ Carries(Data(<<>>), a, a + Len(<<>>)) /\ a + Len(<<>>) = a
<1>1. <<>> \in Seq(Byte) /\ Len(<<>>) = 0
  OBVIOUS
<1>2. OpLen(Data(<<>>)) = 0
  BY <1>1, DataProps
<1>3. Carries(Data(<<>>), a, a)
  BY <1>2 DEF Carries
<1>4. a + Len(<<>>) = a
  BY <1>1
<1> QED
  BY <1>1, <1>3, <1>4, Constants

(* the literals that wait leave as a frame *)
Leaves(cut, o, ops) ==
  /\ ops \in Seq(Instrs) /\ Len(ops) = Len(o.ops) + 1 /\ \A i \in 1..Len(ops) : Fits(ops[i])
  /\ \A i \in 1..Len(o.ops) : ops[i] = o.ops[i]
  /\ ops[Len(o.ops) + 1] = Data(o.pending)
  /\ \E cut2 : /\ Cuts(cut2, ops, cut[Len(o.ops)] + Len(o.pending))
               /\ \A i \in 0..Len(o.ops) : cut2[i] = cut[i]

LEMMA PendingLeaves ==
  ASSUME NEW cut, NEW o, NEW to, Good(cut, o, to), o.pending # <<>>
  PROVE  Leaves(cut, o, o.ops \o <<Data(o.pending)>>)
<1> DEFINE n == Len(o.ops)
           here == cut[n]
           reached == here + Len(o.pending)
           ops == o.ops \o <<Data(o.pending)>>
<1>1. /\ o.ops \in Seq(Instrs) /\ o.pending \in Seq(Byte) /\ n \in Nat
      /\ Len(o.pending) \in 1..Chunk /\ \A i \in 1..n : Fits(o.ops[i])
  <2>1. o.ops \in Seq(Instrs) /\ o.pending \in Seq(Byte)
    BY DEF Good, Outs
  <2>2. Len(o.pending) < Chunk /\ \A i \in 1..n : Fits(o.ops[i])
    BY DEF Good, OutFits
  <2>3. Len(o.pending) \in Nat \ {0}
    BY <2>1, EmptySeq
  <2>4. Len(o.pending) \in 1..Chunk
    <3>1. Chunk \in Nat /\ Len(o.pending) < Chunk
      BY <2>2, Constants
    <3> QED
      BY <2>3, <3>1
  <2> HIDE DEF n
  <2> QED
    BY <2>1, <2>2, <2>4 DEF n
<1>2. Cuts(cut, o.ops, here) /\ Carries(Data(o.pending), here, reached)
  BY DEF Good, Spells
<1>3. Data(o.pending) \in Instrs /\ Fits(Data(o.pending))
  BY <1>1, DataProps DEF Fits
<1> HIDE DEF n, here, reached
<1>4. /\ ops \in Seq(Instrs) /\ Len(ops) = Len(o.ops) + 1
      /\ \A i \in 1..Len(o.ops) : ops[i] = o.ops[i]
      /\ ops[Len(o.ops) + 1] = Data(o.pending)
      /\ \E cut2 : /\ Cuts(cut2, ops, reached)
                   /\ \A i \in 0..Len(o.ops) : cut2[i] = cut[i]
  <2>1. /\ ops \in Seq(Instrs) /\ Len(ops) = Len(o.ops) + 1
        /\ \A i \in 1..Len(o.ops) : ops[i] = o.ops[i]
        /\ ops[Len(o.ops) + 1] = Data(o.pending)
    BY <1>1, <1>3, OneMore
  <2> DEFINE old == o.ops
             op == Data(o.pending)
  <2>2. /\ old \in Seq(Instrs) /\ op \in Instrs /\ Cuts(cut, old, here) /\ Carries(op, here, reached)
        /\ ops \in Seq(Instrs) /\ Len(ops) = Len(old) + 1
        /\ \A i \in 1..Len(old) : ops[i] = old[i]
        /\ ops[Len(old) + 1] = op
    BY <1>1, <1>2, <1>3, <2>1
  <2> HIDE DEF old, op, ops
  <2>3. \E cut2 : Cuts(cut2, ops, reached) /\ \A i \in 0..Len(old) : cut2[i] = cut[i]
    BY ONLY <2>2, CutsOne, SMTT(60)
  <2> QED
    BY <2>1, <2>3 DEF old, op
<1> HIDE DEF ops
<1>5. ASSUME NEW i \in 1..Len(ops) PROVE Fits(ops[i])
  BY <1>1, <1>3, <1>4 DEF n
<1> QED
  BY <1>4, <1>5 DEF here, n, reached, ops, Leaves

(* emit_copy: afterwards no copy is open *)
LEMMA EmitCopyDoes ==
  ASSUME NEW cut, NEW o, NEW to, Good(cut, o, to)
  PROVE  EmitCopy(o).copy = NoCopy /\ Reaches(cut, o, EmitCopy(o), to)
<1>1. CASE o.copy = NoCopy
  <2>1. EmitCopy(o) = o
    BY <1>1 DEF EmitCopy
  <2>2. Len(o.ops) \in Nat
    BY DEF Good, Outs
  <2> QED
    BY <1>1, <2>1, <2>2 DEF Reaches, Keeps
<1>2. CASE o.copy # NoCopy
  <2> DEFINE here == cut[Len(o.ops)]
             ops == o.ops \o (IF o.pending = <<>> THEN <<>> ELSE <<Data(o.pending)>>)
             reached == here + Len(o.pending)
  <2>1. EmitCopy(o) = [ops |-> ops \o <<o.copy>>, pending |-> <<>>, copy |-> NoCopy]
    BY <1>2 DEF EmitCopy
  <2>2. /\ o.ops \in Seq(Instrs) /\ Len(o.ops) \in Nat /\ o.copy \in Instrs /\ Fits(o.copy)
        /\ \A i \in 1..Len(o.ops) : Fits(o.ops[i])
        /\ Carries(o.copy, reached, to) /\ Cuts(cut, o.ops, here) /\ o.pending \in Seq(Byte)
    BY <1>2, InstrProps DEF Good, Outs, OutFits, Spells
  <2>3. /\ ops \in Seq(Instrs) /\ Len(ops) >= Len(o.ops) /\ \A i \in 1..Len(ops) : Fits(ops[i])
        /\ \A i \in 1..Len(o.ops) : ops[i] = o.ops[i]
        /\ \E cut2 : Cuts(cut2, ops, reached) /\ \A i \in 0..Len(o.ops) : cut2[i] = cut[i]
    <3>1. CASE o.pending = <<>>
      <4>1. ops = o.ops
        BY <2>2, <3>1
      <4>2. reached = here
        <5>1. cut \in [0..Len(o.ops) -> Nat] /\ Len(o.ops) \in 0..Len(o.ops)
          BY <2>2 DEF Cuts
        <5>2. Len(o.pending) = 0
          BY <3>1
        <5> QED
          BY <5>1, <5>2
      <4> HIDE DEF ops, reached, here
      <4> QED
        BY <2>2, <4>1, <4>2
    <3>2. CASE o.pending # <<>>
      <4>1. ops = o.ops \o <<Data(o.pending)>>
        BY <3>2
      <4>2. /\ ops \in Seq(Instrs) /\ Len(ops) = Len(o.ops) + 1 /\ \A i \in 1..Len(ops) : Fits(ops[i])
            /\ \A i \in 1..Len(o.ops) : ops[i] = o.ops[i]
            /\ \E cut2 : Cuts(cut2, ops, reached) /\ \A i \in 0..Len(o.ops) : cut2[i] = cut[i]
        <5> HIDE DEF ops
        <5>1. Leaves(cut, o, ops)
          BY <3>2, <4>1, PendingLeaves
        <5> QED
          BY <5>1 DEF Leaves
      <4> HIDE DEF ops
      <4> QED
        BY <2>2, <4>2, SMTT(60)
    <3> QED
      BY <3>1, <3>2
  <2> HIDE DEF ops, reached, here
  <2>4. PICK cut1 : Cuts(cut1, ops, reached) /\ \A i \in 0..Len(o.ops) : cut1[i] = cut[i]
    BY <2>3
  <2> DEFINE all == ops \o <<o.copy>>
  <2>5. /\ all \in Seq(Instrs) /\ Len(all) = Len(ops) + 1
        /\ \A i \in 1..Len(ops) : all[i] = ops[i]
        /\ all[Len(ops) + 1] = o.copy
    BY <2>2, <2>3, OneMore
  <2> HIDE DEF all
  <2>6. PICK cut2 : Cuts(cut2, all, to) /\ \A i \in 0..Len(ops) : cut2[i] = cut1[i]
    BY <2>2, <2>3, <2>4, <2>5, CutsOne, SMTT(60)
  <2>7. \A i \in 1..Len(all) : Fits(all[i])
    BY <2>2, <2>3, <2>5
  <2>8. to \in Nat /\ to <= Len(src)
    <3>1. cut2 \in [0..Len(all) -> Nat] /\ cut2[Len(all)] = to /\ Len(all) \in 0..Len(all)
      BY <2>5, <2>6 DEF Cuts
    <3> QED
      BY <2>2, <3>1 DEF Carries
  <2>9. Good(cut2, [ops |-> all, pending |-> <<>>, copy |-> NoCopy], to)
    <3>1. /\ <<>> \in Seq(Byte) /\ Len(<<>>) < Chunk
          /\ Carries(Data(<<>>), to, to + Len(<<>>)) /\ to + Len(<<>>) = to
      BY <2>8, NothingWaits
    <3>2. Good(cut2, [ops |-> all, pending |-> <<>>, copy |-> NoCopy], to + Len(<<>>))
      BY <2>5, <2>6, <2>7, <3>1, Closed
    <3> QED
      BY <3>1, <3>2
  <2>10. EmitCopy(o).ops = all /\ EmitCopy(o).copy = NoCopy /\ Good(cut2, EmitCopy(o), to)
    BY <2>1, <2>9 DEF all
  <2>11. Keeps(o, EmitCopy(o))
    BY <2>2, <2>3, <2>5, <2>10, SMTT(60) DEF Keeps
  <2>12. \A i \in 0..Len(o.ops) : cut2[i] = cut[i]
    BY <2>2, <2>3, <2>4, <2>6
  <2> QED
    BY <2>10, <2>11, <2>12 DEF Reaches
<1> QED
  BY <1>1, <1>2

Updated(o, v, y) == [o EXCEPT !.ops = v, !.pending = y]

LEMMA OutsUpdated ==
  ASSUME NEW r \in Outs, NEW v, NEW y
  PROVE  Updated(r, v, y) = [ops |-> v, pending |-> y, copy |-> r.copy]
<1> DEFINE r1 == [r EXCEPT !.ops = v]
<1>1. r \in [ops : Seq(Instrs), pending : Seq(Byte), copy : Copies]
  BY DEF Outs
<1>2. r1 = [ops |-> v, pending |-> r.pending, copy |-> r.copy]
  BY <1>1
<1>3. Updated(r, v, y) = [r1 EXCEPT !.pending = y]
  BY Zenon DEF Updated
<1> HIDE DEF r1
<1>4. r1 \in [ops : {v}, pending : Seq(Byte), copy : Copies] /\ r1.ops = v /\ r1.copy = r.copy
  BY <1>1, <1>2
<1>5. [r1 EXCEPT !.pending = y] = [ops |-> r1.ops, pending |-> y, copy |-> r1.copy]
  BY <1>4
<1> QED
  BY <1>3, <1>4, <1>5

(* append: full frames leave, what is left waits *)
LEMMA AppendLiteralDoes ==
  ASSUME NEW cut, NEW o, NEW to, Good(cut, o, to), o.copy = NoCopy,
         NEW bytes \in Seq(Byte), NEW to2, Carries(Data(bytes), to, to2)
  PROVE  /\ AppendLiteral(o, bytes).copy = NoCopy
         /\ Reaches(cut, o, AppendLiteral(o, bytes), to2)
         /\ \A i \in Len(o.ops) + 1..Len(AppendLiteral(o, bytes).ops) : AppendLiteral(o, bytes).ops[i].op = "Data"
<1> DEFINE here == cut[Len(o.ops)]
           p == o.pending
           all == p \o bytes
           full == Len(all) \div Chunk
           new == [k \in 1..full |-> Data(Slice(all, (k - 1) * Chunk, k * Chunk))]
           rest == Slice(all, full * Chunk, Len(all))
           ops == o.ops
           more == ops \o new
<1>1. AppendLiteral(o, bytes) = [ops |-> more, pending |-> rest, copy |-> NoCopy]
  <2>1. o \in Outs
    BY DEF Good
  <2>2. AppendLiteral(o, bytes) = Updated(o, more, rest)
    BY DEF AppendLiteral, Updated
  <2> HIDE DEF more, rest
  <2> QED
    BY <2>1, <2>2, OutsUpdated
<1>2. /\ ops \in Seq(Instrs) /\ p \in Seq(Byte) /\ Len(ops) \in Nat /\ Chunk \in Nat \ {0}
      /\ \A i \in 1..Len(ops) : Fits(ops[i])
  BY Constants DEF Good, Outs, OutFits
<1>3. /\ Cuts(cut, ops, here) /\ here \in Nat
      /\ \A k \in 1..Len(p) : p[k] = src[here + k]
      /\ to = here + Len(p) /\ to \in Nat
  <2>1. Cuts(cut, ops, here) /\ Carries(Data(p), here, here + Len(p)) /\ Carries(NoCopy, here + Len(p), to)
    BY DEF Good, Spells
  <2>2. cut \in [0..Len(ops) -> Nat] /\ Len(ops) \in 0..Len(ops)
    BY <1>2, <2>1 DEF Cuts
  <2>3. here \in Nat
    BY <2>2
  <2>4. \A k \in 1..Len(p) : p[k] = src[here + k]
    BY <1>2, <2>1, DataProps DEF Carries
  <2>5. OpLen(NoCopy) = 0
    BY InstrProps DEF OpLen
  <2>6. to = here + Len(p) + 0
    BY <2>1, <2>5 DEF Carries
  <2>7. Len(p) \in Nat
    BY <1>2
  <2> HIDE DEF p, here
  <2>8. to = here + Len(p) /\ to \in Nat
    BY <2>3, <2>6, <2>7
  <2> QED
    BY <2>1, <2>3, <2>4, <2>8
<1>4. to2 = to + Len(bytes) /\ to2 <= Len(src) /\ \A k \in 1..Len(bytes) : bytes[k] = src[to + k]
  BY DataProps DEF Carries
<1> HIDE DEF p, ops, here
<1>5. all \in Seq(Byte) /\ Len(all) = Len(p) + Len(bytes) /\ Len(p) \in Nat /\ Len(bytes) \in Nat
  BY <1>2
<1>6. to2 = here + Len(all) /\ \A k \in 1..Len(all) : all[k] = src[here + k]
  <2>1. to2 = here + Len(all)
    BY <1>3, <1>4, <1>5
  <2>2. ASSUME NEW k \in 1..Len(all) PROVE all[k] = src[here + k]
    <3>1. all[k] = IF k <= Len(p) THEN p[k] ELSE bytes[k - Len(p)]
      BY <1>2, <1>5, <2>2, ConcatProperties
    <3>2. CASE k <= Len(p)
      BY <1>3, <1>5, <3>1, <3>2
    <3>3. CASE k > Len(p)
      <4>1. k - Len(p) \in 1..Len(bytes) /\ to + (k - Len(p)) = here + k
        BY <1>3, <1>5, <3>3
      <4>2. bytes[k - Len(p)] = src[here + k]
        BY <1>4, <4>1
      <4> QED
        BY <1>5, <3>1, <3>3, <4>2
    <3> QED
      BY <1>5, <3>2, <3>3
  <2> QED
    BY <2>1, <2>2
<1> HIDE DEF all
<1>7. /\ Len(all) \in Nat /\ full \in Nat /\ full * Chunk \in Nat
      /\ full * Chunk <= Len(all) /\ Len(all) < full * Chunk + Chunk
  <2>1. Len(all) \in Nat
    BY <1>5
  <2>2. full \in Nat /\ full * Chunk <= Len(all) /\ Len(all) < full * Chunk + Chunk
    BY <1>2, <2>1, DivBounds
  <2> QED
    BY <1>2, <2>1, <2>2, TimesMonotone
<1> HIDE DEF full
<1>8. ASSUME NEW k \in 1..full
      PROVE  /\ new[k] \in Instrs /\ Fits(new[k]) /\ new[k].op = "Data"
             /\ Carries(new[k], here + (k - 1) * Chunk, here + k * Chunk)
  <2> DEFINE from == (k - 1) * Chunk
             upto == k * Chunk
             piece == Slice(all, from, upto)
  <2>1. from \in Nat /\ upto \in Nat /\ upto = from + Chunk /\ upto <= full * Chunk
    <3>1. k - 1 \in Nat /\ k \in Nat /\ (k - 1) + 1 = k /\ k <= full
      BY <1>7
    <3>2. from \in Nat /\ upto = from + Chunk
      BY <1>2, <3>1, TimesMonotone
    <3>3. upto \in Nat /\ upto <= full * Chunk
      BY <1>2, <1>7, <3>1, TimesMonotone
    <3> QED
      BY <3>2, <3>3
  <2>2. new[k] = Data(piece)
    OBVIOUS
  <2> HIDE DEF new, from, upto
  <2>3. /\ piece \in Seq(Byte) /\ Len(piece) = Chunk
        /\ \A i \in 1..Chunk : piece[i] = all[from + i]
    <3>1. /\ from <= upto /\ upto <= Len(all) /\ upto - from = Chunk
          /\ all \in Seq(Byte) /\ from \in Nat /\ upto \in Nat
      BY <1>2, <1>5, <1>7, <2>1
    <3>2. /\ Slice(all, from, upto) \in Seq(Byte) /\ Len(Slice(all, from, upto)) = upto - from
          /\ \A i \in 1..upto - from : Slice(all, from, upto)[i] = all[from + i]
      BY ONLY <3>1, SliceProps
    <3> QED
      BY <3>1, <3>2
  <2> HIDE DEF piece
  <2>4. new[k] \in Instrs /\ new[k].op = "Data" /\ new[k].bytes = piece /\ OpLen(new[k]) = Chunk
    BY <2>2, <2>3, DataProps
  <2>5. Fits(new[k])
    BY <1>2, <2>3, <2>4 DEF Fits
  <2>6. here + upto = here + from + Chunk /\ here + upto <= Len(src)
    BY <1>2, <1>3, <1>4, <1>6, <1>7, <2>1, SMTT(60)
  <2>7. ASSUME NEW i \in 1..Chunk PROVE OpByte(new[k], i) = src[here + from + i]
    <3>1. OpByte(new[k], i) = all[from + i]
      BY <2>2, <2>3, DataProps
    <3>2. from + i \in 1..Len(all) /\ here + from + i = here + (from + i)
      BY <1>2, <1>3, <1>7, <2>1
    <3> QED
      BY <1>6, <3>1, <3>2
  <2>8. Carries(new[k], here + from, here + upto)
    BY <2>4, <2>6, <2>7 DEF Carries
  <2> QED
    BY <2>4, <2>5, <2>8 DEF from, upto
<1>9. new \in Seq(Instrs) /\ Len(new) = full
  <2>1. new \in [1..full -> Instrs]
    BY <1>8
  <2> HIDE DEF new
  <2> QED
    BY <1>7, <2>1
<1> HIDE DEF new
<1>10. /\ more \in Seq(Instrs) /\ Len(more) = Len(ops) + full
       /\ \A i \in 1..Len(ops) : more[i] = ops[i]
       /\ \A i \in 1..full : more[Len(ops) + i] = new[i]
  <2>1. ops \in Seq(Instrs) /\ new \in Seq(Instrs) /\ Len(new) = full /\ full \in Nat
    BY <1>2, <1>7, <1>9
  <2>2. /\ ops \o new \in Seq(Instrs) /\ Len(ops \o new) = Len(ops) + Len(new)
        /\ \A i \in 1..Len(ops) : (ops \o new)[i] = ops[i]
        /\ \A i \in 1..Len(new) : (ops \o new)[Len(ops) + i] = new[i]
    <3>1. ops \in Seq(Instrs) /\ new \in Seq(Instrs)
      BY <2>1
    <3> QED
      BY ONLY <3>1
  <2> QED
    BY <2>1, <2>2
<1> HIDE DEF more
<1>11. PICK cut2 : Cuts(cut2, more, here + full * Chunk) /\ \A i \in 0..Len(ops) : cut2[i] = cut[i]
  <2>1. FullFrames(new, here)
    BY <1>8, <1>9 DEF FullFrames
  <2>2. Joined(more, ops, new)
    BY <1>9, <1>10 DEF Joined
  <2>3. Cuts(cut, ops, here) /\ ops \in Seq(Instrs)
    BY <1>2, <1>3
  <2>4. \E cut2 : Cuts(cut2, more, here + Len(new) * Chunk) /\ \A i \in 0..Len(ops) : cut2[i] = cut[i]
    BY ONLY <2>1, <2>2, <2>3, CutsMany
  <2> QED
    BY <1>9, <2>4
<1>12. ASSUME NEW i \in 1..Len(more)
       PROVE  Fits(more[i]) /\ (i > Len(ops) => more[i].op = "Data")
  <2>1. CASE i <= Len(ops)
    BY <1>2, <1>10, <2>1
  <2>2. CASE i > Len(ops)
    <3>1. i - Len(ops) \in 1..full /\ i = Len(ops) + (i - Len(ops))
      BY <1>2, <1>7, <1>10, <2>2
    <3>2. more[i] = new[i - Len(ops)]
      BY <1>10, <3>1
    <3> QED
      BY <1>8, <3>1, <3>2
  <2> QED
    BY <1>2, <1>10, <2>1, <2>2
<1>13. /\ rest \in Seq(Byte) /\ Len(rest) = Len(all) - full * Chunk
       /\ \A i \in 1..Len(rest) : rest[i] = all[full * Chunk + i]
  <2> DEFINE from == full * Chunk
             n == Len(all)
  <2>1. all \in Seq(Byte) /\ from \in Nat /\ n \in Nat /\ from <= n /\ n <= Len(all)
    BY <1>5, <1>7
  <2>2. rest = Slice(all, from, n)
    OBVIOUS
  <2> HIDE DEF from, n, rest
  <2>3. /\ Slice(all, from, n) \in Seq(Byte) /\ Len(Slice(all, from, n)) = n - from
        /\ \A i \in 1..n - from : Slice(all, from, n)[i] = all[from + i]
    BY ONLY <2>1, SliceProps
  <2>4. /\ rest \in Seq(Byte) /\ Len(rest) = n - from
        /\ \A i \in 1..Len(rest) : rest[i] = all[from + i]
    BY <2>2, <2>3
  <2> QED
    BY <2>4 DEF from, n
<1> HIDE DEF rest
<1> DEFINE at == here + full * Chunk
<1>14. at \in Nat /\ at + Len(rest) = to2 /\ Len(rest) \in Nat /\ Len(rest) < Chunk
  BY <1>2, <1>3, <1>6, <1>7, <1>13, SMTT(60)
<1>15. Carries(Data(rest), at, at + Len(rest))
  <2>1. ASSUME NEW i \in 1..Len(rest) PROVE rest[i] = src[at + i]
    <3>1. full * Chunk + i \in 1..Len(all) /\ here + (full * Chunk + i) = at + i
      BY <1>3, <1>7, <1>13
    <3> QED
      BY <1>6, <1>13, <3>1
  <2> HIDE DEF at
  <2>2. OpLen(Data(rest)) = Len(rest) /\ \A k : OpByte(Data(rest), k) = rest[k]
    BY <1>13, DataProps
  <2> QED
    BY <1>4, <1>14, <2>1, <2>2 DEF Carries
<1>16. Cuts(cut2, more, at)
  BY <1>11
<1> HIDE DEF at
<1>17. Good(cut2, [ops |-> more, pending |-> rest, copy |-> NoCopy], at + Len(rest))
  BY <1>10, <1>12, <1>13, <1>14, <1>15, <1>16, Closed
<1>18. /\ AppendLiteral(o, bytes).ops = more /\ AppendLiteral(o, bytes).copy = NoCopy
       /\ Good(cut2, AppendLiteral(o, bytes), to2)
  BY <1>1, <1>14, <1>17
<1>19. Keeps(o, AppendLiteral(o, bytes))
  BY <1>2, <1>7, <1>10, <1>18 DEF Keeps, ops
<1> QED
  BY <1>11, <1>12, <1>18, <1>19 DEF Reaches, ops

LEMMA ReachesTwice ==
  ASSUME NEW cut, NEW o, NEW to, Good(cut, o, to),
         NEW o2, NEW to2, Reaches(cut, o, o2, to2),
         NEW o3, NEW to3, \A cut2 : Good(cut2, o2, to2) => Reaches(cut2, o2, o3, to3)
  PROVE  Reaches(cut, o, o3, to3)
<1>1. Len(o.ops) \in Nat
  BY DEF Good, Outs
<1>2. PICK cut2 : Good(cut2, o2, to2) /\ \A i \in 0..Len(o.ops) : cut2[i] = cut[i]
  BY DEF Reaches
<1>3. Keeps(o, o2) /\ Keeps(o2, o3)
  BY <1>2 DEF Reaches
<1>4. PICK cut3 : Good(cut3, o3, to3) /\ \A i \in 0..Len(o2.ops) : cut3[i] = cut2[i]
  BY <1>2 DEF Reaches
<1>5. Len(o2.ops) \in Nat /\ Len(o3.ops) \in Nat
  BY <1>2, <1>4 DEF Good, Outs
<1>6. Keeps(o, o3)
  BY <1>1, <1>3, <1>5 DEF Keeps
<1>7. \A i \in 0..Len(o.ops) : cut3[i] = cut[i]
  BY <1>1, <1>2, <1>3, <1>4, <1>5 DEF Keeps
<1> QED
  BY <1>4, <1>6, <1>7 DEF Reaches

(* flush_literal: the open copy, then the literals *)
LEMMA FlushLiteralDoes ==
  ASSUME NEW cut, NEW o, NEW to, Good(cut, o, to),
         NEW bytes \in Seq(Byte), NEW to2, Carries(Data(bytes), to, to2)
  PROVE  FlushLiteral(o, bytes).copy = NoCopy /\ Reaches(cut, o, FlushLiteral(o, bytes), to2)
<1> DEFINE o2 == EmitCopy(o)
           o3 == AppendLiteral(o2, bytes)
<1>1. o2.copy = NoCopy /\ Reaches(cut, o, o2, to)
  BY EmitCopyDoes
<1>2. FlushLiteral(o, bytes) = o3
  BY DEF FlushLiteral
<1> HIDE DEF o2
<1>3. ASSUME NEW cut2, Good(cut2, o2, to) PROVE o3.copy = NoCopy /\ Reaches(cut2, o2, o3, to2)
  BY <1>1, <1>3, AppendLiteralDoes
<1>4. \E cut2 : Good(cut2, o2, to)
  BY <1>1 DEF Reaches
<1> HIDE DEF o3
<1> QED
  BY <1>1, <1>2, <1>3, <1>4, ReachesTwice

(* a copy is opened where none is *)
LEMMA Opens ==
  ASSUME NEW cut, NEW o, NEW to, Good(cut, o, to), o.copy = NoCopy,
         NEW c \in Copies, Fits(c), NEW to2, Carries(c, to, to2)
  PROVE  Good(cut, [o EXCEPT !.copy = c], to2)
<1> DEFINE o2 == [o EXCEPT !.copy = c]
<1>1. o2 \in Outs /\ o2.ops = o.ops /\ o2.pending = o.pending /\ o2.copy = c
  BY DEF Good, Outs
<1> HIDE DEF o2
<1>2. OutFits(o2)
  BY <1>1 DEF Good, OutFits
<1>3. Spells(cut, o2, to2)
  <2> DEFINE at == cut[Len(o.ops)] + Len(o.pending)
  <2>1. Carries(NoCopy, at, to)
    BY DEF Good, Spells
  <2>2. at \in Nat
    <3>1. o.ops \in Seq(Instrs) /\ o.pending \in Seq(Byte) /\ cut \in [0..Len(o.ops) -> Nat]
      BY DEF Good, Outs, Spells, Cuts
    <3>2. Len(o.ops) \in 0..Len(o.ops) /\ Len(o.pending) \in Nat
      BY <3>1
    <3> QED
      BY <3>1, <3>2
  <2>3. to = at
    <3>1. OpLen(NoCopy) = 0
      BY InstrProps DEF OpLen
    <3> HIDE DEF at
    <3> QED
      BY <2>1, <2>2, <3>1 DEF Carries
  <2> QED
    BY <1>1, <2>3 DEF Good, Spells
<1> QED
  BY <1>1, <1>2, <1>3 DEF Good, o2

(* the open copy grows *)
LEMMA Grows ==
  ASSUME NEW cut, NEW o, NEW to, Good(cut, o, to),
         NEW n \in Nat, NEW c, c = Copy(o.copy.start, o.copy.len + n), Fits(c),
         to + n <= Len(src), \A k \in 1..n : base[o.copy.start + o.copy.len + k] = src[to + k]
  PROVE  Good(cut, [o EXCEPT !.copy = c], to + n)
<1> DEFINE o2 == [o EXCEPT !.copy = c]
           l == o.copy.len
           s == o.copy.start
           at == cut[Len(o.ops)] + Len(o.pending)
<1>1. o.copy \in Copies /\ s \in Nat /\ l \in Nat /\ o.copy = Copy(s, l)
  BY InstrProps DEF Good, Outs
<1>2. c \in Copies /\ OpLen(c) = l + n /\ \A k : OpByte(c, k) = base[s + k]
  <2> HIDE DEF s, l
  <2>1. l + n \in Nat /\ c = Copy(s, l + n)
    BY <1>1 DEF s, l
  <2> QED
    BY <1>1, <2>1, CopyProps
<1>3. o2 \in Outs /\ o2.ops = o.ops /\ o2.pending = o.pending /\ o2.copy = c
  BY <1>2 DEF Good, Outs
<1> HIDE DEF o2
<1>4. OutFits(o2)
  BY <1>3 DEF Good, OutFits
<1>5. Carries(o.copy, at, to) /\ at \in Nat
  <2>1. o.ops \in Seq(Instrs) /\ o.pending \in Seq(Byte) /\ cut \in [0..Len(o.ops) -> Nat]
    BY DEF Good, Outs, Spells, Cuts
  <2>2. Len(o.ops) \in 0..Len(o.ops) /\ Len(o.pending) \in Nat
    BY <2>1
  <2>3. Carries(o.copy, at, to)
    BY DEF Good, Spells
  <2> QED
    BY <2>1, <2>2, <2>3
<1> HIDE DEF at
<1>6. /\ to = at + l /\ \A k \in 1..l : base[s + k] = src[at + k]
  <2>1. OpLen(o.copy) = l /\ \A k : OpByte(o.copy, k) = base[s + k]
    <3> HIDE DEF s, l
    <3> QED
      BY <1>1, CopyProps
  <2> HIDE DEF l, s
  <2> QED
    BY <1>5, <2>1 DEF Carries
<1>7. Carries(c, at, to + n)
  <2> HIDE DEF l, s
  <2>1. ASSUME NEW k \in 1..l + n PROVE base[s + k] = src[at + k]
    <3>1. CASE k <= l
      BY <1>1, <1>6, <3>1
    <3>2. CASE k > l
      <4>1. k - l \in 1..n /\ s + l + (k - l) = s + k /\ to + (k - l) = at + k
        BY <1>1, <1>5, <1>6, <3>2
      <4>2. base[s + l + (k - l)] = src[to + (k - l)]
        BY <4>1 DEF s, l
      <4> QED
        BY <4>1, <4>2
    <3> QED
      BY <1>1, <3>1, <3>2
  <2>2. to + n = at + (l + n)
    BY <1>1, <1>5, <1>6
  <2> QED
    BY <1>2, <2>1, <2>2 DEF Carries
<1>8. Spells(cut, o2, to + n)
  BY <1>3, <1>7 DEF Good, Spells, at
<1> QED
  BY <1>3, <1>4, <1>8 DEF Good, o2

----------------------------------------------------------------------------
(* The inductive invariant.  The buffer is a piece of the source that ends   *)
(* where reading has got to, and the indices stay inside it.                 *)
Constant ==
  /\ base \in Seq(Byte) /\ src \in Seq(Byte) /\ bs \in Nat \ {0}

BufInv ==
  /\ pc \in {"scan", "done", "failed"} /\ eof \in BOOLEAN
  /\ buf \in Seq(Byte) /\ Len(buf) <= ReadChunk + bs
  /\ rd \in Nat /\ rd <= Len(src) /\ Len(buf) <= rd
  /\ \A k \in 1..Len(buf) : buf[k] = src[rd - Len(buf) + k]
  /\ lit \in Nat /\ pos \in Nat /\ lit <= pos /\ pos <= Len(buf)
  /\ eof => rd = Len(src)

(* how far the instructions, the batch and the open copy reach *)
Start == rd - Len(buf)
End == IF pc = "done" THEN Len(src) ELSE Start + lit

(* what the receiver wrote is the source up to a cut, as long as nobody      *)
(* touches the base file                                                     *)
WrittenTo(cut) ==
  dest = base /\ wpc # "published" =>
    /\ written \in Seq(Byte) /\ Len(written) = cut[applied]
    /\ \A k \in 1..Len(written) : written[k] = src[k]

StreamInv ==
  \E cut, o, to : /\ o = out /\ to = End /\ Good(cut, o, to) /\ WrittenTo(cut)

DoneInv == pc = "done" => eof /\ out.pending = <<>> /\ out.copy = NoCopy

ReceiverInv ==
  /\ wpc \in {"writing", "published", "refused"}
  /\ applied \in 0..Len(out.ops)
  /\ RefusedOnlyOnChange

DeltaInv == Constant /\ BufInv /\ StreamInv /\ DoneInv /\ ReceiverInv

LEMMA BufferFacts ==
  ASSUME Constant, BufInv
  PROVE  /\ Start \in Nat /\ Start + Len(buf) = rd /\ Len(buf) \in Nat /\ Len(src) \in Nat
         /\ rd \in Nat /\ pos \in Nat /\ lit \in Nat /\ lit <= pos /\ pos <= Len(buf)
BY DEF Constant, BufInv, Start

(* a piece of the buffer is a piece of the source *)
LEMMA PieceOfSource ==
  ASSUME Constant, BufInv, NEW from \in Nat, NEW upto \in Nat, from <= upto, upto <= Len(buf)
  PROVE  /\ Slice(buf, from, upto) \in Seq(Byte) /\ Len(Slice(buf, from, upto)) = upto - from
         /\ \A k \in 1..upto - from : Slice(buf, from, upto)[k] = src[Start + from + k]
         /\ Carries(Data(Slice(buf, from, upto)), Start + from, Start + upto)
<1> DEFINE s == Slice(buf, from, upto)
<1>1. Start \in Nat /\ Start + Len(buf) = rd /\ Len(buf) \in Nat /\ rd <= Len(src)
  BY BufferFacts DEF BufInv
<1>2. buf \in Seq(Byte) /\ \A k \in 1..Len(buf) : buf[k] = src[Start + k]
  BY DEF BufInv, Start
<1>3. s \in Seq(Byte) /\ Len(s) = upto - from /\ \A k \in 1..upto - from : s[k] = buf[from + k]
  BY <1>2, SliceProps, ZenonT(60)
<1> HIDE DEF s
<1>4. ASSUME NEW k \in 1..upto - from PROVE s[k] = src[Start + from + k]
  <2>1. from + k \in 1..Len(buf) /\ Start + (from + k) = Start + from + k
    BY <1>1
  <2> QED
    BY <1>2, <1>3, <2>1
<1>5. OpLen(Data(s)) = upto - from /\ \A k : OpByte(Data(s), k) = s[k]
  BY <1>3, DataProps
<1>6. Start + upto = Start + from + (upto - from) /\ Start + upto <= Len(src) /\ Len(src) \in Nat
  BY <1>1, BufferFacts
<1>7. Carries(Data(s), Start + from, Start + upto)
  BY <1>4, <1>5, <1>6 DEF Carries
<1> QED
  BY <1>3, <1>4, <1>7 DEF s

LEMMA SelfReach ==
  ASSUME NEW cut, NEW o, NEW to, Good(cut, o, to)
  PROVE  Reaches(cut, o, o, to)
<1>1. Len(o.ops) \in Nat
  BY DEF Good, Outs
<1> QED
  BY <1>1 DEF Reaches, Keeps

(* the literals from lit on *)
LEMMA FlushedDoes ==
  ASSUME Constant, BufInv, NEW cut, NEW to, to = Start + lit, Good(cut, out, to),
         NEW upto \in Nat, lit <= upto, upto <= Len(buf)
  PROVE  /\ Reaches(cut, out, Flushed(upto), Start + upto)
         /\ lit < upto => Flushed(upto).copy = NoCopy
<1>1. lit \in Nat
  BY BufferFacts
<1>2. CASE lit < upto
  <2> DEFINE s == Slice(buf, lit, upto)
             here == Start + upto
  <2>1. s \in Seq(Byte) /\ Carries(Data(s), to, here)
    BY <1>1, PieceOfSource
  <2>2. Flushed(upto) = FlushLiteral(out, s)
    BY <1>2 DEF Flushed
  <2> HIDE DEF s, here
  <2>3. FlushLiteral(out, s).copy = NoCopy /\ Reaches(cut, out, FlushLiteral(out, s), here)
    BY <2>1, FlushLiteralDoes
  <2> QED
    BY <2>2, <2>3 DEF here
<1>3. CASE ~(lit < upto)
  <2>1. upto = lit /\ Flushed(upto) = out
    BY <1>1, <1>3 DEF Flushed
  <2> QED
    BY <1>3, <2>1, SelfReach
<1> QED
  BY <1>2, <1>3

(* a matching block of the base holds the bytes of the window *)
LEMMA MatchIsWindow ==
  ASSUME Constant, BufInv, Matches # {}
  PROVE  /\ Match \in Matches /\ Match \in Nat
         /\ pos + bs <= Len(buf) /\ Match * bs \in Nat /\ Match * bs + bs <= BlockCount * bs
         /\ BlockCount * bs <= Len(base)
         /\ \A k \in 1..bs : base[Match * bs + k] = src[Start + pos + k]
<1>1. /\ bs \in Nat \ {0} /\ base \in Seq(Byte) /\ Len(base) \in Nat
      /\ Start \in Nat /\ Start + Len(buf) = rd /\ Len(buf) \in Nat /\ pos \in Nat
  BY BufferFacts DEF Constant
<1>2. BlockCount \in Nat /\ BlockCount * bs <= Len(base)
  BY <1>1, DivBounds DEF BlockCount
<1>3. WindowFits /\ \A i \in Matches : i \in 0..BlockCount - 1 /\ Block(i) = Window
  BY DEF Matches, StrongMatches, Candidates
<1>4. Match \in Matches
  <2>1. Matches \subseteq Nat
    BY <1>2, <1>3
  <2>2. Min(Matches) \in Matches
    BY <2>1, MinNat
  <2> QED
    BY <2>2 DEF Match
<1> DEFINE m == Match
           from == m * bs
           upto == (m + 1) * bs
<1>5. m \in Nat /\ m + 1 <= BlockCount /\ Block(m) = Window /\ m \in Matches
  BY <1>2, <1>3, <1>4
<1> HIDE DEF m
<1>6. from \in Nat /\ upto \in Nat /\ upto = from + bs /\ upto <= BlockCount * bs /\ BlockCount * bs \in Nat
  <2>1. m * bs \in Nat /\ (m + 1) * bs = m * bs + bs
    BY <1>1, <1>5, TimesMonotone
  <2>2. m + 1 \in Nat
    BY <1>5
  <2>3. (m + 1) * bs \in Nat /\ (m + 1) * bs <= BlockCount * bs /\ BlockCount * bs \in Nat
    BY <1>1, <1>2, <1>5, <2>2, TimesMonotone
  <2> QED
    BY <2>1, <2>3
<1>7. Block(m) = Slice(base, from, upto)
  BY DEF Block
<1> HIDE DEF from, upto
<1>8. \A k \in 1..bs : Block(m)[k] = base[from + k]
  <2>1. from <= upto /\ upto <= Len(base) /\ upto - from = bs
    BY <1>1, <1>2, <1>6
  <2>2. \A k \in 1..upto - from : Slice(base, from, upto)[k] = base[from + k]
    BY <1>1, <1>6, <2>1, SliceProps, SMTT(60)
  <2> QED
    BY <1>7, <2>1, <2>2
<1>9. \A k \in 1..bs : Window[k] = src[Start + pos + k]
  <2> DEFINE e == pos + bs
  <2>1. e \in Nat /\ pos <= e /\ e <= Len(buf) /\ e - pos = bs /\ pos \in Nat
    BY <1>1, <1>3 DEF WindowFits
  <2>2. Window = Slice(buf, pos, e)
    BY DEF Window
  <2> HIDE DEF e
  <2>3. \A k \in 1..e - pos : Slice(buf, pos, e)[k] = src[Start + pos + k]
    BY <2>1, PieceOfSource
  <2> QED
    BY <2>1, <2>2, <2>3
<1>10. /\ m \in Matches /\ m \in Nat /\ pos + bs <= Len(buf) /\ from \in Nat /\ from + bs <= BlockCount * bs
       /\ \A k \in 1..bs : base[from + k] = src[Start + pos + k]
  BY <1>3, <1>5, <1>6, <1>8, <1>9 DEF WindowFits
<1> QED
  BY <1>2, <1>10 DEF m, from

----------------------------------------------------------------------------
(* Steps. *)
LEMMA SameCarries ==
  ASSUME UNCHANGED inputs, NEW op, NEW a, NEW b, Carries(op, a, b)
  PROVE  Carries(op, a, b)'
BY DEF inputs, Carries, OpLen, OpByte

LEMMA SameFits ==
  ASSUME UNCHANGED inputs, NEW op, Fits(op)
  PROVE  Fits(op)'
BY DEF inputs, Fits, BlockCount

(* The inputs stay, so what was spelled stays spelled. *)
LEMMA SameGood ==
  ASSUME UNCHANGED inputs, NEW cut, NEW o, NEW to, Good(cut, o, to)
  PROVE  Good(cut, o, to)'
<1>1. /\ o \in Outs /\ Len(o.pending) < Chunk
      /\ \A i \in 1..Len(o.ops) : Fits(o.ops[i])
      /\ o.copy = NoCopy \/ Fits(o.copy)
  BY DEF Good, OutFits
<1> DEFINE here == cut[Len(o.ops)]
           at == here + Len(o.pending)
<1>2. /\ cut \in [0..Len(o.ops) -> Nat] /\ cut[0] = 0
      /\ \A i \in 1..Len(o.ops) : Carries(o.ops[i], cut[i - 1], cut[i])
      /\ Carries(Data(o.pending), here, at) /\ Carries(o.copy, at, to)
  BY DEF Good, Spells, Cuts
<1>3. \A op, a, b : Carries(op, a, b) => Carries(op, a, b)'
  BY SameCarries
<1>4. \A op : Fits(op) => Fits(op)'
  BY SameFits
<1>5. /\ \A i \in 1..Len(o.ops) : Fits(o.ops[i])'
      /\ o.copy = NoCopy \/ Fits(o.copy)'
  BY <1>1, <1>4
<1>6. /\ \A i \in 1..Len(o.ops) : Carries(o.ops[i], cut[i - 1], cut[i])'
      /\ Carries(Data(o.pending), here, at)' /\ Carries(o.copy, at, to)'
  BY <1>2, <1>3
<1>7. OutFits(o)'
  BY <1>1, <1>5 DEF OutFits
<1>8. Spells(cut, o, to)'
  BY <1>2, <1>6 DEF Spells, Cuts
<1> QED
  BY <1>1, <1>7, <1>8 DEF Good

(* what every step of the sender that goes on from o to o2 leaves *)
LEMMA SenderGoesOn ==
  ASSUME UNCHANGED inputs, UNCHANGED receiver, applied \in 0..Len(out.ops),
         NEW cut, NEW to, NEW o, o = out, Good(cut, o, to), WrittenTo(cut),
         NEW to2, to2 = End', NEW o2, o2 = out', Reaches(cut, o, o2, to2)
  PROVE  StreamInv' /\ applied' \in 0..Len(out'.ops)
<1>1. PICK cut2 : Good(cut2, o2, to2) /\ \A i \in 0..Len(o.ops) : cut2[i] = cut[i]
  BY DEF Reaches
<1>2. Good(cut2, o2, to2)'
  BY <1>1, SameGood
<1>3. cut2[applied] = cut[applied] /\ applied' = applied
  BY <1>1 DEF receiver
<1>4. WrittenTo(cut2)'
  BY <1>3 DEF WrittenTo, inputs, receiver
<1>5. applied' \in 0..Len(out'.ops)
  <2>1. Len(o.ops) <= Len(o2.ops) /\ Len(o.ops) \in Nat /\ Len(o2.ops) \in Nat
    BY <1>1 DEF Reaches, Keeps, Good, Outs
  <2> QED
    BY <1>3, <2>1
<1> QED
  BY <1>2, <1>4, <1>5 DEF StreamInv

LEMMA RefillStep ==
  ASSUME DeltaInv, Refill
  PROVE  BufInv' /\ StreamInv' /\ DoneInv' /\ applied' \in 0..Len(out'.ops)
         /\ Start' = Start + pos
<1> DEFINE kept == Len(buf) - pos
           room == ReadChunk + bs - kept
           old == Slice(buf, pos, Len(buf))
<1>1. PICK n \in IF rd = Len(src) THEN {0} ELSE 1..Min({room, Len(src) - rd}) :
        /\ buf' = Slice(buf, pos, Len(buf)) \o Slice(src, rd, rd + n)
        /\ rd' = rd + n /\ eof' = AtEof(n)
  BY DEF Refill
<1> DEFINE new == Slice(src, rd, rd + n)
<1>2. /\ pc = "scan" /\ pc' = pc /\ pos' = 0 /\ lit' = 0 /\ out' = Flushed(pos)
      /\ UNCHANGED inputs /\ UNCHANGED receiver /\ UNCHANGED <<base, bs, src>>
  BY DEF Refill, inputs
<1>3. /\ Start \in Nat /\ Start + Len(buf) = rd /\ Len(buf) \in Nat /\ Len(src) \in Nat
      /\ rd \in Nat /\ pos \in Nat /\ lit \in Nat /\ lit <= pos /\ pos <= Len(buf)
      /\ rd <= Len(src) /\ Len(buf) <= ReadChunk + bs
      /\ ReadChunk \in Nat /\ bs \in Nat /\ src \in Seq(Byte)
  BY BufferFacts, Constants DEF DeltaInv, BufInv, Constant
<1>4. n \in Nat /\ rd + n <= Len(src) /\ kept + n <= ReadChunk + bs /\ (n = 0 => rd = Len(src))
  <2>1. CASE rd = Len(src)
    <3>1. n = 0
      BY <2>1
    <3> QED
      BY <1>3, <2>1, <3>1
  <2>2. CASE rd # Len(src)
    <3> DEFINE left == Len(src) - rd
    <3>1. room \in Int /\ left \in Int
      BY <1>3
    <3>2. n \in 1..Min({room, left})
      BY <2>2
    <3> HIDE DEF room, left
    <3>3. Min({room, left}) \in Int /\ Min({room, left}) <= room /\ Min({room, left}) <= left
      BY <3>1, MinPair
    <3>4. n \in Nat /\ n >= 1 /\ n <= room /\ n <= left
      BY <3>1, <3>2, <3>3
    <3> QED
      BY <1>3, <3>4 DEF room, left
  <2> QED
    BY <2>1, <2>2
<1>5. /\ old \in Seq(Byte) /\ Len(old) = kept
      /\ \A k \in 1..kept : old[k] = src[Start + pos + k]
  <2> DEFINE m == Len(buf)
  <2>1. m \in Nat /\ pos \in Nat /\ pos <= m /\ m <= Len(buf)
    BY <1>3
  <2>2. Constant /\ BufInv
    BY DEF DeltaInv
  <2> HIDE DEF m
  <2>3. /\ Slice(buf, pos, m) \in Seq(Byte) /\ Len(Slice(buf, pos, m)) = m - pos
        /\ \A k \in 1..m - pos : Slice(buf, pos, m)[k] = src[Start + pos + k]
    BY <2>1, <2>2, PieceOfSource
  <2> QED
    BY <2>3 DEF m
<1>6. /\ new \in Seq(Byte) /\ Len(new) = n
      /\ \A k \in 1..n : new[k] = src[rd + k]
  <2> DEFINE e == rd + n
  <2>1. e \in Nat /\ rd \in Nat /\ rd <= e /\ e <= Len(src) /\ e - rd = n /\ src \in Seq(Byte)
    BY <1>3, <1>4
  <2> HIDE DEF e
  <2>2. /\ Slice(src, rd, e) \in Seq(Byte) /\ Len(Slice(src, rd, e)) = e - rd
        /\ \A k \in 1..e - rd : Slice(src, rd, e)[k] = src[rd + k]
    BY ONLY <2>1, SliceProps
  <2> QED
    BY <2>1, <2>2 DEF e
<1>7. buf' = old \o new /\ rd' = rd + n /\ eof' = (n = 0)
  BY <1>1 DEF AtEof
<1>8. kept \in Nat /\ Start + pos + kept = rd
  BY <1>3
<1> HIDE DEF old, new, kept
<1>9. /\ buf' \in Seq(Byte) /\ Len(buf') = kept + n
      /\ \A k \in 1..kept + n : buf'[k] = src[Start + pos + k]
  <2>1. buf' \in Seq(Byte) /\ Len(buf') = kept + n
    <3>1. old \in Seq(Byte) /\ new \in Seq(Byte)
      BY <1>5, <1>6
    <3>2. old \o new \in Seq(Byte) /\ Len(old \o new) = Len(old) + Len(new)
      BY ONLY <3>1
    <3> QED
      BY <1>5, <1>6, <1>7, <3>2
  <2>2. ASSUME NEW k \in 1..kept + n PROVE (old \o new)[k] = src[Start + pos + k]
    <3>1. (old \o new)[k] = IF k <= Len(old) THEN old[k] ELSE new[k - Len(old)]
      BY <1>4, <1>5, <1>6, <1>8, <2>2, ConcatProperties, ZenonT(60)
    <3>2. CASE k <= kept
      BY <1>5, <1>8, <3>1, <3>2
    <3>3. CASE k > kept
      <4>1. k - kept \in 1..n /\ rd + (k - kept) = Start + pos + k
        BY <1>3, <1>4, <1>8, <3>3
      <4>2. new[k - kept] = src[Start + pos + k]
        BY <1>6, <4>1
      <4> QED
        BY <1>5, <1>8, <3>1, <3>3, <4>2
    <3>4. k <= kept \/ k > kept
      BY <1>4, <1>8
    <3> QED
      BY <3>2, <3>3, <3>4, Zenon
  <2> QED
    BY <1>7, <2>1, <2>2
<1>10. rd' - Len(buf') = Start + pos /\ rd' \in Nat /\ rd' <= Len(src) /\ Len(buf') <= rd'
       /\ Len(buf') <= ReadChunk + bs
  BY <1>3, <1>4, <1>7, <1>8, <1>9
<1>11. BufInv'
  <2>1. \A k \in 1..Len(buf') : buf'[k] = src'[rd' - Len(buf') + k]
    BY <1>2, <1>9, <1>10
  <2>2. eof' => rd' = Len(src')
    <3>1. eof' => n = 0
      BY <1>7, Zenon
    <3> QED
      BY <1>2, <1>3, <1>4, <1>7, <3>1
  <2>3. pc' \in {"scan", "done", "failed"} /\ eof' \in BOOLEAN /\ Len(buf') \in Nat
    BY <1>2, <1>7, <1>9
  <2> QED
    BY <1>2, <1>3, <1>9, <1>10, <2>1, <2>2, <2>3 DEF BufInv
<1>12. StreamInv' /\ applied' \in 0..Len(out'.ops)
  <2>1. PICK cut, o, to : o = out /\ to = End /\ Good(cut, o, to) /\ WrittenTo(cut)
    BY DEF DeltaInv, StreamInv
  <2>2. to = Start + lit
    BY <1>2, <2>1 DEF End
  <2> DEFINE to2 == Start + pos
             o2 == Flushed(pos)
  <2>3. Reaches(cut, o, o2, to2)
    BY <1>3, <2>1, <2>2, FlushedDoes DEF DeltaInv
  <2>4. to2 = End'
    BY <1>2, <1>3, <1>10 DEF End, Start
  <2> HIDE DEF to2, o2
  <2>5. PICK o3, to3 : o3 = o2 /\ to3 = to2
    OBVIOUS
  <2>6. o3 = out' /\ to3 = End' /\ Reaches(cut, o, o3, to3) /\ applied \in 0..Len(out.ops)
    BY <1>2, <2>3, <2>4, <2>5 DEF DeltaInv, ReceiverInv, o2
  <2> QED
    BY <1>2, <2>1, <2>6, SenderGoesOn
<1>13. Start' = Start + pos
  BY <1>10 DEF Start
<1> QED
  BY <1>2, <1>11, <1>12, <1>13 DEF DoneInv

LEMMA TakeBlockStep ==
  ASSUME DeltaInv, TakeBlock
  PROVE  BufInv' /\ StreamInv' /\ DoneInv' /\ applied' \in 0..Len(out'.ops)
<1> DEFINE start == Match * bs
           c == out.copy
           next == Copy(start, bs)
           there == Start + pos
<1>1. /\ pc = "scan" /\ Matches # {} /\ pos' = pos + bs /\ lit' = pos + bs
      /\ UNCHANGED inputs /\ UNCHANGED receiver /\ UNCHANGED <<pc, buf, eof, rd>>
      /\ UNCHANGED <<base, bs, src>>
      /\ out' = IF lit = pos /\ c # NoCopy /\ c.start + c.len = start
                THEN [out EXCEPT !.copy.len = @ + bs]
                ELSE [(IF lit < pos THEN Flushed(pos) ELSE EmitCopy(out)) EXCEPT !.copy = next]
  BY DEF TakeBlock, inputs
<1>2. Constant /\ BufInv /\ applied \in 0..Len(out.ops)
  BY DEF DeltaInv, ReceiverInv
<1>3. /\ pos + bs <= Len(buf) /\ start \in Nat /\ start + bs <= BlockCount * bs
      /\ \A k \in 1..bs : base[start + k] = src[Start + pos + k]
  BY <1>1, <1>2, MatchIsWindow
<1>4. /\ Start \in Nat /\ Start + Len(buf) = rd /\ Len(buf) \in Nat /\ Len(src) \in Nat
      /\ rd \in Nat /\ pos \in Nat /\ lit \in Nat /\ lit <= pos /\ pos <= Len(buf) /\ rd <= Len(src)
      /\ bs \in Nat \ {0}
  BY <1>2, BufferFacts DEF BufInv, Constant
<1> HIDE DEF start
<1>5. there \in Nat /\ there + bs <= Len(src) /\ there + bs = End'
  BY <1>1, <1>3, <1>4, SMTT(60) DEF End, Start
<1>6. BufInv'
  <2>1. Len(buf') <= ReadChunk + bs' /\ pos' \in Nat /\ lit' \in Nat /\ lit' <= pos' /\ pos' <= Len(buf')
    BY <1>1, <1>2, <1>3, <1>4 DEF BufInv
  <2> QED
    BY <1>1, <1>2, <2>1 DEF BufInv
<1>7. PICK cut, o, to : o = out /\ to = End /\ Good(cut, o, to) /\ WrittenTo(cut)
  BY DEF DeltaInv, StreamInv
<1>8. to = Start + lit
  BY <1>1, <1>7 DEF End
<1> HIDE DEF there
<1>9. Reaches(cut, o, out', there + bs)
  <2>1. CASE lit = pos /\ c # NoCopy /\ c.start + c.len = start
    <3> DEFINE grown == Copy(c.start, c.len + bs)
               o2 == [o EXCEPT !.copy = grown]
    <3>1. o \in Outs /\ c \in Copies /\ c = Copy(c.start, c.len) /\ c.start \in Nat /\ c.len \in Nat
      BY <1>7, InstrProps DEF Good, Outs
    <3>2. out' = [out EXCEPT !.copy.len = @ + bs]
      BY <1>1, <2>1
    <3>3. [c EXCEPT !.len = @ + bs] = grown
      BY <3>1 DEF Copies, Copy
    <3>4. out' = o2
      BY <1>7, <3>2, <3>3
    <3>5. grown.start = c.start /\ grown.len = c.len + bs /\ grown.op = "Copy"
      BY DEF Copy
    <3>6. Fits(grown)
      <4> HIDE DEF grown
      <4>1. grown.len > 0 /\ grown.start + grown.len <= BlockCount * bs
        <5>1. grown.start + grown.len = start + bs /\ grown.len > 0
          BY <1>4, <2>1, <3>1, <3>5
        <5> QED
          BY <1>3, <5>1
      <4> QED
        BY <3>5, <4>1 DEF Fits
    <3>7. there = to
      BY <1>8, <2>1 DEF there
    <3>8. \A k \in 1..bs : base[o.copy.start + o.copy.len + k] = src[to + k]
      <4>1. start = o.copy.start + o.copy.len
        BY <1>7, <2>1
      <4> QED
        BY <1>3, <3>7, <4>1 DEF there
    <3>9. grown = Copy(o.copy.start, o.copy.len + bs) /\ bs \in Nat /\ to + bs <= Len(src)
      BY <1>4, <1>5, <1>7, <3>7
    <3> HIDE DEF grown
    <3>10. Good(cut, o2, to + bs)
      BY <1>7, <3>6, <3>8, <3>9, Grows
    <3>11. o2.ops = o.ops
      BY <3>1 DEF Outs
    <3>12. Len(o.ops) \in Nat
      BY <3>1 DEF Outs
    <3> HIDE DEF o2
    <3> QED
      BY <3>4, <3>7, <3>10, <3>11, <3>12 DEF Reaches, Keeps
  <2>2. CASE ~(lit = pos /\ c # NoCopy /\ c.start + c.len = start)
    <3> DEFINE o1 == IF lit < pos THEN Flushed(pos) ELSE EmitCopy(o)
               o2 == [o1 EXCEPT !.copy = next]
    <3>1. out' = o2
      BY <1>1, <1>7, <2>2
    <3>2. o1.copy = NoCopy /\ Reaches(cut, o, o1, there)
      <4>1. CASE lit < pos
        <5>1. Good(cut, out, to)
          BY <1>7
        <5>2. Reaches(cut, out, Flushed(pos), Start + pos) /\ Flushed(pos).copy = NoCopy
          BY <1>2, <1>4, <1>8, <4>1, <5>1, FlushedDoes
        <5>3. o1 = Flushed(pos)
          BY <4>1
        <5> QED
          BY <1>7, <5>2, <5>3 DEF there
      <4>2. CASE ~(lit < pos)
        <5>1. there = to
          BY <1>4, <1>8, <4>2 DEF there
        <5>2. o1 = EmitCopy(o)
          BY <4>2
        <5> HIDE DEF o1
        <5> QED
          BY <1>7, <5>1, <5>2, EmitCopyDoes
      <4> QED
        BY <4>1, <4>2
    <3> HIDE DEF o1
    <3>3. PICK cut2 : Good(cut2, o1, there) /\ \A i \in 0..Len(o.ops) : cut2[i] = cut[i]
      BY <3>2 DEF Reaches
    <3>4. /\ next \in Copies /\ OpLen(next) = bs /\ next.start = start /\ next.len = bs /\ next.op = "Copy"
          /\ \A k : OpByte(next, k) = base[start + k]
      BY <1>3, <1>4, CopyProps
    <3> HIDE DEF next
    <3>5. Fits(next)
      BY <1>3, <1>4, <3>4 DEF Fits
    <3>6. Carries(next, there, there + bs)
      BY <1>3, <1>5, <3>4 DEF Carries, there
    <3>7. Good(cut2, o2, there + bs)
      BY <3>2, <3>3, <3>4, <3>5, <3>6, Opens
    <3>8. o2.ops = o1.ops
      BY <3>3 DEF Good, Outs
    <3> HIDE DEF o2
    <3> QED
      BY <3>1, <3>2, <3>3, <3>7, <3>8 DEF Reaches, Keeps
  <2> QED
    BY <2>1, <2>2
<1>10. PICK o3, to3 : o3 = out' /\ to3 = there + bs
  OBVIOUS
<1>11. StreamInv' /\ applied' \in 0..Len(out'.ops)
  <2>1. Reaches(cut, o, o3, to3) /\ to3 = End'
    BY <1>5, <1>9, <1>10
  <2> QED
    BY <1>1, <1>2, <1>7, <1>10, <2>1, SenderGoesOn
<1> QED
  BY <1>1, <1>6, <1>11 DEF DoneInv

LEMMA SlideStep ==
  ASSUME DeltaInv, Slide
  PROVE  BufInv' /\ StreamInv' /\ DoneInv' /\ applied' \in 0..Len(out'.ops)
<1>1. /\ pc = "scan" /\ pos + 1 + bs <= Len(buf) /\ pos' = pos + 1
      /\ UNCHANGED inputs /\ UNCHANGED receiver /\ UNCHANGED <<pc, buf, lit, eof, rd, out>>
      /\ UNCHANGED <<base, bs, src>>
  BY DEF Slide, inputs
<1>2. Constant /\ BufInv /\ applied \in 0..Len(out.ops)
  BY DEF DeltaInv, ReceiverInv
<1>3. BufInv'
  BY <1>1, <1>2 DEF BufInv, Constant
<1>4. PICK cut, o, to : o = out /\ to = End /\ Good(cut, o, to) /\ WrittenTo(cut)
  BY DEF DeltaInv, StreamInv
<1>5. to = End' /\ o = out' /\ Reaches(cut, o, o, to)
  BY <1>1, <1>4, SelfReach DEF End, Start
<1>6. StreamInv' /\ applied' \in 0..Len(out'.ops)
  BY <1>1, <1>2, <1>4, <1>5, SenderGoesOn
<1> QED
  BY <1>1, <1>3, <1>6 DEF DoneInv

LEMMA ReadFailsStep ==
  ASSUME DeltaInv, ReadFails
  PROVE  BufInv' /\ StreamInv' /\ DoneInv' /\ applied' \in 0..Len(out'.ops)
<1>1. /\ pc = "scan" /\ pc' = "failed"
      /\ UNCHANGED inputs /\ UNCHANGED receiver /\ UNCHANGED <<buf, pos, lit, eof, rd, out>>
      /\ UNCHANGED <<base, bs, src>>
  BY DEF ReadFails, inputs
<1>2. Constant /\ BufInv /\ applied \in 0..Len(out.ops)
  BY DEF DeltaInv, ReceiverInv
<1>3. BufInv'
  BY <1>1, <1>2 DEF BufInv
<1>4. PICK cut, o, to : o = out /\ to = End /\ Good(cut, o, to) /\ WrittenTo(cut)
  BY DEF DeltaInv, StreamInv
<1>5. to = End' /\ o = out' /\ Reaches(cut, o, o, to)
  BY <1>1, <1>4, SelfReach DEF End, Start
<1>6. StreamInv' /\ applied' \in 0..Len(out'.ops)
  BY <1>1, <1>2, <1>4, <1>5, SenderGoesOn
<1> QED
  BY <1>1, <1>3, <1>6 DEF DoneInv

(* the last frame of a file *)
LastFrame(o) ==
  IF o.pending = <<>> THEN o
  ELSE Updated(o, Append(o.ops, Data(o.pending)), <<>>)

LEMMA LastFrameDoes ==
  ASSUME NEW cut, NEW o, NEW to, Good(cut, o, to), o.copy = NoCopy
  PROVE  /\ LastFrame(o).copy = NoCopy /\ LastFrame(o).pending = <<>>
         /\ Reaches(cut, o, LastFrame(o), to)
<1>1. o \in Outs /\ o.ops \in Seq(Instrs) /\ o.pending \in Seq(Byte) /\ Len(o.ops) \in Nat
  BY DEF Good, Outs
<1>2. CASE o.pending = <<>>
  BY <1>2, SelfReach DEF LastFrame
<1>3. CASE o.pending # <<>>
  <2> DEFINE ops == o.ops \o <<Data(o.pending)>>
             here == cut[Len(o.ops)]
             at == here + Len(o.pending)
             o2 == [ops |-> ops, pending |-> <<>>, copy |-> NoCopy]
  <2>1. Append(o.ops, Data(o.pending)) = ops
    <3>1. Data(o.pending) \in Instrs
      BY <1>1, DataProps
    <3> HIDE DEF Data
    <3> QED
      BY <1>1, <3>1
  <2>2. LastFrame(o) = o2
    <3>1. LastFrame(o) = Updated(o, ops, <<>>)
      BY <1>3, <2>1 DEF LastFrame
    <3> HIDE DEF ops
    <3> QED
      BY <1>1, <3>1, OutsUpdated
  <2>3. Leaves(cut, o, ops)
    BY <1>3, PendingLeaves
  <2>4. /\ at \in Nat /\ at = to /\ to <= Len(src)
    <3>1. Carries(NoCopy, at, to) /\ cut \in [0..Len(o.ops) -> Nat]
      BY DEF Good, Spells, Cuts
    <3>2. Len(o.ops) \in 0..Len(o.ops) /\ Len(o.pending) \in Nat
      BY <1>1
    <3>3. at \in Nat
      BY <3>1, <3>2
    <3>4. OpLen(NoCopy) = 0
      BY InstrProps DEF OpLen
    <3> HIDE DEF at
    <3> QED
      BY <3>1, <3>3, <3>4 DEF Carries
  <2> HIDE DEF ops, here
  <2>5. PICK cut2 : Cuts(cut2, ops, at) /\ \A i \in 0..Len(o.ops) : cut2[i] = cut[i]
    BY <2>3 DEF Leaves, here
  <2>6. /\ ops \in Seq(Instrs) /\ Len(ops) = Len(o.ops) + 1 /\ \A i \in 1..Len(ops) : Fits(ops[i])
        /\ \A i \in 1..Len(o.ops) : ops[i] = o.ops[i]
    BY <2>3 DEF Leaves
  <2> HIDE DEF at
  <2>7. /\ <<>> \in Seq(Byte) /\ Len(<<>>) < Chunk
        /\ Carries(Data(<<>>), at, at + Len(<<>>)) /\ at + Len(<<>>) = at
    BY <2>4, NothingWaits
  <2>8. Good(cut2, o2, at + Len(<<>>))
    BY <2>5, <2>6, <2>7, Closed
  <2>9. o2.ops = ops /\ o2.pending = <<>> /\ o2.copy = NoCopy
    OBVIOUS
  <2> HIDE DEF o2
  <2>10. Keeps(o, o2)
    BY <1>1, <2>6, <2>9 DEF Keeps
  <2>11. Good(cut2, o2, to)
    BY <2>4, <2>7, <2>8
  <2> QED
    BY <2>2, <2>5, <2>9, <2>10, <2>11 DEF Reaches
<1> QED
  BY <1>2, <1>3

LEMMA FinishStep ==
  ASSUME DeltaInv, Finish
  PROVE  BufInv' /\ StreamInv' /\ DoneInv' /\ applied' \in 0..Len(out'.ops)
<1> DEFINE n == Len(buf)
           o1 == Flushed(n)
           o2 == EmitCopy(o1)
           all == Start + n
<1>1. /\ pc = "scan" /\ pc' = "done" /\ eof
      /\ UNCHANGED inputs /\ UNCHANGED receiver /\ UNCHANGED <<buf, pos, lit, eof, rd>>
      /\ UNCHANGED <<base, bs, src>>
      /\ out' = LastFrame(o2)
  <2>1. out' = IF o2.pending = <<>> THEN o2
               ELSE [o2 EXCEPT !.ops = Append(@, Data(o2.pending)), !.pending = <<>>]
    BY DEF Finish
  <2> HIDE DEF o2
  <2>2. out' = LastFrame(o2)
    BY <2>1 DEF LastFrame, Updated
  <2> QED
    BY <2>2 DEF Finish, inputs
<1>2. Constant /\ BufInv /\ applied \in 0..Len(out.ops)
  BY DEF DeltaInv, ReceiverInv
<1>3. BufInv'
  BY <1>1, <1>2 DEF BufInv
<1>4. PICK cut, o, to : o = out /\ to = End /\ Good(cut, o, to) /\ WrittenTo(cut)
  BY DEF DeltaInv, StreamInv
<1>5. /\ n \in Nat /\ lit <= n /\ all = Len(src) /\ to = Start + lit
  BY <1>1, <1>2, <1>4, BufferFacts DEF End, BufInv
<1>6. Reaches(cut, o, o1, all)
  <2>1. n \in Nat /\ lit <= n /\ n <= Len(buf) /\ Good(cut, out, to)
    BY <1>4, <1>5
  <2> HIDE DEF n
  <2> QED
    BY <1>2, <1>4, <1>5, <2>1, FlushedDoes
<1> HIDE DEF o1, all
<1>7. Reaches(cut, o, o2, all) /\ o2.copy = NoCopy
  <2>1. ASSUME NEW cut1, Good(cut1, o1, all)
        PROVE  EmitCopy(o1).copy = NoCopy /\ Reaches(cut1, o1, EmitCopy(o1), all)
    BY <2>1, EmitCopyDoes
  <2>2. \E cut1 : Good(cut1, o1, all)
    BY <1>6 DEF Reaches
  <2> QED
    BY <1>4, <1>6, <2>1, <2>2, ReachesTwice
<1> HIDE DEF o2
<1> DEFINE o3 == LastFrame(o2)
<1>8. Reaches(cut, o, o3, all) /\ o3.copy = NoCopy /\ o3.pending = <<>>
  <2>1. ASSUME NEW cut2, Good(cut2, o2, all)
        PROVE  /\ LastFrame(o2).copy = NoCopy /\ LastFrame(o2).pending = <<>>
               /\ Reaches(cut2, o2, LastFrame(o2), all)
    BY <1>7, <2>1, LastFrameDoes
  <2>2. \E cut2 : Good(cut2, o2, all)
    BY <1>7 DEF Reaches
  <2> QED
    BY <1>4, <1>7, <2>1, <2>2, ReachesTwice
<1>9. DoneInv'
  BY <1>1, <1>8 DEF DoneInv
<1>10. all = End'
  BY <1>1, <1>5 DEF End
<1> HIDE DEF o3
<1>11. PICK o4, to4 : o4 = o3 /\ to4 = all
  OBVIOUS
<1>12. StreamInv' /\ applied' \in 0..Len(out'.ops)
  <2>1. Reaches(cut, o, o4, to4) /\ to4 = End' /\ o4 = out'
    BY <1>1, <1>8, <1>10, <1>11 DEF o3
  <2> QED
    BY <1>1, <1>2, <1>4, <2>1, SenderGoesOn
<1> QED
  BY <1>3, <1>9, <1>12

(* what an instruction adds when the base is as signed *)
LEMMA InstrBytes ==
  ASSUME Constant, NEW op \in Instrs, Fits(op), NEW a \in Nat, NEW b, Carries(op, a, b)
  PROVE  /\ Bytes(op, base) \in Seq(Byte) /\ Len(Bytes(op, base)) = OpLen(op)
         /\ b = a + OpLen(op) /\ b \in Nat /\ b <= Len(src)
         /\ \A k \in 1..OpLen(op) : Bytes(op, base)[k] = src[a + k]
         /\ op.op # "Data" => op.start + op.len <= Len(base)
<1>1. b = a + OpLen(op) /\ b <= Len(src) /\ OpLen(op) \in Nat
      /\ \A k \in 1..OpLen(op) : OpByte(op, k) = src[a + k]
  BY InstrProps DEF Carries
<1>2. CASE op.op = "Data"
  <2>1. Bytes(op, base) = op.bytes /\ OpLen(op) = Len(op.bytes) /\ op.bytes \in Seq(Byte)
        /\ \A k : OpByte(op, k) = op.bytes[k]
    BY <1>2 DEF Bytes, OpLen, OpByte, Instrs, Copies
  <2> QED
    BY <1>1, <1>2, <2>1
<1>3. CASE op.op # "Data"
  <2> DEFINE s == op.start
             e == op.start + op.len
  <2>1. s \in Nat /\ op.len \in Nat /\ OpLen(op) = op.len /\ Bytes(op, base) = Slice(base, s, e)
        /\ \A k : OpByte(op, k) = base[s + k]
    BY <1>3 DEF Bytes, OpLen, OpByte, Instrs, Copies
  <2>2. e <= BlockCount * bs
    BY <1>3 DEF Fits
  <2>3. BlockCount * bs <= Len(base) /\ BlockCount * bs \in Nat /\ Len(base) \in Nat
    <3>1. Len(base) \in Nat /\ bs \in Nat \ {0}
      BY DEF Constant
    <3>2. BlockCount \in Nat /\ BlockCount * bs <= Len(base)
      BY <3>1, DivBounds DEF BlockCount
    <3> QED
      BY <3>1, <3>2, TimesMonotone
  <2>4. /\ e \in Nat /\ s \in Nat /\ s <= e /\ e <= Len(base) /\ e - s = op.len /\ base \in Seq(Byte)
    BY <2>1, <2>2, <2>3 DEF Constant
  <2>5. e = s + op.len
    OBVIOUS
  <2> HIDE DEF s, e
  <2>6. /\ Slice(base, s, e) \in Seq(Byte) /\ Len(Slice(base, s, e)) = e - s
        /\ \A k \in 1..e - s : Slice(base, s, e)[k] = base[s + k]
    BY ONLY <2>4, SliceProps
  <2>7. op.start + op.len <= Len(base)
    BY <2>4 DEF e
  <2> QED
    <3>1. Bytes(op, base) \in Seq(Byte) /\ Len(Bytes(op, base)) = OpLen(op)
      BY <2>1, <2>4, <2>6
    <3>2. ASSUME NEW k \in 1..OpLen(op) PROVE Bytes(op, base)[k] = src[a + k]
      <4>1. Slice(base, s, e)[k] = base[s + k]
        BY <2>1, <2>4, <2>6
      <4>2. OpByte(op, k) = src[a + k]
        BY <1>1
      <4> QED
        BY <2>1, <4>1, <4>2
    <3> QED
      BY <1>1, <2>7, <3>1, <3>2
<1> QED
  BY <1>2, <1>3

(* As long as the base is as signed, the next instruction can be carried out *)
(* and adds the source's next bytes.                                         *)
LEMMA NextInstr ==
  ASSUME Constant, NEW cut, Good(cut, out, End), WrittenTo(cut),
         dest = base, wpc = "writing", applied \in 0..Len(out.ops), applied < Len(out.ops)
  PROVE  /\ applied + 1 \in 0..Len(out.ops)
         /\ written \o Bytes(Instr, dest) \in Seq(Byte)
         /\ Len(written \o Bytes(Instr, dest)) = cut[applied + 1]
         /\ Len(written) + Len(Bytes(Instr, dest)) = cut[applied + 1]
         /\ cut[applied + 1] <= Len(src)
         /\ \A k \in 1..cut[applied + 1] : (written \o Bytes(Instr, dest))[k] = src[k]
         /\ Instr.op = "Copy" => Instr.start + Instr.len <= Len(dest)
<1> DEFINE n == applied + 1
           op == out.ops[n]
           a == cut[applied]
           b == cut[n]
           new == Bytes(op, base)
<1>1. out.ops \in Seq(Instrs) /\ Len(out.ops) \in Nat /\ n \in 1..Len(out.ops) /\ n - 1 = applied
  BY DEF Good, Outs
<1>2. /\ cut \in [0..Len(out.ops) -> Nat]
      /\ Fits(op)
      /\ Carries(out.ops[n], cut[n - 1], cut[n])
  BY <1>1 DEF Good, OutFits, Spells, Cuts
<1>3. Carries(op, a, b) /\ op \in Instrs /\ a \in Nat /\ b \in Nat
  BY <1>1, <1>2
<1>4. written \in Seq(Byte) /\ Len(written) = a /\ \A k \in 1..a : written[k] = src[k]
  BY DEF WrittenTo
<1>5. Instr = op /\ Bytes(Instr, dest) = new
  BY DEF Instr
<1> HIDE DEF op, a, b, new
<1>6. /\ new \in Seq(Byte) /\ Len(new) = OpLen(op)
      /\ b = a + OpLen(op) /\ b \in Nat /\ b <= Len(src)
      /\ \A k \in 1..OpLen(op) : new[k] = src[a + k]
      /\ op.op # "Data" => op.start + op.len <= Len(base)
  BY <1>2, <1>3, InstrBytes DEF new
<1>7. written \o new \in Seq(Byte) /\ Len(written \o new) = Len(written) + Len(new)
  <2>1. written \in Seq(Byte) /\ new \in Seq(Byte)
    BY <1>4, <1>6
  <2> QED
    BY ONLY <2>1
<1>8. ASSUME NEW k \in 1..b PROVE (written \o new)[k] = src[k]
  <2>1. Len(new) \in Nat /\ b = a + Len(new)
    BY <1>6
  <2>2. (written \o new)[k] = IF k <= Len(written) THEN written[k] ELSE new[k - Len(written)]
    BY <1>3, <1>4, <1>6, <1>8, <2>1, ConcatProperties, SMTT(60)
  <2>3. CASE k <= a
    BY <1>4, <2>2, <2>3
  <2>4. CASE k > a
    <3>1. k - a \in 1..OpLen(op) /\ a + (k - a) = k
      BY <1>3, <1>6, <2>1, <2>4
    <3>2. new[k - a] = src[k]
      BY <1>6, <3>1
    <3> QED
      BY <1>3, <1>4, <2>2, <2>4, <3>2
  <2>5. k <= a \/ k > a
    BY <1>3
  <2> QED
    BY <2>3, <2>4, <2>5, Zenon
<1>9. Len(written) + Len(new) = b
  BY <1>4, <1>6
<1>10. op.op = "Copy" => op.start + op.len <= Len(dest)
  BY <1>6
<1> HIDE DEF n
<1>11. /\ n \in 0..Len(out.ops) /\ written \o new \in Seq(Byte) /\ Len(written \o new) = b
       /\ Len(written) + Len(new) = b /\ b <= Len(src) /\ \A k \in 1..b : (written \o new)[k] = src[k]
       /\ op.op = "Copy" => op.start + op.len <= Len(dest)
  BY <1>1, <1>6, <1>7, <1>8, <1>9, <1>10
<1> QED
  BY <1>5, <1>11 DEF n, b

(* The receiver's steps leave the sender alone. *)
LEMMA SenderWaits ==
  ASSUME DeltaInv, UNCHANGED inputs, UNCHANGED sender
  PROVE  BufInv' /\ DoneInv' /\ End' = End /\ out' = out
BY DEF DeltaInv, BufInv, DoneInv, End, Start, inputs, sender

LEMMA ApplyStep ==
  ASSUME DeltaInv, Apply
  PROVE  BufInv' /\ StreamInv' /\ DoneInv' /\ ReceiverInv'
<1>1. /\ wpc = "writing" /\ applied < Len(out.ops) /\ written' = written \o Bytes(Instr, dest)
      /\ applied' = applied + 1 /\ wpc' = wpc /\ dest' = dest
      /\ UNCHANGED inputs /\ UNCHANGED sender /\ base' = base /\ src' = src
  BY DEF Apply, inputs
<1>2. BufInv' /\ DoneInv' /\ End' = End /\ out' = out
  BY <1>1, SenderWaits
<1>3. PICK cut, o, to : o = out /\ to = End /\ Good(cut, o, to) /\ WrittenTo(cut)
  BY DEF DeltaInv, StreamInv
<1>4. Constant /\ applied \in 0..Len(out.ops) /\ Good(cut, out, End) /\ Len(out.ops) \in Nat
  BY <1>3 DEF DeltaInv, ReceiverInv, Good, Outs
<1>5. WrittenTo(cut)'
  <2>1. CASE dest = base
    <3>1. written' \in Seq(Byte) /\ Len(written') = cut[applied']
          /\ \A k \in 1..Len(written') : written'[k] = src[k]
      BY <1>1, <1>3, <1>4, <2>1, NextInstr
    <3> QED
      BY <1>1, <3>1 DEF WrittenTo
  <2>2. CASE dest # base
    BY <1>1, <2>2 DEF WrittenTo
  <2> QED
    BY <2>1, <2>2
<1>6. Good(cut, o, to)'
  BY <1>1, <1>3, SameGood
<1>7. StreamInv'
  BY <1>2, <1>3, <1>5, <1>6 DEF StreamInv
<1>8. ReceiverInv'
  BY <1>1, <1>2, <1>4 DEF DeltaInv, ReceiverInv, RefusedOnlyOnChange
<1> QED
  BY <1>2, <1>7, <1>8

LEMMA AbortStep ==
  ASSUME DeltaInv, Abort
  PROVE  BufInv' /\ StreamInv' /\ DoneInv' /\ ReceiverInv'
<1>1. /\ wpc = "writing" /\ wpc' = "refused"
      /\ UNCHANGED <<applied, written, dest>> /\ applied' = applied
      /\ UNCHANGED inputs /\ UNCHANGED sender /\ base' = base /\ src' = src /\ promised' = promised /\ pc' = pc
      /\ \/ applied < Len(out.ops) /\ ~CanApply
         \/ applied = Len(out.ops) /\ pc = "failed"
  BY DEF Abort, inputs, sender
<1>2. BufInv' /\ DoneInv' /\ End' = End /\ out' = out
  BY <1>1, SenderWaits
<1>3. PICK cut, o, to : o = out /\ to = End /\ Good(cut, o, to) /\ WrittenTo(cut)
  BY DEF DeltaInv, StreamInv
<1>4. Constant /\ applied \in 0..Len(out.ops) /\ Good(cut, out, End)
  BY <1>3 DEF DeltaInv, ReceiverInv
<1>5. WrittenTo(cut)' /\ Good(cut, o, to)'
  BY <1>1, <1>3, SameGood DEF WrittenTo
<1>6. StreamInv'
  BY <1>2, <1>3, <1>5 DEF StreamInv
<1>7. promised # src \/ dest # base \/ pc = "failed"
  <2>1. CASE applied < Len(out.ops) /\ ~CanApply
    <3> SUFFICES ASSUME promised = src, dest = base PROVE CanApply
      BY <2>1
    <3> QED
      BY <1>1, <1>3, <1>4, <2>1, NextInstr DEF CanApply
  <2> QED
    BY <1>1, <2>1
<1>8. ReceiverInv'
  BY <1>1, <1>2, <1>4, <1>7 DEF ReceiverInv, RefusedOnlyOnChange
<1> QED
  BY <1>2, <1>6, <1>8

(* At FileEnd, after a scan that went to the end, what was written is the    *)
(* whole source.                                                             *)
LEMMA AllWritten ==
  ASSUME DeltaInv, pc = "done", applied = Len(out.ops), dest = base, wpc = "writing"
  PROVE  written = src
<1>1. PICK cut, o, to : o = out /\ to = End /\ Good(cut, o, to) /\ WrittenTo(cut)
  BY DEF DeltaInv, StreamInv
<1> DEFINE here == cut[Len(o.ops)]
<1>2. to = Len(src) /\ o.pending = <<>> /\ o.copy = NoCopy /\ src \in Seq(Byte)
  BY <1>1 DEF End, DeltaInv, DoneInv, Constant
<1>3. here \in Nat /\ Carries(NoCopy, here + Len(o.pending), to)
  <2>1. cut \in [0..Len(o.ops) -> Nat] /\ o.ops \in Seq(Instrs)
    BY <1>1 DEF Good, Outs, Spells, Cuts
  <2>2. Len(o.ops) \in 0..Len(o.ops)
    BY <2>1
  <2>3. Carries(o.copy, here + Len(o.pending), to)
    BY <1>1 DEF Good, Spells
  <2> QED
    BY <1>2, <2>1, <2>2, <2>3
<1>4. written \in Seq(Byte) /\ Len(written) = here /\ \A k \in 1..Len(written) : written[k] = src[k]
  BY <1>1 DEF WrittenTo
<1> HIDE DEF here
<1>5. here = Len(src)
  <2>1. OpLen(NoCopy) = 0 /\ Len(o.pending) = 0
    BY <1>2, InstrProps DEF OpLen
  <2> QED
    BY <1>2, <1>3, <2>1 DEF Carries
<1> QED
  BY <1>2, <1>4, <1>5, SeqEqual

LEMMA FinishFileStep ==
  ASSUME DeltaInv, FinishFile
  PROVE  BufInv' /\ StreamInv' /\ DoneInv' /\ ReceiverInv'
<1>1. /\ wpc = "writing" /\ pc = "done" /\ applied = Len(out.ops)
      /\ applied' = applied /\ written' = written
      /\ UNCHANGED inputs /\ UNCHANGED sender /\ base' = base /\ src' = src /\ promised' = promised
      /\ IF written = promised THEN wpc' = "published" /\ dest' = written
                               ELSE wpc' = "refused" /\ dest' = dest
  BY DEF FinishFile, inputs
<1>2. BufInv' /\ DoneInv' /\ End' = End /\ out' = out
  BY <1>1, SenderWaits
<1>3. PICK cut, o, to : o = out /\ to = End /\ Good(cut, o, to) /\ WrittenTo(cut)
  BY DEF DeltaInv, StreamInv
<1>4. WrittenTo(cut)' /\ Good(cut, o, to)'
  BY <1>1, <1>3, SameGood DEF WrittenTo
<1>5. StreamInv'
  BY <1>2, <1>3, <1>4 DEF StreamInv
<1>6. wpc' = "refused" => promised # src \/ dest' # base
  BY <1>1, AllWritten
<1>7. ReceiverInv'
  BY <1>1, <1>2, <1>6 DEF DeltaInv, ReceiverInv, RefusedOnlyOnChange
<1> QED
  BY <1>2, <1>5, <1>7

LEMMA BaseChangesStep ==
  ASSUME DeltaInv, BaseChanges
  PROVE  BufInv' /\ StreamInv' /\ DoneInv' /\ ReceiverInv'
<1>1. /\ wpc = "writing" /\ wpc' = wpc /\ dest' # base
      /\ applied' = applied
      /\ UNCHANGED inputs /\ UNCHANGED sender /\ base' = base
  BY DEF BaseChanges, inputs
<1>2. BufInv' /\ DoneInv' /\ End' = End /\ out' = out
  BY <1>1, SenderWaits
<1>3. PICK cut, o, to : o = out /\ to = End /\ Good(cut, o, to) /\ WrittenTo(cut)
  BY DEF DeltaInv, StreamInv
<1>4. WrittenTo(cut)' /\ Good(cut, o, to)'
  BY <1>1, <1>3, SameGood DEF WrittenTo
<1>5. StreamInv'
  BY <1>2, <1>3, <1>4 DEF StreamInv
<1>6. ReceiverInv'
  BY <1>1, <1>2 DEF DeltaInv, ReceiverInv, RefusedOnlyOnChange
<1> QED
  BY <1>2, <1>5, <1>6

----------------------------------------------------------------------------
LEMMA DeltaInit ==
  ASSUME Init
  PROVE  DeltaInv
<1>1. Constant
  <2>1. MaxBase \in Nat /\ MaxSource \in Nat
    BY DeltaConstants
  <2>2. base \in Seq(Byte) /\ src \in Seq(Byte)
    BY <2>1, FilesAreSeqs DEF Init
  <2>3. Len(base) \in Nat
    BY <2>2
  <2>4. bs \in Nat \ {0}
    BY <2>3, Constants DEF Init
  <2> QED
    BY <2>2, <2>4 DEF Constant
<1>2. /\ pc = "scan" /\ buf = <<>> /\ pos = 0 /\ lit = 0 /\ eof = FALSE /\ rd = 0
      /\ wpc = "writing" /\ applied = 0 /\ written = <<>>
      /\ out = [ops |-> <<>>, pending |-> <<>>, copy |-> NoCopy]
  BY DEF Init
<1>3. BufInv
  <2>1. buf \in Seq(Byte) /\ Len(buf) = 0 /\ Len(src) \in Nat /\ ReadChunk + bs \in Nat
    BY <1>1, <1>2, Constants DEF Constant
  <2>2. \A k \in 1..Len(buf) : buf[k] = src[rd - Len(buf) + k]
    BY <2>1
  <2>3. lit \in Nat /\ pos \in Nat /\ rd \in Nat /\ lit <= pos /\ pos <= Len(buf) /\ Len(buf) <= rd
    BY <1>2, <2>1
  <2>4. rd <= Len(src) /\ Len(buf) <= ReadChunk + bs
    BY <1>1, <1>2, <2>1, Constants DEF Constant
  <2> QED
    BY <1>2, <2>1, <2>2, <2>3, <2>4 DEF BufInv
<1>4. StreamInv
  <2> DEFINE cut == [i \in 0..0 |-> 0]
             e == <<>>
  <2>1. e \in Seq(Instrs) /\ Len(e) = 0 /\ e \in Seq(Byte)
    OBVIOUS
  <2>2. Cuts(cut, e, 0)
    BY <2>1 DEF Cuts
  <2>3. cut[0] = 0
    OBVIOUS
  <2>4. 0 <= Len(src)
    BY <1>1 DEF Constant
  <2>5. /\ <<>> \in Seq(Byte) /\ Len(<<>>) < Chunk
        /\ Carries(Data(<<>>), 0, 0 + Len(<<>>)) /\ 0 + Len(<<>>) = 0
    BY <2>4, NothingWaits
  <2>6. \A i \in 1..Len(e) : Fits(e[i])
    BY <2>1
  <2>7. e = <<>>
    OBVIOUS
  <2> HIDE DEF cut, e
  <2>8. Len(e) < Chunk /\ Carries(Data(e), 0, 0 + Len(e)) /\ 0 + Len(e) = 0
    BY <2>5, <2>7
  <2>9. Good(cut, [ops |-> e, pending |-> e, copy |-> NoCopy], 0 + Len(e))
    BY <2>1, <2>2, <2>6, <2>8, Closed
  <2>10. Good(cut, out, 0)
    BY <1>2, <2>9, <2>7, <2>8
  <2>11. End = 0
    <3>1. Len(buf) = 0 /\ rd = 0 /\ lit = 0 /\ pc = "scan"
      BY <1>2
    <3> QED
      BY <3>1 DEF End, Start
  <2>12. WrittenTo(cut)
    BY <1>2, <2>1, <2>3 DEF WrittenTo
  <2> QED
    BY <2>10, <2>11, <2>12 DEF StreamInv
<1>5. DoneInv /\ ReceiverInv
  BY <1>2 DEF DoneInv, ReceiverInv, RefusedOnlyOnChange
<1> QED
  BY <1>1, <1>3, <1>4, <1>5 DEF DeltaInv

(* The sender's steps leave the receiver alone. *)
LEMMA ReceiverWaits ==
  ASSUME DeltaInv, UNCHANGED inputs, UNCHANGED receiver,
         pc' = pc \/ pc # "failed", applied' \in 0..Len(out'.ops)
  PROVE  ReceiverInv'
BY DEF DeltaInv, ReceiverInv, RefusedOnlyOnChange, inputs, receiver

LEMMA DeltaNext ==
  ASSUME DeltaInv, [Next]_vars
  PROVE  DeltaInv'
<1>1. Constant'
  <2>1. UNCHANGED inputs
    BY DEF Next, SenderStep, ReceiverStep, Refill, TakeBlock, Slide, Finish, ReadFails, Apply, Abort,
           FinishFile, BaseChanges, Done, vars
  <2> QED
    BY <2>1 DEF DeltaInv, Constant, inputs
<1>2. CASE Refill
  BY <1>1, <1>2, RefillStep, ReceiverWaits DEF DeltaInv, Refill
<1>3. CASE TakeBlock
  BY <1>1, <1>3, TakeBlockStep, ReceiverWaits DEF DeltaInv, TakeBlock
<1>4. CASE Slide
  BY <1>1, <1>4, SlideStep, ReceiverWaits DEF DeltaInv, Slide
<1>5. CASE Finish
  <2>1. UNCHANGED inputs /\ UNCHANGED receiver /\ pc # "failed"
    BY <1>5 DEF Finish
  <2> QED
    BY <1>1, <1>5, <2>1, FinishStep, ReceiverWaits DEF DeltaInv
<1>6. CASE ReadFails
  <2>1. UNCHANGED inputs /\ UNCHANGED receiver /\ pc # "failed"
    BY <1>6 DEF ReadFails
  <2> QED
    BY <1>1, <1>6, <2>1, ReadFailsStep, ReceiverWaits DEF DeltaInv
<1>7. CASE Apply
  BY <1>1, <1>7, ApplyStep DEF DeltaInv
<1>8. CASE Abort
  BY <1>1, <1>8, AbortStep DEF DeltaInv
<1>9. CASE FinishFile
  BY <1>1, <1>9, FinishFileStep DEF DeltaInv
<1>10. CASE BaseChanges
  BY <1>1, <1>10, BaseChangesStep DEF DeltaInv
<1>11. CASE UNCHANGED vars
  <2>1. UNCHANGED inputs /\ UNCHANGED sender /\ UNCHANGED receiver /\ src' = src /\ base' = base
    BY <1>11 DEF vars, inputs
  <2>2. BufInv' /\ DoneInv' /\ End' = End /\ out' = out
    BY <2>1, SenderWaits
  <2>3. PICK cut, o, to : o = out /\ to = End /\ Good(cut, o, to) /\ WrittenTo(cut)
    BY DEF DeltaInv, StreamInv
  <2>4. Good(cut, o, to)' /\ WrittenTo(cut)'
    BY <2>1, <2>3, SameGood DEF WrittenTo, receiver
  <2>5. StreamInv'
    BY <2>2, <2>3, <2>4 DEF StreamInv
  <2>6. ReceiverInv'
    BY <2>1 DEF DeltaInv, ReceiverInv, RefusedOnlyOnChange, inputs, sender, receiver
  <2> QED
    BY <1>1, <2>2, <2>5, <2>6 DEF DeltaInv
<1> QED
  BY <1>2, <1>3, <1>4, <1>5, <1>6, <1>7, <1>8, <1>9, <1>10, <1>11 DEF Next, SenderStep, ReceiverStep, Done

(* produce_delta and FileWriter: at every moment there are places that cut   *)
(* the source into the pieces the instructions sent carry, then the literals *)
(* batched, then the open copy, up to the first byte not yet scanned, and    *)
(* the receiver has written the source up to the cut of what it applied.     *)
THEOREM DeltaInvariant == Spec => []DeltaInv
BY DeltaInit, DeltaNext, PTL DEF Spec

(* The buffer of produce_delta never outgrows READ_CHUNK and one block, its  *)
(* indices stay inside it and the batch stays below a frame.                 *)
THEOREM DeltaTypes == Spec => []TypeOK
<1>1. DeltaInv => TypeOK
  <2> SUFFICES ASSUME DeltaInv PROVE TypeOK
    OBVIOUS
  <2>1. Len(out.pending) < Chunk
    BY DEF DeltaInv, StreamInv, Good, OutFits
  <2>2. rd \in 0..Len(src) /\ 0 <= lit /\ lit <= pos
    BY BufferFacts DEF DeltaInv, BufInv
  <2> QED
    BY <2>1, <2>2 DEF DeltaInv, BufInv, ReceiverInv, TypeOK
<1> QED
  BY <1>1, DeltaInvariant, PTL

(* Every Copy and Data of produce_delta is one FileWriter accepts: a copy    *)
(* stays inside the signed blocks, a literal fits a frame and is not empty.  *)
THEOREM DeltaFramesFit == Spec => []FramesFit
<1>1. DeltaInv => FramesFit
  <2> SUFFICES ASSUME DeltaInv PROVE FramesFit
    OBVIOUS
  <2>1. out.ops \in Seq(Instrs) /\ \A i \in 1..Len(out.ops) : Fits(out.ops[i])
    BY DEF DeltaInv, StreamInv, Good, Outs, OutFits
  <2>2. DOMAIN out.ops = 1..Len(out.ops)
    BY <2>1
  <2> QED
    BY <2>1, <2>2 DEF FramesFit, Fits
<1> QED
  BY <1>1, DeltaInvariant, PTL

(* FileWriter refuses a delta only if the source is not what the manifest    *)
(* announced, the base is not what was signed, or a read of the source       *)
(* failed: the hash check of finish never fires on an undisturbed transfer.  *)
THEOREM DeltaRefused == Spec => []RefusedOnlyOnChange
<1>1. DeltaInv => RefusedOnlyOnChange
  BY DEF DeltaInv, ReceiverInv
<1> QED
  BY <1>1, DeltaInvariant, PTL

----------------------------------------------------------------------------
(* Rolling::roll.  Sliding a window of n numbers by one changes their sum    *)
(* and their weighted sum as roll computes it.                               *)
Weighted(w, n) == [i \in 1..n |-> (n - i + 1) * w[i]]

Slid(v, w, n) ==
  /\ n \in Nat \ {0} /\ v \in [1..n -> Int] /\ w \in [1..n -> Int]
  /\ \A k \in 1..n - 1 : w[k] = v[k + 1]

LEMMA SlidSums ==
  ASSUME NEW n, NEW v, NEW w, Slid(v, w, n), NEW g, Sums(g, v, n), NEW h, Sums(h, w, n)
  PROVE  /\ \A k \in 0..n - 1 : h[k] = g[k + 1] - v[1]
         /\ h[n] = g[n] - v[1] + w[n]
<1> USE DEF Slid
<1> DEFINE S == {k \in Nat : k <= n - 1 => h[k] = g[k + 1] - v[1]}
<1>1. /\ g \in [0..n -> Int] /\ g[0] = 0 /\ \A k \in 1..n : g[k] = g[k - 1] + v[k]
      /\ h \in [0..n -> Int] /\ h[0] = 0 /\ \A k \in 1..n : h[k] = h[k - 1] + w[k]
  BY DEF Sums
<1>2. 0 \in S
  <2>1. 1 \in 1..n /\ 1 - 1 = 0 /\ v[1] \in Int /\ 0 + 1 = 1
    OBVIOUS
  <2>2. g[1] = v[1]
    BY <1>1, <2>1
  <2> QED
    BY <1>1, <2>1, <2>2
<1>3. ASSUME NEW k \in Nat, k \in S PROVE k + 1 \in S
  <2> SUFFICES ASSUME k + 1 <= n - 1 PROVE h[k + 1] = g[(k + 1) + 1] - v[1]
    OBVIOUS
  <2>1. /\ k + 1 \in 1..n /\ (k + 1) - 1 = k /\ k + 1 \in 1..n - 1
        /\ (k + 1) + 1 \in 1..n /\ ((k + 1) + 1) - 1 = k + 1 /\ k <= n - 1
        /\ k \in 0..n /\ k + 1 \in 0..n /\ (k + 1) + 1 \in 0..n /\ 1 \in 1..n
    OBVIOUS
  <2>2. h[k] = g[k + 1] - v[1]
    BY <1>3, <2>1
  <2>3. h[k + 1] = h[k] + v[(k + 1) + 1]
    BY <1>1, <2>1
  <2>4. g[(k + 1) + 1] = g[k + 1] + v[(k + 1) + 1]
    BY <1>1, <2>1
  <2>5. /\ h[k] \in Int /\ h[k + 1] \in Int /\ g[k + 1] \in Int /\ g[(k + 1) + 1] \in Int
        /\ v[1] \in Int /\ v[(k + 1) + 1] \in Int
    BY <1>1, <2>1
  <2> DEFINE a == h[k]
             b == h[k + 1]
             c == g[k + 1]
             d == g[(k + 1) + 1]
             y == v[(k + 1) + 1]
             x == v[1]
  <2>6. /\ a \in Int /\ b \in Int /\ c \in Int /\ d \in Int /\ y \in Int /\ x \in Int
        /\ a = c - x /\ b = a + y /\ d = c + y
    BY <2>2, <2>3, <2>4, <2>5
  <2> HIDE DEF a, b, c, d, x, y
  <2>7. b = d - x
    BY ONLY <2>6
  <2> QED
    BY <2>7 DEF b, d, x
<1>4. Nat \subseteq S
  <2> HIDE DEF S
  <2> QED
    BY <1>2, <1>3, Induction
<1>5. \A k \in 0..n - 1 : h[k] = g[k + 1] - v[1]
  BY <1>4
<1>6. h[n] = g[n] - v[1] + w[n]
  <2>1. n - 1 \in 0..n - 1 /\ (n - 1) + 1 = n /\ n \in 1..n
    OBVIOUS
  <2>2. h[n - 1] = g[n] - v[1] /\ h[n] = h[n - 1] + w[n]
    BY <1>1, <1>5, <2>1
  <2> QED
    BY <2>2
<1> QED
  BY <1>5, <1>6

LEMMA TimesOneMore ==
  ASSUME NEW a \in Int, NEW x \in Int
  PROVE  a * x \in Int /\ (a + 1) * x = a * x + x
OBVIOUS

LEMMA SlidWeighted ==
  ASSUME NEW n, NEW v, NEW w, Slid(v, w, n), NEW g, Sums(g, v, n), NEW h, Sums(h, w, n),
         NEW gw, Sums(gw, Weighted(v, n), n), NEW hw, Sums(hw, Weighted(w, n), n)
  PROVE  hw[n] = gw[n] - n * v[1] + h[n]
<1> USE DEF Slid
<1> DEFINE S == {k \in Nat : k <= n - 1 => hw[k] = gw[k + 1] - n * v[1] + h[k]}
<1>1. /\ h \in [0..n -> Int] /\ h[0] = 0 /\ \A k \in 1..n : h[k] = h[k - 1] + w[k]
      /\ gw \in [0..n -> Int] /\ gw[0] = 0 /\ \A k \in 1..n : gw[k] = gw[k - 1] + (n - k + 1) * v[k]
      /\ hw \in [0..n -> Int] /\ hw[0] = 0 /\ \A k \in 1..n : hw[k] = hw[k - 1] + (n - k + 1) * w[k]
  BY DEF Sums, Weighted
<1>2. n * v[1] \in Int /\ v[1] \in Int
  <2>1. 1 \in 1..n
    OBVIOUS
  <2>2. v[1] \in Int
    BY <2>1
  <2> QED
    BY <2>2, TimesOneMore
<1>3. 0 \in S
  <2>1. 1 \in 1..n /\ 1 - 1 = 0 /\ 0 + 1 = 1 /\ n - 1 + 1 = n
    OBVIOUS
  <2>2. gw[1] = n * v[1]
    <3>1. gw[1] = gw[1 - 1] + (n - 1 + 1) * v[1]
      BY <1>1, <2>1
    <3>2. gw[1] = 0 + n * v[1]
      BY <1>1, <2>1, <3>1
    <3> QED
      BY <1>2, <3>2
  <2> DEFINE x == n * v[1]
  <2> HIDE DEF x
  <2>3. hw[0] = gw[0 + 1] - x + h[0]
    BY <1>1, <1>2, <2>1, <2>2 DEF x
  <2> QED
    BY <2>3 DEF x
<1>4. ASSUME NEW k \in Nat, k \in S PROVE k + 1 \in S
  <2> DEFINE j == k + 1
             x == n * v[1]
             y == v[j + 1]
             c == n - j
  <2> SUFFICES ASSUME j <= n - 1 PROVE hw[j] = gw[j + 1] - x + h[j]
    OBVIOUS
  <2>1. /\ j \in 1..n /\ j - 1 = k /\ j \in 1..n - 1
        /\ j + 1 \in 1..n /\ (j + 1) - 1 = j /\ k <= n - 1
        /\ k \in 0..n /\ j \in 0..n /\ j + 1 \in 0..n
        /\ n - (j + 1) + 1 = c /\ n - j + 1 = c + 1 /\ c \in Int
    OBVIOUS
  <2>2. hw[k] = gw[j] - x + h[k]
    BY <1>4, <2>1
  <2>3. w[j] = y /\ y \in Int
    BY <2>1
  <2>4. hw[j] = hw[k] + (c + 1) * y
    <3>1. hw[j] = hw[j - 1] + (n - j + 1) * w[j]
      BY <1>1, <2>1
    <3> HIDE DEF j, c, y
    <3> QED
      BY <2>1, <2>3, <3>1
  <2>5. gw[j + 1] = gw[j] + c * y
    <3>1. gw[j + 1] = gw[(j + 1) - 1] + (n - (j + 1) + 1) * v[j + 1]
      BY <1>1, <2>1
    <3>2. y = v[j + 1]
      OBVIOUS
    <3> HIDE DEF j, c, y
    <3> QED
      BY <2>1, <3>1, <3>2
  <2>6. h[j] = h[k] + y
    BY <1>1, <2>1, <2>3
  <2>7. /\ hw[k] \in Int /\ hw[j] \in Int /\ gw[j] \in Int /\ gw[j + 1] \in Int
        /\ h[k] \in Int /\ h[j] \in Int /\ x \in Int
    BY <1>1, <1>2, <2>1
  <2>8. c * y \in Int /\ (c + 1) * y = c * y + y
    BY <2>1, <2>3, TimesOneMore
  <2> HIDE DEF c, j, x, y
  <2> DEFINE z == c * y
             z2 == (c + 1) * y
  <2>9. z \in Int /\ z2 = z + y /\ hw[j] = hw[k] + z2 /\ gw[j + 1] = gw[j] + z
    BY <2>4, <2>5, <2>8
  <2> DEFINE a1 == hw[k]
             a2 == hw[j]
             b1 == gw[j]
             b2 == gw[j + 1]
             c1 == h[k]
             c2 == h[j]
  <2>10. /\ a1 \in Int /\ a2 \in Int /\ b1 \in Int /\ b2 \in Int /\ c1 \in Int /\ c2 \in Int
         /\ x \in Int /\ y \in Int /\ z \in Int /\ z2 = z + y
         /\ a1 = b1 - x + c1 /\ a2 = a1 + z2 /\ b2 = b1 + z /\ c2 = c1 + y
    BY <2>2, <2>3, <2>6, <2>7, <2>9
  <2> HIDE DEF a1, a2, b1, b2, c1, c2, z, z2
  <2>11. a2 = b2 - x + c2
    BY ONLY <2>10
  <2> QED
    BY <2>11 DEF a2, b2, c2
<1>5. Nat \subseteq S
  <2> HIDE DEF S
  <2> QED
    BY <1>3, <1>4, Induction
<1>6. hw[n] = hw[n - 1] + w[n] /\ h[n] = h[n - 1] + w[n]
  <2>1. n \in 1..n /\ n - n + 1 = 1 /\ w[n] \in Int
    OBVIOUS
  <2>2. hw[n] = hw[n - 1] + (n - n + 1) * w[n] /\ h[n] = h[n - 1] + w[n]
    BY <1>1, <2>1
  <2>3. (n - n + 1) * w[n] = w[n]
    BY <2>1
  <2> QED
    BY <2>2, <2>3
<1>7. hw[n - 1] = gw[n] - n * v[1] + h[n - 1]
  <2>1. n - 1 \in Nat /\ n - 1 <= n - 1 /\ (n - 1) + 1 = n
    OBVIOUS
  <2>2. hw[n - 1] = gw[(n - 1) + 1] - n * v[1] + h[n - 1]
    BY <1>5, <2>1
  <2> QED
    BY <2>1, <2>2
<1> DEFINE x == n * v[1]
<1>8. hw[n - 1] \in Int /\ gw[n] \in Int /\ h[n - 1] \in Int /\ w[n] \in Int /\ x \in Int
  <2>1. n \in 0..n /\ n - 1 \in 0..n /\ n \in 1..n
    OBVIOUS
  <2> QED
    BY <1>1, <1>2, <2>1
<1>9. hw[n - 1] = gw[n] - x + h[n - 1]
  BY <1>7
<1> HIDE DEF x
<1>10. hw[n] = gw[n] - x + h[n]
  BY <1>6, <1>8, <1>9, SMTT(60)
<1> QED
  BY <1>10 DEF x

(* remainders *)
LEMMA ModUnique ==
  ASSUME NEW m \in Nat \ {0}, NEW d \in Int, NEW e \in Int, NEW r \in 0..m - 1, NEW s \in 0..m - 1,
         m * d + r = m * e + s
  PROVE  r = s
OBVIOUS

LEMMA ModProps ==
  ASSUME NEW m \in Nat \ {0}, NEW x \in Int
  PROVE  x % m \in 0..m - 1 /\ x \div m \in Int /\ x = m * (x \div m) + (x % m)
OBVIOUS
Shifted(y, m, q, x) == y = m * q + x

LEMMA ModShift ==
  ASSUME NEW m \in Nat \ {0}, NEW q \in Int, NEW x \in Int, NEW y, Shifted(y, m, q, x)
  PROVE  y \in Int /\ y % m = x % m
<1> DEFINE d == x \div m
           e == y \div m
           r == x % m
           s == y % m
           mq == m * q
           md == m * d
           me == m * e
<1>1. mq \in Int /\ y \in Int
  BY DEF Shifted
<1>2. d \in Int /\ r \in 0..m - 1 /\ x = md + r
  BY ModProps
<1>3. e \in Int /\ s \in 0..m - 1 /\ y = me + s
  BY <1>1, ModProps
<1> HIDE DEF d, e, r, s
<1>4. m * (q + d) = mq + md /\ q + d \in Int /\ md \in Int /\ me \in Int
  BY <1>2, <1>3
<1> DEFINE f == q + d
           mf == m * f
<1>5. f \in Int /\ mf = mq + md
  BY <1>4
<1> HIDE DEF f, mq, md, me, mf
<1>6. y = mq + x
  BY DEF mq, Shifted
<1>7. mf + r = me + s
  BY <1>1, <1>2, <1>3, <1>4, <1>5, <1>6 DEF mq
<1>8. m * f + r = m * e + s
  BY <1>7 DEF mf, me
<1>9. r = s
  BY <1>2, <1>3, <1>5, <1>8, ModUnique
<1> QED
  BY <1>1, <1>9 DEF r, s

LEMMA RollIsRolling ==
  ASSUME NEW n \in Nat \ {0}, NEW v \in Seq(Byte), NEW w \in Seq(Byte), Len(v) = n, Len(w) = n,
         \A k \in 1..n - 1 : w[k] = v[k + 1]
  PROVE  Roll(Rolling(v), n, v[1], w[n]) = Rolling(w)
<1> DEFINE M == WeakMod
           A == FoldLeft(+, 0, v)
           C == FoldLeft(+, 0, w)
           B == FoldLeft(+, 0, Weighted(v, n))
           D == FoldLeft(+, 0, Weighted(w, n))
           out1 == v[1]
           in1 == w[n]
           nout == n * out1
<1>1. M \in Nat \ {0} /\ v \in [1..n -> Int] /\ w \in [1..n -> Int]
  <2>1. M \in Nat \ {0} /\ Byte \subseteq Nat
    BY Constants
  <2>2. v \in [1..n -> Byte] /\ w \in [1..n -> Byte]
    OBVIOUS
  <2> HIDE DEF M
  <2>3. v \in [1..n -> Nat] /\ w \in [1..n -> Nat]
    BY <2>1, <2>2, Zenon
  <2> QED
    BY <2>1, <2>3
<1>2. /\ Rolling(v) = [a |-> A % M, b |-> B % M]
      /\ Rolling(w) = [a |-> C % M, b |-> D % M]
  <2>1. ASSUME NEW u \in Seq(Byte), Len(u) = n
        PROVE  [i \in DOMAIN u |-> (Len(u) - i + 1) * u[i]] = Weighted(u, n)
    <3>1. DOMAIN u = 1..n
      BY <2>1
    <3> QED
      BY <2>1, <3>1, Zenon DEF Weighted
  <2>2. /\ [i \in DOMAIN v |-> (Len(v) - i + 1) * v[i]] = Weighted(v, n)
        /\ [i \in DOMAIN w |-> (Len(w) - i + 1) * w[i]] = Weighted(w, n)
    BY <2>1
  <2> QED
    BY <2>2, Zenon DEF Rolling
<1>3. ASSUME NEW u \in [1..n -> Int]
      PROVE  Weighted(u, n) \in [1..n -> Int]
  <2>1. ASSUME NEW i \in 1..n PROVE (n - i + 1) * u[i] \in Int
    <3>1. n - i + 1 \in Int /\ u[i] \in Int
      OBVIOUS
    <3> QED
      BY <3>1, TimesOneMore
  <2> QED
    BY <2>1 DEF Weighted
<1> HIDE DEF M
<1>4. PICK g : Sums(g, v, n) /\ A = g[n]
  BY <1>1, SumOfPrefixes, Zenon
<1>5. PICK h : Sums(h, w, n) /\ C = h[n]
  BY <1>1, SumOfPrefixes, Zenon
<1>6. PICK gw : Sums(gw, Weighted(v, n), n) /\ B = gw[n]
  <2>1. Weighted(v, n) \in [1..n -> Int]
    BY <1>1, <1>3
  <2> QED
    BY <2>1, SumOfPrefixes, Zenon
<1>7. PICK hw : Sums(hw, Weighted(w, n), n) /\ D = hw[n]
  <2>1. Weighted(w, n) \in [1..n -> Int]
    BY <1>1, <1>3
  <2> QED
    BY <2>1, SumOfPrefixes, Zenon
<1> HIDE DEF A, B, C, D
<1>8. A \in Int /\ B \in Int /\ C \in Int /\ D \in Int
  <2>1. n \in 0..n
    OBVIOUS
  <2> QED
    BY <1>4, <1>5, <1>6, <1>7, <2>1 DEF Sums
<1>9. out1 \in Int /\ in1 \in Int /\ nout \in Int
  <2>1. 1 \in 1..n /\ n \in 1..n
    OBVIOUS
  <2>2. out1 \in Int /\ in1 \in Int
    BY <1>1, <2>1
  <2> HIDE DEF out1
  <2> QED
    BY <2>2, TimesOneMore
<1>10. C = A - out1 + in1
  <2>1. Slid(v, w, n)
    BY <1>1 DEF Slid
  <2>2. h[n] = g[n] - v[1] + w[n]
    BY <1>4, <1>5, <2>1, SlidSums
  <2> QED
    BY <1>4, <1>5, <2>2
<1>11. D = B - nout + C
  <2>1. Slid(v, w, n)
    BY <1>1 DEF Slid
  <2>2. hw[n] = gw[n] - n * v[1] + h[n]
    BY <1>4, <1>5, <1>6, <1>7, <2>1, SlidWeighted
  <2> QED
    BY <1>5, <1>6, <1>7, <2>2
<1> DEFINE x == (A % M) - out1 + in1
           a2 == x % M
           y == (B % M) - nout + a2
<1>12. Roll(Rolling(v), n, v[1], w[n]) = [a |-> a2, b |-> y % M]
  BY <1>2 DEF Roll, M
<1> HIDE DEF out1, in1, nout
<1>13. PICK q \in Int : A = M * q + (A % M)
  BY <1>1, <1>8, ModProps
<1>14. PICK p \in Int : B = M * p + (B % M)
  BY <1>1, <1>8, ModProps
<1>15. PICK s \in Int : C = M * s + (C % M)
  BY <1>1, <1>8, ModProps
<1>16. A % M \in Int /\ B % M \in Int /\ C % M \in Int
  BY <1>1, <1>8, ModProps
<1>17. a2 = C % M
  <2> DEFINE t == M * q
             ra == A % M
  <2>1. t \in Int
    BY <1>1
  <2>2. C = t + x
    <3>1. A = t + ra /\ ra \in Int /\ x = ra - out1 + in1
      BY <1>13, <1>16
    <3> HIDE DEF t, ra, x
    <3> QED
      BY <1>8, <1>9, <1>10, <2>1, <3>1
  <2>3. x \in Int
    BY <1>9, <1>16
  <2> HIDE DEF x
  <2> QED
    BY <1>1, <2>2, <2>3, ModShift, ZenonT(60) DEF t, Shifted
<1>18. y % M = D % M
  <2> DEFINE t == M * p
             r == M * s
             u == p + s
             rb == B % M
             rc == C % M
  <2>1. t \in Int /\ r \in Int /\ u \in Int /\ M * u = t + r
    BY <1>1
  <2>2. B = t + rb /\ C = r + rc /\ rb \in Int /\ rc \in Int /\ y = rb - nout + rc
    BY <1>14, <1>15, <1>16, <1>17
  <2> HIDE DEF t, r, u, rb, rc, y
  <2>3. D = (t + r) + y /\ y \in Int
    BY <1>8, <1>9, <1>11, <2>1, <2>2
  <2>4. D = M * u + y
    BY <2>1, <2>3
  <2>5. M \in Nat \ {0} /\ u \in Int /\ y \in Int /\ Shifted(D, M, u, y)
    BY <1>1, <2>1, <2>3, <2>4 DEF Shifted
  <2>6. D % M = y % M
    BY ONLY <2>5, ModShift
  <2> QED
    BY <2>6
<1> HIDE DEF a2, y
<1> QED
  BY <1>2, <1>12, <1>17, <1>18

(* Slide: the checksum of the window one byte on is what roll gives. *)
LEMMA SlideRolls ==
  ASSUME DeltaInv, RollExact, Slide
  PROVE  WindowFits' /\ roll' = Rolling(Window')
<1> DEFINE to1 == pos + bs
           from2 == pos + 1
           to2 == pos + 1 + bs
           v == Slice(buf, pos, to1)
           w == Slice(buf, from2, to2)
<1>1. /\ pc = "scan" /\ to2 <= Len(buf) /\ pos' = from2 /\ buf' = buf /\ bs' = bs
      /\ roll' = Roll(Checksum, bs, buf[pos + 1], buf[pos + bs + 1])
  BY DEF Slide, inputs
<1>2. buf \in Seq(Byte) /\ pos \in Nat /\ bs \in Nat \ {0} /\ Len(buf) \in Nat
  BY DEF DeltaInv, BufInv, Constant
<1>3. to1 \in Nat /\ pos <= to1 /\ to1 <= Len(buf) /\ to1 - pos = bs
  BY <1>1, <1>2
<1>4. from2 \in Nat /\ to2 \in Nat /\ from2 <= to2 /\ to2 <= Len(buf) /\ to2 - from2 = bs /\ from2 + bs = to2
  BY <1>1, <1>2
<1>5. WindowFits' /\ Window' = w /\ Window = v
  BY <1>1, <1>4 DEF WindowFits, Window
<1>6. Checksum = Rolling(v)
  BY <1>1, <1>5 DEF RollExact, Checksum
<1> HIDE DEF to1, from2, to2
<1>7. v \in Seq(Byte) /\ Len(v) = bs /\ \A k \in 1..bs : v[k] = buf[pos + k]
  <2>1. buf \in Seq(Byte) /\ pos \in Nat /\ to1 \in Nat /\ pos <= to1 /\ to1 <= Len(buf)
    BY <1>2, <1>3
  <2>2. /\ Slice(buf, pos, to1) \in Seq(Byte) /\ Len(Slice(buf, pos, to1)) = to1 - pos
        /\ \A k \in 1..to1 - pos : Slice(buf, pos, to1)[k] = buf[pos + k]
    BY ONLY <2>1, SliceProps
  <2> QED
    BY <1>3, <2>2
<1>8. w \in Seq(Byte) /\ Len(w) = bs /\ \A k \in 1..bs : w[k] = buf[from2 + k]
  <2>1. buf \in Seq(Byte) /\ from2 \in Nat /\ to2 \in Nat /\ from2 <= to2 /\ to2 <= Len(buf)
    BY <1>2, <1>4
  <2>2. /\ Slice(buf, from2, to2) \in Seq(Byte) /\ Len(Slice(buf, from2, to2)) = to2 - from2
        /\ \A k \in 1..to2 - from2 : Slice(buf, from2, to2)[k] = buf[from2 + k]
    BY ONLY <2>1, SliceProps
  <2> QED
    BY <1>4, <2>2
<1> HIDE DEF v, w
<1>9. \A k \in 1..bs - 1 : w[k] = v[k + 1]
  <2> SUFFICES ASSUME NEW k \in 1..bs - 1 PROVE w[k] = v[k + 1]
    OBVIOUS
  <2>1. k \in 1..bs /\ k + 1 \in 1..bs /\ pos + (k + 1) = from2 + k
    BY <1>2 DEF from2
  <2> QED
    BY <1>7, <1>8, <2>1
<1>10. v[1] = buf[pos + 1] /\ w[bs] = buf[pos + bs + 1]
  <2>1. 1 \in 1..bs /\ bs \in 1..bs /\ from2 + bs = pos + bs + 1
    BY <1>2 DEF from2
  <2> QED
    BY <1>7, <1>8, <2>1
<1>11. Roll(Rolling(v), bs, v[1], w[bs]) = Rolling(w)
  BY <1>2, <1>7, <1>8, <1>9, RollIsRolling
<1> QED
  BY <1>1, <1>5, <1>6, <1>10, <1>11

LEMMA RollNext ==
  ASSUME DeltaInv, RollExact, [Next]_vars
  PROVE  RollExact'
<1>1. CASE Refill \/ TakeBlock
  BY <1>1 DEF Refill, TakeBlock, RollExact, NoRoll
<1>2. CASE Slide
  BY <1>2, SlideRolls DEF RollExact
<1>3. CASE Finish \/ ReadFails
  BY <1>3 DEF Finish, ReadFails, RollExact
<1>4. CASE Apply \/ Abort \/ FinishFile \/ BaseChanges \/ UNCHANGED vars
  <2>1. bs' = bs /\ pc' = pc /\ buf' = buf /\ pos' = pos /\ roll' = roll
    BY <1>4 DEF Apply, Abort, FinishFile, BaseChanges, vars, inputs, sender
  <2> QED
    BY <2>1 DEF RollExact, WindowFits, Window
<1> QED
  BY <1>1, <1>2, <1>3, <1>4 DEF Next, SenderStep, ReceiverStep, Done

(* Through every slide, Rolling::roll carries exactly the checksum a fresh   *)
(* Rolling::new of the window gives, whatever the modulus, the block size    *)
(* and the bytes, so a block the receiver has is looked up under its key.    *)
THEOREM DeltaRollExact == Spec => []RollExact
<1>1. Init => DeltaInv /\ RollExact
  BY DeltaInit DEF Init, RollExact
<1>2. DeltaInv /\ RollExact /\ [Next]_vars => (DeltaInv /\ RollExact)'
  BY DeltaNext, RollNext
<1> QED
  BY <1>1, <1>2, PTL DEF Spec


----------------------------------------------------------------------------
(* The bytes that instructions yield.                                       *)
StartOfSource(s, m) ==
  /\ s \in Seq(Byte) /\ Len(s) = m /\ m \in Nat /\ m <= Len(src)
  /\ \A k \in 1..m : s[k] = src[k]

(* a start of the source and the piece that follows it *)
LEMMA StartGrows ==
  ASSUME Constant, NEW s, NEW a, StartOfSource(s, a), NEW p \in Seq(Byte), NEW b,
         b = a + Len(p), b <= Len(src), \A k \in 1..Len(p) : p[k] = src[a + k]
  PROVE  StartOfSource(s \o p, b)
<1>1. s \in Seq(Byte) /\ Len(s) = a /\ a \in Nat /\ \A k \in 1..a : s[k] = src[k]
  BY DEF StartOfSource
<1>2. Len(p) \in Nat /\ b \in Nat
  BY <1>1
<1>3. s \o p \in Seq(Byte) /\ Len(s \o p) = Len(s) + Len(p)
  <2>1. s \in Seq(Byte) /\ p \in Seq(Byte)
    BY <1>1
  <2> QED
    BY ONLY <2>1
<1>4. ASSUME NEW k \in 1..b PROVE (s \o p)[k] = src[k]
  <2>1. k \in 1..Len(s) + Len(p) /\ k \in Nat /\ Len(s) = a
    BY <1>1, <1>2
  <2>2. (s \o p)[k] = IF k <= Len(s) THEN s[k] ELSE p[k - Len(s)]
    BY <1>1, <2>1, ConcatProperties, ZenonT(60)
  <2>3. CASE k <= a
    BY <1>1, <2>1, <2>2, <2>3
  <2>4. CASE k > a
    <3>1. k - a \in 1..Len(p) /\ a + (k - a) = k
      BY <1>1, <1>2, <2>1, <2>4
    <3>2. p[k - a] = src[k]
      BY <3>1
    <3>3. ~(k <= Len(s)) /\ k - Len(s) = k - a
      BY <1>1, <2>1, <2>4
    <3> QED
      BY <2>2, <3>2, <3>3
  <2>5. k <= a \/ k > a
    BY <1>1, <2>1
  <2> QED
    BY <2>3, <2>4, <2>5, Zenon
<1>5. Len(s \o p) = b
  BY <1>1, <1>3
<1> HIDE DEF StartOfSource
<1> QED
  BY <1>2, <1>3, <1>4, <1>5 DEF StartOfSource

(* what the receiver would make of the instructions sent *)
LEMMA SentIsSource ==
  ASSUME Constant, NEW cut, NEW ops \in Seq(Instrs), NEW to, Cuts(cut, ops, to),
         \A i \in 1..Len(ops) : Fits(ops[i])
  PROVE  StartOfSource(FoldLeft(LAMBDA s, op : s \o Bytes(op, base), <<>>, ops), to)
<1> DEFINE n == Len(ops)
           e == <<>>
           B(i) == Bytes(ops[i], base)
           F == [p \in (1..n) \X Seq(Byte) |-> p[2] \o B(p[1])]
           Rec(f) == f = [s \in SUBSET DOMAIN ops |-> IF s = {} THEN e ELSE f[s \ {Max(s)}] \o B(Max(s))]
           h == CHOOSE f : Rec(f)
<1>1. FoldLeft(LAMBDA s, op : s \o Bytes(op, base), <<>>, ops) = h[DOMAIN ops]
  BY Zenon DEF FoldLeft, MapThenFoldSet
<1>2. DOMAIN ops = 1..n /\ n \in Nat
  OBVIOUS
<1>3. cut \in [0..n -> Nat] /\ cut[0] = 0 /\ cut[n] = to /\ \A i \in 1..n : Carries(ops[i], cut[i - 1], cut[i])
  BY DEF Cuts
<1>4. ASSUME NEW i \in 1..n
      PROVE  /\ B(i) \in Seq(Byte) /\ cut[i - 1] \in Nat /\ cut[i] = cut[i - 1] + Len(B(i)) /\ cut[i] <= Len(src)
             /\ \A k \in 1..Len(B(i)) : B(i)[k] = src[cut[i - 1] + k]
  <2> DEFINE a == cut[i - 1]
             b == cut[i]
             op == ops[i]
  <2>1. a \in Nat /\ op \in Instrs /\ Fits(op) /\ Carries(op, a, b)
    <3>1. i - 1 \in 0..n
      BY <1>2
    <3> QED
      BY <1>3, <3>1
  <2> HIDE DEF a, b, op
  <2>2. /\ Bytes(op, base) \in Seq(Byte) /\ Len(Bytes(op, base)) = OpLen(op)
        /\ b = a + OpLen(op) /\ b <= Len(src)
        /\ \A k \in 1..OpLen(op) : Bytes(op, base)[k] = src[a + k]
    BY <2>1, InstrBytes
  <2>3. /\ Bytes(op, base) \in Seq(Byte) /\ a \in Nat /\ b = a + Len(Bytes(op, base)) /\ b <= Len(src)
        /\ \A k \in 1..Len(Bytes(op, base)) : Bytes(op, base)[k] = src[a + k]
    BY <2>1, <2>2
  <2> QED
    BY <2>3 DEF a, b, op
<1> HIDE DEF B
<1>5. \A i \in 1..n, y \in Seq(Byte) : F[<<i, y>>] = y \o B(i)
  OBVIOUS
<1>6. F \in [(1..n) \X Seq(Byte) -> Seq(Byte)]
  <2>1. \A p \in (1..n) \X Seq(Byte) : p[2] \in Seq(Byte) /\ B(p[1]) \in Seq(Byte)
    BY <1>4
  <2>2. ASSUME NEW x, NEW y, x \in Seq(Byte) /\ y \in Seq(Byte) PROVE x \o y \in Seq(Byte)
    BY ONLY <2>2
  <2> QED
    BY <2>1, <2>2, Zenon
<1> HIDE DEF F, n
<1>7. Rec(h)
  <2>1. PICK f \in [SUBSET (1..n) -> Seq(Byte)] : FoldOf(f, n, e, F)
    <3>1. e \in Seq(Byte)
      OBVIOUS
    <3> HIDE DEF e
    <3> QED
      BY <1>2, <1>6, <3>1, FoldsExist, Zenon
  <2>2. ASSUME NEW s \in SUBSET (1..n), s # {}
        PROVE  F[<<Max(s), f[s \ {Max(s)}]>>] = f[s \ {Max(s)}] \o B(Max(s))
    <3>1. Max(s) \in 1..n
      BY <1>2, <2>2, MaxNat
    <3>2. s \ {Max(s)} \in SUBSET (1..n)
      OBVIOUS
    <3>3. f[s \ {Max(s)}] \in Seq(Byte)
      BY <2>1, <3>2
    <3> QED
      BY <1>5, <3>1, <3>3
  <2>3. Rec(f)
    <3>1. f = [s \in SUBSET (1..n) |-> IF s = {} THEN e ELSE F[<<Max(s), f[s \ {Max(s)}]>>]]
      BY <2>1, Zenon DEF FoldOf
    <3>2. [s \in SUBSET (1..n) |-> IF s = {} THEN e ELSE F[<<Max(s), f[s \ {Max(s)}]>>]]
          = [s \in SUBSET (1..n) |-> IF s = {} THEN e ELSE f[s \ {Max(s)}] \o B(Max(s))]
      BY <2>2, Zenon
    <3> QED
      BY <1>2, <3>1, <3>2, Zenon
  <2> HIDE DEF Rec
  <2> QED
    BY <2>3, Zenon
<1> HIDE DEF h
<1>8. h[1..0] = e /\ \A k \in 1..n : h[1..k] = h[1..k - 1] \o B(k)
  <2>1. 1..0 = {} /\ {} \in SUBSET (1..n)
    OBVIOUS
  <2>2. h[{}] = e
    BY <1>2, <1>7, <2>1, Zenon
  <2>3. ASSUME NEW k \in 1..n PROVE h[1..k] = h[1..k - 1] \o B(k)
    <3> DEFINE s == 1..k
               r == 1..k - 1
    <3>1. s \in SUBSET (1..n) /\ s # {} /\ Max(s) = k /\ s \ {k} = r
      BY <1>2, MaxPrefix
    <3> HIDE DEF s, r
    <3>2. h[s] = h[s \ {Max(s)}] \o B(Max(s))
      BY <1>2, <1>7, <3>1, Zenon
    <3> QED
      BY <3>1, <3>2 DEF s, r
  <2> QED
    BY <2>1, <2>2, <2>3
<1> DEFINE S == {k \in Nat : k <= n => StartOfSource(h[1..k], cut[k])}
<1>9. Nat \subseteq S
  <2>1. 0 \in S
    <3>1. e \in Seq(Byte) /\ Len(e) = 0 /\ 0 <= Len(src)
      BY DEF Constant
    <3>2. StartOfSource(e, 0)
      BY <3>1 DEF StartOfSource
    <3> QED
      BY <1>3, <1>8, <3>2
  <2>2. ASSUME NEW k \in Nat, k \in S PROVE k + 1 \in S
    <3> SUFFICES ASSUME k + 1 <= n PROVE StartOfSource(h[1..k + 1], cut[k + 1])
      OBVIOUS
    <3> DEFINE i == k + 1
               p == B(i)
               t == h[1..k]
    <3>1. i \in 1..n /\ i - 1 = k /\ k <= n
      BY <1>2
    <3>2. StartOfSource(t, cut[k])
      BY <2>2, <3>1
    <3>3. h[1..i] = t \o p
      BY <1>8, <3>1
    <3>4. p \in Seq(Byte) /\ cut[i] = cut[k] + Len(p) /\ cut[i] <= Len(src)
          /\ \A j \in 1..Len(p) : p[j] = src[cut[k] + j]
      BY <1>4, <3>1
    <3> HIDE DEF p, t, i, S
    <3>5. StartOfSource(t \o p, cut[i])
      BY <3>2, <3>4, StartGrows
    <3>6. StartOfSource(h[1..i], cut[i])
      BY <3>3, <3>5
    <3> QED
      BY <3>6 DEF i
  <2> HIDE DEF S
  <2> QED
    BY <2>1, <2>2, Induction
<1>10. StartOfSource(h[1..n], cut[n])
  <2>1. n \in S
    BY <1>2, <1>9
  <2>2. n <= n
    BY <1>2
  <2> QED
    BY <2>1, <2>2
<1> QED
  BY <1>1, <1>2, <1>3, <1>10, Zenon

(* Appending what a piece carries. *)
LEMMA CarriedGrows ==
  ASSUME Constant, NEW s, NEW a, StartOfSource(s, a), NEW p \in Seq(Byte), NEW b,
         Carries(Data(p), a, b)
  PROVE  StartOfSource(s \o p, b)
<1>1. OpLen(Data(p)) = Len(p) /\ \A k : OpByte(Data(p), k) = p[k]
  BY DataProps
<1>2. b = a + Len(p) /\ b <= Len(src) /\ \A k \in 1..Len(p) : p[k] = src[a + k]
  BY <1>1 DEF Carries
<1> QED
  BY <1>2, StartGrows

LEMMA CopiedGrows ==
  ASSUME Constant, NEW s, NEW a, StartOfSource(s, a), NEW c \in Copies, c = NoCopy \/ Fits(c), NEW b,
         Carries(c, a, b)
  PROVE  StartOfSource(s \o Bytes(c, base), b)
<1>1. a \in Nat /\ c \in Instrs
  BY InstrProps DEF StartOfSource
<1>2. /\ Bytes(c, base) \in Seq(Byte) /\ Len(Bytes(c, base)) = OpLen(c)
      /\ b = a + OpLen(c) /\ b <= Len(src)
      /\ \A k \in 1..OpLen(c) : Bytes(c, base)[k] = src[a + k]
  <2>1. CASE Fits(c)
    BY <1>1, <2>1, InstrBytes
  <2>2. CASE c = NoCopy
    <3>1. Bytes(c, base) = Slice(base, 0, 0) /\ OpLen(c) = 0
      BY <2>2, InstrProps DEF Bytes, OpLen, Copies
    <3>2. base \in Seq(Byte) /\ 0 \in Nat /\ 0 <= 0 /\ 0 <= Len(base)
      BY DEF Constant
    <3>3. Slice(base, 0, 0) \in Seq(Byte) /\ Len(Slice(base, 0, 0)) = 0 - 0
      BY ONLY <3>2, SliceProps
    <3>4. b = a + OpLen(c) /\ b <= Len(src)
      BY DEF Carries
    <3> QED
      BY <3>1, <3>3, <3>4
  <2> QED
    BY <2>1, <2>2
<1> DEFINE p == Bytes(c, base)
<1> HIDE DEF p
<1>3. p \in Seq(Byte) /\ b = a + Len(p) /\ b <= Len(src) /\ \A k \in 1..Len(p) : p[k] = src[a + k]
  BY <1>2 DEF p
<1>4. StartOfSource(s \o p, b)
  BY <1>3, StartGrows
<1> QED
  BY <1>4 DEF p

(* produce_delta loses, repeats and reorders no byte: at every moment the    *)
(* instructions sent, the literals batched, the open copy and the bytes of   *)
(* the buffer not yet scanned spell exactly what has been read, for any      *)
(* base, block size, reads and contents.                                     *)
THEOREM DeltaStreamExact == Spec => []StreamExact
<1>1. DeltaInv => StreamExact
  <2> SUFFICES ASSUME DeltaInv PROVE StreamExact
    OBVIOUS
  <2> DEFINE sent == FoldLeft(LAMBDA s, op : s \o Bytes(op, base), <<>>, out.ops)
             rest == IF pc = "done" THEN <<>> ELSE Slice(buf, lit, Len(buf))
  <2>0. Constant /\ BufInv
    BY DEF DeltaInv
  <2>1. PICK cut, o, to : o = out /\ to = End /\ Good(cut, o, to)
    BY DEF DeltaInv, StreamInv
  <2> DEFINE here == cut[Len(o.ops)]
             at == here + Len(o.pending)
  <2>2. /\ o.ops \in Seq(Instrs) /\ o.pending \in Seq(Byte) /\ o.copy \in Copies
        /\ \A i \in 1..Len(o.ops) : Fits(o.ops[i])
        /\ o.copy = NoCopy \/ Fits(o.copy)
        /\ Cuts(cut, o.ops, here) /\ Carries(Data(o.pending), here, at) /\ Carries(o.copy, at, to)
    BY <2>1 DEF Good, Outs, OutFits, Spells
  <2> HIDE DEF here, at
  <2>3. StartOfSource(sent, here)
    BY <2>0, <2>1, <2>2, SentIsSource
  <2> HIDE DEF sent
  <2>4. StartOfSource(sent \o o.pending, at)
    BY <2>0, <2>2, <2>3, CarriedGrows
  <2> DEFINE s2 == sent \o o.pending
             s3 == s2 \o Bytes(o.copy, base)
  <2>5. StartOfSource(s3, to)
    <3>1. StartOfSource(s2, at)
      BY <2>4
    <3> HIDE DEF s2
    <3> QED
      BY <2>0, <2>2, <3>1, CopiedGrows
  <2> HIDE DEF s3
  <2>6. StartOfSource(s3 \o rest, rd)
    <3>1. CASE pc = "done"
      <4>1. rest = <<>> /\ to = rd /\ rd = Len(src)
        BY <2>0, <2>1, <3>1 DEF DeltaInv, DoneInv, BufInv, End
      <4>2. s3 \in Seq(Byte)
        BY <2>5 DEF StartOfSource
      <4>3. s3 \o <<>> = s3
        BY ONLY <4>2
      <4> QED
        BY <2>5, <4>1, <4>3
    <3>2. CASE pc # "done"
      <4> DEFINE m == Len(buf)
                 r == Slice(buf, lit, m)
      <4>1. m \in Nat /\ lit \in Nat /\ lit <= m /\ m <= Len(buf) /\ Start + m = rd
        BY <2>0, BufferFacts
      <4>2. rest = r /\ to = Start + lit
        BY <2>1, <3>2 DEF End
      <4> HIDE DEF m
      <4>3. r \in Seq(Byte) /\ Carries(Data(r), Start + lit, Start + m)
        BY <2>0, <4>1, PieceOfSource
      <4> HIDE DEF r, rest
      <4>4. StartOfSource(s3 \o r, rd)
        BY <2>0, <2>5, <4>1, <4>2, <4>3, CarriedGrows
      <4> QED
        BY <4>2, <4>4
    <3> QED
      BY <3>1, <3>2
  <2> HIDE DEF rest
  <2> DEFINE all == s3 \o rest
  <2>7. all = Slice(src, 0, rd)
    <3>1. all \in Seq(Byte) /\ Len(all) = rd /\ rd \in Nat /\ \A k \in 1..rd : all[k] = src[k]
      BY <2>6 DEF StartOfSource
    <3>2. src \in Seq(Byte) /\ 0 \in Nat /\ rd \in Nat /\ 0 <= rd /\ rd <= Len(src)
      BY <2>0 DEF Constant, BufInv
    <3>3. /\ Slice(src, 0, rd) \in Seq(Byte) /\ Len(Slice(src, 0, rd)) = rd - 0
          /\ \A k \in 1..rd - 0 : Slice(src, 0, rd)[k] = src[0 + k]
      BY ONLY <3>2, SliceProps
    <3> DEFINE whole == Slice(src, 0, rd)
    <3>4. whole \in Seq(Byte) /\ Len(whole) = rd /\ \A k \in 1..rd : whole[k] = src[k]
      BY <3>2, <3>3
    <3> HIDE DEF all, whole
    <3>5. all = whole
      BY <3>1, <3>4, SeqEqual
    <3> QED
      BY <3>5 DEF whole
  <2> QED
    BY <2>1, <2>7, Zenon DEF StreamExact, s3, sent, rest
<1> QED
  BY <1>1, DeltaInvariant, PTL

----------------------------------------------------------------------------
(* A file that only grew.  Until the scan has passed the signed blocks       *)
(* nothing has left and one copy is open; from then on it is the first       *)
(* instruction, or still waits for the literals behind it.                   *)
Signed == BlockCount * bs
WholeCopy == Copy(0, Signed)
Here == Start + pos
NoBlockMore == Len(src) < (BlockCount + 1) * bs

CopyLeads(o) == o.ops # <<>> /\ o.ops[1] = WholeCopy
Covered(o) ==
  \/ o.ops = <<>> /\ o.pending = <<>> /\ o.copy = WholeCopy
  \/ CopyLeads(o)
OnlyLiterals(o) ==
  /\ \A i \in 2..Len(o.ops) : o.ops[i].op = "Data"
  /\ o.ops # <<>> => o.copy = NoCopy

Opening(i) ==
  /\ Here = i * bs /\ lit = pos /\ roll = NoRoll
  /\ out = [ops |-> <<>>, pending |-> <<>>, copy |-> Copy(0, i * bs)]

Passed == Here >= Signed /\ Covered(out) /\ (NoBlockMore => OnlyLiterals(out))

PrefixInv ==
  /\ BlockCount \in Nat \ {0}
  /\ IsPrefix(base, src) =>
       /\ pc = "scan" => (\E i \in 0..BlockCount - 1 : Opening(i)) \/ Passed
       /\ pc = "done" => CopyLeads(out) /\ (NoBlockMore => OnlyLiterals(out))

LEMMA SignedFacts ==
  ASSUME Constant, BlockCount \in Nat \ {0}
  PROVE  /\ Signed \in Nat \ {0} /\ Signed <= Len(base) /\ WholeCopy # NoCopy
         /\ (BlockCount + 1) * bs = Signed + bs
         /\ \A i \in 0..BlockCount - 1 : i * bs \in Nat /\ i * bs + bs <= Signed /\ (i + 1) * bs = i * bs + bs
<1> DEFINE b == BlockCount
<1>1. bs \in Nat \ {0} /\ b \in Nat \ {0} /\ Len(base) \in Nat /\ b = Len(base) \div bs
  BY DEF Constant, BlockCount
<1>2. b * bs <= Len(base)
  BY <1>1, DivBounds
<1> HIDE DEF b
<1>3. \A i \in 0..b - 1 : i * bs \in Nat /\ i * bs + bs <= b * bs /\ (i + 1) * bs = i * bs + bs
  <2> SUFFICES ASSUME NEW i \in 0..b - 1
               PROVE i * bs \in Nat /\ i * bs + bs <= b * bs /\ (i + 1) * bs = i * bs + bs
    OBVIOUS
  <2>1. i \in Nat /\ b \in Nat /\ i <= b /\ i < b /\ bs \in Nat
    BY <1>1
  <2> QED
    BY ONLY <2>1, TimesMonotone
<1>4. b * bs \in Nat \ {0} /\ (b + 1) * bs = b * bs + bs
  <2>1. b \in Nat /\ b <= b /\ bs \in Nat
    BY <1>1
  <2>2. b * bs \in Nat /\ (b + 1) * bs = b * bs + bs
    BY ONLY <2>1, TimesMonotone
  <2>3. 0 \in 0..b - 1 /\ 0 * bs = 0
    BY <1>1
  <2>4. 0 * bs + bs <= b * bs
    BY <1>3, <2>3
  <2> QED
    BY <1>1, <2>2, <2>3, <2>4
<1>5. Copy(0, b * bs) # NoCopy
  <2>1. Copy(0, b * bs).len = b * bs /\ NoCopy.len = 0
    BY InstrProps DEF Copy
  <2> QED
    BY <1>4, <2>1
<1> QED
  BY <1>2, <1>3, <1>4, <1>5 DEF b, Signed, WholeCopy

(* what has left stays in front *)
LEMMA LeadStays ==
  ASSUME NEW o, NEW o2, o.ops \in Seq(Instrs), o2.ops \in Seq(Instrs), Keeps(o, o2), CopyLeads(o)
  PROVE  CopyLeads(o2)
<1>1. Len(o.ops) \in Nat \ {0} /\ Len(o2.ops) \in Nat /\ Len(o.ops) <= Len(o2.ops)
  BY DEF CopyLeads, Keeps
<1>2. 1 \in 1..Len(o.ops) /\ o2.ops # <<>>
  BY <1>1
<1> QED
  BY <1>2 DEF CopyLeads, Keeps

LEMMA EmitCovers ==
  ASSUME Constant, BlockCount \in Nat \ {0}, NEW cut, NEW o, NEW to, Good(cut, o, to), Covered(o)
  PROVE  CopyLeads(EmitCopy(o)) /\ (OnlyLiterals(o) => OnlyLiterals(EmitCopy(o)))
<1>1. WholeCopy # NoCopy
  BY SignedFacts
<1>2. EmitCopy(o).copy = NoCopy /\ Reaches(cut, o, EmitCopy(o), to)
  BY EmitCopyDoes
<1>3. o.ops \in Seq(Instrs) /\ EmitCopy(o).ops \in Seq(Instrs) /\ Keeps(o, EmitCopy(o))
  BY <1>2 DEF Reaches, Good, Outs
<1>4. CASE o.copy = NoCopy
  <2>1. EmitCopy(o) = o /\ CopyLeads(o)
    BY <1>1, <1>4 DEF EmitCopy, Covered
  <2> QED
    BY <2>1
<1>5. CASE o.copy # NoCopy /\ CopyLeads(o)
  <2>1. CopyLeads(EmitCopy(o))
    BY <1>3, <1>5, LeadStays
  <2>2. ~OnlyLiterals(o)
    BY <1>5 DEF OnlyLiterals, CopyLeads
  <2> QED
    BY <2>1, <2>2
<1>6. CASE o.ops = <<>> /\ o.pending = <<>> /\ o.copy = WholeCopy
  <2> DEFINE w == WholeCopy
  <2>1. EmitCopy(o).ops = o.ops \o <<>> \o <<w>>
    BY <1>1, <1>6 DEF EmitCopy
  <2>2. EmitCopy(o).ops = <<>> \o <<>> \o <<w>>
    BY <1>6, <2>1, Zenon
  <2> HIDE DEF w
  <2>3. EmitCopy(o).ops = <<w>>
    BY <2>2
  <2>4. EmitCopy(o).ops # <<>> /\ EmitCopy(o).ops[1] = w /\ Len(EmitCopy(o).ops) = 1
    BY <2>3
  <2>5. OnlyLiterals(EmitCopy(o))
    BY <1>2, <2>4 DEF OnlyLiterals
  <2> QED
    BY <2>4, <2>5 DEF CopyLeads, w
<1> QED
  BY <1>4, <1>5, <1>6 DEF Covered

(* Literals leave behind the copy. *)
LEMMA FlushCovers ==
  ASSUME Constant, BufInv, BlockCount \in Nat \ {0}, NEW cut, NEW to, to = Start + lit, Good(cut, out, to),
         Covered(out), NEW upto \in Nat, lit < upto, upto <= Len(buf)
  PROVE  /\ CopyLeads(Flushed(upto))
         /\ OnlyLiterals(out) => OnlyLiterals(Flushed(upto))
<1> DEFINE s == Slice(buf, lit, upto)
           e == EmitCopy(out)
           f == AppendLiteral(e, s)
           there == Start + upto
<1>1. lit \in Nat /\ lit <= upto
  BY BufferFacts
<1>2. s \in Seq(Byte) /\ Carries(Data(s), to, there)
  BY <1>1, PieceOfSource
<1>3. Flushed(upto) = f
  BY DEF Flushed, FlushLiteral
<1> HIDE DEF s, there
<1>4. CopyLeads(e) /\ (OnlyLiterals(out) => OnlyLiterals(e)) /\ e.copy = NoCopy /\ Reaches(cut, out, e, to)
  BY EmitCovers, EmitCopyDoes
<1> HIDE DEF e
<1>5. PICK cut1 : Good(cut1, e, to)
  BY <1>4 DEF Reaches
<1>6. /\ f.copy = NoCopy /\ Reaches(cut1, e, f, there)
      /\ \A i \in Len(e.ops) + 1..Len(f.ops) : f.ops[i].op = "Data"
  BY <1>2, <1>4, <1>5, AppendLiteralDoes
<1> HIDE DEF f
<1>7. e.ops \in Seq(Instrs) /\ f.ops \in Seq(Instrs) /\ Keeps(e, f)
  BY <1>5, <1>6 DEF Reaches, Good, Outs
<1>8. CopyLeads(f)
  BY <1>4, <1>7, LeadStays
<1>9. ASSUME OnlyLiterals(e) PROVE OnlyLiterals(f)
  <2> SUFFICES ASSUME NEW i \in 2..Len(f.ops) PROVE f.ops[i].op = "Data"
    BY <1>6 DEF OnlyLiterals
  <2>1. Len(e.ops) \in Nat /\ Len(f.ops) \in Nat
    BY <1>7
  <2>2. CASE i <= Len(e.ops)
    <3>1. i \in 1..Len(e.ops) /\ i \in 2..Len(e.ops)
      BY <2>1, <2>2
    <3> QED
      BY <1>7, <1>9, <3>1 DEF Keeps, OnlyLiterals
  <2>3. CASE i > Len(e.ops)
    <3>1. i \in Len(e.ops) + 1..Len(f.ops)
      BY <2>1, <2>3
    <3> QED
      BY <1>6, <3>1
  <2> QED
    BY <2>1, <2>2, <2>3
<1> QED
  BY <1>3, <1>4, <1>8, <1>9

LEMMA PrefixBytes ==
  ASSUME Constant, IsPrefix(base, src)
  PROVE  Len(base) <= Len(src) /\ \A k \in 1..Len(base) : base[k] = src[k]
<1> DEFINE n == Len(base)
<1>1. n \in Nat /\ 0 \in Nat /\ 0 <= n /\ n <= Len(src) /\ n <= Len(base) /\ base \in Seq(Byte) /\ src \in Seq(Byte)
      /\ n - 0 = n
  BY DEF Constant, IsPrefix
<1>2. Slice(base, 0, n) = Slice(src, 0, n)
  BY DEF IsPrefix, Slice
<1> HIDE DEF n
<1>3. \A k \in 1..n - 0 : Slice(base, 0, n)[k] = base[0 + k]
  BY ONLY <1>1, SliceProps
<1>4. \A k \in 1..n - 0 : Slice(src, 0, n)[k] = src[0 + k]
  BY ONLY <1>1, SliceProps
<1>5. \A k \in 1..n : base[k] = src[k]
  BY <1>1, <1>2, <1>3, <1>4
<1> QED
  BY <1>1, <1>5 DEF n

(* As long as signed blocks lie ahead, the window is the next of them.       *)
LEMMA OpeningMatches ==
  ASSUME Constant, BufInv, BlockCount \in Nat \ {0}, IsPrefix(base, src),
         NEW i \in 0..BlockCount - 1, Opening(i)
  PROVE  /\ WindowFits => i \in Matches
         /\ eof => WindowFits
<1> DEFINE from == i * bs
           upto == (i + 1) * bs
           e == pos + bs
<1>1. /\ Start \in Nat /\ Start + Len(buf) = rd /\ Len(buf) \in Nat /\ Len(src) \in Nat
      /\ rd \in Nat /\ pos \in Nat /\ bs \in Nat \ {0} /\ Len(base) \in Nat /\ base \in Seq(Byte)
  BY BufferFacts DEF Constant
<1>2. from \in Nat /\ upto = from + bs /\ upto <= Len(base) /\ upto \in Nat
  BY <1>1, SignedFacts
<1>3. Start + pos = from /\ roll = NoRoll
  BY DEF Opening, Here
<1>4. Block(i) = Slice(base, from, upto)
  BY DEF Block
<1> HIDE DEF from, upto
<1>5. ASSUME WindowFits PROVE i \in Matches
  <2>1. e \in Nat /\ pos <= e /\ e <= Len(buf) /\ e - pos = bs /\ Window = Slice(buf, pos, e)
    BY <1>1, <1>5 DEF WindowFits, Window
  <2> HIDE DEF e
  <2>2. /\ Window \in Seq(Byte) /\ Len(Window) = bs
        /\ \A k \in 1..bs : Window[k] = src[Start + pos + k]
    <3>1. /\ Slice(buf, pos, e) \in Seq(Byte) /\ Len(Slice(buf, pos, e)) = e - pos
          /\ \A k \in 1..e - pos : Slice(buf, pos, e)[k] = src[Start + pos + k]
      BY <1>1, <2>1, PieceOfSource
    <3> QED
      BY <2>1, <3>1
  <2>3. Block(i) \in Seq(Byte) /\ Len(Block(i)) = bs /\ \A k \in 1..bs : Block(i)[k] = base[from + k]
    <3>1. from \in Nat /\ upto \in Nat /\ from <= upto /\ upto <= Len(base) /\ upto - from = bs /\ base \in Seq(Byte)
      BY <1>1, <1>2
    <3>2. /\ Slice(base, from, upto) \in Seq(Byte) /\ Len(Slice(base, from, upto)) = upto - from
          /\ \A k \in 1..upto - from : Slice(base, from, upto)[k] = base[from + k]
      BY ONLY <3>1, SliceProps
    <3> QED
      BY <1>4, <3>1, <3>2
  <2>4. \A k \in 1..bs : Block(i)[k] = Window[k]
    <3> SUFFICES ASSUME NEW k \in 1..bs PROVE Block(i)[k] = Window[k]
      OBVIOUS
    <3>1. from + k \in 1..Len(base)
      BY <1>1, <1>2
    <3>2. base[from + k] = src[from + k]
      BY <3>1, PrefixBytes
    <3> QED
      BY <1>3, <2>2, <2>3, <3>2
  <2> DEFINE b == Block(i)
             w == Window
  <2>5. b \in Seq(Byte) /\ w \in Seq(Byte) /\ Len(b) = Len(w) /\ \A k \in 1..Len(b) : b[k] = w[k]
    BY <2>2, <2>3, <2>4
  <2> HIDE DEF b, w
  <2>6. b = w
    BY <2>5, SeqEqual
  <2>7. Checksum = Rolling(Window) /\ Block(i) = Window
    BY <1>3, <2>6 DEF Checksum, b, w
  <2>8. i \in StrongMatches(Checksum, Window)
    BY <2>7, Zenon DEF StrongMatches, Candidates
  <2> QED
    BY <1>5, <2>8 DEF Matches
<1>6. ASSUME eof PROVE WindowFits
  <2>1. rd = Len(src) /\ Len(base) <= Len(src)
    BY <1>6, PrefixBytes DEF BufInv
  <2> QED
    BY <1>1, <1>2, <1>3, <2>1 DEF WindowFits
<1> QED
  BY <1>5, <1>6

(* The open copy grows by that block. *)
LEMMA OpeningGrows ==
  ASSUME DeltaInv, BlockCount \in Nat \ {0}, IsPrefix(base, src),
         NEW i \in 0..BlockCount - 1, Opening(i), TakeBlock
  PROVE  /\ Start' + pos' = i * bs + bs /\ lit' = pos' /\ roll' = NoRoll
         /\ out' = [ops |-> <<>>, pending |-> <<>>, copy |-> Copy(0, i * bs + bs)]
<1> DEFINE at == i * bs
           c == out.copy
           start == Match * bs
<1>0. Constant /\ BufInv
  BY DEF DeltaInv
<1>1. /\ pos' = pos + bs /\ lit' = pos' /\ roll' = NoRoll /\ Start' = Start /\ Matches # {}
      /\ out' = IF lit = pos /\ c # NoCopy /\ c.start + c.len = start
                THEN [out EXCEPT !.copy.len = @ + bs]
                ELSE [(IF lit < pos THEN Flushed(pos) ELSE EmitCopy(out)) EXCEPT !.copy = Copy(start, bs)]
  BY DEF TakeBlock, Start
<1>2. at \in Nat /\ bs \in Nat \ {0} /\ i \in Nat /\ Start \in Nat /\ pos \in Nat /\ lit = pos /\ Start + pos = at
  BY <1>0, SignedFacts, BufferFacts DEF Constant, Opening, Here
<1>3. /\ c = Copy(0, at) /\ c.start = 0 /\ c.len = at
      /\ out = [ops |-> <<>>, pending |-> <<>>, copy |-> c]
  BY DEF Opening, Copy
<1>4. i \in Matches /\ Matches \subseteq Nat
  <2>1. WindowFits
    BY <1>1 DEF Matches
  <2>2. BlockCount \in Nat
    OBVIOUS
  <2> QED
    BY <1>0, <2>1, <2>2, OpeningMatches DEF Matches, StrongMatches, Candidates
<1>5. CASE i = 0
  <2>1. at = 0 /\ c = NoCopy
    BY <1>2, <1>3, <1>5 DEF NoCopy
  <2>2. Match = Min(Matches)
    BY <2>1 DEF Match
  <2>3. Min(Matches) = 0
    <3> DEFINE m == Min(Matches)
    <3>1. m \in Matches /\ m <= 0
      BY <1>4, <1>5, MinNat
    <3>2. m \in Nat
      BY <1>4, <3>1
    <3> HIDE DEF m
    <3>3. m = 0
      BY <3>1, <3>2
    <3> QED
      BY <3>3 DEF m
  <2>4. start = 0
    BY <1>2, <2>2, <2>3
  <2>5. EmitCopy(out) = out
    BY <2>1 DEF EmitCopy
  <2>6. out' = [out EXCEPT !.copy = Copy(0, bs)]
    <3>1. ~(lit < pos)
      BY <1>2
    <3> QED
      BY <1>1, <2>1, <2>4, <2>5, <3>1
  <2>7. at + bs = bs
    BY <1>2, <2>1
  <2>8. Start' + pos' = at + bs
    BY <1>1, <1>2
  <2> DEFINE w == Copy(0, bs)
  <2> HIDE DEF w, c
  <2>9. out' = [ops |-> <<>>, pending |-> <<>>, copy |-> w]
    BY <1>3, <2>6 DEF w
  <2>10. w = Copy(0, at + bs)
    BY <2>7 DEF w
  <2> QED
    BY <1>1, <2>8, <2>9, <2>10
<1>6. CASE i # 0
  <2>1. at # 0 /\ at \div bs = i
    <3>1. i \in Nat \ {0}
      BY <1>2, <1>6
    <3>2. at \div bs = i
      BY <1>2, DivExact
    <3>3. 1 * bs <= i * bs /\ 1 * bs = bs
      <4>1. 1 \in Nat /\ i \in Nat /\ 1 <= i /\ bs \in Nat
        BY <1>2, <3>1
      <4>2. 1 * bs <= i * bs
        BY ONLY <4>1, TimesMonotone
      <4> QED
        BY <1>2, <4>2
    <3> QED
      BY <1>2, <3>2, <3>3
  <2>2. c # NoCopy
    <3>1. NoCopy.len = 0
      BY InstrProps
    <3> QED
      BY <1>3, <2>1, <3>1
  <2>3. Match = i
    <3>1. (c.start + c.len) \div bs = i
      BY <1>2, <1>3, <2>1
    <3> QED
      BY <1>4, <2>2, <3>1 DEF Match
  <2>4. c.start + c.len = start
    BY <1>2, <1>3, <2>3
  <2>5. out' = [out EXCEPT !.copy.len = @ + bs]
    BY <1>1, <1>2, <2>2, <2>4
  <2>6. [c EXCEPT !.len = @ + bs] = Copy(0, at + bs)
    BY <1>3 DEF Copy
  <2>7. out' = [out EXCEPT !.copy = [c EXCEPT !.len = @ + bs]]
    BY <2>5
  <2> DEFINE c2 == [c EXCEPT !.len = @ + bs]
  <2>8. out' = [out EXCEPT !.copy = c2]
    BY <2>7
  <2> HIDE DEF c2, c
  <2>9. out' = [ops |-> <<>>, pending |-> <<>>, copy |-> c2]
    BY <1>3, <2>8
  <2>10. c2 = Copy(0, at + bs)
    BY <2>6 DEF c2
  <2>11. Start' + pos' = at + bs
    BY <1>1, <1>2
  <2> QED
    BY <1>1, <2>9, <2>10, <2>11
<1> QED
  BY <1>5, <1>6

LEMMA NextOut ==
  ASSUME UNCHANGED inputs, NEW x, x = out'
  PROVE  /\ CopyLeads(x) => CopyLeads(out)'
         /\ Covered(x) => Covered(out)'
         /\ OnlyLiterals(x) => OnlyLiterals(out)'
         /\ NoBlockMore' = NoBlockMore /\ Signed' = Signed /\ BlockCount' = BlockCount
         /\ IsPrefix(base, src)' = IsPrefix(base, src)
<1>1. BlockCount' = BlockCount /\ bs' = bs /\ src' = src /\ base' = base
  BY DEF inputs, BlockCount
<1>2. Signed' = Signed /\ WholeCopy' = WholeCopy /\ NoBlockMore' = NoBlockMore
  BY <1>1 DEF Signed, WholeCopy, NoBlockMore, Copy
<1>3. CopyLeads(x) => CopyLeads(out)'
  BY <1>2 DEF CopyLeads
<1>4. Covered(x) => Covered(out)'
  BY <1>2, <1>3 DEF Covered
<1>5. OnlyLiterals(x) => OnlyLiterals(out)'
  BY DEF OnlyLiterals, NoCopy, Copy
<1> QED
  BY <1>1, <1>2, <1>3, <1>4, <1>5 DEF IsPrefix

LEMMA PrefixRefill ==
  ASSUME DeltaInv, PrefixInv, IsPrefix(base, src), Refill
  PROVE  (\E i \in 0..BlockCount' - 1 : Opening(i)') \/ Passed'
<1>0. Constant /\ BufInv /\ BlockCount \in Nat \ {0}
  BY DEF DeltaInv, PrefixInv
<1>1. /\ pc = "scan" /\ out' = Flushed(pos) /\ pos' = 0 /\ lit' = 0 /\ roll' = NoRoll
      /\ UNCHANGED inputs /\ bs' = bs
  BY DEF Refill, inputs
<1>2. Start' = Start + pos /\ Here' = Here
  <2>1. Start' = Start + pos
    BY RefillStep
  <2>2. Start \in Nat /\ pos \in Nat
    BY <1>0, BufferFacts
  <2> QED
    BY <1>1, <2>1, <2>2 DEF Here
<1>3. PICK x : x = Flushed(pos)
  OBVIOUS
<1>4. BlockCount' = BlockCount /\ Signed' = Signed
  BY <1>1, <1>3, NextOut
<1>5. CASE \E i \in 0..BlockCount - 1 : Opening(i)
  <2>1. PICK i \in 0..BlockCount - 1 : Opening(i)
    BY <1>5
  <2>2. out' = out
    <3>1. lit = pos /\ pos \in Nat
      BY <1>0, <2>1, BufferFacts DEF Opening
    <3>2. ~(lit < pos)
      BY <3>1
    <3> QED
      BY <1>1, <3>2 DEF Flushed
  <2>3. Opening(i)'
    BY <1>1, <1>2, <2>1, <2>2 DEF Opening, Copy, NoRoll
  <2> QED
    BY <1>4, <2>3
<1>6. CASE Passed
  <2>1. PICK cut, to : to = Start + lit /\ Good(cut, out, to)
    BY <1>1 DEF DeltaInv, StreamInv, End
  <2>2. Covered(x) /\ (OnlyLiterals(out) => OnlyLiterals(x))
    <3>1. CASE lit < pos
      <4>1. pos \in Nat /\ pos <= Len(buf)
        BY <1>0, BufferFacts
      <4> QED
        BY <1>0, <1>3, <1>6, <2>1, <3>1, <4>1, FlushCovers DEF Passed, Covered
    <3>2. CASE ~(lit < pos)
      <4>1. x = out
        BY <1>3, <3>2 DEF Flushed
      <4> QED
        BY <1>6, <4>1 DEF Passed
    <3> QED
      BY <3>1, <3>2
  <2> QED
    BY <1>1, <1>2, <1>3, <1>6, <2>2, NextOut DEF Passed
<1> QED
  BY <1>1, <1>5, <1>6 DEF PrefixInv

LEMMA PrefixTakeBlock ==
  ASSUME DeltaInv, PrefixInv, IsPrefix(base, src), TakeBlock
  PROVE  (\E i \in 0..BlockCount' - 1 : Opening(i)') \/ Passed'
<1> DEFINE c == out.copy
           start == Match * bs
<1>0. Constant /\ BufInv /\ BlockCount \in Nat \ {0}
  BY DEF DeltaInv, PrefixInv
<1>1. /\ pc = "scan" /\ Matches # {} /\ pos' = pos + bs /\ UNCHANGED inputs /\ bs' = bs
      /\ Start' = Start
      /\ out' = IF lit = pos /\ c # NoCopy /\ c.start + c.len = start
                THEN [out EXCEPT !.copy.len = @ + bs]
                ELSE [(IF lit < pos THEN Flushed(pos) ELSE EmitCopy(out)) EXCEPT !.copy = Copy(start, bs)]
  BY DEF TakeBlock, inputs, Start
<1>2. PICK x : x = out'
  OBVIOUS
<1>3. BlockCount' = BlockCount /\ Signed' = Signed /\ NoBlockMore' = NoBlockMore
  BY <1>1, <1>2, NextOut
<1>4. /\ Signed \in Nat \ {0} /\ (BlockCount + 1) * bs = Signed + bs
      /\ \A i \in 0..BlockCount - 1 : i * bs \in Nat /\ i * bs + bs <= Signed /\ (i + 1) * bs = i * bs + bs
  BY <1>0, SignedFacts
<1>5. CASE \E i \in 0..BlockCount - 1 : Opening(i)
  <2>1. PICK i \in 0..BlockCount - 1 : Opening(i)
    BY <1>5
  <2>2. /\ Start' + pos' = i * bs + bs /\ lit' = pos' /\ roll' = NoRoll
        /\ out' = [ops |-> <<>>, pending |-> <<>>, copy |-> Copy(0, i * bs + bs)]
    BY <1>0, <2>1, OpeningGrows
  <2>3. (i + 1) * bs = i * bs + bs
    BY <1>4
  <2>4. CASE i + 1 < BlockCount
    <3> DEFINE j == i + 1
    <3>1. j \in 0..BlockCount' - 1
      BY <1>0, <1>3, <2>4
    <3>2. j * bs' = i * bs + bs
      BY <1>1, <2>3
    <3> HIDE DEF j
    <3>3. Opening(j)'
      BY <2>2, <3>2 DEF Opening, Here, Copy, NoRoll
    <3> QED
      BY <3>1, <3>3
  <2>5. CASE i + 1 = BlockCount
    <3>1. i * bs + bs = Signed
      BY <2>3, <2>5 DEF Signed
    <3>2. Here' >= Signed'
      BY <1>3, <1>4, <2>2, <3>1 DEF Here
    <3>3. x.ops = <<>> /\ x.pending = <<>> /\ x.copy = WholeCopy
      BY <1>2, <2>2, <3>1 DEF WholeCopy
    <3>4. Covered(x) /\ OnlyLiterals(x)
      BY <3>3 DEF Covered, OnlyLiterals
    <3> QED
      BY <1>1, <1>2, <3>2, <3>4, NextOut DEF Passed
  <2> QED
    BY <1>0, <2>4, <2>5
<1>6. CASE Passed
  <2>1. PICK cut, to : to = Start + lit /\ Good(cut, out, to)
    BY <1>1 DEF DeltaInv, StreamInv, End
  <2>2. /\ pos + bs <= Len(buf) /\ start \in Nat /\ start + bs <= Signed
        /\ Start \in Nat /\ Start + Len(buf) = rd /\ rd <= Len(src) /\ pos \in Nat /\ bs \in Nat \ {0}
        /\ Len(buf) \in Nat /\ Len(src) \in Nat /\ rd \in Nat
    BY <1>0, <1>1, MatchIsWindow, BufferFacts DEF BufInv, Constant, Signed
  <2>3. Here' >= Signed'
    <3>1. Here >= Signed /\ Here' = Here + bs /\ Here \in Nat
      BY <1>1, <1>6, <2>2 DEF Passed, Here
    <3> QED
      BY <1>3, <1>4, <2>2, <3>1
  <2>4. ~NoBlockMore
    <3>1. Start + pos >= Signed
      BY <1>6 DEF Passed, Here
    <3> HIDE DEF start
    <3> QED
      BY <1>4, <2>2, <3>1 DEF NoBlockMore
  <2> HIDE DEF start
  <2>5. CopyLeads(x)
    <3>1. CASE lit = pos /\ c # NoCopy /\ c.start + c.len = start
      <4>1. CopyLeads(out)
        <5>1. SUFFICES ASSUME c = WholeCopy PROVE FALSE
          BY <1>6 DEF Passed, Covered
        <5>2. c.start = 0 /\ c.len = Signed
          BY <5>1 DEF WholeCopy, Copy
        <5> HIDE DEF c
        <5>3. start = Signed
          BY <1>4, <3>1, <5>2
        <5> QED
          BY <1>4, <2>2, <5>3
      <4>2. x.ops = out.ops
        BY <1>1, <1>2, <2>1, <3>1 DEF Good, Outs
      <4> QED
        BY <4>1, <4>2 DEF CopyLeads
    <3>2. CASE ~(lit = pos /\ c # NoCopy /\ c.start + c.len = start)
      <4> DEFINE o1 == IF lit < pos THEN Flushed(pos) ELSE EmitCopy(out)
      <4>1. x = [o1 EXCEPT !.copy = Copy(start, bs)]
        BY <1>1, <1>2, <3>2
      <4>2. CopyLeads(o1) /\ o1 \in Outs
        <5>1. CASE lit < pos
          <6>1. pos \in Nat /\ pos <= Len(buf) /\ lit <= pos
            BY <1>0, BufferFacts
          <6>2. CopyLeads(Flushed(pos))
            BY <1>0, <1>6, <2>1, <5>1, <6>1, FlushCovers DEF Passed
          <6>3. Flushed(pos) \in Outs
            BY <1>0, <2>1, <6>1, FlushedDoes DEF Reaches, Good
          <6> QED
            BY <5>1, <6>2, <6>3
        <5>2. CASE ~(lit < pos)
          <6>1. CopyLeads(EmitCopy(out))
            BY <1>0, <1>6, <2>1, EmitCovers DEF Passed
          <6>2. EmitCopy(out) \in Outs
            BY <2>1, EmitCopyDoes DEF Reaches, Good
          <6> QED
            BY <5>2, <6>1, <6>2
        <5> QED
          BY <5>1, <5>2
      <4> HIDE DEF o1
      <4>3. x.ops = o1.ops
        BY <4>1, <4>2 DEF Outs
      <4> QED
        BY <4>2, <4>3 DEF CopyLeads
    <3> QED
      BY <3>1, <3>2
  <2>6. CopyLeads(out)'
    BY <1>1, <1>2, <2>5, NextOut
  <2> QED
    BY <1>3, <2>3, <2>4, <2>6 DEF Passed, Covered
<1> QED
  BY <1>1, <1>5, <1>6 DEF PrefixInv

(* Next to no block the scan cannot be: there the window matches. *)
LEMMA PrefixSlide ==
  ASSUME DeltaInv, PrefixInv, IsPrefix(base, src), Slide
  PROVE  Passed'
<1>0. Constant /\ BufInv /\ BlockCount \in Nat \ {0}
  BY DEF DeltaInv, PrefixInv
<1>1. /\ pc = "scan" /\ Matches = {} /\ pos + 1 + bs <= Len(buf) /\ pos' = pos + 1
      /\ UNCHANGED inputs /\ out' = out /\ Start' = Start
  BY DEF Slide, Start
<1>2. /\ Start \in Nat /\ pos \in Nat /\ Len(buf) \in Nat /\ bs \in Nat \ {0} /\ Signed \in Nat
  BY <1>0, BufferFacts, SignedFacts DEF Constant
<1>3. WindowFits
  BY <1>1, <1>2 DEF WindowFits
<1>4. Passed
  BY <1>0, <1>1, <1>3, OpeningMatches DEF PrefixInv
<1>5. PICK x : x = out'
  OBVIOUS
<1>6. Signed' = Signed /\ NoBlockMore' = NoBlockMore /\ (Covered(x) => Covered(out)')
      /\ (OnlyLiterals(x) => OnlyLiterals(out)')
  BY <1>1, <1>5, NextOut
<1>7. Here' >= Signed'
  <2>1. Start + pos >= Signed
    BY <1>4 DEF Passed, Here
  <2>2. Start + (pos + 1) >= Signed
    BY <1>2, <2>1
  <2> QED
    BY <1>1, <1>6, <2>2 DEF Here
<1> QED
  BY <1>1, <1>4, <1>5, <1>6, <1>7 DEF Passed

LEMMA PrefixFinish ==
  ASSUME DeltaInv, PrefixInv, IsPrefix(base, src), Finish
  PROVE  CopyLeads(out)' /\ (NoBlockMore' => OnlyLiterals(out)')
<1> DEFINE n == Len(buf)
           o1 == Flushed(n)
           o2 == EmitCopy(o1)
           o3 == LastFrame(o2)
           there == Start + n
<1>0. Constant /\ BufInv /\ BlockCount \in Nat \ {0}
  BY DEF DeltaInv, PrefixInv
<1>1. /\ pc = "scan" /\ eof /\ Matches = {} /\ UNCHANGED inputs /\ out' = o3
  <2>1. out' = IF o2.pending = <<>> THEN o2
               ELSE [o2 EXCEPT !.ops = Append(@, Data(o2.pending)), !.pending = <<>>]
    BY DEF Finish
  <2> HIDE DEF o2
  <2>2. out' = o3
    BY <2>1 DEF LastFrame, Updated
  <2> QED
    BY <2>2 DEF Finish, Starved
<1>2. Passed
  BY <1>0, <1>1, OpeningMatches DEF PrefixInv
<1>3. PICK cut, to : to = Start + lit /\ Good(cut, out, to)
  BY <1>1 DEF DeltaInv, StreamInv, End
<1>4. n \in Nat /\ lit <= n /\ lit \in Nat /\ n <= Len(buf)
  BY <1>0, BufferFacts
<1> HIDE DEF n
<1>5. Reaches(cut, out, o1, there)
  BY <1>0, <1>3, <1>4, FlushedDoes
<1>6. Covered(o1) /\ (OnlyLiterals(out) => OnlyLiterals(o1))
  <2>1. CASE lit < n
    BY <1>0, <1>2, <1>3, <1>4, <2>1, FlushCovers DEF Passed, Covered
  <2>2. CASE ~(lit < n)
    <3>1. o1 = out
      BY <2>2 DEF Flushed
    <3> QED
      BY <1>2, <3>1 DEF Passed
  <2> QED
    BY <2>1, <2>2
<1> HIDE DEF o1, there
<1>7. PICK cut1 : Good(cut1, o1, there)
  BY <1>5 DEF Reaches
<1>8. /\ CopyLeads(o2) /\ (OnlyLiterals(o1) => OnlyLiterals(o2))
      /\ o2.copy = NoCopy /\ Reaches(cut1, o1, o2, there)
  BY <1>0, <1>6, <1>7, EmitCovers, EmitCopyDoes
<1> HIDE DEF o2
<1>9. PICK cut2 : Good(cut2, o2, there)
  BY <1>8 DEF Reaches
<1>10. o3.copy = NoCopy /\ o3.pending = <<>> /\ Reaches(cut2, o2, o3, there)
  BY <1>8, <1>9, LastFrameDoes
<1>11. o2 \in Outs /\ o2.ops \in Seq(Instrs) /\ o3.ops \in Seq(Instrs) /\ Keeps(o2, o3)
  BY <1>9, <1>10 DEF Reaches, Good, Outs
<1>12. CopyLeads(o3)
  BY <1>8, <1>11, LeadStays
<1>13. ASSUME OnlyLiterals(o2) PROVE OnlyLiterals(o3)
  <2>1. CASE o2.pending = <<>>
    BY <1>13, <2>1 DEF LastFrame
  <2>2. CASE o2.pending # <<>>
    <3> DEFINE d == Data(o2.pending)
               ops == o2.ops
    <3>1. o3.ops = Append(ops, d)
      <4> DEFINE v == Append(ops, d)
      <4>1. o3 = Updated(o2, v, <<>>)
        BY <2>2 DEF LastFrame
      <4> HIDE DEF v, o3
      <4>2. o3 = [ops |-> v, pending |-> <<>>, copy |-> o2.copy]
        BY <1>11, <4>1, OutsUpdated
      <4>3. o3.ops = v
        BY <4>2
      <4> QED
        BY <4>3 DEF v
    <3>2. d \in Instrs /\ d.op = "Data"
      BY <1>11, DataProps DEF Outs
    <3> HIDE DEF d, o3
    <3>3. /\ Len(Append(ops, d)) = Len(ops) + 1 /\ Append(ops, d)[Len(ops) + 1] = d /\ Len(ops) \in Nat
          /\ \A i \in 1..Len(ops) : Append(ops, d)[i] = ops[i]
      BY <1>11, <3>2, AppendProperties
    <3>4. ASSUME NEW i \in 2..Len(o3.ops) PROVE o3.ops[i].op = "Data"
      <4>1. CASE i = Len(ops) + 1
        BY <3>1, <3>2, <3>3, <4>1
      <4>2. CASE i # Len(ops) + 1
        <5>1. i \in 2..Len(ops) /\ i \in 1..Len(ops)
          BY <3>1, <3>3, <4>2
        <5> QED
          BY <1>13, <3>1, <3>3, <5>1 DEF OnlyLiterals
      <4> QED
        BY <4>1, <4>2
    <3> QED
      BY <1>10, <3>4 DEF OnlyLiterals
  <2> QED
    BY <2>1, <2>2
<1> HIDE DEF o3
<1>14. PICK x : x = o3
  OBVIOUS
<1>15. NoBlockMore' = NoBlockMore
  BY <1>1, <1>14, NextOut
<1> QED
  BY <1>1, <1>2, <1>6, <1>8, <1>12, <1>13, <1>14, <1>15, NextOut DEF Passed

LEMMA PrefixNext ==
  ASSUME DeltaInv, PrefixInv, [Next]_vars
  PROVE  PrefixInv'
<1>1. UNCHANGED inputs
  BY DEF Next, SenderStep, ReceiverStep, Refill, TakeBlock, Slide, Finish, ReadFails, Apply, Abort,
         FinishFile, BaseChanges, Done, vars
<1>2. PICK x : x = out'
  OBVIOUS
<1>3. BlockCount' = BlockCount /\ IsPrefix(base, src)' = IsPrefix(base, src) /\ NoBlockMore' = NoBlockMore
      /\ Signed' = Signed /\ bs' = bs
  BY <1>1, <1>2, NextOut DEF inputs
<1> SUFFICES ASSUME IsPrefix(base, src)
             PROVE  /\ pc' = "scan" => (\E i \in 0..BlockCount' - 1 : Opening(i)') \/ Passed'
                    /\ pc' = "done" => CopyLeads(out)' /\ (NoBlockMore' => OnlyLiterals(out)')
  BY <1>3 DEF PrefixInv
<1>4. CASE Refill
  BY <1>4, PrefixRefill DEF Refill
<1>5. CASE TakeBlock
  BY <1>5, PrefixTakeBlock DEF TakeBlock
<1>6. CASE Slide
  BY <1>6, PrefixSlide DEF Slide
<1>7. CASE Finish
  BY <1>7, PrefixFinish DEF Finish
<1>8. CASE ReadFails
  BY <1>8 DEF ReadFails
<1>9. CASE UNCHANGED sender
  <2>1. /\ pc' = pc /\ buf' = buf /\ pos' = pos /\ lit' = lit /\ roll' = roll /\ rd' = rd /\ out' = out
    BY <1>9 DEF sender
  <2>2. Here' = Here
    BY <2>1 DEF Here, Start
  <2>3. \A i : Opening(i) => Opening(i)'
    BY <1>3, <2>1, <2>2 DEF Opening, NoRoll, Copy
  <2>4. Passed => Passed'
    BY <1>1, <1>2, <1>3, <2>1, <2>2, NextOut DEF Passed
  <2>5. CopyLeads(out) /\ (NoBlockMore => OnlyLiterals(out))
        => CopyLeads(out)' /\ (NoBlockMore' => OnlyLiterals(out)')
    BY <1>1, <1>2, <1>3, <2>1, NextOut
  <2> QED
    BY <1>3, <2>1, <2>3, <2>4, <2>5 DEF PrefixInv
<1> QED
  <2>1. Apply \/ Abort \/ FinishFile \/ BaseChanges \/ UNCHANGED vars => UNCHANGED sender
    BY DEF Apply, Abort, FinishFile, BaseChanges, vars
  <2> QED
    BY <1>4, <1>5, <1>6, <1>7, <1>8, <1>9, <2>1 DEF Next, SenderStep, ReceiverStep, Done

LEMMA PrefixInit ==
  ASSUME Init
  PROVE  PrefixInv
<1>1. Constant
  BY DeltaInit DEF DeltaInv
<1>2. BlockCount \in Nat \ {0}
  <2>1. Len(base) \in Nat /\ bs \in Nat \ {0}
    BY <1>1 DEF Constant
  <2>2. BlockCount \in Nat
    BY <2>1, DivBounds DEF BlockCount
  <2> QED
    BY <2>2 DEF Init, worth_delta
<1>3. /\ pc = "scan" /\ buf = <<>> /\ pos = 0 /\ lit = 0 /\ rd = 0 /\ roll = NoRoll
      /\ out = [ops |-> <<>>, pending |-> <<>>, copy |-> NoCopy]
  BY DEF Init
<1>4. Opening(0) /\ 0 \in 0..BlockCount - 1
  <2>1. 0 * bs = 0
    BY <1>1 DEF Constant
  <2>2. Here = 0
    <3>1. Len(buf) = 0 /\ rd = 0 /\ pos = 0
      BY <1>3
    <3> QED
      BY <3>1 DEF Here, Start
  <2> QED
    BY <1>2, <1>3, <2>1, <2>2 DEF Opening, NoCopy
<1> QED
  BY <1>2, <1>3, <1>4 DEF PrefixInv

(* A file that only grew at its end costs one copy instruction for all the   *)
(* signed blocks, the first one, and no other copy unless a whole further    *)
(* block was added: whatever repeats in it, produce_delta goes on with the   *)
(* block that continues the open copy.                                       *)
THEOREM DeltaOneCopy == Spec => []OneCopyForPrefix
<1>1. Init => DeltaInv /\ PrefixInv
  BY DeltaInit, PrefixInit
<1>2. DeltaInv /\ PrefixInv /\ [Next]_vars => (DeltaInv /\ PrefixInv)'
  BY DeltaNext, PrefixNext
<1>3. PrefixInv => OneCopyForPrefix
  BY DEF PrefixInv, OneCopyForPrefix, CopyLeads, WholeCopy, Signed, OnlyLiterals, NoBlockMore
<1> QED
  BY <1>1, <1>2, <1>3, PTL DEF Spec

============================================================================
