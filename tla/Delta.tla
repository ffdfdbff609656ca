------------------------------- MODULE Delta -------------------------------
(***************************************************************************)
(* The delta transfer of one file (delta.rs): the receiver's block         *)
(* signatures, the sender's sliding-window match produce_delta, one loop   *)
(* iteration per action, and the receiver's FileWriter that rebuilds the   *)
(* file from Copy and Data instructions and publishes it.                  *)
(*                                                                         *)
(* A file is a sequence of small numbers.  The strong hash of a block is   *)
(* taken to be injective, so it is the block itself; the weak checksum is  *)
(* computed as in the code, modulo WeakMod, and does collide.  Offsets     *)
(* count from 0 as in the code; sequences count from 1.                    *)
(***************************************************************************)
EXTENDS Integers, Sequences, FiniteSets, FiniteSetsExt, SequencesExt

CONSTANTS
  Byte,          \* the values of a byte
  MaxBase,       \* longest base file
  MaxSource,     \* longest source file
  WeakMod,       \* 2^16 in the code
  SmallBlock,    \* block size of files up to LargeFile,
  LargeBlock,    \* and of larger ones (the code has four such tiers)
  LargeFile,
  DeltaMinSize,  \* DELTA_MIN_SIZE
  SigCost,       \* bytes of file that make one signature worth sending
  Chunk,         \* CHUNK: the longest Data frame
  ReadChunk,     \* READ_CHUNK: what the buffer holds besides one block
  MayChange,     \* whether source or base may change during the transfer
  MayFail        \* whether reading the source may fail

ASSUME DeltaConstants ==
  /\ Byte \subseteq Nat /\ Byte # {} /\ IsFiniteSet(Byte)
  /\ {MaxBase, MaxSource, LargeFile, DeltaMinSize, SigCost} \subseteq Nat
  /\ {WeakMod, SmallBlock, LargeBlock, Chunk, ReadChunk} \subseteq Nat \ {0}
  /\ MayChange \in BOOLEAN /\ MayFail \in BOOLEAN

VARIABLES
  base,      \* the receiver's copy when it was scanned
  bs,        \* block size
  src,       \* what the sender reads
  promised,  \* content the manifest announced
  \* sender
  pc, buf, pos, lit, eof, roll, rd,
  out,       \* instructions sent, literals batched, copy still open
  \* receiver
  wpc,
  applied,   \* instructions carried out
  written,   \* content of the temporary file
  dest       \* content at the destination, which is also the base that is copied from

inputs == <<base, bs, src, promised>>
sender == <<pc, buf, pos, lit, eof, roll, rd, out>>
receiver == <<wpc, applied, written, dest>>
vars == <<inputs, sender, receiver>>

Files(n) == UNION {[1..k -> Byte] : k \in 0..n}

(* bytes from..upto-1 of a buffer, as Rust's buf[from..upto] *)
Slice(s, from, upto) == SubSeq(s, from + 1, upto)

----------------------------------------------------------------------------
(* Checksums and signatures.                                                *)

(* Rolling::new: byte sum and position-weighted sum *)
Rolling(w) ==
  [a |-> FoldLeft(+, 0, w) % WeakMod,
   b |-> FoldLeft(+, 0, [i \in DOMAIN w |-> (Len(w) - i + 1) * w[i]]) % WeakMod]

(* mutant: the weighted sum is updated with the old byte sum *)
RollStale(r, n, outb, inb) ==
  [a |-> (r.a - outb + inb) % WeakMod, b |-> (r.b - n * outb + r.a) % WeakMod]

(* Rolling::roll of a window of n bytes: outb leaves, inb enters *)
Roll(r, n, outb, inb) ==
  LET a == (r.a - outb + inb) % WeakMod
  IN  [a |-> a, b |-> (r.b - n * outb + a) % WeakMod]

NoRoll == [a |-> -1, b |-> -1]

(* choose_block_size: never larger than the file, never 0 *)
choose_block_size(n) ==
  Max({1, Min({IF n > LargeFile THEN LargeBlock ELSE SmallBlock, Max({n, 1})})})

(* SigSet::scan signs full blocks only *)
BlockCount == Len(base) \div bs
Block(i) == Slice(base, i * bs, (i + 1) * bs)

worth_delta(nbase, nsrc, blocks) ==
  /\ nbase >= DeltaMinSize /\ nsrc >= DeltaMinSize /\ blocks # 0
  /\ blocks * SigCost <= nsrc /\ blocks * SigCost <= nbase

(* SigIndex: the blocks listed under a weak checksum, then the strong match *)
Candidates(digest) == {i \in 0..BlockCount - 1 : Rolling(Block(i)) = digest}
StrongMatches(digest, w) == {i \in Candidates(digest) : Block(i) = w}

----------------------------------------------------------------------------
(* The batcher of produce_delta: a record of the instructions emitted, the   *)
(* literal bytes waiting for a full frame and the copy still open.           *)

Data(bytes) == [op |-> "Data", bytes |-> bytes]
Copy(start, len) == [op |-> "Copy", start |-> start, len |-> len]
NoCopy == Copy(0, 0)

(* mutant: the copy overtakes the literals that precede it *)
EmitCopyFirst(o) ==
  IF o.copy = NoCopy THEN o
  ELSE [o EXCEPT !.ops = Append(@, o.copy), !.copy = NoCopy]

(* emit_copy: the literals before the copy go first *)
EmitCopy(o) ==
  IF o.copy = NoCopy THEN o
  ELSE [ops |-> o.ops \o (IF o.pending = <<>> THEN <<>> ELSE <<Data(o.pending)>>)
                      \o <<o.copy>>,
        pending |-> <<>>, copy |-> NoCopy]

(* mutant: the literals of one append leave as one frame *)
AppendLiteralWhole(o, bytes) ==
  LET all == o.pending \o bytes
  IN  IF Len(all) < Chunk THEN [o EXCEPT !.pending = all]
      ELSE [o EXCEPT !.ops = Append(@, Data(all)), !.pending = <<>>]

(* mutant: a frame that is just full still waits *)
AppendLiteralLazy(o, bytes) ==
  LET all == o.pending \o bytes
      full == (Len(all) - 1) \div Chunk
  IN  [o EXCEPT !.ops = @ \o [k \in 1..full |-> Data(Slice(all, (k - 1) * Chunk, k * Chunk))],
                !.pending = Slice(all, full * Chunk, Len(all))]

(* append: full frames leave, the rest waits *)
AppendLiteral(o, bytes) ==
  LET all == o.pending \o bytes
      full == Len(all) \div Chunk
  IN  [o EXCEPT !.ops = @ \o [k \in 1..full |-> Data(Slice(all, (k - 1) * Chunk, k * Chunk))],
                !.pending = Slice(all, full * Chunk, Len(all))]

FlushLiteral(o, bytes) == AppendLiteral(EmitCopy(o), bytes)

(* the literals between lit and upto, if there are any *)
Flushed(upto) == IF lit < upto THEN FlushLiteral(out, Slice(buf, lit, upto)) ELSE out

Init ==
  /\ base \in Files(MaxBase) /\ src \in Files(MaxSource)
  /\ bs = choose_block_size(Len(base))
  /\ worth_delta(Len(base), Len(src), BlockCount)
  /\ promised \in IF MayChange THEN {src, Append(src, Head(src))} ELSE {src}
  /\ promised # base
  /\ pc = "scan" /\ buf = <<>> /\ pos = 0 /\ lit = 0 /\ eof = FALSE /\ roll = NoRoll /\ rd = 0
  /\ out = [ops |-> <<>>, pending |-> <<>>, copy |-> NoCopy]
  /\ wpc = "writing" /\ applied = 0 /\ written = <<>> /\ dest = base

----------------------------------------------------------------------------
(* The sender.                                                              *)

WindowFits == pos + bs <= Len(buf)
Window == Slice(buf, pos, pos + bs)
Checksum == IF roll = NoRoll THEN Rolling(Window) ELSE roll
Matches == IF WindowFits THEN StrongMatches(Checksum, Window) ELSE {}

(* neither a match here nor a byte to slide to: more input is needed *)
Starved == Matches = {} /\ pos + 1 + bs > Len(buf)

(* mutant: a read that returns little is taken for the end of the file *)
AtEofShort(n) == n < ReadChunk

(* mutant: the end of the file is never noted *)
EofNever(n) == FALSE

(* only a read that returns nothing is the end of the file *)
AtEof(n) == n = 0

(* Literals are flushed, the buffer is compacted, and one read returns any   *)
(* number of bytes that fit, none only at the end of the file.               *)
Refill ==
  /\ pc = "scan" /\ ~eof /\ Starved
  /\ out' = Flushed(pos)
  /\ LET kept == Len(buf) - pos
         room == ReadChunk + bs - kept
     IN  \E n \in IF rd = Len(src) THEN {0} ELSE 1..Min({room, Len(src) - rd}) :
           /\ buf' = Slice(buf, pos, Len(buf)) \o Slice(src, rd, rd + n)
           /\ rd' = rd + n /\ eof' = AtEof(n)
  /\ pos' = 0 /\ lit' = 0 /\ roll' = NoRoll
  /\ UNCHANGED <<inputs, pc, receiver>>

(* mutant: the first candidate wins, open copy or not *)
MatchFirst == Min(Matches)

(* the block that continues the open copy if it matches, else the first one *)
Match ==
  LET want == (out.copy.start + out.copy.len) \div bs
  IN  IF out.copy # NoCopy /\ want \in Matches THEN want ELSE Min(Matches)

TakeBlock ==
  /\ pc = "scan" /\ Matches # {}
  /\ LET start == Match * bs
         c == out.copy
     IN  out' = IF lit = pos /\ c # NoCopy /\ c.start + c.len = start
                  THEN [out EXCEPT !.copy.len = @ + bs]
                  ELSE [(IF lit < pos THEN Flushed(pos) ELSE EmitCopy(out))
                          EXCEPT !.copy = Copy(start, bs)]
  /\ pos' = pos + bs /\ lit' = pos + bs /\ roll' = NoRoll
  /\ UNCHANGED <<inputs, pc, buf, eof, rd, receiver>>

Slide ==
  /\ pc = "scan" /\ Matches = {} /\ pos + 1 + bs <= Len(buf)
  /\ roll' = Roll(Checksum, bs, buf[pos + 1], buf[pos + bs + 1])
  /\ pos' = pos + 1
  /\ UNCHANGED <<inputs, pc, buf, lit, eof, rd, out, receiver>>

(* the end of the file: the last literals, the open copy, the last frame *)
Finish ==
  /\ pc = "scan" /\ eof /\ Starved
  /\ LET o == EmitCopy(Flushed(Len(buf)))
     IN  out' = IF o.pending = <<>> THEN o
                ELSE [o EXCEPT !.ops = Append(@, Data(o.pending)), !.pending = <<>>]
  /\ pc' = "done"
  /\ UNCHANGED <<inputs, buf, pos, lit, eof, roll, rd, receiver>>

(* a read of the source fails; the transfer ends without a FileEnd *)
ReadFails ==
  /\ MayFail
  /\ pc = "scan" /\ ~eof /\ Starved
  /\ pc' = "failed"
  /\ UNCHANGED <<inputs, buf, pos, lit, eof, roll, rd, out, receiver>>

----------------------------------------------------------------------------
(* The receiver's FileWriter.                                               *)

Instr == out.ops[applied + 1]

(* what an instruction adds to the file, given the base it copies from *)
Bytes(op, from) ==
  IF op.op = "Data" THEN op.bytes ELSE Slice(from, op.start, op.start + op.len)

(* read_exact of the base, and the overrun check *)
CanApply ==
  /\ Instr.op = "Copy" => Instr.start + Instr.len <= Len(dest)
  /\ Len(written) + Len(Bytes(Instr, dest)) <= Len(promised)

(* write_literal, copy_from_base *)
Apply ==
  /\ wpc = "writing" /\ applied < Len(out.ops)
  /\ CanApply
  /\ written' = written \o Bytes(Instr, dest)
  /\ applied' = applied + 1
  /\ UNCHANGED <<inputs, sender, wpc, dest>>

(* an instruction that cannot be carried out, or no FileEnd at all: abort *)
Abort ==
  /\ wpc = "writing"
  /\ \/ applied < Len(out.ops) /\ ~CanApply
     \/ applied = Len(out.ops) /\ pc = "failed"
  /\ wpc' = "refused"
  /\ UNCHANGED <<inputs, sender, applied, written, dest>>

(* FileWriter::finish at FileEnd: size and content hash, then rename *)
FinishFile ==
  /\ wpc = "writing" /\ pc = "done" /\ applied = Len(out.ops)
  /\ IF written = promised THEN wpc' = "published" /\ dest' = written
                           ELSE wpc' = "refused" /\ UNCHANGED dest
  /\ UNCHANGED <<inputs, sender, applied, written>>

(* external: somebody edits the receiver's copy in place, which the open     *)
(* base file sees: the last byte is gone or another                          *)
BaseChanges ==
  /\ MayChange
  /\ wpc = "writing" /\ dest = base
  /\ dest' \in {Front(base), Append(Front(base), Head(src))} \ {base}
  /\ UNCHANGED <<inputs, sender, wpc, applied, written>>

Done == wpc # "writing" /\ UNCHANGED vars

SenderStep == Refill \/ TakeBlock \/ Slide \/ Finish
ReceiverStep == Apply \/ Abort \/ FinishFile

Next == SenderStep \/ ReadFails \/ ReceiverStep \/ BaseChanges \/ Done

Spec == Init /\ [][Next]_vars

(* both loops keep running: files are finite and every read returns *)
FairSpec == Spec /\ WF_vars(SenderStep) /\ WF_vars(ReceiverStep)

----------------------------------------------------------------------------
(* Every variable ranges over the states the code can be in, and the indices *)
(* into the buffer stay inside it.                                           *)
TypeOK ==
  /\ pc \in {"scan", "done", "failed"} /\ eof \in BOOLEAN
  /\ Len(buf) <= ReadChunk + bs
  /\ 0 <= lit /\ lit <= pos /\ pos <= Len(buf)
  /\ rd \in 0..Len(src)
  /\ Len(out.pending) < Chunk
  /\ wpc \in {"writing", "published", "refused"}
  /\ applied \in 0..Len(out.ops)

(* The checksum carried along by Rolling::roll is the one a fresh            *)
(* Rolling::new of the same window gives, through every slide, refill and    *)
(* match, so a block the receiver has is never missed at this place.         *)
RollExact == roll # NoRoll /\ pc = "scan" => WindowFits /\ roll = Rolling(Window)

(* At every moment of produce_delta the instructions sent, the batched       *)
(* literals, the open copy and the unscanned buffer spell, in this order,    *)
(* exactly the bytes read from the source so far.                            *)
StreamExact ==
  LET sent == FoldLeft(LAMBDA s, op : s \o Bytes(op, base), <<>>, out.ops)
      rest == IF pc = "done" THEN <<>> ELSE Slice(buf, lit, Len(buf))
  IN  sent \o out.pending \o Bytes(out.copy, base) \o rest = Slice(src, 0, rd)

(* Every frame of produce_delta is one the receiver accepts: literals are    *)
(* not empty and fit a frame, copies are whole blocks inside the base.       *)
FramesFit ==
  \A i \in DOMAIN out.ops :
    LET op == out.ops[i] IN
      IF op.op = "Data" THEN Len(op.bytes) \in 1..Chunk
      ELSE op.len > 0 /\ op.start + op.len <= BlockCount * bs

(* The comment of produce_delta: consecutive blocks are merged.  A file that *)
(* only grew at its end costs one copy instruction for all of its signed     *)
(* blocks, the first one, and no other copy unless a whole block was added,  *)
(* however repetitive its content is.                                        *)
OneCopyForPrefix ==
  pc = "done" /\ IsPrefix(base, src) =>
    /\ out.ops[1] = Copy(0, BlockCount * bs)
    /\ Len(src) < (BlockCount + 1) * bs => \A i \in 2..Len(out.ops) : out.ops[i].op = "Data"

(* The receiver refuses a delta only when something really changed or failed *)
(* in between: source against manifest, base against signatures, or a read.  *)
RefusedOnlyOnChange ==
  wpc = "refused" => promised # src \/ dest # base \/ pc = "failed"

(* Every transfer of a file ends: published or refused. *)
Ends == <>(wpc # "writing")

============================================================================
