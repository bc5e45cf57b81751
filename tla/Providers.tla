------------------------------ MODULE Providers ------------------------------
(***************************************************************************)
(* The compression providers: how the data of an entry are read from the   *)
(* middle.                                                                  *)
(*                                                                         *)
(* Compressed data are a sequence of cells.  For STORE a cell is a byte.    *)
(* For DEFLATE it is a block, whose symbols are bytes, or -d for a copy of  *)
(* the byte d back in the output: decoding from the middle needs the last   *)
(* Window bytes of what came before.                                        *)
(***************************************************************************)
EXTENDS Integers, SequencesExt

CONSTANTS
  Window,      \* DEFLATE_WINDOW_SIZE
  Interval,    \* checkpoint_interval
  BlockSize    \* symbols that the compressor puts into a block

ASSUME ProvidersAssumption ==
  {Window, Interval, BlockSize} \subseteq Nat \ {0}

\* A sequence, of whatever it holds.
AnySeq(s) == s \in Seq(ToSet(s))

Ok(bytes) == [err |-> "none", bytes |-> bytes]
Err(why)  == [err |-> why, bytes |-> <<>>]

\* Whatever a cell of another kind is read as.
Garbage == 255
ByteOf(c) == IF c.cell = "stored" THEN c.b ELSE Garbage

StoredByte(b)      == [cell |-> "stored", b |-> b]
Block(syms, final) == [cell |-> "block", syms |-> syms, final |-> final]
\* Data of a method without provider: what it would decode to.
Opaque(bytes)      == [cell |-> "opaque", bytes |-> bytes]

ProviderOf(method) ==
  CASE method = 0 -> "Store" [] method = 8 -> "Deflate" [] method = 93 -> "Zstd"
    [] OTHER -> "Unsupported"
Builtin == {"Store", "Deflate"}

InRange(off, len, size) == off + len <= size

-----------------------------------------------------------------------------
(* STORE *)

NoCheckpoint == [at |-> 0, off |-> 0, window |-> <<>>]

StoreRange(data, cp, off, len, size) ==
  IF cp # NoCheckpoint THEN Err("checkpoint")
  ELSE IF ~InRange(off, len, size) THEN Err("range")
  ELSE IF off + len > Len(data) THEN Err("corrupt")
  ELSE Ok([i \in 1..len |-> ByteOf(data[off + i])])

-----------------------------------------------------------------------------
(* DEFLATE *)

\* inflate: the output after some symbols, until one makes no sense.
Output(out, stuck) == [out |-> out, stuck |-> stuck]
Symbol(st, s) ==
  IF st.stuck THEN st
  ELSE IF s >= 0 THEN Output(Append(st.out, s), FALSE)
  ELSE IF -s > Len(st.out) \/ -s > Window THEN Output(st.out, TRUE)
  ELSE Output(Append(st.out, st.out[Len(st.out) + 1 + s]), FALSE)
Inflate(before, syms) ==
  LET after[n \in 0..Len(syms)] ==
        IF n = 0 THEN Output(before, FALSE) ELSE Symbol(after[n - 1], syms[n])
  IN after[Len(syms)]

\* The symbols behind n blocks, to the last block or to the end of the data.
SymbolsOf(c) == IF c.cell = "block" THEN c.syms ELSE <<>>
EndsStream(c) == IF c.cell = "block" THEN c.final ELSE TRUE
SymbolsAfter(data, n) ==
  LET ends == {i \in (n + 1)..Len(data) : EndsStream(data[i])}
      last == IF ends = {} THEN Len(data) ELSE Min(ends)
  IN FlattenSeq([k \in 1..(last - n) |-> SymbolsOf(data[n + k])])

\* Mutant: a window shorter than Window is aligned to the left.
MakeCheckpoint_LeftAligned(out, at) ==
  LET valid == IF Len(out) < Window THEN Len(out) ELSE Window IN
  [at |-> at, off |-> Len(out),
   window |-> [k \in 1..Window |->
                 IF k <= valid THEN out[Len(out) - valid + k] ELSE 0]]

\* make_checkpoint: the last bytes of the output, aligned to the right.
MakeCheckpoint(out, at) ==
  LET valid == IF Len(out) < Window THEN Len(out) ELSE Window IN
  [at |-> at, off |-> Len(out),
   window |-> [k \in 1..Window |->
                 IF k > Window - valid THEN out[Len(out) - Window + k] ELSE 0]]

Dictionary(cp) ==
  LET valid == IF cp.off < Window THEN cp.off ELSE Window
  IN SubSeq(cp.window, Window - valid + 1, Window)

\* build_checkpoints: at the end of every block that is due and not the last.
\* Output beyond the declared size, or none that makes sense, is an error.
Due(st, out, final) ==
  ~final /\ Len(out) > 0 /\ (st.cps = <<>> \/ Len(out) - st.last >= Interval)
Checkpointed(st, out) ==
  [st EXCEPT !.last = Len(out), !.cps = Append(@, MakeCheckpoint(out, st.at))]
Advanced(st, r, final, size) ==
  LET moved == [st EXCEPT !.out = r.out, !.at = @ + 1, !.done = final] IN
  IF r.stuck \/ Len(r.out) > size THEN [st EXCEPT !.done = TRUE, !.failed = TRUE]
  ELSE IF Due(st, r.out, final) THEN Checkpointed(moved, r.out) ELSE moved
Decoding(st, c, size) ==
  IF st.done THEN st
  ELSE IF c.cell # "block" THEN [st EXCEPT !.done = TRUE, !.failed = TRUE]
  ELSE Advanced(st, Inflate(st.out, c.syms), c.final, size)
BuildCheckpoints(data, size) ==
  LET start == [out |-> <<>>, at |-> 0, failed |-> FALSE, done |-> size = 0,
                last |-> 0, cps |-> <<>>]
      after[n \in 0..Len(data)] == IF n = 0 THEN start ELSE Decoding(after[n - 1], data[n], size)
  IN after[Len(data)]

\* read_range: go on from the checkpoint, skip, and stop when len bytes came.
Part(out, skip, len) ==
  IF Len(out) < skip + len THEN Err("corrupt") ELSE Ok(SubSeq(out, skip + 1, skip + len))
PartFrom(dict, cp, data, off, len) ==
  Part(Inflate(dict, SymbolsAfter(data, cp.at)).out, Len(dict) + off - cp.off, len)
DeflateRange(data, cp, off, len, size) ==
  IF ~InRange(off, len, size) THEN Err("range")
  ELSE IF len = 0 THEN Ok(<<>>)
  ELSE IF cp.off > off THEN Err("corrupt")
  ELSE PartFrom(Dictionary(cp), cp, data, off, len)

ReadRange(method, data, cp, off, len, size) ==
  IF ProviderOf(method) = "Store" THEN StoreRange(data, cp, off, len, size)
  ELSE DeflateRange(data, cp, off, len, size)

\* deflate: blocks of BlockSize symbols, with a copy wherever the window has one.
Coded(content, i) ==
  LET back == {d \in 1..Window : d < i /\ content[i - d] = content[i]}
  IN IF back = {} THEN content[i] ELSE -Min(back)
Deflate(content) ==
  LET n      == Len(content)
      blocks == IF n = 0 THEN 1 ELSE (n + BlockSize - 1) \div BlockSize
  IN [k \in 1..blocks |->
        LET first == (k - 1) * BlockSize
            count == IF n - first < BlockSize THEN n - first ELSE BlockSize
        IN Block([j \in 1..count |-> Coded(content, first + j)], k = blocks)]
=============================================================================
