----------------------------- MODULE ShardStream ----------------------------
(***************************************************************************)
(* One shard on its way through a video: nexus-core's StreamingEncoder and *)
(* StreamingDecoder (streaming.rs) with the loops of the daemon that feed  *)
(* them (queue.go).  The sealed shard is cut into blocks of Source         *)
(* symbols; RaptorQ adds Repair symbols to each; every symbol is written   *)
(* behind a header (a magic marker, its block and its number) and the      *)
(* symbols are laid end to end into frames, so that symbols cross from one *)
(* frame into the next.  The decoder appends what each frame carried to a  *)
(* buffer and looks for the marker in it.                                  *)
(*                                                                         *)
(* A stream is a sequence of cells.  The marker is one cell, block and     *)
(* number are one, the data of a symbol are DataCells cells.  Some data    *)
(* happen to look like the marker (two bytes of ciphertext: the twins).    *)
(* The video loses frames, shows one twice, or damages a cell.             *)
(*                                                                         *)
(* Left out: pixels and levels (a damaged cell stands for a misread        *)
(* level), the AEAD stream of mobile files, and the legacy decoder that is *)
(* tried when nothing at all was decoded.                                  *)
(***************************************************************************)
EXTENDS Naturals, Sequences, FiniteSets, FiniteSetsExt

CONSTANTS Source,      \* source symbols of a block (180)
          Repair,      \* repair symbols of a block (20)
          DataCells,   \* cells of a symbol's data
          FrameCells,  \* cells of a frame; no multiple of a symbol
          MinFrames,   \* a video has at least so many frames (90)
          MaxTracked,  \* blocks the decoder remembers before it drops some (10)
          Kept,        \* blocks behind the newest that it keeps (5)
          Sizes,       \* lengths of the shard, in symbols
          TwinSets,    \* which data may look like the marker
          Overheads,   \* symbols RaptorQ may need beyond Source
          Misread,     \* headers a damaged one may be taken for
          MaxFaults    \* bound: lost, repeated and damaged frames

ASSUME StreamAssumption ==
  /\ {DataCells, FrameCells} \subseteq Nat \ {0}
  /\ {Source, Repair, MinFrames, MaxTracked, Kept, MaxFaults} \subseteq Nat
  /\ Source > 1 /\ Repair < Source
  \* A frame holds a symbol, is no longer than a block, and does not end inside
  \* a header: it has 7200 or 194400 bytes, a symbol 1032, all multiples of 24.
  /\ FrameCells \in 2 + DataCells .. (Source + Repair) * (2 + DataCells)
  /\ \A n \in 0..DataCells + 1 : (n * FrameCells) % (2 + DataCells) # 1
  /\ Sizes \subseteq Nat \ {0} /\ IsFiniteSet(Sizes)
  /\ Overheads \subseteq 0..Repair
  /\ Misread \subseteq Nat \X Nat

VARIABLES size,     \* length of the shard, in symbols, its 8-byte head included
          twins,    \* the data cells that look like the marker
          overhead, \* symbols beyond Source that a block needs
          stage,    \* where the upload, and then the download, is
          coded,    \* blocks encoded so far (current_block_id)
          frameBuf, \* cells of the frame begun
          video,    \* the frames written to ffmpeg
          at,       \* the next frame of the video to arrive
          faults,   \* what has happened to the video, in order
          wire,     \* every cell that arrived
          raw,      \* raw_buffer
          blocks,   \* block -> the symbols it holds
          out       \* output_buffer: the blocks decoded, in order

vars == <<size, twins, overhead, stage, coded, frameBuf, video, at, faults,
          wire, raw, blocks, out>>

Symbols   == Source + Repair
SymbolLen == 2 + DataCells
BlockLen  == Symbols * SymbolLen
BlocksOf(n) == (n + Source - 1) \div Source

\* Cells: <<kind, block, number, place>>
Magic          == <<"magic", 0, 0, 0>>
Pad            == <<"pad", 0, 0, 0>>
Noise          == <<"noise", 0, 0, 0>>
Header(id)     == <<"id", id[1], id[2], 0>>
\* The last block is filled up with zeros.
Data(b, s, k)  == IF s < Source /\ b * Source + s >= size
                  THEN Pad ELSE <<"data", b, s, k>>
Symbol(b, s)   == [k \in 1..SymbolLen |->
                     IF k = 1 THEN Magic
                     ELSE IF k = 2 THEN Header(<<b, s>>)
                     ELSE Data(b, s, k - 2)]

\* encode_fec_block: source and repair symbols in order, each with its header.
BlockCells(b) ==
  [i \in 1..BlockLen |->
     Symbol(b, (i - 1) \div SymbolLen)[((i - 1) % SymbolLen) + 1]]

CellsOf(from, to) ==
  [i \in 1..(to - from) * BlockLen |->
     BlockCells(from + (i - 1) \div BlockLen)[((i - 1) % BlockLen) + 1]]

Entry == [good : SUBSET Nat, bad : SUBSET Nat, done : BOOLEAN]
NoEntry == [good |-> {}, bad |-> {}, done |-> FALSE]

Init ==
  /\ size \in Sizes
  /\ twins \in TwinSets
  /\ overhead \in Overheads
  /\ stage = "push"
  /\ coded = 0
  /\ frameBuf = <<>>
  /\ video = <<>>
  /\ at = 1
  /\ faults = <<>>
  /\ wire = <<>> /\ raw = <<>>
  /\ blocks = <<>>
  /\ out = <<>>

-----------------------------------------------------------------------------
(***************************************************************************)
(* Upload                                                                  *)
(***************************************************************************)

\* pack_symbol_to_frames: what fills frames goes out, the rest waits.
Whole(cells) == Len(cells) \div FrameCells
Frames(cells) ==
  [j \in 1..Whole(cells) |->
     SubSeq(cells, (j - 1) * FrameCells + 1, j * FrameCells)]
Rest(cells) == SubSeq(cells, Whole(cells) * FrameCells + 1, Len(cells))

Encoding == UNCHANGED <<size, twins, overhead, at, faults, wire, raw,
                        blocks, out>>

\* push_data, and the frames popped after it: every full block is encoded.
PushData ==
  /\ stage = "push"
  /\ LET cells == frameBuf \o CellsOf(coded, size \div Source) IN
       /\ video' = Frames(cells)
       /\ frameBuf' = Rest(cells)
  /\ coded' = size \div Source
  /\ stage' = "finalize"
  /\ Encoding

\* finalize: the block begun is filled up and encoded, then the frame begun.
Finalize ==
  /\ stage = "finalize"
  /\ LET cells   == frameBuf \o CellsOf(coded, BlocksOf(size))
         missing == (FrameCells - Len(Rest(cells))) % FrameCells
         filled  == cells \o [i \in 1..missing |-> Pad]
     IN  video' = video \o Frames(filled)
  /\ coded' = BlocksOf(size)
  /\ frameBuf' = <<>>
  /\ stage' = "pad"
  /\ Encoding

\* The last frame is written again until the video is long enough.
PadVideo ==
  /\ stage = "pad"
  /\ video' = [j \in 1..Max({Len(video), MinFrames}) |->
                 video[IF j <= Len(video) THEN j ELSE Len(video)]]
  /\ stage' = "receive"
  /\ UNCHANGED <<coded, frameBuf>>
  /\ Encoding

-----------------------------------------------------------------------------
(***************************************************************************)
(* The video on its way, and push_frame                                    *)
(***************************************************************************)
Sent == UNCHANGED <<size, twins, overhead, coded, frameBuf, video>>

PushFrame(cells) ==
  /\ wire' = wire \o cells
  /\ raw' = raw \o cells
  /\ stage' = "decode"
  /\ UNCHANGED <<blocks, out>>
  /\ Sent

Arriving == stage = "receive" /\ at <= Len(video)

Deliver ==
  /\ Arriving
  /\ PushFrame(video[at])
  /\ at' = at + 1
  /\ UNCHANGED faults

Fault(kind) ==
  /\ Arriving
  /\ Len(faults) < MaxFaults
  /\ faults' = Append(faults, kind)

Lose ==
  /\ Fault("lost")
  /\ at' = at + 1
  /\ UNCHANGED <<stage, wire, raw, blocks, out>>
  /\ Sent

\* The frame arrives, and is still to come.
Repeat ==
  /\ Fault("repeated")
  /\ PushFrame(video[at])
  /\ UNCHANGED at

Damage ==
  /\ Fault("damaged")
  /\ \E i \in 1..FrameCells, c \in {Noise, Magic} \cup {Header(m) : m \in Misread} :
       /\ c # video[at][i]
       /\ PushFrame([video[at] EXCEPT ![i] = c])
  /\ at' = at + 1

-----------------------------------------------------------------------------
(***************************************************************************)
(* process_raw_buffer, one turn of its loop an action                      *)
(***************************************************************************)
IsMagic(c) == c = Magic \/ c \in twins

\* The block and number that a cell reads as.  Zeros are symbol 0 of block 0;
\* data read as a header name a block that does not exist, each another one,
\* so that the number does not matter.
IdOf(c) ==
  IF c[1] = "id" THEN <<c[2], c[3]>>
  ELSE IF c = Pad THEN <<0, 0>>
  ELSE <<Max(Sizes) + (c[2] * Symbols + c[3]) * DataCells + c[4], 0>>

Decoding == UNCHANGED <<size, twins, overhead, coded, frameBuf, video, at,
                        faults, wire>>

\* Faulty: the marker is only looked for where the last symbol ended.
MarksNoSearch == {i \in {1} \cap 1..Len(raw) : IsMagic(raw[i])}

\* find_magic
Marks == {i \in 1..Len(raw) : IsMagic(raw[i])}
\* From the first marker on; what is before it is dropped.
Pending == SubSeq(raw, Min(Marks), Len(raw))

\* No marker, or no whole symbol behind it: wait for the next frame.
Wait ==
  /\ stage = "decode"
  /\ IF Marks = {} THEN UNCHANGED raw
                   ELSE Len(Pending) < SymbolLen /\ raw' = Pending
  /\ stage' = "receive"
  /\ UNCHANGED <<blocks, out>>
  /\ Decoding

\* RaptorQ: all source symbols, or enough of any; a number counts once.
Decodable(e) ==
  \/ 0..(Source - 1) \subseteq e.good \cup e.bad
  \/ Cardinality(e.good \cup e.bad) >= Source + overhead

\* The block is right when every symbol it was decoded from is.
Right(e) ==
  IF 0..(Source - 1) \subseteq e.good \cup e.bad
  THEN e.bad \cap 0..(Source - 1) = {} ELSE e.bad = {}

EntryOf(b) == IF b \in DOMAIN blocks THEN blocks[b] ELSE NoEntry

\* Faulty: a number that is known is stored again.
WithSymbolAgain(b, s, data) ==
  LET e == EntryOf(b) IN
  IF e.done THEN e
  ELSE IF data = SubSeq(Symbol(b, s), 3, SymbolLen)
       THEN [e EXCEPT !.good = @ \cup {s}]
       ELSE [e EXCEPT !.bad = @ \cup {s}]

\* The block's entry with this symbol, unless it is decoded or has it already.
WithSymbol(b, s, data) ==
  LET e == EntryOf(b) IN
  IF e.done \/ s \in e.good \cup e.bad THEN e
  ELSE IF data = SubSeq(Symbol(b, s), 3, SymbolLen)
       THEN [e EXCEPT !.good = @ \cup {s}]
       ELSE [e EXCEPT !.bad = @ \cup {s}]

\* Once more than MaxTracked blocks are known, the oldest are forgotten.
Trim(known, b) ==
  IF Cardinality(DOMAIN known) > MaxTracked
  THEN [x \in {y \in DOMAIN known : y + Kept >= b} |-> known[x]]
  ELSE known

Store(b, e) == [x \in DOMAIN blocks \cup {b} |-> IF x = b THEN e ELSE blocks[x]]

\* Faulty: a decoded block is not marked as decoded.
AcceptAgain(b, s, data) ==
  LET e == WithSymbol(b, s, data) IN
  \/ /\ ~Decodable(e)
     /\ blocks' = Store(b, e)
     /\ UNCHANGED out
  \/ /\ Decodable(e)
     /\ blocks' = Trim(Store(b, e), b)
     /\ out' = Append(out, [block |-> b, right |-> Right(e)])

Accept(b, s, data) ==
  LET e == WithSymbol(b, s, data) IN
  \/ /\ e.done \/ ~Decodable(e)
     /\ blocks' = Store(b, e)
     /\ UNCHANGED out
  \/ /\ ~e.done /\ Decodable(e)
     /\ blocks' = Trim(Store(b, [e EXCEPT !.done = TRUE]), b)
     /\ out' = Append(out, [block |-> b, right |-> Right(e)])

\* Faulty: the buffer starts anew behind every symbol.
TakeSymbolAlone ==
  /\ stage = "decode"
  /\ Marks # {} /\ Len(Pending) >= SymbolLen
  /\ raw' = <<>>
  /\ LET id == IdOf(Pending[2]) IN
       Accept(id[1], id[2], SubSeq(Pending, 3, SymbolLen))
  /\ UNCHANGED stage
  /\ Decoding

TakeSymbol ==
  /\ stage = "decode"
  /\ Marks # {} /\ Len(Pending) >= SymbolLen
  /\ raw' = SubSeq(Pending, SymbolLen + 1, Len(Pending))
  /\ LET id == IdOf(Pending[2]) IN
       Accept(id[1], id[2], SubSeq(Pending, 3, SymbolLen))
  /\ UNCHANGED stage
  /\ Decoding

\* The video has ended: pop_data.
Pop ==
  /\ stage = "receive" /\ at > Len(video)
  /\ stage' = "done"
  /\ UNCHANGED <<raw, blocks, out>>
  /\ Decoding

Next ==
  \/ PushData \/ Finalize \/ PadVideo
  \/ Deliver \/ Lose \/ Repeat \/ Damage
  \/ Wait \/ TakeSymbol \/ Pop

Spec == Init /\ [][Next]_vars

-----------------------------------------------------------------------------
\* The variables keep their types.
TypeOK ==
  /\ size \in Sizes /\ twins \in TwinSets /\ overhead \in Overheads
  /\ stage \in {"push", "finalize", "pad", "receive", "decode", "done"}
  /\ coded \in 0..BlocksOf(size)
  /\ Len(frameBuf) < FrameCells
  /\ \A j \in 1..Len(video) : Len(video[j]) = FrameCells
  /\ at \in 1..Len(video) + 1
  /\ Len(faults) <= MaxFaults
  /\ Len(raw) <= Len(wire)
  /\ \A b \in DOMAIN blocks : blocks[b].good \cap blocks[b].bad = {}
  /\ \A i \in 1..Len(out) : out[i] \in [block : Nat, right : BOOLEAN]

\* What a download must get: the blocks of the shard, right, each once.
Blocks == [i \in 1..BlocksOf(size) |-> [block |-> i - 1, right |-> TRUE]]

\* A video that arrives as it was sent gives back the shard, in whatever way
\* symbols fall across frames, also when its data look like markers and the
\* last frame is shown again and again.
Exact == stage = "done" /\ faults = <<>> => out = Blocks

\* The symbol that arrived whole at a place of the wire.
IsSymbolAt(i, b, s) ==
  /\ i + SymbolLen - 1 <= Len(wire)
  /\ SubSeq(wire, i, i + SymbolLen - 1) = Symbol(b, s)
IsWholeAt(i) ==
  \E b \in 0..(BlocksOf(size) - 1), s \in 0..(Symbols - 1) : IsSymbolAt(i, b, s)
Arrived(b) ==
  {s \in 0..(Symbols - 1) : \E i \in 1..Len(wire) : IsSymbolAt(i, b, s)}
\* Markers with something else than their symbol behind them.
Lures == {i \in 1..Len(wire) : IsMagic(wire[i]) /\ ~IsWholeAt(i)}
\* Those that read as the header of a symbol of the shard.
Misleading ==
  {i \in Lures : i < Len(wire) /\ IdOf(wire[i + 1])[1] < BlocksOf(size)}

\* Lost frames and damaged headers are repaired when no marker misleads and
\* of each block so many symbols arrive whole that each false marker may hide
\* one: the decoder always finds its way back to a true marker in time.
Repaired ==
  /\ stage = "done"
  /\ Misleading = {}
  /\ \A b \in 0..(BlocksOf(size) - 1) :
       Cardinality(Arrived(b)) >= Source + overhead + Cardinality(Lures)
  => out = Blocks

\* Lost frames alone are repaired as long as enough symbols of each block
\* arrive whole (test_fec_recovery: "Simulate ~10% frame loss", and the data
\* recovered must equal the data sent).
LossRepaired ==
  /\ stage = "done"
  /\ \A i \in 1..Len(faults) : faults[i] = "lost"
  /\ \A b \in 0..(BlocksOf(size) - 1) :
       Cardinality(Arrived(b)) >= Source + overhead
  => out = Blocks

\* Data that look like a marker and happen to stand where the next cell reads
\* as the header of a block of the shard.
Astray ==
  {i \in 1..Len(wire) - 1 :
     wire[i] \in twins /\ IdOf(wire[i + 1])[1] < BlocksOf(size)}

\* Frames that are lost spoil blocks, but never move them: blocks come out in
\* the order in which they were sent and none comes out twice, also when data
\* look like the marker, as long as what follows those, zeros included, does not
\* read as a header of the shard.  Frames shown twice do not move them either,
\* if a frame is too short for Source symbols (so in base mode, not in high
\* mode) or no data look like the marker.
InOrder ==
  LET only(kinds) == \A i \in 1..Len(faults) : faults[i] \in kinds IN
  (/\ only({"lost", "repeated"})
   /\ \/ only({"lost"}) \/ FrameCells <= Source * SymbolLen \/ twins = {}
   /\ Astray = {})
  => \A i, j \in 1..Len(out) : i < j => out[i].block < out[j].block
=============================================================================
