-------------------------- MODULE ShardStreamProofs -------------------------
(***************************************************************************)
(* Proofs about ShardStream: types, and that an intact video gives back    *)
(* the shard.  The upload lays the encoded stream over frames (Uploaded);  *)
(* while nothing has happened to the video, what arrived is that stream,   *)
(* and the decoder stands at a symbol of it with all before taken (Midway) *)
(* or is past its end, where nothing decodes any more (Settled).           *)
(***************************************************************************)
EXTENDS ShardStream, SequenceLemmas, FiniteSetTheorems, TLAPS

Kind   == {"magic", "pad", "noise", "id", "data"}
Cell   == Kind \X Nat \X Nat \X Nat
Frame  == {f \in Seq(Cell) : Len(f) = FrameCells}
Output == [block : Nat, right : BOOLEAN]

\* The cell at a place of the stream that the encoder writes, and its length.
StreamCell(q) == BlockCells((q - 1) \div BlockLen)[((q - 1) % BlockLen) + 1]
Total         == BlocksOf(size) * BlockLen

-----------------------------------------------------------------------------
(* Numbers.                                                                *)

LEMMA Constants ==
  /\ Source \in Nat \ {0} /\ Repair \in Nat /\ DataCells \in Nat \ {0}
  /\ FrameCells \in Nat \ {0} /\ MinFrames \in Nat /\ MaxTracked \in Nat
  /\ Kept \in Nat /\ MaxFaults \in Nat /\ Source > 1 /\ Repair < Source
  /\ Symbols \in Nat \ {0} /\ SymbolLen \in Nat /\ SymbolLen > 2
  /\ Source <= Symbols
<1>1. /\ Source \in Nat /\ Repair \in Nat /\ DataCells \in Nat \ {0}
      /\ FrameCells \in Nat \ {0} /\ MinFrames \in Nat /\ MaxTracked \in Nat
      /\ Kept \in Nat /\ MaxFaults \in Nat /\ Source > 1 /\ Repair < Source
  BY StreamAssumption
<1>2. QED
  BY <1>1 DEF Symbols, SymbolLen

LEMMA Product ==
  ASSUME NEW a \in Nat, NEW b \in Nat
  PROVE  a * b \in Nat
  OBVIOUS

LEMMA ProductGrows ==
  ASSUME NEW a \in Nat, NEW b \in Nat, NEW d \in Nat, a < b
  PROVE  a * d + d <= b * d
<1>1. PICK k \in Nat : b = a + 1 + k
  <2>1. b - a - 1 \in Nat /\ b = a + 1 + (b - a - 1)
    OBVIOUS
  <2>2. QED
    BY <2>1
<1>2. b * d = a * d + d + k * d
  BY <1>1
<1>3. k * d \in Nat /\ a * d \in Nat /\ b * d \in Nat
  BY Product
<1>4. QED
  BY <1>2, <1>3

LEMMA Division ==
  ASSUME NEW a \in Nat, NEW d \in Nat \ {0}
  PROVE  /\ a \div d \in Nat /\ a % d \in Nat /\ a % d < d
         /\ a = (a \div d) * d + (a % d)
  OBVIOUS

LEMMA DivisionIs ==
  ASSUME NEW q \in Nat, NEW r \in Nat, NEW d \in Nat \ {0}, r < d, NEW a, a = q * d + r
  PROVE  a \div d = q /\ a % d = r
<1>1. a \in Nat
  BY Product
<1>2. /\ a \div d \in Nat /\ a % d \in Nat /\ a % d < d
      /\ a = (a \div d) * d + (a % d)
  BY <1>1, Division
<1>3. ~(q < a \div d)
  <2>1. SUFFICES ASSUME q < a \div d PROVE FALSE
    OBVIOUS
  <2>2. q * d + d <= (a \div d) * d
    BY <1>2, <2>1, ProductGrows
  <2>3. q * d \in Nat /\ (a \div d) * d \in Nat
    BY <1>2, Product
  <2>4. QED
    BY <1>2, <2>2, <2>3
<1>4. ~(a \div d < q)
  <2>1. SUFFICES ASSUME a \div d < q PROVE FALSE
    OBVIOUS
  <2>2. (a \div d) * d + d <= q * d
    BY <1>2, <2>1, ProductGrows
  <2>3. q * d \in Nat /\ (a \div d) * d \in Nat
    BY <1>2, Product
  <2>4. QED
    BY <1>2, <2>2, <2>3
<1>5. a \div d = q
  BY <1>2, <1>3, <1>4
<1>6. QED
  BY <1>2, <1>5, Product

LEMMA DivisionSmall ==
  ASSUME NEW r \in Nat, NEW d \in Nat \ {0}, r < d
  PROVE  r \div d = 0 /\ r % d = r
  OBVIOUS

LEMMA Lengths ==
  /\ BlockLen \in Nat \ {0} /\ FrameCells <= BlockLen /\ SymbolLen <= FrameCells
  /\ BlockLen = Symbols * SymbolLen
<1>1. BlockLen = Symbols * SymbolLen
  BY DEF BlockLen
<1>2. Symbols * SymbolLen \in Nat
  BY Constants, Product
<1>3. FrameCells <= BlockLen /\ FrameCells > 0 /\ SymbolLen <= FrameCells
  <2>1. PICK m : m = (Source + Repair) * (2 + DataCells)
    OBVIOUS
  <2>2. FrameCells \in 2 + DataCells .. m
    BY <2>1, StreamAssumption
  <2>3. m = BlockLen /\ 2 + DataCells = SymbolLen
    BY <2>1 DEF BlockLen, Symbols, SymbolLen
  <2>4. m \in Nat
    BY <1>1, <1>2, <2>3
  <2>5. QED
    BY <2>2, <2>3, <2>4, Constants
<1>4. QED
  BY <1>1, <1>2, <1>3, Constants

\* The last block takes what is left of the shard.
LEMMA LastBlock ==
  ASSUME size \in Sizes
  PROVE  /\ size \in Nat \ {0} /\ size \div Source \in Nat
         /\ BlocksOf(size) \in Nat \ {0} /\ size \div Source <= BlocksOf(size)
<1>1. size \in Nat \ {0}
  BY StreamAssumption
<1>2. /\ size \div Source \in Nat /\ size % Source \in Nat
      /\ size = (size \div Source) * Source + (size % Source)
  BY <1>1, Division, Constants
<1> DEFINE t == size + Source - 1
<1>3. t \in Nat /\ t >= Source /\ t >= size
  BY <1>1, Constants
<1>4. /\ t \div Source \in Nat /\ t % Source \in Nat /\ t % Source < Source
      /\ t = (t \div Source) * Source + (t % Source)
  BY <1>3, Division, Constants
<1>5. t \div Source # 0
  BY <1>3, <1>4, Constants
<1>6. ~(t \div Source < size \div Source)
  <2>1. SUFFICES ASSUME t \div Source < size \div Source PROVE FALSE
    OBVIOUS
  <2>2. (t \div Source) * Source + Source <= (size \div Source) * Source
    BY <1>2, <1>4, <2>1, ProductGrows, Constants
  <2>3. (t \div Source) * Source \in Nat /\ (size \div Source) * Source \in Nat
    BY <1>2, <1>4, Product, Constants
  <2>4. QED
    BY <1>2, <1>3, <1>4, <2>2, <2>3, Constants
<1>7. QED
  BY <1>1, <1>2, <1>4, <1>5, <1>6 DEF BlocksOf

-----------------------------------------------------------------------------
(* Cells of the encoded shard.                                             *)

LEMMA CellIs ==
  /\ \A k \in Kind, x, y, z \in Nat : <<k, x, y, z>> \in Cell
  /\ \A c \in Cell : c[1] \in Kind /\ c[2] \in Nat /\ c[3] \in Nat /\ c[4] \in Nat
<1>1. ASSUME NEW K
      PROVE /\ \A k \in K, x, y, z \in Nat : <<k, x, y, z>> \in K \X Nat \X Nat \X Nat
            /\ \A c \in K \X Nat \X Nat \X Nat :
                 c[1] \in K /\ c[2] \in Nat /\ c[3] \in Nat /\ c[4] \in Nat
  OBVIOUS
<1>2. QED
  BY <1>1 DEF Cell

LEMMA SymbolCells ==
  ASSUME NEW b \in Nat, NEW s \in Nat
  PROVE  /\ Symbol(b, s) \in Seq(Cell) /\ Len(Symbol(b, s)) = SymbolLen
         /\ Symbol(b, s)[1] = Magic /\ Symbol(b, s)[2] = Header(<<b, s>>)
<1>1. /\ Magic \in Cell /\ Header(<<b, s>>) \in Cell
      /\ \A k \in 3..SymbolLen : Data(b, s, k - 2) \in Cell
  <2>1. Magic \in Cell /\ Pad \in Cell
    BY CellIs DEF Magic, Pad, Kind
  <2>2. Header(<<b, s>>) \in Cell
    BY CellIs DEF Header, Kind
  <2>3. ASSUME NEW k \in Nat PROVE Data(b, s, k) \in Cell
    <3>1. <<"data", b, s, k>> \in Cell
      BY CellIs DEF Kind
    <3>2. QED
      BY <2>1, <3>1 DEF Data
  <2>4. \A k \in 3..SymbolLen : k - 2 \in Nat
    BY Constants
  <2>5. QED
    BY <2>1, <2>2, <2>3, <2>4
<1> DEFINE C(k) == IF k = 1 THEN Magic
                   ELSE IF k = 2 THEN Header(<<b, s>>) ELSE Data(b, s, k - 2)
<1>2. Symbol(b, s) = [k \in 1..SymbolLen |-> C(k)]
  BY DEF Symbol
<1>3. SymbolLen \in Nat /\ SymbolLen > 2
  BY Constants
<1>4. \A k \in 1..SymbolLen : C(k) \in Cell
  BY <1>1, <1>3
<1>5. C(1) = Magic /\ C(2) = Header(<<b, s>>)
  OBVIOUS
<1> HIDE DEF C
<1>6. QED
  BY <1>2, <1>3, <1>4, <1>5

\* A place of a block, by its symbol.
LEMMA BlockPlace ==
  ASSUME NEW b \in Nat, NEW i \in 1..BlockLen
  PROVE  /\ (i - 1) \div SymbolLen \in 0..(Symbols - 1)
         /\ (i - 1) % SymbolLen \in 0..(SymbolLen - 1)
         /\ BlockCells(b)[i] = Symbol(b, (i - 1) \div SymbolLen)[((i - 1) % SymbolLen) + 1]
         /\ BlockCells(b)[i] \in Cell
<1>1. /\ SymbolLen \in Nat \ {0} /\ Symbols \in Nat /\ BlockLen \in Nat
      /\ BlockLen = Symbols * SymbolLen
  BY Constants, Lengths
<1>2. i - 1 \in Nat /\ i - 1 < BlockLen
  BY <1>1
<1> DEFINE s == (i - 1) \div SymbolLen
           k == (i - 1) % SymbolLen
<1>3. s \in Nat /\ k \in Nat /\ k < SymbolLen /\ i - 1 = s * SymbolLen + k
  BY <1>1, <1>2, Division
<1>4. s * SymbolLen \in Nat /\ Symbols * SymbolLen \in Nat
  BY <1>1, <1>3, Product
<1>5. ~(Symbols <= s)
  <2>1. SUFFICES ASSUME Symbols <= s PROVE FALSE
    OBVIOUS
  <2>2. Symbols * SymbolLen <= s * SymbolLen
    <3>1. CASE Symbols = s
      BY <1>4, <3>1
    <3>2. CASE Symbols < s
      <4>1. Symbols * SymbolLen + SymbolLen <= s * SymbolLen
        BY <1>1, <1>3, <3>2, ProductGrows
      <4>2. QED
        BY <1>1, <1>4, <4>1
    <3>3. QED
      BY <1>1, <1>3, <2>1, <3>1, <3>2
  <2>3. QED
    BY <1>1, <1>2, <1>3, <1>4, <2>2
<1>6. BlockCells(b)[i] = Symbol(b, s)[k + 1]
  BY DEF BlockCells
<1>7. Symbol(b, s) \in Seq(Cell) /\ Len(Symbol(b, s)) = SymbolLen
  BY <1>3, SymbolCells
<1>8. Symbol(b, s)[k + 1] \in Cell
  <2>1. k + 1 \in 1..Len(Symbol(b, s))
    BY <1>1, <1>3, <1>7
  <2> HIDE DEF s, k
  <2>2. QED
    BY <1>7, <2>1, ElementOfSeq, Zenon
<1>9. QED
  BY <1>1, <1>3, <1>5, <1>6, <1>8

LEMMA StreamCells ==
  ASSUME NEW q \in Nat \ {0}
  PROVE  /\ (q - 1) \div BlockLen \in Nat /\ (q - 1) % BlockLen \in 0..(BlockLen - 1)
         /\ q - 1 = ((q - 1) \div BlockLen) * BlockLen + ((q - 1) % BlockLen)
         /\ StreamCell(q) \in Cell
<1>1. q - 1 \in Nat /\ BlockLen \in Nat \ {0}
  BY Lengths
<1> DEFINE b == (q - 1) \div BlockLen
           i == (q - 1) % BlockLen
<1>2. b \in Nat /\ i \in Nat /\ i < BlockLen /\ q - 1 = b * BlockLen + i
  BY <1>1, Division
<1>3. i + 1 \in 1..BlockLen
  BY <1>1, <1>2
<1>4. BlockCells(b)[i + 1] \in Cell
  <2> HIDE DEF b, i
  <2>1. QED
    BY <1>2, <1>3, BlockPlace
<1>5. QED
  BY <1>1, <1>2, <1>4 DEF StreamCell

LEMMA StreamFrom ==
  ASSUME NEW from \in Nat, NEW j \in Nat
  PROVE  StreamCell(from * BlockLen + j + 1)
           = BlockCells(from + (j \div BlockLen))[(j % BlockLen) + 1]
<1>1. PICK b, r : b = j \div BlockLen /\ r = j % BlockLen
  OBVIOUS
<1>2. b \in Nat /\ r \in Nat /\ r < BlockLen /\ j = b * BlockLen + r
  BY <1>1, Division, Lengths
<1>3. PICK x, y : x = from + b /\ y = from * BlockLen + j
  OBVIOUS
<1>4. BlockLen \in Nat \ {0} /\ from * BlockLen \in Nat
  BY Lengths, Product
<1>5. /\ x \in Nat /\ y \in Nat /\ b * BlockLen \in Nat
      /\ (from + b) * BlockLen = from * BlockLen + b * BlockLen
  BY <1>2, <1>3, <1>4
<1>6. y = x * BlockLen + r
  BY <1>2, <1>3, <1>4, <1>5
<1>7. r \in Nat /\ r < BlockLen
  BY <1>2
<1>8. y \div BlockLen = x /\ y % BlockLen = r
  BY <1>4, <1>5, <1>6, <1>7, DivisionIs, ZenonT(30)
<1>9. (y + 1) - 1 = y
  BY <1>5
<1>10. StreamCell(y + 1) = BlockCells(x)[r + 1]
  BY <1>8, <1>9 DEF StreamCell
<1>11. QED
  BY <1>1, <1>3, <1>10

LEMMA CellsOfStream ==
  ASSUME NEW from \in Nat, NEW to \in Nat, from <= to
  PROVE  /\ CellsOf(from, to) \in Seq(Cell)
         /\ Len(CellsOf(from, to)) = to * BlockLen - from * BlockLen
         /\ \A i \in 1..Len(CellsOf(from, to)) :
              CellsOf(from, to)[i] = StreamCell(from * BlockLen + i)
<1> DEFINE n == (to - from) * BlockLen
           C(i) == BlockCells(from + (i - 1) \div BlockLen)[((i - 1) % BlockLen) + 1]
<1>1. BlockLen \in Nat \ {0}
  BY Lengths
<1>2. from * BlockLen \in Nat /\ to * BlockLen \in Nat
  BY <1>1, Product
<1>3. to - from \in Nat
  OBVIOUS
<1>4. n \in Nat /\ n = to * BlockLen - from * BlockLen
  BY <1>1, <1>3, Product
<1>5. ASSUME NEW i \in 1..n
      PROVE  C(i) = StreamCell(from * BlockLen + i) /\ C(i) \in Cell
  <2>1. i \in Nat \ {0} /\ i - 1 \in Nat
    BY <1>4
  <2>2. PICK j : j = i - 1
    OBVIOUS
  <2>3. j \in Nat /\ from * BlockLen + j + 1 = from * BlockLen + i
    BY <1>2, <2>1, <2>2
  <2>4. StreamCell(from * BlockLen + j + 1)
          = BlockCells(from + (j \div BlockLen))[(j % BlockLen) + 1]
    BY <2>3, StreamFrom
  <2>5. StreamCell(from * BlockLen + i) = C(i)
    BY <2>2, <2>3, <2>4
  <2>6. from * BlockLen + i \in Nat \ {0}
    BY <1>2, <2>1
  <2>7. StreamCell(from * BlockLen + i) \in Cell
    BY <2>6, StreamCells
  <2>8. QED
    BY <2>5, <2>7
<1>6. CellsOf(from, to) = [i \in 1..n |-> C(i)]
  BY DEF CellsOf
<1> HIDE DEF n, C
<1>7. /\ CellsOf(from, to) \in Seq(Cell) /\ Len(CellsOf(from, to)) = n
      /\ \A i \in 1..n : CellsOf(from, to)[i] = C(i)
  BY <1>4, <1>5, <1>6
<1>8. QED
  BY <1>4, <1>5, <1>7

-----------------------------------------------------------------------------
(* Frames.                                                                 *)

\* The cells of a stretch.
LEMMA Stretch ==
  ASSUME NEW cells \in Seq(Cell), NEW p \in Nat, NEW n \in Nat, p + n <= Len(cells)
  PROVE  /\ SubSeq(cells, p + 1, p + n) \in Seq(Cell)
         /\ Len(SubSeq(cells, p + 1, p + n)) = n
         /\ \A o \in 1..n : SubSeq(cells, p + 1, p + n)[o] = cells[p + o]
<1> DEFINE m == p + 1
           k == p + n
<1>1. Len(cells) \in Nat /\ \A i \in 1..Len(cells) : cells[i] \in Cell
  BY LenProperties, ElementOfSeq
<1>2. m \in Int /\ k \in Int /\ \A i \in m..k : cells[i] \in Cell
  BY <1>1
<1>3. k - m + 1 = n /\ (IF m <= k THEN k - m + 1 ELSE 0) = n /\ \A o \in 1..n : m + o - 1 = p + o
  OBVIOUS
<1> HIDE DEF m, k
<1>4. /\ SubSeq(cells, m, k) \in Seq(Cell)
      /\ Len(SubSeq(cells, m, k)) = IF m <= k THEN k - m + 1 ELSE 0
      /\ \A o \in 1..(k - m + 1) : SubSeq(cells, m, k)[o] = cells[m + o - 1]
  BY <1>2, SubSeqProperties
<1>5. /\ SubSeq(cells, m, k) \in Seq(Cell) /\ Len(SubSeq(cells, m, k)) = n
      /\ \A o \in 1..n : SubSeq(cells, m, k)[o] = cells[p + o]
  BY <1>3, <1>4
<1>6. QED
  BY <1>5 DEF m, k

\* What pack_symbol_to_frames makes of some cells.
PackedFrames(cells) ==
  /\ Frames(cells) \in Seq(Frame) /\ Len(Frames(cells)) = Whole(cells)
  /\ \A j \in 1..Whole(cells), o \in 1..FrameCells :
       Frames(cells)[j][o] = cells[(j - 1) * FrameCells + o]

PackedRest(cells) ==
  /\ Rest(cells) \in Seq(Cell) /\ Len(Rest(cells)) = Len(cells) % FrameCells
  /\ \A o \in 1..Len(Rest(cells)) : Rest(cells)[o] = cells[Whole(cells) * FrameCells + o]

LEMMA Packed ==
  ASSUME NEW cells \in Seq(Cell)
  PROVE  /\ Whole(cells) \in Nat /\ Len(cells) \in Nat
         /\ PackedFrames(cells) /\ PackedRest(cells)
         /\ Len(Rest(cells)) \in Nat /\ Len(Rest(cells)) < FrameCells
         /\ Len(cells) = Whole(cells) * FrameCells + Len(Rest(cells))
<1>1. PICK n : n = Len(cells)
  OBVIOUS
<1>2. n \in Nat
  BY <1>1, LenProperties
<1>3. PICK w, r : w = n \div FrameCells /\ r = n % FrameCells
  OBVIOUS
<1>4. w \in Nat /\ r \in Nat /\ r < FrameCells /\ n = w * FrameCells + r
  BY <1>2, <1>3, Division, Constants
<1>5. Whole(cells) = w
  BY <1>1, <1>3 DEF Whole
<1>6. FrameCells \in Nat \ {0}
  BY Constants
<1>7. ASSUME NEW j \in 1..w
      PROVE  /\ SubSeq(cells, (j - 1) * FrameCells + 1, j * FrameCells) \in Frame
             /\ \A o \in 1..FrameCells :
                  SubSeq(cells, (j - 1) * FrameCells + 1, j * FrameCells)[o]
                    = cells[(j - 1) * FrameCells + o]
  <2>1. PICK p, q : p = (j - 1) * FrameCells /\ q = w * FrameCells
    OBVIOUS
  <2>2. j - 1 \in Nat /\ j - 1 < w
    BY <1>4
  <2>3. p \in Nat /\ q \in Nat /\ p + FrameCells <= q /\ j * FrameCells = p + FrameCells
    BY <1>4, <1>6, <2>1, <2>2, Product, ProductGrows
  <2>4. p + FrameCells <= Len(cells)
    BY <1>1, <1>4, <1>6, <2>1, <2>3
  <2>5. /\ SubSeq(cells, p + 1, p + FrameCells) \in Seq(Cell)
        /\ Len(SubSeq(cells, p + 1, p + FrameCells)) = FrameCells
        /\ \A o \in 1..FrameCells : SubSeq(cells, p + 1, p + FrameCells)[o] = cells[p + o]
    BY <1>6, <2>3, <2>4, Stretch
  <2>6. QED
    BY <2>1, <2>3, <2>5, Zenon DEF Frame
<1> DEFINE F(j) == SubSeq(cells, (j - 1) * FrameCells + 1, j * FrameCells)
<1>8. Frames(cells) = [j \in 1..w |-> F(j)]
  BY <1>5 DEF Frames
<1>9. \A j \in 1..w : F(j) \in Frame
  BY <1>7
<1>10. \A j \in 1..w, o \in 1..FrameCells : F(j)[o] = cells[(j - 1) * FrameCells + o]
  BY <1>7
<1> HIDE DEF F
<1>11. Frames(cells) \in Seq(Frame) /\ Len(Frames(cells)) = w
  BY <1>4, <1>8, <1>9
<1>12. PackedFrames(cells)
  <2>1. \A j \in 1..w : Frames(cells)[j] = F(j)
    BY <1>8
  <2>2. QED
    BY <1>5, <1>10, <1>11, <2>1, ZenonT(30) DEF PackedFrames
<1>13. /\ Rest(cells) \in Seq(Cell) /\ Len(Rest(cells)) = r
       /\ \A o \in 1..r : Rest(cells)[o] = cells[w * FrameCells + o]
  <2>1. PICK q : q = w * FrameCells
    OBVIOUS
  <2>2. q \in Nat /\ n = q + r
    BY <1>4, <1>6, <2>1, Product
  <2>3. Rest(cells) = SubSeq(cells, q + 1, q + r)
    BY <1>1, <1>5, <2>1, <2>2 DEF Rest
  <2>4. q + r <= Len(cells)
    BY <1>1, <1>4, <2>2
  <2>5. r \in Nat
    BY <1>4
  <2>6. /\ SubSeq(cells, q + 1, q + r) \in Seq(Cell)
        /\ Len(SubSeq(cells, q + 1, q + r)) = r
        /\ \A o \in 1..r : SubSeq(cells, q + 1, q + r)[o] = cells[q + o]
    BY <2>2, <2>4, <2>5, Stretch
  <2>7. QED
    BY <2>1, <2>3, <2>6
<1>14. PackedRest(cells)
  BY <1>1, <1>3, <1>5, <1>13, Zenon DEF PackedRest
<1>15. QED
  BY <1>1, <1>2, <1>4, <1>5, <1>12, <1>13, <1>14

-----------------------------------------------------------------------------
(* The upload.                                                             *)

\* Frames written, and a frame begun, are the stream from its start.
Laid(v) ==
  \A j \in 1..Len(v), o \in 1..FrameCells :
    v[j][o] = StreamCell((j - 1) * FrameCells + o)
Begun(v, cells) ==
  \A o \in 1..Len(cells) : cells[o] = StreamCell(Len(v) * FrameCells + o)

\* The cell at a place of a frame, and the frames the stream takes up: those
\* behind them only make the video longer.
FrameCell(c, o) ==
  LET q == (c - 1) * FrameCells + o IN IF q <= Total THEN StreamCell(q) ELSE Pad
Content == (Total + FrameCells - 1) \div FrameCells

\* A header, if it is one, of the last block.
OfLast(c) == c[1] = "id" => c[2] = BlocksOf(size) - 1

\* A video that shows the whole stream, and behind it nothing but zeros and
\* cells of the last block.
Place(v, j, o) ==
  LET q == (j - 1) * FrameCells + o IN
  /\ q <= Total => v[j][o] = StreamCell(q)
  /\ q > Total  => OfLast(v[j][o])
Shown(v) ==
  /\ Len(v) * FrameCells >= Total
  /\ \A j \in 1..Len(v), o \in 1..FrameCells : Place(v, j, o)

Uploaded ==
  /\ stage = "push" => coded = 0 /\ frameBuf = <<>> /\ video = <<>>
  /\ stage = "finalize" =>
       /\ coded = size \div Source
       /\ Len(video) * FrameCells + Len(frameBuf) = coded * BlockLen
       /\ Laid(video) /\ Begun(video, frameBuf)
  /\ stage \notin {"push", "finalize"} => Shown(video)

LEMMA SymbolKinds ==
  ASSUME NEW b \in Nat, NEW s \in Nat, NEW k \in 1..SymbolLen
  PROVE  Symbol(b, s)[k][1] = "id" => Symbol(b, s)[k][2] = b
<1>1. Symbol(b, s)[k] \in {Magic, Header(<<b, s>>), Pad, <<"data", b, s, k - 2>>}
  BY DEF Symbol, Data
<1>2. Magic[1] = "magic" /\ Pad[1] = "pad" /\ Header(<<b, s>>)[2] = b
  BY DEF Magic, Pad, Header
<1>3. <<"data", b, s, k - 2>>[1] = "data"
  OBVIOUS
<1>4. QED
  BY <1>1, <1>2, <1>3

LEMMA LastCells ==
  ASSUME size \in Sizes, NEW q \in Nat, q <= Total, q + FrameCells > Total
  PROVE  OfLast(StreamCell(q))
<1>1. PICK n : n = BlocksOf(size) - 1
  OBVIOUS
<1>2. n \in Nat /\ BlocksOf(size) = n + 1
  BY <1>1, LastBlock
<1>3. BlockLen \in Nat \ {0} /\ FrameCells <= BlockLen /\ FrameCells \in Nat
  BY Lengths, Constants
<1>4. PICK p : p = n * BlockLen
  OBVIOUS
<1>5. p \in Nat /\ Total = p + BlockLen
  BY <1>2, <1>3, <1>4, Product DEF Total
<1>6. PICK r : r = q - 1 - p
  OBVIOUS
<1>7. r \in Nat /\ r < BlockLen /\ q = n * BlockLen + r + 1
  BY <1>3, <1>4, <1>5, <1>6
<1>8. StreamCell(n * BlockLen + r + 1) = BlockCells(n + (r \div BlockLen))[(r % BlockLen) + 1]
  BY <1>2, <1>7, StreamFrom
<1>9. r \in Nat /\ r < BlockLen
  BY <1>7
<1>10. r \div BlockLen = 0 /\ r % BlockLen = r
  BY <1>3, <1>9, DivisionSmall
<1>11. StreamCell(q) = BlockCells(n)[r + 1]
  BY <1>2, <1>7, <1>8, <1>10
<1>12. PICK i : i = r + 1
  OBVIOUS
<1>13. i \in 1..BlockLen
  BY <1>3, <1>7, <1>12
<1>14. PICK s, k : s = (i - 1) \div SymbolLen /\ k = ((i - 1) % SymbolLen) + 1
  OBVIOUS
<1>15. s \in Nat /\ k \in 1..SymbolLen /\ BlockCells(n)[i] = Symbol(n, s)[k]
  <2>1. /\ (i - 1) \div SymbolLen \in 0..(Symbols - 1)
        /\ (i - 1) % SymbolLen \in 0..(SymbolLen - 1)
        /\ BlockCells(n)[i] = Symbol(n, (i - 1) \div SymbolLen)[((i - 1) % SymbolLen) + 1]
    BY <1>2, <1>13, BlockPlace
  <2>2. Symbols \in Nat /\ SymbolLen \in Nat
    BY Constants
  <2>3. QED
    BY <1>14, <2>1, <2>2
<1>16. QED
  BY <1>1, <1>2, <1>11, <1>12, <1>15, SymbolKinds, ZenonT(30) DEF OfLast

LEMMA PushDataWrites ==
  ASSUME size \in Sizes, Uploaded, PushData
  PROVE  /\ video' \in Seq(Frame) /\ frameBuf' \in Seq(Cell)
         /\ Len(frameBuf') < FrameCells
         /\ Len(video') * FrameCells + Len(frameBuf') = (size \div Source) * BlockLen
         /\ Laid(video') /\ Begun(video', frameBuf')
<1> DEFINE cells == CellsOf(0, size \div Source)
<1>1. size \div Source \in Nat /\ 0 <= size \div Source
  BY LastBlock
<1>2. PICK c : c = size \div Source
  OBVIOUS
<1>3. /\ cells \in Seq(Cell) /\ Len(cells) = c * BlockLen - 0 * BlockLen
      /\ \A i \in 1..Len(cells) : cells[i] = StreamCell(0 * BlockLen + i)
  BY <1>1, <1>2, CellsOfStream
<1>4. c * BlockLen \in Nat /\ BlockLen \in Nat
  BY <1>1, <1>2, Lengths, Product
<1>5. Len(cells) = c * BlockLen /\ \A i \in 1..Len(cells) : cells[i] = StreamCell(i)
  <2>1. 0 * BlockLen = 0
    BY <1>4
  <2>2. QED
    BY <1>3, <1>4, <2>1
<1>6. video' = Frames(cells) /\ frameBuf' = Rest(cells)
  <2>1. <<>> \o cells = cells
    BY <1>3, ConcatEmptySeq
  <2>2. coded = 0 /\ frameBuf = <<>>
    BY DEF Uploaded, PushData
  <2>3. QED
    BY <2>1, <2>2 DEF PushData
<1> HIDE DEF cells
<1>7. /\ Whole(cells) \in Nat /\ PackedFrames(cells) /\ PackedRest(cells)
      /\ Len(Rest(cells)) \in Nat /\ Len(Rest(cells)) < FrameCells
      /\ Len(cells) = Whole(cells) * FrameCells + Len(Rest(cells))
  BY <1>3, Packed
<1>8. PICK w, r : w = Whole(cells) /\ r = Len(Rest(cells))
  OBVIOUS
<1>9. /\ w \in Nat /\ r \in Nat /\ r < FrameCells /\ FrameCells \in Nat
      /\ Len(cells) = w * FrameCells + r /\ w * FrameCells \in Nat
  BY <1>7, <1>8, Constants, Product
<1>10. Laid(video')
  <2>1. ASSUME NEW j \in 1..w, NEW o \in 1..FrameCells
        PROVE  Frames(cells)[j][o] = StreamCell((j - 1) * FrameCells + o)
    <3>1. PICK p : p = (j - 1) * FrameCells
      OBVIOUS
    <3>2. p \in Nat /\ p + FrameCells <= w * FrameCells
      BY <1>9, <3>1, Product, ProductGrows
    <3>3. p + o \in 1..Len(cells)
      BY <1>9, <3>2
    <3>4. Frames(cells)[j][o] = cells[p + o]
      BY <1>7, <1>8, <3>1 DEF PackedFrames
    <3>5. QED
      BY <1>5, <3>1, <3>3, <3>4
  <2>2. Len(video') = w
    BY <1>6, <1>7, <1>8 DEF PackedFrames
  <2>3. QED
    BY <1>6, <2>1, <2>2 DEF Laid
<1>11. Begun(video', frameBuf')
  <2>1. ASSUME NEW o \in 1..r
        PROVE  Rest(cells)[o] = StreamCell(w * FrameCells + o)
    <3>1. PICK p : p = w * FrameCells
      OBVIOUS
    <3>2. p + o \in 1..Len(cells)
      BY <1>9, <3>1
    <3>3. Rest(cells)[o] = cells[p + o]
      BY <1>7, <1>8, <3>1 DEF PackedRest
    <3>4. QED
      BY <1>5, <3>1, <3>2, <3>3
  <2>2. Len(video') = w /\ Len(frameBuf') = r
    BY <1>6, <1>7, <1>8 DEF PackedFrames
  <2>3. QED
    BY <1>6, <2>1, <2>2 DEF Begun
<1>12. /\ video' \in Seq(Frame) /\ frameBuf' \in Seq(Cell)
       /\ Len(video') = w /\ Len(frameBuf') = r
  BY <1>6, <1>7, <1>8 DEF PackedFrames, PackedRest
<1>13. QED
  BY <1>2, <1>5, <1>9, <1>10, <1>11, <1>12

\* What finalize appends: the stream from where the frames stop, then zeros.
LEMMA FinalizeCells ==
  ASSUME size \in Sizes, video \in Seq(Frame), frameBuf \in Seq(Cell),
         stage = "finalize", Uploaded,
         NEW cells, cells = frameBuf \o CellsOf(coded, BlocksOf(size))
  PROVE  /\ cells \in Seq(Cell) /\ Len(cells) \in Nat
         /\ Len(video) * FrameCells \in Nat
         /\ Len(video) * FrameCells + Len(cells) = Total
         /\ \A i \in 1..Len(cells) : cells[i] = StreamCell(Len(video) * FrameCells + i)
<1> DEFINE more == CellsOf(coded, BlocksOf(size))
<1>1. PICK c, nb, n, m : /\ c = coded /\ nb = BlocksOf(size)
                         /\ n = Len(video) * FrameCells /\ m = Len(frameBuf)
  OBVIOUS
<1>2. /\ c \in Nat /\ nb \in Nat /\ c <= nb
  BY <1>1, LastBlock DEF Uploaded
<1>3. /\ more \in Seq(Cell) /\ Len(more) = nb * BlockLen - c * BlockLen
      /\ \A i \in 1..Len(more) : more[i] = StreamCell(c * BlockLen + i)
  BY <1>1, <1>2, CellsOfStream
<1>4. n \in Nat /\ m \in Nat
  BY <1>1, LenProperties, Constants, Product
<1>5. PICK x, y : x = c * BlockLen /\ y = nb * BlockLen
  OBVIOUS
<1>6. x \in Nat /\ y \in Nat /\ n + m = x /\ y = Total
  BY <1>1, <1>2, <1>5, Lengths, Product DEF Uploaded, Total
<1>7. Len(more) \in Nat /\ Len(more) = y - x
  BY <1>3, <1>5, LenProperties
<1> HIDE DEF more
<1>8. cells = frameBuf \o more
  BY DEF more
<1>9. /\ cells \in Seq(Cell) /\ Len(cells) = m + Len(more)
      /\ \A i \in 1..(m + Len(more)) :
           cells[i] = IF i <= m THEN frameBuf[i] ELSE more[i - m]
  BY <1>1, <1>3, <1>8, ConcatProperties
<1>10. ASSUME NEW i \in 1..Len(cells) PROVE cells[i] = StreamCell(n + i)
  <2>1. CASE i <= m
    <3>1. i \in 1..m
      BY <1>4, <1>7, <1>9, <2>1
    <3>2. frameBuf[i] = StreamCell(n + i)
      BY <1>1, <3>1 DEF Uploaded, Begun
    <3>3. QED
      BY <1>9, <2>1, <3>2
  <2>2. CASE i > m
    <3>1. i - m \in 1..Len(more) /\ x + (i - m) = n + i /\ ~(i <= m) /\ i \in 1..(m + Len(more))
      BY <1>4, <1>6, <1>7, <1>9, <2>2
    <3>2. more[i - m] = StreamCell(x + (i - m))
      BY <1>3, <1>5, <3>1
    <3>3. QED
      BY <1>9, <3>1, <3>2
  <2>3. QED
    BY <1>4, <1>7, <1>9, <2>1, <2>2
<1>11. Len(cells) \in Nat /\ n + Len(cells) = Total
  BY <1>4, <1>6, <1>7, <1>9
<1>12. QED
  BY <1>1, <1>4, <1>9, <1>10, <1>11

\* The last frame is filled up with zeros.
LEMMA FinalizeVideo ==
  ASSUME size \in Sizes, video \in Seq(Frame), frameBuf \in Seq(Cell),
         Uploaded, Finalize
  PROVE  /\ video' \in Seq(Frame) /\ Len(video') * FrameCells \in Nat
         /\ Len(video') * FrameCells >= Total
         /\ Len(video') * FrameCells < Total + FrameCells
         /\ \A j \in 1..Len(video'), o \in 1..FrameCells : video'[j][o] = FrameCell(j, o)
<1> DEFINE cells   == frameBuf \o CellsOf(coded, BlocksOf(size))
           missing == (FrameCells - Len(Rest(cells))) % FrameCells
           zeros   == [i \in 1..missing |-> Pad]
           filled  == cells \o zeros
<1>1. /\ cells \in Seq(Cell) /\ Len(cells) \in Nat
      /\ Len(video) * FrameCells \in Nat
      /\ Len(video) * FrameCells + Len(cells) = Total
      /\ \A i \in 1..Len(cells) : cells[i] = StreamCell(Len(video) * FrameCells + i)
  BY FinalizeCells DEF Finalize
<1>2. video' = video \o Frames(filled)
  BY DEF Finalize
<1> HIDE DEF cells
<1>3. PICK w, r : w = Whole(cells) /\ r = Len(Rest(cells))
  OBVIOUS
<1>4. /\ w \in Nat /\ r \in Nat /\ r < FrameCells /\ Len(cells) = w * FrameCells + r
      /\ FrameCells \in Nat \ {0} /\ w * FrameCells \in Nat
  BY <1>1, <1>3, Packed, Constants, Product
<1>5. \E k \in Nat : /\ missing \in Nat /\ missing < FrameCells
                    /\ Len(cells) + missing = k * FrameCells
  <2>1. CASE r = 0
    <3>1. FrameCells = 1 * FrameCells + 0
      BY <1>4
    <3>2. FrameCells % FrameCells = 0
      BY <1>4, <3>1, DivisionIs
    <3>3. missing = 0
      BY <1>3, <1>4, <2>1, <3>2
    <3> HIDE DEF missing
    <3>4. Len(cells) + missing = w * FrameCells
      BY <1>1, <1>4, <2>1, <3>3
    <3>5. QED
      BY <1>4, <3>3, <3>4
  <2>2. CASE r # 0
    <3>1. PICK d : d = FrameCells - r
      OBVIOUS
    <3>2. d \in Nat /\ d < FrameCells
      BY <1>4, <2>2, <3>1
    <3>3. d % FrameCells = d
      BY <1>4, <3>2, DivisionSmall
    <3>4. missing = d
      BY <1>3, <3>1, <3>3
    <3>5. (w + 1) * FrameCells = w * FrameCells + FrameCells /\ w + 1 \in Nat
      BY <1>4
    <3>6. Len(cells) + missing = (w + 1) * FrameCells
      BY <1>4, <3>1, <3>4, <3>5
    <3>7. QED
      BY <3>2, <3>4, <3>5, <3>6
  <2>3. QED
    BY <2>1, <2>2
<1> HIDE DEF missing
<1>6. PICK k \in Nat : /\ missing \in Nat /\ missing < FrameCells
                      /\ Len(cells) + missing = k * FrameCells
  BY <1>5
<1>7. zeros \in Seq(Cell) /\ Len(zeros) = missing /\ \A i \in 1..missing : zeros[i] = Pad
  <2>1. Pad \in Cell
    BY CellIs DEF Pad, Kind
  <2>2. QED
    BY <1>6, <2>1
<1> HIDE DEF zeros
<1>8. /\ filled \in Seq(Cell) /\ Len(filled) = k * FrameCells
      /\ \A i \in 1..(Len(cells) + missing) :
           filled[i] = IF i <= Len(cells) THEN cells[i] ELSE zeros[i - Len(cells)]
  BY <1>1, <1>6, <1>7, ConcatProperties
<1> HIDE DEF filled
<1>9. Whole(filled) = k
  <2>1. k * FrameCells = k * FrameCells + 0 /\ 0 < FrameCells
    BY <1>4, <1>6, Product
  <2>2. (k * FrameCells) \div FrameCells = k
    <3>1. PICK a : a = k * FrameCells
      OBVIOUS
    <3>2. a = k * FrameCells + 0
      BY <2>1, <3>1
    <3>3. a \div FrameCells = k
      BY <1>4, <2>1, <3>2, DivisionIs
    <3>4. QED
      BY <3>1, <3>3
  <2>3. QED
    BY <1>8, <2>2 DEF Whole
<1>10. /\ Frames(filled) \in Seq(Frame) /\ Len(Frames(filled)) = k
       /\ \A j \in 1..k, o \in 1..FrameCells :
            Frames(filled)[j][o] = filled[(j - 1) * FrameCells + o]
  BY <1>8, <1>9, Packed DEF PackedFrames
<1>11. PICK n, x : n = Len(video) /\ x = n * FrameCells
  OBVIOUS
<1>12. n \in Nat /\ x \in Nat /\ x + Len(cells) = Total
  BY <1>1, <1>11, LenProperties
<1>13. /\ video' \in Seq(Frame) /\ Len(video') = n + k
       /\ \A j \in 1..(n + k) :
            video'[j] = IF j <= n THEN video[j] ELSE Frames(filled)[j - n]
  BY <1>2, <1>10, <1>11, ConcatProperties
<1>14. /\ Len(video') * FrameCells \in Nat /\ Len(video') * FrameCells >= Total
       /\ Len(video') * FrameCells < Total + FrameCells
  <2>1. (n + k) * FrameCells = x + k * FrameCells
    BY <1>4, <1>6, <1>11, <1>12
  <2>2. PICK z : z = k * FrameCells
    OBVIOUS
  <2>3. z \in Nat /\ Len(cells) + missing = z /\ Len(video') * FrameCells = x + z
    BY <1>4, <1>6, <1>13, <2>1, <2>2, Product
  <2>4. QED
    BY <1>1, <1>4, <1>6, <1>12, <2>3
<1>15. ASSUME NEW j \in 1..(n + k), NEW o \in 1..FrameCells
       PROVE  video'[j][o] = FrameCell(j, o)
  <2>1. PICK p : p = (j - 1) * FrameCells
    OBVIOUS
  <2>2. p \in Nat /\ j - 1 \in Nat /\ o \in Nat
    BY <1>4, <1>6, <1>12, <2>1, Product
  <2>3. CASE j <= n
    <3>1. p + FrameCells <= x
      BY <1>4, <1>11, <1>12, <2>1, <2>2, <2>3, ProductGrows, SMTT(30)
    <3>2. p + o <= Total
      BY <1>1, <1>4, <1>12, <2>2, <3>1
    <3>3. video[j][o] = StreamCell(p + o)
      <4>1. j \in 1..Len(video)
        BY <1>11, <1>12, <2>3
      <4>2. Laid(video)
        BY DEF Uploaded, Finalize
      <4>3. QED
        BY <2>1, <4>1, <4>2 DEF Laid
    <3>4. ~(p + o > Total)
      BY <1>1, <1>12, <2>2, <3>2
    <3>5. QED
      BY <1>13, <2>1, <2>3, <3>2, <3>3, <3>4 DEF FrameCell
  <2>4. CASE j > n
    <3>1. PICK i, a : i = j - n /\ a = (i - 1) * FrameCells
      OBVIOUS
    <3>2. i \in 1..k /\ ~(j <= n)
      BY <1>6, <1>12, <2>4, <3>1
    <3>3. j - 1 = n + (i - 1)
      BY <1>6, <1>12, <3>1
    <3>4. (n + (i - 1)) * FrameCells = x + a
      BY <1>4, <1>6, <1>11, <1>12, <3>1, <3>2
    <3>5. p = x + a
      BY <2>1, <3>3, <3>4
    <3>6. a \in Nat /\ a + FrameCells <= k * FrameCells
      BY <1>4, <1>6, <3>1, <3>2, Product, ProductGrows, SMTT(30)
    <3>7. a + o \in 1..(Len(cells) + missing)
      BY <1>1, <1>6, <2>2, <3>6, <1>4
    <3>8. video'[j][o] = filled[a + o]
      BY <1>10, <1>13, <3>1, <3>2
    <3>9. ASSUME p + o <= Total PROVE video'[j][o] = StreamCell(p + o)
      <4>1. a + o \in 1..Len(cells) /\ a + o <= Len(cells) /\ x + (a + o) = p + o
        BY <1>1, <1>12, <2>2, <3>5, <3>6, <3>9
      <4>2. filled[a + o] = cells[a + o]
        BY <1>8, <3>7, <4>1
      <4>3. cells[a + o] = StreamCell(x + (a + o))
        BY <1>1, <1>11, <4>1
      <4>4. QED
        BY <3>8, <4>1, <4>2, <4>3
    <3>10. ASSUME p + o > Total PROVE video'[j][o] = Pad
      <4>1. ~(a + o <= Len(cells)) /\ (a + o) - Len(cells) \in 1..missing
        BY <1>1, <1>6, <1>12, <2>2, <3>5, <3>6, <3>7, <3>10
      <4>2. filled[a + o] = Pad
        BY <1>7, <1>8, <3>7, <4>1
      <4>3. QED
        BY <3>8, <4>2
    <3>11. p + o <= Total \/ (p + o > Total /\ ~(p + o <= Total))
      BY <1>1, <1>12, <2>2
    <3>12. QED
      BY <2>1, <3>9, <3>10, <3>11 DEF FrameCell
  <2>5. QED
    BY <1>6, <1>12, <2>3, <2>4
<1>16. QED
  BY <1>13, <1>14, <1>15

LEMMA FinalizeWrites ==
  ASSUME size \in Sizes, video \in Seq(Frame), frameBuf \in Seq(Cell),
         Uploaded, Finalize
  PROVE  video' \in Seq(Frame) /\ Shown(video')
<1>1. /\ video' \in Seq(Frame) /\ Len(video') * FrameCells >= Total
      /\ \A j \in 1..Len(video'), o \in 1..FrameCells : video'[j][o] = FrameCell(j, o)
  BY FinalizeVideo
<1>2. Total \in Nat
  BY LastBlock, Lengths, Product DEF Total
<1>3. ASSUME NEW j \in 1..Len(video'), NEW o \in 1..FrameCells
      PROVE  Place(video', j, o)
  <2>1. PICK q : q = (j - 1) * FrameCells + o
    OBVIOUS
  <2>2. q \in Nat
    <3>1. j - 1 \in Nat /\ o \in Nat
      BY <1>1, LenProperties, Constants
    <3>2. QED
      BY <2>1, <3>1, Product, Constants
  <2>3. q <= Total => video'[j][o] = StreamCell(q)
    BY <1>1, <2>1 DEF FrameCell
  <2>4. q > Total => video'[j][o] = Pad
    <3>1. q > Total => ~(q <= Total)
      BY <1>2, <2>2
    <3>2. QED
      BY <1>1, <2>1, <3>1 DEF FrameCell
  <2>5. OfLast(Pad)
    BY DEF OfLast, Pad
  <2>6. QED
    BY <2>1, <2>3, <2>4, <2>5 DEF Place
<1>4. QED
  BY <1>1, <1>3 DEF Shown

\* The length of the shard stays, and with it the stream.
LEMMA SameStream ==
  ASSUME size' = size
  PROVE  /\ \A q : StreamCell(q)' = StreamCell(q)
         /\ Total' = Total /\ BlocksOf(size)' = BlocksOf(size)
         /\ \A v : Laid(v)' = Laid(v) /\ Shown(v)' = Shown(v)
         /\ \A v, c : Begun(v, c)' = Begun(v, c)
<1>1. ASSUME NEW q PROVE StreamCell(q)' = StreamCell(q)
  <2>1. \A b, s : Symbol(b, s)' = Symbol(b, s)
    BY DEF Symbol, Data
  <2>2. \A b : BlockCells(b)' = BlockCells(b)
    BY <2>1 DEF BlockCells
  <2>3. QED
    BY <2>2 DEF StreamCell
<1>2. Total' = Total /\ BlocksOf(size)' = BlocksOf(size)
  BY DEF Total, BlocksOf
<1>3. ASSUME NEW v PROVE Laid(v)' = Laid(v)
  BY <1>1 DEF Laid
<1>4. ASSUME NEW v PROVE Shown(v)' = Shown(v)
  <2>1. \A j, o : Place(v, j, o)' = Place(v, j, o)
    BY <1>1, <1>2 DEF Place, OfLast
  <2>2. QED
    BY <1>2, <2>1 DEF Shown
<1>5. ASSUME NEW v, NEW c PROVE Begun(v, c)' = Begun(v, c)
  BY <1>1 DEF Begun
<1>6. QED
  BY <1>1, <1>2, <1>3, <1>4, <1>5

LEMMA MaxTwo ==
  ASSUME NEW a \in Nat, NEW b \in Nat
  PROVE  Max({a, b}) \in Nat /\ Max({a, b}) >= a /\ Max({a, b}) >= b
<1>1. \E x \in {a, b} : \A y \in {a, b} : x >= y
  BY DEF Max
<1>2. Max({a, b}) \in {a, b} /\ \A y \in {a, b} : Max({a, b}) >= y
  BY <1>1 DEF Max
<1>3. QED
  BY <1>2

LEMMA PadVideoShows ==
  ASSUME size \in Sizes, video \in Seq(Frame), Shown(video), PadVideo
  PROVE  /\ video' \in Seq(Frame) /\ Shown(video')
<1>1. PICK n, m : n = Len(video) /\ m = Max({Len(video), MinFrames})
  OBVIOUS
<1>2. n \in Nat /\ m \in Nat /\ m >= n /\ FrameCells \in Nat \ {0}
  BY <1>1, LenProperties, Constants, MaxTwo
<1>3. Total \in Nat \ {0} /\ n * FrameCells >= Total
  <2>1. BlocksOf(size) \in Nat \ {0} /\ BlockLen \in Nat \ {0}
    BY LastBlock, Lengths
  <2>2. QED
    BY <1>1, <2>1 DEF Total, Shown
<1>4. n > 0
  <2>1. 0 * FrameCells = 0
    BY <1>2
  <2>2. QED
    BY <1>2, <1>3, <2>1
<1>5. \A j \in 1..m : video[IF j <= n THEN j ELSE n] \in Frame
  BY <1>1, <1>2, <1>4, ElementOfSeq
<1>6. /\ video' \in Seq(Frame) /\ Len(video') = m
      /\ \A j \in 1..m : video'[j] = video[IF j <= n THEN j ELSE n]
  <2>1. video' = [j \in 1..m |-> video[IF j <= n THEN j ELSE n]]
    BY <1>1 DEF PadVideo
  <2>2. QED
    BY <1>2, <1>5, <2>1
<1>7. n * FrameCells \in Nat /\ m * FrameCells \in Nat /\ m * FrameCells >= n * FrameCells
  <2>1. CASE m = n
    BY <1>2, <2>1, Product
  <2>2. CASE n < m
    <3>1. n * FrameCells + FrameCells <= m * FrameCells
      BY <1>2, <2>2, ProductGrows
    <3>2. n * FrameCells \in Nat /\ m * FrameCells \in Nat
      BY <1>2, Product
    <3>3. QED
      BY <1>2, <3>1, <3>2
  <2>3. QED
    BY <1>2, <2>1, <2>2
<1>8. ASSUME NEW j \in 1..m, NEW o \in 1..FrameCells PROVE Place(video', j, o)
  <2>1. CASE j <= n
    <3>1. Place(video, j, o)
      BY <1>1, <1>2, <2>1 DEF Shown
    <3>2. video'[j][o] = video[j][o]
      BY <1>6, <2>1
    <3>3. QED
      BY <3>1, <3>2 DEF Place
  <2>2. CASE j > n
    <3>1. PICK p, a, b : /\ p = (j - 1) * FrameCells /\ a = (n - 1) * FrameCells
                         /\ b = n * FrameCells
      OBVIOUS
    <3>2. p \in Nat /\ a \in Nat /\ b \in Nat /\ b = a + FrameCells /\ b <= p
      <4>1. j - 1 \in Nat /\ n - 1 \in Nat /\ n <= j - 1
        BY <1>2, <1>4, <2>2
      <4>2. p \in Nat /\ a \in Nat /\ b \in Nat /\ b = a + FrameCells
        BY <1>2, <3>1, <4>1, Product
      <4>3. CASE n = j - 1
        BY <3>1, <4>2, <4>3
      <4>4. CASE n < j - 1
        <5>1. n * FrameCells + FrameCells <= (j - 1) * FrameCells
          BY <1>2, <4>1, <4>4, ProductGrows
        <5>2. QED
          BY <1>2, <3>1, <4>2, <5>1
      <4>5. QED
        BY <1>2, <4>1, <4>2, <4>3, <4>4
    <3>3. o \in Nat /\ o >= 1 /\ o <= FrameCells
      BY <1>2
    <3>4. p + o > Total /\ ~(p + o <= Total)
      BY <1>2, <1>3, <3>1, <3>2, <3>3
    <3>5. video'[j][o] = video[n][o]
      BY <1>2, <1>6, <2>2
    <3>6. OfLast(video[n][o])
      <4>1. Place(video, n, o)
        BY <1>1, <1>2, <1>4 DEF Shown
      <4>2. CASE a + o <= Total
        <5>1. video[n][o] = StreamCell(a + o)
          BY <3>1, <4>1, <4>2 DEF Place
        <5>2. a + o \in Nat /\ a + o + FrameCells > Total
          BY <1>2, <1>3, <3>1, <3>2, <3>3
        <5>3. QED
          BY <4>2, <5>1, <5>2, LastCells
      <4>3. CASE a + o > Total
        BY <3>1, <4>1, <4>3 DEF Place
      <4>4. QED
        BY <1>3, <3>2, <3>3, <4>2, <4>3
    <3>7. QED
      BY <3>1, <3>4, <3>5, <3>6 DEF Place
  <2>3. QED
    BY <1>2, <2>1, <2>2
<1>9. PICK a, b : a = n * FrameCells /\ b = m * FrameCells
  OBVIOUS
<1>10. b >= Total
  BY <1>3, <1>7, <1>9
<1>11. Len(video') * FrameCells >= Total
  BY <1>6, <1>9, <1>10
<1>12. \A j \in 1..Len(video'), o \in 1..FrameCells : Place(video', j, o)
  BY <1>6, <1>8
<1>13. QED
  BY <1>6, <1>11, <1>12, Zenon DEF Shown

-----------------------------------------------------------------------------
(* Types.                                                                  *)

FaultKind == {"lost", "repeated", "damaged"}

Sorts ==
  /\ frameBuf \in Seq(Cell) /\ video \in Seq(Frame)
  /\ faults \in Seq(FaultKind)
  /\ wire \in Seq(Cell) /\ raw \in Seq(Cell)
  /\ \A b \in DOMAIN blocks : b \in Nat /\ blocks[b] \in Entry
  /\ out \in Seq(Output)
  /\ stage \in {"push", "finalize", "pad"} => at = 1

TypeInv == TypeOK /\ Sorts /\ Uploaded

\* A finite set of numbers has a greatest one.
LEMMA GreatestNat ==
  ASSUME NEW S, S \subseteq Nat, S # {}, IsFiniteSet(S)
  PROVE  Max(S) \in S
<1> DEFINE Bad(X) == /\ X # {} /\ IsFiniteSet(X)
                     /\ ~(\E x \in X : \A y \in X : y <= x)
           T == {n \in Nat : \E X \in SUBSET Nat : Bad(X) /\ Cardinality(X) = n}
<1>1. T = {}
  <2>1. SUFFICES ASSUME T # {} PROVE FALSE
    OBVIOUS
  <2>2. T \subseteq Nat
    OBVIOUS
  <2>3. PICK n \in T : \A k \in T : n <= k
    <3> HIDE DEF T
    <3>1. QED
      BY <2>1, <2>2, LeastNat
  <2>4. PICK X \in SUBSET Nat : Bad(X) /\ Cardinality(X) = n
    BY <2>3
  <2>5. PICK x \in X : TRUE
    BY <2>4
  <2>6. /\ IsFiniteSet(X \ {x}) /\ Cardinality(X \ {x}) = n - 1 /\ n - 1 \in Nat
    <3>1. IsFiniteSet(X) /\ n \in Nat /\ Cardinality(X) = n /\ x \in X
      BY <2>4, <2>5
    <3>2. IsFiniteSet(X \ {x}) /\ Cardinality(X \ {x}) = n - 1
      BY <3>1, FS_RemoveElement
    <3>3. n - 1 \in Nat
      BY <3>1, <3>2, FS_CardinalityType
    <3>4. QED
      BY <3>2, <3>3
  <2>7. CASE X \ {x} = {}
    <3>1. \A y \in X : y <= x
      BY <2>5, <2>7
    <3>2. QED
      BY <2>4, <3>1
  <2>8. CASE X \ {x} # {}
    <3>1. n - 1 \notin T
      BY <2>3, <2>6
    <3>2. ~Bad(X \ {x})
      BY <2>6, <3>1
    <3>3. PICK u \in X \ {x} : \A y \in X \ {x} : y <= u
      BY <2>6, <2>8, <3>2
    <3>4. x \in Nat /\ u \in Nat /\ X \subseteq Nat
      BY <3>3
    <3>5. \E g \in X : \A y \in X : y <= g
      <4>1. CASE u <= x
        <5>1. \A y \in X : y <= x
          BY <3>3, <3>4, <4>1
        <5>2. QED
          BY <5>1
      <4>2. CASE x <= u
        <5>1. \A y \in X : y <= u
          BY <3>3, <3>4, <4>2
        <5>2. QED
          BY <3>3, <5>1
      <4>3. QED
        BY <3>4, <4>1, <4>2
    <3>6. QED
      BY <2>4, <3>5
  <2>9. QED
    BY <2>7, <2>8
<1>2. Cardinality(S) \in Nat
  BY FS_CardinalityType
<1>3. \E x \in S : \A y \in S : y <= x
  BY <1>1, <1>2
<1>4. \E x \in S : \A y \in S : x >= y
  BY <1>3
<1>5. QED
  BY <1>4 DEF Max

\* The block and number a cell reads as.
LEMMA IdIs ==
  ASSUME size \in Sizes, NEW c \in Cell
  PROVE  /\ IdOf(c)[1] \in Nat /\ IdOf(c)[2] \in Nat
         /\ c[1] = "id" => IdOf(c) = <<c[2], c[3]>>
         /\ c[1] # "id" => IdOf(c)[2] = 0
<1>1. c[1] \in Kind /\ c[2] \in Nat /\ c[3] \in Nat /\ c[4] \in Nat
  BY CellIs
<1>2. Sizes \subseteq Nat /\ IsFiniteSet(Sizes) /\ Sizes # {}
  BY StreamAssumption
<1>3. Max(Sizes) \in Nat
  BY <1>2, GreatestNat
<1>4. PICK n : n = Max(Sizes) + (c[2] * Symbols + c[3]) * DataCells + c[4]
  OBVIOUS
<1>5. n \in Nat
  <2>1. c[2] * Symbols + c[3] \in Nat
    BY <1>1, Constants, Product
  <2>2. (c[2] * Symbols + c[3]) * DataCells \in Nat
    BY <2>1, Constants, Product
  <2>3. QED
    BY <1>1, <1>3, <1>4, <2>2
<1>6. CASE c[1] = "id"
  BY <1>1, <1>6 DEF IdOf
<1>7. CASE c[1] # "id" /\ c = Pad
  <2>1. IdOf(c) = <<0, 0>>
    BY <1>7 DEF IdOf
  <2>2. QED
    BY <1>7, <2>1
<1>8. CASE c[1] # "id" /\ c # Pad
  <2>1. IdOf(c) = <<n, 0>>
    BY <1>4, <1>8 DEF IdOf
  <2>2. QED
    BY <1>5, <1>8, <2>1
<1>9. QED
  BY <1>6, <1>7, <1>8

\* What is left of the buffer from its first marker on.
LEMMA PendingIs ==
  ASSUME raw \in Seq(Cell), Marks # {}
  PROVE  \E m \in Nat :
           /\ m + 1 \in Marks /\ \A i \in Marks : m + 1 <= i
           /\ Pending \in Seq(Cell) /\ Len(Pending) = Len(raw) - m /\ m < Len(raw)
           /\ \A i \in 1..(Len(raw) - m) : Pending[i] = raw[m + i]
<1>1. Len(raw) \in Nat
  BY LenProperties
<1>2. Marks \subseteq 1..Len(raw) /\ Marks \subseteq Nat
  BY <1>1 DEF Marks
<1>3. \E x \in Marks : \A y \in Marks : x <= y
  BY <1>2, LeastNat
<1>4. Min(Marks) \in Marks /\ \A y \in Marks : Min(Marks) <= y
  BY <1>3 DEF Min
<1>5. PICK y, m : y = Min(Marks) /\ m = y - 1
  OBVIOUS
<1>6. m \in Nat /\ m < Len(raw) /\ m + 1 = Min(Marks)
  <2>1. y \in 1..Len(raw)
    BY <1>2, <1>4, <1>5
  <2>2. m \in Nat /\ m < Len(raw) /\ m + 1 = y
    BY <1>1, <1>5, <2>1
  <2>3. QED
    BY <1>5, <2>2
<1>7. PICK n : n = Len(raw) - m
  OBVIOUS
<1>8. n \in Nat /\ m + n = Len(raw)
  BY <1>1, <1>6, <1>7
<1>9. Pending = SubSeq(raw, m + 1, m + n)
  BY <1>6, <1>8 DEF Pending
<1>10. m + n <= Len(raw)
  BY <1>1, <1>8
<1>11. /\ Pending \in Seq(Cell) /\ Len(Pending) = n
       /\ \A i \in 1..n : Pending[i] = raw[m + i]
  BY <1>6, <1>8, <1>9, <1>10, Stretch
<1>12. QED
  BY <1>4, <1>6, <1>7, <1>11

\* Entries are typed, and no symbol is both good and bad.
Typed(known) ==
  \A b \in DOMAIN known : /\ b \in Nat /\ known[b] \in Entry
                          /\ known[b].good \cap known[b].bad = {}

LEMMA SameEntry ==
  ASSUME NEW d \in Entry, NEW e \in Entry,
         d.good = e.good, d.bad = e.bad, d.done = e.done
  PROVE  d = e
  BY DEF Entry

LEMMA WithSymbolTyped ==
  ASSUME Typed(blocks), NEW b \in Nat, NEW s \in Nat, NEW data
  PROVE  /\ WithSymbol(b, s, data) \in Entry
         /\ WithSymbol(b, s, data).good \cap WithSymbol(b, s, data).bad = {}
<1> DEFINE e == EntryOf(b)
<1>1. e \in Entry /\ e.good \cap e.bad = {}
  <2>1. CASE b \in DOMAIN blocks
    BY <2>1 DEF EntryOf, Typed
  <2>2. CASE b \notin DOMAIN blocks
    BY <2>2 DEF EntryOf, NoEntry, Entry
  <2>3. QED
    BY <2>1, <2>2
<1>2. CASE e.done \/ s \in e.good \cup e.bad
  <2>1. WithSymbol(b, s, data) = e
    BY <1>2 DEF WithSymbol
  <2>2. QED
    BY <1>1, <2>1
<1>3. CASE ~(e.done \/ s \in e.good \cup e.bad)
  <2>1. WithSymbol(b, s, data) \in {[e EXCEPT !.good = @ \cup {s}], [e EXCEPT !.bad = @ \cup {s}]}
    BY <1>3 DEF WithSymbol
  <2> HIDE DEF e
  <2>2. QED
    BY <1>1, <1>3, <2>1 DEF Entry
<1>4. QED
  BY <1>2, <1>3

LEMMA StoreTyped ==
  ASSUME Typed(blocks), NEW b \in Nat, NEW e \in Entry, e.good \cap e.bad = {}
  PROVE  Typed(Store(b, e)) /\ Typed(Trim(Store(b, e), b))
<1>1. Typed(Store(b, e))
  BY DEF Typed, Store
<1>2. ASSUME NEW known, Typed(known) PROVE Typed(Trim(known, b))
  BY <1>2 DEF Typed, Trim
<1>3. QED
  BY <1>1, <1>2

LEMMA AcceptTyped ==
  ASSUME Typed(blocks), out \in Seq(Output), NEW b \in Nat, NEW s \in Nat, NEW data,
         Accept(b, s, data)
  PROVE  Typed(blocks') /\ out' \in Seq(Output)
<1> DEFINE e == WithSymbol(b, s, data)
<1>1. e \in Entry /\ e.good \cap e.bad = {}
  BY WithSymbolTyped
<1>2. CASE e.done \/ ~Decodable(e)
  <2>1. blocks' = Store(b, e) /\ out' = out
    BY <1>2 DEF Accept
  <2> HIDE DEF e
  <2>2. QED
    BY <1>1, <2>1, StoreTyped
<1>3. CASE ~e.done /\ Decodable(e)
  <2>1. /\ blocks' = Trim(Store(b, [e EXCEPT !.done = TRUE]), b)
        /\ out' = Append(out, [block |-> b, right |-> Right(e)])
    BY <1>3 DEF Accept
  <2> HIDE DEF e
  <2>2. PICK d : d = [e EXCEPT !.done = TRUE]
    OBVIOUS
  <2>3. d \in Entry /\ d.good \cap d.bad = {}
    BY <1>1, <2>2 DEF Entry
  <2>4. Typed(blocks')
    BY <2>1, <2>2, <2>3, StoreTyped
  <2>5. Right(e) \in BOOLEAN
    BY DEF Right
  <2>6. [block |-> b, right |-> Right(e)] \in Output
    BY <2>5 DEF Output
  <2>7. out' \in Seq(Output)
    BY <2>1, <2>6, AppendElems, Zenon
  <2>8. QED
    BY <2>4, <2>7
<1>4. QED
  BY <1>2, <1>3

\* A step of the download keeps the types when it keeps those of what arrived
\* and of what was made of it.
LEMMA DownloadTyped ==
  ASSUME TypeInv, Sent, stage \notin {"push", "finalize", "pad"},
         stage' \in {"receive", "decode", "done"},
         at' \in 1..Len(video) + 1,
         faults' \in Seq(FaultKind), Len(faults') <= MaxFaults,
         wire' \in Seq(Cell), raw' \in Seq(Cell), Len(raw') <= Len(wire'),
         Typed(blocks'), out' \in Seq(Output)
  PROVE  TypeInv'
<1>1. /\ size' = size /\ twins' = twins /\ overhead' = overhead
      /\ coded' = coded /\ frameBuf' = frameBuf /\ video' = video
  BY DEF Sent
<1>2. BlocksOf(size)' = BlocksOf(size) /\ Shown(video)' = Shown(video)
  <2>1. Shown(video)' = Shown(video)
    <3>1. \A v : Shown(v)' = Shown(v)
      BY <1>1, SameStream
    <3>2. QED
      BY <1>1 DEF Shown, Place, OfLast, Total, StreamCell, BlockCells, Symbol, Data, BlocksOf
  <2>2. QED
    BY <1>1, <2>1 DEF BlocksOf
<1>3. Uploaded'
  <2>1. Shown(video)
    BY DEF TypeInv, Uploaded
  <2>2. Shown(video)'
    BY <1>2, <2>1
  <2>3. QED
    BY <2>2 DEF Uploaded
<1>4. Sorts'
  BY <1>1 DEF TypeInv, Sorts, Typed
<1>5. TypeOK'
  <2>1. /\ size' \in Sizes /\ twins' \in TwinSets /\ overhead' \in Overheads
        /\ coded' \in 0..BlocksOf(size') /\ Len(frameBuf') < FrameCells
        /\ \A j \in 1..Len(video') : Len(video'[j]) = FrameCells
        /\ at' \in 1..Len(video') + 1
    BY <1>1 DEF TypeInv, TypeOK
  <2>2. \A i \in 1..Len(out') : out'[i] \in [block : Nat, right : BOOLEAN]
    <3>1. \A i \in 1..Len(out') : out'[i] \in Output
      BY ElementOfSeq
    <3>2. QED
      BY <3>1 DEF Output
  <2>3. \A b \in DOMAIN blocks' : blocks'[b].good \cap blocks'[b].bad = {}
    BY DEF Typed
  <2>4. QED
    BY <2>1, <2>2, <2>3 DEF TypeOK
<1>6. QED
  BY <1>3, <1>4, <1>5 DEF TypeInv

\* A frame that arrives is appended to the cells that arrived and to the buffer.
LEMMA PushFrameTyped ==
  ASSUME TypeInv, Arriving, NEW cells \in Seq(Cell), PushFrame(cells),
         at' \in 1..Len(video) + 1,
         faults' \in Seq(FaultKind), Len(faults') <= MaxFaults
  PROVE  TypeInv'
<1>1. wire \in Seq(Cell) /\ raw \in Seq(Cell) /\ Len(raw) <= Len(wire)
  BY DEF TypeInv, TypeOK, Sorts
<1>2. wire' = wire \o cells /\ raw' = raw \o cells
  BY DEF PushFrame
<1>3. wire' \in Seq(Cell) /\ raw' \in Seq(Cell) /\ Len(raw') <= Len(wire')
  BY <1>1, <1>2
<1>4. Typed(blocks') /\ out' \in Seq(Output)
  BY DEF PushFrame, TypeInv, TypeOK, Sorts, Typed
<1>5. /\ Sent /\ stage \notin {"push", "finalize", "pad"}
      /\ stage' \in {"receive", "decode", "done"}
  BY DEF PushFrame, Arriving
<1>6. QED
  BY <1>3, <1>4, <1>5, DownloadTyped

LEMMA ArrivingFrame ==
  ASSUME TypeInv, Arriving
  PROVE  /\ video[at] \in Seq(Cell) /\ Len(video[at]) = FrameCells
         /\ at \in 1..Len(video) /\ at + 1 \in 1..Len(video) + 1
         /\ at \in 1..Len(video) + 1
<1>1. video \in Seq(Frame) /\ at \in 1..Len(video) + 1 /\ at <= Len(video)
  BY DEF TypeInv, TypeOK, Sorts, Arriving
<1>2. Len(video) \in Nat
  BY <1>1, LenProperties
<1>3. at \in 1..Len(video) /\ at + 1 \in 1..Len(video) + 1
  BY <1>1, <1>2
<1>4. video[at] \in Frame
  BY <1>1, <1>3, ElementOfSeq
<1>5. QED
  BY <1>1, <1>3, <1>4 DEF Frame

LEMMA FaultTyped ==
  ASSUME TypeInv, NEW kind \in FaultKind, Fault(kind)
  PROVE  faults' \in Seq(FaultKind) /\ Len(faults') <= MaxFaults
<1>1. faults \in Seq(FaultKind) /\ Len(faults) < MaxFaults /\ faults' = Append(faults, kind)
  BY DEF TypeInv, Sorts, Fault
<1>2. Len(faults) \in Nat /\ MaxFaults \in Nat
  BY <1>1, LenProperties, Constants
<1>3. faults' \in Seq(FaultKind) /\ Len(faults') = Len(faults) + 1
  BY <1>1, AppendElems, Zenon
<1>4. QED
  BY <1>1, <1>2, <1>3

LEMMA DownloadSteps ==
  ASSUME TypeInv, Deliver \/ Lose \/ Repeat \/ Damage \/ Wait \/ TakeSymbol \/ Pop
  PROVE  TypeInv'
<1> USE DEF FaultKind
<1>1. /\ faults \in Seq(FaultKind) /\ Len(faults) <= MaxFaults
      /\ wire \in Seq(Cell) /\ raw \in Seq(Cell) /\ Len(raw) <= Len(wire)
      /\ at \in 1..Len(video) + 1 /\ out \in Seq(Output)
      /\ Typed(blocks) /\ size \in Sizes
  BY DEF TypeInv, TypeOK, Sorts, Typed
<1>2. Len(raw) \in Nat /\ Len(wire) \in Nat
  BY <1>1, LenProperties
<1>3. CASE Deliver
  <2>1. /\ Arriving /\ PushFrame(video[at]) /\ at' = at + 1 /\ faults' = faults
    BY <1>3 DEF Deliver
  <2>2. QED
    BY <1>1, <2>1, ArrivingFrame, PushFrameTyped
<1>4. CASE Lose
  <2>1. /\ Arriving /\ Fault("lost") /\ at' = at + 1 /\ stage' = stage
        /\ wire' = wire /\ raw' = raw /\ blocks' = blocks /\ out' = out /\ Sent
    BY <1>4 DEF Lose, Fault
  <2>2. at' \in 1..Len(video) + 1
    BY <2>1, ArrivingFrame
  <2>3. faults' \in Seq(FaultKind) /\ Len(faults') <= MaxFaults
    BY <2>1, FaultTyped
  <2>4. stage = "receive"
    BY <2>1 DEF Arriving
  <2>5. stage \notin {"push", "finalize", "pad"} /\ stage' \in {"receive", "decode", "done"}
    BY <2>1, <2>4
  <2>6. /\ wire' \in Seq(Cell) /\ raw' \in Seq(Cell) /\ Len(raw') <= Len(wire')
        /\ Typed(blocks') /\ out' \in Seq(Output)
    BY <1>1, <2>1
  <2>7. QED
    BY <2>1, <2>2, <2>3, <2>5, <2>6, DownloadTyped
<1>5. CASE Repeat
  <2>1. Arriving /\ Fault("repeated") /\ PushFrame(video[at]) /\ at' = at
    BY <1>5 DEF Repeat, Fault
  <2>2. faults' \in Seq(FaultKind) /\ Len(faults') <= MaxFaults
    BY <2>1, FaultTyped
  <2>3. QED
    BY <2>1, <2>2, ArrivingFrame, PushFrameTyped
<1>6. CASE Damage
  <2>1. PICK i \in 1..FrameCells, c \in {Noise, Magic} \cup {Header(m) : m \in Misread} :
          PushFrame([video[at] EXCEPT ![i] = c])
    BY <1>6 DEF Damage
  <2>2. Arriving /\ Fault("damaged") /\ at' = at + 1
    BY <1>6 DEF Damage, Fault
  <2>3. c \in Cell
    <3>1. Noise \in Cell /\ Magic \in Cell
      BY CellIs DEF Noise, Magic, Kind
    <3>2. \A m \in Misread : Header(m) \in Cell
      <4>1. \A m \in Misread : m[1] \in Nat /\ m[2] \in Nat
        BY StreamAssumption
      <4>2. QED
        BY <4>1, CellIs DEF Header, Kind
    <3>3. QED
      BY <3>1, <3>2
  <2>4. [video[at] EXCEPT ![i] = c] \in Seq(Cell)
    <3>1. video[at] \in Seq(Cell) /\ Len(video[at]) = FrameCells
      BY <2>2, ArrivingFrame
    <3>2. QED
      BY <2>3, <3>1, ExceptSeq
  <2>5. faults' \in Seq(FaultKind) /\ Len(faults') <= MaxFaults
    BY <2>2, FaultTyped
  <2>6. at' \in 1..Len(video) + 1
    BY <2>2, ArrivingFrame
  <2>7. QED
    BY <2>1, <2>2, <2>4, <2>5, <2>6, PushFrameTyped
<1>7. CASE Wait
  <2>1. /\ stage = "decode" /\ stage' = "receive" /\ blocks' = blocks /\ out' = out
        /\ Decoding
    BY <1>7 DEF Wait
  <2>2. raw' \in Seq(Cell) /\ Len(raw') <= Len(raw)
    <3>1. CASE Marks = {}
      BY <1>1, <1>2, <1>7, <3>1 DEF Wait
    <3>2. CASE Marks # {}
      <4>1. raw' = Pending
        BY <1>7, <3>2 DEF Wait
      <4>2. PICK m \in Nat : Pending \in Seq(Cell) /\ Len(Pending) = Len(raw) - m
        BY <1>1, <3>2, PendingIs
      <4>3. QED
        BY <1>2, <4>1, <4>2
    <3>3. QED
      BY <3>1, <3>2
  <2>3. Len(raw') \in Nat
    BY <2>2, LenProperties
  <2>4. QED
    BY <1>1, <1>2, <2>1, <2>2, <2>3, DownloadTyped DEF Decoding, Sent
<1>8. CASE TakeSymbol
  <2>1. /\ stage = "decode" /\ stage' = stage /\ Decoding /\ Marks # {}
        /\ Len(Pending) >= SymbolLen
        /\ raw' = SubSeq(Pending, SymbolLen + 1, Len(Pending))
    BY <1>8 DEF TakeSymbol
  <2>2. PICK m \in Nat : Pending \in Seq(Cell) /\ Len(Pending) = Len(raw) - m
    BY <1>1, <2>1, PendingIs
  <2>3. SymbolLen \in Nat /\ SymbolLen > 2 /\ Len(Pending) \in Nat
    BY <2>2, Constants, LenProperties
  <2>4. raw' \in Seq(Cell) /\ Len(raw') <= Len(raw) /\ Len(raw') \in Nat
    <3>1. PICK n : n = Len(Pending) - SymbolLen
      OBVIOUS
    <3>2. n \in Nat /\ SymbolLen + n = Len(Pending)
      BY <2>1, <2>3, <3>1
    <3>3. /\ SubSeq(Pending, SymbolLen + 1, SymbolLen + n) \in Seq(Cell)
          /\ Len(SubSeq(Pending, SymbolLen + 1, SymbolLen + n)) = n
      BY <2>2, <2>3, <3>2, Stretch
    <3>4. QED
      BY <1>2, <2>1, <2>2, <2>3, <3>1, <3>2, <3>3
  <2>5. Pending[2] \in Cell
    <3>1. 2 \in 1..Len(Pending)
      BY <2>1, <2>3
    <3>2. QED
      BY <2>2, <3>1, ElementOfSeq, Zenon
  <2>6. IdOf(Pending[2])[1] \in Nat /\ IdOf(Pending[2])[2] \in Nat
    BY <1>1, <2>5, IdIs
  <2>7. Accept(IdOf(Pending[2])[1], IdOf(Pending[2])[2], SubSeq(Pending, 3, SymbolLen))
    BY <1>8 DEF TakeSymbol
  <2>8. Typed(blocks') /\ out' \in Seq(Output)
    BY <1>1, <2>6, <2>7, AcceptTyped
  <2>9. Sent /\ at' = at /\ faults' = faults /\ wire' = wire
    BY <2>1 DEF Decoding, Sent
  <2>10. /\ stage \notin {"push", "finalize", "pad"} /\ stage' \in {"receive", "decode", "done"}
         /\ Len(raw') <= Len(wire')
    BY <1>1, <1>2, <2>1, <2>4, <2>9
  <2>11. at' \in 1..Len(video) + 1 /\ faults' \in Seq(FaultKind) /\ Len(faults') <= MaxFaults
         /\ wire' \in Seq(Cell)
    BY <1>1, <2>9
  <2>12. QED
    BY <2>4, <2>8, <2>9, <2>10, <2>11, DownloadTyped
<1>9. CASE Pop
  <2>1. /\ stage = "receive" /\ stage' = "done" /\ blocks' = blocks /\ out' = out
        /\ raw' = raw /\ Decoding
    BY <1>9 DEF Pop
  <2>2. QED
    BY <1>1, <2>1, DownloadTyped DEF Decoding, Sent
<1>10. QED
  BY <1>3, <1>4, <1>5, <1>6, <1>7, <1>8, <1>9

\* What no step of the upload touches.
LEMMA UploadTyped ==
  ASSUME TypeInv, Encoding, at = 1, video' \in Seq(Frame), frameBuf' \in Seq(Cell),
         Len(frameBuf') < FrameCells, coded' \in 0..BlocksOf(size),
         stage' \in {"finalize", "pad", "receive"}, Uploaded'
  PROVE  TypeInv'
<1>1. /\ size' = size /\ twins' = twins /\ overhead' = overhead /\ at' = at
      /\ faults' = faults /\ wire' = wire /\ raw' = raw /\ blocks' = blocks /\ out' = out
  BY DEF Encoding
<1>2. Len(video') \in Nat
  BY LenProperties
<1>3. at' \in 1..Len(video') + 1
  BY <1>1, <1>2
<1>4. \A j \in 1..Len(video') : Len(video'[j]) = FrameCells
  <2>1. \A j \in 1..Len(video') : video'[j] \in Frame
    BY ElementOfSeq
  <2>2. QED
    BY <2>1 DEF Frame
<1>5. TypeOK'
  <2>1. coded' \in 0..BlocksOf(size')
    BY <1>1
  <2>2. QED
    BY <1>1, <1>3, <1>4, <2>1 DEF TypeInv, TypeOK
<1>6. Sorts'
  BY <1>1 DEF TypeInv, Sorts
<1>7. QED
  BY <1>5, <1>6 DEF TypeInv

LEMMA UploadSteps ==
  ASSUME TypeInv, PushData \/ Finalize \/ PadVideo
  PROVE  TypeInv'
<1>1. /\ size \in Sizes /\ video \in Seq(Frame) /\ frameBuf \in Seq(Cell)
      /\ Len(frameBuf) < FrameCells /\ coded \in 0..BlocksOf(size) /\ Uploaded
  BY DEF TypeInv, TypeOK, Sorts
<1>2. stage \in {"push", "finalize", "pad"} /\ Encoding
  BY DEF PushData, Finalize, PadVideo
<1>3. at = 1 /\ size' = size
  BY <1>2 DEF TypeInv, Sorts, Encoding
<1>4. /\ size \div Source \in Nat /\ BlocksOf(size) \in Nat
      /\ size \div Source <= BlocksOf(size)
  BY <1>1, LastBlock
<1>5. CASE PushData
  <2>1. /\ video' \in Seq(Frame) /\ frameBuf' \in Seq(Cell)
        /\ Len(frameBuf') < FrameCells
        /\ Len(video') * FrameCells + Len(frameBuf') = (size \div Source) * BlockLen
        /\ Laid(video') /\ Begun(video', frameBuf')
    BY <1>1, <1>5, PushDataWrites
  <2>2. stage' = "finalize" /\ coded' = size \div Source
    BY <1>5 DEF PushData
  <2>3. Laid(video)' /\ Begun(video, frameBuf)'
    <3>1. PICK v, f : v = video' /\ f = frameBuf'
      OBVIOUS
    <3>2. Laid(v)' /\ Begun(v, f)'
      BY <1>3, <2>1, <3>1, SameStream
    <3>3. QED
      BY <3>1, <3>2 DEF Laid, Begun
  <2>4. Uploaded'
    <3>1. Len(video') * FrameCells + Len(frameBuf') = coded' * BlockLen
      BY <2>1, <2>2
    <3>2. coded' = size' \div Source
      BY <1>3, <2>2
    <3>3. QED
      BY <2>2, <2>3, <3>1, <3>2 DEF Uploaded
  <2>5. coded' \in 0..BlocksOf(size)
    BY <1>4, <2>2
  <2>6. QED
    BY <1>2, <1>3, <2>1, <2>2, <2>4, <2>5, UploadTyped
<1>6. CASE Finalize
  <2>1. video' \in Seq(Frame) /\ Shown(video')
    BY <1>1, <1>6, FinalizeWrites
  <2>2. stage' = "pad" /\ coded' = BlocksOf(size) /\ frameBuf' = <<>>
    BY <1>6 DEF Finalize
  <2>3. Uploaded'
    <3>1. PICK v : v = video'
      OBVIOUS
    <3>2. Shown(v)'
      BY <1>3, <2>1, <3>1, SameStream
    <3>3. Shown(video)'
      BY <3>1, <3>2 DEF Shown, Place
    <3>4. QED
      BY <2>2, <3>3 DEF Uploaded
  <2>4. frameBuf' \in Seq(Cell) /\ Len(frameBuf') < FrameCells
    BY <2>2, EmptySeq, Constants
  <2>5. coded' \in 0..BlocksOf(size)
    BY <1>4, <2>2
  <2>6. QED
    BY <1>2, <1>3, <2>1, <2>2, <2>3, <2>4, <2>5, UploadTyped
<1>7. CASE PadVideo
  <2>1. stage = "pad" /\ stage' = "receive" /\ coded' = coded /\ frameBuf' = frameBuf
    BY <1>7 DEF PadVideo
  <2>2. Shown(video)
    BY <1>1, <2>1 DEF Uploaded
  <2>3. video' \in Seq(Frame) /\ Shown(video')
    BY <1>1, <1>7, <2>2, PadVideoShows
  <2>4. Uploaded'
    <3>1. PICK v : v = video'
      OBVIOUS
    <3>2. Shown(v)'
      BY <1>3, <2>3, <3>1, SameStream
    <3>3. Shown(video)'
      BY <3>1, <3>2 DEF Shown, Place
    <3>4. QED
      BY <2>1, <3>3 DEF Uploaded
  <2>5. QED
    BY <1>1, <1>2, <1>3, <2>1, <2>3, <2>4, UploadTyped
<1>8. QED
  BY <1>5, <1>6, <1>7

\* At the start nothing is written and nothing has arrived.
LEMMA InitTyped ==
  ASSUME Init
  PROVE  TypeInv
<1> USE DEF Init
<1>1. <<>> \in Seq(Cell) /\ <<>> \in Seq(Frame) /\ <<>> \in Seq(FaultKind)
      /\ <<>> \in Seq(Output) /\ Len(<<>>) = 0
  OBVIOUS
<1>2. FrameCells \in Nat \ {0} /\ MaxFaults \in Nat
  BY Constants
<1>3. Typed(blocks) /\ DOMAIN blocks = {}
  BY DEF Typed
<1>4. BlocksOf(size) \in Nat
  BY LastBlock
<1>5. TypeOK
  <2>1. /\ Len(frameBuf) < FrameCells /\ Len(faults) <= MaxFaults /\ Len(raw) <= Len(wire)
        /\ coded \in 0..BlocksOf(size) /\ at \in 1..Len(video) + 1
    BY <1>1, <1>2, <1>4
  <2>2. /\ \A j \in 1..Len(video) : Len(video[j]) = FrameCells
        /\ \A i \in 1..Len(out) : out[i] \in [block : Nat, right : BOOLEAN]
    BY <1>1
  <2>3. QED
    BY <1>3, <2>1, <2>2 DEF TypeOK
<1>6. Sorts
  BY <1>1, <1>3 DEF Sorts
<1>7. Uploaded
  BY DEF Uploaded
<1>8. QED
  BY <1>5, <1>6, <1>7 DEF TypeInv

LEMMA TypeStep ==
  ASSUME TypeInv, [Next]_vars
  PROVE  TypeInv'
<1>1. CASE PushData \/ Finalize \/ PadVideo
  BY <1>1, UploadSteps
<1>2. CASE Deliver \/ Lose \/ Repeat \/ Damage \/ Wait \/ TakeSymbol \/ Pop
  BY <1>2, DownloadSteps
<1>3. CASE UNCHANGED vars
  <2>1. /\ size' = size /\ twins' = twins /\ overhead' = overhead /\ stage' = stage
        /\ coded' = coded /\ frameBuf' = frameBuf /\ video' = video /\ at' = at
        /\ faults' = faults /\ wire' = wire /\ raw' = raw /\ blocks' = blocks /\ out' = out
    BY <1>3 DEF vars
  <2>2. TypeOK' /\ Sorts'
    BY <2>1 DEF TypeInv, TypeOK, Sorts, BlocksOf
  <2>3. Uploaded'
    <3>1. PICK v, f : v = video /\ f = frameBuf
      OBVIOUS
    <3>2. Laid(v)' = Laid(v) /\ Begun(v, f)' = Begun(v, f) /\ Shown(v)' = Shown(v)
      BY <2>1, SameStream
    <3>3. /\ Laid(video)' = Laid(video) /\ Begun(video, frameBuf)' = Begun(video, frameBuf)
          /\ Shown(video)' = Shown(video)
      BY <2>1, <3>1, <3>2, ZenonT(30) DEF Laid, Begun, Shown, Place
    <3>4. QED
      BY <2>1, <3>3 DEF TypeInv, Uploaded
  <2>4. QED
    BY <2>2, <2>3 DEF TypeInv
<1>4. QED
  BY <1>1, <1>2, <1>3 DEF Next

\* The variables keep their types, the buffer is no longer than what arrived,
\* and no symbol of a block is kept both as right and as wrong.
THEOREM TypeCorrect == Spec => []TypeOK
<1>1. Init => TypeInv
  BY InitTyped
<1>2. TypeInv /\ [Next]_vars => TypeInv'
  BY TypeStep
<1>3. TypeInv => TypeOK
  BY DEF TypeInv
<1>4. QED
  BY <1>1, <1>2, <1>3, PTL DEF Spec

-----------------------------------------------------------------------------
(* A video that arrives as it was sent.                                    *)

\* What arrived is the stream from its start, and the buffer is its end.
Received ==
  /\ Len(wire) = (at - 1) * FrameCells
  /\ \A i \in 1..Len(wire) : /\ i <= Total => wire[i] = StreamCell(i)
                             /\ i > Total  => OfLast(wire[i])
  /\ \A i \in 1..Len(raw) : raw[i] = wire[Len(wire) - Len(raw) + i]

\* The entry of a block of which the first s symbols were taken.
Taken(s) ==
  IF s < Source THEN [good |-> 0..(s - 1), bad |-> {}, done |-> FALSE]
                ELSE [good |-> 0..(Source - 1), bad |-> {}, done |-> TRUE]
Prefix(n) == [i \in 1..n |-> [block |-> i - 1, right |-> TRUE]]

\* What the decoder knows when symbol s of block b is next.
Memory(b, s) ==
  /\ \A x \in DOMAIN blocks : x <= b /\ (x < b => blocks[x].done)
  /\ s = 0 => b \notin DOMAIN blocks /\ (b > 0 => b - 1 \in DOMAIN blocks)
  /\ s > 0 => b \in DOMAIN blocks /\ blocks[b] = Taken(s)
  /\ out = Prefix(IF s < Source THEN b ELSE b + 1)

\* Within the stream the buffer starts with a symbol, the next in order.
Midway ==
  /\ \E b \in 0..(BlocksOf(size) - 1), s \in 0..(Symbols - 1) :
       /\ Len(wire) - Len(raw) = b * BlockLen + s * SymbolLen
       /\ Memory(b, s)
  /\ stage # "decode" => Len(raw) < SymbolLen

\* Behind it the last block is decoded, and of no other that is not decoded
\* more than a symbol 0 is known.
Closed ==
  /\ BlocksOf(size) - 1 \in DOMAIN blocks /\ blocks[BlocksOf(size) - 1].done
  /\ \A x \in DOMAIN blocks :
       blocks[x].done \/ blocks[x].good \cup blocks[x].bad \subseteq {0}
Settled == Len(wire) - Len(raw) >= Total /\ Closed /\ out = Blocks

ExactInv ==
  /\ faults = <<>> => Received /\ (Midway \/ Settled)
  /\ stage = "done" => at > Len(video)

\* The cells of a symbol stand together in the stream.
LEMMA StreamSymbol ==
  ASSUME NEW b \in Nat, NEW s \in 0..(Symbols - 1)
  PROVE  /\ b * BlockLen \in Nat /\ s * SymbolLen \in Nat
         /\ s * SymbolLen + SymbolLen <= BlockLen
         /\ \A k \in 1..SymbolLen :
              StreamCell(b * BlockLen + s * SymbolLen + k) = Symbol(b, s)[k]
<1>1. /\ SymbolLen \in Nat \ {0} /\ Symbols \in Nat \ {0} /\ BlockLen \in Nat \ {0}
      /\ BlockLen = Symbols * SymbolLen
  BY Constants, Lengths
<1>2. s \in Nat /\ s < Symbols
  BY <1>1
<1>3. PICK p, q, l : p = b * BlockLen /\ q = s * SymbolLen /\ l = BlockLen
  OBVIOUS
<1>4. p \in Nat /\ q \in Nat
  BY <1>1, <1>2, <1>3, Product
<1>5. q + SymbolLen <= l
  BY <1>1, <1>2, <1>3, ProductGrows
<1>6. ASSUME NEW k \in 1..SymbolLen
      PROVE  StreamCell(p + q + k) = Symbol(b, s)[k]
  <2>1. PICK j, o : j = q + k - 1 /\ o = k - 1
    OBVIOUS
  <2>2. /\ j \in Nat /\ j < l /\ p + j + 1 = p + q + k /\ j + 1 \in 1..l
        /\ o \in Nat /\ o < SymbolLen /\ j = q + o /\ (j + 1) - 1 = j /\ o + 1 = k
        /\ l \in Nat \ {0}
    BY <1>1, <1>3, <1>4, <1>5, <2>1
  <2>3. StreamCell(p + j + 1) = BlockCells(b + (j \div BlockLen))[(j % BlockLen) + 1]
    BY <1>3, <2>2, StreamFrom
  <2>4. j \div BlockLen = 0 /\ j % BlockLen = j
    BY <1>3, <2>2, DivisionSmall
  <2>5. StreamCell(p + j + 1) = BlockCells(b)[j + 1]
    BY <2>3, <2>4
  <2>6. BlockCells(b)[j + 1] = Symbol(b, j \div SymbolLen)[(j % SymbolLen) + 1]
    BY <1>3, <2>2, BlockPlace
  <2>7. j \div SymbolLen = s /\ j % SymbolLen = o
    <3>1. j = s * SymbolLen + o
      BY <1>3, <2>2
    <3>2. o \in Nat /\ o < SymbolLen
      BY <2>2
    <3>3. QED
      BY <1>1, <1>2, <3>1, <3>2, DivisionIs
  <2>8. QED
    BY <2>2, <2>5, <2>6, <2>7
<1>7. QED
  BY <1>3, <1>4, <1>5, <1>6

LEMMA TakenIs ==
  ASSUME NEW s \in Nat
  PROVE  /\ Taken(s) \in Entry /\ Taken(s).bad = {}
         /\ s < Source => Taken(s).good = 0..(s - 1) /\ Taken(s).done = FALSE
         /\ ~(s < Source) => Taken(s).good = 0..(Source - 1) /\ Taken(s).done = TRUE
<1>1. Source \in Nat
  BY Constants
<1>2. CASE s < Source
  <2>1. 0..(s - 1) \subseteq Nat
    BY <1>1
  <2>2. QED
    BY <1>2, <2>1 DEF Taken, Entry
<1>3. CASE ~(s < Source)
  <2>1. 0..(Source - 1) \subseteq Nat
    BY <1>1
  <2>2. QED
    BY <1>3, <2>1 DEF Taken, Entry
<1>4. QED
  BY <1>2, <1>3

\* One symbol taken of a block of which the symbols before it were.
LEMMA TakenNext ==
  ASSUME Typed(blocks), NEW b \in Nat, NEW s \in 0..(Symbols - 1), Memory(b, s),
         NEW data, data = SubSeq(Symbol(b, s), 3, SymbolLen),
         NEW e, e = WithSymbol(b, s, data)
  PROVE  /\ e \in Entry /\ e.bad = {}
         /\ s < Source => e.good = 0..s /\ e.done = FALSE
         /\ ~(s < Source) => e = Taken(s)
<1>1. Source \in Nat /\ Source > 1 /\ s \in Nat
  BY Constants
<1>2. PICK d : d = Taken(s)
  OBVIOUS
<1>3. /\ d \in Entry /\ d.bad = {}
      /\ s < Source => d.good = 0..(s - 1) /\ d.done = FALSE
      /\ ~(s < Source) => d.good = 0..(Source - 1) /\ d.done = TRUE
  BY <1>1, <1>2, TakenIs
<1>4. EntryOf(b) = d
  <2>1. CASE s = 0
    <3>1. 0..(s - 1) = {}
      BY <2>1
    <3>2. EntryOf(b) = NoEntry
      BY <2>1 DEF EntryOf, Memory
    <3>3. /\ NoEntry \in Entry /\ NoEntry.good = {} /\ NoEntry.bad = {}
          /\ NoEntry.done = FALSE
      BY DEF NoEntry, Entry
    <3>4. s < Source
      BY <1>1, <2>1
    <3>5. QED
      BY <1>3, <3>1, <3>2, <3>3, <3>4, SameEntry
  <2>2. CASE s > 0
    BY <1>2, <2>2 DEF EntryOf, Memory
  <2>3. QED
    BY <1>1, <2>1, <2>2
<1>5. e \in Entry
  BY WithSymbolTyped
<1>6. CASE s < Source
  <2>1. s \notin 0..(s - 1) /\ (0..(s - 1)) \cup {s} = 0..s
    BY <1>1
  <2>2. s \notin d.good \cup d.bad /\ ~d.done /\ d.good \cup {s} = 0..s
    BY <1>3, <1>6, <2>1
  <2>3. e = [d EXCEPT !.good = @ \cup {s}]
    BY <1>4, <2>2 DEF WithSymbol
  <2>4. e.good = d.good \cup {s} /\ e.bad = d.bad /\ e.done = d.done
    BY <1>3, <2>3 DEF Entry
  <2>5. QED
    BY <1>3, <1>5, <1>6, <2>2, <2>4
<1>7. CASE ~(s < Source)
  <2>1. d.done
    BY <1>3, <1>7
  <2>2. e = d
    BY <1>4, <2>1 DEF WithSymbol
  <2>3. QED
    BY <1>2, <1>3, <1>5, <1>7, <2>2
<1>8. QED
  BY <1>6, <1>7

LEMMA AcceptNext ==
  ASSUME overhead \in Overheads, NEW b \in Nat, NEW s \in 0..(Symbols - 1), Memory(b, s),
         Typed(blocks),
         Accept(b, s, SubSeq(Symbol(b, s), 3, SymbolLen))
  PROVE  /\ s + 1 < Symbols => Memory(b, s + 1)'
         /\ s + 1 = Symbols => Memory(b + 1, 0)'
<1> DEFINE e == WithSymbol(b, s, SubSeq(Symbol(b, s), 3, SymbolLen))
<1>1. /\ Source \in Nat /\ Source > 1 /\ s \in Nat /\ overhead \in Nat
      /\ Source <= Symbols /\ Kept \in Nat /\ Symbols \in Nat
  BY Constants, StreamAssumption
<1>2. /\ e \in Entry /\ e.bad = {}
      /\ s < Source => e.good = 0..s /\ e.done = FALSE
      /\ ~(s < Source) => e = Taken(s)
  BY TakenNext
<1>3. /\ e.done \/ ~Decodable(e) => blocks' = Store(b, e) /\ out' = out
      /\ ~e.done /\ Decodable(e) =>
           /\ blocks' = Trim(Store(b, [e EXCEPT !.done = TRUE]), b)
           /\ out' = Append(out, [block |-> b, right |-> Right(e)])
  BY DEF Accept
<1> HIDE DEF e
<1>4. /\ \A x \in DOMAIN blocks' : x \in DOMAIN blocks \cup {b}
      /\ \A x \in DOMAIN blocks' : x # b => blocks'[x] = blocks[x]
      /\ b \in DOMAIN blocks' /\ blocks'[b] = Taken(s + 1)
      /\ out' = Prefix(IF s + 1 < Source THEN b ELSE b + 1)
  <2>1. CASE s + 1 < Source
    <3>1. e \in Entry /\ e.good = 0..s /\ e.bad = {} /\ e.done = FALSE
      BY <1>1, <1>2, <2>1
    <3>2. ~Decodable(e)
      <4>1. e.good \cup e.bad = 0..s
        BY <3>1
      <4>2. Cardinality(0..s) = s + 1
        BY <1>1, FS_Interval
      <4>3. Source - 1 \in 0..(Source - 1) /\ Source - 1 \notin 0..s
        BY <1>1, <2>1
      <4>4. ~(s + 1 >= Source + overhead)
        BY <1>1, <2>1
      <4>5. QED
        BY <4>1, <4>2, <4>3, <4>4 DEF Decodable
    <3>3. blocks' = Store(b, e) /\ out' = out
      BY <1>3, <3>2
    <3>4. e = Taken(s + 1)
      <4>1. (s + 1) - 1 = s /\ s + 1 \in Nat
        BY <1>1
      <4>2. PICK f : f = Taken(s + 1)
        OBVIOUS
      <4>3. f \in Entry /\ f.good = 0..s /\ f.bad = {} /\ f.done = FALSE
        BY <2>1, <4>1, <4>2, TakenIs
      <4>4. e = f
        BY <3>1, <4>3, SameEntry
      <4>5. QED
        BY <4>2, <4>4
    <3>5. out = Prefix(b)
      BY <1>1, <2>1 DEF Memory
    <3>6. QED
      BY <2>1, <3>3, <3>4, <3>5 DEF Store
  <2>2. CASE s + 1 = Source
    <3>1. e \in Entry /\ e.good = 0..s /\ e.bad = {} /\ e.done = FALSE
      BY <1>1, <1>2, <2>2
    <3>2. s = Source - 1 /\ s < Source
      BY <1>1, <2>2
    <3>3. Decodable(e) /\ ~e.done
      BY <3>1, <3>2 DEF Decodable
    <3>4. Right(e) = TRUE
      BY <3>1, <3>2 DEF Right
    <3>5. [e EXCEPT !.done = TRUE] = Taken(s + 1)
      <4>1. ~(s + 1 < Source) /\ s + 1 \in Nat
        BY <1>1, <2>2
      <4>2. PICK d, f : d = [e EXCEPT !.done = TRUE] /\ f = Taken(s + 1)
        OBVIOUS
      <4>3. f \in Entry /\ f.good = 0..(Source - 1) /\ f.bad = {} /\ f.done = TRUE
        BY <4>1, <4>2, TakenIs
      <4>4. d \in Entry /\ d.good = e.good /\ d.bad = e.bad /\ d.done = TRUE
        BY <3>1, <4>2 DEF Entry
      <4>5. d.good = f.good /\ d.bad = f.bad /\ d.done = f.done
        BY <3>1, <3>2, <4>3, <4>4
      <4>6. d = f
        BY <4>3, <4>4, <4>5, SameEntry
      <4>7. QED
        BY <4>2, <4>6
    <3>6. /\ blocks' = Trim(Store(b, Taken(s + 1)), b)
          /\ out' = Append(out, [block |-> b, right |-> TRUE])
      BY <1>3, <3>3, <3>4, <3>5
    <3>7. out = Prefix(b)
      BY <3>2 DEF Memory
    <3>8. out' = Prefix(b + 1)
      <4>1. b + 1 \in Nat
        OBVIOUS
      <4>2. QED
        BY <3>6, <3>7 DEF Prefix
    <3>9. b + Kept >= b
      BY <1>1
    <3> HIDE DEF Taken
    <3>10. PICK d : d = Taken(s + 1)
      OBVIOUS
    <3>11. /\ \A x \in DOMAIN blocks' : x \in DOMAIN blocks \cup {b}
           /\ \A x \in DOMAIN blocks' : x # b => blocks'[x] = blocks[x]
           /\ b \in DOMAIN blocks' /\ blocks'[b] = d
      <4>1. CASE Cardinality(DOMAIN Store(b, d)) > MaxTracked
        <5>1. blocks' = [x \in {y \in DOMAIN Store(b, d) : y + Kept >= b} |-> Store(b, d)[x]]
          BY <3>6, <3>10, <4>1 DEF Trim
        <5>2. QED
          BY <3>9, <5>1 DEF Store
      <4>2. CASE ~(Cardinality(DOMAIN Store(b, d)) > MaxTracked)
        <5>1. blocks' = Store(b, d)
          BY <3>6, <3>10, <4>2 DEF Trim
        <5>2. QED
          BY <5>1 DEF Store
      <4>3. QED
        BY <4>1, <4>2
    <3>12. ~(s + 1 < Source)
      BY <1>1, <2>2
    <3>13. QED
      BY <3>8, <3>10, <3>11, <3>12
  <2>3. CASE s + 1 > Source
    <3>1. ~(s < Source) /\ ~(s + 1 < Source)
      BY <1>1, <2>3
    <3>2. e = Taken(s) /\ e.done /\ Taken(s) = Taken(s + 1)
      <4>1. e = Taken(s) /\ Taken(s) = Taken(s + 1)
        BY <1>2, <3>1 DEF Taken
      <4>2. Taken(s).done
        BY <1>1, <3>1, TakenIs
      <4>3. QED
        BY <4>1, <4>2
    <3>3. blocks' = Store(b, e) /\ out' = out
      BY <1>3, <3>2
    <3>4. out = Prefix(b + 1)
      BY <3>1 DEF Memory
    <3>5. QED
      BY <3>1, <3>2, <3>3, <3>4 DEF Store
  <2>4. QED
    BY <1>1, <2>1, <2>2, <2>3
<1>5. CASE s + 1 < Symbols
  <2>1. PICK t : t = s + 1
    OBVIOUS
  <2>2. t \in Nat /\ t > 0 /\ t # 0 /\ t <= Symbols - 1
    BY <1>1, <1>5, <2>1
  <2>3. \A x \in DOMAIN blocks' : x <= b /\ (x < b => blocks'[x].done)
    BY <1>4 DEF Memory
  <2>4. Memory(b, t)'
    <3>1. out' = Prefix(IF t < Source THEN b ELSE b + 1)'
      BY <1>4, <2>1 DEF Prefix
    <3>2. b \in DOMAIN blocks' /\ blocks'[b] = Taken(t)'
      BY <1>4, <2>1 DEF Taken
    <3>3. QED
      BY <2>2, <2>3, <3>1, <3>2 DEF Memory
  <2>5. QED
    BY <1>1, <1>5, <2>1, <2>4
<1>6. CASE s + 1 = Symbols
  <2>1. PICK n : n = b + 1
    OBVIOUS
  <2>2. ~(s + 1 < Source) /\ n \in Nat /\ n - 1 = b /\ b < n /\ n > 0
    BY <1>1, <1>6, <2>1
  <2>3. blocks'[b].done
    BY <1>4, <2>2 DEF Taken
  <2>4. \A x \in DOMAIN blocks' : x <= b /\ blocks'[x].done
    <3>1. \A x \in DOMAIN blocks : x \in Nat /\ x <= b /\ (x < b => blocks[x].done)
      BY DEF Memory, Typed
    <3>2. ASSUME NEW x \in DOMAIN blocks' PROVE x <= b /\ blocks'[x].done
      <4>1. CASE x = b
        BY <2>3, <4>1
      <4>2. CASE x # b
        <5>1. x \in DOMAIN blocks /\ x < b /\ blocks'[x] = blocks[x]
          BY <1>4, <3>1, <4>2
        <5>2. QED
          BY <3>1, <5>1
      <4>3. QED
        BY <4>1, <4>2
    <3>3. QED
      BY <3>2
  <2>5. Memory(n, 0)'
    <3>1. n \notin DOMAIN blocks' /\ n - 1 \in DOMAIN blocks'
      BY <1>4, <2>2, <2>4
    <3>2. out' = Prefix(IF 0 < Source THEN n ELSE n + 1)'
      BY <1>1, <1>4, <2>1, <2>2 DEF Prefix
    <3>3. \A x \in DOMAIN blocks' : x <= n /\ (x < n => blocks'[x].done)
      <4>1. \A x \in DOMAIN blocks' : x \in Nat
        BY <1>4 DEF Typed
      <4>2. QED
        BY <2>2, <2>4, <4>1
    <3>4. QED
      BY <3>1, <3>2, <3>3 DEF Memory
  <2>6. QED
    BY <1>1, <1>6, <2>1, <2>5
<1>7. QED
  BY <1>5, <1>6

\* Behind the stream neither the last block nor a symbol 0 decodes anything.
LEMMA AcceptSettled ==
  ASSUME Typed(blocks), Closed, overhead \in Overheads, NEW b \in Nat, NEW s \in Nat,
         b = BlocksOf(size) - 1 \/ s = 0, NEW data, Accept(b, s, data), size' = size
  PROVE  Closed' /\ out' = out
<1>1. PICK e : e = WithSymbol(b, s, data)
  OBVIOUS
<1>2. PICK d : d = EntryOf(b)
  OBVIOUS
<1>3. d.done \/ d.good \cup d.bad \subseteq {0}
  BY <1>2 DEF EntryOf, NoEntry, Closed
<1>4. b = BlocksOf(size) - 1 => d.done
  BY <1>2 DEF EntryOf, Closed
<1>5. d \in Entry
  BY <1>2 DEF EntryOf, NoEntry, Typed, Entry
<1>6. /\ e.done \/ (~e.done /\ e.good \cup e.bad \subseteq {0})
      /\ b = BlocksOf(size) - 1 => e.done
  <2>1. CASE d.done \/ s \in d.good \cup d.bad
    <3>1. e = d
      BY <1>1, <1>2, <2>1 DEF WithSymbol
    <3>2. QED
      BY <1>3, <1>4, <3>1
  <2>2. CASE ~(d.done \/ s \in d.good \cup d.bad)
    <3>1. s = 0 /\ b # BlocksOf(size) - 1
      BY <1>4, <2>2
    <3>2. e \in {[d EXCEPT !.good = @ \cup {s}], [d EXCEPT !.bad = @ \cup {s}]}
      BY <1>1, <1>2, <2>2 DEF WithSymbol
    <3>3. e.done = d.done /\ e.good \cup e.bad = d.good \cup d.bad \cup {s}
      BY <1>5, <3>2 DEF Entry
    <3>4. QED
      BY <1>3, <2>2, <3>1, <3>3
  <2>3. QED
    BY <2>1, <2>2
<1>7. e.done \/ ~Decodable(e)
  <2>1. SUFFICES ASSUME ~e.done PROVE ~Decodable(e)
    OBVIOUS
  <2>2. PICK S : S = e.good \cup e.bad
    OBVIOUS
  <2>3. S \subseteq {0}
    BY <1>6, <2>1, <2>2
  <2>4. Source \in Nat /\ Source > 1 /\ overhead \in Nat
    BY Constants, StreamAssumption
  <2>5. 1 \in 0..(Source - 1) /\ 1 \notin S
    BY <2>3, <2>4
  <2>6. Cardinality(S) \in Nat /\ Cardinality(S) <= 1
    <3>1. IsFiniteSet({0}) /\ Cardinality({0}) = 1
      BY FS_Singleton
    <3>2. IsFiniteSet(S) /\ Cardinality(S) <= 1
      BY <2>3, <3>1, FS_Subset
    <3>3. QED
      BY <3>2, FS_CardinalityType
  <2>7. PICK n : n = Cardinality(S)
    OBVIOUS
  <2>8. ~(n >= Source + overhead)
    BY <2>4, <2>6, <2>7
  <2>9. QED
    BY <2>2, <2>5, <2>7, <2>8 DEF Decodable
<1>8. blocks' = Store(b, e) /\ out' = out
  BY <1>1, <1>7 DEF Accept
<1>9. BlocksOf(size)' = BlocksOf(size)
  BY DEF BlocksOf
<1>10. PICK n : n = BlocksOf(size) - 1
  OBVIOUS
<1>11. n \in DOMAIN blocks' /\ blocks'[n].done
  BY <1>6, <1>8, <1>10 DEF Store, Closed
<1>12. \A x \in DOMAIN blocks' : blocks'[x].done \/ blocks'[x].good \cup blocks'[x].bad \subseteq {0}
  BY <1>6, <1>8 DEF Store, Closed
<1>13. QED
  BY <1>8, <1>9, <1>10, <1>11, <1>12 DEF Closed

-----------------------------------------------------------------------------
(* One step, as long as nothing happens to the video.                      *)

\* What does not change with the length of the shard.
LEMMA SameMeaning ==
  ASSUME size' = size
  PROVE  /\ \A c : OfLast(c)' = OfLast(c)
         /\ Blocks' = Blocks /\ BlocksOf(size)' = BlocksOf(size) /\ Total' = Total
         /\ \A q : StreamCell(q)' = StreamCell(q)
<1>1. BlocksOf(size)' = BlocksOf(size)
  BY DEF BlocksOf
<1>2. \A c : OfLast(c)' = OfLast(c)
  BY <1>1 DEF OfLast
<1>3. Blocks' = Blocks
  BY <1>1 DEF Blocks
<1>4. QED
  BY <1>1, <1>2, <1>3, SameStream

\* A whole frame more has arrived.
LEMMA DeliverReceived ==
  ASSUME TypeInv, Received, Deliver
  PROVE  Received' /\ Len(wire') - Len(raw') = Len(wire) - Len(raw)
<1>1. /\ wire \in Seq(Cell) /\ raw \in Seq(Cell) /\ Len(raw) <= Len(wire)
      /\ at \in 1..Len(video) /\ video[at] \in Seq(Cell) /\ Len(video[at]) = FrameCells
      /\ Len(wire) = (at - 1) * FrameCells /\ Shown(video)
  BY ArrivingFrame DEF TypeInv, TypeOK, Sorts, Received, Deliver, Arriving, Uploaded
<1>2. PICK f, w, r, lw, lr : /\ f = video[at] /\ w = wire \o f /\ r = raw \o f
                             /\ lw = Len(wire) /\ lr = Len(raw)
  OBVIOUS
<1>3. wire' = w /\ raw' = r /\ at' = at + 1 /\ size' = size
  BY <1>2 DEF Deliver, PushFrame, Sent
<1>4. lw \in Nat /\ lr \in Nat /\ lr <= lw /\ FrameCells \in Nat
  BY <1>1, <1>2, LenProperties, Constants
<1>5. /\ w \in Seq(Cell) /\ Len(w) = lw + FrameCells
      /\ \A i \in 1..(lw + FrameCells) : w[i] = IF i <= lw THEN wire[i] ELSE f[i - lw]
      /\ r \in Seq(Cell) /\ Len(r) = lr + FrameCells
      /\ \A i \in 1..(lr + FrameCells) : r[i] = IF i <= lr THEN raw[i] ELSE f[i - lr]
  <2>1. f \in Seq(Cell) /\ Len(f) = FrameCells /\ w = wire \o f /\ r = raw \o f
    BY <1>1, <1>2
  <2>2. ASSUME NEW a \in Seq(Cell)
        PROVE  /\ a \o f \in Seq(Cell) /\ Len(a \o f) = Len(a) + FrameCells
               /\ \A i \in 1..(Len(a) + FrameCells) :
                    (a \o f)[i] = IF i <= Len(a) THEN a[i] ELSE f[i - Len(a)]
    BY <2>1, ConcatProperties
  <2>3. /\ w \in Seq(Cell) /\ Len(w) = lw + FrameCells
        /\ \A i \in 1..(lw + FrameCells) : w[i] = IF i <= lw THEN wire[i] ELSE f[i - lw]
    BY <1>1, <1>2, <2>2, Zenon
  <2>4. /\ r \in Seq(Cell) /\ Len(r) = lr + FrameCells
        /\ \A i \in 1..(lr + FrameCells) : r[i] = IF i <= lr THEN raw[i] ELSE f[i - lr]
    BY <1>1, <1>2, <2>2, Zenon
  <2>5. QED
    BY <2>3, <2>4
<1>6. Len(w) = at * FrameCells
  <2>1. Len(video) \in Nat /\ at \in Nat /\ at - 1 \in Nat
    BY <1>1, ElementOfSeq
  <2>2. at * FrameCells = (at - 1) * FrameCells + FrameCells
    BY <1>4, <2>1
  <2>3. QED
    BY <1>1, <1>2, <1>5, <2>2
<1>7. \A i \in 1..Len(w) : /\ i <= Total => w[i] = StreamCell(i)
                           /\ i > Total  => OfLast(w[i])
  <2>1. ASSUME NEW i \in 1..Len(w)
        PROVE  /\ i <= Total => w[i] = StreamCell(i)
               /\ i > Total  => OfLast(w[i])
    <3>1. CASE i <= lw
      <4>1. i \in 1..Len(wire) /\ w[i] = wire[i]
        BY <1>2, <1>4, <1>5, <3>1
      <4>2. QED
        BY <4>1 DEF Received
    <3>2. CASE i > lw
      <4>1. PICK o : o = i - lw
        OBVIOUS
      <4>2. o \in 1..FrameCells /\ w[i] = f[o] /\ i = lw + o
        BY <1>4, <1>5, <3>2, <4>1
      <4>3. Place(video, at, o)
        BY <1>1, <4>2 DEF Shown
      <4>4. i = (at - 1) * FrameCells + o
        BY <1>1, <1>2, <4>2
      <4>5. QED
        BY <1>2, <4>2, <4>3, <4>4 DEF Place
    <3>3. QED
      BY <1>4, <1>5, <3>1, <3>2
  <2>2. QED
    BY <2>1
<1>8. \A i \in 1..Len(r) : r[i] = w[Len(w) - Len(r) + i]
  <2>1. ASSUME NEW i \in 1..Len(r) PROVE r[i] = w[Len(w) - Len(r) + i]
    <3>1. PICK k : k = lw - lr + i
      OBVIOUS
    <3>2. Len(w) - Len(r) + i = k /\ k \in 1..(lw + FrameCells) /\ i \in 1..(lr + FrameCells)
      BY <1>4, <1>5, <3>1
    <3>3. CASE i <= lr
      <4>1. i \in 1..Len(raw) /\ k <= lw /\ Len(wire) - Len(raw) + i = k
        BY <1>2, <1>4, <3>1, <3>2, <3>3
      <4>2. raw[i] = wire[k]
        BY <4>1 DEF Received
      <4>3. QED
        BY <1>5, <3>2, <3>3, <4>1, <4>2
    <3>4. CASE i > lr
      <4>1. ~(i <= lr) /\ ~(k <= lw) /\ k - lw = i - lr
        BY <1>4, <3>1, <3>2, <3>4
      <4>2. QED
        BY <1>5, <3>2, <4>1
    <3>5. QED
      BY <1>4, <3>2, <3>3, <3>4
  <2>2. QED
    BY <2>1
<1>9. Len(wire') - Len(raw') = Len(wire) - Len(raw)
  BY <1>2, <1>3, <1>4, <1>5
<1>10. Received'
  <2>1. \A c : OfLast(c)' = OfLast(c)
    BY <1>3, SameMeaning
  <2>2. Total' = Total /\ \A q : StreamCell(q)' = StreamCell(q)
    BY <1>3, SameMeaning
  <2>3. Len(wire') = (at' - 1) * FrameCells
    <3>1. at' - 1 = at
      <4>1. Len(video) \in Nat /\ at \in Nat
        BY <1>1, ElementOfSeq
      <4>2. QED
        BY <1>3, <4>1
    <3>2. QED
      BY <1>3, <1>6, <3>1
  <2>4. ASSUME NEW i \in 1..Len(w)
        PROVE  /\ i <= Total' => w[i] = StreamCell(i)'
               /\ i > Total'  => OfLast(w[i])'
    <3>1. PICK c : c = w[i]
      OBVIOUS
    <3>2. /\ i <= Total => c = StreamCell(i)
          /\ i > Total  => OfLast(c)
      BY <1>7, <3>1
    <3>3. QED
      BY <2>1, <2>2, <3>1, <3>2
  <2>5. QED
    BY <1>3, <1>8, <2>3, <2>4 DEF Received
<1>11. QED
  BY <1>9, <1>10

\* The buffer begins with the symbol that is next, as far as it has arrived.
LEMMA MidwayBuffer ==
  ASSUME TypeInv, Received,
         NEW b \in 0..(BlocksOf(size) - 1), NEW s \in 0..(Symbols - 1),
         Len(wire) - Len(raw) = b * BlockLen + s * SymbolLen
  PROVE  \A k \in 1..SymbolLen : k <= Len(raw) => raw[k] = Symbol(b, s)[k]
<1>1. /\ wire \in Seq(Cell) /\ raw \in Seq(Cell) /\ Len(raw) <= Len(wire)
      /\ size \in Sizes
  BY DEF TypeInv, TypeOK, Sorts
<1>2. PICK n : n = BlocksOf(size)
  OBVIOUS
<1>3. n \in Nat /\ b \in Nat /\ b < n
  BY <1>1, <1>2, LastBlock
<1>4. PICK p, q, lw, lr, l : /\ p = b * BlockLen /\ q = s * SymbolLen
                             /\ lw = Len(wire) /\ lr = Len(raw) /\ l = BlockLen
  OBVIOUS
<1>5. p \in Nat /\ q \in Nat /\ q + SymbolLen <= l
  BY <1>3, <1>4, StreamSymbol
<1>6. p + l <= Total
  BY <1>2, <1>3, <1>4, Lengths, ProductGrows DEF Total
<1>7. Total \in Nat /\ SymbolLen \in Nat /\ l \in Nat /\ lw \in Nat /\ lr \in Nat /\ lr <= lw
  BY <1>1, <1>2, <1>3, <1>4, Lengths, Constants, Product, LenProperties DEF Total
<1>8. ASSUME NEW k \in 1..SymbolLen, k <= Len(raw)
      PROVE  raw[k] = Symbol(b, s)[k]
  <2>1. k \in 1..lr /\ lw - lr = p + q /\ p + q + k \in 1..lw /\ p + q + k <= Total
    BY <1>4, <1>5, <1>6, <1>7, <1>8
  <2>2. raw[k] = wire[p + q + k]
    BY <1>4, <2>1 DEF Received
  <2>3. wire[p + q + k] = StreamCell(p + q + k)
    BY <1>4, <2>1 DEF Received
  <2>4. StreamCell(p + q + k) = Symbol(b, s)[k]
    BY <1>3, <1>4, StreamSymbol
  <2>5. QED
    BY <2>2, <2>3, <2>4
<1>9. QED
  BY <1>8

\* So its first cell is the marker, and nothing is dropped.
LEMMA MidwayPending ==
  ASSUME TypeInv, Received,
         NEW b \in 0..(BlocksOf(size) - 1), NEW s \in 0..(Symbols - 1),
         Len(wire) - Len(raw) = b * BlockLen + s * SymbolLen
  PROVE  /\ Marks = {} => Len(raw) = 0
         /\ Marks # {} => /\ Pending \in Seq(Cell) /\ Len(Pending) = Len(raw)
                          /\ \A i \in 1..Len(raw) : Pending[i] = raw[i]
<1>1. raw \in Seq(Cell) /\ Len(raw) \in Nat /\ size \in Sizes
  BY LenProperties DEF TypeInv, TypeOK, Sorts
<1>2. ASSUME Len(raw) # 0 PROVE 1 \in Marks
  <2>1. 1 \in 1..SymbolLen /\ 1 <= Len(raw) /\ 1 \in 1..Len(raw)
    BY <1>1, <1>2, Constants
  <2>2. raw[1] = Symbol(b, s)[1]
    BY <2>1, MidwayBuffer
  <2>3. b \in Nat /\ s \in Nat
    BY <1>1, LastBlock, Constants
  <2>4. raw[1] = Magic
    BY <2>2, <2>3, SymbolCells
  <2>5. QED
    BY <2>1, <2>4 DEF Marks, IsMagic
<1>3. ASSUME Marks # {}
      PROVE /\ Pending \in Seq(Cell) /\ Len(Pending) = Len(raw)
            /\ \A i \in 1..Len(raw) : Pending[i] = raw[i]
  <2>1. PICK m \in Nat : /\ m + 1 \in Marks /\ \A i \in Marks : m + 1 <= i
                         /\ Pending \in Seq(Cell) /\ Len(Pending) = Len(raw) - m
                         /\ m < Len(raw)
                         /\ \A i \in 1..(Len(raw) - m) : Pending[i] = raw[m + i]
    BY <1>1, <1>3, PendingIs
  <2>2. m = 0
    BY <1>1, <1>2, <2>1
  <2>3. Len(raw) - m = Len(raw) /\ \A i \in 1..Len(raw) : m + i = i
    BY <1>1, <2>2
  <2>4. QED
    BY <2>1, <2>3
<1>4. QED
  BY <1>2, <1>3

\* Cells dropped from the front of the buffer leave the end of what arrived.
LEMMA DroppedReceived ==
  ASSUME TypeInv, Received, NEW m \in Nat, m <= Len(raw),
         wire' = wire, at' = at, size' = size, raw' \in Seq(Cell),
         Len(raw') = Len(raw) - m, \A i \in 1..(Len(raw) - m) : raw'[i] = raw[m + i]
  PROVE  Received' /\ Len(wire') - Len(raw') = Len(wire) - Len(raw) + m
<1>1. PICK lw, lr, r : lw = Len(wire) /\ lr = Len(raw) /\ r = raw'
  OBVIOUS
<1>2. lw \in Nat /\ lr \in Nat /\ lr <= lw
  BY <1>1, LenProperties DEF TypeInv, TypeOK, Sorts
<1>3. Len(r) = lr - m /\ Len(r) \in Nat
  BY <1>1, <1>2
<1>4. \A i \in 1..Len(r) : r[i] = wire[lw - Len(r) + i]
  <2>1. ASSUME NEW i \in 1..Len(r) PROVE r[i] = wire[lw - Len(r) + i]
    <3>1. PICK k : k = m + i
      OBVIOUS
    <3>2. k \in 1..lr /\ i \in 1..(lr - m) /\ lw - lr + k = lw - Len(r) + i
      BY <1>2, <1>3, <3>1
    <3>3. r[i] = raw[k]
      BY <1>1, <3>1, <3>2
    <3>4. raw[k] = wire[lw - lr + k]
      BY <1>1, <3>2 DEF Received
    <3>5. QED
      BY <3>2, <3>3, <3>4
  <2>2. QED
    BY <2>1
<1>5. Received'
  <2>1. \A c : OfLast(c)' = OfLast(c)
    BY SameMeaning
  <2>2. Total' = Total /\ \A q : StreamCell(q)' = StreamCell(q)
    BY SameMeaning
  <2>3. ASSUME NEW i \in 1..Len(wire)
        PROVE  /\ i <= Total' => wire[i] = StreamCell(i)'
               /\ i > Total'  => OfLast(wire[i])'
    <3>1. PICK c : c = wire[i]
      OBVIOUS
    <3>2. /\ i <= Total => c = StreamCell(i)
          /\ i > Total  => OfLast(c)
      BY <3>1 DEF Received
    <3>3. QED
      BY <2>1, <2>2, <3>1, <3>2
  <2>4. QED
    BY <1>1, <1>4, <2>3 DEF Received
<1>6. QED
  BY <1>1, <1>2, <1>3, <1>5

LEMMA SameMemory ==
  ASSUME blocks' = blocks, out' = out, size' = size
  PROVE  /\ \A b, s : Memory(b, s)' = Memory(b, s)
         /\ Closed' = Closed /\ (out = Blocks)' = (out = Blocks)
<1>1. BlocksOf(size)' = BlocksOf(size) /\ Blocks' = Blocks
  BY SameMeaning
<1>2. \A b, s : Memory(b, s)' = Memory(b, s)
  BY DEF Memory, Taken, Prefix
<1>3. Closed' = Closed
  BY <1>1 DEF Closed
<1>4. QED
  BY <1>1, <1>2, <1>3

\* A step that changes only the buffer, from its front.
LEMMA BufferExact ==
  ASSUME TypeInv, Received, Midway \/ Settled,
         NEW m \in Nat, m <= Len(raw), Midway => m = 0,
         stage' # "decode" /\ Midway => Len(raw) < SymbolLen,
         wire' = wire, at' = at, size' = size, blocks' = blocks, out' = out,
         raw' \in Seq(Cell), Len(raw') = Len(raw) - m,
         \A i \in 1..(Len(raw) - m) : raw'[i] = raw[m + i]
  PROVE  Received' /\ (Midway \/ Settled)'
<1>1. Received' /\ Len(wire') - Len(raw') = Len(wire) - Len(raw) + m
  BY DroppedReceived
<1>2. Len(raw) \in Nat /\ Len(wire) \in Nat /\ Len(raw) <= Len(wire) /\ size \in Sizes
  BY LenProperties DEF TypeInv, TypeOK, Sorts
<1>3. PICK d, e : d = Len(wire) - Len(raw) /\ e = Len(wire') - Len(raw')
  OBVIOUS
<1>4. d \in Nat /\ e = d + m
  BY <1>1, <1>2, <1>3
<1>5. BlocksOf(size)' = BlocksOf(size) /\ Total' = Total
  BY SameMeaning
<1>6. CASE Midway
  <2>1. PICK b \in 0..(BlocksOf(size) - 1), s \in 0..(Symbols - 1) :
          d = b * BlockLen + s * SymbolLen /\ Memory(b, s)
    BY <1>3, <1>6 DEF Midway
  <2>2. e = b * BlockLen + s * SymbolLen
    BY <1>4, <1>6, <2>1
  <2>3. Memory(b, s)'
    BY <2>1, SameMemory
  <2>4. stage' # "decode" => Len(raw') < SymbolLen
    BY <1>2, <1>6
  <2>5. Midway'
    BY <1>3, <1>5, <2>2, <2>3, <2>4 DEF Midway
  <2>6. QED
    BY <1>1, <2>5
<1>7. CASE Settled
  <2>1. d >= Total /\ Total \in Nat
    BY <1>2, <1>3, <1>7, LastBlock, Lengths, Product DEF Settled, Total
  <2>2. e >= Total
    BY <1>4, <2>1
  <2>3. Closed' /\ (out = Blocks)'
    BY <1>7, SameMemory DEF Settled
  <2>4. Settled'
    BY <1>3, <1>5, <2>2, <2>3 DEF Settled
  <2>5. QED
    BY <1>1, <2>4
<1>8. QED
  BY <1>6, <1>7

LEMMA WaitExact ==
  ASSUME TypeInv, Received, Midway \/ Settled, Wait
  PROVE  Received' /\ (Midway \/ Settled)'
<1>1. /\ wire' = wire /\ at' = at /\ size' = size /\ blocks' = blocks /\ out' = out
      /\ Marks = {} => raw' = raw
      /\ Marks # {} => raw' = Pending /\ Len(Pending) < SymbolLen
  BY DEF Wait, Decoding
<1>2. raw \in Seq(Cell) /\ Len(raw) \in Nat
  BY LenProperties DEF TypeInv, Sorts
<1>3. SymbolLen \in Nat /\ SymbolLen > 2
  BY Constants
<1>4. CASE Midway
  <2>1. PICK b \in 0..(BlocksOf(size) - 1), s \in 0..(Symbols - 1) :
          Len(wire) - Len(raw) = b * BlockLen + s * SymbolLen
    BY <1>4 DEF Midway
  <2>2. /\ Marks = {} => Len(raw) = 0
        /\ Marks # {} => /\ Pending \in Seq(Cell) /\ Len(Pending) = Len(raw)
                         /\ \A i \in 1..Len(raw) : Pending[i] = raw[i]
    BY <2>1, MidwayPending
  <2>3. /\ raw' \in Seq(Cell) /\ Len(raw') = Len(raw) /\ Len(raw) < SymbolLen
        /\ \A i \in 1..Len(raw) : raw'[i] = raw[i]
    BY <1>1, <1>2, <1>3, <2>2
  <2>4. /\ Len(raw') = Len(raw) - 0 /\ 0 <= Len(raw)
        /\ \A i \in 1..(Len(raw) - 0) : raw'[i] = raw[0 + i]
    BY <1>2, <2>3
  <2>5. QED
    BY <1>1, <2>3, <2>4, BufferExact
<1>5. CASE Settled /\ ~Midway
  <2>1. CASE Marks = {}
    <3>1. /\ Len(raw') = Len(raw) - 0 /\ 0 <= Len(raw) /\ raw' \in Seq(Cell)
          /\ \A i \in 1..(Len(raw) - 0) : raw'[i] = raw[0 + i]
      BY <1>1, <1>2, <2>1
    <3>2. QED
      BY <1>1, <1>5, <3>1, BufferExact
  <2>2. CASE Marks # {}
    <3>1. PICK m \in Nat : /\ Pending \in Seq(Cell) /\ Len(Pending) = Len(raw) - m
                           /\ m < Len(raw)
                           /\ \A i \in 1..(Len(raw) - m) : Pending[i] = raw[m + i]
      BY <1>2, <2>2, PendingIs
    <3>2. m <= Len(raw)
      BY <1>2, <3>1
    <3>3. QED
      BY <1>1, <1>5, <2>2, <3>1, <3>2, BufferExact
  <2>3. QED
    BY <2>1, <2>2
<1>6. QED
  BY <1>4, <1>5

\* The symbol taken is the next one, or it changes nothing that matters.
LEMMA TakeSymbolExact ==
  ASSUME TypeInv, Received, Midway \/ Settled, TakeSymbol
  PROVE  Received' /\ (Midway \/ Settled)'
<1>1. /\ wire' = wire /\ at' = at /\ size' = size /\ stage' = "decode"
      /\ Marks # {} /\ Len(Pending) >= SymbolLen
      /\ raw' = SubSeq(Pending, SymbolLen + 1, Len(Pending))
      /\ Accept(IdOf(Pending[2])[1], IdOf(Pending[2])[2], SubSeq(Pending, 3, SymbolLen))
  BY DEF TakeSymbol, Decoding
<1>2. /\ raw \in Seq(Cell) /\ wire \in Seq(Cell) /\ Len(raw) \in Nat /\ Len(wire) \in Nat
      /\ Len(raw) <= Len(wire) /\ size \in Sizes /\ Typed(blocks) /\ overhead \in Overheads
  BY LenProperties DEF TypeInv, TypeOK, Sorts, Typed
<1>3. SymbolLen \in Nat /\ SymbolLen > 2
  BY Constants
<1>4. PICK m \in Nat : /\ m + 1 \in Marks /\ Pending \in Seq(Cell)
                       /\ Len(Pending) = Len(raw) - m /\ m < Len(raw)
                       /\ \A i \in 1..(Len(raw) - m) : Pending[i] = raw[m + i]
  BY <1>1, <1>2, PendingIs
<1>5. PICK k : k = m + SymbolLen
  OBVIOUS
<1>6. /\ k \in Nat /\ k <= Len(raw) /\ raw' \in Seq(Cell) /\ Len(raw') = Len(raw) - k
      /\ \A i \in 1..(Len(raw) - k) : raw'[i] = raw[k + i]
  <2>1. PICK n : n = Len(Pending) - SymbolLen
    OBVIOUS
  <2>2. n \in Nat /\ SymbolLen + n = Len(Pending) /\ SymbolLen + n <= Len(Pending)
        /\ n = Len(raw) - k /\ k \in Nat /\ k <= Len(raw)
    BY <1>1, <1>2, <1>3, <1>4, <1>5, <2>1
  <2>3. raw' = SubSeq(Pending, SymbolLen + 1, SymbolLen + n)
    BY <1>1, <2>2
  <2>4. /\ raw' \in Seq(Cell) /\ Len(raw') = n
        /\ \A i \in 1..n : raw'[i] = Pending[SymbolLen + i]
    BY <1>3, <1>4, <2>2, <2>3, Stretch, ZenonT(30)
  <2>5. ASSUME NEW i \in 1..n PROVE raw'[i] = raw[k + i]
    <3>1. SymbolLen + i \in 1..(Len(raw) - m) /\ m + (SymbolLen + i) = k + i
      BY <1>2, <1>3, <1>4, <1>5, <2>2
    <3>2. Pending[SymbolLen + i] = raw[m + (SymbolLen + i)]
      BY <1>4, <3>1
    <3>3. QED
      BY <2>4, <3>1, <3>2
  <2>6. QED
    BY <2>2, <2>4, <2>5
<1>7. Received' /\ Len(wire') - Len(raw') = Len(wire) - Len(raw) + k
  BY <1>1, <1>6, DroppedReceived
<1>8. BlocksOf(size)' = BlocksOf(size) /\ Total' = Total /\ Blocks' = Blocks
  BY <1>1, SameMeaning
<1>9. PICK d, e : d = Len(wire) - Len(raw) /\ e = Len(wire') - Len(raw')
  OBVIOUS
<1>10. d \in Nat /\ e = d + k
  BY <1>2, <1>7, <1>9
<1>11. CASE Midway
  <2>1. PICK b \in 0..(BlocksOf(size) - 1), s \in 0..(Symbols - 1) :
          /\ Len(wire) - Len(raw) = b * BlockLen + s * SymbolLen /\ Memory(b, s)
    BY <1>11 DEF Midway
  <2>2. PICK n : n = BlocksOf(size)
    OBVIOUS
  <2>3. /\ n \in Nat \ {0} /\ b \in Nat /\ b < n /\ s \in Nat /\ s < Symbols
        /\ Symbols \in Nat /\ BlockLen \in Nat /\ BlockLen = Symbols * SymbolLen
    BY <1>2, <2>2, LastBlock, Constants, Lengths
  <2>4. Len(Pending) = Len(raw) /\ \A i \in 1..Len(raw) : Pending[i] = raw[i]
    BY <1>1, <2>1, MidwayPending
  <2>5. k = SymbolLen
    BY <1>2, <1>3, <1>4, <1>5, <2>4
  <2>6. \A i \in 1..SymbolLen : i \in 1..Len(raw) /\ i <= Len(raw)
    BY <1>1, <1>2, <1>3, <2>4
  <2>7. \A i \in 1..SymbolLen : Pending[i] = Symbol(b, s)[i]
    BY <2>1, <2>4, <2>6, MidwayBuffer
  <2>8. IdOf(Pending[2]) = <<b, s>>
    <3>1. 2 \in 1..SymbolLen
      BY <1>3
    <3>2. Pending[2] = Header(<<b, s>>)
      BY <2>3, <2>7, <3>1, SymbolCells
    <3>3. QED
      BY <3>2 DEF IdOf, Header
  <2>9. SubSeq(Pending, 3, SymbolLen) = SubSeq(Symbol(b, s), 3, SymbolLen)
    <3>1. PICK x, y : x = Pending /\ y = Symbol(b, s)
      OBVIOUS
    <3>2. x \in Seq(Cell) /\ y \in Seq(Cell) /\ Len(x) >= SymbolLen /\ Len(y) = SymbolLen
      BY <1>1, <1>4, <2>3, <3>1, SymbolCells
    <3>3. PICK j : j = SymbolLen - 2
      OBVIOUS
    <3>4. j \in Nat /\ 2 + j = SymbolLen /\ 2 + 1 = 3 /\ 2 + j <= Len(x) /\ 2 + j <= Len(y)
      BY <1>3, <3>2, <3>3
    <3>5. /\ SubSeq(x, 2 + 1, 2 + j) \in Seq(Cell) /\ Len(SubSeq(x, 2 + 1, 2 + j)) = j
          /\ \A o \in 1..j : SubSeq(x, 2 + 1, 2 + j)[o] = x[2 + o]
      BY <3>2, <3>4, Stretch
    <3>6. /\ SubSeq(y, 2 + 1, 2 + j) \in Seq(Cell) /\ Len(SubSeq(y, 2 + 1, 2 + j)) = j
          /\ \A o \in 1..j : SubSeq(y, 2 + 1, 2 + j)[o] = y[2 + o]
      BY <3>2, <3>4, Stretch
    <3>7. \A o \in 1..j : x[2 + o] = y[2 + o]
      <4>1. \A o \in 1..j : 2 + o \in 1..SymbolLen
        BY <1>3, <3>4
      <4>2. QED
        BY <2>7, <3>1, <4>1
    <3>8. PICK v, w : v = SubSeq(x, 2 + 1, 2 + j) /\ w = SubSeq(y, 2 + 1, 2 + j)
      OBVIOUS
    <3>9. /\ v \in Seq(Cell) /\ w \in Seq(Cell) /\ Len(v) = Len(w)
           /\ \A o \in 1..Len(v) : v[o] = w[o]
      BY <3>5, <3>6, <3>7, <3>8
    <3>10. v = w
      BY <3>9, SeqEqual
    <3>11. QED
      BY <3>1, <3>4, <3>8, <3>10
  <2>10. Accept(b, s, SubSeq(Symbol(b, s), 3, SymbolLen))
    <3>1. PICK id : id = IdOf(Pending[2])
      OBVIOUS
    <3>2. id[1] = b /\ id[2] = s
      BY <2>8, <3>1
    <3>3. Accept(id[1], id[2], SubSeq(Symbol(b, s), 3, SymbolLen))
      BY <1>1, <2>9, <3>1
    <3>4. QED
      BY <3>2, <3>3
  <2>11. /\ s + 1 < Symbols => Memory(b, s + 1)'
         /\ s + 1 = Symbols => Memory(b + 1, 0)'
    BY <1>2, <2>3, <2>10, <2>1, AcceptNext
  <2>12. d = b * BlockLen + s * SymbolLen /\ e = d + SymbolLen
    BY <1>9, <1>10, <2>1, <2>5
  <2>13. PICK p, q : p = b * BlockLen /\ q = s * SymbolLen
    OBVIOUS
  <2>14. p \in Nat /\ q \in Nat /\ e = p + q + SymbolLen
    BY <1>3, <1>10, <2>3, <2>12, <2>13, Product
  <2>15. CASE s + 1 < Symbols
    <3>1. PICK t : t = s + 1
      OBVIOUS
    <3>2. t \in 0..(Symbols - 1) /\ t * SymbolLen = q + SymbolLen
      BY <1>3, <2>3, <2>13, <2>15, <3>1
    <3>3. e = b * BlockLen + t * SymbolLen
      <4>1. PICK g : g = t * SymbolLen
        OBVIOUS
      <4>2. e = p + g
        BY <1>3, <2>14, <3>2, <4>1
      <4>3. QED
        BY <2>13, <4>1, <4>2
    <3>4. Memory(b, t)'
      BY <2>11, <2>15, <3>1
    <3>5. Midway'
      BY <1>1, <1>8, <1>9, <2>2, <3>2, <3>3, <3>4 DEF Midway
    <3>6. QED
      BY <1>7, <3>5
  <2>16. CASE s + 1 = Symbols
    <3>1. PICK c, f : c = b + 1 /\ f = c * BlockLen
      OBVIOUS
    <3>2. f = p + BlockLen /\ c \in Nat
      BY <2>3, <2>13, <3>1
    <3>3. BlockLen = q + SymbolLen
      <4>1. Symbols * SymbolLen = s * SymbolLen + SymbolLen
        BY <1>3, <2>3, <2>16
      <4>2. QED
        BY <2>3, <2>13, <4>1
    <3>4. e = f
      BY <1>3, <2>14, <3>2, <3>3
    <3>5. Memory(c, 0)'
      BY <2>11, <2>16, <3>1
    <3>6. CASE c < n
      <4>1. c \in 0..(n - 1) /\ 0 \in 0..(Symbols - 1)
        BY <2>3, <3>2, <3>6
      <4>2. 0 * SymbolLen = 0 /\ f \in Nat
        BY <1>3, <2>3, <2>14, <3>2
      <4>3. e = c * BlockLen + 0 * SymbolLen
        BY <3>1, <3>4, <4>2
      <4>4. Midway'
        BY <1>1, <1>8, <1>9, <2>2, <3>5, <4>1, <4>3 DEF Midway
      <4>5. QED
        BY <1>7, <4>4
    <3>7. CASE c = n
      <4>1. e = Total /\ Total \in Nat
        BY <2>2, <2>3, <3>1, <3>4, <3>7, Product DEF Total
      <4>2. n - 1 \in DOMAIN blocks'
        BY <2>3, <3>5, <3>7 DEF Memory
      <4>3. \A x \in DOMAIN blocks' : blocks'[x].done
        <5>1. \A x \in DOMAIN blocks' : x <= c /\ (x < c => blocks'[x].done) /\ x # c
          BY <3>5 DEF Memory
        <5>2. \A x \in DOMAIN blocks' : x \in Nat
          BY TypeStep DEF TypeInv, Sorts, Next
        <5>3. QED
          BY <3>2, <5>1, <5>2
      <4>4. Closed'
        BY <1>8, <2>2, <4>2, <4>3 DEF Closed
      <4>5. out' = Blocks
        BY <2>2, <3>5, <3>7, Constants DEF Memory, Prefix, Blocks
      <4>6. Settled'
        BY <1>8, <1>9, <4>1, <4>4, <4>5 DEF Settled
      <4>7. QED
        BY <1>7, <4>6
    <3>8. QED
      BY <2>3, <3>1, <3>6, <3>7
  <2>17. QED
    BY <2>3, <2>15, <2>16
<1>12. CASE Settled
  <2>1. d >= Total /\ Total \in Nat /\ Closed /\ out = Blocks
    BY <1>2, <1>9, <1>12, LastBlock, Lengths, Product DEF Settled, Total
  <2>2. PICK c, j : c = Pending[2] /\ j = m + 2
    OBVIOUS
  <2>3. 2 \in 1..(Len(raw) - m) /\ j \in 1..Len(raw) /\ 2 \in 1..Len(Pending)
    BY <1>1, <1>2, <1>3, <1>4, <2>2
  <2>4. c \in Cell
    BY <1>4, <2>2, <2>3, ElementOfSeq, Zenon
  <2>5. c = wire[d + j]
    <3>1. c = raw[j]
      BY <1>4, <2>2, <2>3
    <3>2. raw[j] = wire[d + j]
      BY <1>9, <2>3 DEF Received
    <3>3. QED
      BY <3>1, <3>2
  <2>6. d + j \in 1..Len(wire) /\ d + j > Total
    BY <1>2, <1>9, <2>1, <2>3
  <2>7. OfLast(c)
    BY <2>5, <2>6 DEF Received
  <2>8. PICK b, s : b = IdOf(c)[1] /\ s = IdOf(c)[2]
    OBVIOUS
  <2>9. b \in Nat /\ s \in Nat /\ (b = BlocksOf(size) - 1 \/ s = 0)
    <3>1. CASE c[1] = "id"
      <4>1. IdOf(c) = <<c[2], c[3]>>
        BY <1>2, <2>4, <3>1, IdIs
      <4>2. QED
        BY <1>2, <2>4, <2>7, <2>8, <3>1, <4>1, IdIs DEF OfLast
    <3>2. CASE c[1] # "id"
      BY <1>2, <2>4, <2>8, <3>2, IdIs
    <3>3. QED
      BY <3>1, <3>2
  <2>10. Accept(b, s, SubSeq(Pending, 3, SymbolLen))
    BY <1>1, <2>2, <2>8
  <2>11. Closed' /\ out' = out
    BY <1>1, <1>2, <2>1, <2>9, <2>10, AcceptSettled
  <2>12. e >= Total
    BY <1>6, <1>10, <2>1
  <2>13. Settled'
    BY <1>8, <1>9, <2>1, <2>11, <2>12 DEF Settled
  <2>14. QED
    BY <1>7, <2>13
<1>13. QED
  BY <1>11, <1>12

\* Once the whole video has arrived the decoder is behind the stream.
LEMMA WholeVideo ==
  ASSUME TypeInv, Received, stage = "done", at > Len(video)
  PROVE  ~Midway
<1> SUFFICES ASSUME Midway PROVE FALSE
  OBVIOUS
<1>1. /\ size \in Sizes /\ video \in Seq(Frame) /\ at \in 1..Len(video) + 1
      /\ Shown(video) /\ Len(raw) <= Len(wire) /\ Len(raw) \in Nat /\ Len(wire) \in Nat
  BY LenProperties DEF TypeInv, TypeOK, Sorts, Uploaded
<1>2. Len(video) \in Nat /\ at - 1 = Len(video)
  <2>1. Len(video) \in Nat
    BY <1>1, LenProperties
  <2>2. QED
    BY <1>1, <2>1
<1>3. Len(wire) >= Total
  <2>1. Len(wire) = Len(video) * FrameCells
    BY <1>2 DEF Received
  <2>2. QED
    BY <1>1, <2>1 DEF Shown
<1>4. PICK b \in 0..(BlocksOf(size) - 1), s \in 0..(Symbols - 1) :
        Len(wire) - Len(raw) = b * BlockLen + s * SymbolLen
  BY DEF Midway
<1>5. Len(raw) < SymbolLen
  BY DEF Midway
<1>6. PICK n : n = BlocksOf(size)
  OBVIOUS
<1>7. n \in Nat /\ b \in Nat /\ b < n
  BY <1>1, <1>6, LastBlock
<1>8. PICK p, q, l : p = b * BlockLen /\ q = s * SymbolLen /\ l = BlockLen
  OBVIOUS
<1>9. p \in Nat /\ q \in Nat /\ q + SymbolLen <= l
  BY <1>7, <1>8, StreamSymbol
<1>10. p + l <= Total
  BY <1>6, <1>7, <1>8, Lengths, ProductGrows DEF Total
<1>11. Total \in Nat /\ SymbolLen \in Nat /\ l \in Nat
  BY <1>6, <1>7, <1>8, Lengths, Constants, Product DEF Total
<1>12. QED
  BY <1>1, <1>3, <1>4, <1>5, <1>8, <1>9, <1>10, <1>11

LEMMA ExactInit ==
  ASSUME Init
  PROVE  ExactInv
<1>1. TypeInv
  BY InitTyped
<1>2. /\ wire = <<>> /\ raw = <<>> /\ at = 1 /\ blocks = <<>> /\ out = <<>> /\ stage = "push"
      /\ Len(wire) = 0 /\ Len(raw) = 0 /\ size \in Sizes
  BY DEF Init
<1>3. /\ Source \in Nat /\ Source > 1 /\ Symbols \in Nat \ {0} /\ SymbolLen \in Nat
      /\ SymbolLen > 2 /\ FrameCells \in Nat /\ BlockLen \in Nat /\ BlocksOf(size) \in Nat \ {0}
  BY <1>2, Constants, Lengths, LastBlock
<1>4. Received
  <2>1. (at - 1) * FrameCells = 0
    BY <1>2, <1>3
  <2>2. QED
    BY <1>2, <2>1 DEF Received
<1>5. Memory(0, 0)
  <2>1. DOMAIN blocks = {}
    BY <1>2
  <2>2. Prefix(0) = <<>>
    BY DEF Prefix
  <2>3. QED
    BY <1>2, <1>3, <2>1, <2>2 DEF Memory
<1>6. Midway
  <2>1. 0 * BlockLen + 0 * SymbolLen = 0
    BY <1>3
  <2>2. 0 \in 0..(BlocksOf(size) - 1) /\ 0 \in 0..(Symbols - 1)
    BY <1>3
  <2>3. Len(wire) - Len(raw) = 0 /\ Len(raw) < SymbolLen
    BY <1>2, <1>3, SMTT(30)
  <2>4. QED
    BY <1>5, <2>1, <2>2, <2>3 DEF Midway
<1>7. QED
  BY <1>2, <1>4, <1>6 DEF ExactInv

\* What arrived and what was made of it stays.
LEMMA StillExact ==
  ASSUME TypeInv, Received, Midway \/ Settled,
         stage' # "decode" => stage # "decode",
         raw' = raw, wire' = wire, at' = at, size' = size, blocks' = blocks, out' = out
  PROVE  Received' /\ (Midway \/ Settled)'
<1>1. raw \in Seq(Cell) /\ Len(raw) \in Nat
  BY LenProperties DEF TypeInv, Sorts
<1>2. /\ 0 <= Len(raw) /\ raw' \in Seq(Cell) /\ Len(raw') = Len(raw) - 0
      /\ \A i \in 1..(Len(raw) - 0) : raw'[i] = raw[0 + i]
  BY <1>1
<1>3. stage' # "decode" /\ Midway => Len(raw) < SymbolLen
  BY DEF Midway
<1>4. QED
  BY <1>2, <1>3, BufferExact, ZenonT(30)

LEMMA ExactStep ==
  ASSUME TypeInv, ExactInv, [Next]_vars
  PROVE  ExactInv'
<1>1. CASE PushData \/ Finalize \/ PadVideo
  <2>1. /\ stage \in {"push", "finalize", "pad"} /\ stage' \notin {"decode", "done"}
        /\ Encoding
    BY <1>1 DEF PushData, Finalize, PadVideo
  <2>2. /\ raw' = raw /\ wire' = wire /\ at' = at /\ size' = size /\ blocks' = blocks
        /\ out' = out /\ faults' = faults /\ stage # "decode"
    BY <2>1 DEF Encoding
  <2>3. ASSUME faults' = <<>> PROVE Received' /\ (Midway \/ Settled)'
    BY <2>2, <2>3, StillExact DEF ExactInv
  <2>4. QED
    BY <2>1, <2>3 DEF ExactInv
<1>2. CASE Deliver
  <2>1. stage' = "decode" /\ faults' = faults /\ blocks' = blocks /\ out' = out /\ size' = size
    BY <1>2 DEF Deliver, PushFrame, Sent
  <2>2. ASSUME faults' = <<>> PROVE Received' /\ (Midway \/ Settled)'
    <3>1. Received /\ (Midway \/ Settled)
      BY <2>1, <2>2 DEF ExactInv
    <3>2. Received' /\ Len(wire') - Len(raw') = Len(wire) - Len(raw)
      BY <1>2, <3>1, DeliverReceived
    <3>3. BlocksOf(size)' = BlocksOf(size) /\ Total' = Total
      BY <2>1, SameMeaning
    <3>4. CASE Midway
      <4>1. PICK b \in 0..(BlocksOf(size) - 1), s \in 0..(Symbols - 1) :
              Len(wire) - Len(raw) = b * BlockLen + s * SymbolLen /\ Memory(b, s)
        BY <3>4 DEF Midway
      <4>2. Memory(b, s)'
        BY <2>1, <4>1, SameMemory
      <4>3. Midway'
        BY <2>1, <3>2, <3>3, <4>1, <4>2 DEF Midway
      <4>4. QED
        BY <3>2, <4>3
    <3>5. CASE Settled
      <4>1. Closed' /\ (out = Blocks)'
        BY <2>1, <3>5, SameMemory DEF Settled
      <4>2. Settled'
        BY <3>2, <3>3, <3>5, <4>1 DEF Settled
      <4>3. QED
        BY <3>2, <4>2
    <3>6. QED
      BY <3>1, <3>4, <3>5
  <2>3. QED
    BY <2>1, <2>2 DEF ExactInv
<1>3. CASE Lose \/ Repeat \/ Damage
  <2>1. \E kind : faults' = Append(faults, kind)
    BY <1>3 DEF Lose, Repeat, Damage, Fault
  <2>2. faults' # <<>>
    <3>1. Len(faults) \in Nat /\ faults \in Seq(FaultKind)
      BY LenProperties DEF TypeInv, Sorts
    <3>2. QED
      BY <2>1, <3>1
  <2>3. stage' # "done"
    BY <1>3 DEF Lose, Repeat, Damage, Fault, Arriving, PushFrame
  <2>4. QED
    BY <2>2, <2>3 DEF ExactInv
<1>4. CASE Wait
  <2>1. faults' = faults /\ stage' # "done"
    BY <1>4 DEF Wait, Decoding
  <2>2. QED
    BY <1>4, <2>1, WaitExact DEF ExactInv
<1>5. CASE TakeSymbol
  <2>1. faults' = faults /\ stage' # "done"
    BY <1>5 DEF TakeSymbol, Decoding
  <2>2. QED
    BY <1>5, <2>1, TakeSymbolExact DEF ExactInv
<1>6. CASE Pop
  <2>1. /\ raw' = raw /\ wire' = wire /\ at' = at /\ size' = size /\ blocks' = blocks
        /\ out' = out /\ faults' = faults /\ stage # "decode" /\ video' = video
        /\ at > Len(video)
    BY <1>6 DEF Pop, Decoding
  <2>2. ASSUME faults' = <<>> PROVE Received' /\ (Midway \/ Settled)'
    BY <2>1, <2>2, StillExact DEF ExactInv
  <2>3. QED
    BY <2>1, <2>2 DEF ExactInv
<1>7. CASE UNCHANGED vars
  <2>1. /\ raw' = raw /\ wire' = wire /\ at' = at /\ size' = size /\ blocks' = blocks
        /\ out' = out /\ faults' = faults /\ stage' = stage /\ video' = video
    BY <1>7 DEF vars
  <2>2. ASSUME faults' = <<>> PROVE Received' /\ (Midway \/ Settled)'
    BY <2>1, <2>2, StillExact DEF ExactInv
  <2>3. QED
    BY <2>1, <2>2 DEF ExactInv
<1>8. QED
  BY <1>1, <1>2, <1>3, <1>4, <1>5, <1>6, <1>7 DEF Next

\* A video that arrives as it was sent gives back the shard, its blocks in
\* order and each once, for every length of frames, symbols and blocks and
\* whatever data look like the marker (process_raw_buffer and pop_data undo
\* encode_fec_block and pack_symbol_to_frames).
THEOREM ExactHolds == Spec => []Exact
<1>1. Init => TypeInv /\ ExactInv
  BY InitTyped, ExactInit
<1>2. TypeInv /\ ExactInv /\ [Next]_vars => TypeInv' /\ ExactInv'
  BY TypeStep, ExactStep
<1>3. TypeInv /\ ExactInv => Exact
  <2>1. SUFFICES ASSUME TypeInv, ExactInv, stage = "done", faults = <<>>
                 PROVE  out = Blocks
    BY DEF Exact
  <2>2. Received /\ (Midway \/ Settled) /\ at > Len(video)
    BY <2>1 DEF ExactInv
  <2>3. Settled
    BY <2>1, <2>2, WholeVideo
  <2>4. QED
    BY <2>3 DEF Settled
<1>4. QED
  BY <1>1, <1>2, <1>3, PTL DEF Spec
=============================================================================
