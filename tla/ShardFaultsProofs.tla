------------------------- MODULE ShardFaultsProofs -------------------------
(***************************************************************************)
(* Machine-checked proofs about ShardStream: what the decoder of           *)
(* streaming.rs makes of frames that come twice, damaged or not at all.    *)
(* The first part shows that the blocks come out in order when no data     *)
(* look like the marker, the second that a shard whose damage the repair   *)
(* symbols cover comes out whole (Repaired), the third that the blocks     *)
(* come out in order also when data look like the marker (InOrder); for    *)
(* every size of shard, block, symbol and frame, any number of frames      *)
(* shown twice, and any number of faults.                                  *)
(***************************************************************************)
EXTENDS ShardStreamProofs

-----------------------------------------------------------------------------
(* Symbols by their number in the shard, and the frames they begin in.      *)

Number(b, s) == b * Symbols + s
Id(n)        == <<n \div Symbols, n % Symbols>>
Numbers      == 0..(BlocksOf(size) * Symbols - 1)

\* The frame that holds the marker of a symbol.
FrameOf(n) == (n * SymbolLen) \div FrameCells + 1

\* The frame of the stream that a frame of the video shows.
Clamp(j) == IF j <= Content THEN j ELSE Content

LEMMA NumberIs ==
  ASSUME NEW b \in Nat, NEW s \in 0..(Symbols - 1)
  PROVE  /\ Number(b, s) \in Nat /\ s \in Nat /\ Id(Number(b, s)) = <<b, s>>
         /\ Number(b, s) \div Symbols = b /\ Number(b, s) % Symbols = s
<1>1. Symbols \in Nat \ {0} /\ s \in Nat /\ s < Symbols
  BY Constants
<1>2. b * Symbols \in Nat
  BY <1>1, Product
<1>3. PICK a : a = b * Symbols + s
  OBVIOUS
<1>4. a \in Nat /\ a \div Symbols = b /\ a % Symbols = s
  BY <1>1, <1>2, <1>3, DivisionIs
<1>5. QED
  BY <1>1, <1>3, <1>4 DEF Number, Id

LEMMA IdNumber ==
  ASSUME NEW n \in Nat
  PROVE  /\ n \div Symbols \in Nat /\ n % Symbols \in 0..(Symbols - 1)
         /\ Number(n \div Symbols, n % Symbols) = n
<1>1. Symbols \in Nat \ {0}
  BY Constants
<1>2. /\ n \div Symbols \in Nat /\ n % Symbols \in Nat /\ n % Symbols < Symbols
      /\ n = (n \div Symbols) * Symbols + (n % Symbols)
  BY <1>1, Division
<1>3. QED
  BY <1>1, <1>2 DEF Number

\* Numbers go with blocks.
LEMMA NumberOrder ==
  ASSUME NEW a \in Nat, NEW r \in 0..(Symbols - 1), NEW b \in Nat, NEW s \in 0..(Symbols - 1),
         a < b
  PROVE  Number(a, r) < b * Symbols /\ b * Symbols <= Number(b, s) /\ b * Symbols \in Nat
<1>1. Symbols \in Nat \ {0} /\ r \in Nat /\ r < Symbols /\ s \in Nat
  BY Constants
<1>2. PICK x, y : x = a * Symbols /\ y = b * Symbols
  OBVIOUS
<1>3. x \in Nat /\ y \in Nat /\ x + Symbols <= y
  BY <1>1, <1>2, Product, ProductGrows
<1>4. QED
  BY <1>1, <1>2, <1>3 DEF Number

LEMMA NumbersAre ==
  ASSUME size \in Sizes
  PROVE  /\ Numbers \subseteq Nat /\ BlocksOf(size) * Symbols \in Nat
         /\ \A n \in Nat : n \in Numbers <=> n < BlocksOf(size) * Symbols
         /\ \A n \in Numbers : n \div Symbols \in 0..(BlocksOf(size) - 1)
         /\ \A b \in 0..(BlocksOf(size) - 1), s \in 0..(Symbols - 1) : Number(b, s) \in Numbers
<1>1. BlocksOf(size) \in Nat /\ Symbols \in Nat \ {0}
  BY LastBlock, Constants
<1>2. PICK m, y : m = BlocksOf(size) /\ y = m * Symbols
  OBVIOUS
<1>3. m \in Nat /\ y \in Nat
  BY <1>1, <1>2, Product
<1>4. Numbers = 0..(y - 1)
  BY <1>2 DEF Numbers
<1>5. ASSUME NEW n \in Numbers PROVE n \div Symbols \in 0..(m - 1)
  <2>1. n \in Nat /\ n < y
    BY <1>3, <1>4
  <2>2. PICK b, s : b = n \div Symbols /\ s = n % Symbols
    OBVIOUS
  <2>3. b \in Nat /\ s \in Nat /\ n = b * Symbols + s
    BY <1>1, <2>1, <2>2, Division
  <2>4. ~(m < b) /\ m # b
    <3>1. m # b
      BY <1>2, <2>1, <2>3, <1>3
    <3>2. ASSUME m < b PROVE FALSE
      <4>1. m * Symbols + Symbols <= b * Symbols
        BY <1>1, <1>3, <2>3, <3>2, ProductGrows
      <4>2. b * Symbols \in Nat
        BY <1>1, <2>3, Product
      <4>3. QED
        BY <1>1, <1>2, <1>3, <2>1, <2>3, <4>1, <4>2
    <3>3. QED
      BY <3>1, <3>2
  <2>5. QED
    BY <1>3, <2>2, <2>3, <2>4
<1>6. ASSUME NEW b \in 0..(m - 1), NEW s \in 0..(Symbols - 1)
      PROVE  Number(b, s) \in Numbers
  <2>1. b \in Nat /\ b < m /\ s \in Nat /\ s < Symbols
    BY <1>1, <1>3
  <2>2. b * Symbols + Symbols <= m * Symbols /\ b * Symbols \in Nat
    BY <1>1, <1>3, <2>1, Product, ProductGrows
  <2>3. QED
    BY <1>1, <1>2, <1>3, <1>4, <2>1, <2>2, SMTT(30) DEF Number
<1>7. QED
  BY <1>2, <1>3, <1>4, <1>5, <1>6

LEMMA FrameOfIs ==
  ASSUME NEW n \in Nat
  PROVE  /\ FrameOf(n) \in Nat \ {0} /\ n * SymbolLen \in Nat
         /\ (FrameOf(n) - 1) * FrameCells \in Nat
         /\ (FrameOf(n) - 1) * FrameCells <= n * SymbolLen
         /\ n * SymbolLen < (FrameOf(n) - 1) * FrameCells + FrameCells
<1>1. PICK a, f : a = n * SymbolLen /\ f = a \div FrameCells
  OBVIOUS
<1>2. SymbolLen \in Nat /\ FrameCells \in Nat \ {0}
  BY Constants
<1>3. a \in Nat
  BY <1>1, <1>2, Product
<1>4. f \in Nat /\ a % FrameCells \in Nat /\ a % FrameCells < FrameCells /\ a = f * FrameCells + (a % FrameCells)
  BY <1>1, <1>2, <1>3, Division
<1>5. FrameOf(n) = f + 1 /\ FrameOf(n) - 1 = f
  BY <1>1, <1>4 DEF FrameOf
<1>6. f * FrameCells \in Nat
  BY <1>2, <1>4, Product
<1>7. QED
  BY <1>1, <1>2, <1>3, <1>4, <1>5, <1>6

\* A symbol's marker is in the frames from g on when its place is.
LEMMA FrameFrom ==
  ASSUME NEW n \in Nat, NEW g \in Nat \ {0}
  PROVE  /\ (g - 1) * FrameCells \in Nat
         /\ FrameOf(n) >= g <=> n * SymbolLen >= (g - 1) * FrameCells
<1>1. PICK f, x, y, a : /\ f = FrameOf(n) - 1 /\ x = f * FrameCells
                        /\ y = (g - 1) * FrameCells /\ a = n * SymbolLen
  OBVIOUS
<1>2. /\ f \in Nat /\ FrameOf(n) = f + 1 /\ x \in Nat /\ a \in Nat /\ x <= a
      /\ a < x + FrameCells /\ FrameCells \in Nat \ {0}
  <2>1. FrameOf(n) \in Nat \ {0} /\ FrameCells \in Nat \ {0}
    BY FrameOfIs, Constants
  <2>2. x \in Nat /\ a \in Nat /\ x <= a /\ a < x + FrameCells
    BY <1>1, FrameOfIs
  <2>3. QED
    BY <1>1, <2>1, <2>2
<1>3. g - 1 \in Nat /\ y \in Nat
  BY <1>1, <1>2, Product
<1>4. ASSUME f >= g - 1 PROVE a >= y
  <2>1. CASE f = g - 1
    BY <1>1, <1>2, <2>1
  <2>2. CASE g - 1 < f
    <3>1. (g - 1) * FrameCells + FrameCells <= f * FrameCells
      BY <1>2, <1>3, <2>2, ProductGrows
    <3>2. QED
      BY <1>1, <1>2, <1>3, <3>1
  <2>3. QED
    BY <1>2, <1>3, <1>4, <2>1, <2>2
<1>5. ASSUME f < g - 1 PROVE a < y
  <2>1. f * FrameCells + FrameCells <= (g - 1) * FrameCells
    BY <1>2, <1>3, <1>5, ProductGrows
  <2>2. QED
    BY <1>1, <1>2, <1>3, <2>1
<1>6. QED
  BY <1>1, <1>2, <1>3, <1>4, <1>5

LEMMA FrameOrder ==
  ASSUME NEW n \in Nat, NEW m \in Nat, n <= m
  PROVE  FrameOf(n) <= FrameOf(m)
<1>1. PICK g : g = FrameOf(n)
  OBVIOUS
<1>2. g \in Nat \ {0} /\ FrameOf(m) \in Nat
  BY <1>1, FrameOfIs
<1>3. PICK x, a, c : x = (g - 1) * FrameCells /\ a = n * SymbolLen /\ c = m * SymbolLen
  OBVIOUS
<1>4. x \in Nat /\ a \in Nat /\ c \in Nat /\ x <= a
  BY <1>1, <1>3, FrameOfIs
<1>5. a <= c
  <2>1. CASE n = m
    BY <1>3, <1>4, <2>1
  <2>2. CASE n < m
    <3>1. n * SymbolLen + SymbolLen <= m * SymbolLen
      BY <2>2, ProductGrows, Constants
    <3>2. QED
      BY <1>3, <1>4, <3>1, Constants
  <2>3. QED
    BY <2>1, <2>2
<1>6. FrameOf(m) >= g
  BY <1>2, <1>3, <1>4, <1>5, FrameFrom
<1>7. QED
  BY <1>1, <1>2, <1>6

\* Symbols that begin in one frame are fewer than the frame has room for.
LEMMA SameFrame ==
  ASSUME NEW n \in Nat, NEW m \in Nat, n <= m, FrameOf(n) = FrameOf(m)
  PROVE  m - n < Symbols /\ m * SymbolLen < n * SymbolLen + FrameCells
<1>1. PICK x, a, c : /\ x = (FrameOf(n) - 1) * FrameCells /\ a = n * SymbolLen
                     /\ c = m * SymbolLen
  OBVIOUS
<1>2. /\ x \in Nat /\ a \in Nat /\ c \in Nat /\ x <= a /\ c < x + FrameCells
      /\ FrameCells \in Nat
  BY <1>1, FrameOfIs, Constants
<1>3. c < a + FrameCells
  BY <1>2
<1>4. ~(m - n >= Symbols)
  <2>1. SUFFICES ASSUME m - n >= Symbols PROVE FALSE
    OBVIOUS
  <2>2. PICK d, k : d = m - n /\ k = d * SymbolLen
    OBVIOUS
  <2>3. d \in Nat /\ m = n + d /\ SymbolLen \in Nat /\ Symbols \in Nat /\ d >= Symbols
    BY <2>1, <2>2, Constants
  <2>4. c = a + k /\ k \in Nat
    BY <1>1, <2>2, <2>3
  <2>5. k >= Symbols * SymbolLen
    <3>1. CASE d = Symbols
      BY <2>2, <2>3, <2>4, <3>1
    <3>2. CASE Symbols < d
      <4>1. Symbols * SymbolLen + SymbolLen <= d * SymbolLen
        BY <2>3, <3>2, ProductGrows
      <4>2. Symbols * SymbolLen \in Nat
        BY <2>3, Product
      <4>3. QED
        BY <2>2, <2>3, <2>4, <4>1, <4>2
    <3>3. QED
      BY <2>3, <3>1, <3>2
  <2>6. PICK l : l = BlockLen
    OBVIOUS
  <2>7. k >= l /\ FrameCells <= l /\ l \in Nat
    BY <2>5, <2>6, Lengths
  <2>8. QED
    BY <1>2, <1>3, <2>4, <2>7
<1>5. QED
  BY <1>1, <1>3, <1>4, Constants

-----------------------------------------------------------------------------
(* The frames of the video.                                                *)

LEMMA ContentIs ==
  ASSUME size \in Sizes
  PROVE  /\ Content \in Nat \ {0} /\ Total \in Nat /\ Content * FrameCells \in Nat
         /\ (Content - 1) * FrameCells \in Nat
         /\ Content * FrameCells = (Content - 1) * FrameCells + FrameCells
         /\ (Content - 1) * FrameCells < Total /\ Total <= Content * FrameCells
<1>1. Total \in Nat \ {0} /\ FrameCells \in Nat \ {0}
  <2>1. BlocksOf(size) \in Nat \ {0} /\ BlockLen \in Nat \ {0}
    BY LastBlock, Lengths
  <2>2. QED
    BY <2>1, Constants DEF Total
<1>2. PICK t, k : t = Total + FrameCells - 1 /\ k = t \div FrameCells
  OBVIOUS
<1>3. t \in Nat /\ t >= FrameCells
  BY <1>1, <1>2
<1>4. k \in Nat /\ t % FrameCells \in Nat /\ t % FrameCells < FrameCells /\ t = k * FrameCells + (t % FrameCells)
  BY <1>1, <1>2, <1>3, Division
<1>5. k * FrameCells \in Nat /\ k # 0
  BY <1>1, <1>3, <1>4, Product
<1>6. k - 1 \in Nat /\ (k - 1) * FrameCells \in Nat /\ k * FrameCells = (k - 1) * FrameCells + FrameCells
  BY <1>1, <1>4, <1>5, Product
<1>7. Content = k
  BY <1>2 DEF Content
<1>8. QED
  BY <1>1, <1>2, <1>3, <1>4, <1>5, <1>6, <1>7

LEMMA ContentUnique ==
  ASSUME size \in Sizes, NEW n \in Nat,
         Total <= n * FrameCells, n * FrameCells < Total + FrameCells
  PROVE  Content = n
<1>1. PICK k, x, y, z : /\ k = Content /\ x = k * FrameCells
                        /\ y = (k - 1) * FrameCells /\ z = n * FrameCells
  OBVIOUS
<1>2. /\ k \in Nat \ {0} /\ x \in Nat /\ y \in Nat /\ x = y + FrameCells /\ y < Total
      /\ Total <= x /\ Total \in Nat /\ z \in Nat /\ Total <= z /\ z < Total + FrameCells
      /\ FrameCells \in Nat \ {0}
  BY <1>1, ContentIs, Constants, Product
<1>3. ASSUME k < n PROVE FALSE
  <2>1. k * FrameCells + FrameCells <= n * FrameCells
    BY <1>2, <1>3, ProductGrows
  <2>2. QED
    BY <1>1, <1>2, <2>1
<1>4. ASSUME n < k PROVE FALSE
  <2>1. n * FrameCells + FrameCells <= k * FrameCells
    BY <1>2, <1>4, ProductGrows
  <2>2. QED
    BY <1>1, <1>2, <2>1
<1>5. QED
  BY <1>1, <1>2, <1>3, <1>4

LEMMA ClampIs ==
  ASSUME size \in Sizes, NEW j \in Nat \ {0}
  PROVE  /\ Clamp(j) \in 1..Content /\ Clamp(j) <= j /\ Clamp(j) <= Clamp(j + 1)
         /\ j <= Content => Clamp(j) = j
         /\ j >= Content => Clamp(j) = Content
<1>1. Content \in Nat \ {0}
  BY ContentIs
<1>2. QED
  BY <1>1 DEF Clamp

\* What a frame of the video shows.
Framed ==
  /\ stage \notin {"push", "finalize"} =>
       /\ Len(video) >= Content
       /\ \A j \in 1..Len(video), o \in 1..FrameCells :
            video[j][o] = FrameCell(Clamp(j), o)
  /\ stage = "pad" => Len(video) = Content

LEMMA SameFrames ==
  ASSUME size' = size
  PROVE  /\ \A c, o : FrameCell(c, o)' = FrameCell(c, o)
         /\ Content' = Content /\ Total' = Total /\ \A j : Clamp(j)' = Clamp(j)
<1>1. /\ \A q : StreamCell(q)' = StreamCell(q)
      /\ Total' = Total
  BY SameStream
<1>2. Content' = Content
  BY <1>1 DEF Content
<1>3. \A j : Clamp(j)' = Clamp(j)
  BY <1>2 DEF Clamp
<1>4. \A c, o : FrameCell(c, o)' = FrameCell(c, o)
  BY <1>1 DEF FrameCell
<1>5. QED
  BY <1>1, <1>2, <1>3, <1>4

LEMMA FramedStep ==
  ASSUME TypeInv, Framed, [Next]_vars
  PROVE  Framed'
<1>1. size \in Sizes /\ video \in Seq(Frame) /\ frameBuf \in Seq(Cell) /\ Uploaded
  BY DEF TypeInv, TypeOK, Sorts
<1>2. CASE PushData
  <2>1. stage' = "finalize"
    BY <1>2 DEF PushData
  <2>2. QED
    BY <2>1 DEF Framed
<1>3. CASE Finalize
  <2>1. stage' = "pad" /\ size' = size
    BY <1>3 DEF Finalize, Encoding
  <2>2. /\ video' \in Seq(Frame) /\ Len(video') * FrameCells \in Nat
        /\ Len(video') * FrameCells >= Total
        /\ Len(video') * FrameCells < Total + FrameCells
        /\ \A j \in 1..Len(video'), o \in 1..FrameCells : video'[j][o] = FrameCell(j, o)
    BY <1>1, <1>3, FinalizeVideo
  <2>3. Len(video') \in Nat
    BY <2>2, LenProperties
  <2>4. Total \in Nat
    BY <1>1, ContentIs
  <2>5. Len(video') = Content
    <3>1. PICK n, z : n = Len(video') /\ z = n * FrameCells
      OBVIOUS
    <3>2. n \in Nat /\ Total <= z /\ z < Total + FrameCells
      BY <2>2, <2>3, <2>4, <3>1
    <3>3. QED
      BY <1>1, <3>1, <3>2, ContentUnique
  <2>6. ASSUME NEW j \in 1..Len(video'), NEW o \in 1..FrameCells
        PROVE  video'[j][o] = FrameCell(Clamp(j), o)
    <3>1. Clamp(j) = j
      BY <2>3, <2>5 DEF Clamp
    <3>2. QED
      BY <2>2, <3>1
  <2>7. QED
    BY <2>1, <2>3, <2>5, <2>6, SameFrames DEF Framed
<1>4. CASE PadVideo
  <2>1. stage = "pad" /\ stage' = "receive" /\ size' = size
    BY <1>4 DEF PadVideo, Encoding
  <2>2. PICK n, m : n = Len(video) /\ m = Max({Len(video), MinFrames})
    OBVIOUS
  <2>3. n \in Nat \ {0} /\ m \in Nat /\ m >= n /\ n = Content
    BY <1>1, <2>1, <2>2, LenProperties, Constants, MaxTwo, ContentIs DEF Framed
  <2>4. video' = [j \in 1..m |-> video[IF j <= n THEN j ELSE n]]
    BY <1>4, <2>2 DEF PadVideo
  <2>5. Len(video') = m
    BY <2>3, <2>4
  <2>6. ASSUME NEW j \in 1..m, NEW o \in 1..FrameCells
        PROVE  video'[j][o] = FrameCell(Clamp(j), o)
    <3>1. PICK i : i = IF j <= n THEN j ELSE n
      OBVIOUS
    <3>2. i \in 1..n /\ Clamp(i) = Clamp(j) /\ video'[j] = video[i]
      BY <2>3, <2>4, <3>1 DEF Clamp
    <3>3. QED
      BY <2>1, <2>2, <3>2 DEF Framed
  <2>7. QED
    BY <2>1, <2>3, <2>5, <2>6, SameFrames DEF Framed
<1>5. CASE Deliver \/ Lose \/ Repeat \/ Damage \/ Wait \/ TakeSymbol \/ Pop
  <2>1. /\ stage' \in {"receive", "decode", "done"} /\ stage \notin {"push", "finalize"}
        /\ video' = video /\ size' = size
    <3>1. CASE Deliver \/ Lose \/ Repeat \/ Damage
      BY <3>1 DEF Deliver, Lose, Repeat, Damage, Fault, PushFrame, Arriving, Sent
    <3>2. CASE Wait \/ TakeSymbol \/ Pop
      BY <3>2 DEF Wait, TakeSymbol, Pop, Decoding
    <3>3. QED
      BY <1>5, <3>1, <3>2
  <2>2. QED
    BY <2>1, SameFrames DEF Framed
<1>6. CASE UNCHANGED vars
  <2>1. stage' = stage /\ video' = video /\ size' = size
    BY <1>6 DEF vars
  <2>2. QED
    BY <2>1, SameFrames DEF Framed
<1>7. QED
  BY <1>2, <1>3, <1>4, <1>5, <1>6 DEF Next

-----------------------------------------------------------------------------
(* Markers in the frames.                                                  *)

Nth(n) == Symbol(n \div Symbols, n % Symbols)

LEMMA NthCells ==
  ASSUME NEW n \in Nat
  PROVE  /\ Nth(n) \in Seq(Cell) /\ Len(Nth(n)) = SymbolLen /\ SymbolLen \in Nat /\ SymbolLen > 2
         /\ Nth(n)[1] = Magic /\ Nth(n)[2] = Header(Id(n))
         /\ \A k \in 2..SymbolLen : Nth(n)[k] # Magic
         /\ \A k \in 1..SymbolLen : StreamCell(n * SymbolLen + k) = Nth(n)[k]
<1>1. PICK b, s : b = n \div Symbols /\ s = n % Symbols
  OBVIOUS
<1>2. b \in Nat /\ s \in 0..(Symbols - 1) /\ s \in Nat /\ n = b * Symbols + s /\ Id(n) = <<b, s>>
  <2>1. b \in Nat /\ s \in 0..(Symbols - 1) /\ Number(b, s) = n
    BY <1>1, IdNumber
  <2>2. QED
    BY <1>1, <2>1, Constants DEF Number, Id
<1>3. Nth(n) = Symbol(b, s)
  BY <1>1 DEF Nth
<1>4. /\ Symbol(b, s) \in Seq(Cell) /\ Len(Symbol(b, s)) = SymbolLen
      /\ Symbol(b, s)[1] = Magic /\ Symbol(b, s)[2] = Header(<<b, s>>)
  BY <1>2, SymbolCells
<1>5. \A k \in 2..SymbolLen : Symbol(b, s)[k] # Magic
  <2>1. TAKE k \in 2..SymbolLen
  <2>2. k # 1 /\ k \in 1..SymbolLen
    BY Constants
  <2>3. Symbol(b, s)[k] \in {Header(<<b, s>>), Pad, <<"data", b, s, k - 2>>}
    BY <2>2 DEF Symbol, Data
  <2>4. /\ Header(<<b, s>>)[1] = "id" /\ Pad[1] = "pad"
        /\ <<"data", b, s, k - 2>>[1] = "data" /\ Magic[1] = "magic"
    BY DEF Header, Pad, Magic
  <2>5. QED
    BY <2>3, <2>4
<1>6. ASSUME NEW k \in 1..SymbolLen PROVE StreamCell(n * SymbolLen + k) = Symbol(b, s)[k]
  <2>1. StreamCell(b * BlockLen + s * SymbolLen + k) = Symbol(b, s)[k]
    BY <1>2, StreamSymbol
  <2>2. b * BlockLen + s * SymbolLen = n * SymbolLen
    <3>1. BlockLen = Symbols * SymbolLen /\ Symbols \in Nat /\ SymbolLen \in Nat
      BY Lengths, Constants
    <3>2. b * (Symbols * SymbolLen) = (b * Symbols) * SymbolLen
      BY <1>2, <3>1
    <3>3. PICK x : x = b * Symbols
      OBVIOUS
    <3>4. x \in Nat
      BY <1>2, <3>1, <3>3, Product
    <3>5. (x + s) * SymbolLen = x * SymbolLen + s * SymbolLen
      BY <1>2, <3>1, <3>4
    <3>6. QED
      BY <1>2, <3>1, <3>2, <3>3, <3>5
  <2>3. QED
    BY <2>1, <2>2
<1>7. QED
  BY <1>2, <1>3, <1>4, <1>5, <1>6, Constants

\* The symbols fill the stream.
LEMMA SymbolEnds ==
  ASSUME size \in Sizes
  PROVE  /\ \A n \in Numbers : n * SymbolLen \in Nat /\ n * SymbolLen + SymbolLen <= Total
         /\ \A n \in Nat : n * SymbolLen < Total => n \in Numbers
<1>1. PICK w, m : w = BlocksOf(size) /\ m = w * Symbols
  OBVIOUS
<1>2. w \in Nat /\ Symbols \in Nat /\ SymbolLen \in Nat /\ BlockLen = Symbols * SymbolLen
  BY <1>1, LastBlock, Constants, Lengths
<1>3. w * (Symbols * SymbolLen) = (w * Symbols) * SymbolLen
  BY <1>2
<1>4. m \in Nat /\ Total = m * SymbolLen
  BY <1>1, <1>2, <1>3, Product DEF Total
<1>5. m * SymbolLen \in Nat
  BY <1>2, <1>4, Product
<1>6. ASSUME NEW n \in Numbers
      PROVE  n * SymbolLen \in Nat /\ n * SymbolLen + SymbolLen <= Total
  <2>1. n \in Nat /\ n < m
    BY <1>1, NumbersAre
  <2>2. QED
    BY <1>2, <1>4, <2>1, ProductGrows, Product
<1>7. ASSUME NEW n \in Nat, n * SymbolLen < Total PROVE n \in Numbers
  <2>1. SUFFICES ASSUME ~(n < m) PROVE FALSE
    BY <1>1, NumbersAre
  <2>2. n * SymbolLen \in Nat
    BY <1>2, Product
  <2>3. CASE n = m
    BY <1>4, <1>5, <1>7, <2>3
  <2>4. CASE m < n
    <3>1. m * SymbolLen + SymbolLen <= n * SymbolLen
      BY <1>2, <1>4, <2>4, ProductGrows
    <3>2. QED
      BY <1>2, <1>4, <1>5, <1>7, <2>2, <3>1
  <2>5. QED
    BY <1>4, <2>1, <2>3, <2>4
<1>8. QED
  BY <1>6, <1>7

\* A cell of a frame is of a symbol of the shard, or behind them all.
LEMMA FrameCellIs ==
  ASSUME size \in Sizes, NEW c \in 1..Content, NEW o \in 1..FrameCells
  PROVE  /\ (c - 1) * FrameCells \in Nat
         /\ \/ (c - 1) * FrameCells + o > Total /\ FrameCell(c, o) = Pad
            \/ \E n \in Numbers, k \in 1..SymbolLen :
                 /\ (c - 1) * FrameCells + o = n * SymbolLen + k
                 /\ FrameCell(c, o) = Nth(n)[k]
<1>1. Content \in Nat /\ Total \in Nat /\ FrameCells \in Nat \ {0} /\ SymbolLen \in Nat \ {0}
  BY ContentIs, Constants
<1>2. PICK x, q : x = (c - 1) * FrameCells /\ q = x + o
  OBVIOUS
<1>3. x \in Nat /\ q \in Nat \ {0}
  BY <1>1, <1>2, Product
<1>4. CASE q > Total
  BY <1>1, <1>2, <1>3, <1>4 DEF FrameCell
<1>5. CASE q <= Total
  <2>1. PICK n, k : n = (q - 1) \div SymbolLen /\ k = (q - 1) % SymbolLen
    OBVIOUS
  <2>2. q - 1 \in Nat
    BY <1>3
  <2>3. n \in Nat /\ k \in Nat /\ k < SymbolLen /\ q - 1 = n * SymbolLen + k
    BY <1>1, <2>1, <2>2, Division
  <2>4. n \in Numbers
    <3>1. n * SymbolLen \in Nat
      BY <1>1, <2>3, Product
    <3>2. n * SymbolLen < Total
      BY <1>1, <1>3, <1>5, <2>3, <3>1
    <3>3. QED
      BY <2>3, <3>2, SymbolEnds
  <2>5. k + 1 \in 1..SymbolLen
    BY <1>1, <2>3
  <2>6. n * SymbolLen \in Nat
    BY <1>1, <2>3, Product
  <2>7. q = n * SymbolLen + (k + 1)
    BY <1>3, <2>3, <2>6
  <2>8. FrameCell(c, o) = StreamCell(q)
    BY <1>2, <1>5 DEF FrameCell
  <2>9. StreamCell(n * SymbolLen + (k + 1)) = Nth(n)[k + 1]
    BY <2>3, <2>5, NthCells
  <2>10. QED
    BY <1>2, <1>3, <2>4, <2>5, <2>7, <2>8, <2>9
<1>6. QED
  BY <1>1, <1>3, <1>4, <1>5

\* No frame ends inside a header.
LEMMA Unsplit ==
  ASSUME NEW g \in Nat, NEW n \in Nat
  PROVE  g * FrameCells # n * SymbolLen + 1
<1>1. SUFFICES ASSUME g * FrameCells = n * SymbolLen + 1 PROVE FALSE
  OBVIOUS
<1>2. SymbolLen \in Nat \ {0} /\ SymbolLen > 2 /\ FrameCells \in Nat
  BY Constants
<1>3. PICK a, r : a = g \div SymbolLen /\ r = g % SymbolLen
  OBVIOUS
<1>4. a \in Nat /\ r \in Nat /\ r < SymbolLen /\ g = a * SymbolLen + r
  BY <1>2, <1>3, Division
<1>5. PICK x : x = r * FrameCells
  OBVIOUS
<1>6. x \in Nat
  BY <1>2, <1>4, <1>5, Product
<1>7. PICK u, v : u = x \div SymbolLen /\ v = x % SymbolLen
  OBVIOUS
<1>8. u \in Nat /\ v \in Nat /\ v < SymbolLen /\ x = u * SymbolLen + v
  BY <1>2, <1>6, <1>7, Division
<1>9. v # 1
  <2>1. \A i \in 0..DataCells + 1 : (i * FrameCells) % (2 + DataCells) # 1
    BY StreamAssumption
  <2>2. r \in 0..DataCells + 1
    BY <1>4, Constants DEF SymbolLen
  <2>3. (r * FrameCells) % SymbolLen # 1
    BY <2>1, <2>2 DEF SymbolLen
  <2>4. QED
    BY <1>5, <1>7, <2>3
<1>10. PICK z : z = g * FrameCells
  OBVIOUS
<1>11. z = (a * FrameCells + u) * SymbolLen + v
  <2>1. PICK w, y : w = a * SymbolLen /\ y = a * FrameCells
    OBVIOUS
  <2>2. w \in Nat /\ y \in Nat
    BY <1>2, <1>4, <2>1, Product
  <2>3. z = w * FrameCells + r * FrameCells
    BY <1>2, <1>4, <1>10, <2>1, <2>2
  <2>4. w * FrameCells = y * SymbolLen
    BY <1>2, <1>4, <2>1
  <2>5. (y + u) * SymbolLen = y * SymbolLen + u * SymbolLen
    BY <1>2, <1>8, <2>2
  <2>6. y * SymbolLen \in Nat /\ u * SymbolLen \in Nat
    BY <1>2, <1>8, <2>2, Product
  <2>7. QED
    BY <1>5, <1>8, <2>1, <2>3, <2>4, <2>5, <2>6
<1>12. PICK y : y = a * FrameCells + u
  OBVIOUS
<1>13. y \in Nat /\ z = y * SymbolLen + v
  BY <1>2, <1>4, <1>8, <1>11, <1>12, Product
<1>14. z % SymbolLen = v
  BY <1>2, <1>8, <1>13, DivisionIs
<1>15. z % SymbolLen = 1
  <2>1. PICK e : e = 1
    OBVIOUS
  <2>2. e \in Nat /\ e < SymbolLen /\ z = n * SymbolLen + e
    BY <1>1, <1>2, <1>10, <2>1
  <2>3. z % SymbolLen = e
    BY <1>2, <2>2, DivisionIs
  <2>4. QED
    BY <2>1, <2>3
<1>16. QED
  BY <1>9, <1>14, <1>15

LEMMA MarkerIn ==
  ASSUME size \in Sizes, NEW c \in 1..Content, NEW o \in 1..FrameCells,
         FrameCell(c, o) = Magic
  PROVE  \E n \in Numbers :
           /\ (c - 1) * FrameCells + o = n * SymbolLen + 1 /\ FrameOf(n) = c
           /\ o < FrameCells /\ o + 1 \in 1..FrameCells /\ FrameCell(c, o + 1) = Header(Id(n))
<1>1. Content \in Nat /\ c \in Nat \ {0} /\ FrameCells \in Nat \ {0} /\ SymbolLen \in Nat /\ SymbolLen > 2
  BY ContentIs, Constants
<1>2. Pad # Magic
  BY DEF Pad, Magic
<1>3. PICK n \in Numbers, k \in 1..SymbolLen :
        /\ (c - 1) * FrameCells + o = n * SymbolLen + k
        /\ FrameCell(c, o) = Nth(n)[k]
  BY <1>2, FrameCellIs
<1>4. n \in Nat
  BY NumbersAre
<1>5. k = 1
  <2>1. k \in Nat /\ (k # 1 => k \in 2..SymbolLen)
    BY <1>1
  <2>2. QED
    BY <1>3, <1>4, <2>1, NthCells
<1>6. PICK x, a : x = (c - 1) * FrameCells /\ a = n * SymbolLen
  OBVIOUS
<1>7. x \in Nat /\ a \in Nat /\ x + o = a + 1
  BY <1>1, <1>3, <1>4, <1>5, <1>6, Product
<1>8. o # FrameCells
  <2>1. c * FrameCells = x + FrameCells
    BY <1>1, <1>6
  <2>2. c * FrameCells # a + 1
    BY <1>1, <1>4, <1>6, Unsplit
  <2>3. QED
    BY <1>7, <2>1, <2>2
<1>9. o < FrameCells /\ o + 1 \in 1..FrameCells
  BY <1>1, <1>8
<1>10. FrameCell(c, o + 1) = Header(Id(n))
  <2>2. x + (o + 1) <= Total
    <3>1. a + SymbolLen <= Total
      BY <1>3, <1>6, SymbolEnds
    <3>2. Total \in Nat
      BY ContentIs
    <3>3. QED
      BY <1>1, <1>7, <3>1, <3>2
  <2>3. FrameCell(c, o + 1) = StreamCell(a + 2)
    <3>1. x + (o + 1) = a + 2
      BY <1>1, <1>7
    <3>2. QED
      BY <1>6, <2>2, <3>1 DEF FrameCell
  <2>4. 2 \in 1..SymbolLen
    BY <1>1
  <2>5. StreamCell(n * SymbolLen + 2) = Nth(n)[2] /\ Nth(n)[2] = Header(Id(n))
    BY <1>4, <2>4, NthCells
  <2>6. QED
    BY <1>6, <2>3, <2>5
<1>11. FrameOf(n) = c
  <2>1. FrameOf(n) >= c
    BY <1>1, <1>4, <1>6, <1>7, FrameFrom
  <2>2. ~(FrameOf(n) >= c + 1)
    <3>1. c + 1 \in Nat \ {0} /\ (c + 1) - 1 = c
      BY <1>1
    <3>2. FrameOf(n) >= c + 1 <=> n * SymbolLen >= c * FrameCells
      BY <1>4, <3>1, FrameFrom
    <3>3. c * FrameCells = x + FrameCells
      BY <1>1, <1>6
    <3>4. ~(a >= x + FrameCells)
      BY <1>1, <1>7, <1>9
    <3>5. QED
      BY <1>6, <3>2, <3>3, <3>4
  <2>3. FrameOf(n) \in Nat
    BY <1>4, FrameOfIs
  <2>4. QED
    BY <1>1, <2>1, <2>2, <2>3
<1>12. QED
  BY <1>3, <1>5, <1>9, <1>10, <1>11

LEMMA MarkerPlace ==
  ASSUME size \in Sizes, NEW n \in Numbers
  PROVE  \E o \in 1..FrameCells :
           /\ FrameOf(n) \in 1..Content
           /\ (FrameOf(n) - 1) * FrameCells + o = n * SymbolLen + 1
           /\ FrameCell(FrameOf(n), o) = Magic
<1>1. n \in Nat /\ SymbolLen \in Nat \ {0} /\ SymbolLen > 2 /\ FrameCells \in Nat \ {0} /\ Content \in Nat
  BY NumbersAre, Constants, ContentIs
<1>2. PICK f, x, a : f = FrameOf(n) /\ x = (f - 1) * FrameCells /\ a = n * SymbolLen
  OBVIOUS
<1>3. f \in Nat \ {0} /\ x \in Nat /\ a \in Nat /\ x <= a /\ a < x + FrameCells
  BY <1>1, <1>2, FrameOfIs
<1>4. PICK o : o = a + 1 - x
  OBVIOUS
<1>5. o \in 1..FrameCells /\ x + o = a + 1
  BY <1>1, <1>3, <1>4
<1>6. a + 1 <= Total
  <2>1. a + SymbolLen <= Total /\ Total \in Nat
    BY <1>2, SymbolEnds, ContentIs
  <2>2. QED
    BY <1>1, <1>3, <2>1
<1>7. f <= Content
  <2>1. SUFFICES ASSUME Content < f PROVE FALSE
    BY <1>1, <1>3
  <2>2. PICK k, y, z : k = Content /\ y = k * FrameCells /\ z = (f - 1) * FrameCells
    OBVIOUS
  <2>3. k \in Nat /\ y \in Nat /\ Total <= y /\ k <= f - 1 /\ f - 1 \in Nat /\ Total \in Nat
    BY <1>1, <1>3, <2>1, <2>2, ContentIs
  <2>4. y <= z
    <3>1. CASE k = f - 1
      BY <2>2, <2>3, <3>1
    <3>2. CASE k < f - 1
      <4>1. k * FrameCells + FrameCells <= (f - 1) * FrameCells
        BY <1>1, <2>3, <3>2, ProductGrows
      <4>2. QED
        BY <1>1, <1>2, <1>3, <2>2, <2>3, <4>1
    <3>3. QED
      BY <2>3, <3>1, <3>2
  <2>5. QED
    BY <1>1, <1>2, <1>3, <1>6, <2>2, <2>3, <2>4
<1>8. FrameCell(f, o) = Magic
  <2>1. FrameCell(f, o) = StreamCell(a + 1)
    BY <1>2, <1>5, <1>6 DEF FrameCell
  <2>2. 1 \in 1..SymbolLen
    BY <1>1
  <2>3. StreamCell(n * SymbolLen + 1) = Nth(n)[1] /\ Nth(n)[1] = Magic
    BY <1>1, <2>2, NthCells
  <2>4. QED
    BY <1>2, <2>1, <2>3
<1>9. QED
  BY <1>1, <1>2, <1>3, <1>5, <1>7, <1>8

-----------------------------------------------------------------------------
(* The buffer, when frames are lost or repeated: the last frame that       *)
(* arrived, g, without its first p cells, behind r cells from before it.   *)
(* The symbols taken so far are below t.                                   *)

\* A symbol that may be the next one taken: not of an earlier frame than the
\* last one, the next in its frame, and in a new frame the first or, when the
\* frame before it did not arrive, the second.
Follows(n, t) ==
  /\ t > 0 => FrameOf(t - 1) <= FrameOf(n)
  /\ t > 0 /\ FrameOf(t - 1) = FrameOf(n) => n <= t
  /\ t > 0 /\ FrameOf(t - 1) < FrameOf(n) /\ n > 0 /\ FrameOf(n - 1) = FrameOf(n) =>
       FrameOf(t - 1) + 1 < FrameOf(n)
  /\ (t > 0 => FrameOf(t - 1) < FrameOf(n)) /\ n > 1 => FrameOf(n - 2) < FrameOf(n)

\* The start of a symbol that the last frame cut off.
Cut(n, g, r) ==
  /\ FrameOf(n) <= g /\ (stage # "decode" => FrameOf(n) = g)
  /\ n * SymbolLen + r = (FrameOf(n) - 1) * FrameCells + FrameCells
  /\ 2 <= r /\ r < SymbolLen
  /\ raw[1] = Magic /\ raw[2] = Header(Id(n)) /\ \A i \in 2..r : raw[i] # Magic

Behind(g, p, r) ==
  /\ Len(raw) = r + (FrameCells - p)
  /\ \A o \in p + 1..FrameCells : raw[r + (o - p)] = FrameCell(g, o)

Buffer(g, p, r, t) ==
  /\ Behind(g, p, r)
  /\ IF stage = "decode" THEN g > 0 /\ (r > 0 => p = 0) ELSE p = FrameCells
  /\ \/ \A i \in 1..r : raw[i] # Magic
     \/ \E n \in Numbers : Follows(n, t) /\ t <= n + 1 /\ Cut(n, g, r)

\* What is not in the buffer any more has been taken, but for the symbol that a
\* cut one has swallowed.
Position(g, p, t) ==
  stage = "decode" =>
    /\ p >= SymbolLen => t > 0 /\ FrameOf(t - 1) = g
    /\ t > 0 /\ FrameOf(t - 1) + 1 >= g =>
         \A n \in Numbers :
           n >= t /\ FrameOf(n) >= g => n * SymbolLen >= (g - 1) * FrameCells + p

\* The first marker of the rest of a frame is of a symbol that may follow.
LEMMA FirstMarker ==
  ASSUME size \in Sizes, stage = "decode", NEW g \in 1..Content, NEW p \in 0..FrameCells,
         NEW t \in Nat, t > 0 => t - 1 \in Numbers /\ FrameOf(t - 1) <= g,
         Position(g, p, t), NEW n \in Numbers, FrameOf(n) = g,
         \A m \in Numbers : m < n /\ FrameOf(m) = g => m * SymbolLen < (g - 1) * FrameCells + p
  PROVE  Follows(n, t)
<1>1. /\ Content \in Nat /\ g \in Nat \ {0} /\ SymbolLen \in Nat \ {0} /\ FrameCells \in Nat \ {0}
      /\ p \in Nat /\ n \in Nat
  BY ContentIs, Constants, NumbersAre
<1>2. PICK x : x = (g - 1) * FrameCells
  OBVIOUS
<1>3. x \in Nat
  BY <1>1, <1>2, Product
<1>4. \A m \in Nat : m <= n => m \in Numbers /\ FrameOf(m) <= g /\ FrameOf(m) \in Nat
  <2>1. TAKE m \in Nat
  <2>2. ASSUME m <= n PROVE m \in Numbers
    BY <1>1, <2>2, NumbersAre
  <2>3. QED
    BY <1>1, <2>2, FrameOrder, FrameOfIs
<1>5. \A m \in Nat : m * SymbolLen \in Nat /\ (FrameOf(m) >= g => m * SymbolLen >= x)
  BY <1>1, <1>2, FrameFrom, Product
<1>6. ASSUME t > 0, FrameOf(t - 1) = g PROVE n <= t
  <2>1. SUFFICES ASSUME t < n PROVE FALSE
    BY <1>1
  <2>2. t - 1 \in Nat /\ t - 1 <= t
    BY <1>6
  <2>3. t \in Numbers /\ FrameOf(t) = g
    <3>1. t \in Numbers /\ FrameOf(t) <= g /\ FrameOf(t) \in Nat
      BY <1>1, <1>4, <2>1
    <3>2. FrameOf(t - 1) <= FrameOf(t)
      BY <2>2, FrameOrder
    <3>3. QED
      BY <1>1, <1>6, <3>1, <3>2
  <2>4. t * SymbolLen >= x + p
    BY <1>1, <1>2, <1>6, <2>3 DEF Position
  <2>5. t * SymbolLen < x + p
    BY <1>2, <2>1, <2>3
  <2>6. QED
    BY <1>1, <1>3, <1>5, <2>4, <2>5
<1>7. ASSUME t > 0 => FrameOf(t - 1) < g, n > 1, ~(FrameOf(n - 2) < g) PROVE FALSE
  <2>1. p < SymbolLen
    <3>1. ~(p >= SymbolLen)
      <4>1. SUFFICES ASSUME p >= SymbolLen PROVE FALSE
        OBVIOUS
      <4>2. t > 0 /\ FrameOf(t - 1) = g
        BY <4>1 DEF Position
      <4>3. QED
        BY <1>1, <1>7, <4>2
    <3>2. QED
      BY <1>1, <3>1
  <2>2. /\ n - 2 \in Nat /\ n - 2 <= n /\ n - 1 \in Nat /\ n - 1 <= n /\ n - 1 < n
        /\ n - 2 <= n - 1
    BY <1>1, <1>7
  <2>3. /\ FrameOf(n - 2) >= g /\ FrameOf(n - 1) = g /\ n - 1 \in Numbers
    <3>1. FrameOf(n - 2) \in Nat /\ FrameOf(n - 1) \in Nat /\ FrameOf(n - 1) <= g /\ n - 1 \in Numbers
      BY <1>4, <2>2
    <3>2. FrameOf(n - 2) <= FrameOf(n - 1)
      BY <2>2, FrameOrder
    <3>3. QED
      BY <1>1, <1>7, <3>1, <3>2
  <2>4. PICK a, b : a = (n - 2) * SymbolLen /\ b = (n - 1) * SymbolLen
    OBVIOUS
  <2>5. a \in Nat /\ a >= x /\ b < x + p
    BY <1>2, <1>5, <2>2, <2>3, <2>4
  <2>6. b = a + SymbolLen
    BY <1>1, <2>2, <2>4
  <2>7. QED
    BY <1>1, <1>3, <2>1, <2>5, <2>6
<1>8. ASSUME t > 0, FrameOf(t - 1) < g, n > 0, FrameOf(n - 1) = g
      PROVE  FrameOf(t - 1) + 1 < g
  <2>1. t - 1 \in Nat /\ FrameOf(t - 1) \in Nat /\ n - 1 \in Nat /\ n - 1 <= n /\ n - 1 < n
    BY <1>1, <1>8, FrameOfIs
  <2>2. SUFFICES ASSUME FrameOf(t - 1) + 1 >= g PROVE FALSE
    BY <1>1, <2>1
  <2>3. n - 1 >= t
    <3>1. SUFFICES ASSUME n - 1 <= t - 1 PROVE FALSE
      BY <1>1, <2>1
    <3>2. FrameOf(n - 1) <= FrameOf(t - 1)
      BY <2>1, <3>1, FrameOrder
    <3>3. QED
      BY <1>1, <1>8, <2>1, <3>2
  <2>4. n - 1 \in Numbers
    BY <1>4, <2>1
  <2>5. PICK b : b = (n - 1) * SymbolLen
    OBVIOUS
  <2>6. FrameOf(n - 1) >= g
    BY <1>1, <1>8
  <2>7. b >= x + p
    BY <1>2, <1>8, <2>2, <2>3, <2>4, <2>5, <2>6 DEF Position
  <2>8. b < x + p
    BY <1>2, <1>8, <2>1, <2>4, <2>5
  <2>9. QED
    BY <1>1, <1>3, <1>5, <2>1, <2>5, <2>7, <2>8
<1>9. QED
  BY <1>6, <1>7, <1>8 DEF Follows

-----------------------------------------------------------------------------
(* What the decoder knows, when the symbols taken are below t.             *)

Held(y)   == EntryOf(y).good \cup EntryOf(y).bad
Enough(S) == 0..(Source - 1) \subseteq S \/ Cardinality(S) >= Source + overhead
Newest    == out[Len(out)].block

\* A symbol was taken, or nothing will be made of it any more.
Recorded(n) ==
  \/ out # <<>> /\ Newest >= n \div Symbols
  \/ n % Symbols \in Held(n \div Symbols)

\* The symbols of a block that can still be taken.
Future(y, t) == {s \in 0..(Symbols - 1) : FrameOf(Number(y, s)) >= FrameOf(t - 1)}

Remembered(t) ==
  \A y \in DOMAIN blocks : \A s \in Held(y) : s < Symbols /\ Number(y, s) < t

\* Nothing is held of the frame before this one.
Apart(f) == \A y \in DOMAIN blocks : \A s \in Held(y) : FrameOf(Number(y, s)) + 1 # f

First(n) == n > 0 => FrameOf(n - 1) < FrameOf(n)

\* Of the frame of the last symbol all but the first were taken, and that one
\* unless nothing of the frame before it was.
NoGap(t) ==
  /\ \A n \in 1..(t - 1) : FrameOf(n - 1) = FrameOf(t - 1) => Recorded(n)
  /\ \A n \in 0..(t - 1) :
       FrameOf(n) = FrameOf(t - 1) /\ First(n) =>
         Recorded(n) \/ Apart(FrameOf(n))

\* Blocks came out in order, and none before the newest can come out.
Ordered ==
  \A i, j \in 1..Len(out) : i < j => out[i].block < out[j].block
Undone(y) == IF EntryOf(y).done THEN {} ELSE Held(y)
Outputs(t) ==
  /\ Ordered
  /\ \A y \in DOMAIN blocks :
       IF blocks[y].done THEN out # <<>> /\ y <= Newest ELSE ~Decodable(blocks[y])
  /\ out # <<>> =>
       /\ Newest \in DOMAIN blocks /\ blocks[Newest].done /\ t > 0
       /\ \A y \in 0..(Newest - 1) : ~Enough(Future(y, t) \cup Undone(y))

Known(t) == Remembered(t) /\ NoGap(t) /\ Outputs(t)

LEMMA IntervalIs ==
  ASSUME NEW a \in Int, NEW b \in Int
  PROVE  /\ IsFiniteSet(a..b) /\ Cardinality(a..b) \in Nat
         /\ a <= b => Cardinality(a..b) = b - a + 1
         /\ b < a => Cardinality(a..b) = 0
<1>1. IsFiniteSet(a..b) /\ Cardinality(a..b) \in Nat
  BY FS_Interval, FS_CardinalityType
<1>2. Cardinality(a..b) = IF a > b THEN 0 ELSE b - a + 1
  BY FS_Interval
<1>3. QED
  BY <1>1, <1>2

LEMMA EnoughGrows ==
  ASSUME overhead \in Nat, NEW S, NEW T, S \subseteq T, T \subseteq 0..(Symbols - 1), Enough(S)
  PROVE  Enough(T)
<1>1. Symbols - 1 \in Int /\ Source \in Nat
  BY Constants
<1>2. IsFiniteSet(0..(Symbols - 1))
  BY <1>1, FS_Interval
<1>3. IsFiniteSet(T) /\ IsFiniteSet(S)
  BY <1>2, FS_Subset
<1>4. Cardinality(S) <= Cardinality(T) /\ Cardinality(S) \in Nat /\ Cardinality(T) \in Nat
  BY <1>3, FS_Subset, FS_CardinalityType
<1>5. QED
  BY <1>1, <1>4 DEF Enough

\* Enough symbols are more than the repair symbols.
LEMMA FewNotEnough ==
  ASSUME overhead \in Nat, NEW S, IsFiniteSet(S), Cardinality(S) < Source, Source - 1 \notin S
  PROVE  ~Enough(S)
<1>1. Cardinality(S) \in Nat /\ Source \in Nat \ {0}
  BY FS_CardinalityType, Constants
<1>2. Source - 1 \in 0..(Source - 1)
  BY <1>1
<1>3. QED
  BY <1>1, <1>2 DEF Enough

LEMMA EnoughHigh ==
  ASSUME overhead \in Nat, NEW S, S \subseteq 0..(Symbols - 1), Enough(S)
  PROVE  \E s \in S : s >= Source - 1
<1>1. Source \in Nat \ {0} /\ Source > 1
  BY Constants
<1>2. CASE 0..(Source - 1) \subseteq S
  <2>1. Source - 1 \in 0..(Source - 1)
    BY <1>1
  <2>2. Source - 1 \in S /\ Source - 1 >= Source - 1
    BY <1>1, <1>2, <2>1
  <2>3. QED
    BY <2>2
<1>3. CASE Cardinality(S) >= Source + overhead
  <2>1. SUFFICES ASSUME \A s \in S : ~(s >= Source - 1) PROVE FALSE
    OBVIOUS
  <2>2. S \subseteq 0..(Source - 2)
    <3>1. ASSUME NEW s \in S PROVE s \in 0..(Source - 2)
      <4>1. s \in 0..(Symbols - 1) /\ ~(s >= Source - 1)
        BY <2>1
      <4>2. QED
        BY <1>1, <4>1, Constants
    <3>2. QED
      BY <3>1
  <2>3. IsFiniteSet(0..(Source - 2)) /\ Cardinality(0..(Source - 2)) = Source - 1
    BY <1>1, FS_Interval
  <2>4. Cardinality(S) <= Source - 1 /\ Cardinality(S) \in Nat
    BY <2>2, <2>3, FS_Subset, FS_CardinalityType, ZenonT(30)
  <2>5. QED
    BY <1>1, <1>3, <2>4
<1>4. QED
  BY <1>2, <1>3 DEF Enough

LEMMA EntryTyped ==
  ASSUME Typed(blocks), NEW y
  PROVE  /\ EntryOf(y) \in Entry /\ EntryOf(y).done \in BOOLEAN /\ Held(y) \subseteq Nat
         /\ y \notin DOMAIN blocks => Held(y) = {} /\ ~EntryOf(y).done
         /\ y \in DOMAIN blocks => y \in Nat /\ EntryOf(y) = blocks[y]
<1>1. CASE y \in DOMAIN blocks
  BY <1>1 DEF EntryOf, Typed, Held, Entry
<1>2. CASE y \notin DOMAIN blocks
  BY <1>2 DEF EntryOf, NoEntry, Entry, Held
<1>3. QED
  BY <1>1, <1>2

\* What a symbol does to what the decoder knows.
LEMMA Accepted ==
  ASSUME Typed(blocks), out \in Seq(Output), NEW b \in Nat, NEW s \in Nat, NEW data,
         Kept \in Nat, Accept(b, s, data), overhead' = overhead
  PROVE  /\ \A y \in DOMAIN blocks' : y # b => y \in DOMAIN blocks /\ blocks'[y] = blocks[y]
         /\ b \in DOMAIN blocks'
         /\ \/ /\ out' = out /\ DOMAIN blocks \subseteq DOMAIN blocks'
               /\ blocks'[b].done = EntryOf(b).done
               /\ EntryOf(b).done => blocks'[b] = EntryOf(b)
               /\ ~EntryOf(b).done => Held(b)' = Held(b) \cup {s} /\ ~Decodable(blocks[b])'
            \/ /\ ~EntryOf(b).done /\ Enough(Held(b) \cup {s})
               /\ \E f \in BOOLEAN : out' = Append(out, [block |-> b, right |-> f])
               /\ blocks'[b].done /\ Held(b)' = Held(b) \cup {s}
               /\ \A y \in DOMAIN blocks : y >= b => y \in DOMAIN blocks'
<1> DEFINE e == WithSymbol(b, s, data)
           o == EntryOf(b)
<1>1. o \in Entry /\ e \in Entry
  BY EntryTyped, WithSymbolTyped
<1>2. /\ o.done => e = o
      /\ e.done = o.done
      /\ ~o.done => e.good \cup e.bad = Held(b) \cup {s}
  <2>1. CASE o.done
    BY <2>1 DEF WithSymbol
  <2>2. CASE ~o.done /\ s \in o.good \cup o.bad
    <3>1. e = o
      BY <2>2 DEF WithSymbol
    <3>2. QED
      BY <2>2, <3>1 DEF Held
  <2>3. CASE ~o.done /\ s \notin o.good \cup o.bad
    <3>1. e \in {[o EXCEPT !.good = @ \cup {s}], [o EXCEPT !.bad = @ \cup {s}]}
      BY <2>3 DEF WithSymbol
    <3>2. Held(b) = o.good \cup o.bad
      BY DEF Held
    <3> HIDE DEF o, e
    <3>3. QED
      BY <1>1, <2>3, <3>1, <3>2 DEF Entry
  <2>4. QED
    BY <2>1, <2>2, <2>3
<1>3. /\ e.done \/ ~Decodable(e) => blocks' = Store(b, e) /\ out' = out
      /\ ~e.done /\ Decodable(e) =>
           /\ blocks' = Trim(Store(b, [e EXCEPT !.done = TRUE]), b)
           /\ out' = Append(out, [block |-> b, right |-> Right(e)])
  BY DEF Accept
<1>4. Held(b) = o.good \cup o.bad /\ Right(e) \in BOOLEAN /\ EntryOf(b) = o
  BY DEF Held, Right
<1> HIDE DEF e, o
<1>5. CASE e.done \/ ~Decodable(e)
  <2>1. blocks' = Store(b, e) /\ out' = out
    BY <1>3, <1>5
  <2>2. /\ DOMAIN blocks' = DOMAIN blocks \cup {b} /\ blocks'[b] = e
        /\ \A y \in DOMAIN blocks : y # b => blocks'[y] = blocks[y]
    BY <2>1 DEF Store
  <2>3. Held(b)' = e.good \cup e.bad
    BY <2>2 DEF Held, EntryOf
  <2>4. ASSUME ~o.done PROVE ~Decodable(blocks[b])'
    <3>1. ~Decodable(e)
      BY <1>2, <1>5, <2>4
    <3>2. QED
      BY <2>2, <3>1 DEF Decodable
  <2>5. QED
    BY <1>2, <1>4, <2>1, <2>2, <2>3, <2>4
<1>6. CASE ~e.done /\ Decodable(e)
  <2>1. PICK d : d = [e EXCEPT !.done = TRUE]
    OBVIOUS
  <2>2. d.done = TRUE /\ d.good = e.good /\ d.bad = e.bad
    BY <1>1, <2>1 DEF Entry
  <2>3. /\ blocks' = Trim(Store(b, d), b)
        /\ out' = Append(out, [block |-> b, right |-> Right(e)])
    BY <1>3, <1>6, <2>1
  <2>4. /\ DOMAIN Store(b, d) = DOMAIN blocks \cup {b} /\ Store(b, d)[b] = d
        /\ \A y \in DOMAIN blocks : y # b => Store(b, d)[y] = blocks[y]
    BY DEF Store
  <2>5. /\ DOMAIN blocks' \subseteq DOMAIN Store(b, d) 
        /\ \A y \in DOMAIN blocks' : blocks'[y] = Store(b, d)[y]
        /\ \A y \in DOMAIN Store(b, d) : y + Kept >= b => y \in DOMAIN blocks'
    BY <2>3 DEF Trim
  <2>6. /\ b \in DOMAIN blocks' /\ blocks'[b] = d
        /\ \A y \in DOMAIN blocks' : y # b => y \in DOMAIN blocks /\ blocks'[y] = blocks[y]
        /\ \A y \in DOMAIN blocks : y >= b => y \in DOMAIN blocks'
    <3>1. b + Kept >= b /\ \A y \in Nat : y >= b => y + Kept >= b
      OBVIOUS
    <3>2. \A y \in DOMAIN blocks : y \in Nat
      BY DEF Typed
    <3>3. QED
      BY <2>4, <2>5, <3>1, <3>2
  <2>7. Held(b)' = Held(b) \cup {s} /\ ~o.done
    <3>1. Held(b)' = d.good \cup d.bad
      BY <2>6 DEF Held, EntryOf
    <3>2. QED
      BY <1>2, <1>6, <2>2, <3>1
  <2>8. Enough(Held(b) \cup {s})
    BY <1>2, <1>6, <2>7 DEF Decodable, Enough
  <2>9. QED
    BY <1>4, <2>2, <2>3, <2>6, <2>7, <2>8
<1>7. QED
  BY <1>5, <1>6

\* The frame of the symbol taken, and what is recorded of it.
LEMMA NextTaken ==
  ASSUME NEW t \in Nat, NEW n \in Nat, Typed(blocks), Follows(n, t), Remembered(t), NoGap(t),
         NEW u, u = IF n < t THEN t ELSE n + 1
  PROVE  /\ u \in Nat /\ u > 0 /\ t <= u /\ n < u /\ u - 1 \in Nat
         /\ FrameOf(u - 1) = FrameOf(n) /\ FrameOf(n) \in Nat \ {0}
         /\ t > 0 => FrameOf(t - 1) <= FrameOf(n)
         /\ \A m \in 1..(u - 1) : m # n /\ FrameOf(m - 1) = FrameOf(n) => Recorded(m)
         /\ \A m \in 0..(u - 1) :
              m # n /\ FrameOf(m) = FrameOf(n) /\ First(m) =>
                Recorded(m) \/ Apart(FrameOf(n))
<1>1. u \in Nat /\ u > 0 /\ t <= u /\ n < u /\ u - 1 \in Nat /\ (t > 0 => t - 1 \in Nat)
  OBVIOUS
<1>2. /\ FrameOf(n) \in Nat \ {0} /\ FrameOf(u - 1) \in Nat
      /\ t > 0 => FrameOf(t - 1) \in Nat /\ FrameOf(t - 1) <= FrameOf(n)
  BY <1>1, FrameOfIs DEF Follows
<1>3. FrameOf(u - 1) = FrameOf(n)
  <2>1. CASE n < t
    <3>1. u - 1 = t - 1 /\ n <= t - 1 /\ t > 0
      BY <2>1
    <3>2. FrameOf(n) <= FrameOf(t - 1)
      BY <1>1, <3>1, FrameOrder
    <3>3. QED
      BY <1>2, <3>1, <3>2
  <2>2. CASE ~(n < t)
    <3>1. u - 1 = n
      BY <2>2
    <3>2. QED
      BY <3>1
  <2>3. QED
    BY <2>1, <2>2
<1>4. ASSUME NEW m \in 1..(u - 1), m # n, FrameOf(m - 1) = FrameOf(n) PROVE Recorded(m)
  <2>1. CASE t > 0 /\ FrameOf(t - 1) = FrameOf(n)
    <3>1. n <= t
      BY <2>1 DEF Follows
    <3>2. m \in 1..(t - 1)
      BY <1>4, <3>1
    <3>3. QED
      BY <1>4, <2>1, <3>2 DEF NoGap
  <2>2. CASE t > 0 => FrameOf(t - 1) < FrameOf(n)
    <3>1. ~(n < t)
      <4>1. SUFFICES ASSUME n < t PROVE FALSE
        OBVIOUS
      <4>2. u - 1 = t - 1 /\ t > 0
        BY <4>1
      <4>3. QED
        BY <1>2, <1>3, <2>2, <4>2
    <3>2. m < n /\ n > 1 /\ m - 1 \in Nat /\ n - 2 \in Nat /\ m - 1 <= n - 2
      BY <1>4, <3>1
    <3>3. FrameOf(n - 2) < FrameOf(n)
      BY <2>2, <3>2 DEF Follows
    <3>4. FrameOf(m - 1) <= FrameOf(n - 2) /\ FrameOf(n - 2) \in Nat
      BY <3>2, FrameOrder, FrameOfIs
    <3>5. QED
      BY <1>2, <1>4, <3>3, <3>4
  <2>3. QED
    BY <1>2, <2>1, <2>2
<1>5. ASSUME NEW m \in 0..(u - 1), m # n, FrameOf(m) = FrameOf(n), First(m), ~Recorded(m)
      PROVE  Apart(FrameOf(n))
  <2>1. CASE t > 0 /\ FrameOf(t - 1) = FrameOf(n)
    <3>1. n <= t
      BY <2>1 DEF Follows
    <3>2. m \in 0..(t - 1)
      BY <1>5, <2>1, <3>1
    <3>3. QED
      BY <1>5, <2>1, <3>2 DEF NoGap
  <2>2. CASE t > 0 => FrameOf(t - 1) < FrameOf(n)
    <3>1. ~(n < t)
      <4>1. SUFFICES ASSUME n < t PROVE FALSE
        OBVIOUS
      <4>2. u - 1 = t - 1 /\ t > 0
        BY <4>1
      <4>3. QED
        BY <1>2, <1>3, <2>2, <4>2
    <3>2. m < n /\ n > 0 /\ n - 1 \in Nat /\ m \in Nat /\ m <= n - 1 /\ n - 1 <= n
      BY <1>5, <3>1
    <3>3. FrameOf(n - 1) = FrameOf(n)
      <4>1. FrameOf(m) <= FrameOf(n - 1) /\ FrameOf(n - 1) <= FrameOf(n) /\ FrameOf(n - 1) \in Nat
        BY <3>2, FrameOrder, FrameOfIs
      <4>2. QED
        BY <1>2, <1>5, <4>1
    <3>4. t > 0 => FrameOf(t - 1) + 1 < FrameOf(n)
      BY <2>2, <3>2, <3>3 DEF Follows
    <3>5. SUFFICES ASSUME NEW y \in DOMAIN blocks, NEW s \in Held(y)
                   PROVE  FrameOf(Number(y, s)) + 1 # FrameOf(n)
      BY DEF Apart
    <3>7. s \in Nat /\ s < Symbols /\ Number(y, s) < t /\ y \in Nat
      BY EntryTyped DEF Remembered
    <3>8. Number(y, s) \in Nat /\ Symbols \in Nat
      BY <3>7, Constants, Product DEF Number
    <3>9. t > 0 /\ Number(y, s) <= t - 1
      BY <3>7, <3>8
    <3>10. FrameOf(Number(y, s)) <= FrameOf(t - 1) /\ FrameOf(Number(y, s)) \in Nat
      BY <1>1, <3>8, <3>9, FrameOrder, FrameOfIs
    <3>11. QED
      BY <1>2, <3>4, <3>9, <3>10
  <2>3. QED
    BY <1>2, <2>1, <2>2
<1>6. QED
  BY <1>1, <1>2, <1>3, <1>4, <1>5

\* When a block decodes, the symbols of an earlier block that can still come
\* are repair symbols: so many of the later one began in the frame.
LEMMA Late ==
  ASSUME overhead \in Nat, Typed(blocks), NEW n \in Nat, NEW u \in Nat, u > 0, n < u,
         FrameOf(u - 1) = FrameOf(n),
         \A s \in Held(n \div Symbols) : s < Symbols /\ Number(n \div Symbols, s) < u,
         Enough(Held(n \div Symbols) \cup {n % Symbols}),
         NEW y \in Nat, y < n \div Symbols, NEW r \in Future(y, u)
  PROVE  /\ FrameOf(Number(y, r)) = FrameOf(n) /\ Number(y, r) < n /\ Number(y, r) \in Nat
         /\ r \in Nat /\ Source <= r /\ r < Symbols
         /\ \E z \in Nat : y * Symbols + Symbols + Source - 1 <= z /\ FrameOf(z) = FrameOf(n)
<1>1. PICK b, s, w : b = n \div Symbols /\ s = n % Symbols /\ w = Held(b) \cup {s}
  OBVIOUS
<1>2. /\ b \in Nat /\ s \in 0..(Symbols - 1) /\ Number(b, s) = n /\ y < b
      /\ Symbols \in Nat \ {0} /\ Source \in Nat \ {0} /\ u - 1 \in Nat
  BY <1>1, IdNumber, Constants, SMTT(30)
<1>3. \A i \in w : i \in 0..(Symbols - 1) /\ Number(b, i) <= u - 1 /\ Number(b, i) \in Nat
  <2>1. Number(b, s) <= u - 1
    BY <1>2
  <2>2. ASSUME NEW i \in Held(b)
        PROVE  i \in 0..(Symbols - 1) /\ Number(b, i) <= u - 1 /\ Number(b, i) \in Nat
    <3>1. i \in Nat /\ i < Symbols /\ Number(b, i) < u
      BY <1>1, EntryTyped
    <3>2. Number(b, i) \in Nat
      BY <1>2, <3>1, Product DEF Number
    <3>3. QED
      BY <1>2, <3>1, <3>2
  <2>3. QED
    BY <1>1, <1>2, <2>1, <2>2
<1>4. PICK i \in w : i >= Source - 1
  <2>1. w \subseteq 0..(Symbols - 1) /\ Enough(w)
    BY <1>1, <1>3
  <2>2. QED
    BY <2>1, EnoughHigh
<1>5. PICK x, z : x = Number(y, r) /\ z = Number(b, i)
  OBVIOUS
<1>6. r \in 0..(Symbols - 1) /\ FrameOf(x) >= FrameOf(u - 1)
  BY <1>5 DEF Future
<1>7. /\ x < b * Symbols /\ b * Symbols <= z /\ b * Symbols <= n /\ b * Symbols \in Nat
      /\ i \in 0..(Symbols - 1)
  BY <1>2, <1>3, <1>4, <1>5, <1>6, NumberOrder
<1>8. x \in Nat /\ z \in Nat /\ r \in Nat
  BY <1>2, <1>3, <1>4, <1>5, <1>6, Product DEF Number
<1>9. x < n /\ x <= n /\ x <= z /\ z <= u - 1
  BY <1>3, <1>4, <1>5, <1>7, <1>8
<1>10. FrameOf(x) = FrameOf(n) /\ FrameOf(z) = FrameOf(n)
  <2>1. FrameOf(x) \in Nat /\ FrameOf(z) \in Nat /\ FrameOf(n) \in Nat
    BY <1>8, FrameOfIs
  <2>2. FrameOf(x) <= FrameOf(n) /\ FrameOf(x) <= FrameOf(z) /\ FrameOf(z) <= FrameOf(u - 1)
    BY <1>2, <1>8, <1>9, FrameOrder
  <2>3. QED
    BY <1>6, <2>1, <2>2
<1>11. z - x < Symbols
  BY <1>8, <1>9, <1>10, SameFrame
<1>12. y * Symbols \in Nat /\ y * Symbols + Symbols <= b * Symbols
  BY <1>2, Product, ProductGrows
<1>13. y * Symbols + Symbols + i <= z /\ x = y * Symbols + r
  <2>1. z = b * Symbols + i /\ x = y * Symbols + r
    BY <1>5 DEF Number
  <2>2. QED
    BY <1>2, <1>7, <1>8, <1>12, <2>1
<1>14. i < r
  <2>1. PICK a : a = y * Symbols
    OBVIOUS
  <2>2. /\ a \in Nat /\ a + Symbols + i <= z /\ x = a + r /\ z - x < Symbols
        /\ Symbols \in Nat /\ i \in Nat /\ r \in Nat /\ z \in Nat
    BY <1>2, <1>7, <1>8, <1>11, <1>12, <1>13, <2>1
  <2>3. QED
    BY <2>2
<1>15. Source <= r /\ y * Symbols + Symbols + Source - 1 <= z
  <2>1. PICK a : a = y * Symbols
    OBVIOUS
  <2>2. /\ a \in Nat /\ a + Symbols + i <= z /\ i \in Nat /\ i >= Source - 1
    BY <1>4, <1>7, <1>12, <1>13, <2>1
  <2>3. QED
    BY <1>2, <1>8, <1>14, <2>1, <2>2
<1>16. QED
  BY <1>2, <1>5, <1>6, <1>8, <1>9, <1>10, <1>15

LEMMA Spent ==
  ASSUME overhead \in Nat, Typed(blocks), NEW n \in Nat, NEW u \in Nat, u > 0, n < u,
         FrameOf(u - 1) = FrameOf(n),
         \A s \in Held(n \div Symbols) : s < Symbols /\ Number(n \div Symbols, s) < u,
         Enough(Held(n \div Symbols) \cup {n % Symbols}),
         NEW y \in Nat, y < n \div Symbols
  PROVE  ~Enough(Future(y, u))
<1>1. Source \in Nat \ {0} /\ Symbols = Source + Repair /\ Repair \in Nat /\ Repair < Source
  BY Constants DEF Symbols
<1>2. Future(y, u) \subseteq Source..(Symbols - 1)
  <2>1. ASSUME NEW r \in Future(y, u) PROVE r \in Source..(Symbols - 1)
    <3>1. r \in Nat /\ Source <= r /\ r < Symbols
      BY Late
    <3>2. QED
      BY <1>1, <3>1
  <2>2. QED
    BY <2>1
<1>3. IsFiniteSet(Source..(Symbols - 1)) /\ Cardinality(Source..(Symbols - 1)) <= Repair
  <2>1. PICK c, d : c = Source /\ d = Symbols - 1
    OBVIOUS
  <2>2. c \in Int /\ d \in Int /\ d - c + 1 = Repair
    BY <1>1, <2>1
  <2>3. /\ IsFiniteSet(c..d)
        /\ c <= d => Cardinality(c..d) = d - c + 1
        /\ d < c => Cardinality(c..d) = 0
    BY <2>2, IntervalIs
  <2>4. QED
    BY <1>1, <2>1, <2>2, <2>3
<1>4. /\ IsFiniteSet(Future(y, u)) /\ Cardinality(Future(y, u)) < Source
  BY <1>1, <1>2, <1>3, FS_Subset, FS_CardinalityType
<1>5. Source - 1 \notin Future(y, u)
  BY <1>1, <1>2
<1>6. QED
  BY <1>4, <1>5, FewNotEnough

\* Nor with what is held of it is there enough, when it was not before: of the
\* symbols that can still come all are held, or all but the first of the
\* frame, and then none of the frame before is.
LEMMA SpentHeld ==
  ASSUME overhead \in Nat, Typed(blocks), NEW n \in Nat, NEW u \in Nat, u > 0, n < u,
         FrameOf(u - 1) = FrameOf(n),
         \A s \in Held(n \div Symbols) : s < Symbols /\ Number(n \div Symbols, s) < u,
         Enough(Held(n \div Symbols) \cup {n % Symbols}),
         NEW y \in Nat, y < n \div Symbols,
         Held(y) \subseteq 0..(Symbols - 1), ~Enough(Held(y)),
         \A m \in Nat : m < n /\ FrameOf(m) = FrameOf(n) /\ m \div Symbols = y =>
           \/ m % Symbols \in Held(y)
           \/ First(m) /\ \A s \in Held(y) : FrameOf(Number(y, s)) + 1 # FrameOf(n)
  PROVE  ~Enough(Future(y, u) \cup Held(y))
<1>1. /\ Source \in Nat \ {0} /\ Symbols = Source + Repair /\ Repair \in Nat /\ Repair < Source
      /\ Symbols \in Nat \ {0}
  BY Constants DEF Symbols
<1>2. CASE Future(y, u) \subseteq Held(y)
  <2>1. Future(y, u) \cup Held(y) = Held(y)
    BY <1>2
  <2>2. QED
    BY <2>1
<1>3. ASSUME NEW a \in Future(y, u), a \notin Held(y)
      PROVE  ~Enough(Future(y, u) \cup Held(y))
  <2>1. PICK x, h, c : x = Number(y, a) /\ h = FrameOf(n) /\ c = y * Symbols
    OBVIOUS
  <2>2. /\ x \in Nat /\ FrameOf(x) = h /\ x < n /\ a \in Nat /\ Source <= a /\ a < Symbols
    BY <2>1, Late
  <2>3. PICK z \in Nat : c + Symbols + Source - 1 <= z /\ FrameOf(z) = h
    BY <2>1, Late
  <2>4. x \div Symbols = y /\ x % Symbols = a /\ x = c + a /\ c \in Nat
    <3>1. a \in 0..(Symbols - 1)
      BY <1>1, <2>2
    <3>2. QED
      BY <1>1, <2>1, <3>1, NumberIs, Product DEF Number
  <2>5. First(x) /\ \A s \in Held(y) : FrameOf(Number(y, s)) + 1 # h
    BY <1>3, <2>1, <2>2, <2>4
  <2>6. \A r \in Future(y, u) : r \in a..(Symbols - 1)
    <3>1. TAKE r \in Future(y, u)
    <3>2. /\ Number(y, r) \in Nat /\ FrameOf(Number(y, r)) = h /\ r \in Nat /\ r < Symbols
          /\ Number(y, r) = c + r
      BY <2>1, Late DEF Number
    <3>3. ASSUME r < a PROVE FALSE
      <4>1. Number(y, r) <= x - 1 /\ x - 1 \in Nat /\ x > 0
        BY <2>2, <2>4, <3>2, <3>3
      <4>2. FrameOf(x - 1) < FrameOf(x)
        BY <2>5, <4>1 DEF First
      <4>3. FrameOf(Number(y, r)) <= FrameOf(x - 1) /\ FrameOf(x - 1) \in Nat /\ FrameOf(x) \in Nat
        BY <2>2, <3>2, <4>1, FrameOrder, FrameOfIs
      <4>4. QED
        BY <2>2, <3>2, <4>2, <4>3
    <3>4. QED
      BY <1>1, <2>2, <3>2, <3>3
  <2>7. x <= z /\ z * SymbolLen < x * SymbolLen + FrameCells
    <3>1. x <= z
      BY <1>1, <2>2, <2>3, <2>4
    <3>2. QED
      BY <2>2, <2>3, <3>1, SameFrame
  <2>8. PICK e : e = a - Source - (Symbols - a)
    OBVIOUS
  <2>9. ASSUME NEW r \in Held(y), FrameOf(Number(y, r)) # h PROVE r <= e /\ r \in Nat
    <3>1. PICK v, f : v = Number(y, r) /\ f = FrameOf(v)
      OBVIOUS
    <3>2. r \in 0..(Symbols - 1) /\ r \in Nat /\ v = c + r /\ v \in Nat
      <4>1. v = c + r
        BY <2>1, <3>1 DEF Number
      <4>2. r \in 0..(Symbols - 1)
        OBVIOUS
      <4>3. QED
        BY <1>1, <2>4, <4>1, <4>2
    <3>3. f \in Nat \ {0} /\ h \in Nat \ {0}
      BY <2>1, <3>1, <3>2, FrameOfIs
    <3>4. f < h
      <4>1. ~(f > h)
        <5>1. SUFFICES ASSUME f > h PROVE FALSE
          OBVIOUS
        <5>2. v > x
          <6>1. SUFFICES ASSUME v <= x PROVE FALSE
            BY <2>2, <3>2
          <6>2. FrameOf(v) <= FrameOf(x)
            BY <2>2, <3>2, <6>1, FrameOrder
          <6>3. QED
            BY <2>2, <3>1, <3>3, <5>1, <6>2
        <5>3. v <= z
          BY <1>1, <2>3, <2>4, <3>2
        <5>4. f <= h
          BY <2>3, <3>1, <3>2, <5>3, FrameOrder
        <5>5. QED
          BY <3>3, <5>1, <5>4
      <4>2. QED
        BY <2>9, <3>1, <3>3, <4>1
    <3>5. f + 1 < h /\ h - 1 \in Nat \ {0} /\ h - 2 \in Nat
      BY <2>5, <3>1, <3>3, <3>4
    <3>6. PICK p, q, k, l : /\ p = (h - 2) * FrameCells /\ q = (h - 1) * FrameCells
                            /\ k = v * SymbolLen /\ l = x * SymbolLen
      OBVIOUS
    <3>7. /\ p \in Nat /\ q = p + FrameCells /\ k \in Nat /\ l \in Nat /\ FrameCells \in Nat
      BY <2>2, <3>2, <3>3, <3>5, <3>6, Product, Constants
    <3>8. k < p
      <4>1. FrameOf(v) >= h - 1 <=> v * SymbolLen >= ((h - 1) - 1) * FrameCells
        BY <3>2, <3>5, FrameFrom
      <4>2. (h - 1) - 1 = h - 2 /\ ~(f >= h - 1)
        BY <3>3, <3>5
      <4>3. QED
        BY <3>1, <3>6, <3>7, <4>1, <4>2
    <3>9. l >= q
      <4>1. FrameOf(x) >= h
        BY <2>2, <3>3
      <4>2. QED
        BY <2>2, <3>3, <3>6, <4>1, FrameFrom
    <3>10. PICK j : j = z * SymbolLen
      OBVIOUS
    <3>11. j < l + FrameCells /\ j \in Nat
      BY <2>3, <2>7, <3>6, <3>10, Product, Constants
    <3>12. j - l < l - k
      BY <3>7, <3>8, <3>9, <3>11
    <3>13. z - x < x - v
      <4>1. SUFFICES ASSUME ~(z - x < x - v) PROVE FALSE
        OBVIOUS
      <4>2. PICK d, g : d = z - x /\ g = x - v
        OBVIOUS
      <4>3. d \in Nat /\ g \in Int /\ g <= d /\ SymbolLen \in Nat
        BY <2>2, <2>3, <2>7, <3>2, <4>1, <4>2, Constants
      <4>4. d * SymbolLen = j - l /\ g * SymbolLen = l - k
        BY <2>2, <2>3, <3>2, <3>6, <3>10, <4>2, <4>3
      <4>5. g * SymbolLen <= d * SymbolLen
        <5>1. (d - g) * SymbolLen = d * SymbolLen - g * SymbolLen
          BY <4>3
        <5>2. d - g \in Nat
          BY <4>3
        <5>3. (d - g) * SymbolLen \in Nat
          BY <4>3, <5>2, Product
        <5>4. PICK i : i = (d - g) * SymbolLen
          OBVIOUS
        <5>5. i \in Nat /\ i = (j - l) - (l - k)
          BY <4>4, <5>1, <5>3, <5>4
        <5>6. QED
          BY <3>7, <3>11, <4>4, <5>5
      <4>6. QED
        BY <3>7, <3>11, <3>12, <4>4, <4>5
    <3>14. r <= e
      BY <1>1, <2>2, <2>3, <2>4, <2>8, <3>2, <3>13
    <3>15. QED
      BY <3>2, <3>14
  <2>10. ASSUME NEW r \in Held(y), FrameOf(Number(y, r)) = h PROVE r \in a..(Symbols - 1)
    <3>1. FrameOf(Number(y, r)) >= FrameOf(u - 1)
      <4>1. h \in Nat
        BY <2>1, FrameOfIs
      <4>2. QED
        BY <2>1, <2>10, <4>1
    <3>2. r \in Future(y, u)
      BY <3>1 DEF Future
    <3>3. QED
      BY <2>6, <3>2
  <2>11. Future(y, u) \cup Held(y) \subseteq 0..e \cup a..(Symbols - 1)
    <3>1. e \in Int
      BY <1>1, <2>2, <2>8
    <3>2. ASSUME NEW r \in Held(y) PROVE r \in 0..e \cup a..(Symbols - 1)
      <4>1. CASE FrameOf(Number(y, r)) = h
        BY <2>10, <4>1
      <4>2. CASE FrameOf(Number(y, r)) # h
        BY <2>9, <3>1, <4>2
      <4>3. QED
        BY <4>1, <4>2
    <3>3. QED
      BY <2>6, <3>2
  <2>12. /\ IsFiniteSet(0..e \cup a..(Symbols - 1))
         /\ Cardinality(0..e \cup a..(Symbols - 1)) < Source
    <3>1. e \in Int /\ 0 \in Int /\ Symbols - 1 \in Int /\ a \in Int
      BY <1>1, <2>2, <2>8
    <3>2. PICK d, x1, x2, x3 : /\ d = Symbols - 1 /\ x1 = Cardinality(0..e)
                               /\ x2 = Cardinality(a..d) /\ x3 = Cardinality(0..e \cap a..d)
      OBVIOUS
    <3>3. /\ IsFiniteSet(0..e) /\ IsFiniteSet(a..d) /\ d \in Int
          /\ (0 <= e => x1 = e - 0 + 1) /\ (e < 0 => x1 = 0)
          /\ (a <= d => x2 = d - a + 1)
      BY <3>1, <3>2, IntervalIs
    <3>4. x3 \in Nat
      <4>1. 0..e \cap a..d \subseteq 0..e
        OBVIOUS
      <4>2. QED
        BY <3>2, <3>3, <4>1, FS_Subset, FS_CardinalityType
    <3>5. /\ IsFiniteSet(0..e \cup a..d)
          /\ Cardinality(0..e \cup a..d) = x1 + x2 - x3
      BY <3>2, <3>3, FS_Union, ZenonT(30)
    <3>6. x1 + x2 - x3 < Source
      <4>1. a <= d /\ x2 = Symbols - a /\ e \in Int
        BY <1>1, <2>2, <3>1, <3>2, <3>3
      <4>2. x1 = 0 \/ x1 = e + 1
        BY <3>1, <3>3
      <4>3. x2 < Source
        BY <1>1, <2>2, <4>1
      <4>4. e + 1 + x2 < Source
        BY <1>1, <2>2, <2>8, <4>1
      <4>5. x2 \in Int /\ Source \in Int
        BY <1>1, <2>2, <4>1
      <4>6. CASE x1 = 0
        BY <3>4, <4>3, <4>5, <4>6
      <4>7. CASE x1 = e + 1
        BY <3>4, <4>1, <4>4, <4>5, <4>7
      <4>8. QED
        BY <4>2, <4>6, <4>7
    <3>7. QED
      BY <3>2, <3>5, <3>6
  <2>13. Source - 1 \notin 0..e \cup a..(Symbols - 1)
    BY <1>1, <2>2, <2>8
  <2>14. /\ IsFiniteSet(Future(y, u) \cup Held(y))
         /\ Cardinality(Future(y, u) \cup Held(y)) < Source
    <3>1. /\ IsFiniteSet(Future(y, u) \cup Held(y))
          /\ Cardinality(Future(y, u) \cup Held(y)) <= Cardinality(0..e \cup a..(Symbols - 1))
      BY <2>11, <2>12, FS_Subset
    <3>2. /\ Cardinality(Future(y, u) \cup Held(y)) \in Nat
          /\ Cardinality(0..e \cup a..(Symbols - 1)) \in Nat
      BY <2>12, <3>1, FS_CardinalityType
    <3>3. QED
      BY <1>1, <2>12, <3>1, <3>2
  <2>15. QED
    BY <2>11, <2>13, <2>14, FewNotEnough
<1>4. QED
  BY <1>2, <1>3

\* A symbol that follows keeps what is known.
LEMMA SymbolTaken ==
  ASSUME overhead \in Nat, overhead' = overhead, Typed(blocks), out \in Seq(Output),
         NEW t \in Nat, Known(t), NEW n \in Nat, Follows(n, t), NEW data,
         Accept(n \div Symbols, n % Symbols, data), NEW u, u = IF n < t THEN t ELSE n + 1
  PROVE  Known(u)'
<1>1. PICK b, s : b = n \div Symbols /\ s = n % Symbols
  OBVIOUS
<1>2. /\ b \in Nat /\ s \in 0..(Symbols - 1) /\ s \in Nat /\ s < Symbols /\ Number(b, s) = n
      /\ Symbols \in Nat \ {0} /\ Kept \in Nat
  <2>1. b \in Nat /\ s \in 0..(Symbols - 1) /\ Number(b, s) = n
    BY <1>1, IdNumber
  <2>2. QED
    BY <2>1, Constants
<1>3. Remembered(t) /\ NoGap(t) /\ Outputs(t)
  BY DEF Known
<1>4. /\ u \in Nat /\ u > 0 /\ t <= u /\ n < u /\ u - 1 \in Nat
      /\ FrameOf(u - 1) = FrameOf(n) /\ FrameOf(n) \in Nat \ {0}
      /\ t > 0 => FrameOf(t - 1) <= FrameOf(n)
      /\ \A m \in 1..(u - 1) : m # n /\ FrameOf(m - 1) = FrameOf(n) => Recorded(m)
      /\ \A m \in 0..(u - 1) :
           m # n /\ FrameOf(m) = FrameOf(n) /\ First(m) =>
             Recorded(m) \/ Apart(FrameOf(n))
  <2>1. /\ u \in Nat /\ u > 0 /\ t <= u /\ n < u /\ u - 1 \in Nat
        /\ FrameOf(u - 1) = FrameOf(n) /\ FrameOf(n) \in Nat \ {0}
        /\ t > 0 => FrameOf(t - 1) <= FrameOf(n)
    BY <1>3, NextTaken
  <2>2. \A m \in 1..(u - 1) : m # n /\ FrameOf(m - 1) = FrameOf(n) => Recorded(m)
    BY <1>3, NextTaken
  <2>3. \A m \in 0..(u - 1) :
          m # n /\ FrameOf(m) = FrameOf(n) /\ First(m) =>
            Recorded(m) \/ Apart(FrameOf(n))
    BY <1>3, NextTaken
  <2>4. QED
    BY <2>1, <2>2, <2>3
<1>5. /\ \A y \in DOMAIN blocks' : y # b => y \in DOMAIN blocks /\ blocks'[y] = blocks[y]
      /\ b \in DOMAIN blocks'
      /\ \/ /\ out' = out /\ DOMAIN blocks \subseteq DOMAIN blocks'
            /\ blocks'[b].done = EntryOf(b).done
            /\ EntryOf(b).done => blocks'[b] = EntryOf(b)
            /\ ~EntryOf(b).done => Held(b)' = Held(b) \cup {s} /\ ~Decodable(blocks[b])'
         \/ /\ ~EntryOf(b).done /\ Enough(Held(b) \cup {s})
            /\ \E f \in BOOLEAN : out' = Append(out, [block |-> b, right |-> f])
            /\ blocks'[b].done /\ Held(b)' = Held(b) \cup {s}
            /\ \A y \in DOMAIN blocks : y >= b => y \in DOMAIN blocks'
  BY <1>1, <1>2, Accepted
<1>6. Typed(blocks') /\ out' \in Seq(Output)
  BY <1>1, <1>2, AcceptTyped
<1>7. \A y : Held(y) \subseteq 0..(Symbols - 1) /\ \A r \in Held(y) : Number(y, r) < t
  <2>1. TAKE y
  <2>2. CASE y \in DOMAIN blocks
    BY <1>2, <1>3, <2>2, EntryTyped DEF Remembered
  <2>3. CASE y \notin DOMAIN blocks
    BY <2>3, EntryTyped
  <2>4. QED
    BY <2>2, <2>3
<1>8. /\ Len(out) \in Nat /\ out # <<>> => Len(out) \in 1..Len(out) /\ Newest \in Nat
      /\ \A i \in 1..Len(out) : out[i].block \in Nat /\ (i # Len(out) => out[i].block < Newest)
  <2>1. Len(out) \in Nat /\ (out # <<>> => Len(out) > 0)
    BY LenProperties, EmptySeq
  <2>2. \A i \in 1..Len(out) : out[i] \in Output
    BY ElementOfSeq
  <2>3. ASSUME NEW i \in 1..Len(out), i # Len(out) PROVE out[i].block < Newest
    <3>1. i < Len(out) /\ Len(out) \in 1..Len(out)
      BY <2>1, <2>3
    <3>2. QED
      BY <1>3, <3>1 DEF Outputs, Ordered, Newest
  <2>4. QED
    BY <2>1, <2>2, <2>3 DEF Newest, Output
<1> DEFINE Decodes == /\ ~EntryOf(b).done /\ Enough(Held(b) \cup {s})
                      /\ \E f \in BOOLEAN : out' = Append(out, [block |-> b, right |-> f])
                      /\ blocks'[b].done /\ Held(b)' = Held(b) \cup {s}
                      /\ \A y \in DOMAIN blocks : y >= b => y \in DOMAIN blocks'
           Quiet == /\ out' = out /\ DOMAIN blocks \subseteq DOMAIN blocks'
                    /\ blocks'[b].done = EntryOf(b).done
                    /\ EntryOf(b).done => blocks'[b] = EntryOf(b)
                    /\ ~EntryOf(b).done => Held(b)' = Held(b) \cup {s} /\ ~Decodable(blocks[b])'
<1>9. Quiet \/ Decodes
  BY <1>5
<1>10. ASSUME Decodes PROVE /\ Len(out') = Len(out) + 1 /\ out' # <<>> /\ Newest' = b
                            /\ \A i \in 1..Len(out) : out'[i] = out[i]
  <2>1. PICK f \in BOOLEAN : out' = Append(out, [block |-> b, right |-> f])
    BY <1>10
  <2>2. [block |-> b, right |-> f] \in Output
    BY <1>2 DEF Output
  <2>3. /\ Len(out') = Len(out) + 1 /\ out'[Len(out) + 1] = [block |-> b, right |-> f]
        /\ \A i \in 1..Len(out) : out'[i] = out[i]
    BY <1>8, <2>1, <2>2
  <2>4. Newest' = b
    <3>1. Newest' = out'[Len(out')].block
      BY DEF Newest
    <3>2. QED
      BY <2>3, <3>1
  <2>5. out' # <<>>
    BY <1>8, <2>3
  <2>6. QED
    BY <2>3, <2>4, <2>5
<1>11. ASSUME Decodes, out # <<>> PROVE Newest < b
  <2>1. SUFFICES ASSUME b <= Newest PROVE FALSE
    BY <1>2, <1>8, <1>11
  <2>2. /\ Newest \in DOMAIN blocks /\ blocks[Newest].done /\ t > 0 /\ Newest \in Nat
        /\ \A y \in 0..(Newest - 1) : ~Enough(Future(y, t) \cup Undone(y))
    BY <1>3, <1>8, <1>11 DEF Outputs
  <2>3. b # Newest
    BY <1>11, <2>2 DEF EntryOf
  <2>4. b \in 0..(Newest - 1) /\ Undone(b) = Held(b)
    BY <1>2, <1>11, <2>1, <2>2, <2>3 DEF Undone
  <2>5. s \in Future(b, t)
    <3>1. t - 1 \in Nat /\ FrameOf(t - 1) \in Nat
      <4>1. t - 1 \in Nat
        BY <2>2
      <4>2. QED
        BY <4>1, FrameOfIs
    <3>2. FrameOf(Number(b, s)) >= FrameOf(t - 1)
      BY <1>2, <1>4, <2>2, <3>1
    <3>3. QED
      BY <1>2, <3>2 DEF Future
  <2>6. Future(b, t) \cup Undone(b) \subseteq 0..(Symbols - 1)
    BY <1>7, <2>4 DEF Future
  <2>7. Held(b) \cup {s} \subseteq Future(b, t) \cup Undone(b)
    BY <2>4, <2>5
  <2>8. Enough(Future(b, t) \cup Undone(b))
    BY <1>11, <2>6, <2>7, EnoughGrows
  <2>9. QED
    BY <2>2, <2>4, <2>8
<1>12. out # <<>> => out' # <<>> /\ Newest <= Newest' /\ Newest' \in Nat
  <2>1. CASE Quiet
    BY <1>8, <2>1 DEF Newest
  <2>2. CASE Decodes
    BY <1>2, <1>8, <1>10, <1>11, <2>2
  <2>3. QED
    BY <1>9, <2>1, <2>2
<1>13. \A y : y # b => Held(y)' \subseteq Held(y) /\ (EntryOf(y)').done \in {EntryOf(y).done, FALSE}
  <2>1. TAKE y
  <2>2. SUFFICES ASSUME y # b
                 PROVE  Held(y)' \subseteq Held(y) /\ (EntryOf(y)').done \in {EntryOf(y).done, FALSE}
    OBVIOUS
  <2>3. CASE y \in DOMAIN blocks'
    <3>1. EntryOf(y)' = EntryOf(y)
      BY <1>5, <2>2, <2>3 DEF EntryOf
    <3>2. QED
      BY <3>1 DEF Held
  <2>4. CASE y \notin DOMAIN blocks'
    <3>1. EntryOf(y)' = NoEntry
      BY <2>4 DEF EntryOf
    <3>2. Held(y)' = {} /\ (EntryOf(y)').done = FALSE
      BY <3>1 DEF Held, NoEntry
    <3>3. QED
      BY <3>2
  <2>5. QED
    BY <2>3, <2>4
<1>14. /\ Held(b)' \subseteq Held(b) \cup {s} /\ EntryOf(b)' = blocks'[b]
       /\ Held(b) \subseteq Held(b)'
  <2>1. EntryOf(b)' = blocks'[b]
    BY <1>5 DEF EntryOf
  <2>2. CASE EntryOf(b).done /\ Quiet
    <3>1. EntryOf(b)' = EntryOf(b)
      BY <2>1, <2>2
    <3>2. QED
      BY <2>1, <3>1 DEF Held
  <2>3. CASE ~(EntryOf(b).done /\ Quiet)
    BY <1>9, <2>1, <2>3
  <2>4. QED
    BY <2>2, <2>3
<1>15. ASSUME NEW m \in Nat, Recorded(m) PROVE Recorded(m)'
  <2>1. PICK y, r : y = m \div Symbols /\ r = m % Symbols
    OBVIOUS
  <2>2. y \in Nat
    BY <2>1, IdNumber
  <2>3. CASE out # <<>> /\ Newest >= y
    <3>1. out' # <<>> /\ Newest' >= y
      BY <1>8, <1>12, <2>2, <2>3
    <3>2. QED
      BY <2>1, <3>1 DEF Recorded
  <2>4. CASE r \in Held(y) /\ y = b
    <3>1. r \in Held(y)'
      BY <1>14, <2>4
    <3>2. QED
      BY <2>1, <3>1 DEF Recorded
  <2>5. CASE r \in Held(y) /\ y # b
    <3>1. y \in DOMAIN blocks
      BY <2>5, EntryTyped
    <3>2. CASE y \in DOMAIN blocks'
      <4>1. r \in Held(y)'
        BY <1>5, <2>5, <3>1, <3>2 DEF Held, EntryOf
      <4>2. QED
        BY <2>1, <4>1 DEF Recorded
    <3>3. CASE y \notin DOMAIN blocks'
      <4>1. Decodes
        BY <1>9, <3>1, <3>3
      <4>2. ~(y >= b)
        BY <3>1, <3>3, <4>1
      <4>3. out' # <<>> /\ Newest' >= y
        BY <1>2, <1>10, <2>2, <4>1, <4>2
      <4>4. QED
        BY <2>1, <4>3 DEF Recorded
    <3>4. QED
      BY <3>2, <3>3
  <2>6. QED
    BY <1>15, <2>1, <2>3, <2>4, <2>5 DEF Recorded
<1>16. Recorded(n)'
  <2>1. CASE EntryOf(b).done
    <3>1. b \in DOMAIN blocks /\ blocks[b].done
      BY <2>1, EntryTyped
    <3>2. out # <<>> /\ b <= Newest
      BY <1>3, <3>1 DEF Outputs
    <3>3. out' # <<>> /\ Newest' >= b
      BY <1>2, <1>8, <1>12, <3>2
    <3>4. QED
      BY <1>1, <3>3 DEF Recorded
  <2>2. CASE ~EntryOf(b).done
    <3>1. s \in Held(b)'
      BY <1>9, <2>2
    <3>2. QED
      BY <1>1, <3>1 DEF Recorded
  <2>3. QED
    BY <2>1, <2>2
<1>17. Remembered(u)'
  <2>1. ASSUME NEW y \in DOMAIN blocks', NEW r \in Held(y)'
        PROVE  r < Symbols /\ Number(y, r) < u
    <3>1. y \in Nat /\ (r \in Held(y) \/ (y = b /\ r = s))
      BY <1>6, <1>13, <1>14, <2>1 DEF Typed
    <3>2. CASE r \in Held(y)
      <4>1. r \in 0..(Symbols - 1) /\ Number(y, r) < t
        BY <1>7, <3>2
      <4>2. r \in Nat /\ r < Symbols /\ Number(y, r) \in Nat
        BY <1>2, <3>1, <4>1, Product DEF Number
      <4>3. QED
        BY <1>4, <4>1, <4>2
    <3>3. CASE y = b /\ r = s
      BY <1>2, <1>4, <3>3
    <3>4. QED
      BY <3>1, <3>2, <3>3
  <2>2. QED
    BY <2>1 DEF Remembered
<1>18. NoGap(u)'
  <2>1. ASSUME NEW m \in 1..(u - 1), FrameOf(m - 1) = FrameOf(u - 1) PROVE Recorded(m)'
    BY <1>4, <1>15, <1>16, <2>1
  <2>2. ASSUME NEW m \in 0..(u - 1), FrameOf(m) = FrameOf(u - 1), First(m), ~(Recorded(m)')
        PROVE  Apart(FrameOf(m))'
    <3>1. m # n /\ FrameOf(m) = FrameOf(n) /\ ~Recorded(m)
      BY <1>4, <1>15, <1>16, <2>2
    <3>2. Apart(FrameOf(m))
      BY <1>4, <2>2, <3>1
    <3>3. ASSUME NEW y \in DOMAIN blocks', NEW r \in Held(y)'
          PROVE  FrameOf(Number(y, r)) + 1 # FrameOf(m)
      <4>1. r \in Held(y) \/ (y = b /\ r = s)
        BY <1>13, <1>14
      <4>2. CASE r \in Held(y)
        <5>1. y \in DOMAIN blocks
          BY <4>2, EntryTyped
        <5>2. QED
          BY <3>2, <4>2, <5>1 DEF Apart
      <4>3. CASE y = b /\ r = s
        BY <1>2, <1>4, <3>1, <4>3
      <4>4. QED
        BY <4>1, <4>2, <4>3
    <3>4. QED
      BY <3>3 DEF Apart
  <2>3. QED
    BY <2>1, <2>2 DEF NoGap
<1>19. Outputs(u)'
  <2>1. Ordered'
    <3>1. CASE Quiet
      BY <1>3, <3>1 DEF Outputs, Ordered
    <3>2. CASE Decodes
      <4>1. ASSUME NEW i \in 1..Len(out'), NEW j \in 1..Len(out'), i < j
            PROVE  out'[i].block < out'[j].block
        <5>1. i \in 1..Len(out) /\ out'[i] = out[i]
          BY <1>8, <1>10, <3>2, <4>1
        <5>2. CASE j \in 1..Len(out)
          BY <1>3, <1>10, <3>2, <4>1, <5>1, <5>2 DEF Outputs, Ordered
        <5>3. CASE j \notin 1..Len(out)
          <6>1. j = Len(out')
            <7>1. PICK k : k = Len(out)
              OBVIOUS
            <7>2. k \in Nat /\ Len(out') = k + 1 /\ j \in 1..(k + 1) /\ j \notin 1..k
              BY <1>8, <1>10, <3>2, <4>1, <5>3, <7>1
            <7>3. QED
              BY <7>2
          <6>2. out'[j].block = b
            BY <1>10, <3>2, <6>1 DEF Newest
          <6>3. out # <<>>
            BY <1>8, <5>1
          <6>4. out[i].block <= Newest /\ Newest < b /\ out[i].block \in Nat /\ Newest \in Nat
            BY <1>8, <1>11, <3>2, <5>1, <6>3 DEF Newest
          <6>5. QED
            BY <1>2, <5>1, <6>2, <6>4, SMTT(30)
        <5>4. QED
          BY <5>2, <5>3
      <4>2. QED
        BY <4>1 DEF Ordered
    <3>3. QED
      BY <1>9, <3>1, <3>2
  <2>2. ASSUME NEW y \in DOMAIN blocks'
        PROVE  IF blocks'[y].done THEN out' # <<>> /\ y <= Newest' ELSE ~(Decodable(blocks[y])')
    <3>1. y \in Nat
      BY <1>6 DEF Typed
    <3>2. CASE y # b
      <4>1. y \in DOMAIN blocks /\ blocks'[y] = blocks[y]
        BY <1>5, <3>2
      <4>2. IF blocks[y].done THEN out # <<>> /\ y <= Newest ELSE ~Decodable(blocks[y])
        BY <1>3, <4>1 DEF Outputs
      <4>3. CASE blocks[y].done
        BY <1>8, <1>12, <3>1, <4>1, <4>2, <4>3
      <4>4. CASE ~blocks[y].done
        <5>1. Decodable(blocks[y])' <=> Decodable(blocks[y])
          BY <4>1 DEF Decodable
        <5>2. QED
          BY <4>1, <4>2, <4>4, <5>1
      <4>5. QED
        BY <4>3, <4>4
    <3>3. CASE y = b /\ Quiet /\ ~EntryOf(b).done
      BY <3>3
    <3>4. CASE y = b /\ Quiet /\ EntryOf(b).done
      <4>1. b \in DOMAIN blocks /\ blocks[b].done
        BY <3>4, EntryTyped
      <4>2. out # <<>> /\ b <= Newest
        BY <1>3, <4>1 DEF Outputs
      <4>3. out' # <<>> /\ b <= Newest'
        BY <1>2, <1>8, <1>12, <4>2
      <4>4. QED
        BY <3>4, <4>3
    <3>5. CASE y = b /\ Decodes
      BY <1>2, <1>10, <3>5
    <3>6. QED
      BY <1>9, <3>2, <3>3, <3>4, <3>5
  <2>3. ASSUME out' # <<>>
        PROVE  /\ Newest' \in DOMAIN blocks' /\ blocks'[Newest'].done /\ u > 0
               /\ \A y \in 0..(Newest' - 1) : ~(Enough(Future(y, u) \cup Undone(y))')
    <3>1. \A y : /\ Undone(y)' \subseteq Undone(y) \cup (IF y = b THEN {s} ELSE {})
                 /\ Undone(y)' \subseteq Held(y) \cup (IF y = b THEN {s} ELSE {})
      <4>1. TAKE y
      <4>2. CASE y = b
        <5>1. (EntryOf(b)').done = EntryOf(b).done \/ (EntryOf(b)').done
          BY <1>9, <1>14
        <5>2. QED
          BY <1>14, <4>2, <5>1 DEF Undone
      <4>3. CASE y # b
        <5>1. Held(y)' \subseteq Held(y) /\ (EntryOf(y)').done \in {EntryOf(y).done, FALSE}
          BY <1>13, <4>3
        <5>2. CASE y \in DOMAIN blocks'
          <6>1. EntryOf(y)' = EntryOf(y) 
            BY <1>5, <4>3, <5>2 DEF EntryOf
          <6>2. QED
            BY <6>1, <4>3 DEF Undone, Held
        <5>3. CASE y \notin DOMAIN blocks'
          <6>1. Held(y)' = {}
            BY <5>3 DEF EntryOf, NoEntry, Held
          <6>2. QED
            BY <6>1 DEF Undone
        <5>4. QED
          BY <5>2, <5>3
      <4>4. QED
        BY <4>2, <4>3
    <3>2. \A y \in Nat : t > 0 => Future(y, u) \subseteq Future(y, t)
      <4>1. TAKE y \in Nat
      <4>2. ASSUME t > 0, NEW r \in Future(y, u) PROVE r \in Future(y, t)
        <5>1. t - 1 \in Nat /\ FrameOf(t - 1) \in Nat /\ r \in 0..(Symbols - 1)
          <6>1. t - 1 \in Nat
            BY <4>2
          <6>2. QED
            BY <6>1, FrameOfIs DEF Future
        <5>2. Number(y, r) \in Nat
          BY <1>2, <5>1, Product DEF Number
        <5>3. FrameOf(Number(y, r)) >= FrameOf(u - 1) /\ FrameOf(Number(y, r)) \in Nat
          BY <5>2, FrameOfIs DEF Future
        <5>4. FrameOf(Number(y, r)) >= FrameOf(t - 1)
          BY <1>4, <4>2, <5>1, <5>3
        <5>5. QED
          BY <5>1, <5>4 DEF Future
      <4>3. QED
        BY <4>2
    <3>3. ASSUME NEW y \in Nat, out # <<>>, y < Newest, y # b
          PROVE  ~Enough(Future(y, u) \cup Undone(y)')
      <4>1. t > 0 /\ ~Enough(Future(y, t) \cup Undone(y))
        <5>1. y \in 0..(Newest - 1)
          BY <1>8, <3>3
        <5>2. QED
          BY <1>3, <3>3, <5>1 DEF Outputs
      <4>2. Future(y, u) \cup Undone(y)' \subseteq Future(y, t) \cup Undone(y)
        BY <3>1, <3>2, <3>3, <4>1
      <4>3. Future(y, t) \cup Undone(y) \subseteq 0..(Symbols - 1)
        BY <1>7 DEF Future, Undone
      <4>4. QED
        BY <4>1, <4>2, <4>3, EnoughGrows
    <3>4. CASE Quiet
      <4>1. out # <<>> /\ out' = out /\ Newest' = Newest
        BY <2>3, <3>4 DEF Newest
      <4>2. Newest \in DOMAIN blocks /\ blocks[Newest].done /\ Newest \in Nat
        BY <1>3, <1>8, <4>1 DEF Outputs
      <4>3. Newest' \in DOMAIN blocks' /\ blocks'[Newest'].done
        <5>1. CASE Newest = b
          BY <1>5, <3>4, <4>1, <4>2, <5>1 DEF EntryOf
        <5>2. CASE Newest # b
          BY <1>5, <3>4, <4>1, <4>2, <5>2
        <5>3. QED
          BY <5>1, <5>2
      <4>4. ASSUME NEW y \in 0..(Newest' - 1), y = b
            PROVE  ~Enough(Future(y, u) \cup Undone(y)')
        <5>1. t > 0 /\ ~Enough(Future(y, t) \cup Undone(y))
          BY <1>3, <4>1, <4>4 DEF Outputs
        <5>2. Undone(y)' \subseteq Future(y, t) \cup Undone(y)
          <6>1. FrameOf(t - 1) \in Nat
            <7>1. t - 1 \in Nat
              BY <5>1
            <7>2. QED
              BY <7>1, FrameOfIs
          <6>2. s \in Future(b, t)
            BY <1>2, <1>4, <5>1, <6>1 DEF Future
          <6>3. QED
            BY <3>1, <4>4, <6>2
        <5>3. Future(y, u) \cup Undone(y)' \subseteq Future(y, t) \cup Undone(y)
          BY <1>2, <3>2, <4>4, <5>1, <5>2
        <5>4. Future(y, t) \cup Undone(y) \subseteq 0..(Symbols - 1)
          BY <1>7 DEF Future, Undone
        <5>5. QED
          BY <5>1, <5>3, <5>4, EnoughGrows
      <4>5. ASSUME NEW y \in 0..(Newest' - 1) PROVE ~(Enough(Future(y, u) \cup Undone(y))')
        <5>1. y \in Nat /\ y < Newest
          BY <4>1, <4>2
        <5>2. ~Enough(Future(y, u) \cup Undone(y)')
          BY <3>3, <4>1, <4>4, <5>1
        <5>3. QED
          BY <5>2 DEF Enough
      <4>6. QED
        BY <1>4, <4>3, <4>5
    <3>5. CASE Decodes
      <4>1. Newest' = b
        BY <1>10, <3>5
      <4>2. \A r \in Held(b) : r < Symbols /\ Number(b, r) < u
        <5>1. TAKE r \in Held(b)
        <5>2. r \in 0..(Symbols - 1) /\ Number(b, r) < t
          BY <1>7
        <5>3. Number(b, r) \in Nat /\ r < Symbols
          BY <1>2, <5>2, Product DEF Number
        <5>4. QED
          BY <1>4, <5>2, <5>3
      <4>3. ASSUME NEW y \in 0..(b - 1) PROVE ~Enough(Future(y, u) \cup Undone(y)')
        <5>1. y \in Nat /\ y < b /\ y # b
          BY <1>2
        <5>2. ~Enough(Future(y, u))
          BY <1>1, <1>4, <3>5, <4>2, <5>1, Spent
        <5>3. CASE out # <<>> /\ y < Newest
          BY <3>3, <5>1, <5>3
        <5>4. CASE out # <<>> /\ y = Newest
          <6>1. EntryOf(y).done
            BY <1>3, <5>4 DEF Outputs, EntryOf
          <6>2. Undone(y)' \subseteq Undone(y) /\ Undone(y) = {}
            BY <3>1, <5>1, <6>1 DEF Undone
          <6>3. Future(y, u) \cup Undone(y)' = Future(y, u)
            BY <6>2
          <6>4. QED
            BY <5>2, <6>3
        <5>5. CASE out = <<>> \/ y > Newest
          <6>1. ~EntryOf(y).done /\ ~Enough(Held(y))
            <7>1. CASE y \in DOMAIN blocks
              <8>1. IF blocks[y].done THEN out # <<>> /\ y <= Newest ELSE ~Decodable(blocks[y])
                BY <1>3, <7>1 DEF Outputs
              <8>2. ~blocks[y].done
                <9>1. SUFFICES ASSUME blocks[y].done PROVE FALSE
                  OBVIOUS
                <9>2. out # <<>> /\ y <= Newest
                  BY <8>1, <9>1
                <9>3. QED
                  BY <1>8, <5>1, <5>5, <9>2
              <8>3. QED
                BY <7>1, <8>1, <8>2 DEF Decodable, Enough, Held, EntryOf
            <7>2. CASE y \notin DOMAIN blocks
              <8>1. Held(y) = {} /\ ~EntryOf(y).done
                BY <7>2, EntryTyped
              <8>2. IsFiniteSet({}) /\ Cardinality({}) = 0
                BY FS_EmptySet
              <8>3. QED
                BY <8>1, <8>2, FewNotEnough, Constants
            <7>3. QED
              BY <7>1, <7>2
          <6>2. ASSUME NEW m \in Nat, m < n, FrameOf(m) = FrameOf(n), m \div Symbols = y
                PROVE  \/ m % Symbols \in Held(y)
                       \/ First(m) /\ \A r \in Held(y) : FrameOf(Number(y, r)) + 1 # FrameOf(n)
            <7>1. ASSUME Recorded(m) PROVE m % Symbols \in Held(y)
              BY <1>8, <5>1, <5>5, <6>2, <7>1 DEF Recorded
            <7>2. CASE First(m)
              <8>1. m \in 0..(u - 1) /\ m # n
                BY <1>4, <6>2
              <8>2. Recorded(m) \/ Apart(FrameOf(n))
                BY <1>4, <6>2, <7>2, <8>1
              <8>3. y \notin DOMAIN blocks => Held(y) = {}
                BY EntryTyped
              <8>4. QED
                BY <7>1, <7>2, <8>2, <8>3 DEF Apart
            <7>3. CASE ~First(m)
              <8>1. m > 0 /\ m - 1 \in Nat /\ m - 1 <= m /\ ~(FrameOf(m - 1) < FrameOf(m))
                BY <6>2, <7>3 DEF First
              <8>2. FrameOf(m - 1) = FrameOf(n)
                <9>1. FrameOf(m - 1) <= FrameOf(m) /\ FrameOf(m - 1) \in Nat /\ FrameOf(m) \in Nat
                  BY <8>1, FrameOrder, FrameOfIs
                <9>2. QED
                  BY <6>2, <8>1, <9>1
              <8>3. m \in 1..(u - 1) /\ m # n
                BY <1>4, <6>2, <8>1
              <8>4. QED
                BY <1>4, <7>1, <8>2, <8>3
            <7>4. QED
              BY <7>2, <7>3
          <6>3. Held(y) \subseteq 0..(Symbols - 1)
            BY <1>7
          <6>4. ~Enough(Future(y, u) \cup Held(y))
            BY <1>1, <1>4, <3>5, <4>2, <5>1, <6>1, <6>2, <6>3, SpentHeld
          <6>5. Undone(y)' \subseteq Held(y)
            BY <3>1, <5>1
          <6>6. /\ Future(y, u) \cup Undone(y)' \subseteq Future(y, u) \cup Held(y)
                /\ Future(y, u) \cup Held(y) \subseteq 0..(Symbols - 1)
            BY <6>3, <6>5 DEF Future
          <6>7. QED
            BY <6>4, <6>6, EnoughGrows
        <5>6. QED
          BY <1>8, <5>1, <5>3, <5>4, <5>5
      <4>4. ASSUME NEW y \in 0..(b - 1) PROVE ~(Enough(Future(y, u) \cup Undone(y))')
        BY <4>3 DEF Enough
      <4>5. QED
        BY <1>4, <1>5, <3>5, <4>1, <4>4
    <3>6. QED
      BY <1>9, <3>4, <3>5
  <2>4. QED
    BY <2>1, <2>2, <2>3 DEF Outputs
<1>20. QED
  BY <1>17, <1>18, <1>19 DEF Known

-----------------------------------------------------------------------------
(* The buffer, step by step.                                               *)

Undamaged == twins = {} /\ \A i \in 1..Len(faults) : faults[i] # "damaged"

\* The symbols taken are of frames that arrived.
Seen(g, t) == t > 0 => t - 1 \in Numbers /\ FrameOf(t - 1) <= g

Reading(g, p, r, t) ==
  /\ g \in 0..Content /\ p \in 0..FrameCells /\ r \in Nat /\ t \in Nat
  /\ g <= Clamp(at) /\ Seen(g, t)
  /\ Buffer(g, p, r, t) /\ Position(g, p, t)

OrderInv ==
  Undamaged => \E g, p, r, t : Reading(g, p, r, t) /\ Known(t)

\* When frames are not damaged only markers look like markers.
LEMMA MarksAre ==
  ASSUME Undamaged
  PROVE  Marks = {i \in 1..Len(raw) : raw[i] = Magic}
<1>1. \A c : IsMagic(c) <=> c = Magic
  BY DEF Undamaged, IsMagic
<1>2. QED
  BY <1>1 DEF Marks

\* The first marker of the buffer, when it is in the last frame.
LEMMA Found ==
  ASSUME size \in Sizes, Undamaged, raw \in Seq(Cell), stage = "decode",
         NEW g \in 1..Content, NEW p \in 0..FrameCells, NEW r \in Nat, NEW t \in Nat,
         Seen(g, t), Behind(g, p, r), Position(g, p, t),
         \A i \in 1..r : raw[i] # Magic,
         NEW m \in Nat, m + 1 \in Marks, \A i \in Marks : m + 1 <= i
  PROVE  \E n \in Numbers, o \in p + 1..FrameCells :
           /\ m + 1 = r + (o - p) /\ (g - 1) * FrameCells + o = n * SymbolLen + 1
           /\ FrameOf(n) = g /\ o < FrameCells /\ FrameCell(g, o + 1) = Header(Id(n))
           /\ Follows(n, t)
<1>1. /\ FrameCells \in Nat \ {0} /\ SymbolLen \in Nat \ {0} /\ Content \in Nat /\ g \in Nat \ {0}
      /\ p \in Nat /\ p <= FrameCells
  BY Constants, ContentIs, SMTT(30)
<1>2. /\ Len(raw) = r + (FrameCells - p) /\ Marks = {i \in 1..Len(raw) : raw[i] = Magic}
      /\ \A o \in p + 1..FrameCells : raw[r + (o - p)] = FrameCell(g, o)
  BY MarksAre DEF Behind
<1>3. m + 1 \in 1..Len(raw) /\ raw[m + 1] = Magic /\ ~(m + 1 <= r)
  <2>1. m + 1 \in 1..Len(raw) /\ raw[m + 1] = Magic
    BY <1>2
  <2>2. m + 1 \in Nat /\ m + 1 > 0
    OBVIOUS
  <2>3. QED
    BY <2>1, <2>2
<1>4. PICK o : o = m + 1 - r + p
  OBVIOUS
<1>5. o \in p + 1..FrameCells /\ m + 1 = r + (o - p) /\ o \in 1..FrameCells
  BY <1>1, <1>2, <1>3, <1>4
<1>6. FrameCell(g, o) = Magic
  BY <1>2, <1>3, <1>5
<1>7. PICK n \in Numbers :
        /\ (g - 1) * FrameCells + o = n * SymbolLen + 1 /\ FrameOf(n) = g
        /\ o < FrameCells /\ FrameCell(g, o + 1) = Header(Id(n))
  BY <1>5, <1>6, MarkerIn
<1>8. PICK x : x = (g - 1) * FrameCells
  OBVIOUS
<1>9. x \in Nat
  BY <1>1, <1>8, Product
<1>10. ASSUME NEW k \in Numbers, k < n, FrameOf(k) = g PROVE k * SymbolLen < x + p
  <2>1. PICK c \in 1..FrameCells : x + c = k * SymbolLen + 1 /\ FrameCell(g, c) = Magic
    BY <1>8, <1>10, MarkerPlace
  <2>2. k \in Nat /\ n \in Nat
    BY NumbersAre
  <2>3. PICK a, b : a = k * SymbolLen /\ b = n * SymbolLen
    OBVIOUS
  <2>4. a \in Nat /\ b \in Nat /\ a + SymbolLen <= b
    BY <1>1, <1>10, <2>2, <2>3, ProductGrows, Product
  <2>5. x + c = a + 1 /\ x + o = b + 1
    BY <1>7, <1>8, <2>1, <2>3
  <2>6. c < o
    BY <1>1, <1>5, <1>9, <2>4, <2>5
  <2>7. ~(c > p)
    <3>1. SUFFICES ASSUME c > p PROVE FALSE
      OBVIOUS
    <3>2. c \in p + 1..FrameCells
      BY <1>1, <3>1
    <3>3. raw[r + (c - p)] = Magic
      BY <1>2, <2>1, <3>2
    <3>4. r + (c - p) \in 1..Len(raw)
      BY <1>1, <1>2, <3>2
    <3>5. m + 1 <= r + (c - p)
      BY <1>2, <3>3, <3>4
    <3>6. QED
      BY <1>1, <1>5, <2>6, <3>2, <3>5
  <2>8. QED
    BY <1>1, <1>9, <2>3, <2>4, <2>5, <2>7, SMTT(30)
<1>11. Follows(n, t)
  BY <1>7, <1>8, <1>10, FirstMarker DEF Seen
<1>12. QED
  BY <1>5, <1>7, <1>11

LEMMA SameReading ==
  ASSUME size' = size, raw' = raw, (stage' = "decode") = (stage = "decode"),
         Clamp(at) <= Clamp(at)', size \in Sizes, at \in Nat \ {0}, at' \in Nat \ {0},
         NEW g, NEW p, NEW r, NEW t, Reading(g, p, r, t)
  PROVE  Reading(g, p, r, t)'
<1>1. /\ \A c, o : FrameCell(c, o)' = FrameCell(c, o)
      /\ Content' = Content
  BY SameFrames
<1>2. Numbers' = Numbers
  BY DEF Numbers, BlocksOf
<1>3. g \in 0..Content /\ p \in 0..FrameCells /\ r \in Nat /\ t \in Nat /\ Seen(g, t)
  BY DEF Reading
<1>4. (g <= Clamp(at))'
  <2>1. Clamp(at) \in Nat /\ Clamp(at)' \in Nat /\ g \in Nat /\ g <= Clamp(at)
    <3>1. \A j : Clamp(j)' = Clamp(j)
      BY SameFrames
    <3>2. Clamp(at') \in Nat /\ Clamp(at) \in Nat
      BY ClampIs, ContentIs
    <3>3. Clamp(at)' = Clamp(at')
      BY <1>1 DEF Clamp
    <3>4. QED
      BY <1>3, <3>2, <3>3, ContentIs DEF Reading
  <2>2. QED
    BY <2>1
<1>5. Seen(g, t)'
  BY <1>2, <1>3 DEF Seen
<1>6. Buffer(g, p, r, t)'
  <2>1. Behind(g, p, r)'
    BY <1>1 DEF Behind, Reading, Buffer
  <2>2. \A n \in Numbers : Cut(n, g, r) => Cut(n, g, r)'
    BY DEF Cut
  <2>3. QED
    BY <1>2, <2>1, <2>2 DEF Reading, Buffer
<1>7. Position(g, p, t)'
  BY <1>2 DEF Position, Reading
<1>8. QED
  BY <1>1, <1>3, <1>4, <1>5, <1>6, <1>7 DEF Reading

LEMMA SameKnown ==
  ASSUME overhead' = overhead, blocks' = blocks, out' = out, NEW t, Known(t)
  PROVE  Known(t)'
<1>1. \A y : Held(y)' = Held(y) /\ EntryOf(y)' = EntryOf(y) /\ Undone(y)' = Undone(y)
  BY DEF Held, EntryOf, Undone
<1>2. Newest' = Newest /\ \A n : Recorded(n)' <=> Recorded(n)
  BY <1>1 DEF Newest, Recorded
<1>3. Remembered(t)'
  BY <1>1 DEF Known, Remembered
<1>4. NoGap(t)'
  <2>1. \A f : Apart(f)' <=> Apart(f)
    BY <1>1 DEF Apart
  <2>2. \A n : Apart(FrameOf(n))' <=> Apart(FrameOf(n))
    BY <1>1 DEF Apart
  <2>3. QED
    BY <1>2, <2>2 DEF Known, NoGap
<1>5. Outputs(t)'
  <2>1. Ordered'
    BY DEF Known, Outputs, Ordered
  <2>2. \A y \in DOMAIN blocks : Decodable(blocks[y])' <=> Decodable(blocks[y])
    BY DEF Decodable
  <2>3. \A y : Enough(Future(y, t) \cup Undone(y))' <=> Enough(Future(y, t) \cup Undone(y))
    BY <1>1 DEF Enough
  <2>4. QED
    BY <1>2, <2>1, <2>2, <2>3 DEF Known, Outputs
<1>6. QED
  BY <1>3, <1>4, <1>5 DEF Known

\* A frame arrives behind what is left of the one before.
LEMMA FrameRead ==
  ASSUME TypeInv, Framed, Arriving, PushFrame(video[at]), at' \in Nat \ {0}, at <= at',
         NEW g, NEW p, NEW r, NEW t, Reading(g, p, r, t)
  PROVE  \E f, l : Reading(f, 0, l, t)'
<1>1. /\ size \in Sizes /\ raw \in Seq(Cell) /\ video[at] \in Seq(Cell)
      /\ Len(video[at]) = FrameCells /\ at \in 1..Len(video) /\ stage = "receive"
      /\ FrameCells \in Nat \ {0}
  BY ArrivingFrame, Constants DEF TypeInv, TypeOK, Sorts, Arriving
<1>2. Len(raw) \in Nat /\ Len(video) \in Nat /\ at \in Nat \ {0}
  <2>1. Len(raw) \in Nat /\ video \in Seq(Frame)
    BY <1>1, LenProperties DEF TypeInv, Sorts
  <2>2. QED
    BY <1>1, <2>1, LenProperties
<1>3. /\ size' = size /\ stage' = "decode" /\ raw' = raw \o video[at]
  BY DEF PushFrame, Sent
<1>4. /\ \A c, o : FrameCell(c, o)' = FrameCell(c, o)
      /\ Content' = Content /\ \A j : Clamp(j)' = Clamp(j) /\ Numbers' = Numbers
  BY <1>3, SameFrames DEF Numbers, BlocksOf
<1>5. PICK f, l : f = Clamp(at) /\ l = Len(raw)
  OBVIOUS
<1>6. /\ f \in 1..Content /\ f <= Clamp(at') /\ Content \in Nat
      /\ \A o \in 1..FrameCells : video[at][o] = FrameCell(f, o)
  <2>1. f \in 1..Content /\ Clamp(at') \in 1..Content /\ Content \in Nat \ {0}
    BY <1>1, <1>2, <1>5, ClampIs, ContentIs
  <2>2. f <= Clamp(at')
    BY <1>2, <1>5, <2>1 DEF Clamp
  <2>3. \A o \in 1..FrameCells : video[at][o] = FrameCell(f, o)
    BY <1>1, <1>5 DEF Framed
  <2>4. QED
    BY <2>1, <2>2, <2>3
<1>7. /\ Len(raw') = Len(raw) + FrameCells
      /\ \A i \in 1..Len(raw) : raw'[i] = raw[i]
      /\ \A o \in 1..FrameCells : raw'[Len(raw) + o] = video[at][o]
  <2>1. raw \in Seq(Cell) /\ video[at] \in Seq(Cell) /\ Len(video[at]) = FrameCells
    BY <1>1
  <2>2. PICK v \in Seq(Cell) : v = video[at]
    BY <2>1
  <2>3. /\ Len(raw \o v) = Len(raw) + Len(v)
        /\ \A i \in 1..Len(raw) + Len(v) :
             (raw \o v)[i] = IF i <= Len(raw) THEN raw[i] ELSE v[i - Len(raw)]
    BY <2>1, ConcatProperties
  <2>4. raw' = raw \o v /\ Len(v) = FrameCells /\ Len(raw) \in Nat
    BY <1>3, <2>1, <2>2, LenProperties
  <2>5. \A i \in 1..Len(raw) : raw'[i] = raw[i]
    BY <1>1, <2>3, <2>4
  <2>6. \A o \in 1..FrameCells : raw'[Len(raw) + o] = v[o]
    BY <1>1, <2>3, <2>4
  <2>7. QED
    BY <2>2, <2>3, <2>4, <2>5, <2>6
<1>8. /\ g \in Nat /\ g <= f /\ t \in Nat /\ r \in Nat /\ Len(raw) = r /\ Seen(g, t)
      /\ \/ \A i \in 1..r : raw[i] # Magic
         \/ \E n \in Numbers : Follows(n, t) /\ t <= n + 1 /\ Cut(n, g, r)
  <2>1. p = FrameCells /\ Len(raw) = r + (FrameCells - p)
    BY <1>1 DEF Reading, Buffer, Behind
  <2>2. QED
    BY <1>1, <1>5, <1>6, <2>1 DEF Reading, Buffer
<1>9. Seen(f, t)'
  <2>1. ASSUME t > 0 PROVE t - 1 \in Numbers /\ FrameOf(t - 1) <= f
    <3>1. t - 1 \in Numbers /\ FrameOf(t - 1) <= g /\ t - 1 \in Nat
      BY <1>8, <2>1 DEF Seen
    <3>2. FrameOf(t - 1) \in Nat
      BY <3>1, FrameOfIs
    <3>3. QED
      BY <1>6, <1>8, <3>1, <3>2
  <2>2. QED
    BY <1>4, <2>1 DEF Seen
<1>10. Buffer(f, 0, l, t)'
  <2>1. l = Len(raw)
    BY <1>5
  <2>2. Behind(f, 0, l)'
    <3>1. Len(raw') = l + (FrameCells - 0)
      BY <1>1, <1>2, <1>7, <2>1
    <3>2. ASSUME NEW o \in 0 + 1..FrameCells PROVE raw'[l + (o - 0)] = FrameCell(f, o)
      <4>1. o \in 1..FrameCells /\ o - 0 = o
        BY <1>1, <3>2
      <4>2. QED
        BY <1>6, <1>7, <2>1, <4>1
    <3>3. QED
      BY <1>4, <3>1, <3>2 DEF Behind
  <2>3. \/ \A i \in 1..l : raw'[i] # Magic
        \/ \E n \in Numbers : Follows(n, t) /\ t <= n + 1 /\ Cut(n, f, l)'
    <3>1. CASE \A i \in 1..r : raw[i] # Magic
      BY <1>7, <1>8, <2>1, <3>1
    <3>2. ASSUME NEW n \in Numbers, Follows(n, t), t <= n + 1, Cut(n, g, r)
          PROVE  Cut(n, f, l)'
      <4>1. /\ FrameOf(n) = g /\ n * SymbolLen + r = (FrameOf(n) - 1) * FrameCells + FrameCells
            /\ 2 <= r /\ r < SymbolLen
            /\ raw[1] = Magic /\ raw[2] = Header(Id(n)) /\ \A i \in 2..r : raw[i] # Magic
        BY <1>1, <3>2 DEF Cut
      <4>2. raw'[1] = Magic /\ raw'[2] = Header(Id(n)) /\ \A i \in 2..r : raw'[i] # Magic
        BY <1>7, <1>8, <4>1
      <4>3. QED
        BY <1>3, <1>8, <2>1, <4>1, <4>2 DEF Cut
    <3>3. QED
      BY <1>8, <3>1, <3>2
  <2>4. f > 0
    BY <1>6
  <2>5. QED
    BY <1>3, <1>4, <2>2, <2>3, <2>4 DEF Buffer
<1>11. Position(f, 0, t)'
  <2>1. ~(0 >= SymbolLen)
    BY Constants
  <2>2. ASSUME NEW n \in Numbers, FrameOf(n) >= f PROVE n * SymbolLen >= (f - 1) * FrameCells + 0
    <3>1. n \in Nat /\ f \in Nat \ {0}
      BY <1>1, <1>6, NumbersAre
    <3>2. n * SymbolLen >= (f - 1) * FrameCells /\ (f - 1) * FrameCells \in Nat
      BY <2>2, <3>1, FrameFrom
    <3>3. QED
      BY <3>2
  <2>3. QED
    BY <1>4, <2>1, <2>2 DEF Position
<1>12. (f <= Clamp(at))' /\ f \in 0..Content /\ 0 \in 0..FrameCells
  <2>1. Clamp(at)' = Clamp(at')
    BY <1>4 DEF Clamp
  <2>2. QED
    BY <1>1, <1>6, <2>1
<1>13. Reading(f, 0, l, t)'
  BY <1>2, <1>4, <1>5, <1>8, <1>9, <1>10, <1>11, <1>12 DEF Reading
<1>14. QED
  BY <1>13

\* Nothing whole is left of the frame: what is left is the start of a symbol or
\* holds no marker.
LEMMA WaitReads ==
  ASSUME size \in Sizes, raw \in Seq(Cell), at \in Nat \ {0}, Undamaged, Wait,
         NEW g, NEW p, NEW r, NEW t, Reading(g, p, r, t)
  PROVE  \E l \in Nat : Reading(g, FrameCells, l, t)'
<1>1. /\ stage = "decode" /\ stage' = "receive" /\ size' = size /\ at' = at
      /\ IF Marks = {} THEN raw' = raw ELSE Len(Pending) < SymbolLen /\ raw' = Pending
  BY DEF Wait, Decoding
<1>2. /\ FrameCells \in Nat \ {0} /\ SymbolLen \in Nat /\ SymbolLen > 2 /\ SymbolLen <= FrameCells
      /\ Len(raw) \in Nat /\ Content \in Nat
  BY Constants, Lengths, LenProperties, ContentIs
<1>3. /\ \A c, o : FrameCell(c, o)' = FrameCell(c, o)
      /\ Content' = Content /\ \A j : Clamp(j)' = Clamp(j) /\ Numbers' = Numbers
  BY <1>1, SameFrames DEF Numbers, BlocksOf
<1>4. /\ g \in 1..Content /\ g \in 0..Content /\ g \in Nat /\ g > 0 /\ p \in 0..FrameCells /\ r \in Nat
      /\ t \in Nat /\ g <= Clamp(at) /\ Seen(g, t) /\ Position(g, p, t) /\ Behind(g, p, r)
      /\ r > 0 => p = 0
      /\ \/ \A i \in 1..r : raw[i] # Magic
         \/ \E n \in Numbers : Follows(n, t) /\ t <= n + 1 /\ Cut(n, g, r)
  <2>1. g \in 0..Content /\ g > 0 /\ p \in 0..FrameCells /\ r \in Nat /\ t \in Nat
    BY <1>1 DEF Reading, Buffer
  <2>2. g \in 1..Content /\ g \in Nat
    BY <1>2, <2>1
  <2>3. QED
    BY <1>1, <2>1, <2>2 DEF Reading, Buffer
<1>5. Len(raw) = r + (FrameCells - p)
  BY <1>4 DEF Behind
<1>6. ASSUME NEW l \in Nat, Len(raw') = l,
             \/ \A i \in 1..l : raw'[i] # Magic
             \/ \E n \in Numbers : Follows(n, t) /\ t <= n + 1 /\ Cut(n, g, l)'
      PROVE  Reading(g, FrameCells, l, t)'
  <2>1. Behind(g, FrameCells, l)'
    <3>1. l = l + (FrameCells - FrameCells) /\ FrameCells + 1..FrameCells = {}
      BY <1>2, <1>6
    <3>2. QED
      BY <1>6, <3>1 DEF Behind
  <2>2. Buffer(g, FrameCells, l, t)'
    BY <1>1, <1>3, <1>6, <2>1 DEF Buffer
  <2>3. Position(g, FrameCells, t)'
    BY <1>1 DEF Position
  <2>4. Seen(g, t)'
    BY <1>3, <1>4 DEF Seen
  <2>5. (g <= Clamp(at))'
    BY <1>1, <1>3, <1>4 DEF Clamp
  <2>6. FrameCells \in 0..FrameCells
    BY <1>2
  <2>7. QED
    BY <1>3, <1>4, <1>6, <2>2, <2>3, <2>4, <2>5, <2>6 DEF Reading
<1>7. CASE Marks = {}
  <2>1. raw' = raw
    BY <1>1, <1>7
  <2>2. \A i \in 1..Len(raw) : raw[i] # Magic
    BY <1>7, MarksAre
  <2>3. QED
    BY <1>2, <1>6, <2>1, <2>2
<1>8. CASE Marks # {}
  <2>1. Len(Pending) < SymbolLen /\ raw' = Pending
    BY <1>1, <1>8
  <2>2. PICK m \in Nat : /\ m + 1 \in Marks /\ \A i \in Marks : m + 1 <= i
                         /\ Pending \in Seq(Cell) /\ Len(Pending) = Len(raw) - m /\ m < Len(raw)
                         /\ \A i \in 1..(Len(raw) - m) : Pending[i] = raw[m + i]
    BY <1>8, PendingIs
  <2>3. Marks = {i \in 1..Len(raw) : raw[i] = Magic}
    BY MarksAre
  <2>4. \A i \in 1..r : raw[i] # Magic
    <3>1. SUFFICES ASSUME NEW n \in Numbers, Cut(n, g, r) PROVE FALSE
      BY <1>4
    <3>2. raw[1] = Magic /\ 2 <= r
      BY <3>1 DEF Cut
    <3>3. 1 \in Marks /\ p = 0
      BY <1>2, <1>4, <1>5, <2>3, <3>2
    <3>4. m = 0
      BY <2>2, <3>3
    <3>5. QED
      BY <1>2, <1>4, <1>5, <2>1, <2>2, <3>2, <3>3, <3>4
  <2>5. PICK n \in Numbers, o \in p + 1..FrameCells :
          /\ m + 1 = r + (o - p) /\ (g - 1) * FrameCells + o = n * SymbolLen + 1
          /\ FrameOf(n) = g /\ o < FrameCells /\ FrameCell(g, o + 1) = Header(Id(n))
          /\ Follows(n, t)
    <3>1. m + 1 \in Marks /\ \A i \in Marks : m + 1 <= i
      BY <2>2
    <3>2. QED
      BY <1>1, <1>4, <2>4, <3>1, Found
  <2>6. PICK l, x, a : l = FrameCells - o + 1 /\ x = (g - 1) * FrameCells /\ a = n * SymbolLen
    OBVIOUS
  <2>7. /\ n \in Nat /\ x \in Nat /\ a \in Nat /\ x + o = a + 1 /\ o \in Nat /\ p < o /\ p \in Nat
        /\ o < FrameCells
    <3>1. n \in Nat /\ g - 1 \in Nat
      BY <1>4, NumbersAre
    <3>2. x \in Nat /\ a \in Nat
      BY <1>2, <2>6, <3>1, Product
    <3>3. o \in Nat /\ p < o /\ p \in Nat
      BY <1>2, <1>4
    <3>4. QED
      BY <2>5, <2>6, <3>1, <3>2, <3>3
  <2>8. l \in Nat /\ Len(Pending) = l /\ 2 <= l /\ l < SymbolLen
    <3>1. Len(raw) - m = l
      BY <1>2, <1>4, <1>5, <2>5, <2>6, <2>7
    <3>2. QED
      BY <1>2, <2>1, <2>2, <2>6, <2>7, <3>1, SMTT(30)
  <2>9. \A i \in 1..l : o + (i - 1) \in 1..FrameCells /\ raw'[i] = FrameCell(g, o + (i - 1))
    <3>1. TAKE i \in 1..l
    <3>2. /\ i \in Nat /\ o + (i - 1) \in p + 1..FrameCells /\ o + (i - 1) \in 1..FrameCells
          /\ i \in 1..(Len(raw) - m) /\ m + i = r + ((o + (i - 1)) - p)
      BY <1>2, <1>4, <1>5, <2>5, <2>6, <2>7, <2>8
    <3>3. raw'[i] = raw[m + i]
      BY <2>1, <2>2, <3>2
    <3>4. raw[r + ((o + (i - 1)) - p)] = FrameCell(g, o + (i - 1))
      BY <1>4, <3>2 DEF Behind
    <3>5. QED
      BY <3>2, <3>3, <3>4
  <2>10. \A i \in 2..l : raw'[i] # Magic
    <3>1. SUFFICES ASSUME NEW i \in 2..l, raw'[i] = Magic PROVE FALSE
      OBVIOUS
    <3>2. i \in 1..l /\ i \in Nat /\ 2 <= i /\ i <= l
      BY <2>8
    <3>3. PICK c : c = o + (i - 1)
      OBVIOUS
    <3>4. c \in 1..FrameCells /\ FrameCell(g, c) = Magic
      BY <2>9, <3>1, <3>2, <3>3
    <3>5. PICK k \in Numbers : x + c = k * SymbolLen + 1
      BY <1>4, <2>6, <3>4, MarkerIn
    <3>6. PICK b : b = k * SymbolLen
      OBVIOUS
    <3>7. k \in Nat /\ b \in Nat
      BY <1>2, <3>6, NumbersAre, Product
    <3>8. b = a + (i - 1)
      BY <2>7, <3>2, <3>3, <3>5, <3>6, <3>7
    <3>9. CASE k <= n
      <4>1. b <= a
        <5>1. CASE k = n
          BY <2>6, <2>7, <3>6, <5>1
        <5>2. CASE k < n
          <6>1. b + SymbolLen <= a
            BY <1>2, <2>6, <2>7, <3>6, <3>7, <5>2, ProductGrows
          <6>2. QED
            BY <1>2, <2>7, <3>7, <6>1
        <5>3. QED
          BY <2>7, <3>7, <3>9, <5>1, <5>2
      <4>2. QED
        BY <2>7, <3>2, <3>7, <3>8, <4>1
    <3>10. CASE n < k
      <4>1. a + SymbolLen <= b
        BY <1>2, <2>6, <2>7, <3>6, <3>7, <3>10, ProductGrows
      <4>2. QED
        BY <1>2, <2>7, <2>8, <3>2, <3>7, <3>8, <4>1
    <3>11. QED
      BY <2>7, <3>7, <3>9, <3>10
  <2>11. raw'[1] = Magic /\ raw'[2] = Header(Id(n))
    <3>1. 1 \in 1..l /\ 2 \in 1..l /\ o + (2 - 1) = o + 1
      BY <2>7, <2>8
    <3>2. raw'[2] = FrameCell(g, o + 1)
      BY <2>9, <3>1
    <3>3. raw'[1] = raw[m + 1]
      <4>1. 1 \in 1..(Len(raw) - m)
        BY <1>2, <2>2
      <4>2. QED
        BY <2>1, <2>2, <4>1
    <3>4. QED
      BY <2>2, <2>3, <2>5, <3>2, <3>3
  <2>12. t <= n + 1
    <3>1. SUFFICES ASSUME t > n + 1 PROVE FALSE
      BY <1>4, <2>7
    <3>2. t > 0 /\ t - 1 \in Nat /\ n + 1 <= t - 1 /\ n + 1 \in Nat
      BY <1>4, <2>7, <3>1
    <3>3. FrameOf(t - 1) <= g /\ FrameOf(t - 1) \in Nat
      BY <1>4, <3>2, FrameOfIs DEF Seen
    <3>4. FrameOf(n + 1) <= FrameOf(t - 1) /\ FrameOf(n + 1) \in Nat
      BY <3>2, FrameOrder, FrameOfIs
    <3>5. (n + 1) * SymbolLen = a + SymbolLen
      BY <1>2, <2>6, <2>7
    <3>6. g * FrameCells = x + FrameCells
      BY <1>2, <1>4, <2>6
    <3>7. (n + 1) * SymbolLen >= ((g + 1) - 1) * FrameCells
      <4>1. (g + 1) - 1 = g
        BY <1>4
      <4>2. a + SymbolLen >= x + FrameCells
        BY <1>2, <2>6, <2>7, <2>8, SMTT(30)
      <4>3. QED
        BY <3>5, <3>6, <4>1, <4>2
    <3>8. FrameOf(n + 1) >= g + 1
      BY <1>4, <3>2, <3>7, FrameFrom, SMTT(30)
    <3>9. QED
      BY <1>4, <3>3, <3>4, <3>8
  <2>13. Cut(n, g, l)'
    <3>1. n * SymbolLen + l = (FrameOf(n) - 1) * FrameCells + FrameCells
      BY <1>2, <2>5, <2>6, <2>7, SMTT(30)
    <3>2. g <= g
      BY <1>4
    <3>3. QED
      BY <2>5, <2>8, <2>10, <2>11, <3>1, <3>2 DEF Cut
  <2>14. QED
    BY <1>6, <2>1, <2>5, <2>8, <2>12, <2>13
<1>9. QED
  BY <1>7, <1>8

\* A symbol is taken from the front of what is left.
LEMMA TakeReads ==
  ASSUME TypeInv, Undamaged, TakeSymbol,
         NEW g, NEW p, NEW r, NEW t, Reading(g, p, r, t), Known(t)
  PROVE  \E q, u : Reading(g, q, 0, u)' /\ Known(u)'
<1>1. /\ stage = "decode" /\ stage' = stage /\ size' = size /\ at' = at /\ overhead' = overhead
      /\ Marks # {} /\ Len(Pending) >= SymbolLen
      /\ raw' = SubSeq(Pending, SymbolLen + 1, Len(Pending))
  BY DEF TakeSymbol, Decoding
<1>2. /\ FrameCells \in Nat \ {0} /\ SymbolLen \in Nat /\ SymbolLen > 2 /\ SymbolLen <= FrameCells
      /\ size \in Sizes /\ raw \in Seq(Cell) /\ Typed(blocks) /\ out \in Seq(Output)
      /\ overhead \in Nat /\ Len(raw) \in Nat /\ Content \in Nat
  <2>1. size \in Sizes /\ raw \in Seq(Cell) /\ Typed(blocks) /\ out \in Seq(Output)
    BY DEF TypeInv, TypeOK, Sorts, Typed
  <2>2. overhead \in Nat
    BY StreamAssumption, Constants DEF TypeInv, TypeOK
  <2>3. QED
    BY <2>1, <2>2, Constants, Lengths, LenProperties, ContentIs
<1>3. /\ \A c, o : FrameCell(c, o)' = FrameCell(c, o)
      /\ Content' = Content /\ \A j : Clamp(j)' = Clamp(j) /\ Numbers' = Numbers
  BY <1>1, <1>2, SameFrames DEF Numbers, BlocksOf
<1>4. /\ g \in 1..Content /\ g \in 0..Content /\ g \in Nat \ {0} /\ p \in 0..FrameCells /\ r \in Nat
      /\ t \in Nat /\ g <= Clamp(at) /\ Seen(g, t) /\ Position(g, p, t) /\ Behind(g, p, r)
      /\ r > 0 => p = 0
      /\ \/ \A i \in 1..r : raw[i] # Magic
         \/ \E n \in Numbers : Follows(n, t) /\ t <= n + 1 /\ Cut(n, g, r)
  <2>1. g \in 0..Content /\ g > 0 /\ p \in 0..FrameCells /\ r \in Nat /\ t \in Nat
    BY <1>1 DEF Reading, Buffer
  <2>2. g \in 1..Content /\ g \in Nat \ {0}
    BY <1>2, <2>1
  <2>3. QED
    BY <1>1, <2>1, <2>2 DEF Reading, Buffer
<1>5. /\ Len(raw) = r + (FrameCells - p)
      /\ \A o \in p + 1..FrameCells : raw[r + (o - p)] = FrameCell(g, o)
  BY <1>4 DEF Behind
<1>6. PICK m \in Nat : /\ m + 1 \in Marks /\ \A i \in Marks : m + 1 <= i
                       /\ Pending \in Seq(Cell) /\ Len(Pending) = Len(raw) - m /\ m < Len(raw)
                       /\ \A i \in 1..(Len(raw) - m) : Pending[i] = raw[m + i]
  BY <1>1, <1>2, PendingIs
<1>7. Marks = {i \in 1..Len(raw) : raw[i] = Magic}
  BY MarksAre
<1>8. PICK k : k = Len(raw) - m - SymbolLen
  OBVIOUS
<1>9. /\ k \in Nat /\ Len(raw') = k
      /\ \A i \in 1..k : raw'[i] = raw[m + SymbolLen + i]
  <2>1. k \in Nat /\ SymbolLen + k = Len(Pending)
    BY <1>1, <1>2, <1>6, <1>8, SMTT(30)
  <2>2. raw' = SubSeq(Pending, SymbolLen + 1, SymbolLen + k)
    BY <1>1, <2>1
  <2>3. Len(raw') = k /\ \A i \in 1..k : raw'[i] = Pending[SymbolLen + i]
    <3>1. PICK c \in Seq(Cell), x \in Nat : c = Pending /\ x = SymbolLen
      BY <1>2, <1>6
    <3>2. x + k <= Len(c)
      BY <2>1, <3>1
    <3>3. /\ Len(SubSeq(c, x + 1, x + k)) = k
          /\ \A i \in 1..k : SubSeq(c, x + 1, x + k)[i] = c[x + i]
      BY <2>1, <3>2, Stretch
    <3>4. raw' = SubSeq(c, x + 1, x + k)
      BY <2>2, <3>1
    <3>5. QED
      BY <3>1, <3>3, <3>4
  <2>4. \A i \in 1..k : SymbolLen + i \in 1..(Len(raw) - m) /\ m + (SymbolLen + i) = m + SymbolLen + i
    BY <1>2, <1>6, <2>1
  <2>5. QED
    BY <1>6, <2>1, <2>3, <2>4, ZenonT(30)
<1>10. PICK x : x = (g - 1) * FrameCells
  OBVIOUS
<1>11. x \in Nat /\ g - 1 \in Nat
  BY <1>2, <1>4, <1>10, Product
<1>12. ASSUME NEW n \in Numbers, Follows(n, t), Pending[2] = Header(Id(n)), FrameOf(n) <= g,
              NEW q \in 0..FrameCells, m + SymbolLen + p = q + r, r <= m + SymbolLen,
              NEW u, u = (IF n < t THEN t ELSE n + 1),
              q >= SymbolLen => FrameOf(n) = g,
              FrameOf(n) + 1 >= g => (n + 1) * SymbolLen >= x + q
       PROVE  Reading(g, q, 0, u)' /\ Known(u)'
  <2>1. n \in Nat /\ n \div Symbols \in Nat /\ n % Symbols \in Nat
    <3>1. n \in Nat
      BY <1>2, NumbersAre
    <3>2. QED
      BY <3>1, IdNumber, Constants
  <2>2. IdOf(Pending[2]) = Id(n)
    BY <1>12 DEF IdOf, Header, Id
  <2>3. Accept(n \div Symbols, n % Symbols, SubSeq(Pending, 3, SymbolLen))
    BY <2>2 DEF TakeSymbol, Id
  <2>4. Known(u)'
    BY <1>2, <1>4, <1>12, <2>1, <2>3, <1>1, SymbolTaken
  <2>5. u \in Nat /\ u > 0 /\ n + 1 <= u /\ u - 1 \in Numbers /\ FrameOf(u - 1) \in Nat
        /\ (u - 1 = n \/ (n < t /\ u = t))
    <3>1. u \in Nat /\ u > 0 /\ n + 1 <= u /\ u - 1 \in Nat /\ (u - 1 = n \/ (n < t /\ u = t))
      BY <1>4, <1>12, <2>1
    <3>2. u - 1 \in Numbers
      BY <1>4, <1>12, <2>1, <3>1 DEF Seen
    <3>3. QED
      BY <3>1, <3>2, FrameOfIs
  <2>6. FrameOf(u - 1) = FrameOf(n) /\ FrameOf(n) \in Nat
    <3>1. CASE u - 1 = n
      BY <2>5, <3>1
    <3>2. CASE n < t /\ u = t
      <4>1. n <= u - 1 /\ u - 1 \in Nat /\ t > 0
        BY <2>1, <2>5, <3>2
      <4>2. FrameOf(n) <= FrameOf(u - 1) /\ FrameOf(n) \in Nat
        BY <2>1, <4>1, FrameOrder, FrameOfIs
      <4>3. FrameOf(u - 1) <= FrameOf(n)
        BY <1>12, <3>2, <4>1 DEF Follows
      <4>4. QED
        BY <2>5, <4>2, <4>3
    <3>3. QED
      BY <2>5, <3>1, <3>2
  <2>7. Behind(g, q, 0)'
    <3>1. k = FrameCells - q
      BY <1>2, <1>4, <1>5, <1>6, <1>8, <1>12
    <3>2. Len(raw') = 0 + (FrameCells - q)
      BY <1>2, <1>9, <1>12, <3>1
    <3>3. ASSUME NEW o \in q + 1..FrameCells PROVE raw'[0 + (o - q)] = FrameCell(g, o)
      <4>1. PICK i : i = o - q
        OBVIOUS
      <4>2. /\ o \in Nat /\ i \in 1..k /\ 0 + (o - q) = i /\ o \in p + 1..FrameCells
            /\ m + SymbolLen + i = r + (o - p)
        BY <1>2, <1>4, <1>12, <3>1, <3>3, <4>1
      <4>3. raw'[i] = raw[r + (o - p)]
        BY <1>9, <4>2
      <4>4. QED
        BY <1>5, <4>2, <4>3
    <3>4. QED
      BY <1>3, <3>2, <3>3 DEF Behind
  <2>8. Buffer(g, q, 0, u)'
    <3>1. g > 0 /\ ~(0 > 0) /\ \A i \in 1..0 : raw'[i] # Magic
      BY <1>4
    <3>2. QED
      BY <1>1, <2>7, <3>1 DEF Buffer
  <2>9. Seen(g, u)'
    BY <1>3, <1>12, <2>5, <2>6 DEF Seen
  <2>10. Position(g, q, u)'
    <3>1. ASSUME q >= SymbolLen PROVE u > 0 /\ FrameOf(u - 1) = g
      BY <1>12, <2>5, <2>6, <3>1
    <3>2. ASSUME FrameOf(u - 1) + 1 >= g, NEW i \in Numbers, i >= u
          PROVE  i * SymbolLen >= (g - 1) * FrameCells + q
      <4>1. (n + 1) * SymbolLen >= x + q
        BY <1>12, <2>6, <3>2
      <4>2. i \in Nat /\ n + 1 <= i /\ n + 1 \in Nat
        BY <1>2, <2>1, <2>5, <3>2, NumbersAre
      <4>3. PICK b, c : b = (n + 1) * SymbolLen /\ c = i * SymbolLen
        OBVIOUS
      <4>4. b \in Nat /\ c \in Nat
        BY <1>2, <4>2, <4>3, Product
      <4>5. b <= c
        <5>1. CASE n + 1 = i
          BY <4>3, <4>4, <5>1
        <5>2. CASE n + 1 < i
          <6>1. b + SymbolLen <= c
            BY <1>2, <4>2, <4>3, <5>2, ProductGrows
          <6>2. QED
            BY <1>2, <4>4, <6>1
        <5>3. QED
          BY <4>2, <5>1, <5>2
      <4>6. q \in Nat
        BY <1>2
      <4>7. QED
        BY <1>10, <1>11, <4>1, <4>3, <4>4, <4>5, <4>6
    <3>3. QED
      BY <1>3, <3>1, <3>2 DEF Position
  <2>11. (g <= Clamp(at))'
    BY <1>1, <1>3, <1>4 DEF Clamp
  <2>12. QED
    BY <1>3, <1>4, <1>12, <2>4, <2>5, <2>8, <2>9, <2>10, <2>11 DEF Reading
<1>13. CASE \A i \in 1..r : raw[i] # Magic
  <2>1. PICK n \in Numbers, o \in p + 1..FrameCells :
          /\ m + 1 = r + (o - p) /\ (g - 1) * FrameCells + o = n * SymbolLen + 1
          /\ FrameOf(n) = g /\ o < FrameCells /\ FrameCell(g, o + 1) = Header(Id(n))
          /\ Follows(n, t)
    <3>1. m + 1 \in Marks /\ \A i \in Marks : m + 1 <= i
      BY <1>6
    <3>2. /\ size \in Sizes /\ raw \in Seq(Cell) /\ stage = "decode" /\ g \in 1..Content
          /\ p \in 0..FrameCells /\ r \in Nat /\ t \in Nat /\ Seen(g, t)
          /\ Behind(g, p, r) /\ Position(g, p, t)
      BY <1>1, <1>2, <1>4
    <3>3. QED
      BY <1>13, <3>1, <3>2, Found
  <2>2. PICK q, u, a : /\ q = o + SymbolLen - 1 /\ u = (IF n < t THEN t ELSE n + 1)
                       /\ a = n * SymbolLen
    OBVIOUS
  <2>3. n \in Nat /\ a \in Nat /\ o \in Nat /\ p < o /\ p \in Nat /\ x + o = a + 1
    <3>1. n \in Nat
      BY <1>2, NumbersAre
    <3>2. a \in Nat
      BY <1>2, <2>2, <3>1, Product
    <3>3. QED
      BY <1>2, <1>4, <1>10, <2>1, <2>2, <3>1, <3>2
  <2>4. /\ q \in 0..FrameCells /\ m + SymbolLen + p = q + r /\ r <= m + SymbolLen
        /\ o + 1 \in p + 1..FrameCells /\ m + 2 = r + ((o + 1) - p)
    <3>1. Len(raw) - m >= SymbolLen /\ m + 1 = r + (o - p) /\ o < FrameCells
      BY <1>1, <1>6, <2>1
    <3>2. Len(raw) - m = FrameCells - o + 1
      BY <1>2, <1>4, <1>5, <2>3, <3>1
    <3>3. q \in Nat /\ q <= FrameCells
      BY <1>2, <2>2, <2>3, <3>1, <3>2
    <3>4. m + SymbolLen + p = q + r /\ r <= m + SymbolLen /\ m + 2 = r + ((o + 1) - p)
      BY <1>2, <1>4, <2>2, <2>3, <3>1
    <3>5. o + 1 \in p + 1..FrameCells
      BY <1>2, <2>3, <3>1
    <3>6. QED
      BY <1>2, <3>3, <3>4, <3>5
  <2>5. (n + 1) * SymbolLen >= x + q
    <3>1. (n + 1) * SymbolLen = a + SymbolLen
      BY <1>2, <2>2, <2>3
    <3>2. QED
      BY <1>2, <1>11, <2>2, <2>3, <3>1
  <2>6. Pending[2] = Header(Id(n))
    <3>1. 2 \in 1..(Len(raw) - m)
      BY <1>1, <1>2, <1>6
    <3>2. Pending[2] = raw[m + 2]
      BY <1>6, <3>1
    <3>3. raw[r + ((o + 1) - p)] = FrameCell(g, o + 1)
      BY <1>5, <2>4
    <3>4. QED
      BY <2>1, <2>4, <3>2, <3>3
  <2>7. FrameOf(n) <= g
    BY <1>4, <2>1
  <2>8. Reading(g, q, 0, u)' /\ Known(u)'
    BY <1>12, <2>1, <2>2, <2>4, <2>5, <2>6, <2>7
  <2>9. QED
    BY <2>8
<1>14. ASSUME NEW n \in Numbers, Follows(n, t), t <= n + 1, Cut(n, g, r)
       PROVE  \E q, u : Reading(g, q, 0, u)' /\ Known(u)'
  <2>1. /\ FrameOf(n) <= g /\ n * SymbolLen + r = (FrameOf(n) - 1) * FrameCells + FrameCells
        /\ 2 <= r /\ r < SymbolLen /\ raw[1] = Magic /\ raw[2] = Header(Id(n))
    BY <1>14 DEF Cut
  <2>2. PICK q, u, a, f : /\ q = SymbolLen - r /\ u = (IF n < t THEN t ELSE n + 1)
                          /\ a = n * SymbolLen /\ f = FrameOf(n)
    OBVIOUS
  <2>3. n \in Nat /\ a \in Nat /\ f \in Nat \ {0} /\ p = 0
    <3>1. n \in Nat
      BY <1>2, NumbersAre
    <3>2. QED
      BY <1>2, <1>4, <2>1, <2>2, <3>1, Product, FrameOfIs
  <2>4. m = 0
    <3>1. 1 \in Marks
      BY <1>2, <1>4, <1>5, <1>7, <2>1, <2>3
    <3>2. QED
      BY <1>6, <3>1
  <2>5. /\ q \in 0..FrameCells /\ m + SymbolLen + p = q + r /\ r <= m + SymbolLen
        /\ ~(q >= SymbolLen)
    BY <1>2, <1>4, <2>1, <2>2, <2>3, <2>4
  <2>6. Pending[2] = Header(Id(n))
    <3>1. 2 \in 1..(Len(raw) - m) /\ m + 2 = 2
      BY <1>1, <1>2, <1>6, <2>4
    <3>2. QED
      BY <1>6, <2>1, <3>1
  <2>7. ASSUME f + 1 >= g PROVE (n + 1) * SymbolLen >= x + q
    <3>1. (n + 1) * SymbolLen = a + SymbolLen
      BY <1>2, <2>2, <2>3
    <3>2. PICK y : y = (f - 1) * FrameCells
      OBVIOUS
    <3>3. a + r = y + FrameCells /\ r \in Nat
      BY <1>4, <2>1, <2>2, <3>2
    <3>4. CASE f = g
      BY <1>2, <1>10, <1>11, <2>2, <2>3, <3>1, <3>2, <3>3, <3>4
    <3>5. CASE f # g
      <4>1. f - 1 = g - 2 /\ f = g - 1
        BY <1>4, <2>1, <2>2, <2>3, <2>7, <3>5
      <4>2. y \in Nat /\ x = y + FrameCells
        BY <1>2, <1>4, <1>10, <2>3, <3>2, <4>1
      <4>3. QED
        BY <1>2, <2>2, <2>3, <3>1, <3>3, <4>2
    <3>6. QED
      BY <3>4, <3>5
  <2>8. Reading(g, q, 0, u)' /\ Known(u)'
    BY <1>12, <1>14, <2>1, <2>2, <2>5, <2>6, <2>7
  <2>9. QED
    BY <2>8
<1>15. QED
  BY <1>4, <1>13, <1>14

LEMMA OrderInit ==
  ASSUME Init
  PROVE  OrderInv /\ Framed
<1>1. /\ size \in Sizes /\ stage = "push" /\ at = 1 /\ raw = <<>> /\ blocks = <<>> /\ out = <<>>
  BY DEF Init
<1>2. /\ Content \in Nat \ {0} /\ FrameCells \in Nat \ {0} /\ Clamp(at) = 1
  BY <1>1, ContentIs, Constants DEF Clamp
<1>3. Framed
  BY <1>1 DEF Framed
<1>4. DOMAIN blocks = {} /\ Len(raw) = 0 /\ Len(out) = 0
  <2>1. Len(<<>>) = 0 /\ DOMAIN <<>> = {}
    BY EmptySeq
  <2>2. QED
    BY <1>1, <2>1
<1>5. Known(0)
  <2>1. Remembered(0)
    BY <1>4 DEF Remembered
  <2>2. NoGap(0)
    <3>1. 1..(0 - 1) = {} /\ 0..(0 - 1) = {}
      OBVIOUS
    <3>2. QED
      BY <3>1 DEF NoGap
  <2>3. Outputs(0)
    <3>1. 1..Len(out) = {}
      BY <1>4
    <3>2. QED
      BY <1>1, <1>4, <3>1 DEF Outputs, Ordered
  <2>4. QED
    BY <2>1, <2>2, <2>3 DEF Known
<1>6. Reading(0, FrameCells, 0, 0)
  <2>1. Behind(0, FrameCells, 0)
    <3>1. 0 = 0 + (FrameCells - FrameCells) /\ FrameCells + 1..FrameCells = {}
      BY <1>2
    <3>2. QED
      BY <1>4, <3>1 DEF Behind
  <2>2. Buffer(0, FrameCells, 0, 0)
    <3>1. 1..0 = {}
      OBVIOUS
    <3>2. QED
      BY <1>1, <2>1, <3>1 DEF Buffer
  <2>3. Position(0, FrameCells, 0)
    BY <1>1 DEF Position
  <2>4. Seen(0, 0)
    BY DEF Seen
  <2>5. QED
    BY <1>2, <2>2, <2>3, <2>4 DEF Reading
<1>7. QED
  BY <1>3, <1>5, <1>6 DEF OrderInv

LEMMA OrderStep ==
  ASSUME TypeInv, Framed, OrderInv, [Next]_vars
  PROVE  OrderInv'
<1>1. SUFFICES ASSUME Undamaged' PROVE \E g, p, r, t : Reading(g, p, r, t)' /\ Known(t)'
  BY DEF OrderInv
<1>2. /\ size \in Sizes /\ raw \in Seq(Cell) /\ faults \in Seq(FaultKind) /\ at \in Nat \ {0}
      /\ Content \in Nat \ {0}
  <2>1. size \in Sizes /\ raw \in Seq(Cell) /\ faults \in Seq(FaultKind) /\ at \in 1..Len(video) + 1
    BY DEF TypeInv, TypeOK, Sorts
  <2>2. video \in Seq(Frame)
    BY DEF TypeInv, Sorts
  <2>3. Len(video) \in Nat
    BY <2>2, LenProperties
  <2>4. QED
    BY <2>1, <2>3, ContentIs
<1>3. /\ size' = size /\ twins' = twins /\ overhead' = overhead
      /\ faults' = faults \/ \E kind \in FaultKind : faults' = Append(faults, kind) /\ Fault(kind)
  <2>1. CASE PushData \/ Finalize \/ PadVideo
    BY <2>1 DEF PushData, Finalize, PadVideo, Encoding
  <2>2. CASE Deliver \/ Lose \/ Repeat \/ Damage
    BY <2>2 DEF Deliver, Lose, Repeat, Damage, Fault, PushFrame, Sent, FaultKind
  <2>3. CASE Wait \/ TakeSymbol \/ Pop
    BY <2>3 DEF Wait, TakeSymbol, Pop, Decoding
  <2>4. CASE UNCHANGED vars
    BY <2>4 DEF vars
  <2>5. QED
    BY <2>1, <2>2, <2>3, <2>4 DEF Next
<1>4. Undamaged
  <2>1. twins = {}
    BY <1>1, <1>3 DEF Undamaged
  <2>2. CASE faults' = faults
    BY <1>1, <2>1, <2>2 DEF Undamaged
  <2>3. ASSUME NEW kind \in FaultKind, faults' = Append(faults, kind)
        PROVE  \A i \in 1..Len(faults) : faults[i] # "damaged"
    <3>1. TAKE i \in 1..Len(faults)
    <3>2. Len(faults) \in Nat /\ Len(faults') = Len(faults) + 1 /\ faults'[i] = faults[i]
      BY <1>2, <2>3, LenProperties
    <3>3. i \in 1..Len(faults')
      BY <3>2
    <3>4. QED
      BY <1>1, <3>2, <3>3 DEF Undamaged
  <2>4. QED
    BY <1>3, <2>1, <2>2, <2>3 DEF Undamaged
<1>5. ~Damage
  <2>1. SUFFICES ASSUME Damage PROVE FALSE
    OBVIOUS
  <2>2. faults' = Append(faults, "damaged")
    BY <2>1 DEF Damage, Fault
  <2>3. "damaged" \in FaultKind
    BY DEF FaultKind
  <2>4. Len(faults') = Len(faults) + 1 /\ faults'[Len(faults) + 1] = "damaged" /\ Len(faults) \in Nat
    BY <1>2, <2>2, <2>3, LenProperties
  <2>5. Len(faults) + 1 \in 1..Len(faults')
    BY <2>4
  <2>6. QED
    BY <1>1, <2>4, <2>5 DEF Undamaged
<1>6. PICK g, p, r, t : Reading(g, p, r, t) /\ Known(t)
  BY <1>4 DEF OrderInv
<1>7. /\ Content' = Content /\ \A j : Clamp(j)' = Clamp(j)
  BY <1>3, SameFrames
<1>8. ASSUME raw' = raw, blocks' = blocks, out' = out, (stage' = "decode") = (stage = "decode"),
             at' \in {at, at + 1}
      PROVE  Reading(g, p, r, t)' /\ Known(t)'
  <2>1. Clamp(at) <= Clamp(at)' /\ at' \in Nat \ {0}
    <3>1. Clamp(at)' = Clamp(at') /\ Clamp(at) \in 1..Content /\ Clamp(at) <= Clamp(at + 1)
      BY <1>2, <1>7, ClampIs DEF Clamp
    <3>2. QED
      BY <1>2, <1>8, <3>1
  <2>2. QED
    BY <1>2, <1>3, <1>6, <1>8, <2>1, SameReading, SameKnown
<1>9. CASE PushData \/ Finalize \/ PadVideo
  <2>1. /\ raw' = raw /\ blocks' = blocks /\ out' = out /\ at' = at
        /\ stage' # "decode" /\ stage # "decode"
    BY <1>9 DEF PushData, Finalize, PadVideo, Encoding
  <2>2. QED
    BY <1>8, <2>1
<1>10. CASE Lose \/ Pop
  <2>1. /\ raw' = raw /\ blocks' = blocks /\ out' = out /\ at' \in {at, at + 1}
        /\ stage' # "decode" /\ stage # "decode"
    BY <1>10 DEF Lose, Pop, Fault, Arriving, Sent, Decoding
  <2>2. QED
    BY <1>8, <2>1
<1>11. CASE UNCHANGED vars
  <2>1. /\ raw' = raw /\ blocks' = blocks /\ out' = out /\ at' = at /\ stage' = stage
    BY <1>11 DEF vars
  <2>2. QED
    BY <1>8, <2>1
<1>12. CASE Deliver \/ Repeat
  <2>1. /\ Arriving /\ PushFrame(video[at]) /\ at' \in {at, at + 1}
        /\ blocks' = blocks /\ out' = out
    BY <1>12 DEF Deliver, Repeat, Fault, PushFrame
  <2>2. at' \in Nat \ {0} /\ at <= at'
    BY <1>2, <2>1
  <2>3. \E f, l : Reading(f, 0, l, t)'
    BY <1>6, <2>1, <2>2, FrameRead
  <2>4. Known(t)'
    BY <1>3, <1>6, <2>1, SameKnown
  <2>5. QED
    BY <2>3, <2>4
<1>13. CASE Wait
  <2>1. \E l \in Nat : Reading(g, FrameCells, l, t)'
    BY <1>2, <1>4, <1>6, <1>13, WaitReads
  <2>2. blocks' = blocks /\ out' = out
    BY <1>13 DEF Wait
  <2>3. Known(t)'
    BY <1>3, <1>6, <2>2, SameKnown
  <2>4. QED
    BY <2>1, <2>3
<1>14. CASE TakeSymbol
  <2>1. \E q, u : Reading(g, q, 0, u)' /\ Known(u)'
    BY <1>4, <1>6, <1>14, TakeReads
  <2>2. QED
    BY <2>1
<1>15. QED
  BY <1>5, <1>9, <1>10, <1>11, <1>12, <1>13, <1>14 DEF Next

-----------------------------------------------------------------------------
(* Whole symbols and false markers among the cells w that arrived.         *)

At(w, i, b, s) ==
  /\ i + SymbolLen - 1 <= Len(w)
  /\ \A k \in 1..SymbolLen : w[i + k - 1] = Symbol(b, s)[k]
WholeAt(w, i) ==
  \E b \in 0..(BlocksOf(size) - 1), s \in 0..(Symbols - 1) : At(w, i, b, s)

\* Markers without their symbol, of those that the decoder can take for one.
Traps(w) ==
  {i \in 1..Len(w) : i + SymbolLen - 1 <= Len(w) /\ IsMagic(w[i]) /\ ~WholeAt(w, i)}
Come(w, b) == {s \in 0..(Symbols - 1) : \E i \in 1..Len(w) : At(w, i, b, s)}

LEMMA AtIs ==
  ASSUME wire \in Seq(Cell), NEW i \in 1..Len(wire), NEW b \in Nat, NEW s \in Nat
  PROVE  IsSymbolAt(i, b, s) <=> At(wire, i, b, s)
<1>1. /\ Symbol(b, s) \in Seq(Cell) /\ Len(Symbol(b, s)) = SymbolLen
      /\ SymbolLen \in Nat /\ SymbolLen > 2 /\ Len(wire) \in Nat /\ i \in Nat
  <2>1. Symbol(b, s) \in Seq(Cell) /\ Len(Symbol(b, s)) = SymbolLen
    BY SymbolCells
  <2>2. SymbolLen \in Nat /\ SymbolLen > 2
    BY Constants
  <2>3. Len(wire) \in Nat /\ i \in Nat
    OBVIOUS
  <2>4. QED
    BY <2>1, <2>2, <2>3
<1>2. CASE i + SymbolLen - 1 <= Len(wire)
  <2> DEFINE part == SubSeq(wire, i, i + SymbolLen - 1)
  <2>1. /\ part \in Seq(Cell) /\ Len(part) = SymbolLen
        /\ \A o \in 1..SymbolLen : part[o] = wire[(i - 1) + o]
    <3>1. i - 1 \in Nat /\ (i - 1) + SymbolLen <= Len(wire)
      BY <1>1, <1>2
    <3>2. /\ SubSeq(wire, (i - 1) + 1, (i - 1) + SymbolLen) \in Seq(Cell)
          /\ Len(SubSeq(wire, (i - 1) + 1, (i - 1) + SymbolLen)) = SymbolLen
          /\ \A o \in 1..SymbolLen :
               SubSeq(wire, (i - 1) + 1, (i - 1) + SymbolLen)[o] = wire[(i - 1) + o]
      BY <3>1, <1>1, Stretch
    <3>3. (i - 1) + 1 = i /\ (i - 1) + SymbolLen = i + SymbolLen - 1
      BY <1>1
    <3>4. QED
      BY <3>2, <3>3
  <2>2. \A o \in 1..SymbolLen : part[o] = wire[i + o - 1]
    <3>1. \A o \in 1..SymbolLen : (i - 1) + o = i + o - 1
      BY <1>1
    <3>2. QED
      BY <2>1, <3>1
  <2>3. ASSUME \A k \in 1..SymbolLen : part[k] = Symbol(b, s)[k]
        PROVE  part = Symbol(b, s)
    BY <2>1, <1>1, <2>3, SeqEqual
  <2>4. QED
    BY <1>2, <2>2, <2>3 DEF IsSymbolAt, At
<1>3. CASE ~(i + SymbolLen - 1 <= Len(wire))
  BY <1>3 DEF IsSymbolAt, At
<1>4. QED
  BY <1>2, <1>3

LEMMA AtCells ==
  ASSUME NEW w \in Seq(Cell), NEW i \in Nat, NEW b \in Nat, NEW s \in Nat, At(w, i, b, s)
  PROVE  /\ w[i] = Magic /\ w[i + 1] = Header(<<b, s>>) /\ w[i + 2] = Data(b, s, 1)
         /\ i + SymbolLen - 1 <= Len(w)
<1>1. SymbolLen \in Nat /\ SymbolLen > 2 /\ 1 \in 1..SymbolLen /\ 2 \in 1..SymbolLen /\ 3 \in 1..SymbolLen
  BY Constants
<1>2. \A k \in 1..SymbolLen : w[i + k - 1] = Symbol(b, s)[k]
  BY DEF At
<1>3. w[i + 1 - 1] = Symbol(b, s)[1] /\ w[i + 2 - 1] = Symbol(b, s)[2] /\ w[i + 3 - 1] = Symbol(b, s)[3]
  BY <1>1, <1>2
<1>4. i + 1 - 1 = i /\ i + 2 - 1 = i + 1 /\ i + 3 - 1 = i + 2
  OBVIOUS
<1>5. Symbol(b, s)[3] = Data(b, s, 1)
  BY <1>1 DEF Symbol
<1>8. i + SymbolLen - 1 <= Len(w)
  BY DEF At
<1>9. Symbol(b, s)[1] = Magic /\ Symbol(b, s)[2] = Header(<<b, s>>)
  BY SymbolCells
<1>10. QED
  BY <1>3, <1>4, <1>5, <1>8, <1>9

LEMMA AtInside ==
  ASSUME NEW w \in Seq(Cell), NEW i \in Nat, NEW b \in Nat, NEW s \in Nat, At(w, i, b, s)
  PROVE  \A k \in 2..SymbolLen : w[i + k - 1] # Magic
<1>1. SymbolLen \in Nat /\ SymbolLen > 2
  BY Constants
<1>6. \A k \in 2..SymbolLen : Symbol(b, s)[k] # Magic
  <2> TAKE k \in 2..SymbolLen
  <2>1. k \in 1..SymbolLen /\ k # 1
    BY <1>1
  <2>2. Symbol(b, s)[k] = IF k = 2 THEN Header(<<b, s>>) ELSE Data(b, s, k - 2)
    BY <2>1 DEF Symbol
  <2>3. Header(<<b, s>>)[1] = "id" /\ Magic[1] = "magic" /\ Pad[1] = "pad"
        /\ <<"data", b, s, k - 2>>[1] = "data"
    BY DEF Header, Magic, Pad
  <2>4. QED
    BY <2>2, <2>3 DEF Data
<1>7. \A k \in 2..SymbolLen : k \in 1..SymbolLen
  BY <1>1
<1>8. \A k \in 1..SymbolLen : w[i + k - 1] = Symbol(b, s)[k]
  BY DEF At
<1>9. QED
  BY <1>6, <1>7, <1>8

\* At one place stands one symbol, and no marker inside it.
LEMMA AtOne ==
  ASSUME NEW w \in Seq(Cell), NEW i \in Nat, NEW b \in Nat, NEW s \in Nat, NEW c \in Nat, NEW r \in Nat,
         At(w, i, b, s), At(w, i, c, r)
  PROVE  b = c /\ s = r
<1>1. w[i + 1] = Header(<<b, s>>)
  BY AtCells
<1>3. w[i + 1] = Header(<<c, r>>)
  BY AtCells
<1>2. QED
  BY <1>1, <1>3 DEF Header

LEMMA AtApart ==
  ASSUME NEW w \in Seq(Cell), NEW i \in Nat, NEW b \in Nat, NEW s \in Nat, At(w, i, b, s),
         NEW j \in Nat, i < j, w[j] = Magic
  PROVE  i + SymbolLen <= j
<1>1. \A k \in 2..SymbolLen : w[i + k - 1] # Magic
  BY AtInside
<1>5. SymbolLen \in Nat
  BY Constants
<1>2. SUFFICES ASSUME j < i + SymbolLen PROVE FALSE
  BY <1>5
<1>3. j - i + 1 \in 2..SymbolLen /\ i + (j - i + 1) - 1 = j
  BY <1>5, <1>2
<1>4. QED
  BY <1>1, <1>3

\* More cells leave what stands there.
Grows(w, v) ==
  /\ v \in Seq(Cell) /\ Len(w) \in Nat /\ Len(v) \in Nat /\ Len(w) <= Len(v)
  /\ \A i \in 1..Len(w) : v[i] = w[i]
  /\ \A i \in Nat \ {0}, b \in Nat, s \in Nat :
       i + SymbolLen - 1 <= Len(w) => (At(w, i, b, s) <=> At(v, i, b, s))
  /\ \A i \in Nat \ {0}, b \in Nat, s \in Nat : At(w, i, b, s) => At(v, i, b, s)
  /\ Traps(w) \subseteq Traps(v)
  /\ \A b \in Nat : Come(w, b) \subseteq Come(v, b)

LEMMA Grown ==
  ASSUME NEW w \in Seq(Cell), NEW c \in Seq(Cell)
  PROVE  Grows(w, w \o c)
<1> DEFINE v == w \o c
<1>1. /\ v \in Seq(Cell) /\ Len(v) = Len(w) + Len(c) /\ Len(w) \in Nat /\ Len(c) \in Nat
      /\ \A i \in 1..Len(w) : v[i] = w[i]
  BY ConcatProperties
<1>2. SymbolLen \in Nat /\ SymbolLen > 2
  BY Constants
<1>3. ASSUME NEW i \in Nat \ {0}, NEW b \in Nat, NEW s \in Nat, i + SymbolLen - 1 <= Len(w)
      PROVE  At(w, i, b, s) <=> At(v, i, b, s)
  <2>1. \A k \in 1..SymbolLen : i + k - 1 \in 1..Len(w)
    BY <1>1, <1>2, <1>3
  <2>2. i + SymbolLen - 1 <= Len(v)
    BY <1>1, <1>2, <1>3
  <2>3. QED
    BY <1>1, <1>3, <2>1, <2>2 DEF At
<1>4. \A i \in Nat \ {0}, b \in Nat, s \in Nat : At(w, i, b, s) => At(v, i, b, s)
  BY <1>3 DEF At
<1>5. \A i \in 1..Len(w) : i \in Nat \ {0} /\ i \in 1..Len(v)
  BY <1>1
<1>6. Traps(w) \subseteq Traps(v)
  <2> SUFFICES ASSUME NEW i \in Traps(w) PROVE i \in Traps(v)
    OBVIOUS
  <2>1. i \in 1..Len(w) /\ i + SymbolLen - 1 <= Len(w) /\ IsMagic(w[i]) /\ ~WholeAt(w, i)
    BY DEF Traps
  <2>2. i \in 1..Len(v) /\ v[i] = w[i] /\ i + SymbolLen - 1 <= Len(v) /\ i \in Nat \ {0}
    BY <2>1, <1>1, <1>2, <1>5
  <2>3. \A b \in 0..(BlocksOf(size) - 1), s \in 0..(Symbols - 1) : b \in Nat /\ s \in Nat
    OBVIOUS
  <2>4. ~WholeAt(v, i)
    BY <2>1, <2>2, <2>3, <1>3 DEF WholeAt
  <2>5. QED
    BY <2>1, <2>2, <2>4 DEF Traps
<1>7. \A b \in Nat : Come(w, b) \subseteq Come(v, b)
  <2> TAKE b \in Nat
  <2>1. \A s \in 0..(Symbols - 1) : s \in Nat
    OBVIOUS
  <2>2. QED
    BY <1>4, <1>5, <2>1 DEF Come
<1>8. Len(w) <= Len(v) /\ Len(v) \in Nat
  BY <1>1
<1>9. QED
  BY <1>1, <1>3, <1>4, <1>6, <1>7, <1>8 DEF Grows

-----------------------------------------------------------------------------
(* Where a cell of a frame stands in the stream.                           *)

\* What stands at a place of a frame, by the kind of the cell.
Standing(c, o, x) ==
  /\ \A b \in Nat, s \in 0..(Symbols - 1) :
       FrameCell(c, o) = Header(<<b, s>>) => x = Number(b, s) * SymbolLen + 2
  /\ \A b \in Nat, s \in 0..(Symbols - 1) :
       FrameCell(c, o) = <<"data", b, s, 1>> => x = Number(b, s) * SymbolLen + 3
  /\ FrameCell(c, o) = Pad =>
       x >= ((BlocksOf(size) - 1) * Symbols) * SymbolLen + 3

LEMMA ShardLength ==
  ASSUME size \in Sizes
  PROVE  /\ (BlocksOf(size) - 1) * Source \in Nat /\ (BlocksOf(size) - 1) * Source < size
         /\ size \in Nat
<1>1. size \in Nat \ {0} /\ BlocksOf(size) \in Nat \ {0}
  BY LastBlock
<1> DEFINE t == size + Source - 1
<1>2. t \in Nat /\ Source \in Nat \ {0}
  BY <1>1, Constants
<1>3. /\ t \div Source \in Nat /\ t % Source \in Nat
      /\ t = (t \div Source) * Source + (t % Source)
  BY <1>2, Division
<1>4. PICK n : n = t \div Source
  OBVIOUS
<1>5. n = BlocksOf(size) /\ n \in Nat \ {0} /\ t = n * Source + (t % Source)
  BY <1>1, <1>3, <1>4 DEF BlocksOf
<1>6. (n - 1) * Source = n * Source - Source /\ (n - 1) * Source \in Nat /\ n * Source \in Nat
  <2>1. n - 1 \in Nat /\ n \in Nat
    BY <1>5
  <2>2. (n - 1) * Source \in Nat /\ n * Source \in Nat
    BY <1>2, <2>1, Product
  <2>3. (n - 1) * Source = n * Source - Source
    BY <1>2, <2>1
  <2>4. QED
    BY <2>2, <2>3
<1>7. QED
  BY <1>1, <1>2, <1>3, <1>5, <1>6

\* Zeros are data of the last block only.
LEMMA PadIsLast ==
  ASSUME size \in Sizes, NEW b \in Nat, NEW s \in 0..(Symbols - 1), NEW k, Data(b, s, k) = Pad
  PROVE  BlocksOf(size) - 1 <= b
<1>1. <<"data", b, s, k>>[1] = "data" /\ Pad[1] = "pad"
  BY DEF Pad
<1>2. s < Source /\ b * Source + s >= size
  BY <1>1 DEF Data
<1>3. SUFFICES ASSUME b < BlocksOf(size) - 1 PROVE FALSE
  BY LastBlock
<1>4. BlocksOf(size) - 1 \in Nat /\ Source \in Nat /\ s \in Nat
  BY LastBlock, Constants
<1>5. b * Source + Source <= (BlocksOf(size) - 1) * Source
  BY <1>3, <1>4, ProductGrows
<1>6. b * Source \in Nat
  BY <1>4, Product
<1>7. QED
  BY <1>2, <1>4, <1>5, <1>6, ShardLength

LEMMA StandingIs ==
  ASSUME size \in Sizes, NEW c \in 1..Content, NEW o \in 1..FrameCells
  PROVE  Standing(c, o, (c - 1) * FrameCells + o)
<1> DEFINE x == (c - 1) * FrameCells + o
<1> DEFINE z == ((BlocksOf(size) - 1) * Symbols) * SymbolLen
<1>1. /\ SymbolLen \in Nat /\ SymbolLen > 2 /\ Symbols \in Nat \ {0}
      /\ BlocksOf(size) - 1 \in Nat /\ BlocksOf(size) \in Nat \ {0}
  BY Constants, LastBlock
<1>2. z \in Nat /\ (BlocksOf(size) - 1) * Symbols \in Nat
  BY <1>1, Product
<1>3. x \in Nat
  BY FrameCellIs
<1>4. Header(<<0, 0>>)[1] = "id" /\ Pad[1] = "pad" /\ Magic[1] = "magic"
      /\ \A b, s : Header(<<b, s>>)[1] = "id" /\ <<"data", b, s, 1>>[1] = "data"
  BY DEF Header, Pad, Magic
<1>5. CASE x > Total /\ FrameCell(c, o) = Pad
  <2>1. Total >= z + 3
    <3>1. Total = (BlocksOf(size) * Symbols) * SymbolLen
      <4>1. Total = BlocksOf(size) * (Symbols * SymbolLen)
        BY Lengths DEF Total
      <4>2. QED
        BY <1>1, <4>1
    <3>2. (BlocksOf(size) - 1) * Symbols + Symbols <= BlocksOf(size) * Symbols
      BY <1>1, ProductGrows
    <3>3. PICK u, v : u = (BlocksOf(size) - 1) * Symbols /\ v = BlocksOf(size) * Symbols
      OBVIOUS
    <3>4. u \in Nat /\ v \in Nat /\ u < v
      BY <1>1, <1>2, <3>2, <3>3, Product
    <3>5. u * SymbolLen + SymbolLen <= v * SymbolLen
      BY <1>1, <3>4, ProductGrows
    <3>6. u * SymbolLen \in Nat /\ v * SymbolLen \in Nat
      BY <1>1, <3>4, Product
    <3>7. QED
      BY <1>1, <3>1, <3>3, <3>5, <3>6
  <2>2. Total \in Nat
    BY ContentIs
  <2>3. x >= z + 3
    BY <1>2, <1>3, <1>5, <2>1, <2>2
  <2>4. QED
    BY <1>4, <1>5, <2>3 DEF Standing
<1>6. ASSUME NEW n \in Numbers, NEW k \in 1..SymbolLen, x = n * SymbolLen + k,
             FrameCell(c, o) = Nth(n)[k]
      PROVE  Standing(c, o, x)
  <2>1. PICK d, e : d = n \div Symbols /\ e = n % Symbols
    OBVIOUS
  <2>2. d \in Nat /\ e \in 0..(Symbols - 1) /\ Number(d, e) = n /\ n \in Nat
    BY <1>6, <2>1, IdNumber, NumbersAre
  <2>3. FrameCell(c, o) = IF k = 1 THEN Magic ELSE IF k = 2 THEN Header(<<d, e>>) ELSE Data(d, e, k - 2)
    BY <1>6, <2>1 DEF Nth, Symbol
  <2>4. Data(d, e, k - 2) = Pad \/ Data(d, e, k - 2) = <<"data", d, e, k - 2>>
    BY DEF Data
  <2>5. <<"data", d, e, k - 2>>[1] = "data"
    OBVIOUS
  <2>6. ASSUME NEW b \in Nat, NEW s \in 0..(Symbols - 1), FrameCell(c, o) = Header(<<b, s>>)
        PROVE  x = Number(b, s) * SymbolLen + 2
    <3>1. k = 2 /\ Header(<<b, s>>) = Header(<<d, e>>)
      BY <1>4, <2>3, <2>4, <2>5, <2>6
    <3>2. b = d /\ s = e
      BY <3>1 DEF Header
    <3>3. QED
      BY <1>6, <2>2, <3>1, <3>2
  <2>7. ASSUME NEW b \in Nat, NEW s \in 0..(Symbols - 1), FrameCell(c, o) = <<"data", b, s, 1>>
        PROVE  x = Number(b, s) * SymbolLen + 3
    <3>1. k # 1 /\ k # 2 /\ <<"data", b, s, 1>> = <<"data", d, e, k - 2>>
      BY <1>4, <2>3, <2>4, <2>7
    <3>2. b = d /\ s = e /\ k = 3
      BY <1>1, <3>1
    <3>3. QED
      BY <1>6, <2>2, <3>2
  <2>8. ASSUME FrameCell(c, o) = Pad PROVE x >= z + 3
    <3>1. k # 1 /\ k # 2 /\ Data(d, e, k - 2) = Pad
      BY <1>4, <2>3, <2>8
    <3>2. BlocksOf(size) - 1 <= d
      BY <2>2, <3>1, PadIsLast
    <3>3. (BlocksOf(size) - 1) * Symbols <= n
      <4>1. CASE BlocksOf(size) - 1 = d
        <5>1. d * Symbols \in Nat /\ n = d * Symbols + e /\ e \in Nat
          BY <1>1, <2>2, Product DEF Number
        <5>2. QED
          BY <4>1, <5>1
      <4>2. CASE BlocksOf(size) - 1 < d
        <5>1. 0 \in 0..(Symbols - 1)
          BY <1>1
        <5>2. Number(BlocksOf(size) - 1, 0) < d * Symbols /\ d * Symbols <= Number(d, e)
          BY <1>1, <2>2, <4>2, <5>1, NumberOrder
        <5>3. Number(BlocksOf(size) - 1, 0) = (BlocksOf(size) - 1) * Symbols /\ d * Symbols \in Nat
          BY <1>1, <1>2, <2>2, Product DEF Number
        <5>4. QED
          BY <1>2, <2>2, <5>2, <5>3
      <4>3. QED
        BY <1>1, <2>2, <3>2, <4>1, <4>2
    <3>4. PICK u : u = (BlocksOf(size) - 1) * Symbols
      OBVIOUS
    <3>5. u \in Nat /\ u <= n /\ z = u * SymbolLen
      BY <1>2, <3>3, <3>4
    <3>6. u * SymbolLen <= n * SymbolLen /\ n * SymbolLen \in Nat
      <4>1. u * SymbolLen \in Nat /\ n * SymbolLen \in Nat
        BY <1>1, <2>2, <3>5, Product
      <4>2. u < n => u * SymbolLen + SymbolLen <= n * SymbolLen
        BY <1>1, <2>2, <3>5, ProductGrows
      <4>3. QED
        BY <1>1, <2>2, <3>5, <4>1, <4>2
    <3>7. k >= 3
      BY <1>1, <3>1
    <3>8. QED
      BY <1>2, <1>6, <3>5, <3>6, <3>7
  <2>9. QED
    BY <2>6, <2>7, <2>8 DEF Standing
<1>7. QED
  BY <1>5, <1>6, FrameCellIs

-----------------------------------------------------------------------------
(* Where the cells that arrived come from: frames of the video, in order,  *)
(* some more than once; a damaged frame does not come again.               *)

Damaged(c) == c[1] \notin {"data", "pad"}

\* The cells w are those of the frames src, and frame a is the next to come.
Carried(w, src, a) ==
  /\ src \in Seq(Nat \ {0}) /\ Len(w) = Len(src) * FrameCells
  /\ \A k \in 1..Len(src) : src[k] <= a
  /\ \A k, l \in 1..Len(src) : k <= l => src[k] <= src[l]
  /\ \A k \in 1..Len(src), o \in 1..FrameCells :
       \/ w[(k - 1) * FrameCells + o] = FrameCell(Clamp(src[k]), o)
       \/ /\ Damaged(w[(k - 1) * FrameCells + o]) /\ src[k] < a
          /\ \A l \in k + 1..Len(src) : src[k] < src[l]
History(w, a) == \E src : Carried(w, src, a)

LEMMA PlaceIn ==
  ASSUME NEW n \in Nat, NEW i \in Nat \ {0}, i <= n * FrameCells
  PROVE  \E k \in 1..n, o \in 1..FrameCells :
           i = (k - 1) * FrameCells + o /\ (k - 1) * FrameCells \in Nat
<1>1. FrameCells \in Nat \ {0} /\ i - 1 \in Nat
  BY Constants
<1>2. PICK d, e : d = (i - 1) \div FrameCells /\ e = (i - 1) % FrameCells
  OBVIOUS
<1>3. d \in Nat /\ e \in Nat /\ e < FrameCells /\ i - 1 = d * FrameCells + e
  BY <1>1, <1>2, Division
<1>4. d * FrameCells \in Nat /\ n * FrameCells \in Nat
  BY <1>1, <1>3, Product
<1>5. d < n
  <2>1. SUFFICES ASSUME n <= d PROVE FALSE
    BY <1>3
  <2>2. n < d => n * FrameCells + FrameCells <= d * FrameCells
    BY <1>1, <1>3, ProductGrows
  <2>3. QED
    BY <1>1, <1>3, <1>4, <2>1, <2>2
<1>6. d + 1 \in 1..n /\ e + 1 \in 1..FrameCells /\ (d + 1) - 1 = d
  BY <1>1, <1>3, <1>5
<1>7. i = d * FrameCells + (e + 1)
  BY <1>3, <1>4
<1>8. QED
  BY <1>4, <1>6, <1>7

\* Earlier frames stand earlier.
LEMMA PlaceOrder ==
  ASSUME NEW k \in Nat \ {0}, NEW l \in Nat \ {0},
         NEW o \in 1..FrameCells, NEW q \in 1..FrameCells,
         (k - 1) * FrameCells + o < (l - 1) * FrameCells + q
  PROVE  k <= l
<1>1. FrameCells \in Nat \ {0} /\ k - 1 \in Nat /\ l - 1 \in Nat
  BY Constants
<1>2. (k - 1) * FrameCells \in Nat /\ (l - 1) * FrameCells \in Nat
  BY <1>1, Product
<1>3. l - 1 < k - 1 => (l - 1) * FrameCells + FrameCells <= (k - 1) * FrameCells
  BY <1>1, ProductGrows
<1>4. QED
  BY <1>1, <1>2, <1>3

LEMMA ClampOrder ==
  ASSUME size \in Sizes, NEW j \in Nat \ {0}, NEW m \in Nat \ {0}, j <= m
  PROVE  /\ Clamp(j) \in 1..Content /\ Clamp(m) \in 1..Content /\ Clamp(j) <= Clamp(m)
         /\ Clamp(j) = Clamp(m) /\ Clamp(j) < Content => j = m
<1>1. Content \in Nat \ {0}
  BY ContentIs
<1>2. QED
  BY <1>1 DEF Clamp

\* Only cells of the last block stand in the last frame.
LEMMA LastFrame ==
  ASSUME size \in Sizes, NEW n \in Nat, n < (BlocksOf(size) - 1) * Symbols,
         NEW q \in 1..FrameCells, NEW f \in 1..Content,
         (f - 1) * FrameCells + q = n * SymbolLen + 3
  PROVE  f < Content
<1>1. /\ FrameCells \in Nat \ {0} /\ SymbolLen \in Nat /\ SymbolLen > 2 /\ Symbols \in Nat
      /\ BlocksOf(size) \in Nat \ {0} /\ BlockLen \in Nat /\ FrameCells <= BlockLen
      /\ BlockLen = Symbols * SymbolLen
  BY Constants, LastBlock, Lengths
<1>2. /\ (Content - 1) * FrameCells \in Nat /\ Total \in Nat /\ Content \in Nat \ {0}
      /\ Total <= (Content - 1) * FrameCells + FrameCells
  BY ContentIs
<1>3. SUFFICES ASSUME f = Content PROVE FALSE
  BY <1>2
<1>4. PICK u, x, y : u = (BlocksOf(size) - 1) * Symbols /\ x = n * SymbolLen /\ y = u * SymbolLen
  OBVIOUS
<1>5. u \in Nat /\ x \in Nat /\ y \in Nat /\ x + SymbolLen <= y
  <2>1. u \in Nat
    BY <1>1, <1>4, Product
  <2>2. n * SymbolLen + SymbolLen <= u * SymbolLen
    BY <1>1, <1>4, <2>1, ProductGrows
  <2>3. n * SymbolLen \in Nat /\ u * SymbolLen \in Nat
    BY <1>1, <2>1, Product
  <2>4. QED
    BY <1>4, <2>1, <2>2, <2>3
<1>6. y = (BlocksOf(size) - 1) * BlockLen
  BY <1>1, <1>4
<1>7. y + BlockLen <= Total
  BY <1>1, <1>6, ProductGrows DEF Total
<1>8. QED
  BY <1>1, <1>2, <1>3, <1>4, <1>5, <1>7

LEMMA EarlierNumbers ==
  ASSUME NEW y \in Nat, NEW b \in Nat, y < b, NEW s \in 0..(Symbols - 1), NEW r \in 0..(Symbols - 1)
  PROVE  /\ Number(y, r) \in Nat /\ Number(y, r) * SymbolLen \in Nat
         /\ b * Symbols \in Nat /\ (b * Symbols) * SymbolLen \in Nat
         /\ Number(y, r) < b * Symbols
         /\ Number(y, r) * SymbolLen + SymbolLen <= (b * Symbols) * SymbolLen
         /\ Number(b, s) * SymbolLen \in Nat
         /\ (b * Symbols) * SymbolLen <= Number(b, s) * SymbolLen
         /\ r <= s => Number(y, r) * SymbolLen + Symbols * SymbolLen <= Number(b, s) * SymbolLen
<1>1. SymbolLen \in Nat /\ Symbols \in Nat \ {0} /\ s \in Nat /\ r \in Nat
  BY Constants
<1>2. PICK m, n, u : m = Number(y, r) /\ n = Number(b, s) /\ u = b * Symbols
  OBVIOUS
<1>3. m \in Nat /\ n \in Nat /\ u \in Nat /\ m < u /\ u <= n
  BY <1>2, NumberOrder, NumberIs
<1>4. m * SymbolLen + SymbolLen <= u * SymbolLen
  BY <1>1, <1>3, ProductGrows
<1>5. m * SymbolLen \in Nat /\ n * SymbolLen \in Nat /\ u * SymbolLen \in Nat
  BY <1>1, <1>3, Product
<1>6. u < n => u * SymbolLen + SymbolLen <= n * SymbolLen
  BY <1>1, <1>3, ProductGrows
<1>7. u * SymbolLen <= n * SymbolLen
  BY <1>1, <1>3, <1>5, <1>6
<1>8. ASSUME r <= s PROVE m * SymbolLen + Symbols * SymbolLen <= n * SymbolLen
  <2>1. y * Symbols + Symbols <= b * Symbols /\ y * Symbols \in Nat
    BY <1>1, ProductGrows, Product
  <2>2. m + Symbols <= n
    BY <1>1, <1>2, <1>8, <2>1, <1>3 DEF Number
  <2>3. PICK v : v = m + Symbols
    OBVIOUS
  <2>4. v \in Nat /\ v <= n /\ v * SymbolLen = m * SymbolLen + Symbols * SymbolLen
    BY <1>1, <1>3, <2>2, <2>3
  <2>5. v < n => v * SymbolLen + SymbolLen <= n * SymbolLen
    BY <1>1, <1>3, <2>4, ProductGrows
  <2>6. v * SymbolLen \in Nat
    BY <1>1, <2>4, Product
  <2>7. v * SymbolLen <= n * SymbolLen
    BY <1>1, <1>3, <1>5, <2>4, <2>5, <2>6
  <2>8. QED
    BY <2>4, <2>7
<1>9. QED
  BY <1>2, <1>3, <1>4, <1>5, <1>7, <1>8

\* Where the third cell of a symbol stands: in what frame that arrived, and
\* behind the blocks before its own.
LEMMA ThirdCell ==
  ASSUME size \in Sizes, NEW w \in Seq(Cell), NEW src, NEW a, Carried(w, src, a),
         NEW b \in 0..(BlocksOf(size) - 1), NEW s \in 0..(Symbols - 1), NEW i \in Nat \ {0},
         At(w, i, b, s)
  PROVE  \E k \in 1..Len(src), o \in 1..FrameCells :
           /\ i + 2 = (k - 1) * FrameCells + o /\ (k - 1) * FrameCells \in Nat
           /\ src[k] \in Nat \ {0} /\ Clamp(src[k]) \in 1..Content
           /\ FrameCell(Clamp(src[k]), o) = Data(b, s, 1)
           /\ (b * Symbols) * SymbolLen + 3 <= (Clamp(src[k]) - 1) * FrameCells + o
           /\ b < BlocksOf(size) - 1 =>
                (Clamp(src[k]) - 1) * FrameCells + o = Number(b, s) * SymbolLen + 3
<1>1. /\ SymbolLen \in Nat /\ SymbolLen > 2 /\ src \in Seq(Nat \ {0}) /\ Len(src) \in Nat
      /\ Len(w) = Len(src) * FrameCells /\ b \in Nat /\ s \in Nat
  BY Constants DEF Carried
<1>2. w[i + 2] = Data(b, s, 1) /\ i + SymbolLen - 1 <= Len(w)
  BY <1>1, AtCells
<1>3. Len(w) \in Nat /\ i + 2 \in Nat \ {0} /\ i + 2 <= Len(src) * FrameCells
  BY <1>1, <1>2
<1>4. PICK k \in 1..Len(src), o \in 1..FrameCells :
        i + 2 = (k - 1) * FrameCells + o /\ (k - 1) * FrameCells \in Nat
  BY <1>1, <1>3, PlaceIn
<1>5. src[k] \in Nat \ {0}
  BY <1>1
<1>6. Clamp(src[k]) \in 1..Content
  BY <1>5, ClampIs
<1>7. ~Damaged(Data(b, s, 1))
  <2>1. Pad[1] = "pad" /\ <<"data", b, s, 1>>[1] = "data"
    BY DEF Pad
  <2>2. QED
    BY <2>1 DEF Data, Damaged
<1>8. FrameCell(Clamp(src[k]), o) = Data(b, s, 1)
  BY <1>2, <1>4, <1>7 DEF Carried
<1> DEFINE x == (Clamp(src[k]) - 1) * FrameCells + o
<1>9. Standing(Clamp(src[k]), o, x)
  BY <1>6, StandingIs
<1>10. Data(b, s, 1) = Pad \/ Data(b, s, 1) = <<"data", b, s, 1>>
  BY DEF Data
<1>11. <<"data", b, s, 1>> = FrameCell(Clamp(src[k]), o) => x = Number(b, s) * SymbolLen + 3
  BY <1>1, <1>9 DEF Standing
<1>12. /\ Number(b, s) * SymbolLen \in Nat /\ (b * Symbols) * SymbolLen \in Nat
       /\ (b * Symbols) * SymbolLen <= Number(b, s) * SymbolLen
  <2>1. PICK u, n : u = b * Symbols /\ n = Number(b, s)
    OBVIOUS
  <2>2. u \in Nat /\ n \in Nat /\ u <= n
    <3>1. b * Symbols \in Nat
      BY <1>1, Constants, Product
    <3>2. QED
      BY <1>1, <2>1, <3>1, SMTT(30) DEF Number
  <2>3. u * SymbolLen \in Nat /\ n * SymbolLen \in Nat
    BY <1>1, <2>2, Product
  <2>4. u < n => u * SymbolLen + SymbolLen <= n * SymbolLen
    BY <1>1, <2>2, ProductGrows
  <2>5. QED
    BY <1>1, <2>1, <2>2, <2>3, <2>4, SMTT(30)
<1>13. CASE Data(b, s, 1) = <<"data", b, s, 1>>
  <2>1. x = Number(b, s) * SymbolLen + 3
    BY <1>8, <1>11, <1>13
  <2>2. (b * Symbols) * SymbolLen + 3 <= x
    BY <1>12, <2>1
  <2>3. QED
    BY <1>4, <1>5, <1>6, <1>8, <2>1, <2>2, Zenon
<1>14. CASE Data(b, s, 1) = Pad
  <2>1. BlocksOf(size) - 1 <= b
    BY <1>1, <1>14, PadIsLast
  <2>2. b = BlocksOf(size) - 1 /\ ~(b < BlocksOf(size) - 1)
    <3>1. BlocksOf(size) \in Nat
      BY LastBlock
    <3>2. QED
      BY <2>1, <3>1
  <2>3. x >= ((BlocksOf(size) - 1) * Symbols) * SymbolLen + 3
    BY <1>8, <1>9, <1>14 DEF Standing
  <2>4. (b * Symbols) * SymbolLen + 3 <= x
    BY <2>2, <2>3, <1>12
  <2>5. QED
    BY <1>4, <1>5, <1>6, <1>8, <2>2, <2>4, Zenon
<1>15. QED
  BY <1>10, <1>13, <1>14

\* When a symbol arrives behind one of a later block it is for the second time,
\* and its number is the greater one: both stand in one frame.
Earlier(w, i, y, r) == \E h \in Nat \ {0} : h + SymbolLen <= i /\ At(w, h, y, r)

LEMMA SecondTime ==
  ASSUME size \in Sizes, NEW w \in Seq(Cell), NEW a, History(w, a),
         NEW b \in 0..(BlocksOf(size) - 1), NEW s \in 0..(Symbols - 1),
         NEW y \in 0..(BlocksOf(size) - 1), NEW r \in 0..(Symbols - 1), y < b,
         NEW i \in Nat \ {0}, NEW j \in Nat \ {0}, i < j, At(w, i, b, s), At(w, j, y, r)
  PROVE  s < r /\ Earlier(w, i, y, r)
<1>1. PICK src : Carried(w, src, a)
  BY DEF History
<1>2. /\ SymbolLen \in Nat /\ SymbolLen > 2 /\ FrameCells \in Nat \ {0} /\ Symbols \in Nat \ {0}
      /\ BlocksOf(size) \in Nat \ {0} /\ b \in Nat /\ y \in Nat /\ s \in Nat /\ r \in Nat
      /\ y < BlocksOf(size) - 1
  BY Constants, LastBlock, SMTT(30)
<1>3. PICK k \in 1..Len(src), o \in 1..FrameCells :
        /\ i + 2 = (k - 1) * FrameCells + o /\ (k - 1) * FrameCells \in Nat
        /\ src[k] \in Nat \ {0} /\ Clamp(src[k]) \in 1..Content
        /\ (b * Symbols) * SymbolLen + 3 <= (Clamp(src[k]) - 1) * FrameCells + o
  BY <1>1, ThirdCell, SMTT(30)
<1>4. PICK l \in 1..Len(src), q \in 1..FrameCells :
        /\ j + 2 = (l - 1) * FrameCells + q /\ (l - 1) * FrameCells \in Nat
        /\ src[l] \in Nat \ {0} /\ Clamp(src[l]) \in 1..Content
        /\ (Clamp(src[l]) - 1) * FrameCells + q = Number(y, r) * SymbolLen + 3
  BY <1>1, <1>2, ThirdCell
<1>5. PICK g, f : g = Clamp(src[k]) /\ f = Clamp(src[l])
  OBVIOUS
<1>6. k \in Nat \ {0} /\ l \in Nat \ {0} /\ Len(src) \in Nat /\ o \in Nat \ {0} /\ q \in Nat \ {0}
  BY <1>1, SMTT(30) DEF Carried
<1>7. k <= l
  <2>1. (k - 1) * FrameCells + o < (l - 1) * FrameCells + q
    BY <1>3, <1>4, <1>6
  <2>2. QED
    BY <1>6, <2>1, PlaceOrder
<1>8. src[k] <= src[l]
  BY <1>1, <1>7 DEF Carried
<1>9. g <= f /\ (g = f /\ g < Content => src[k] = src[l])
  BY <1>3, <1>4, <1>5, <1>8, ClampOrder
<1>10. g \in Nat \ {0} /\ f \in Nat \ {0} /\ g \in 1..Content /\ f \in 1..Content
  <2>1. g \in 1..Content /\ f \in 1..Content
    BY <1>3, <1>4, <1>5
  <2>2. Content \in Nat
    BY ContentIs
  <2>3. QED
    BY <2>1, <2>2
<1>29. PICK kt, lt : kt = (k - 1) * FrameCells /\ lt = (l - 1) * FrameCells
  OBVIOUS
<1>30. /\ kt \in Nat /\ lt \in Nat /\ i + 2 = kt + o /\ j + 2 = lt + q
       /\ src[k] \in Nat /\ src[l] \in Nat
  BY <1>3, <1>4, <1>29
<1>11. PICK m, n, x, z, u :
         /\ m = Number(y, r) /\ n = Number(b, s) /\ x = m * SymbolLen
         /\ z = (b * Symbols) * SymbolLen /\ u = n * SymbolLen
  OBVIOUS
<1>12. /\ m \in Nat /\ x \in Nat /\ z \in Nat /\ u \in Nat /\ x + SymbolLen <= z /\ z <= u
       /\ r <= s => x + Symbols * SymbolLen <= u
  BY <1>2, <1>11, EarlierNumbers
<1>13. PICK t : t = (g - 1) * FrameCells
  OBVIOUS
<1>14. t \in Nat
  BY <1>2, <1>10, <1>13, Product
<1>15. z + 3 <= t + o
  BY <1>3, <1>5, <1>11, <1>13
<1>16. g = f
  <2>1. SUFFICES ASSUME g < f PROVE FALSE
    BY <1>9, <1>10
  <2>2. PICK v : v = (f - 1) * FrameCells
    OBVIOUS
  <2>3. v \in Nat /\ t + FrameCells <= v
    BY <1>2, <1>10, <1>13, <2>1, <2>2, ProductGrows, Product
  <2>4. v + q = x + 3
    BY <1>4, <1>5, <1>11, <2>2
  <2>5. x + 3 <= t + o
    BY <1>2, <1>12, <1>14, <1>15, <1>6
  <2>6. QED
    BY <1>2, <1>6, <1>12, <1>14, <2>3, <2>4, <2>5
<1>17. t + q = x + 3
  BY <1>4, <1>5, <1>11, <1>13, <1>16
<1>18. q + SymbolLen <= o
  BY <1>2, <1>6, <1>12, <1>14, <1>15, <1>17
<1>19. g < Content
  <2>1. m < (BlocksOf(size) - 1) * Symbols
    <3>1. PICK c : c = BlocksOf(size) - 1
      OBVIOUS
    <3>2. c \in Nat /\ y < c /\ 0 \in 0..(Symbols - 1)
      BY <1>2, <3>1, SMTT(30)
    <3>3. Number(y, r) < c * Symbols
      BY <1>2, <3>2, EarlierNumbers
    <3>4. QED
      BY <1>11, <3>1, <3>3
  <2>2. QED
    BY <1>10, <1>11, <1>12, <1>13, <1>16, <1>17, <2>1, LastFrame
<1>20. src[k] = src[l]
  BY <1>9, <1>16, <1>19
\* The frames between them are this one, and none is damaged but the last.
<1>21. ASSUME NEW e \in 1..Len(src), k <= e, e < l, NEW c \in 1..FrameCells
       PROVE  w[(e - 1) * FrameCells + c] = FrameCell(g, c)
  <2>1. src[k] <= src[e] /\ src[e] <= src[l]
    BY <1>1, <1>21, SMTT(30) DEF Carried
  <2>2. src[e] \in Nat
    BY <1>1, <1>21, SMTT(30) DEF Carried
  <2>3. src[e] = src[l] /\ ~(src[e] < src[l])
    <3>1. \A c1, c2, c3 \in Nat : c1 <= c2 /\ c2 <= c3 /\ c1 = c3 => c2 = c3 /\ ~(c2 < c3)
      OBVIOUS
    <3>2. QED
      BY <1>20, <1>30, <2>1, <2>2, <3>1, Zenon
  <2>4. l \in e + 1..Len(src)
    BY <1>6, <1>21
  <2>5. w[(e - 1) * FrameCells + c] = FrameCell(Clamp(src[e]), c)
    BY <1>1, <1>21, <2>3, <2>4 DEF Carried
  <2>6. QED
    BY <1>5, <1>16, <2>3, <2>5
<1>22. k < l
  <2>1. SUFFICES ASSUME k = l PROVE FALSE
    BY <1>6, <1>7
  <2>2. QED
    BY <1>2, <1>3, <1>4, <1>6, <1>18, <2>1
<1>23. \A c \in 1..FrameCells : w[(k - 1) * FrameCells + c] = FrameCell(g, c)
  BY <1>6, <1>21, <1>22, SMTT(30)
<1>24. Standing(g, FrameCells, t + FrameCells) /\ \A c \in 1..FrameCells : Standing(g, c, t + c)
  BY <1>2, <1>10, <1>13, StandingIs, SMTT(30)
<1>25. q >= 3
  <2>1. CASE q = 1
    <3>1. l - 1 \in 1..Len(src) /\ k <= l - 1 /\ l - 1 < l /\ FrameCells \in 1..FrameCells
      BY <1>2, <1>6, <1>22
    <3>2. w[((l - 1) - 1) * FrameCells + FrameCells] = FrameCell(g, FrameCells)
      BY <1>21, <3>1
    <3>3. ((l - 1) - 1) * FrameCells + FrameCells = (l - 1) * FrameCells
      <4>1. (l - 1) - 1 \in Nat /\ l - 1 = ((l - 1) - 1) + 1
        BY <1>6, <1>22
      <4>2. PICK d : d = (l - 1) - 1
        OBVIOUS
      <4>3. (d + 1) * FrameCells = d * FrameCells + FrameCells
        BY <1>2, <4>1, <4>2
      <4>4. QED
        BY <4>1, <4>2, <4>3
    <3>4. j + 1 = (l - 1) * FrameCells
      <4>1. j + 1 = lt
        BY <1>30, <2>1
      <4>2. QED
        BY <1>29, <4>1
    <3>5. w[j + 1] = Header(<<y, r>>)
      BY <1>2, AtCells, SMTT(30)
    <3>6. FrameCell(g, FrameCells) = Header(<<y, r>>)
      BY <3>2, <3>3, <3>4, <3>5
    <3>7. t + FrameCells = x + 2
      BY <1>2, <1>11, <1>24, <3>6, ZenonT(30) DEF Standing
    <3>8. QED
      BY <1>2, <1>12, <1>14, <1>17, <2>1, <3>7
  <2>2. CASE q = 2
    <3>1. (g - 1) * FrameCells # m * SymbolLen + 1
      BY <1>10, <1>12, Unsplit, SMTT(30)
    <3>2. t # x + 1
      BY <1>11, <1>13, <3>1
    <3>3. QED
      BY <1>12, <1>14, <1>17, <2>2, <3>2
  <2>3. QED
    BY <1>6, <2>1, <2>2
<1>26. s < r
  <2>1. SUFFICES ASSUME r <= s PROVE FALSE
    BY <1>2
  <2>2. o - 1 \in 1..FrameCells
    BY <1>2, <1>6, <1>18
  <2>3. w[i + 1] = FrameCell(g, o - 1)
    <3>1. i + 1 = (k - 1) * FrameCells + (o - 1)
      <4>1. i + 1 = kt + (o - 1)
        BY <1>6, <1>30
      <4>2. QED
        BY <1>29, <4>1
    <3>2. QED
      BY <1>23, <2>2, <3>1
  <2>4. w[i + 1] = Header(<<b, s>>)
    BY <1>2, AtCells, SMTT(30)
  <2>5. Standing(g, o - 1, t + (o - 1))
    BY <1>24, <2>2
  <2>6. t + (o - 1) = u + 2
    BY <1>2, <1>11, <2>3, <2>4, <2>5 DEF Standing
  <2>7. FrameCells <= Symbols * SymbolLen
    BY Lengths
  <2>8. Symbols * SymbolLen \in Nat
    BY <1>2, Product
  <2>9. QED
    BY <1>2, <1>6, <1>12, <1>14, <1>17, <2>1, <2>6, <2>7, <2>8
<1>27. Earlier(w, i, y, r)
  <2> DEFINE h == kt + q - 2
  <2>1. h \in Nat \ {0} /\ h + SymbolLen <= i
    BY <1>2, <1>6, <1>18, <1>25, <1>30
  <2>2. h + SymbolLen - 1 <= Len(w)
    <3>1. i + SymbolLen - 1 <= Len(w) /\ Len(w) \in Nat
      <4>1. i + SymbolLen - 1 <= Len(w)
        BY <1>2, AtCells
      <4>2. QED
        BY <4>1
    <3>2. \A c1, c2, c3, c4 \in Nat :
            c1 + c4 <= c2 /\ c2 + c4 - 1 <= c3 => c1 + c4 - 1 <= c3
      OBVIOUS
    <3>3. h \in Nat /\ i \in Nat
      BY <2>1
    <3>4. QED
      BY <1>2, <2>1, <3>1, <3>2, <3>3, Zenon
  <2>3. ASSUME NEW c \in 1..SymbolLen PROVE w[h + c - 1] = Symbol(y, r)[c]
    <3>1. q - 3 + c \in 1..FrameCells /\ h + c - 1 = (k - 1) * FrameCells + (q - 3 + c)
      <4>1. q - 3 + c \in 1..FrameCells /\ h + c - 1 = kt + (q - 3 + c)
        BY <1>2, <1>6, <1>18, <1>25, <1>30
      <4>2. QED
        BY <1>29, <4>1
    <3>2. w[h + c - 1] = FrameCell(g, q - 3 + c)
      BY <1>23, <3>1
    <3>3. (g - 1) * FrameCells + (q - 3 + c) = m * SymbolLen + c
      <4>1. t + (q - 3 + c) = x + c
        BY <1>2, <1>6, <1>12, <1>14, <1>17
      <4>2. QED
        BY <1>11, <1>13, <4>1
    <3>4. m \in Numbers
      BY <1>2, <1>11, NumbersAre
    <3>5. m * SymbolLen + c <= Total
      <4>1. x + SymbolLen <= Total /\ Total \in Nat
        BY <1>11, <3>4, SymbolEnds, ContentIs
      <4>2. x + c <= Total
        BY <1>2, <1>12, <4>1
      <4>3. QED
        BY <1>11, <4>2
    <3>6. FrameCell(g, q - 3 + c) = StreamCell(m * SymbolLen + c)
      BY <3>3, <3>5 DEF FrameCell
    <3>7. StreamCell(m * SymbolLen + c) = Nth(m)[c]
      BY <1>12, NthCells
    <3>8. Nth(m) = Symbol(y, r)
      BY <1>2, <1>11, NumberIs DEF Nth
    <3>9. QED
      BY <3>2, <3>6, <3>7, <3>8
  <2>4. QED
    BY <2>1, <2>2, <2>3 DEF Earlier, At
<1>28. QED
  BY <1>26, <1>27

\* One frame more: whole, or damaged and never to come again.
LEMMA CarriedMore ==
  ASSUME size \in Sizes, NEW w \in Seq(Cell), NEW a \in Nat \ {0}, NEW z \in Nat, a <= z,
         History(w, a), NEW cells \in Seq(Cell), Len(cells) = FrameCells,
         \A o \in 1..FrameCells :
           cells[o] = FrameCell(Clamp(a), o) \/ (Damaged(cells[o]) /\ a < z)
  PROVE  History(w \o cells, z)
<1>1. PICK src : Carried(w, src, a)
  BY DEF History
<1> DEFINE new == Append(src, a)
<1> DEFINE v == w \o cells
<1>2. PICK n : n = Len(src)
  OBVIOUS
<1>3. /\ src \in Seq(Nat \ {0}) /\ n \in Nat /\ Len(w) = n * FrameCells
      /\ FrameCells \in Nat \ {0} /\ n * FrameCells \in Nat
  <2>1. src \in Seq(Nat \ {0}) /\ Len(w) = n * FrameCells
    BY <1>1, <1>2 DEF Carried
  <2>2. n \in Nat /\ FrameCells \in Nat \ {0}
    BY <1>2, <2>1, Constants
  <2>3. QED
    BY <2>1, <2>2, Product
<1>12. /\ n \in Nat /\ \A k \in 1..(n + 1) : k \in Nat \ {0} /\ (k = n + 1 \/ k \in 1..n)
       /\ \A k \in 1..n : k - 1 \in Nat /\ k - 1 < n
       /\ \A k \in 1..n : \A l \in k + 1..(n + 1) : l = n + 1 \/ (l \in k + 1..n /\ l \in 1..n)
  BY <1>3
<1>4. /\ new \in Seq(Nat \ {0}) /\ Len(new) = n + 1 /\ new[n + 1] = a
      /\ \A k \in 1..n : new[k] = src[k] /\ src[k] \in Nat \ {0}
  BY <1>2, <1>3
<1>5. Len(v) = (n + 1) * FrameCells
  <2>1. Len(v) = Len(w) + Len(cells)
    BY ConcatProperties
  <2>2. (n + 1) * FrameCells = n * FrameCells + FrameCells
    BY <1>3
  <2>3. QED
    BY <1>3, <2>1, <2>2
<1>6. \A k \in 1..n : src[k] <= a
  BY <1>1, <1>2 DEF Carried
<1>7. \A k \in 1..(n + 1) : new[k] <= z
  <2> TAKE k \in 1..(n + 1)
  <2>1. CASE k = n + 1
    BY <1>4, <2>1
  <2>2. CASE k \in 1..n
    <3>1. new[k] = src[k] /\ src[k] \in Nat /\ src[k] <= a
      BY <1>4, <1>6, <2>2
    <3>2. QED
      BY <3>1
  <2>3. QED
    BY <1>12, <2>1, <2>2
<1>8. \A k, l \in 1..(n + 1) : k <= l => new[k] <= new[l]
  <2> TAKE k, l \in 1..(n + 1)
  <2> HAVE k <= l
  <2>1. CASE l \in 1..n
    <3>1. k \in 1..n
      BY <1>3, <2>1
    <3>2. src[k] <= src[l]
      BY <1>1, <1>2, <2>1, <3>1 DEF Carried
    <3>3. QED
      BY <1>4, <2>1, <3>1, <3>2
  <2>2. CASE l = n + 1 /\ k \in 1..n
    BY <1>4, <1>6, <2>2
  <2>3. CASE l = n + 1 /\ k = n + 1
    BY <1>4, <2>3
  <2>4. QED
    <3>1. l \in 1..n \/ (l = n + 1 /\ (k \in 1..n \/ k = n + 1))
      BY <1>12
    <3>2. QED
      BY <2>1, <2>2, <2>3, <3>1
<1>9. ASSUME NEW k \in 1..(n + 1), NEW o \in 1..FrameCells
      PROVE  \/ v[(k - 1) * FrameCells + o] = FrameCell(Clamp(new[k]), o)
             \/ /\ Damaged(v[(k - 1) * FrameCells + o]) /\ new[k] < z
                /\ \A l \in k + 1..(n + 1) : new[k] < new[l]
  <2>1. CASE k \in 1..n
    <3>1. PICK q : q = (k - 1) * FrameCells + o
      OBVIOUS
    <3>2. q \in 1..Len(w)
      <4>1. k - 1 \in Nat /\ k - 1 < n
        BY <1>12, <2>1
      <4>2. (k - 1) * FrameCells \in Nat /\ (k - 1) * FrameCells + FrameCells <= n * FrameCells
        BY <1>3, <4>1, Product, ProductGrows
      <4>3. PICK x, y : x = (k - 1) * FrameCells /\ y = n * FrameCells
        OBVIOUS
      <4>4. x \in Nat /\ y \in Nat /\ x + FrameCells <= y /\ q = x + o
        BY <1>3, <3>1, <4>2, <4>3
      <4>5. q \in 1..y
        BY <1>3, <4>4
      <4>6. QED
        BY <1>3, <4>3, <4>5
    <3>3. v[q] = w[q]
      BY <3>2, ConcatProperties
    <3>4. new[k] = src[k] /\ src[k] \in Nat
      BY <1>4, <2>1
    <3>5. CASE w[q] = FrameCell(Clamp(src[k]), o)
      BY <3>1, <3>3, <3>4, <3>5
    <3>6. CASE Damaged(w[q]) /\ src[k] < a /\ \A l \in k + 1..n : src[k] < src[l]
      <4>1. new[k] < z
        BY <3>4, <3>6
      <4>2. ASSUME NEW l \in k + 1..(n + 1) PROVE new[k] < new[l]
        <5>1. CASE l = n + 1
          BY <1>4, <3>4, <3>6, <5>1
        <5>2. CASE l \in k + 1..n
          <6>1. l \in 1..n
            BY <1>3, <5>2
          <6>2. QED
            BY <1>4, <3>4, <3>6, <5>2, <6>1
        <5>3. QED
          BY <1>12, <2>1, <5>1, <5>2
      <4>3. QED
        BY <3>1, <3>3, <3>6, <4>1, <4>2
    <3>7. QED
      BY <1>1, <1>2, <2>1, <3>1, <3>5, <3>6 DEF Carried
  <2>2. CASE k = n + 1
    <3>1. (k - 1) * FrameCells + o = Len(w) + o
      BY <1>3, <2>2
    <3>2. v[Len(w) + o] = cells[o]
      <4>1. Len(w) + o \in (Len(w) + 1)..(Len(w) + Len(cells)) /\ (Len(w) + o) - Len(w) = o
        BY <1>3
      <4>2. QED
        BY <1>3, <4>1, ConcatProperties
    <3>3. k + 1..(n + 1) = {} /\ new[k] = a
      BY <1>3, <1>4, <2>2
    <3>4. QED
      BY <3>1, <3>2, <3>3
  <2>3. QED
    BY <1>12, <2>1, <2>2
<1>10. Carried(v, new, z)
  BY <1>4, <1>5, <1>7, <1>8, <1>9 DEF Carried
<1>11. QED
  BY <1>10 DEF History

LEMMA HistoryLater ==
  ASSUME NEW w, NEW a \in Nat, NEW z \in Nat, a <= z, History(w, a)
  PROVE  History(w, z)
<1>1. PICK src : Carried(w, src, a)
  BY DEF History
<1>2. src \in Seq(Nat \ {0})
  BY <1>1 DEF Carried
<1>3. \A k \in 1..Len(src) : src[k] \in Nat /\ src[k] <= z /\ (src[k] < a => src[k] < z)
  <2> TAKE k \in 1..Len(src)
  <2>1. src[k] \in Nat /\ src[k] <= a
    BY <1>1, <1>2 DEF Carried
  <2>2. QED
    BY <2>1
<1>4. Carried(w, src, z)
  BY <1>1, <1>3 DEF Carried
<1>5. QED
  BY <1>4 DEF History

LEMMA HistoryStart ==
  ASSUME NEW a
  PROVE  History(<<>>, a)
<1> DEFINE src == <<>>
<1>1. src \in Seq(Nat \ {0}) /\ Len(src) = 0 /\ 1..0 = {} /\ 0 * FrameCells = 0
  BY Constants
<1>2. Carried(<<>>, src, a)
  BY <1>1 DEF Carried
<1>3. QED
  BY <1>2 DEF History

-----------------------------------------------------------------------------
(* When there is no hope, and what the decoder knows when there is.  p     *)
(* cells of w have left the buffer and m blocks have come out.             *)

\* Too many false markers, or one that names a block of the shard, or a block
\* begun when one before it has not arrived well enough.
Spoiled(w) ==
  \/ Cardinality(Traps(w)) > Repair
  \/ \E k \in Traps(w) : IdOf(w[k + 1])[1] < BlocksOf(size)
  \/ \E b \in 0..(BlocksOf(size) - 1) : \E y \in 0..(b - 1) :
       Come(w, b) # {} /\ Cardinality(Come(w, y)) < Source + overhead + Cardinality(Traps(w))

Reached(w, p, y, s) == \E i \in 1..p : At(w, i, y, s)
Passed(w, p, y) ==
  \E c \in (y + 1)..(BlocksOf(size) - 1), s \in (Source - 1)..(Symbols - 1) : Reached(w, p, c, s)
Swallowed(w, i) == \E k \in Traps(w) : k < i /\ i < k + SymbolLen

\* Of the blocks of the shard only right symbols that arrived are held.
RightOnes(w, p, m) ==
  \A y \in DOMAIN blocks : y < BlocksOf(size) =>
    /\ blocks[y].bad = {} /\ \A s \in Held(y) : s < Symbols /\ Reached(w, p, y, s)
    /\ IF blocks[y].done THEN y < m ELSE ~Decodable(blocks[y])
\* Of other blocks no more than false markers gave.
FalseOnes(w) ==
  \A y \in DOMAIN blocks : y >= BlocksOf(size) =>
    ~blocks[y].done /\ \A s \in Held(y) : \E k \in Traps(w) : s = IdOf(w[k + 1])[2]
\* A block that came out is known, or forgotten when the decoder had passed it.
OldOnes(w, p, m) ==
  \A y \in 0..(m - 1) :
    EntryOf(y).done \/ (Passed(w, p, y) /\ \A s \in Held(y) : s >= Source)
\* No symbol is missed but those behind a false marker.
NoneMissed(w, p, m) ==
  \A i \in 1..p : w[i] = Magic =>
    \/ i \in Traps(w) \/ Swallowed(w, i)
    \/ \E y \in 0..(BlocksOf(size) - 1), s \in 0..(Symbols - 1) :
         At(w, i, y, s) /\ (y < m \/ s \in Held(y))
Good(w, p, m) ==
  /\ out = Prefix(m)
  /\ RightOnes(w, p, m) /\ FalseOnes(w) /\ OldOnes(w, p, m) /\ NoneMissed(w, p, m)

LEMMA TrapsFinite ==
  ASSUME NEW w \in Seq(Cell)
  PROVE  /\ IsFiniteSet(Traps(w)) /\ Cardinality(Traps(w)) \in Nat
         /\ \A k \in Traps(w) : /\ k \in Nat \ {0} /\ k \in 1..Len(w) /\ k + 1 \in 1..Len(w)
                                /\ k + SymbolLen - 1 <= Len(w) /\ w[k + 1] \in Cell
<1>1. Len(w) \in Nat /\ SymbolLen \in Nat /\ SymbolLen > 2
  BY Constants
<1>2. IsFiniteSet(1..Len(w)) /\ Traps(w) \in SUBSET (1..Len(w))
  BY <1>1, FS_Interval DEF Traps
<1>3. IsFiniteSet(Traps(w)) /\ Cardinality(Traps(w)) \in Nat
  BY <1>2, FS_Subset, FS_CardinalityType
<1>4. ASSUME NEW k \in Traps(w)
      PROVE  /\ k \in Nat \ {0} /\ k \in 1..Len(w) /\ k + 1 \in 1..Len(w)
             /\ k + SymbolLen - 1 <= Len(w) /\ w[k + 1] \in Cell
  <2>1. k \in 1..Len(w) /\ k + SymbolLen - 1 <= Len(w)
    BY DEF Traps
  <2>2. k \in Nat \ {0} /\ k + 1 \in 1..Len(w)
    BY <1>1, <2>1
  <2>3. w[k + 1] \in Cell
    BY <2>2
  <2>4. QED
    BY <2>1, <2>2, <2>3
<1>5. QED
  BY <1>3, <1>4

LEMMA ComeFinite ==
  ASSUME NEW w, NEW b
  PROVE  /\ Come(w, b) \subseteq 0..(Symbols - 1) /\ Come(w, b) \subseteq Nat
         /\ IsFiniteSet(Come(w, b)) /\ Cardinality(Come(w, b)) \in Nat
         /\ Cardinality(Come(w, b)) <= Symbols
<1>1. Come(w, b) \in SUBSET (0..(Symbols - 1)) /\ Symbols \in Nat \ {0}
  BY Constants DEF Come
<1>2. IsFiniteSet(0..(Symbols - 1)) /\ Cardinality(0..(Symbols - 1)) = Symbols
  BY <1>1, FS_Interval
<1>3. QED
  BY <1>1, <1>2, FS_Subset, FS_CardinalityType

LEMMA ComeIs ==
  ASSUME NEW w \in Seq(Cell), NEW b \in Nat, NEW s \in 0..(Symbols - 1)
  PROVE  /\ s \in Come(w, b) <=> \E i \in Nat \ {0} : At(w, i, b, s)
         /\ \A i \in Nat \ {0} : At(w, i, b, s) => i \in 1..Len(w)
<1>1. ASSUME NEW i \in Nat \ {0}, At(w, i, b, s) PROVE i \in 1..Len(w)
  <2>1. i + SymbolLen - 1 <= Len(w) /\ SymbolLen \in Nat /\ SymbolLen > 2 /\ Len(w) \in Nat
    BY <1>1, Constants DEF At
  <2>2. QED
    BY <2>1
<1>2. \A i \in 1..Len(w) : i \in Nat \ {0}
  OBVIOUS
<1>3. QED
  BY <1>1, <1>2 DEF Come

\* What is spoiled stays so: a block does not arrive any better once one behind
\* it has begun.
LEMMA SpoiledGrows ==
  ASSUME size \in Sizes, overhead \in Nat, NEW w \in Seq(Cell), NEW c \in Seq(Cell),
         NEW v, v = w \o c, NEW a, History(v, a), Spoiled(w)
  PROVE  Spoiled(v)
<1>1. /\ v \in Seq(Cell) /\ Len(w) \in Nat
      /\ \A i \in 1..Len(w) : v[i] = w[i]
      /\ \A i \in Nat \ {0}, b \in Nat, s \in Nat :
           i + SymbolLen - 1 <= Len(w) => (At(w, i, b, s) <=> At(v, i, b, s))
      /\ \A i \in Nat \ {0}, b \in Nat, s \in Nat : At(w, i, b, s) => At(v, i, b, s)
      /\ Traps(w) \subseteq Traps(v)
      /\ \A b \in Nat : Come(w, b) \subseteq Come(v, b)
  <2>1. Grows(w, v)
    BY Grown
  <2>2. QED
    BY <2>1, Zenon DEF Grows
<1>2. /\ Cardinality(Traps(w)) <= Cardinality(Traps(v))
      /\ Cardinality(Traps(w)) \in Nat /\ Cardinality(Traps(v)) \in Nat
  BY <1>1, TrapsFinite, FS_Subset
<1>3. CASE Cardinality(Traps(w)) > Repair
  BY <1>2, <1>3, Constants DEF Spoiled
<1>4. CASE \E k \in Traps(w) : IdOf(w[k + 1])[1] < BlocksOf(size)
  <2>1. PICK k \in Traps(w) : IdOf(w[k + 1])[1] < BlocksOf(size)
    BY <1>4
  <2>2. k + 1 \in 1..Len(w)
    BY TrapsFinite
  <2>3. k \in Traps(v) /\ v[k + 1] = w[k + 1]
    BY <1>1, <2>2
  <2>4. QED
    BY <2>1, <2>3 DEF Spoiled
<1>5. ASSUME NEW b \in 0..(BlocksOf(size) - 1), NEW y \in 0..(b - 1),
             Come(w, b) # {}, Cardinality(Come(w, y)) < Source + overhead + Cardinality(Traps(w))
      PROVE  Spoiled(v)
  <2>1. b \in Nat /\ y \in Nat /\ y < b /\ y \in 0..(BlocksOf(size) - 1)
    <3>1. BlocksOf(size) \in Nat
      BY LastBlock
    <3>2. QED
      BY <3>1
  <2>2. PICK s \in 0..(Symbols - 1), i \in 1..Len(w) : At(w, i, b, s)
    BY <1>5 DEF Come
  <2>3. /\ s \in Nat /\ i \in Nat \ {0} /\ At(v, i, b, s) /\ i + SymbolLen - 1 <= Len(w)
        /\ SymbolLen \in Nat /\ SymbolLen > 2
    <3>1. s \in Nat /\ i \in Nat \ {0}
      BY <1>1
    <3>2. At(v, i, b, s)
      BY <1>1, <2>1, <2>2, <3>1
    <3>3. i + SymbolLen - 1 <= Len(w)
      BY <2>2 DEF At
    <3>4. QED
      BY <3>1, <3>2, <3>3, Constants
  <2>4. Come(v, b) # {}
    BY <1>1, <1>5, <2>1
  <2>5. ASSUME NEW r \in Come(v, y) PROVE r \in Come(w, y)
    <3>1. r \in 0..(Symbols - 1) /\ r \in Nat
      BY ComeFinite
    <3>2. PICK j \in Nat \ {0} : At(v, j, y, r)
      BY <1>1, <2>1, <2>5, <3>1, ComeIs
    <3>3. CASE j + SymbolLen - 1 <= Len(w)
      <4>1. At(w, j, y, r)
        BY <1>1, <2>1, <3>1, <3>2, <3>3
      <4>2. QED
        BY <2>1, <3>1, <4>1, ComeIs
    <3>4. CASE ~(j + SymbolLen - 1 <= Len(w))
      <4>1. i < j
        BY <1>1, <2>3, <3>2, <3>4
      <4>2. Earlier(v, i, y, r)
        BY <1>1, <2>1, <2>3, <3>1, <3>2, <4>1, SecondTime
      <4>3. PICK h \in Nat \ {0} : h + SymbolLen <= i /\ At(v, h, y, r)
        BY <4>2 DEF Earlier
      <4>4. h + SymbolLen - 1 <= Len(w)
        BY <1>1, <2>3, <4>3
      <4>5. At(w, h, y, r)
        BY <1>1, <2>1, <3>1, <4>3, <4>4
      <4>6. QED
        BY <2>1, <3>1, <4>5, ComeIs
    <3>5. QED
      BY <3>3, <3>4
  <2>6. /\ Cardinality(Come(v, y)) <= Cardinality(Come(w, y))
        /\ Cardinality(Come(v, y)) \in Nat /\ Cardinality(Come(w, y)) \in Nat
    BY <2>5, ComeFinite, FS_Subset
  <2>7. Cardinality(Come(v, y)) < Source + overhead + Cardinality(Traps(v))
    BY <1>2, <1>5, <2>6, Constants, SMTT(30)
  <2>8. QED
    BY <2>4, <2>7 DEF Spoiled
<1>6. QED
  BY <1>3, <1>4, <1>5 DEF Spoiled

\* A frame more leaves what is known of those before.
LEMMA GoodGrows ==
  ASSUME size \in Sizes, Typed(blocks), NEW w \in Seq(Cell), NEW c \in Seq(Cell),
         NEW v, v = w \o c, NEW p \in Nat, p <= Len(w), NEW m \in Nat, Good(w, p, m)
  PROVE  Good(v, p, m)
<1>1. /\ v \in Seq(Cell) /\ Len(w) \in Nat
      /\ \A i \in 1..Len(w) : v[i] = w[i]
      /\ \A i \in Nat \ {0}, b \in Nat, s \in Nat : At(w, i, b, s) => At(v, i, b, s)
      /\ Traps(w) \subseteq Traps(v)
  <2>1. Grows(w, v)
    BY Grown
  <2>2. QED
    BY <2>1, Zenon DEF Grows
<1>2. \A i \in 1..p : i \in Nat \ {0} /\ i \in 1..Len(w)
  BY <1>1
<1>3. \A y \in Nat, s \in Nat : Reached(w, p, y, s) => Reached(v, p, y, s)
  BY <1>1, <1>2 DEF Reached
<1>4. /\ \A y \in DOMAIN blocks : y \in Nat
      /\ \A y : Held(y) \subseteq Nat
  BY EntryTyped DEF Typed
<1>5. RightOnes(v, p, m)
  BY <1>3, <1>4 DEF Good, RightOnes
<1>6. FalseOnes(v)
  <2>1. \A k \in Traps(w) : k \in Traps(v) /\ v[k + 1] = w[k + 1]
    BY <1>1, TrapsFinite
  <2>2. FalseOnes(w)
    BY DEF Good
  <2>3. ASSUME NEW y \in DOMAIN blocks, y >= BlocksOf(size)
        PROVE  ~blocks[y].done /\ \A s \in Held(y) : \E k \in Traps(v) : s = IdOf(v[k + 1])[2]
    <3>1. ~blocks[y].done /\ \A s \in Held(y) : \E k \in Traps(w) : s = IdOf(w[k + 1])[2]
      BY <2>2, <2>3 DEF FalseOnes
    <3>2. ASSUME NEW s \in Held(y) PROVE \E k \in Traps(v) : s = IdOf(v[k + 1])[2]
      <4>1. PICK k \in Traps(w) : s = IdOf(w[k + 1])[2]
        BY <3>1
      <4>2. k \in Traps(v) /\ v[k + 1] = w[k + 1]
        BY <2>1
      <4>3. s = IdOf(v[k + 1])[2]
        BY <4>1, <4>2
      <4>4. QED
        BY <4>2, <4>3
    <3>3. QED
      BY <3>1, <3>2
  <2>4. QED
    BY <2>3 DEF FalseOnes
<1>7. \A y \in Nat : Passed(w, p, y) => Passed(v, p, y)
  <2>1. \A y \in Nat : \A x \in (y + 1)..(BlocksOf(size) - 1) : x \in Nat
    BY LastBlock
  <2>2. \A s \in (Source - 1)..(Symbols - 1) : s \in Nat
    BY Constants
  <2>3. QED
    BY <1>3, <2>1, <2>2 DEF Passed
<1>8. OldOnes(v, p, m)
  <2>1. \A y \in 0..(m - 1) : y \in Nat
    OBVIOUS
  <2>2. QED
    BY <1>7, <2>1 DEF Good, OldOnes
<1>9. NoneMissed(v, p, m)
  <2> SUFFICES ASSUME NEW i \in 1..p, v[i] = Magic
               PROVE  \/ i \in Traps(v) \/ Swallowed(v, i)
                      \/ \E y \in 0..(BlocksOf(size) - 1), s \in 0..(Symbols - 1) :
                           At(v, i, y, s) /\ (y < m \/ s \in Held(y))
    BY DEF NoneMissed
  <2>1. w[i] = Magic /\ i \in Nat \ {0}
    BY <1>1, <1>2
  <2>2. CASE i \in Traps(w) \/ Swallowed(w, i)
    BY <1>1, <2>2 DEF Swallowed
  <2>3. CASE \E y \in 0..(BlocksOf(size) - 1), s \in 0..(Symbols - 1) :
               At(w, i, y, s) /\ (y < m \/ s \in Held(y))
    <3>1. \A y \in 0..(BlocksOf(size) - 1) : y \in Nat
      OBVIOUS
    <3>2. \A s \in 0..(Symbols - 1) : s \in Nat
      OBVIOUS
    <3>3. QED
      BY <1>1, <2>1, <2>3, <3>1, <3>2
  <2>4. QED
    BY <2>1, <2>2, <2>3 DEF Good, NoneMissed
<1>10. QED
  BY <1>5, <1>6, <1>8, <1>9 DEF Good

-----------------------------------------------------------------------------
(* Counting.                                                               *)

\* A false marker hides at most one symbol, so that of a block that arrived well
\* enough and was passed enough is held.
LEMMA HeldEnough ==
  ASSUME size \in Sizes, overhead \in Nat, Typed(blocks), NEW w \in Seq(Cell), NEW p \in Nat,
         NEW m \in 0..(BlocksOf(size) - 1), NoneMissed(w, p, m),
         Held(m) \subseteq 0..(Symbols - 1),
         Cardinality(Come(w, m)) >= Source + overhead + Cardinality(Traps(w)),
         \A r \in Come(w, m) : Reached(w, p, m, r)
  PROVE  Enough(Held(m))
<1> DEFINE R == Come(w, m) \ Held(m)
           Hides(k, r) == \E i \in 1..p : At(w, i, m, r) /\ k < i /\ i < k + SymbolLen
           T == Traps(w)
<1>1. /\ m \in Nat /\ SymbolLen \in Nat /\ SymbolLen > 2 /\ Come(w, m) \subseteq Nat
      /\ IsFiniteSet(Come(w, m)) /\ Cardinality(Come(w, m)) \in Nat
  BY ComeFinite, Constants
<1>2. IsFiniteSet(T) /\ Cardinality(T) \in Nat /\ T \subseteq Nat
  BY TrapsFinite
<1>3. ASSUME NEW r \in R PROVE \E k \in T : Hides(k, r)
  <2>1. r \in Come(w, m) /\ r \notin Held(m) /\ r \in Nat
    BY <1>1
  <2>2. PICK i \in 1..p : At(w, i, m, r)
    BY <2>1 DEF Reached
  <2>3. i \in Nat /\ w[i] = Magic
    <3>1. i \in Nat
      OBVIOUS
    <3>2. w[i] = Magic
      BY <1>1, <2>1, <2>2, <3>1, AtCells
    <3>3. QED
      BY <3>1, <3>2
  <2>4. i \notin Traps(w)
    <3>1. r \in 0..(Symbols - 1)
      BY <2>1, ComeFinite
    <3>2. WholeAt(w, i)
      BY <2>2, <3>1 DEF WholeAt
    <3>3. QED
      BY <3>2 DEF Traps
  <2>5. ASSUME NEW y \in 0..(BlocksOf(size) - 1), NEW s \in 0..(Symbols - 1),
               At(w, i, y, s), y < m \/ s \in Held(y)
        PROVE  FALSE
    <3>1. y \in Nat /\ s \in Nat
      OBVIOUS
    <3>2. y = m /\ s = r
      BY <1>1, <2>1, <2>2, <2>3, <2>5, <3>1, AtOne
    <3>3. QED
      BY <1>1, <2>1, <2>5, <3>2
  <2>6. Swallowed(w, i)
    BY <2>3, <2>4, <2>5 DEF NoneMissed
  <2>7. QED
    BY <2>2, <2>6 DEF Swallowed
<1>4. ASSUME NEW k \in T, NEW x \in R, NEW y \in R, Hides(k, x), Hides(k, y) PROVE x = y
  <2>1. PICK i \in 1..p, j \in 1..p :
          /\ At(w, i, m, x) /\ k < i /\ i < k + SymbolLen
          /\ At(w, j, m, y) /\ k < j /\ j < k + SymbolLen
    BY <1>4
  <2>2. i \in Nat /\ j \in Nat /\ x \in Nat /\ y \in Nat /\ k \in Nat
    BY <1>1, <1>2
  <2>3. w[i] = Magic /\ w[j] = Magic
    BY <1>1, <2>1, <2>2, AtCells
  <2>4. i < j => i + SymbolLen <= j
    BY <1>1, <2>1, <2>2, <2>3, AtApart
  <2>5. j < i => j + SymbolLen <= i
    BY <1>1, <2>1, <2>2, <2>3, AtApart
  <2>6. i = j
    BY <1>1, <2>1, <2>2, <2>4, <2>5
  <2>7. QED
    BY <1>1, <2>1, <2>2, <2>6, AtOne
<1> DEFINE f == [r \in R |-> CHOOSE k \in T : Hides(k, r)]
<1>5. /\ IsFiniteSet(R) /\ Cardinality(R) \in Nat
      /\ Cardinality(Come(w, m)) <= Cardinality(Held(m)) + Cardinality(R)
      /\ Cardinality(Held(m)) \in Nat
  <2>1. IsFiniteSet(R) /\ Cardinality(R) \in Nat
    BY <1>1, FS_Subset, FS_CardinalityType
  <2>2. IsFiniteSet(Held(m)) /\ Cardinality(Held(m)) \in Nat
    <3>1. IsFiniteSet(0..(Symbols - 1))
      BY Constants, FS_Interval
    <3>2. QED
      BY <3>1, FS_Subset, FS_CardinalityType
  <2>3. PICK U : U = Held(m) \cup R
    OBVIOUS
  <2>4. IsFiniteSet(U) /\ Cardinality(U) = Cardinality(Held(m)) + Cardinality(R) - Cardinality(Held(m) \cap R)
    BY <2>1, <2>2, <2>3, FS_Union
  <2>5. Cardinality(Held(m) \cap R) = 0
    <3>1. Held(m) \cap R = {}
      OBVIOUS
    <3>2. QED
      BY <3>1, FS_EmptySet
  <2>6. Come(w, m) \subseteq U
    BY <2>3
  <2>7. Cardinality(Come(w, m)) <= Cardinality(U)
    BY <2>4, <2>6, FS_Subset
  <2>8. Cardinality(U) = Cardinality(Held(m)) + Cardinality(R)
    <3>1. \A n1, n2 \in Nat : n1 + n2 - 0 = n1 + n2
      OBVIOUS
    <3>2. QED
      BY <2>1, <2>2, <2>4, <2>5, <3>1, Zenon
  <2>9. QED
    BY <2>1, <2>2, <2>7, <2>8
<1>6. \A r \in R : f[r] \in T /\ Hides(f[r], r)
  BY <1>3
<1>7. f \in [R -> T]
  BY <1>6
<1> HIDE DEF R, T, f, Hides
<1>8. ~(Cardinality(T) < Cardinality(R))
  <2>1. SUFFICES ASSUME Cardinality(T) < Cardinality(R) PROVE FALSE
    OBVIOUS
  <2>2. \E x, y \in R : x # y /\ f[x] = f[y]
    BY <1>2, <1>5, <1>7, <2>1, FS_PigeonHole
  <2>3. QED
    BY <1>4, <1>6, <2>2
<1>9. Cardinality(Held(m)) >= Source + overhead
  BY <1>1, <1>2, <1>5, <1>8, Constants DEF T
<1>10. QED
  BY <1>9 DEF Enough

\* What false markers give is too little for a block.
LEMMA FalseFew ==
  ASSUME overhead \in Nat, NEW w \in Seq(Cell), Cardinality(Traps(w)) <= Repair, NEW H,
         \A s \in H : \E k \in Traps(w) : s = IdOf(w[k + 1])[2]
  PROVE  ~Enough(H)
<1> DEFINE g == [k \in Traps(w) |-> IdOf(w[k + 1])[2]]
           T == {g[k] : k \in Traps(w)}
<1>1. IsFiniteSet(Traps(w)) /\ Cardinality(Traps(w)) \in Nat
  BY TrapsFinite
<1>2. g \in Surjection(Traps(w), T)
  BY DEF Surjection
<1>3. H \subseteq T
  OBVIOUS
<1> HIDE DEF g, T
<1>4. IsFiniteSet(T) /\ Cardinality(T) <= Cardinality(Traps(w)) /\ Cardinality(T) \in Nat
  BY <1>1, <1>2, FS_Surjection, FS_CardinalityType
<1>5. IsFiniteSet(H) /\ Cardinality(H) <= Cardinality(T) /\ Cardinality(H) \in Nat
  BY <1>3, <1>4, FS_Subset, FS_CardinalityType
<1>6. Cardinality(H) < Source
  BY <1>1, <1>4, <1>5, Constants
<1>7. ~(0..(Source - 1) \subseteq H)
  <2>1. SUFFICES ASSUME 0..(Source - 1) \subseteq H PROVE FALSE
    OBVIOUS
  <2>2. Cardinality(0..(Source - 1)) = Source
    BY Constants, FS_Interval
  <2>3. Cardinality(0..(Source - 1)) <= Cardinality(H)
    BY <1>5, <2>1, FS_Subset
  <2>4. QED
    BY <1>5, <1>6, <2>2, <2>3, Constants
<1>8. QED
  BY <1>5, <1>6, <1>7, Constants DEF Enough

\* So are repair symbols alone.
LEMMA HighFew ==
  ASSUME overhead \in Nat, NEW H \in SUBSET (Source..(Symbols - 1))
  PROVE  ~Enough(H)
<1>1. /\ Source \in Nat \ {0} /\ Symbols = Source + Repair /\ Repair \in Nat /\ Repair < Source
      /\ Symbols \in Nat
  BY Constants DEF Symbols
<1>2. IsFiniteSet(Source..(Symbols - 1)) /\ Cardinality(Source..(Symbols - 1)) = Repair
  BY <1>1, IntervalIs
<1>3. IsFiniteSet(H) /\ Cardinality(H) <= Repair /\ Cardinality(H) \in Nat
  BY <1>2, FS_Subset, FS_CardinalityType
<1>4. 0 \in 0..(Source - 1) /\ 0 \notin H
  BY <1>1
<1>5. QED
  BY <1>1, <1>3, <1>4 DEF Enough

\* A right symbol leaves no wrong one, and the block that comes out is right.
LEMMA AcceptedRight ==
  ASSUME Typed(blocks), NEW b \in Nat, NEW s \in Nat, EntryOf(b).bad = {},
         Accept(b, s, SubSeq(Symbol(b, s), 3, SymbolLen))
  PROVE  /\ b \in DOMAIN blocks' => blocks'[b].bad = {}
         /\ out' = out \/ out' = Append(out, [block |-> b, right |-> TRUE])
<1> DEFINE data == SubSeq(Symbol(b, s), 3, SymbolLen)
           e == WithSymbol(b, s, data)
           o == EntryOf(b)
<1>1. o \in Entry /\ e \in Entry
  BY EntryTyped, WithSymbolTyped
<1>2. e.bad = {}
  <2>1. CASE o.done \/ s \in o.good \cup o.bad
    <3>1. e = o
      BY <2>1 DEF WithSymbol
    <3>2. QED
      BY <3>1
  <2>2. CASE ~(o.done \/ s \in o.good \cup o.bad)
    <3>1. e = [o EXCEPT !.good = @ \cup {s}]
      BY <2>2 DEF WithSymbol
    <3>2. o.bad = {}
      OBVIOUS
    <3> HIDE DEF o, e
    <3>3. QED
      BY <1>1, <3>1, <3>2 DEF Entry
  <2>3. QED
    BY <2>1, <2>2
<1>3. Right(e) = TRUE
  <2>1. e.bad \cap 0..(Source - 1) = {}
    BY <1>2
  <2>2. QED
    BY <1>2, <2>1 DEF Right
<1>4. \/ blocks' = Store(b, e) /\ out' = out
      \/ /\ blocks' = Trim(Store(b, [e EXCEPT !.done = TRUE]), b)
         /\ out' = Append(out, [block |-> b, right |-> Right(e)])
  BY DEF Accept
<1> HIDE DEF e
<1>5. [e EXCEPT !.done = TRUE].bad = {}
  BY <1>1, <1>2 DEF Entry
<1>6. ASSUME NEW d, d.bad = {}
      PROVE  /\ Store(b, d)[b].bad = {}
             /\ b \in DOMAIN Trim(Store(b, d), b) => Trim(Store(b, d), b)[b].bad = {}
  <2>1. Store(b, d)[b] = d
    BY DEF Store
  <2>2. b \in DOMAIN Trim(Store(b, d), b) => Trim(Store(b, d), b)[b] = Store(b, d)[b]
    BY DEF Trim
  <2>3. QED
    BY <1>6, <2>1, <2>2
<1>7. QED
  BY <1>2, <1>3, <1>4, <1>5, <1>6

-----------------------------------------------------------------------------
(* What a step of the decoder leaves.                                      *)

Unmoved == size' = size /\ twins' = twins /\ overhead' = overhead

LEMMA SameShard ==
  ASSUME Unmoved
  PROVE  /\ BlocksOf(size') = BlocksOf(size)
         /\ \A w, i, b, s : At(w, i, b, s)' <=> At(w, i, b, s)
         /\ \A w : Traps(w)' = Traps(w)
         /\ \A w, b : Come(w, b)' = Come(w, b)
         /\ \A w, a : History(w, a)' <=> History(w, a)
         /\ \A w : Spoiled(w)' <=> Spoiled(w)
         /\ \A w, p, y, s : Reached(w, p, y, s)' <=> Reached(w, p, y, s)
         /\ \A w, p, y : Passed(w, p, y)' <=> Passed(w, p, y)
         /\ \A w, i : Swallowed(w, i)' <=> Swallowed(w, i)
<1>1. size' = size /\ twins' = twins /\ overhead' = overhead
  BY DEF Unmoved
<1>2. BlocksOf(size') = BlocksOf(size)
  BY <1>1
<1>3. \A w, i, b, s : At(w, i, b, s)' <=> At(w, i, b, s)
  <2>1. \A b, s : Symbol(b, s)' = Symbol(b, s)
    BY <1>1 DEF Symbol, Data
  <2>2. QED
    BY <2>1 DEF At
<1>4. \A w, i : WholeAt(w, i)' <=> WholeAt(w, i)
  BY <1>1, <1>3 DEF WholeAt
<1>5. \A w : Traps(w)' = Traps(w)
  BY <1>1, <1>4 DEF Traps, IsMagic
<1>6. \A w, b : Come(w, b)' = Come(w, b)
  BY <1>3 DEF Come
<1>7. \A w, a : History(w, a)' <=> History(w, a)
  <2>1. \A c, o : FrameCell(c, o)' = FrameCell(c, o)
    BY <1>1, SameFrames
  <2>2. \A j : Clamp(j)' = Clamp(j)
    BY <1>1, SameFrames
  <2>3. \A w, src, a : Carried(w, src, a)' <=> Carried(w, src, a)
    BY <2>1, <2>2, SMTT(30) DEF Carried
  <2>4. QED
    BY <2>3 DEF History
<1>8. \A w : Spoiled(w)' <=> Spoiled(w)
  BY <1>1, <1>5, <1>6 DEF Spoiled
<1>9. \A w, p, y, s : Reached(w, p, y, s)' <=> Reached(w, p, y, s)
  BY <1>3 DEF Reached
<1>10. \A w, p, y : Passed(w, p, y)' <=> Passed(w, p, y)
  BY <1>1, <1>9 DEF Passed
<1>11. \A w, i : Swallowed(w, i)' <=> Swallowed(w, i)
  BY <1>5 DEF Swallowed
<1>12. QED
  BY <1>2, <1>3, <1>5, <1>6, <1>7, <1>8, <1>9, <1>10, <1>11

LEMMA SameGood ==
  ASSUME Unmoved, blocks' = blocks, out' = out, NEW w, NEW p, NEW m, Good(w, p, m)
  PROVE  Good(w, p, m)'
<1>1. /\ BlocksOf(size') = BlocksOf(size)
      /\ \A y, s : Reached(w, p, y, s)' <=> Reached(w, p, y, s)
      /\ \A y : Passed(w, p, y)' <=> Passed(w, p, y)
      /\ \A i : Swallowed(w, i)' <=> Swallowed(w, i)
      /\ Traps(w)' = Traps(w)
      /\ \A i, b, s : At(w, i, b, s)' <=> At(w, i, b, s)
  BY SameShard
<1>2. \A y : Held(y)' = Held(y) /\ EntryOf(y)' = EntryOf(y)
  BY DEF Held, EntryOf
<1>3. overhead' = overhead /\ size' = size
  BY DEF Unmoved
<1>4. \A y \in DOMAIN blocks : Decodable(blocks[y])' <=> Decodable(blocks[y])
  BY <1>3 DEF Decodable
<1>5. RightOnes(w, p, m)'
  BY <1>1, <1>2, <1>4 DEF Good, RightOnes
<1>6. FalseOnes(w)'
  BY <1>1, <1>2 DEF Good, FalseOnes
<1>7. OldOnes(w, p, m)'
  BY <1>1, <1>2 DEF Good, OldOnes
<1>8. NoneMissed(w, p, m)'
  BY <1>1, <1>2, <1>3 DEF Good, NoneMissed
<1>9. QED
  BY <1>5, <1>6, <1>7, <1>8 DEF Good

\* The decoder only moves forward.
LEMMA Further ==
  ASSUME NEW w, NEW p \in Nat, NEW q \in Nat, p <= q
  PROVE  /\ \A y, s : Reached(w, p, y, s) => Reached(w, q, y, s)
         /\ \A y : Passed(w, p, y) => Passed(w, q, y)
<1>1. \A i \in 1..p : i \in 1..q
  OBVIOUS
<1>2. \A y, s : Reached(w, p, y, s) => Reached(w, q, y, s)
  BY <1>1 DEF Reached
<1>3. QED
  BY <1>2 DEF Passed

\* No marker is missed when what is passed by holds none.
LEMMA GoodFurther ==
  ASSUME NEW w, NEW p \in Nat, NEW q \in Nat, p <= q, NEW m, Good(w, p, m),
         \A j \in p + 1..q : w[j] # Magic
  PROVE  Good(w, q, m)
<1>1. /\ \A y, s : Reached(w, p, y, s) => Reached(w, q, y, s)
      /\ \A y : Passed(w, p, y) => Passed(w, q, y)
  BY Further
<1>2. \A i \in 1..q : w[i] = Magic => i \in 1..p
  <2> TAKE i \in 1..q
  <2> HAVE w[i] = Magic
  <2>1. i \in 1..p \/ i \in p + 1..q
    OBVIOUS
  <2>2. QED
    BY <2>1
<1>3. RightOnes(w, q, m)
  BY <1>1 DEF Good, RightOnes
<1>4. OldOnes(w, q, m)
  BY <1>1 DEF Good, OldOnes
<1>5. NoneMissed(w, q, m)
  BY <1>2 DEF Good, NoneMissed
<1>6. QED
  BY <1>3, <1>4, <1>5 DEF Good

\* Nor when the marker at its end is false, or its symbol is kept.
LEMMA MissedMore ==
  ASSUME Unmoved, NEW w \in Seq(Cell), NEW p \in Nat, NEW i \in Nat \ {0}, p < i,
         NEW m \in Nat, NEW n \in Nat, m <= n, NoneMissed(w, p, m),
         \A j \in p + 1..i - 1 : w[j] # Magic,
         \A y \in 0..(BlocksOf(size) - 1) : \A s \in Held(y) : y < n \/ s \in Held(y)',
         \/ i \in Traps(w)
         \/ \E y \in 0..(BlocksOf(size) - 1), s \in 0..(Symbols - 1) :
              At(w, i, y, s) /\ (y < n \/ s \in Held(y)')
  PROVE  NoneMissed(w, i - 1 + SymbolLen, n)'
<1> DEFINE q == i - 1 + SymbolLen
<1>1. /\ BlocksOf(size') = BlocksOf(size)
      /\ \A j : Swallowed(w, j)' <=> Swallowed(w, j)
      /\ Traps(w)' = Traps(w)
      /\ \A j, b, s : At(w, j, b, s)' <=> At(w, j, b, s)
  BY SameShard
<1>2. SymbolLen \in Nat /\ SymbolLen > 2
  BY Constants
<1>3. SUFFICES ASSUME NEW j \in 1..q, w[j] = Magic
               PROVE  \/ j \in Traps(w) \/ Swallowed(w, j)
                      \/ \E y \in 0..(BlocksOf(size) - 1), s \in 0..(Symbols - 1) :
                           At(w, j, y, s) /\ (y < n \/ s \in Held(y)')
  BY <1>1 DEF NoneMissed, Unmoved
<1>4. j \in Nat /\ (j \in 1..p \/ j \in p + 1..i - 1 \/ j = i \/ (i < j /\ j < i + SymbolLen))
  BY <1>2
<1>5. CASE j \in 1..p
  <2>1. CASE j \in Traps(w) \/ Swallowed(w, j)
    BY <2>1
  <2>2. ASSUME NEW y \in 0..(BlocksOf(size) - 1), NEW s \in 0..(Symbols - 1),
               At(w, j, y, s), y < m \/ s \in Held(y)
        PROVE  At(w, j, y, s) /\ (y < n \/ s \in Held(y)')
    <3>1. CASE y < m
      BY <2>2, <3>1
    <3>2. CASE s \in Held(y)
      BY <2>2, <3>2
    <3>3. QED
      BY <2>2, <3>1, <3>2
  <2>3. QED
    BY <1>3, <1>5, <2>1, <2>2 DEF NoneMissed
<1>6. CASE j \in p + 1..i - 1
  BY <1>3, <1>6
<1>7. CASE j = i
  BY <1>7
<1>8. CASE i < j /\ j < i + SymbolLen
  <2>1. CASE i \in Traps(w)
    BY <1>8, <2>1 DEF Swallowed
  <2>2. ASSUME NEW y \in 0..(BlocksOf(size) - 1), NEW s \in 0..(Symbols - 1), At(w, i, y, s)
        PROVE  FALSE
    <3>1. y \in Nat /\ s \in Nat
      OBVIOUS
    <3>2. i + SymbolLen <= j
      BY <1>3, <1>4, <1>8, <2>2, <3>1, AtApart
    <3>3. QED
      BY <1>2, <1>4, <1>8, <3>2
  <2>3. QED
    BY <2>1, <2>2
<1>9. QED
  BY <1>4, <1>5, <1>6, <1>7, <1>8

\* Of the cells w the first p have left the buffer.
Dropped(w, p) ==
  /\ w = wire /\ p \in Nat /\ Len(w) = p + Len(raw)
  /\ \A i \in 1..Len(raw) : raw[i] = w[p + i]

\* The place of the symbol that is taken.
TakenAt(w, p, i, data) ==
  /\ i \in Nat \ {0} /\ p < i /\ i \in 1..Len(w) /\ i + 1 \in 1..Len(w)
  /\ i + SymbolLen - 1 <= Len(w)
  /\ IsMagic(w[i]) /\ \A j \in p + 1..i - 1 : w[j] # Magic
  /\ \A b, s \in Nat : At(w, i, b, s) => data = SubSeq(Symbol(b, s), 3, SymbolLen)
  /\ Accept(IdOf(w[i + 1])[1], IdOf(w[i + 1])[2], data)

LEMMA PieceTaken ==
  ASSUME wire \in Seq(Cell), raw \in Seq(Cell), TakeSymbol, NEW w, NEW p, Dropped(w, p)
  PROVE  \E i, data : TakenAt(w, p, i, data) /\ Dropped(w, i - 1 + SymbolLen)'
<1>1. /\ Marks # {} /\ Len(Pending) >= SymbolLen /\ wire' = wire
      /\ raw' = SubSeq(Pending, SymbolLen + 1, Len(Pending))
      /\ Accept(IdOf(Pending[2])[1], IdOf(Pending[2])[2], SubSeq(Pending, 3, SymbolLen))
  BY DEF TakeSymbol, Decoding
<1>2. PICK m \in Nat : /\ m + 1 \in Marks /\ \A j \in Marks : m + 1 <= j
                       /\ Pending \in Seq(Cell) /\ Len(Pending) = Len(raw) - m /\ m < Len(raw)
                       /\ \A j \in 1..(Len(raw) - m) : Pending[j] = raw[m + j]
  BY <1>1, PendingIs
<1>3. /\ SymbolLen \in Nat /\ SymbolLen > 2 /\ Len(raw) \in Nat /\ w \in Seq(Cell)
      /\ p \in Nat /\ Len(w) = p + Len(raw) /\ w = wire
  BY Constants, LenProperties DEF Dropped
<1>4. \A j \in 1..Len(raw) : raw[j] = w[p + j]
  BY DEF Dropped
<1>5. PICK i, k, n : i = p + m + 1 /\ k = Len(raw) - m - SymbolLen /\ n = Len(raw) - m
  OBVIOUS
<1>6. /\ i \in Nat \ {0} /\ p < i /\ i \in 1..Len(w) /\ i + 1 \in 1..Len(w) /\ i + SymbolLen - 1 <= Len(w)
      /\ k \in Nat /\ n \in Nat /\ SymbolLen + k = n /\ n >= SymbolLen
  BY <1>1, <1>2, <1>3, <1>5, SMTT(30)
<1>7. \A j \in 1..n : Pending[j] = w[i + j - 1]
  <2> TAKE j \in 1..n
  <2>1. m + j \in 1..Len(raw) /\ p + (m + j) = i + j - 1
    BY <1>2, <1>3, <1>5, <1>6
  <2>2. Pending[j] = raw[m + j]
    BY <1>2, <1>5
  <2>3. QED
    BY <1>4, <2>1, <2>2
<1>8. IsMagic(w[i])
  <2>1. m + 1 \in 1..Len(raw) /\ IsMagic(raw[m + 1])
    BY <1>2 DEF Marks
  <2>2. p + (m + 1) = i
    BY <1>3, <1>5
  <2>3. QED
    BY <1>4, <2>1, <2>2
<1>9. \A j \in p + 1..i - 1 : w[j] # Magic
  <2> TAKE j \in p + 1..i - 1
  <2>1. PICK o : o = j - p
    OBVIOUS
  <2>2. o \in 1..Len(raw) /\ p + o = j /\ ~(m + 1 <= o)
    BY <1>2, <1>3, <1>5, <1>6, <2>1
  <2>3. ~IsMagic(raw[o])
    BY <1>2, <2>2 DEF Marks
  <2>4. QED
    BY <1>4, <2>2, <2>3 DEF IsMagic
<1>10. Pending[2] = w[i + 1]
  <2>1. 2 \in 1..n /\ i + 2 - 1 = i + 1
    BY <1>3, <1>6
  <2>2. QED
    BY <1>7, <2>1
<1> DEFINE data == SubSeq(Pending, 3, SymbolLen)
<1>11. ASSUME NEW b \in Nat, NEW s \in Nat, At(w, i, b, s)
       PROVE  data = SubSeq(Symbol(b, s), 3, SymbolLen)
  <2>1. /\ Symbol(b, s) \in Seq(Cell) /\ Len(Symbol(b, s)) = SymbolLen
    BY SymbolCells
  <2>2. PICK l : l = SymbolLen - 2
    OBVIOUS
  <2>3. l \in Nat /\ 2 + l = SymbolLen /\ 2 + 1 = 3
    BY <1>3, <2>2
  <2>4. /\ SubSeq(Pending, 2 + 1, 2 + l) \in Seq(Cell) /\ Len(SubSeq(Pending, 2 + 1, 2 + l)) = l
        /\ \A o \in 1..l : SubSeq(Pending, 2 + 1, 2 + l)[o] = Pending[2 + o]
    <3>1. 2 + l <= Len(Pending)
      BY <1>1, <2>3
    <3>2. QED
      BY <1>2, <2>3, <3>1, Stretch
  <2>5. /\ SubSeq(Symbol(b, s), 2 + 1, 2 + l) \in Seq(Cell)
        /\ Len(SubSeq(Symbol(b, s), 2 + 1, 2 + l)) = l
        /\ \A o \in 1..l : SubSeq(Symbol(b, s), 2 + 1, 2 + l)[o] = Symbol(b, s)[2 + o]
    <3>1. 2 + l <= Len(Symbol(b, s))
      BY <2>1, <2>3
    <3>2. QED
      BY <2>1, <2>3, <3>1, Stretch
  <2>6. \A o \in 1..l : Pending[2 + o] = Symbol(b, s)[2 + o]
    <3> TAKE o \in 1..l
    <3>1. 2 + o \in 1..n /\ 2 + o \in 1..SymbolLen
      BY <1>6, <2>3
    <3>2. w[i + (2 + o) - 1] = Symbol(b, s)[2 + o]
      BY <1>11, <3>1 DEF At
    <3>3. QED
      BY <1>7, <3>1, <3>2
  <2>7. SubSeq(Pending, 2 + 1, 2 + l) = SubSeq(Symbol(b, s), 2 + 1, 2 + l)
    BY <2>3, <2>4, <2>5, <2>6, SeqEqual
  <2>8. QED
    BY <2>3, <2>7
<1>12. Dropped(w, i - 1 + SymbolLen)'
  <2>1. raw' = SubSeq(Pending, SymbolLen + 1, SymbolLen + k) /\ SymbolLen + k <= Len(Pending)
    <3>1. SymbolLen + k = Len(Pending)
      BY <1>2, <1>5, <1>6
    <3>2. SymbolLen + k <= SymbolLen + k
      BY <1>3, <1>6
    <3>3. QED
      BY <1>1, <3>1, <3>2
  <2>2. Len(raw') = k /\ \A j \in 1..k : raw'[j] = Pending[SymbolLen + j]
    <3>1. PICK c \in Seq(Cell), x \in Nat : c = Pending /\ x = SymbolLen
      BY <1>2, <1>3
    <3>2. k \in Nat /\ x + k <= Len(c)
      BY <1>3, <1>6, <2>1, <3>1
    <3>3. /\ Len(SubSeq(c, x + 1, x + k)) = k
          /\ \A j \in 1..k : SubSeq(c, x + 1, x + k)[j] = c[x + j]
      BY <3>2, Stretch
    <3>4. raw' = SubSeq(c, x + 1, x + k)
      BY <2>1, <3>1
    <3>5. QED
      BY <3>1, <3>3, <3>4
  <2>3. i - 1 + SymbolLen \in Nat /\ Len(w) = (i - 1 + SymbolLen) + k
    <3>1. PICK l, x : l = Len(raw) /\ x = SymbolLen
      OBVIOUS
    <3>4. l \in Nat /\ x \in Nat /\ p \in Nat /\ i = p + m + 1 /\ k = l - m - x
      BY <1>3, <1>5, <3>1
    <3>5. p + l = (i - 1 + x) + k
      BY <3>4
    <3>2. Len(w) = (i - 1 + SymbolLen) + k
      BY <1>3, <3>1, <3>5
    <3>3. QED
      BY <1>3, <1>6, <3>2
  <2>4. \A j \in 1..k : raw'[j] = w[(i - 1 + SymbolLen) + j]
    <3> TAKE j \in 1..k
    <3>1. SymbolLen + j \in 1..n /\ i + (SymbolLen + j) - 1 = (i - 1 + SymbolLen) + j
      BY <1>3, <1>6
    <3>2. QED
      BY <1>7, <2>2, <3>1
  <2>5. w = wire'
    BY <1>1, <1>3
  <2>6. QED
    BY <2>2, <2>3, <2>4, <2>5 DEF Dropped
<1>13. TakenAt(w, p, i, data)
  BY <1>1, <1>6, <1>8, <1>9, <1>10, <1>11 DEF TakenAt
<1>14. QED
  BY <1>12, <1>13

\* A false marker gives a symbol of no block of the shard, and no block.
LEMMA TrapTaken ==
  ASSUME Unmoved, size \in Sizes, overhead \in Nat, Typed(blocks), out \in Seq(Output),
         NEW w \in Seq(Cell), NEW p \in Nat, NEW m \in 0..BlocksOf(size),
         ~Spoiled(w), Good(w, p, m), NEW i, NEW data, TakenAt(w, p, i, data), i \in Traps(w)
  PROVE  Good(w, i - 1 + SymbolLen, m)'
<1> DEFINE q == i - 1 + SymbolLen
<1>1. PICK b, s : b = IdOf(w[i + 1])[1] /\ s = IdOf(w[i + 1])[2]
  OBVIOUS
<1>2. /\ i \in Nat \ {0} /\ p < i /\ w[i + 1] \in Cell /\ Accept(b, s, data)
      /\ \A j \in p + 1..i - 1 : w[j] # Magic
  BY <1>1 DEF TakenAt
<1>3. /\ b \in Nat /\ s \in Nat /\ BlocksOf(size) \in Nat /\ m \in Nat /\ m <= BlocksOf(size)
      /\ q \in Nat /\ p <= q /\ SymbolLen \in Nat
  <2>1. b \in Nat /\ s \in Nat
    BY <1>1, <1>2, IdIs
  <2>2. BlocksOf(size) \in Nat /\ SymbolLen \in Nat
    BY LastBlock, Constants
  <2>3. QED
    BY <1>2, <2>1, <2>2
<1>4. b >= BlocksOf(size) /\ Cardinality(Traps(w)) <= Repair
  <2>1. ~(b < BlocksOf(size))
    BY <1>1 DEF Spoiled
  <2>2. ~(Cardinality(Traps(w)) > Repair) /\ Cardinality(Traps(w)) \in Nat /\ Repair \in Nat
    BY TrapsFinite, Constants DEF Spoiled
  <2>3. QED
    BY <1>3, <2>1, <2>2
<1>5. ~EntryOf(b).done /\ \A r \in Held(b) : \E k \in Traps(w) : r = IdOf(w[k + 1])[2]
  <2>1. CASE b \in DOMAIN blocks
    BY <1>4, <2>1, EntryTyped DEF Good, FalseOnes
  <2>2. CASE b \notin DOMAIN blocks
    BY <2>2, EntryTyped
  <2>3. QED
    BY <2>1, <2>2
<1>6. ~Enough(Held(b) \cup {s})
  <2>1. \A r \in Held(b) \cup {s} : \E k \in Traps(w) : r = IdOf(w[k + 1])[2]
    BY <1>1, <1>5
  <2>2. QED
    BY <1>4, <2>1, FalseFew
<1>7. /\ \A y \in DOMAIN blocks' : y # b => y \in DOMAIN blocks /\ blocks'[y] = blocks[y]
      /\ b \in DOMAIN blocks' /\ out' = out /\ DOMAIN blocks \subseteq DOMAIN blocks'
      /\ blocks'[b].done = EntryOf(b).done /\ Held(b)' = Held(b) \cup {s}
  <2>1. overhead' = overhead /\ Kept \in Nat
    BY Constants DEF Unmoved
  <2>2. QED
    BY <1>2, <1>3, <1>5, <1>6, <2>1, Accepted
<1>8. \A y : y # b => EntryOf(y)' = EntryOf(y) /\ Held(y)' = Held(y)
  BY <1>7 DEF EntryOf, Held
<1>9. /\ BlocksOf(size') = BlocksOf(size)
      /\ \A y, r : Reached(w, q, y, r)' <=> Reached(w, q, y, r)
      /\ \A y : Passed(w, q, y)' <=> Passed(w, q, y)
      /\ Traps(w)' = Traps(w)
  BY SameShard
<1>10. /\ \A y, r : Reached(w, p, y, r) => Reached(w, q, y, r)
       /\ \A y : Passed(w, p, y) => Passed(w, q, y)
  <2> HIDE DEF q
  <2>1. QED
    BY <1>3, Further
<1>11. \A y \in DOMAIN blocks' : y \in Nat
  BY <1>3, <1>7 DEF Typed
<1>12. RightOnes(w, q, m)'
  <2>1. ASSUME NEW y \in DOMAIN blocks', y < BlocksOf(size)
        PROVE  /\ blocks'[y].bad = {} /\ \A r \in Held(y)' : r < Symbols /\ Reached(w, q, y, r)
               /\ IF blocks'[y].done THEN y < m ELSE ~Decodable(blocks[y])'
    <3>1. y # b /\ y \in DOMAIN blocks /\ blocks'[y] = blocks[y] /\ Held(y)' = Held(y)
      BY <1>3, <1>4, <1>7, <1>8, <1>11, <2>1
    <3>2. /\ blocks[y].bad = {} /\ \A r \in Held(y) : r < Symbols /\ Reached(w, p, y, r)
          /\ IF blocks[y].done THEN y < m ELSE ~Decodable(blocks[y])
      BY <2>1, <3>1 DEF Good, RightOnes
    <3>3. Decodable(blocks[y])' <=> Decodable(blocks[y])
      BY <3>1 DEF Decodable, Unmoved
    <3>4. QED
      BY <1>10, <3>1, <3>2, <3>3
  <2>2. QED
    BY <1>9, <2>1 DEF RightOnes
<1>13. FalseOnes(w)'
  <2>1. ASSUME NEW y \in DOMAIN blocks', y >= BlocksOf(size)
        PROVE  ~blocks'[y].done /\ \A r \in Held(y)' : \E k \in Traps(w) : r = IdOf(w[k + 1])[2]
    <3>1. CASE y = b
      BY <1>1, <1>5, <1>7, <3>1
    <3>2. CASE y # b
      <4>1. y \in DOMAIN blocks /\ blocks'[y] = blocks[y] /\ Held(y)' = Held(y)
        BY <1>7, <1>8, <3>2
      <4>2. QED
        BY <2>1, <4>1 DEF Good, FalseOnes
    <3>3. QED
      BY <3>1, <3>2
  <2>2. QED
    BY <1>9, <2>1 DEF FalseOnes
<1>14. OldOnes(w, q, m)'
  <2>1. ASSUME NEW y \in 0..(m - 1)
        PROVE  EntryOf(y)'.done \/ (Passed(w, q, y) /\ \A r \in Held(y)' : r >= Source)
    <3>1. y # b
      BY <1>3, <1>4
    <3>2. EntryOf(y)' = EntryOf(y) /\ Held(y)' = Held(y)
      BY <1>8, <3>1
    <3>3. EntryOf(y).done \/ (Passed(w, p, y) /\ \A r \in Held(y) : r >= Source)
      BY DEF Good, OldOnes
    <3>4. QED
      BY <1>10, <3>2, <3>3
  <2>2. QED
    BY <1>9, <2>1 DEF OldOnes
<1>15. NoneMissed(w, q, m)'
  <2>1. \A y \in 0..(BlocksOf(size) - 1) : \A r \in Held(y) : y < m \/ r \in Held(y)'
    <3>1. \A y \in 0..(BlocksOf(size) - 1) : y # b
      BY <1>3, <1>4
    <3>2. QED
      BY <1>8, <3>1
  <2>2. m <= m /\ NoneMissed(w, p, m)
    BY <1>3 DEF Good
  <2>3. QED
    BY <1>2, <1>3, <2>1, <2>2, MissedMore
<1>16. out' = Prefix(m)
  BY <1>7 DEF Good
<1>17. QED
  BY <1>12, <1>13, <1>14, <1>15, <1>16 DEF Good, Prefix

\* Of a block that the decoder has passed only repair symbols still come.
LEMMA PassedHigh ==
  ASSUME size \in Sizes, NEW w \in Seq(Cell), NEW a, History(w, a), NEW p \in Nat,
         NEW y \in 0..(BlocksOf(size) - 1), NEW r \in 0..(Symbols - 1), NEW i \in Nat \ {0},
         At(w, i, y, r), p < i, Passed(w, p, y)
  PROVE  r >= Source
<1>1. /\ Source \in Nat \ {0} /\ BlocksOf(size) \in Nat /\ Symbols \in Nat /\ y \in Nat /\ r \in Nat
  BY Constants, LastBlock
<1>2. PICK c \in (y + 1)..(BlocksOf(size) - 1), s \in (Source - 1)..(Symbols - 1), j \in 1..p :
        At(w, j, c, s)
  BY DEF Passed, Reached
<1>3. /\ c \in 0..(BlocksOf(size) - 1) /\ y < c /\ s \in 0..(Symbols - 1) /\ s >= Source - 1
      /\ j \in Nat \ {0} /\ j < i
  BY <1>1
<1>4. s < r
  BY <1>2, <1>3, SecondTime
<1>5. s \in Nat
  BY <1>3
<1>6. QED
  BY <1>1, <1>3, <1>4, <1>5

\* The block that is due has not arrived well enough to be decoded.
LEMMA NotDue ==
  ASSUME size \in Sizes, overhead \in Nat, Typed(blocks), NEW w \in Seq(Cell), NEW p \in Nat,
         NEW m \in 0..(BlocksOf(size) - 1), Good(w, p, m),
         Cardinality(Come(w, m)) >= Source + overhead + Cardinality(Traps(w)),
         \A r \in Come(w, m) : Reached(w, p, m, r)
  PROVE  FALSE
<1>1. m \in Nat /\ m < BlocksOf(size)
  BY LastBlock
<1>2. /\ NoneMissed(w, p, m)
      /\ m \in DOMAIN blocks => /\ \A r \in Held(m) : r < Symbols
                                /\ IF blocks[m].done THEN m < m ELSE ~Decodable(blocks[m])
  BY <1>1 DEF Good, RightOnes
<1>3. Held(m) \subseteq 0..(Symbols - 1)
  <2>1. Held(m) \subseteq Nat /\ (m \notin DOMAIN blocks => Held(m) = {})
    BY EntryTyped
  <2>2. \A r \in Held(m) : r < Symbols
    BY <1>2, <2>1
  <2>3. \A r \in Nat : r < Symbols => r \in 0..(Symbols - 1)
    BY Constants
  <2>4. QED
    BY <2>1, <2>2, <2>3
<1>4. Enough(Held(m))
  BY <1>2, <1>3, HeldEnough
<1>5. m \in DOMAIN blocks
  <2>1. SUFFICES ASSUME m \notin DOMAIN blocks PROVE FALSE
    OBVIOUS
  <2>2. Held(m) = {}
    BY <2>1, EntryTyped
  <2>3. ~Enough({})
    BY HighFew
  <2>4. QED
    BY <1>4, <2>2, <2>3
<1>6. Decodable(blocks[m])
  BY <1>4, <1>5, EntryTyped DEF Enough, Decodable, Held
<1>7. QED
  BY <1>2, <1>5, <1>6, <1>1

\* When a symbol of a later block comes, the block that is due has all it needs.
LEMMA BlockBefore ==
  ASSUME size \in Sizes, overhead \in Nat, Typed(blocks), NEW w \in Seq(Cell), NEW a, History(w, a),
         ~Spoiled(w), NEW p \in Nat, NEW m \in Nat, Good(w, p, m),
         NEW b \in 0..(BlocksOf(size) - 1), m < b, NEW s \in 0..(Symbols - 1), NEW i \in Nat \ {0},
         At(w, i, b, s), p < i, \A j \in p + 1..i - 1 : w[j] # Magic
  PROVE  FALSE
<1>1. m \in 0..(BlocksOf(size) - 1) /\ m \in 0..(b - 1) /\ b \in Nat /\ s \in Nat /\ BlocksOf(size) \in Nat
  BY LastBlock
<1>2. Come(w, b) # {}
  BY <1>1, ComeIs
<1>3. Cardinality(Come(w, m)) >= Source + overhead + Cardinality(Traps(w))
  <2>1. ~(Cardinality(Come(w, m)) < Source + overhead + Cardinality(Traps(w)))
    BY <1>1, <1>2 DEF Spoiled
  <2>2. /\ Cardinality(Come(w, m)) \in Nat /\ Cardinality(Traps(w)) \in Nat /\ Source \in Nat
    BY ComeFinite, TrapsFinite, Constants
  <2>3. QED
    BY <2>1, <2>2
<1>4. ASSUME NEW h \in Nat \ {0}, NEW r \in Nat, At(w, h, m, r), h < i PROVE h \in 1..p
  <2>1. w[h] = Magic
    BY <1>4, AtCells
  <2>2. h \notin p + 1..i - 1
    BY <2>1
  <2>3. QED
    BY <1>4, <2>2
<1>5. ASSUME NEW r \in Come(w, m) PROVE Reached(w, p, m, r)
  <2>1. r \in 0..(Symbols - 1) /\ r \in Nat
    BY ComeFinite
  <2>2. PICK j \in Nat \ {0} : At(w, j, m, r)
    BY <1>5, <2>1, ComeIs
  <2>3. CASE j < i
    BY <1>4, <2>1, <2>2, <2>3 DEF Reached
  <2>4. CASE j = i
    <3>1. b = m
      BY <1>1, <2>1, <2>2, <2>4, AtOne
    <3>2. QED
      BY <1>1, <3>1
  <2>5. CASE i < j
    <3>1. Earlier(w, i, m, r)
      BY <1>1, <2>1, <2>2, <2>5, SecondTime
    <3>2. PICK h \in Nat \ {0} : h + SymbolLen <= i /\ At(w, h, m, r)
      BY <3>1 DEF Earlier
    <3>3. h < i
      BY <3>2, Constants
    <3>4. QED
      BY <1>4, <2>1, <3>2, <3>3 DEF Reached
  <2>6. QED
    BY <2>3, <2>4, <2>5
<1>6. QED
  BY <1>1, <1>3, <1>5, NotDue

\* A right symbol of the shard is taken.
Taking(w, p, m, i, b, s, data) ==
  /\ b \in 0..(BlocksOf(size) - 1) /\ s \in 0..(Symbols - 1) /\ At(w, i, b, s)
  /\ i \in Nat \ {0} /\ p < i /\ \A j \in p + 1..i - 1 : w[j] # Magic
  /\ Accept(b, s, data) /\ data = SubSeq(Symbol(b, s), 3, SymbolLen)

\* What its block was, and what it is afterwards.
LEMMA BlockTaken ==
  ASSUME size \in Sizes, overhead \in Nat, Typed(blocks), NEW w \in Seq(Cell), NEW a, History(w, a),
         NEW p \in Nat, NEW m \in 0..BlocksOf(size), Good(w, p, m),
         NEW i, NEW b, NEW s, NEW data, Taking(w, p, m, i, b, s, data)
  PROVE  /\ b \in Nat /\ s \in Nat /\ s < Symbols /\ BlocksOf(size) \in Nat /\ b < BlocksOf(size)
         /\ m \in Nat /\ m <= BlocksOf(size) /\ i - 1 + SymbolLen \in Nat
         /\ p <= i - 1 + SymbolLen
         /\ EntryOf(b).bad = {} /\ (b \in DOMAIN blocks' => blocks'[b].bad = {})
         /\ EntryOf(b).done => b \in DOMAIN blocks /\ b < m
         /\ out' = out \/ out' = Append(out, [block |-> b, right |-> TRUE])
         /\ \A r \in Held(b) \cup {s} :
              r \in 0..(Symbols - 1) /\ Reached(w, i - 1 + SymbolLen, b, r)
         /\ ~EntryOf(b).done /\ b < m =>
              Passed(w, p, b) /\ \A r \in Held(b) \cup {s} : r >= Source
<1> DEFINE q == i - 1 + SymbolLen
<1>1. /\ b \in 0..(BlocksOf(size) - 1) /\ s \in 0..(Symbols - 1) /\ At(w, i, b, s)
      /\ i \in Nat \ {0} /\ p < i
      /\ Accept(b, s, data) /\ data = SubSeq(Symbol(b, s), 3, SymbolLen)
  BY DEF Taking
<1>2. /\ b \in Nat /\ s \in Nat /\ s < Symbols /\ BlocksOf(size) \in Nat /\ b < BlocksOf(size)
      /\ m \in Nat /\ m <= BlocksOf(size)
  BY <1>1, LastBlock, Constants, SMTT(30)
<1>3. q \in Nat /\ p <= q /\ i <= q
  BY <1>1, Constants
<1>4. /\ EntryOf(b).bad = {} /\ (EntryOf(b).done => b \in DOMAIN blocks /\ b < m)
      /\ \A r \in Held(b) : r < Symbols /\ Reached(w, p, b, r)
  <2>1. CASE b \in DOMAIN blocks
    <3>1. EntryOf(b) = blocks[b]
      BY <2>1, EntryTyped
    <3>2. QED
      BY <1>2, <2>1, <3>1 DEF Good, RightOnes
  <2>2. CASE b \notin DOMAIN blocks
    <3>1. EntryOf(b) = NoEntry /\ Held(b) = {}
      BY <2>2, EntryTyped DEF EntryOf
    <3>2. QED
      BY <3>1 DEF NoEntry
  <2>3. QED
    BY <2>1, <2>2
<1>5. /\ b \in DOMAIN blocks' => blocks'[b].bad = {}
      /\ out' = out \/ out' = Append(out, [block |-> b, right |-> TRUE])
  <2>1. Accept(b, s, SubSeq(Symbol(b, s), 3, SymbolLen))
    BY <1>1
  <2>2. QED
    BY <1>2, <1>4, <2>1, AcceptedRight
<1>6. Reached(w, q, b, s)
  <2>1. i \in 1..q
    BY <1>1, <1>3
  <2>2. QED
    BY <1>1, <2>1 DEF Reached
<1>7. \A r \in Held(b) \cup {s} : r \in 0..(Symbols - 1) /\ Reached(w, q, b, r)
  <2>1. \A r \in Held(b) : r \in Nat /\ r < Symbols
    BY <1>4, EntryTyped
  <2>2. \A r \in Nat : r < Symbols => r \in 0..(Symbols - 1)
    BY Constants
  <2>3. \A r \in Held(b) : Reached(w, q, b, r)
    <3> HIDE DEF q
    <3>1. QED
      BY <1>3, <1>4, Further
  <2>4. QED
    BY <1>1, <1>6, <2>1, <2>2, <2>3
<1>8. ASSUME ~EntryOf(b).done, b < m PROVE Passed(w, p, b) /\ \A r \in Held(b) \cup {s} : r >= Source
  <2>1. b \in 0..(m - 1)
    BY <1>2, <1>8
  <2>2. Passed(w, p, b) /\ \A r \in Held(b) : r >= Source
    BY <1>8, <2>1 DEF Good, OldOnes
  <2>3. s >= Source
    BY <1>1, <2>2, PassedHigh
  <2>4. QED
    BY <2>2, <2>3
<1>9. QED
  BY <1>2, <1>3, <1>4, <1>5, <1>7, <1>8

\* The symbol is kept, or its block is known.
LEMMA KeptTaken ==
  ASSUME Unmoved, size \in Sizes, overhead \in Nat, Typed(blocks), NEW w \in Seq(Cell),
         NEW a, History(w, a), NEW p \in Nat, NEW m \in 0..BlocksOf(size), Good(w, p, m),
         NEW i, NEW b, NEW s, NEW data, Taking(w, p, m, i, b, s, data),
         \A y \in DOMAIN blocks' : y # b => y \in DOMAIN blocks /\ blocks'[y] = blocks[y],
         b \in DOMAIN blocks', out' = out, DOMAIN blocks \subseteq DOMAIN blocks',
         blocks'[b].done = EntryOf(b).done,
         EntryOf(b).done => blocks'[b] = EntryOf(b),
         ~EntryOf(b).done => Held(b)' = Held(b) \cup {s} /\ ~Decodable(blocks[b])'
  PROVE  Good(w, i - 1 + SymbolLen, m)'
<1> DEFINE q == i - 1 + SymbolLen
<1>1. /\ b \in Nat /\ s \in Nat /\ BlocksOf(size) \in Nat /\ b < BlocksOf(size)
      /\ m \in Nat /\ m <= BlocksOf(size) /\ q \in Nat /\ p <= q
      /\ (b \in DOMAIN blocks' => blocks'[b].bad = {})
      /\ EntryOf(b).done => b \in DOMAIN blocks /\ b < m
      /\ \A r \in Held(b) \cup {s} : r \in 0..(Symbols - 1) /\ Reached(w, q, b, r)
      /\ ~EntryOf(b).done /\ b < m =>
           Passed(w, p, b) /\ \A r \in Held(b) \cup {s} : r >= Source
  BY BlockTaken
<1>2. \A y : y # b => EntryOf(y)' = EntryOf(y) /\ Held(y)' = Held(y)
  BY DEF EntryOf, Held
<1>3. EntryOf(b)' = blocks'[b] /\ Held(b) \subseteq Held(b)' /\ Held(b)' \subseteq Held(b) \cup {s}
  <2>1. EntryOf(b)' = blocks'[b]
    BY DEF EntryOf
  <2>2. EntryOf(b).done => Held(b)' = Held(b)
    BY <2>1 DEF Held
  <2>3. QED
    BY <2>1, <2>2
<1>4. /\ BlocksOf(size') = BlocksOf(size)
      /\ \A y, r : Reached(w, q, y, r)' <=> Reached(w, q, y, r)
      /\ \A y : Passed(w, q, y)' <=> Passed(w, q, y)
      /\ Traps(w)' = Traps(w)
  BY SameShard
<1>5. /\ \A y, r : Reached(w, p, y, r) => Reached(w, q, y, r)
      /\ \A y : Passed(w, p, y) => Passed(w, q, y)
  <2> HIDE DEF q
  <2>1. QED
    BY <1>1, Further
<1>6. \A r \in 0..(Symbols - 1) : r < Symbols
  BY Constants
<1>7. RightOnes(w, q, m)'
  <2>1. ASSUME NEW y \in DOMAIN blocks', y < BlocksOf(size)
        PROVE  /\ blocks'[y].bad = {} /\ \A r \in Held(y)' : r < Symbols /\ Reached(w, q, y, r)
               /\ IF blocks'[y].done THEN y < m ELSE ~Decodable(blocks[y])'
    <3>1. CASE y = b
      <4>1. \A r \in Held(b)' : r < Symbols /\ Reached(w, q, b, r)
        BY <1>1, <1>3, <1>6
      <4>2. blocks'[b].done => b < m
        BY <1>1
      <4>3. ~blocks'[b].done => ~Decodable(blocks[b])'
        OBVIOUS
      <4>4. QED
        BY <1>1, <2>1, <3>1, <4>1, <4>2, <4>3
    <3>2. CASE y # b
      <4>1. y \in DOMAIN blocks /\ blocks'[y] = blocks[y] /\ Held(y)' = Held(y)
        BY <1>2, <2>1, <3>2
      <4>2. /\ blocks[y].bad = {} /\ \A r \in Held(y) : r < Symbols /\ Reached(w, p, y, r)
            /\ IF blocks[y].done THEN y < m ELSE ~Decodable(blocks[y])
        BY <2>1, <4>1 DEF Good, RightOnes
      <4>3. Decodable(blocks[y])' <=> Decodable(blocks[y])
        BY <4>1 DEF Decodable, Unmoved
      <4>4. QED
        BY <1>5, <4>1, <4>2, <4>3
    <3>3. QED
      BY <3>1, <3>2
  <2>2. QED
    BY <1>4, <2>1 DEF RightOnes
<1>8. FalseOnes(w)'
  <2>1. ASSUME NEW y \in DOMAIN blocks', y >= BlocksOf(size)
        PROVE  ~blocks'[y].done /\ \A r \in Held(y)' : \E k \in Traps(w) : r = IdOf(w[k + 1])[2]
    <3>1. y # b
      BY <1>1, <2>1
    <3>2. y \in DOMAIN blocks /\ blocks'[y] = blocks[y] /\ Held(y)' = Held(y)
      BY <1>2, <3>1
    <3>3. QED
      BY <2>1, <3>2 DEF Good, FalseOnes
  <2>2. QED
    BY <1>4, <2>1 DEF FalseOnes
<1>9. OldOnes(w, q, m)'
  <2>1. ASSUME NEW y \in 0..(m - 1)
        PROVE  EntryOf(y)'.done \/ (Passed(w, q, y) /\ \A r \in Held(y)' : r >= Source)
    <3>1. CASE y = b
      <4>1. b < m
        BY <1>1, <3>1
      <4>2. CASE EntryOf(b).done
        BY <1>3, <3>1, <4>2
      <4>3. CASE ~EntryOf(b).done
        BY <1>1, <1>3, <1>5, <3>1, <4>1, <4>3
      <4>4. QED
        BY <4>2, <4>3
    <3>2. CASE y # b
      <4>1. EntryOf(y)' = EntryOf(y) /\ Held(y)' = Held(y)
        BY <1>2, <3>2
      <4>2. EntryOf(y).done \/ (Passed(w, p, y) /\ \A r \in Held(y) : r >= Source)
        BY DEF Good, OldOnes
      <4>3. QED
        BY <1>5, <4>1, <4>2
    <3>3. QED
      BY <3>1, <3>2
  <2>2. QED
    BY <1>4, <2>1 DEF OldOnes
<1>10. NoneMissed(w, q, m)'
  <2>1. \A y \in 0..(BlocksOf(size) - 1) : \A r \in Held(y) : y < m \/ r \in Held(y)'
    <3>1. \A y : Held(y) \subseteq Held(y)'
      BY <1>2, <1>3
    <3>2. QED
      BY <3>1
  <2>2. b < m \/ s \in Held(b)'
    BY <1>1
  <2>3. /\ b \in 0..(BlocksOf(size) - 1) /\ s \in 0..(Symbols - 1) /\ At(w, i, b, s)
        /\ i \in Nat \ {0} /\ p < i /\ \A j \in p + 1..i - 1 : w[j] # Magic
    BY DEF Taking
  <2>4. m <= m /\ NoneMissed(w, p, m)
    BY <1>1 DEF Good
  <2>5. QED
    BY <1>1, <2>1, <2>2, <2>3, <2>4, MissedMore
<1>11. out' = Prefix(m)
  BY DEF Good
<1>12. QED
  BY <1>7, <1>8, <1>9, <1>10, <1>11 DEF Good, Prefix

\* The symbol completes the block that is due, and it comes out.
LEMMA BlockOut ==
  ASSUME Unmoved, size \in Sizes, overhead \in Nat, Typed(blocks), out \in Seq(Output),
         NEW w \in Seq(Cell), NEW a, History(w, a), ~Spoiled(w), NEW p \in Nat,
         NEW m \in 0..BlocksOf(size), Good(w, p, m),
         NEW i, NEW b, NEW s, NEW data, Taking(w, p, m, i, b, s, data),
         \A y \in DOMAIN blocks' : y # b => y \in DOMAIN blocks /\ blocks'[y] = blocks[y],
         b \in DOMAIN blocks',
         ~EntryOf(b).done, Enough(Held(b) \cup {s}),
         \E f \in BOOLEAN : out' = Append(out, [block |-> b, right |-> f]),
         blocks'[b].done, Held(b)' = Held(b) \cup {s},
         \A y \in DOMAIN blocks : y >= b => y \in DOMAIN blocks'
  PROVE  m + 1 \in 0..BlocksOf(size) /\ Good(w, i - 1 + SymbolLen, m + 1)'
<1> DEFINE q == i - 1 + SymbolLen
           n == m + 1
<1>1. /\ b \in Nat /\ s \in Nat /\ BlocksOf(size) \in Nat /\ b < BlocksOf(size)
      /\ m \in Nat /\ m <= BlocksOf(size) /\ q \in Nat /\ p <= q
      /\ (b \in DOMAIN blocks' => blocks'[b].bad = {})
      /\ out' = out \/ out' = Append(out, [block |-> b, right |-> TRUE])
      /\ \A r \in Held(b) \cup {s} : r \in 0..(Symbols - 1) /\ Reached(w, q, b, r)
      /\ ~EntryOf(b).done /\ b < m =>
           Passed(w, p, b) /\ \A r \in Held(b) \cup {s} : r >= Source
  BY BlockTaken, ZenonT(30)
<1>2. /\ b \in 0..(BlocksOf(size) - 1) /\ s \in 0..(Symbols - 1) /\ At(w, i, b, s)
      /\ i \in Nat \ {0} /\ p < i /\ \A j \in p + 1..i - 1 : w[j] # Magic
  BY DEF Taking
<1>3. \A y : y # b /\ y \in DOMAIN blocks' => EntryOf(y)' = EntryOf(y) /\ Held(y)' = Held(y)
  BY DEF EntryOf, Held
<1>4. /\ BlocksOf(size') = BlocksOf(size)
      /\ \A y, r : Reached(w, q, y, r)' <=> Reached(w, q, y, r)
      /\ \A y : Passed(w, q, y)' <=> Passed(w, q, y)
      /\ Traps(w)' = Traps(w)
  BY SameShard
<1>5. /\ \A y, r : Reached(w, p, y, r) => Reached(w, q, y, r)
      /\ \A y : Passed(w, p, y) => Passed(w, q, y)
  <2> HIDE DEF q
  <2>1. QED
    BY <1>1, Further
<1>6. \A r \in 0..(Symbols - 1) : r < Symbols
  BY Constants
<1>7. b = m
  <2>1. ~(b < m)
    <3>1. SUFFICES ASSUME b < m PROVE FALSE
      OBVIOUS
    <3>2. \A r \in Held(b) \cup {s} : r >= Source /\ r \in 0..(Symbols - 1)
      BY <1>1, <3>1
    <3>3. \A r \in 0..(Symbols - 1) : r >= Source => r \in Source..(Symbols - 1)
      BY Constants
    <3>4. Held(b) \cup {s} \in SUBSET (Source..(Symbols - 1))
      BY <3>2, <3>3
    <3>5. QED
      BY <3>4, HighFew
  <2>2. ~(m < b)
    BY <1>1, <1>2, BlockBefore
  <2>3. QED
    BY <1>1, <2>1, <2>2
<1>8. n \in Nat /\ m <= n /\ n <= BlocksOf(size) /\ n \in 0..BlocksOf(size)
  BY <1>1, <1>7
<1>9. RightOnes(w, q, n)'
  <2>1. ASSUME NEW y \in DOMAIN blocks', y < BlocksOf(size)
        PROVE  /\ blocks'[y].bad = {} /\ \A r \in Held(y)' : r < Symbols /\ Reached(w, q, y, r)
               /\ IF blocks'[y].done THEN y < n ELSE ~Decodable(blocks[y])'
    <3>1. CASE y = b
      <4>1. \A r \in Held(b)' : r < Symbols /\ Reached(w, q, b, r)
        BY <1>1, <1>6
      <4>2. b < n
        BY <1>1, <1>7
      <4>3. QED
        BY <1>1, <2>1, <3>1, <4>1, <4>2
    <3>2. CASE y # b
      <4>1. y \in DOMAIN blocks /\ blocks'[y] = blocks[y] /\ Held(y)' = Held(y) /\ y \in Nat
        BY <1>3, <2>1, <3>2 DEF Typed
      <4>2. /\ blocks[y].bad = {} /\ \A r \in Held(y) : r < Symbols /\ Reached(w, p, y, r)
            /\ IF blocks[y].done THEN y < m ELSE ~Decodable(blocks[y])
        BY <2>1, <4>1 DEF Good, RightOnes
      <4>3. Decodable(blocks[y])' <=> Decodable(blocks[y])
        BY <4>1 DEF Decodable, Unmoved
      <4>4. y < m => y < n
        BY <1>1, <4>1
      <4>5. QED
        BY <1>5, <4>1, <4>2, <4>3, <4>4
    <3>3. QED
      BY <3>1, <3>2
  <2> HIDE DEF n
  <2>2. QED
    BY <1>4, <2>1 DEF RightOnes
<1>10. FalseOnes(w)'
  <2>1. ASSUME NEW y \in DOMAIN blocks', y >= BlocksOf(size)
        PROVE  ~blocks'[y].done /\ \A r \in Held(y)' : \E k \in Traps(w) : r = IdOf(w[k + 1])[2]
    <3>1. y # b
      BY <1>1, <2>1
    <3>2. y \in DOMAIN blocks /\ blocks'[y] = blocks[y] /\ Held(y)' = Held(y)
      BY <1>3, <3>1
    <3>3. QED
      BY <2>1, <3>2 DEF Good, FalseOnes
  <2>2. QED
    BY <1>4, <2>1 DEF FalseOnes
<1>11. \A y \in 0..(m - 1) : Passed(w, q, y)
  <2> TAKE y \in 0..(m - 1)
  <2>1. Held(b) \cup {s} \subseteq 0..(Symbols - 1)
    BY <1>1
  <2>2. PICK r \in Held(b) \cup {s} : r >= Source - 1
    BY <2>1, EnoughHigh
  <2>3. r \in 0..(Symbols - 1) /\ Reached(w, q, b, r)
    BY <1>1
  <2>4. r \in (Source - 1)..(Symbols - 1)
    BY <2>2, <2>3, Constants
  <2>5. b \in (y + 1)..(BlocksOf(size) - 1)
    BY <1>1, <1>7
  <2>6. QED
    BY <2>3, <2>4, <2>5 DEF Passed
<1>12. OldOnes(w, q, n)'
  <2>1. ASSUME NEW y \in 0..(n - 1)
        PROVE  EntryOf(y)'.done \/ (Passed(w, q, y) /\ \A r \in Held(y)' : r >= Source)
    <3>1. y = b \/ (y # b /\ y \in 0..(m - 1))
      BY <1>1, <1>7
    <3>2. CASE y = b
      <4>1. EntryOf(b)' = blocks'[b]
        BY DEF EntryOf
      <4>2. QED
        BY <3>2, <4>1
    <3>3. CASE y # b /\ y \in 0..(m - 1) /\ y \in DOMAIN blocks'
      <4>1. EntryOf(y)' = EntryOf(y) /\ Held(y)' = Held(y)
        BY <1>3, <3>3
      <4>2. EntryOf(y).done \/ (Passed(w, p, y) /\ \A r \in Held(y) : r >= Source)
        BY <3>3 DEF Good, OldOnes
      <4>3. QED
        BY <1>5, <4>1, <4>2
    <3>4. CASE y # b /\ y \in 0..(m - 1) /\ y \notin DOMAIN blocks'
      <4>1. Held(y)' = {}
        BY <3>4 DEF Held, EntryOf, NoEntry
      <4>2. QED
        BY <1>11, <3>4, <4>1
    <3>5. QED
      BY <3>1, <3>2, <3>3, <3>4
  <2> HIDE DEF n
  <2>2. QED
    BY <1>4, <2>1 DEF OldOnes
<1>13. NoneMissed(w, q, n)'
  <2>1. ASSUME NEW y \in 0..(BlocksOf(size) - 1), NEW r \in Held(y), ~(y < n)
        PROVE  r \in Held(y)'
    <3>1. y \in DOMAIN blocks /\ y \in Nat
      BY <2>1, EntryTyped
    <3>2. y # b /\ y >= b
      BY <1>1, <1>7, <2>1, <3>1, SMTT(30)
    <3>3. y \in DOMAIN blocks'
      BY <3>1, <3>2
    <3>4. QED
      BY <1>3, <2>1, <3>2, <3>3
  <2>2. b < n
    BY <1>1, <1>7
  <2>3. NoneMissed(w, p, m)
    BY DEF Good
  <2> HIDE DEF n
  <2>4. QED
    BY <1>1, <1>2, <1>8, <2>1, <2>2, <2>3, MissedMore
<1>14. out' = Prefix(n)
  <2>1. PICK f \in BOOLEAN : out' = Append(out, [block |-> b, right |-> f])
    OBVIOUS
  <2>2. [block |-> b, right |-> f] \in Output
    BY <1>1 DEF Output
  <2>3. Len(out) \in Nat /\ Len(out') = Len(out) + 1
    BY <2>1, <2>2, AppendElems, LenProperties
  <2>4. out' = Append(out, [block |-> b, right |-> TRUE])
    BY <1>1, <2>3
  <2>5. out = Prefix(m)
    BY DEF Good
  <2>6. Append(Prefix(m), [block |-> m, right |-> TRUE]) = Prefix(m + 1)
    BY <1>1 DEF Prefix
  <2>7. QED
    BY <1>7, <2>4, <2>5, <2>6
<1>15. Good(w, q, n)'
  <2> HIDE DEF n
  <2>1. QED
    BY <1>9, <1>10, <1>12, <1>13, <1>14 DEF Good, Prefix
<1>16. QED
  BY <1>8, <1>15

LEMMA SymbolRepairs ==
  ASSUME Unmoved, size \in Sizes, overhead \in Nat, Typed(blocks), out \in Seq(Output),
         NEW w \in Seq(Cell), NEW a, History(w, a), ~Spoiled(w), NEW p \in Nat,
         NEW m \in 0..BlocksOf(size), Good(w, p, m), NEW i, NEW data, TakenAt(w, p, i, data)
  PROVE  \E n \in 0..BlocksOf(size) : Good(w, i - 1 + SymbolLen, n)'
<1>1. /\ i \in Nat \ {0} /\ p < i /\ i \in 1..Len(w) /\ i + SymbolLen - 1 <= Len(w)
      /\ IsMagic(w[i]) /\ \A j \in p + 1..i - 1 : w[j] # Magic
      /\ \A b, s \in Nat : At(w, i, b, s) => data = SubSeq(Symbol(b, s), 3, SymbolLen)
      /\ Accept(IdOf(w[i + 1])[1], IdOf(w[i + 1])[2], data)
  BY DEF TakenAt
<1>2. CASE i \in Traps(w)
  BY <1>2, TrapTaken
<1>3. CASE i \notin Traps(w)
  <2>1. WholeAt(w, i)
    BY <1>1, <1>3 DEF Traps
  <2>2. PICK b \in 0..(BlocksOf(size) - 1), s \in 0..(Symbols - 1) : At(w, i, b, s)
    BY <2>1 DEF WholeAt
  <2>3. b \in Nat /\ s \in Nat
    OBVIOUS
  <2>4. w[i + 1] = Header(<<b, s>>)
    BY <1>1, <2>2, <2>3, AtCells
  <2>5. IdOf(w[i + 1]) = <<b, s>>
    BY <2>4 DEF IdOf, Header
  <2>6. Taking(w, p, m, i, b, s, data)
    BY <1>1, <2>2, <2>3, <2>5 DEF Taking
  <2>7. /\ \A y \in DOMAIN blocks' : y # b => y \in DOMAIN blocks /\ blocks'[y] = blocks[y]
        /\ b \in DOMAIN blocks'
        /\ \/ /\ out' = out /\ DOMAIN blocks \subseteq DOMAIN blocks'
              /\ blocks'[b].done = EntryOf(b).done
              /\ EntryOf(b).done => blocks'[b] = EntryOf(b)
              /\ ~EntryOf(b).done => Held(b)' = Held(b) \cup {s} /\ ~Decodable(blocks[b])'
           \/ /\ ~EntryOf(b).done /\ Enough(Held(b) \cup {s})
              /\ \E f \in BOOLEAN : out' = Append(out, [block |-> b, right |-> f])
              /\ blocks'[b].done /\ Held(b)' = Held(b) \cup {s}
              /\ \A y \in DOMAIN blocks : y >= b => y \in DOMAIN blocks'
    <3>1. Accept(b, s, data) /\ overhead' = overhead /\ Kept \in Nat
      BY <2>6, Constants DEF Taking, Unmoved
    <3>2. QED
      BY <2>3, <3>1, Accepted
  <2>8. CASE /\ out' = out /\ DOMAIN blocks \subseteq DOMAIN blocks'
             /\ blocks'[b].done = EntryOf(b).done
             /\ EntryOf(b).done => blocks'[b] = EntryOf(b)
             /\ ~EntryOf(b).done => Held(b)' = Held(b) \cup {s} /\ ~Decodable(blocks[b])'
    BY <2>6, <2>7, <2>8, KeptTaken
  <2>9. CASE /\ ~EntryOf(b).done /\ Enough(Held(b) \cup {s})
             /\ \E f \in BOOLEAN : out' = Append(out, [block |-> b, right |-> f])
             /\ blocks'[b].done /\ Held(b)' = Held(b) \cup {s}
             /\ \A y \in DOMAIN blocks : y >= b => y \in DOMAIN blocks'
    BY <2>6, <2>7, <2>9, BlockOut
  <2>10. QED
    BY <2>7, <2>8, <2>9
<1>4. QED
  BY <1>2, <1>3

-----------------------------------------------------------------------------
(* The invariant: what arrived has a history, and while it is not spoiled  *)
(* the blocks come out right and in order.                                 *)

\* Between frames no whole symbol waits in the buffer.
Idle == stage # "decode" => \A j \in Marks : Len(raw) - j + 1 < SymbolLen
Hope(w, p) == Spoiled(w) \/ \E m \in 0..BlocksOf(size) : Good(w, p, m)
RepairInv ==
  Idle /\ \E w, p, a : a = at /\ Dropped(w, p) /\ History(w, a) /\ Hope(w, p)

LEMMA SameHope ==
  ASSUME Unmoved, blocks' = blocks, out' = out, NEW w, NEW p, Hope(w, p)
  PROVE  Hope(w, p)'
<1>1. Spoiled(w)' <=> Spoiled(w)
  BY SameShard
<1>2. BlocksOf(size') = BlocksOf(size)
  BY SameShard
<1>3. \A m : Good(w, p, m) => Good(w, p, m)'
  BY SameGood
<1>4. QED
  BY <1>1, <1>2, <1>3 DEF Hope

LEMMA StillRepairs ==
  ASSUME RepairInv, Unmoved, blocks' = blocks, out' = out, raw' = raw, wire' = wire,
         stage' # "decode" => stage # "decode",
         at \in Nat, at' \in Nat, at <= at'
  PROVE  RepairInv'
<1>1. PICK w, p, a : a = at /\ Dropped(w, p) /\ History(w, a) /\ Hope(w, p)
  BY DEF RepairInv
<1>2. PICK z : z = at'
  OBVIOUS
<1>3. History(w, z)'
  <2>1. History(w, z)
    BY <1>1, <1>2, HistoryLater
  <2>2. QED
    BY <2>1, SameShard
<1>4. Hope(w, p)'
  BY <1>1, SameHope
<1>5. Dropped(w, p)'
  BY <1>1 DEF Dropped
<1>6. Idle'
  BY DEF RepairInv, Idle, Marks, IsMagic, Unmoved
<1>7. QED
  BY <1>2, <1>3, <1>4, <1>5, <1>6 DEF RepairInv

LEMMA FrameBehind ==
  ASSUME NEW u \in Seq(Cell), NEW c \in Seq(Cell), Len(c) = FrameCells
  PROVE  /\ u \o c \in Seq(Cell) /\ Len(u) \in Nat /\ Len(u \o c) = Len(u) + FrameCells
         /\ \A i \in 1..Len(u) : (u \o c)[i] = u[i]
         /\ \A o \in 1..FrameCells : (u \o c)[Len(u) + o] = c[o]
<1>1. /\ u \o c \in Seq(Cell) /\ Len(u) \in Nat /\ FrameCells \in Nat
      /\ Len(u \o c) = Len(u) + Len(c)
      /\ \A i \in 1..Len(u) : (u \o c)[i] = u[i]
  <2>1. Len(u) \in Nat /\ FrameCells \in Nat
    BY LenProperties, Constants
  <2>2. /\ u \o c \in Seq(Cell) /\ Len(u \o c) = Len(u) + Len(c)
        /\ \A i \in 1..Len(u) : (u \o c)[i] = u[i]
    BY ConcatProperties
  <2>3. QED
    BY <2>1, <2>2
<1>2. ASSUME NEW o \in 1..FrameCells PROVE (u \o c)[Len(u) + o] = c[o]
  <2>1. Len(u) + o \in Len(u) + 1..Len(u) + Len(c) /\ (Len(u) + o) - Len(u) = o
    BY <1>1
  <2>2. QED
    BY <2>1, ConcatProperties
<1>3. QED
  BY <1>1, <1>2

\* A frame arrives, whole or damaged.
LEMMA FrameRepairs ==
  ASSUME TypeInv, RepairInv, Arriving, NEW cells \in Seq(Cell), Len(cells) = FrameCells,
         PushFrame(cells), at' \in {at, at + 1},
         \A o \in 1..FrameCells :
           cells[o] = FrameCell(Clamp(at), o) \/ (Damaged(cells[o]) /\ at < at')
  PROVE  RepairInv'
<1>1. PICK w, p, a : a = at /\ Dropped(w, p) /\ History(w, a) /\ Hope(w, p)
  BY DEF RepairInv
<1>2. /\ size \in Sizes /\ wire \in Seq(Cell) /\ raw \in Seq(Cell) /\ Typed(blocks)
      /\ at \in 1..Len(video) + 1 /\ video \in Seq(Frame)
  BY DEF TypeInv, TypeOK, Sorts, Typed
<1>3. overhead \in Nat
  BY StreamAssumption, Constants DEF TypeInv, TypeOK
<1>4. /\ Unmoved /\ blocks' = blocks /\ out' = out /\ stage' = "decode"
      /\ wire' = wire \o cells /\ raw' = raw \o cells
  BY DEF PushFrame, Sent, Unmoved
<1>5. PICK v, z : v = w \o cells /\ z = at'
  OBVIOUS
<1>6. a \in Nat \ {0} /\ z \in Nat /\ a <= z
  <2>1. Len(video) \in Nat
    BY <1>2, LenProperties
  <2>2. QED
    BY <1>1, <1>2, <1>5, <2>1
<1>7. w \in Seq(Cell) /\ p \in Nat /\ Len(w) = p + Len(raw) /\ w = wire
      /\ \A i \in 1..Len(raw) : raw[i] = w[p + i]
  BY <1>1, <1>2 DEF Dropped
<1>8. History(v, z)
  <2>1. \A o \in 1..FrameCells : cells[o] = FrameCell(Clamp(a), o) \/ (Damaged(cells[o]) /\ a < z)
    BY <1>1, <1>5
  <2>2. QED
    BY <1>1, <1>2, <1>5, <1>6, <1>7, <2>1, CarriedMore
<1>9. /\ v \in Seq(Cell) /\ Len(v) = Len(w) + FrameCells /\ Len(w) \in Nat /\ Len(raw) \in Nat
      /\ FrameCells \in Nat
      /\ \A i \in 1..Len(w) : v[i] = w[i]
      /\ \A o \in 1..FrameCells : v[Len(w) + o] = cells[o]
  <2>1. /\ v \in Seq(Cell) /\ Len(w) \in Nat /\ Len(v) = Len(w) + FrameCells
        /\ \A i \in 1..Len(w) : v[i] = w[i]
        /\ \A o \in 1..FrameCells : v[Len(w) + o] = cells[o]
    <3>1. w \in Seq(Cell) /\ v = w \o cells
      BY <1>5, <1>7
    <3>2. /\ w \o cells \in Seq(Cell) /\ Len(w) \in Nat /\ Len(w \o cells) = Len(w) + FrameCells
          /\ \A i \in 1..Len(w) : (w \o cells)[i] = w[i]
          /\ \A o \in 1..FrameCells : (w \o cells)[Len(w) + o] = cells[o]
      BY <3>1, FrameBehind, ZenonT(30)
    <3>3. QED
      BY <3>1, <3>2
  <2>2. Len(raw) \in Nat /\ FrameCells \in Nat
    BY <1>2, LenProperties, Constants
  <2>3. QED
    BY <2>1, <2>2
<1>10. /\ Len(raw') = Len(raw) + FrameCells
       /\ \A i \in 1..Len(raw) : raw'[i] = raw[i]
       /\ \A o \in 1..FrameCells : raw'[Len(raw) + o] = cells[o]
  BY <1>2, <1>4, FrameBehind, SMTT(30)
<1>11. Dropped(v, p)'
  <2>1. Len(v) = p + Len(raw')
    <3>1. PICK l, f : l = Len(raw) /\ f = FrameCells
      OBVIOUS
    <3>2. l \in Nat /\ f \in Nat /\ p \in Nat /\ (p + l) + f = p + (l + f)
      BY <1>7, <1>9, <3>1
    <3>3. QED
      BY <1>7, <1>9, <1>10, <3>1, <3>2
  <2>2. ASSUME NEW i \in 1..Len(raw') PROVE raw'[i] = v[p + i]
    <3>1. CASE i \in 1..Len(raw)
      <4>1. p + i \in 1..Len(w)
        BY <1>7, <1>9, <3>1
      <4>2. QED
        BY <1>7, <1>9, <1>10, <3>1, <4>1
    <3>2. CASE i \notin 1..Len(raw)
      <4>1. PICK o : o = i - Len(raw)
        OBVIOUS
      <4>2. o \in 1..FrameCells /\ Len(raw) + o = i /\ Len(w) + o = p + i
        BY <1>7, <1>9, <1>10, <3>2, <4>1
      <4>3. QED
        BY <1>9, <1>10, <4>2
    <3>3. QED
      BY <3>1, <3>2
  <2>3. v = wire'
    BY <1>4, <1>5, <1>7
  <2>4. QED
    BY <1>7, <2>1, <2>2, <2>3 DEF Dropped
<1>12. Hope(v, p)
  <2>1. CASE Spoiled(v)
    BY <2>1 DEF Hope
  <2>2. CASE ~Spoiled(v)
    <3>1. ~Spoiled(w)
      BY <1>2, <1>3, <1>5, <1>7, <1>8, <2>2, SpoiledGrows
    <3>2. PICK m \in 0..BlocksOf(size) : Good(w, p, m)
      BY <1>1, <3>1 DEF Hope
    <3>3. m \in Nat /\ p <= Len(w)
      BY <1>7, <1>9
    <3>4. Good(v, p, m)
      BY <1>2, <1>5, <1>7, <3>2, <3>3, GoodGrows
    <3>5. QED
      BY <3>4 DEF Hope
  <2>3. QED
    BY <2>1, <2>2
<1>13. Hope(v, p)' /\ History(v, z)'
  BY <1>4, <1>8, <1>12, SameHope, SameShard
<1>14. Idle'
  BY <1>4 DEF Idle
<1>15. QED
  BY <1>5, <1>11, <1>13, <1>14 DEF RepairInv

\* What holds no marker is dropped.
LEMMA WaitRepairs ==
  ASSUME TypeInv, RepairInv, Wait
  PROVE  RepairInv'
<1>1. PICK w, p, a : a = at /\ Dropped(w, p) /\ History(w, a) /\ Hope(w, p)
  BY DEF RepairInv
<1>2. /\ wire \in Seq(Cell) /\ raw \in Seq(Cell)
  BY DEF TypeInv, Sorts
<1>3. /\ Unmoved /\ blocks' = blocks /\ out' = out /\ wire' = wire /\ at' = at /\ twins' = twins
      /\ IF Marks = {} THEN raw' = raw ELSE Len(Pending) < SymbolLen /\ raw' = Pending
  BY DEF Wait, Decoding, Unmoved
<1>4. /\ w = wire /\ p \in Nat /\ Len(w) = p + Len(raw) /\ Len(raw) \in Nat
      /\ \A i \in 1..Len(raw) : raw[i] = w[p + i]
  BY <1>1, <1>2, LenProperties DEF Dropped
<1>5. CASE Marks = {}
  <2>1. Marks' = {} /\ raw' = raw
    BY <1>3, <1>5 DEF Marks, IsMagic
  <2>2. Idle'
    BY <2>1 DEF Idle
  <2>3. Dropped(w, p)'
    BY <1>1, <1>3, <2>1 DEF Dropped
  <2>4. Hope(w, p)' /\ History(w, a)'
    BY <1>1, <1>3, SameHope, SameShard
  <2>5. QED
    BY <1>1, <1>3, <2>2, <2>3, <2>4 DEF RepairInv
<1>6. CASE Marks # {}
  <2>1. Len(Pending) < SymbolLen /\ raw' = Pending
    BY <1>3, <1>6
  <2>2. PICK m \in Nat : /\ m + 1 \in Marks /\ \A i \in Marks : m + 1 <= i
                         /\ Pending \in Seq(Cell) /\ Len(Pending) = Len(raw) - m /\ m < Len(raw)
                         /\ \A i \in 1..(Len(raw) - m) : Pending[i] = raw[m + i]
    BY <1>2, <1>6, PendingIs
  <2>3. PICK q, n : q = p + m /\ n = Len(raw) - m
    OBVIOUS
  <2>4. q \in Nat /\ p <= q /\ n \in Nat /\ Len(raw') = n /\ Len(w) = q + n
        /\ \A i \in 1..n : raw'[i] = raw[m + i]
    BY <1>4, <2>1, <2>2, <2>3
  <2>5. Dropped(w, q)'
    <3>1. ASSUME NEW i \in 1..Len(raw') PROVE raw'[i] = w[q + i]
      <4>1. i \in 1..n /\ m + i \in 1..Len(raw) /\ p + (m + i) = q + i
        BY <1>4, <2>2, <2>3, <2>4
      <4>2. QED
        BY <1>4, <2>4, <4>1
    <3>2. QED
      BY <1>3, <1>4, <2>4, <3>1 DEF Dropped
  <2>6. \A j \in p + 1..q : w[j] # Magic
    <3> TAKE j \in p + 1..q
    <3>1. PICK o : o = j - p
      OBVIOUS
    <3>2. o \in 1..Len(raw) /\ p + o = j /\ ~(m + 1 <= o)
      BY <1>4, <2>2, <2>3, <2>4, <3>1
    <3>3. ~IsMagic(raw[o])
      BY <2>2, <3>2 DEF Marks
    <3>4. QED
      BY <1>4, <3>2, <3>3 DEF IsMagic
  <2>7. Hope(w, q)
    BY <1>1, <1>4, <2>4, <2>6, GoodFurther DEF Hope
  <2>8. Hope(w, q)' /\ History(w, a)'
    BY <1>1, <1>3, <2>7, SameHope, SameShard
  <2>9. Idle'
    <3>1. n < SymbolLen /\ SymbolLen \in Nat
      BY <2>1, <2>2, <2>3, Constants
    <3>2. \A j \in 1..n : n - j + 1 < SymbolLen
      BY <2>4, <3>1
    <3>3. \A j \in Marks' : j \in 1..n
      BY <2>4 DEF Marks
    <3>4. QED
      BY <2>4, <3>2, <3>3 DEF Idle, SymbolLen
  <2>10. QED
    BY <1>1, <1>3, <2>5, <2>8, <2>9 DEF RepairInv
<1>7. QED
  BY <1>5, <1>6

LEMMA TakeRepairs ==
  ASSUME TypeInv, RepairInv, TakeSymbol
  PROVE  RepairInv'
<1>1. PICK w, p, a : a = at /\ Dropped(w, p) /\ History(w, a) /\ Hope(w, p)
  BY DEF RepairInv
<1>2. /\ wire \in Seq(Cell) /\ raw \in Seq(Cell) /\ size \in Sizes /\ Typed(blocks)
      /\ out \in Seq(Output)
  BY DEF TypeInv, TypeOK, Sorts, Typed
<1>3. overhead \in Nat
  BY StreamAssumption, Constants DEF TypeInv, TypeOK
<1>4. Unmoved /\ at' = at /\ stage' = "decode"
  BY DEF TakeSymbol, Decoding, Unmoved
<1>5. PICK i, data : TakenAt(w, p, i, data) /\ Dropped(w, i - 1 + SymbolLen)'
  BY <1>1, <1>2, PieceTaken
<1>6. PICK q : q = i - 1 + SymbolLen
  OBVIOUS
<1>7. Dropped(w, q)'
  BY <1>5, <1>6 DEF SymbolLen
<1>8. Hope(w, q)'
  <2>1. CASE Spoiled(w)
    BY <1>4, <2>1, SameShard DEF Hope
  <2>2. CASE ~Spoiled(w)
    <3>1. PICK m \in 0..BlocksOf(size) : Good(w, p, m)
      BY <1>1, <2>2 DEF Hope
    <3>2. w \in Seq(Cell) /\ p \in Nat
      BY <1>1, <1>2 DEF Dropped
    <3>3. \E n \in 0..BlocksOf(size) : Good(w, i - 1 + SymbolLen, n)'
      BY <1>1, <1>2, <1>3, <1>4, <1>5, <2>2, <3>1, <3>2, SymbolRepairs
    <3>4. PICK n \in 0..BlocksOf(size) : Good(w, q, n)'
      BY <1>6, <3>3
    <3>5. BlocksOf(size') = BlocksOf(size)
      BY <1>4, SameShard
    <3>6. QED
      BY <3>4, <3>5 DEF Hope
  <2>3. QED
    BY <2>1, <2>2
<1>9. History(w, a)'
  BY <1>1, <1>4, SameShard
<1>10. Idle'
  BY <1>4 DEF Idle
<1>11. QED
  BY <1>1, <1>4, <1>7, <1>8, <1>9, <1>10 DEF RepairInv

\* At the end: nothing is spoiled when markers do not mislead and enough came,
\* so that blocks came out right, and none is due any more.
LEMMA EndRepaired ==
  ASSUME TypeInv, RepairInv
  PROVE  Repaired
<1>1. SUFFICES ASSUME stage = "done", Misleading = {},
                      \A b \in 0..(BlocksOf(size) - 1) :
                        Cardinality(Arrived(b)) >= Source + overhead + Cardinality(Lures)
               PROVE  out = Blocks
  BY DEF Repaired
<1>2. /\ wire \in Seq(Cell) /\ raw \in Seq(Cell) /\ size \in Sizes /\ Typed(blocks)
  BY DEF TypeInv, TypeOK, Sorts, Typed
<1>3. overhead \in Nat
  BY StreamAssumption, Constants DEF TypeInv, TypeOK
<1>4. PICK w, p : Dropped(w, p) /\ Hope(w, p)
  BY DEF RepairInv
<1>5. /\ w = wire /\ w \in Seq(Cell) /\ p \in Nat /\ Len(w) = p + Len(raw) /\ Len(raw) \in Nat
      /\ Len(w) \in Nat /\ \A o \in 1..Len(raw) : raw[o] = w[p + o]
  BY <1>2, <1>4, LenProperties DEF Dropped
<1>6. /\ Source \in Nat \ {0} /\ Repair \in Nat /\ Symbols = Source + Repair /\ Symbols \in Nat
      /\ SymbolLen \in Nat /\ SymbolLen > 2 /\ BlocksOf(size) \in Nat \ {0}
  BY <1>2, Constants, LastBlock DEF Symbols
<1>7. \A i \in 1..Len(w), b \in Nat, s \in Nat : IsSymbolAt(i, b, s) <=> At(w, i, b, s)
  BY <1>2, <1>5, AtIs
<1>8. /\ \A b \in 0..(BlocksOf(size) - 1) : b \in Nat
      /\ \A s \in 0..(Symbols - 1) : s \in Nat
  OBVIOUS
<1>9. \A b \in 0..(BlocksOf(size) - 1) : Arrived(b) = Come(w, b)
  BY <1>5, <1>7, <1>8 DEF Arrived, Come
<1>10. \A i \in 1..Len(w) : IsWholeAt(i) <=> WholeAt(w, i)
  BY <1>7, <1>8 DEF IsWholeAt, WholeAt
<1>11. Traps(w) \subseteq Lures
  BY <1>5, <1>10 DEF Traps, Lures
<1>12. IsFiniteSet(Lures) /\ Cardinality(Lures) \in Nat
  <2>1. Lures \in SUBSET (1..Len(w)) /\ IsFiniteSet(1..Len(w))
    BY <1>5, FS_Interval DEF Lures
  <2>2. QED
    BY <2>1, FS_Subset, FS_CardinalityType
<1>13. Cardinality(Traps(w)) <= Cardinality(Lures) /\ Cardinality(Traps(w)) \in Nat
  BY <1>5, <1>11, <1>12, FS_Subset, TrapsFinite
<1>14. ASSUME NEW b \in 0..(BlocksOf(size) - 1)
       PROVE  /\ Cardinality(Come(w, b)) >= Source + overhead + Cardinality(Lures)
              /\ Cardinality(Come(w, b)) >= Source + overhead + Cardinality(Traps(w))
              /\ Cardinality(Come(w, b)) \in Nat /\ Cardinality(Come(w, b)) <= Symbols
  <2>1. Cardinality(Come(w, b)) >= Source + overhead + Cardinality(Lures)
    BY <1>1, <1>9
  <2>2. Cardinality(Come(w, b)) \in Nat /\ Cardinality(Come(w, b)) <= Symbols
    BY ComeFinite
  <2>3. QED
    BY <1>3, <1>6, <1>12, <1>13, <2>1, <2>2
<1>15. ~Spoiled(w)
  <2>1. Cardinality(Traps(w)) <= Repair
    <3>1. 0 \in 0..(BlocksOf(size) - 1)
      BY <1>6
    <3>2. QED
      BY <1>3, <1>6, <1>12, <1>13, <1>14, <3>1
  <2>2. \A k \in Traps(w) : ~(IdOf(w[k + 1])[1] < BlocksOf(size))
    <3> TAKE k \in Traps(w)
    <3>1. k \in Lures /\ k < Len(wire)
      <4>1. k \in 1..Len(w) /\ k + 1 \in 1..Len(w)
        BY <1>5, TrapsFinite
      <4>2. QED
        BY <1>5, <1>11, <4>1
    <3>2. k \notin Misleading
      BY <1>1
    <3>3. QED
      BY <1>5, <3>1, <3>2 DEF Misleading
  <2>3. ASSUME NEW b \in 0..(BlocksOf(size) - 1), NEW y \in 0..(b - 1)
        PROVE  ~(Cardinality(Come(w, y)) < Source + overhead + Cardinality(Traps(w)))
    <3>1. y \in 0..(BlocksOf(size) - 1)
      BY <1>6
    <3>2. QED
      BY <1>3, <1>6, <1>13, <1>14, <3>1
  <2>4. ~(Cardinality(Traps(w)) > Repair)
    BY <1>6, <1>13, <2>1
  <2>5. QED
    BY <2>2, <2>3, <2>4 DEF Spoiled
<1>16. PICK m \in 0..BlocksOf(size) : Good(w, p, m)
  BY <1>4, <1>15 DEF Hope
<1>17. ASSUME m # BlocksOf(size) PROVE FALSE
  <2>1. m \in 0..(BlocksOf(size) - 1) /\ m \in Nat
    BY <1>6, <1>17
  <2>2. ASSUME NEW r \in Come(w, m) PROVE Reached(w, p, m, r)
    <3>1. r \in 0..(Symbols - 1) /\ r \in Nat
      BY ComeFinite
    <3>2. PICK j \in 1..Len(w) : At(w, j, m, r)
      BY <2>2 DEF Come
    <3>3. w[j] = Magic /\ j + SymbolLen - 1 <= Len(w) /\ j \in Nat
      <4>1. j \in Nat
        BY <1>5
      <4>2. w[j] = Magic /\ j + SymbolLen - 1 <= Len(w)
        BY <1>5, <2>1, <3>1, <3>2, <4>1, AtCells
      <4>3. QED
        BY <4>1, <4>2
    <3>4. j \in 1..p
      <4>1. SUFFICES ASSUME j > p PROVE FALSE
        BY <1>5, <3>3
      <4>2. PICK o : o = j - p
        OBVIOUS
      <4>3. o \in 1..Len(raw) /\ p + o = j /\ ~(Len(raw) - o + 1 < SymbolLen)
        BY <1>5, <1>6, <3>3, <4>1, <4>2
      <4>4. o \in Marks
        BY <1>5, <3>3, <4>3 DEF Marks, IsMagic
      <4>5. QED
        BY <1>1, <4>3, <4>4 DEF RepairInv, Idle
    <3>5. QED
      BY <3>2, <3>4 DEF Reached
  <2>3. QED
    BY <1>2, <1>3, <1>5, <1>14, <1>16, <2>1, <2>2, NotDue
<1>18. QED
  BY <1>16, <1>17 DEF Good, Prefix, Blocks

LEMMA RepairInit ==
  ASSUME Init
  PROVE  RepairInv
<1>1. /\ size \in Sizes /\ stage = "push" /\ at = 1 /\ wire = <<>> /\ raw = <<>> /\ blocks = <<>>
      /\ out = <<>>
  BY DEF Init
<1>2. Len(<<>>) = 0 /\ DOMAIN <<>> = {} /\ 1..0 = {} /\ 0..(0 - 1) = {}
  BY EmptySeq
<1>3. Idle
  BY <1>1, <1>2 DEF Idle, Marks
<1>4. Dropped(<<>>, 0)
  BY <1>1, <1>2 DEF Dropped
<1>5. History(<<>>, 1)
  BY HistoryStart
<1>6. 0 \in 0..BlocksOf(size)
  BY <1>1, LastBlock
<1>7. Good(<<>>, 0, 0)
  <2>1. out = Prefix(0)
    BY <1>1 DEF Prefix
  <2>2. RightOnes(<<>>, 0, 0) /\ FalseOnes(<<>>)
    BY <1>1, <1>2 DEF RightOnes, FalseOnes
  <2>3. OldOnes(<<>>, 0, 0) /\ NoneMissed(<<>>, 0, 0)
    BY <1>2 DEF OldOnes, NoneMissed
  <2>4. QED
    BY <2>1, <2>2, <2>3 DEF Good
<1>8. QED
  BY <1>1, <1>3, <1>4, <1>5, <1>6, <1>7 DEF RepairInv, Hope

LEMMA RepairStep ==
  ASSUME TypeInv, Framed, RepairInv, [Next]_vars
  PROVE  RepairInv'
<1>1. at \in Nat \ {0} /\ size \in Sizes
  <2>1. at \in 1..Len(video) + 1 /\ video \in Seq(Frame) /\ size \in Sizes
    BY DEF TypeInv, TypeOK, Sorts
  <2>2. Len(video) \in Nat
    BY <2>1, LenProperties
  <2>3. QED
    BY <2>1, <2>2
<1>2. CASE PushData \/ Finalize \/ PadVideo
  <2>1. /\ Unmoved /\ blocks' = blocks /\ out' = out /\ raw' = raw /\ wire' = wire /\ at' = at
        /\ stage # "decode"
    BY <1>2 DEF PushData, Finalize, PadVideo, Encoding, Unmoved
  <2>2. QED
    BY <1>1, <2>1, StillRepairs
<1>3. CASE Lose \/ Pop
  <2>1. /\ Unmoved /\ blocks' = blocks /\ out' = out /\ raw' = raw /\ wire' = wire
        /\ at' \in {at, at + 1} /\ stage # "decode"
    BY <1>3 DEF Lose, Pop, Fault, Arriving, Sent, Decoding, Unmoved
  <2>2. QED
    BY <1>1, <2>1, StillRepairs
<1>4. CASE UNCHANGED vars
  <2>1. /\ Unmoved /\ blocks' = blocks /\ out' = out /\ raw' = raw /\ wire' = wire /\ at' = at
        /\ stage' = stage
    BY <1>4 DEF vars, Unmoved
  <2>2. QED
    BY <1>1, <2>1, StillRepairs
<1>5. ASSUME Arriving
      PROVE  /\ video[at] \in Seq(Cell) /\ Len(video[at]) = FrameCells
             /\ \A o \in 1..FrameCells : video[at][o] = FrameCell(Clamp(at), o)
  <2>1. video[at] \in Seq(Cell) /\ Len(video[at]) = FrameCells /\ at \in 1..Len(video)
    BY <1>5, ArrivingFrame
  <2>2. stage = "receive"
    BY <1>5 DEF Arriving
  <2>3. QED
    BY <2>1, <2>2 DEF Framed
<1>6. CASE Deliver \/ Repeat
  <2>1. Arriving /\ PushFrame(video[at]) /\ at' \in {at, at + 1}
    BY <1>6 DEF Deliver, Repeat, Fault
  <2>2. QED
    BY <1>5, <2>1, FrameRepairs
<1>7. CASE Damage
  <2>1. PICK i \in 1..FrameCells, c \in {Noise, Magic} \cup {Header(m) : m \in Misread} :
          PushFrame([video[at] EXCEPT ![i] = c])
    BY <1>7 DEF Damage
  <2>2. Arriving /\ at' = at + 1
    BY <1>7 DEF Damage, Fault
  <2>3. c \in Cell /\ Damaged(c)
    <3>1. Noise \in Cell /\ Magic \in Cell /\ Damaged(Noise) /\ Damaged(Magic)
      BY CellIs DEF Noise, Magic, Kind, Damaged
    <3>2. \A m \in Misread : Header(m) \in Cell /\ Damaged(Header(m))
      <4>1. \A m \in Misread : m[1] \in Nat /\ m[2] \in Nat
        BY StreamAssumption
      <4>2. QED
        BY <4>1, CellIs DEF Header, Kind, Damaged
    <3>3. QED
      BY <3>1, <3>2
  <2>4. PICK cells : cells = [video[at] EXCEPT ![i] = c]
    OBVIOUS
  <2>5. /\ cells \in Seq(Cell) /\ Len(cells) = FrameCells
        /\ \A o \in 1..FrameCells : cells[o] = IF o = i THEN c ELSE video[at][o]
    <3>1. video[at] \in Seq(Cell) /\ Len(video[at]) = FrameCells
      BY <1>5, <2>2
    <3>2. cells \in Seq(Cell) /\ Len(cells) = Len(video[at])
      BY <2>3, <2>4, <3>1, ExceptSeq
    <3>3. DOMAIN video[at] = 1..FrameCells
      BY <3>1, LenProperties
    <3>4. QED
      BY <2>4, <3>1, <3>2, <3>3
  <2>6. at < at'
    BY <1>1, <2>2
  <2>7. \A o \in 1..FrameCells :
          cells[o] = FrameCell(Clamp(at), o) \/ (Damaged(cells[o]) /\ at < at')
    BY <1>5, <2>2, <2>3, <2>5, <2>6
  <2>8. QED
    BY <2>1, <2>2, <2>4, <2>5, <2>7, FrameRepairs
<1>8. CASE Wait
  BY <1>8, WaitRepairs
<1>9. CASE TakeSymbol
  BY <1>9, TakeRepairs
<1>10. QED
  BY <1>2, <1>3, <1>4, <1>6, <1>7, <1>8, <1>9 DEF Next

\* When no false marker names a block of the shard, and of each block so many
\* symbols arrive whole that every false marker may hide one of them,
\* StreamingDecoder gives the shard back whole (streaming.rs, push_frame and
\* process_raw_buffer), whichever frames were lost, damaged or shown twice.
THEOREM RepairedHolds == Spec => []Repaired
<1>1. Init => TypeInv /\ Framed /\ RepairInv
  BY InitTyped, OrderInit, RepairInit
<1>2. TypeInv /\ Framed /\ RepairInv /\ [Next]_vars => TypeInv' /\ Framed' /\ RepairInv'
  BY TypeStep, FramedStep, RepairStep
<1>3. TypeInv /\ RepairInv => Repaired
  BY EndRepaired
<1>4. QED
  BY <1>1, <1>2, <1>3, PTL DEF Spec

-----------------------------------------------------------------------------
(* The order of the blocks when data look like the marker.  No symbol is   *)
(* followed through the buffer: a block that has come out had a header of  *)
(* its repair symbols, or of its last source symbol, in the cells passed,  *)
(* and no header behind those is of an earlier block.                      *)

Only(kinds) == \A i \in 1..Len(faults) : faults[i] \in kinds
Harmless ==
  /\ Only({"lost", "repeated"})
  /\ Only({"lost"}) \/ FrameCells <= Source * SymbolLen

\* The cells w are those of the frames src, none of them twice if once.
Delivered(w, src, a, once) ==
  /\ src \in Seq(Nat \ {0}) /\ Len(w) = Len(src) * FrameCells
  /\ \A k \in 1..Len(src) : src[k] <= a /\ (once => src[k] < a)
  /\ \A k, l \in 1..Len(src) : k < l => src[k] <= src[l] /\ (once => src[k] < src[l])
  /\ \A k \in 1..Len(src), o \in 1..FrameCells :
       w[(k - 1) * FrameCells + o] = FrameCell(Clamp(src[k]), o)
Arrivals(w, a, once) == \E src : Delivered(w, src, a, once)

\* A header of the symbol is among the first p cells.
Named(w, p, b, s) == \E j \in 1..p : w[j] = Header(<<b, s>>)

Sorted(w, p) ==
  /\ \A y \in DOMAIN blocks :
       IF y < BlocksOf(size)
       THEN \A s \in Held(y) : s < Symbols /\ Named(w, p, y, s)
       ELSE ~blocks[y].done /\ Held(y) \subseteq {0}
  /\ \A i \in 1..Len(out) :
       /\ out[i].block < BlocksOf(size)
       /\ \E s \in 0..(Symbols - 1) : s >= Source - 1 /\ Named(w, p, out[i].block, s)
  /\ \A i, j \in 1..Len(out) : i < j => out[i].block < out[j].block
  /\ Len(out) > 0 => EntryOf(out[Len(out)].block).done

SortInv ==
  Astray = {} /\ Harmless =>
    \E w, p, a, once : /\ a = at /\ once = Only({"lost"})
                       /\ Dropped(w, p) /\ Arrivals(w, a, once) /\ Sorted(w, p)

\* A cell that reads as a header is one, of a block of the shard.
LEMMA HeaderOf ==
  ASSUME size \in Sizes, NEW c \in 1..Content, NEW o \in 1..FrameCells,
         FrameCell(c, o)[1] = "id"
  PROVE  \E b \in 0..(BlocksOf(size) - 1), s \in 0..(Symbols - 1) :
           FrameCell(c, o) = Header(<<b, s>>)
<1>1. Pad[1] = "pad" /\ Magic[1] = "magic"
  BY DEF Pad, Magic
<1>2. PICK n \in Numbers, k \in 1..SymbolLen : FrameCell(c, o) = Nth(n)[k]
  BY <1>1, FrameCellIs
<1>3. PICK d, e : d = n \div Symbols /\ e = n % Symbols
  OBVIOUS
<1>4. d \in 0..(BlocksOf(size) - 1) /\ e \in 0..(Symbols - 1)
  BY <1>3, NumbersAre, IdNumber
<1>5. FrameCell(c, o) = IF k = 1 THEN Magic ELSE IF k = 2 THEN Header(<<d, e>>) ELSE Data(d, e, k - 2)
  BY <1>2, <1>3 DEF Nth, Symbol
<1>6. Data(d, e, k - 2)[1] \in {"pad", "data"}
  <2>1. Data(d, e, k - 2) = Pad \/ Data(d, e, k - 2) = <<"data", d, e, k - 2>>
    BY DEF Data
  <2>2. <<"data", d, e, k - 2>>[1] = "data"
    OBVIOUS
  <2>3. QED
    BY <1>1, <2>1, <2>2
<1>7. FrameCell(c, o) = Header(<<d, e>>)
  BY <1>1, <1>5, <1>6
<1>8. QED
  BY <1>4, <1>7

\* The j-th cell that arrived is in the k-th frame and next to the marker of
\* the symbol with number n.
Stands(src, j, n, k, o) ==
  /\ j = (k - 1) * FrameCells + o /\ (k - 1) * FrameCells \in Nat
  /\ src[k] \in Nat \ {0} /\ Clamp(src[k]) \in 1..Content
  /\ (Clamp(src[k]) - 1) * FrameCells \in Nat
  /\ (Clamp(src[k]) - 1) * FrameCells + o = n * SymbolLen + 2

LEMMA HeaderPlace ==
  ASSUME size \in Sizes, NEW w, NEW src, NEW a, NEW once, Delivered(w, src, a, once),
         NEW j \in Nat \ {0}, j <= Len(w), NEW b \in Nat, NEW s \in 0..(Symbols - 1),
         w[j] = Header(<<b, s>>)
  PROVE  \E k \in 1..Len(src), o \in 1..FrameCells : Stands(src, j, Number(b, s), k, o)
<1>1. src \in Seq(Nat \ {0}) /\ Len(w) = Len(src) * FrameCells /\ Len(src) \in Nat
  BY LenProperties DEF Delivered
<1>2. PICK k \in 1..Len(src), o \in 1..FrameCells :
        j = (k - 1) * FrameCells + o /\ (k - 1) * FrameCells \in Nat
  BY <1>1, PlaceIn
<1>3. src[k] \in Nat \ {0}
  BY <1>1, ElementOfSeq
<1>4. PICK c : c = Clamp(src[k])
  OBVIOUS
<1>5. c \in 1..Content
  BY <1>3, <1>4, ClampIs
<1>6. FrameCell(c, o) = Header(<<b, s>>)
  BY <1>2, <1>4 DEF Delivered
<1>7. (c - 1) * FrameCells \in Nat
  BY <1>5, FrameCellIs
<1>8. (c - 1) * FrameCells + o = Number(b, s) * SymbolLen + 2
  BY <1>5, <1>6, StandingIs DEF Standing
<1>9. Stands(src, j, Number(b, s), k, o)
  BY <1>2, <1>3, <1>4, <1>5, <1>7, <1>8 DEF Stands
<1>10. QED
  BY <1>9

\* A header arrives behind one of a later block only when a frame comes twice,
\* and then the frame holds both.
LEMMA Overtaken ==
  ASSUME size \in Sizes, NEW w, NEW src, NEW a, NEW once, Delivered(w, src, a, once),
         NEW j \in Nat \ {0}, NEW l \in Nat \ {0}, j < l, l <= Len(w), Len(w) \in Nat,
         NEW y \in Nat, NEW b \in Nat, y < b, b < BlocksOf(size),
         NEW r \in 0..(Symbols - 1), NEW s \in 0..(Symbols - 1),
         w[j] = Header(<<b, r>>), w[l] = Header(<<y, s>>)
  PROVE  ~once /\ Number(b, r) * SymbolLen < Number(y, s) * SymbolLen + FrameCells
<1>1. j <= Len(w)
  OBVIOUS
<1>2. PICK k \in 1..Len(src), o \in 1..FrameCells : Stands(src, j, Number(b, r), k, o)
  BY <1>1, HeaderPlace
<1>3. PICK m \in 1..Len(src), q \in 1..FrameCells : Stands(src, l, Number(y, s), m, q)
  BY HeaderPlace
<1>4. FrameCells \in Nat \ {0} /\ SymbolLen \in Nat /\ SymbolLen > 2 /\ Len(src) \in Nat
      /\ BlocksOf(size) \in Nat /\ Symbols \in Nat \ {0} /\ Content \in Nat \ {0}
  BY Constants, LenProperties, LastBlock, ContentIs DEF Delivered
<1>5. PICK f, g : f = src[k] /\ g = src[m]
  OBVIOUS
<1>6. PICK c, d, u, v : /\ c = Clamp(f) /\ d = Clamp(g)
                        /\ u = Number(b, r) * SymbolLen /\ v = Number(y, s) * SymbolLen
  OBVIOUS
<1>7. PICK x, z, i, h : /\ x = (c - 1) * FrameCells /\ z = (d - 1) * FrameCells
                        /\ i = (k - 1) * FrameCells /\ h = (m - 1) * FrameCells
  OBVIOUS
<1>8. /\ j = i + o /\ i \in Nat /\ f \in Nat \ {0} /\ c \in 1..Content /\ x \in Nat
      /\ x + o = u + 2
  BY <1>2, <1>5, <1>6, <1>7, Zenon DEF Stands
<1>9. /\ l = h + q /\ h \in Nat /\ g \in Nat \ {0} /\ d \in 1..Content /\ z \in Nat
      /\ z + q = v + 2
  BY <1>3, <1>5, <1>6, <1>7, Zenon DEF Stands
<1>10. k \in Nat \ {0} /\ m \in Nat \ {0} /\ c \in Nat \ {0} /\ d \in Nat \ {0}
  BY <1>4, <1>8, <1>9
<1>11. k <= m
  <2>1. i + o < h + q
    BY <1>8, <1>9
  <2>2. QED
    BY <1>7, <1>10, <2>1, PlaceOrder
<1>12. f <= g /\ (once /\ k < m => f < g)
  <2>1. CASE k = m
    <3>1. f = g /\ ~(k < m)
      BY <1>5, <1>10, <2>1
    <3>2. QED
      BY <1>8, <3>1
  <2>2. CASE k < m
    BY <1>5, <2>2 DEF Delivered
  <2>3. QED
    BY <1>10, <1>11, <2>1, <2>2
<1>13. c <= d /\ (c = d /\ c < Content => f = g)
  BY <1>6, <1>8, <1>9, <1>12, ClampOrder
<1>14. u \in Nat /\ v \in Nat /\ v + SymbolLen <= u
  <2>1. PICK n, e : n = Number(b, r) /\ e = Number(y, s)
    OBVIOUS
  <2>2. e \in Nat /\ n \in Nat /\ e < n
    <3>1. e < b * Symbols /\ b * Symbols <= n /\ b * Symbols \in Nat
      BY <2>1, NumberOrder
    <3>2. e \in Nat /\ n \in Nat
      BY <2>1, NumberIs
    <3>3. QED
      BY <3>1, <3>2
  <2>3. e * SymbolLen + SymbolLen <= n * SymbolLen
    BY <1>4, <2>2, ProductGrows
  <2>4. QED
    BY <1>4, <1>6, <2>1, <2>2, <2>3, Product
<1>15. d <= c
  <2>1. z + q < x + o
    BY <1>4, <1>8, <1>9, <1>14
  <2>2. QED
    BY <1>7, <1>10, <2>1, PlaceOrder
<1>16. c = d
  BY <1>10, <1>13, <1>15
<1>17. x = z
  BY <1>7, <1>16
<1>18. u < v + FrameCells
  BY <1>4, <1>8, <1>9, <1>14, <1>17
<1>19. ASSUME once PROVE FALSE
  <2>1. CASE c < Content
    <3>1. f = g
      BY <1>13, <1>16, <2>1
    <3>2. k = m
      <4>1. ~(f < g)
        BY <1>8, <3>1
      <4>2. QED
        BY <1>10, <1>11, <1>12, <1>19, <4>1
    <3>3. i = h
      BY <1>7, <3>2
    <3>4. QED
      BY <1>4, <1>8, <1>9, <1>14, <1>17, <3>3
  <2>2. CASE c = Content
    <3>1. Number(y, s) < (BlocksOf(size) - 1) * Symbols /\ Number(y, s) \in Nat
      <4>1. BlocksOf(size) - 1 \in Nat /\ y < BlocksOf(size) - 1 /\ 0 \in 0..(Symbols - 1)
        BY <1>4
      <4>2. QED
        BY <4>1, NumberOrder, NumberIs
    <3>2. CASE q < FrameCells
      <4>1. q + 1 \in 1..FrameCells /\ x + (q + 1) = v + 3
        BY <1>4, <1>9, <1>14, <1>17, <3>2
      <4>2. (c - 1) * FrameCells + (q + 1) = Number(y, s) * SymbolLen + 3
        BY <1>6, <1>7, <4>1
      <4>3. c < Content
        BY <1>8, <3>1, <4>1, <4>2, LastFrame
      <4>4. QED
        BY <1>4, <2>2, <4>3
    <3>3. CASE q = FrameCells
      BY <1>4, <1>8, <1>9, <1>14, <1>17, <3>3
    <3>4. QED
      BY <1>4, <3>2, <3>3
  <2>3. QED
    BY <1>4, <1>8, <1>10, <2>1, <2>2
<1>20. QED
  BY <1>6, <1>18, <1>19

\* So a high symbol of a later block and one of an earlier never change places.
LEMMA NotOvertaken ==
  ASSUME size \in Sizes, NEW w, NEW src, NEW a, NEW once, Delivered(w, src, a, once),
         once \/ FrameCells <= Source * SymbolLen,
         NEW p \in Nat, NEW l \in Nat \ {0}, p < l, l <= Len(w), Len(w) \in Nat,
         NEW y \in Nat, NEW b \in Nat, b < BlocksOf(size),
         NEW r \in 0..(Symbols - 1), NEW s \in 0..(Symbols - 1), r >= Source - 1,
         Named(w, p, b, r), w[l] = Header(<<y, s>>)
  PROVE  b <= y
<1>1. SUFFICES ASSUME y < b PROVE FALSE
  OBVIOUS
<1>2. PICK j \in 1..p : w[j] = Header(<<b, r>>)
  BY DEF Named
<1>3. j \in Nat \ {0} /\ j < l
  BY <1>2
<1>4. ~once /\ Number(b, r) * SymbolLen < Number(y, s) * SymbolLen + FrameCells
  BY <1>1, <1>2, <1>3, Overtaken
<1>5. FrameCells <= Source * SymbolLen /\ FrameCells \in Nat /\ SymbolLen \in Nat /\ Source \in Nat
      /\ Symbols \in Nat \ {0}
  BY <1>4, Constants
<1>6. PICK m, n : m = Number(y, s) /\ n = Number(b, r)
  OBVIOUS
<1>7. m \in Nat /\ n \in Nat /\ m + Source <= n
  <2>1. m < b * Symbols /\ b * Symbols \in Nat /\ n = b * Symbols + r
    BY <1>1, <1>6, NumberOrder DEF Number
  <2>2. m \in Nat /\ n \in Nat
    BY <1>6, NumberIs
  <2>3. QED
    BY <1>5, <2>1, <2>2
<1>8. PICK z : z = m + Source
  OBVIOUS
<1>9. z \in Nat /\ z <= n /\ z * SymbolLen = m * SymbolLen + Source * SymbolLen
  BY <1>5, <1>7, <1>8
<1>10. z * SymbolLen \in Nat /\ n * SymbolLen \in Nat /\ m * SymbolLen \in Nat
       /\ Source * SymbolLen \in Nat
  BY <1>5, <1>7, <1>9, Product
<1>11. z < n => z * SymbolLen + SymbolLen <= n * SymbolLen
  BY <1>5, <1>7, <1>9, ProductGrows
<1>12. z * SymbolLen <= n * SymbolLen
  BY <1>5, <1>7, <1>9, <1>10, <1>11
<1>13. QED
  BY <1>4, <1>5, <1>6, <1>9, <1>10, <1>12


\* Of a symbol taken whose header reads as one of the shard, that is its header.
LEMMA TrueHeader ==
  ASSUME size \in Sizes, NEW w, NEW src, NEW a, NEW once, Delivered(w, src, a, once),
         w = wire, Astray = {}, NEW i \in Nat \ {0}, Len(w) \in Nat, i + 1 <= Len(w),
         IsMagic(w[i])
  PROVE  LET id == IdOf(w[i + 1]) IN
         IF id[1] < BlocksOf(size)
         THEN id[1] \in Nat /\ id[2] \in 0..(Symbols - 1) /\ w[i + 1] = Header(<<id[1], id[2]>>)
         ELSE id[2] = 0
<1>1. src \in Seq(Nat \ {0}) /\ Len(w) = Len(src) * FrameCells /\ Len(src) \in Nat
  BY LenProperties DEF Delivered
<1>2. ASSUME NEW j \in Nat \ {0}, j <= Len(w)
      PROVE  \E k \in 1..Len(src), o \in 1..FrameCells :
               /\ Clamp(src[k]) \in 1..Content /\ j = (k - 1) * FrameCells + o
               /\ (k - 1) * FrameCells \in Nat
               /\ w[j] = FrameCell(Clamp(src[k]), o)
  <2>1. PICK k \in 1..Len(src), o \in 1..FrameCells :
          j = (k - 1) * FrameCells + o /\ (k - 1) * FrameCells \in Nat
    <3>1. PICK n : n = Len(src)
      OBVIOUS
    <3>2. n \in Nat /\ j <= n * FrameCells
      BY <1>1, <1>2, <3>1
    <3>3. \E k \in 1..n, o \in 1..FrameCells :
            j = (k - 1) * FrameCells + o /\ (k - 1) * FrameCells \in Nat
      BY <3>2, PlaceIn
    <3>4. QED
      BY <3>1, <3>3
  <2>2. src[k] \in Nat \ {0}
    BY <1>1, ElementOfSeq
  <2>3. Clamp(src[k]) \in 1..Content
    BY <2>2, ClampIs
  <2>4. w[j] = FrameCell(Clamp(src[k]), o)
    BY <2>1 DEF Delivered
  <2>5. QED
    BY <2>1, <2>3, <2>4
<1>3. IdOf(Header(<<0, 0>>)) = <<0, 0>> /\ \A b, s : IdOf(Header(<<b, s>>)) = <<b, s>>
  BY DEF IdOf, Header
<1>4. BlocksOf(size) \in Nat /\ Symbols \in Nat \ {0}
  BY LastBlock, Constants
<1>5. CASE \E b \in 0..(BlocksOf(size) - 1), s \in 0..(Symbols - 1) : w[i + 1] = Header(<<b, s>>)
  <2>1. PICK b \in 0..(BlocksOf(size) - 1), s \in 0..(Symbols - 1) : w[i + 1] = Header(<<b, s>>)
    BY <1>5
  <2>2. IdOf(w[i + 1]) = <<b, s>>
    BY <1>3, <2>1
  <2>3. b < BlocksOf(size) /\ b \in Nat
    BY <1>4
  <2>4. QED
    BY <2>1, <2>2, <2>3
<1>6. CASE ~\E b \in 0..(BlocksOf(size) - 1), s \in 0..(Symbols - 1) : w[i + 1] = Header(<<b, s>>)
  <2>1. w[i + 1][1] # "id"
    <3>1. PICK k \in 1..Len(src), o \in 1..FrameCells :
            Clamp(src[k]) \in 1..Content /\ w[i + 1] = FrameCell(Clamp(src[k]), o)
      BY <1>2
    <3>2. QED
      BY <1>6, <3>1, HeaderOf
  <2>2. IdOf(w[i + 1])[2] = 0
    <3>1. CASE w[i + 1] = Pad
      <4>1. IdOf(w[i + 1]) = <<0, 0>>
        BY <2>1, <3>1 DEF IdOf
      <4>2. QED
        BY <4>1
    <3>2. CASE w[i + 1] # Pad
      <4>1. \E n : IdOf(w[i + 1]) = <<n, 0>>
        BY <2>1, <3>2 DEF IdOf
      <4>2. QED
        BY <4>1
    <3>3. QED
      BY <3>1, <3>2
  <2>3. w[i] # Magic
    <3>1. SUFFICES ASSUME w[i] = Magic PROVE FALSE
      OBVIOUS
    <3>2. i <= Len(w)
      OBVIOUS
    <3>3. PICK k \in 1..Len(src), o \in 1..FrameCells :
            /\ Clamp(src[k]) \in 1..Content /\ i = (k - 1) * FrameCells + o
            /\ (k - 1) * FrameCells \in Nat
            /\ w[i] = FrameCell(Clamp(src[k]), o)
      BY <1>2, <3>2
    <3>4. PICK c : c = Clamp(src[k])
      OBVIOUS
    <3>5. PICK n \in Numbers :
            o + 1 \in 1..FrameCells /\ FrameCell(c, o + 1) = Header(Id(n))
      BY <3>1, <3>3, <3>4, MarkerIn
    <3>6. PICK d, e : d = n \div Symbols /\ e = n % Symbols
      OBVIOUS
    <3>7. d \in 0..(BlocksOf(size) - 1) /\ e \in 0..(Symbols - 1) /\ Id(n) = <<d, e>>
      BY <3>6, NumbersAre, IdNumber DEF Id
    <3>8. w[(k - 1) * FrameCells + (o + 1)] = FrameCell(c, o + 1)
      BY <3>4, <3>5 DEF Delivered
    <3>9. PICK x : x = (k - 1) * FrameCells
      OBVIOUS
    <3>10. x \in Nat /\ x + (o + 1) = i + 1
      BY <3>3, <3>9
    <3>11. w[i + 1] = Header(<<d, e>>)
      BY <3>5, <3>7, <3>8, <3>9, <3>10
    <3>12. QED
      BY <1>6, <3>7, <3>11
  <2>4. ~(IdOf(w[i + 1])[1] < BlocksOf(size))
    <3>1. w[i] \in twins /\ i \in 1..(Len(wire) - 1)
      BY <2>3 DEF IsMagic
    <3>2. QED
      BY <3>1 DEF Astray
  <2>5. QED
    BY <2>2, <2>4
<1>7. QED
  BY <1>5, <1>6

\* A symbol taken leaves the blocks in order.
LEMMA SymbolSorted ==
  ASSUME Unmoved, size \in Sizes, overhead \in Nat, Typed(blocks), out \in Seq(Output),
         NEW w \in Seq(Cell), NEW p \in Nat, NEW src, NEW a, NEW once,
         Delivered(w, src, a, once), once \/ FrameCells <= Source * SymbolLen,
         w = wire, Astray = {}, Sorted(w, p), NEW i, NEW data, TakenAt(w, p, i, data)
  PROVE  Sorted(w, i - 1 + SymbolLen)'
<1>1. PICK b, s, q : b = IdOf(w[i + 1])[1] /\ s = IdOf(w[i + 1])[2] /\ q = i - 1 + SymbolLen
  OBVIOUS
<1>2. /\ i \in Nat \ {0} /\ p < i /\ w[i + 1] \in Cell /\ Accept(b, s, data) /\ IsMagic(w[i])
      /\ Len(w) \in Nat /\ i + 1 <= Len(w)
  <2>1. i + 1 \in 1..Len(w) /\ Len(w) \in Nat
    BY LenProperties DEF TakenAt
  <2>2. w[i + 1] \in Cell
    BY <2>1, ElementOfSeq
  <2>3. QED
    BY <1>1, <2>1, <2>2 DEF TakenAt
<1>3. /\ b \in Nat /\ s \in Nat /\ BlocksOf(size) \in Nat /\ Symbols \in Nat \ {0}
      /\ Source \in Nat /\ Source > 1 /\ Kept \in Nat
  BY <1>1, <1>2, IdIs, LastBlock, Constants
<1>4. q \in Nat /\ p <= q /\ i + 1 <= q
  BY <1>1, <1>2, Constants
<1>5. IF b < BlocksOf(size) THEN s \in 0..(Symbols - 1) /\ w[i + 1] = Header(<<b, s>>) ELSE s = 0
  BY <1>1, <1>2, TrueHeader
<1>6. \A y, r : Named(w, p, y, r) => Named(w, q, y, r)
  BY <1>4 DEF Named
<1>7. b < BlocksOf(size) => Named(w, q, b, s)
  <2>1. i + 1 \in 1..q
    BY <1>2, <1>4
  <2>2. QED
    BY <1>5, <2>1 DEF Named
<1>8. BlocksOf(size') = BlocksOf(size) /\ overhead' = overhead
  BY DEF Unmoved
<1>9. /\ \A y \in DOMAIN blocks' : y # b => y \in DOMAIN blocks /\ blocks'[y] = blocks[y]
      /\ b \in DOMAIN blocks'
      /\ \/ /\ out' = out /\ DOMAIN blocks \subseteq DOMAIN blocks'
            /\ blocks'[b].done = EntryOf(b).done
            /\ EntryOf(b).done => blocks'[b] = EntryOf(b)
            /\ ~EntryOf(b).done => Held(b)' = Held(b) \cup {s}
         \/ /\ ~EntryOf(b).done /\ Enough(Held(b) \cup {s})
            /\ \E f \in BOOLEAN : out' = Append(out, [block |-> b, right |-> f])
            /\ blocks'[b].done /\ Held(b)' = Held(b) \cup {s}
  BY <1>2, <1>3, <1>8, Accepted
<1>10. Held(b) \subseteq Nat /\ EntryOf(b).done \in BOOLEAN
       /\ (b \notin DOMAIN blocks => Held(b) = {} /\ ~EntryOf(b).done)
       /\ (b \in DOMAIN blocks => EntryOf(b) = blocks[b])
  BY EntryTyped
<1>11. Held(b)' \subseteq Held(b) \cup {s}
  <2>1. EntryOf(b)' = blocks'[b]
    BY <1>9 DEF EntryOf
  <2>2. QED
    BY <1>9, <2>1 DEF Held
<1>12. \A y \in DOMAIN blocks' : y # b => Held(y)' = Held(y)
  BY <1>9 DEF Held, EntryOf
<1>13. CASE b >= BlocksOf(size)
  <2>1. s = 0 /\ ~(b < BlocksOf(size))
    BY <1>3, <1>5, <1>13
  <2>2. Held(b) \cup {s} \subseteq {0} /\ ~EntryOf(b).done
    BY <1>10, <2>1 DEF Sorted
  <2>3. ~Enough(Held(b) \cup {s})
    <3>1. IsFiniteSet({0}) /\ Cardinality({0}) = 1
      BY FS_Singleton
    <3>2. IsFiniteSet(Held(b) \cup {s}) /\ Cardinality(Held(b) \cup {s}) <= 1
          /\ Cardinality(Held(b) \cup {s}) \in Nat
      BY <2>2, <3>1, FS_Subset, FS_CardinalityType, ZenonT(30)
    <3>3. Source - 1 \notin Held(b) \cup {s}
      <4>1. Source - 1 # 0
        BY <1>3
      <4>2. QED
        BY <2>2, <4>1
    <3>4. Cardinality(Held(b) \cup {s}) < Source
      BY <1>3, <3>2
    <3>5. QED
      BY <3>2, <3>3, <3>4, FewNotEnough
  <2>4. out' = out /\ DOMAIN blocks \subseteq DOMAIN blocks' /\ blocks'[b].done = EntryOf(b).done
    BY <1>9, <2>3
  <2>5. ASSUME NEW y \in DOMAIN blocks'
        PROVE  IF y < BlocksOf(size)
               THEN \A r \in Held(y)' : r < Symbols /\ Named(w, q, y, r)
               ELSE ~blocks'[y].done /\ Held(y)' \subseteq {0}
    <3>1. CASE y = b
      BY <1>11, <2>1, <2>2, <2>4, <3>1
    <3>2. CASE y # b
      <4>1. y \in DOMAIN blocks /\ blocks'[y] = blocks[y] /\ Held(y)' = Held(y)
        BY <1>9, <1>12, <3>2
      <4>2. QED
        BY <1>6, <4>1 DEF Sorted
    <3>3. QED
      BY <3>1, <3>2
  <2>6. ASSUME Len(out) > 0 PROVE EntryOf(out[Len(out)].block)'.done
    <3>1. PICK y : y = out[Len(out)].block
      OBVIOUS
    <3>2. EntryOf(y).done /\ y < BlocksOf(size)
      <4>1. Len(out) \in 1..Len(out)
        BY <2>6, LenProperties
      <4>2. QED
        BY <2>6, <3>1, <4>1 DEF Sorted
    <3>3. y \in DOMAIN blocks /\ y # b
      BY <2>1, <3>2, EntryTyped
    <3>4. y \in DOMAIN blocks' /\ blocks'[y] = blocks[y] /\ EntryOf(y) = blocks[y]
      BY <1>9, <2>4, <3>3, EntryTyped
    <3>5. EntryOf(y)' = blocks'[y]
      BY <3>4 DEF EntryOf
    <3>6. QED
      BY <2>4, <3>1, <3>2, <3>4, <3>5
  <2>7. Sorted(w, q)'
    BY <1>6, <1>8, <2>4, <2>5, <2>6 DEF Sorted
  <2>8. QED
    BY <1>1, <2>7 DEF SymbolLen
<1>14. CASE b < BlocksOf(size)
  <2>1. Held(b) \cup {s} \subseteq 0..(Symbols - 1) /\ \A r \in Held(b) \cup {s} : Named(w, q, b, r)
    <3>1. ASSUME NEW r \in Held(b) PROVE r \in 0..(Symbols - 1) /\ Named(w, q, b, r)
      <4>1. b \in DOMAIN blocks
        BY <1>10
      <4>2. r < Symbols /\ Named(w, p, b, r)
        BY <1>14, <4>1 DEF Sorted
      <4>3. r \in Nat
        BY <1>10
      <4>4. QED
        BY <1>3, <1>6, <4>2, <4>3
    <3>2. QED
      BY <1>5, <1>7, <1>14, <3>1
  <2>2. \A n \in 1..Len(out) : out[n].block <= b /\ out[n].block \in Nat
    <3> TAKE n \in 1..Len(out)
    <3>1. PICK y : y = out[n].block
      OBVIOUS
    <3>2. out[n] \in Output /\ y \in Nat
      <4>1. out[n] \in Output
        BY ElementOfSeq
      <4>2. QED
        BY <3>1, <4>1 DEF Output
    <3>3. PICK r \in 0..(Symbols - 1) : r >= Source - 1 /\ Named(w, p, y, r)
      BY <3>1 DEF Sorted
    <3>4. y < BlocksOf(size)
      BY <3>1 DEF Sorted
    <3>5. i + 1 \in Nat \ {0} /\ p < i + 1
      BY <1>2
    <3>6. y <= b
      BY <1>2, <1>3, <1>5, <1>14, <3>2, <3>3, <3>4, <3>5, NotOvertaken
    <3>7. QED
      BY <3>1, <3>2, <3>6
  <2>3. Len(out) \in Nat
    BY LenProperties
  <2>4. ASSUME NEW y \in DOMAIN blocks'
        PROVE  IF y < BlocksOf(size)
               THEN \A r \in Held(y)' : r < Symbols /\ Named(w, q, y, r)
               ELSE ~blocks'[y].done /\ Held(y)' \subseteq {0}
    <3>1. CASE y = b
      <4>1. \A r \in Held(y)' : r \in 0..(Symbols - 1) /\ Named(w, q, y, r)
        BY <1>11, <2>1, <3>1
      <4>2. \A r \in 0..(Symbols - 1) : r < Symbols
        BY <1>3
      <4>3. QED
        BY <1>14, <3>1, <4>1, <4>2
    <3>2. CASE y # b
      <4>1. y \in DOMAIN blocks /\ blocks'[y] = blocks[y] /\ Held(y)' = Held(y)
        BY <1>9, <1>12, <3>2
      <4>2. QED
        BY <1>6, <4>1 DEF Sorted
    <3>3. QED
      BY <3>1, <3>2
  <2>5. CASE out' = out /\ DOMAIN blocks \subseteq DOMAIN blocks' /\ blocks'[b].done = EntryOf(b).done
    <3>1. ASSUME Len(out) > 0 PROVE EntryOf(out[Len(out)].block)'.done
      <4>1. PICK y : y = out[Len(out)].block
        OBVIOUS
      <4>2. EntryOf(y).done
        BY <3>1, <4>1 DEF Sorted
      <4>3. y \in DOMAIN blocks /\ EntryOf(y) = blocks[y]
        BY <4>2, EntryTyped
      <4>4. y \in DOMAIN blocks' /\ blocks'[y].done
        <5>1. CASE y = b
          BY <1>9, <2>5, <4>2, <5>1
        <5>2. CASE y # b
          BY <1>9, <2>5, <4>2, <4>3, <5>2
        <5>3. QED
          BY <5>1, <5>2
      <4>5. EntryOf(y)' = blocks'[y]
        BY <4>4 DEF EntryOf
      <4>6. QED
        BY <2>5, <4>1, <4>4, <4>5
    <3>2. Sorted(w, q)'
      BY <1>6, <1>8, <2>4, <2>5, <3>1 DEF Sorted
    <3>3. QED
      BY <1>1, <3>2 DEF SymbolLen
  <2>6. CASE /\ ~EntryOf(b).done /\ Enough(Held(b) \cup {s}) /\ blocks'[b].done
             /\ \E f \in BOOLEAN : out' = Append(out, [block |-> b, right |-> f])
    <3>1. PICK f \in BOOLEAN : out' = Append(out, [block |-> b, right |-> f])
      BY <2>6
    <3>2. PICK n : n = Len(out)
      OBVIOUS
    <3>3. /\ n \in Nat /\ Len(out') = n + 1 /\ out'[n + 1].block = b
          /\ \A k \in 1..n : out'[k] = out[k]
      BY <2>3, <3>1, <3>2
    <3>4. ASSUME NEW k \in 1..n PROVE out[k].block < b
      <4>1. out[k].block <= b /\ out[k].block \in Nat
        BY <2>2, <3>2
      <4>2. out[k].block # b
        <5>1. SUFFICES ASSUME out[k].block = b PROVE FALSE
          OBVIOUS
        <5>2. CASE k = n
          <6>1. Len(out) > 0 => EntryOf(out[Len(out)].block).done
            BY DEF Sorted
          <6>2. Len(out) > 0
            BY <3>2, <3>3
          <6>3. QED
            BY <2>6, <3>2, <5>1, <5>2, <6>1, <6>2
        <5>3. CASE k # n
          <6>1. n \in 1..Len(out) /\ k \in 1..Len(out) /\ k < n
            BY <3>2, <3>3, <5>3
          <6>2. out[k].block < out[n].block
            BY <6>1 DEF Sorted
          <6>3. out[n].block <= b /\ out[n].block \in Nat
            BY <2>2, <6>1
          <6>4. QED
            BY <1>3, <5>1, <6>2, <6>3
        <5>4. QED
          BY <5>2, <5>3
      <4>3. QED
        BY <1>3, <4>1, <4>2
    <3>5. PICK r \in Held(b) \cup {s} : r >= Source - 1
      BY <2>1, <2>6, EnoughHigh
    <3>6. ASSUME NEW k \in 1..Len(out')
          PROVE  /\ out'[k].block < BlocksOf(size)
                 /\ \E e \in 0..(Symbols - 1) : e >= Source - 1 /\ Named(w, q, out'[k].block, e)
      <4>1. CASE k \in 1..n
        <5>1. /\ out[k].block < BlocksOf(size)
              /\ \E e \in 0..(Symbols - 1) : e >= Source - 1 /\ Named(w, p, out[k].block, e)
          BY <3>2, <4>1 DEF Sorted
        <5>2. QED
          BY <1>6, <3>3, <4>1, <5>1
      <4>2. CASE k = n + 1
        BY <1>14, <2>1, <3>3, <3>5, <4>2
      <4>3. QED
        BY <3>3, <4>1, <4>2
    <3>7. ASSUME NEW k \in 1..Len(out'), NEW l \in 1..Len(out'), k < l
          PROVE  out'[k].block < out'[l].block
      <4>1. k \in 1..n
        BY <3>3, <3>7
      <4>2. CASE l \in 1..n
        <5>1. out[k].block < out[l].block
          BY <3>2, <3>7, <4>1, <4>2 DEF Sorted
        <5>2. QED
          BY <3>3, <4>1, <4>2, <5>1
      <4>3. CASE l = n + 1
        BY <3>3, <3>4, <4>1, <4>3
      <4>4. QED
        BY <3>3, <4>2, <4>3
    <3>8. EntryOf(out[Len(out)].block)'.done
      <4>1. (out[Len(out)].block)' = b
        BY <3>3
      <4>2. EntryOf(out[Len(out)].block)' = blocks'[b]
        BY <1>9, <4>1 DEF EntryOf
      <4>3. QED
        BY <2>6, <4>2
    <3>9. Sorted(w, q)'
      BY <1>8, <2>4, <3>6, <3>7, <3>8 DEF Sorted
    <3>10. QED
      BY <1>1, <3>9 DEF SymbolLen
  <2>7. QED
    BY <1>9, <2>5, <2>6
<1>15. QED
  BY <1>3, <1>13, <1>14

\* One frame more.
LEMMA DeliveredMore ==
  ASSUME size \in Sizes, NEW w \in Seq(Cell), NEW a \in Nat \ {0}, NEW z \in {a, a + 1},
         NEW once \in BOOLEAN, NEW then \in BOOLEAN, then => once /\ z = a + 1,
         Arrivals(w, a, once), NEW cells \in Seq(Cell), Len(cells) = FrameCells,
         \A o \in 1..FrameCells : cells[o] = FrameCell(Clamp(a), o)
  PROVE  Arrivals(w \o cells, z, then)
<1>1. PICK src : Delivered(w, src, a, once)
  BY DEF Arrivals
<1> DEFINE new == Append(src, a)
<1> DEFINE v == w \o cells
<1>2. PICK n : n = Len(src)
  OBVIOUS
<1>3. /\ src \in Seq(Nat \ {0}) /\ n \in Nat /\ Len(w) = n * FrameCells
      /\ FrameCells \in Nat \ {0} /\ n * FrameCells \in Nat
  <2>1. src \in Seq(Nat \ {0}) /\ Len(w) = n * FrameCells
    BY <1>1, <1>2 DEF Delivered
  <2>2. n \in Nat /\ FrameCells \in Nat \ {0}
    BY <1>2, <2>1, Constants
  <2>3. QED
    BY <2>1, <2>2, Product
<1>4. /\ new \in Seq(Nat \ {0}) /\ Len(new) = n + 1 /\ new[n + 1] = a
      /\ \A k \in 1..n : new[k] = src[k] /\ src[k] \in Nat \ {0}
  BY <1>2, <1>3
<1>5. /\ \A k \in 1..(n + 1) : k \in Nat \ {0} /\ (k = n + 1 \/ k \in 1..n)
      /\ \A k \in 1..n : k - 1 \in Nat /\ k - 1 < n
      /\ \A k, l \in 1..(n + 1) : k < l => k \in 1..n
  BY <1>3
<1>6. Len(v) = (n + 1) * FrameCells
  <2>1. Len(v) = Len(w) + Len(cells)
    BY ConcatProperties
  <2>2. (n + 1) * FrameCells = n * FrameCells + FrameCells
    BY <1>3
  <2>3. QED
    BY <1>3, <2>1, <2>2
<1>7. \A k \in 1..n : src[k] <= a /\ (once => src[k] < a)
  BY <1>1, <1>2 DEF Delivered
<1>8. \A k \in 1..(n + 1) : new[k] <= z /\ (then => new[k] < z)
  <2> TAKE k \in 1..(n + 1)
  <2>1. CASE k = n + 1
    BY <1>4, <2>1
  <2>2. CASE k \in 1..n
    BY <1>4, <1>7, <2>2
  <2>3. QED
    BY <1>5, <2>1, <2>2
<1>9. \A k, l \in 1..(n + 1) : k < l => new[k] <= new[l] /\ (then => new[k] < new[l])
  <2> TAKE k, l \in 1..(n + 1)
  <2> HAVE k < l
  <2>1. k \in 1..n
    BY <1>5
  <2>2. CASE l \in 1..n
    <3>1. src[k] <= src[l] /\ (once => src[k] < src[l])
      BY <1>1, <1>2, <2>1, <2>2 DEF Delivered
    <3>2. QED
      BY <1>4, <2>1, <2>2, <3>1
  <2>3. CASE l = n + 1
    BY <1>4, <1>7, <2>1, <2>3
  <2>4. QED
    BY <1>5, <2>2, <2>3
<1>10. ASSUME NEW k \in 1..(n + 1), NEW o \in 1..FrameCells
       PROVE  v[(k - 1) * FrameCells + o] = FrameCell(Clamp(new[k]), o)
  <2>1. CASE k \in 1..n
    <3>1. PICK q : q = (k - 1) * FrameCells + o
      OBVIOUS
    <3>2. q \in 1..Len(w)
      <4>1. k - 1 \in Nat /\ k - 1 < n
        BY <1>5, <2>1
      <4>2. (k - 1) * FrameCells \in Nat /\ (k - 1) * FrameCells + FrameCells <= n * FrameCells
        BY <1>3, <4>1, Product, ProductGrows
      <4>3. PICK x, y : x = (k - 1) * FrameCells /\ y = n * FrameCells
        OBVIOUS
      <4>4. x \in Nat /\ y \in Nat /\ x + FrameCells <= y /\ q = x + o
        BY <1>3, <3>1, <4>2, <4>3
      <4>5. q \in 1..y
        BY <1>3, <4>4
      <4>6. QED
        BY <1>3, <4>3, <4>5
    <3>3. v[q] = w[q]
      BY <3>2, ConcatProperties
    <3>4. w[q] = FrameCell(Clamp(src[k]), o)
      BY <1>1, <1>2, <2>1, <3>1 DEF Delivered
    <3>5. QED
      BY <1>4, <2>1, <3>1, <3>3, <3>4
  <2>2. CASE k = n + 1
    <3>1. (k - 1) * FrameCells + o = Len(w) + o
      BY <1>3, <2>2
    <3>2. v[Len(w) + o] = cells[o]
      BY FrameBehind
    <3>3. QED
      BY <1>4, <2>2, <3>1, <3>2
  <2>3. QED
    BY <1>5, <2>1, <2>2
<1>11. Delivered(v, new, z, then)
  BY <1>4, <1>6, <1>8, <1>9, <1>10 DEF Delivered
<1>12. QED
  BY <1>11 DEF Arrivals

LEMMA DeliveredLater ==
  ASSUME NEW w, NEW a \in Nat, NEW z \in Nat, a <= z, NEW once \in BOOLEAN,
         NEW then \in BOOLEAN, then => once, Arrivals(w, a, once)
  PROVE  Arrivals(w, z, then)
<1>1. PICK src : Delivered(w, src, a, once)
  BY DEF Arrivals
<1>2. src \in Seq(Nat \ {0})
  BY <1>1 DEF Delivered
<1>3. \A k \in 1..Len(src) : src[k] <= z /\ (then => src[k] < z)
  <2> TAKE k \in 1..Len(src)
  <2>1. src[k] \in Nat /\ src[k] <= a /\ (once => src[k] < a)
    <3>1. src[k] \in Nat
      BY <1>2, ElementOfSeq
    <3>2. QED
      BY <1>1, <3>1 DEF Delivered
  <2>2. QED
    BY <2>1
<1>4. Delivered(w, src, z, then)
  BY <1>1, <1>3 DEF Delivered
<1>5. QED
  BY <1>4 DEF Arrivals

\* What a step leaves alone keeps its meaning.
LEMMA SameArrivals ==
  ASSUME Unmoved
  PROVE  /\ \A w, a, once : Arrivals(w, a, once)' <=> Arrivals(w, a, once)
         /\ BlocksOf(size') = BlocksOf(size)
<1>1. size' = size
  BY DEF Unmoved
<1>2. \A c, o : FrameCell(c, o)' = FrameCell(c, o)
  BY <1>1, SameFrames
<1>3. \A j : Clamp(j)' = Clamp(j)
  BY <1>1, SameFrames
<1>4. \A w, src, a, once : Delivered(w, src, a, once)' <=> Delivered(w, src, a, once)
  BY <1>2, <1>3, SMTT(30) DEF Delivered
<1>5. QED
  BY <1>1, <1>4 DEF Arrivals

LEMMA SameSorted ==
  ASSUME Unmoved, blocks' = blocks, out' = out, NEW w, NEW p \in Nat, NEW q \in Nat, p <= q,
         Sorted(w, p)
  PROVE  Sorted(w, q)'
<1>1. BlocksOf(size') = BlocksOf(size)
  BY SameArrivals
<1>2. \A y : EntryOf(y)' = EntryOf(y) /\ Held(y)' = Held(y)
  BY DEF EntryOf, Held
<1>3. \A y, s : Named(w, p, y, s) => Named(w, q, y, s)
  BY DEF Named
<1>4. QED
  BY <1>1, <1>2, <1>3 DEF Sorted

\* More cells behind those passed do not matter.
LEMMA SortedMore ==
  ASSUME NEW w \in Seq(Cell), NEW v, NEW p \in Nat, p <= Len(w),
         \A i \in 1..Len(w) : v[i] = w[i], Sorted(w, p)
  PROVE  Sorted(v, p)
<1>1. \A i \in 1..p : v[i] = w[i]
  BY LenProperties
<1>2. \A y, s : Named(w, p, y, s) => Named(v, p, y, s)
  BY <1>1 DEF Named
<1>3. QED
  BY <1>2 DEF Sorted

\* What has gone astray, or has happened to the video, is not undone.
LEMMA Milder ==
  ASSUME TypeInv, Unmoved, Astray' = {}, Harmless',
         NEW cells \in Seq(Cell), wire' = wire \o cells,
         \/ faults' = faults
         \/ \E kind \in FaultKind : faults' = Append(faults, kind)
  PROVE  /\ Astray = {} /\ Harmless /\ (Only({"lost"})' => Only({"lost"}))
         /\ \A kind \in FaultKind :
              faults' = Append(faults, kind) => (Only({"lost"})' => kind = "lost")
         /\ \A kind \in FaultKind :
              faults' = Append(faults, kind) => kind # "damaged"
<1>1. faults \in Seq(FaultKind) /\ wire \in Seq(Cell) /\ Len(faults) \in Nat /\ Len(wire) \in Nat
  BY LenProperties DEF TypeInv, Sorts
<1>2. Astray = {}
  <2>1. SUFFICES ASSUME NEW i \in Astray PROVE FALSE
    OBVIOUS
  <2>2. /\ Len(wire') = Len(wire) + Len(cells) /\ Len(cells) \in Nat
        /\ \A j \in 1..Len(wire) : wire'[j] = wire[j]
    BY <1>1, ConcatProperties, LenProperties
  <2>3. i \in 1..(Len(wire) - 1) /\ wire[i] \in twins /\ IdOf(wire[i + 1])[1] < BlocksOf(size)
    BY <2>1 DEF Astray
  <2>4. i \in 1..(Len(wire') - 1) /\ i \in 1..Len(wire) /\ i + 1 \in 1..Len(wire)
    BY <1>1, <2>2, <2>3
  <2>5. wire'[i] = wire[i] /\ wire'[i + 1] = wire[i + 1]
    BY <2>2, <2>4
  <2>6. twins' = twins /\ size' = size
    BY DEF Unmoved
  <2>7. \A c : IdOf(c)' = IdOf(c)
    BY DEF IdOf
  <2>8. i \in Astray'
    BY <2>3, <2>4, <2>5, <2>6, <2>7 DEF Astray
  <2>9. QED
    BY <2>8
<1>3. ASSUME NEW kind \in FaultKind, faults' = Append(faults, kind)
      PROVE  /\ Len(faults') = Len(faults) + 1 /\ faults'[Len(faults) + 1] = kind
             /\ \A i \in 1..Len(faults) : i \in 1..Len(faults') /\ faults'[i] = faults[i]
  BY <1>1, <1>3
<1>4. ASSUME NEW K, Only(K)' PROVE Only(K)
  <2>1. CASE faults' = faults
    BY <1>4, <2>1 DEF Only
  <2>2. ASSUME NEW kind \in FaultKind, faults' = Append(faults, kind) PROVE Only(K)
    BY <1>3, <1>4, <2>2 DEF Only
  <2>3. QED
    BY <2>1, <2>2
<1>5. ASSUME NEW kind \in FaultKind, faults' = Append(faults, kind), NEW K, Only(K)'
      PROVE  kind \in K
  <2>1. Len(faults) + 1 \in 1..Len(faults')
    BY <1>1, <1>3, <1>5
  <2>2. QED
    BY <1>3, <1>5, <2>1 DEF Only
<1>6. Harmless
  BY <1>4 DEF Harmless
<1>7. QED
  BY <1>2, <1>4, <1>5, <1>6 DEF Harmless

LEMMA StillSorted ==
  ASSUME TypeInv, SortInv, Unmoved, blocks' = blocks, out' = out, raw' = raw, wire' = wire,
         faults' = faults \/ faults' = Append(faults, "lost"),
         at \in Nat, at' \in Nat, at <= at'
  PROVE  SortInv'
<1>1. SUFFICES ASSUME Astray' = {}, Harmless' PROVE SortInv'
  BY DEF SortInv
<1>2. Astray = {} /\ Harmless /\ (Only({"lost"})' => Only({"lost"}))
  <2>1. wire' = wire \o <<>> /\ <<>> \in Seq(Cell)
    BY ConcatEmptySeq DEF TypeInv, Sorts
  <2>2. faults' = faults \/ \E kind \in FaultKind : faults' = Append(faults, kind)
    BY DEF FaultKind
  <2>3. QED
    BY <1>1, <2>1, <2>2, Milder
<1>3. PICK w, p, a, once : /\ a = at /\ once = Only({"lost"})
                           /\ Dropped(w, p) /\ Arrivals(w, a, once) /\ Sorted(w, p)
  BY <1>2 DEF SortInv
<1>4. PICK z, then : z = at' /\ then = Only({"lost"})'
  OBVIOUS
<1>5. Arrivals(w, z, then)
  <2>1. once \in BOOLEAN /\ then \in BOOLEAN /\ (then => once)
    BY <1>2, <1>3, <1>4 DEF Only
  <2>2. a \in Nat /\ z \in Nat /\ a <= z
    BY <1>3, <1>4
  <2>3. QED
    BY <1>3, <2>1, <2>2, DeliveredLater
<1>6. Arrivals(w, z, then)'
  BY <1>5, SameArrivals
<1>7. Dropped(w, p)'
  BY <1>3 DEF Dropped
<1>8. p \in Nat /\ p <= p
  BY <1>3 DEF Dropped
<1>9. Sorted(w, p)'
  BY <1>3, <1>8, SameSorted
<1>10. QED
  BY <1>4, <1>6, <1>7, <1>9 DEF SortInv

LEMMA FrameSorted ==
  ASSUME TypeInv, Framed, SortInv, Deliver \/ Repeat
  PROVE  SortInv'
<1>1. SUFFICES ASSUME Astray' = {}, Harmless' PROVE SortInv'
  BY DEF SortInv
<1>2. PICK cells : cells = video[at]
  OBVIOUS
<1>3. /\ Arriving /\ PushFrame(cells)
      /\ \/ at' = at + 1 /\ faults' = faults
         \/ at' = at /\ faults' = Append(faults, "repeated")
  BY <1>2 DEF Deliver, Repeat, Fault
<1>4. /\ cells \in Seq(Cell) /\ Len(cells) = FrameCells /\ at \in 1..Len(video)
      /\ \A o \in 1..FrameCells : cells[o] = FrameCell(Clamp(at), o)
  <2>1. cells \in Seq(Cell) /\ Len(cells) = FrameCells /\ at \in 1..Len(video)
    BY <1>2, <1>3, ArrivingFrame
  <2>2. stage = "receive"
    BY <1>3 DEF Arriving
  <2>3. QED
    BY <1>2, <2>1, <2>2 DEF Framed
<1>5. /\ Unmoved /\ blocks' = blocks /\ out' = out
      /\ wire' = wire \o cells /\ raw' = raw \o cells
  BY <1>3 DEF PushFrame, Sent, Unmoved
<1>6. /\ Astray = {} /\ Harmless /\ (Only({"lost"})' => Only({"lost"}))
      /\ (faults' = Append(faults, "repeated") => ~Only({"lost"})')
  <2>1. "repeated" \in FaultKind /\ "repeated" # "lost"
    BY DEF FaultKind
  <2>2. faults' = faults \/ \E kind \in FaultKind : faults' = Append(faults, kind)
    BY <1>3, <2>1
  <2>3. QED
    BY <1>1, <1>4, <1>5, <2>1, <2>2, Milder
<1>7. PICK w, p, a, once : /\ a = at /\ once = Only({"lost"})
                           /\ Dropped(w, p) /\ Arrivals(w, a, once) /\ Sorted(w, p)
  BY <1>6 DEF SortInv
<1>8. size \in Sizes /\ wire \in Seq(Cell) /\ raw \in Seq(Cell) /\ Len(video) \in Nat
  BY LenProperties DEF TypeInv, TypeOK, Sorts
<1>9. PICK v, z, then : v = w \o cells /\ z = at' /\ then = Only({"lost"})'
  OBVIOUS
<1>10. w \in Seq(Cell) /\ p \in Nat /\ Len(w) = p + Len(raw) /\ w = wire
       /\ Len(raw) \in Nat /\ FrameCells \in Nat
       /\ \A i \in 1..Len(raw) : raw[i] = w[p + i]
  BY <1>7, <1>8, LenProperties, Constants DEF Dropped
<1>11. Arrivals(v, z, then)
  <2>1. once \in BOOLEAN /\ then \in BOOLEAN /\ (then => once)
    BY <1>6, <1>7, <1>9 DEF Only
  <2>2. a \in Nat \ {0} /\ z \in {a, a + 1}
    BY <1>3, <1>4, <1>7, <1>8, <1>9
  <2>3. then => z = a + 1
    BY <1>3, <1>6, <1>7, <1>9
  <2>4. \A o \in 1..FrameCells : cells[o] = FrameCell(Clamp(a), o)
    BY <1>4, <1>7
  <2>5. QED
    BY <1>4, <1>7, <1>8, <1>9, <1>10, <2>1, <2>2, <2>3, <2>4, DeliveredMore
<1>12. /\ v \in Seq(Cell) /\ Len(v) = Len(w) + FrameCells /\ Len(w) \in Nat
       /\ \A i \in 1..Len(w) : v[i] = w[i]
       /\ \A o \in 1..FrameCells : v[Len(w) + o] = cells[o]
  <2>1. /\ w \o cells \in Seq(Cell) /\ Len(w) \in Nat /\ Len(w \o cells) = Len(w) + FrameCells
        /\ \A i \in 1..Len(w) : (w \o cells)[i] = w[i]
        /\ \A o \in 1..FrameCells : (w \o cells)[Len(w) + o] = cells[o]
    BY <1>4, <1>10, FrameBehind, ZenonT(30)
  <2>2. QED
    BY <1>9, <2>1
<1>13. /\ Len(raw') = Len(raw) + FrameCells
       /\ \A i \in 1..Len(raw) : raw'[i] = raw[i]
       /\ \A o \in 1..FrameCells : raw'[Len(raw) + o] = cells[o]
  BY <1>4, <1>5, <1>8, FrameBehind, SMTT(30)
<1>14. Dropped(v, p)'
  <2>1. Len(v) = p + Len(raw')
    <3>1. PICK l, f : l = Len(raw) /\ f = FrameCells
      OBVIOUS
    <3>2. l \in Nat /\ f \in Nat /\ p \in Nat /\ (p + l) + f = p + (l + f)
      BY <1>10, <3>1
    <3>3. QED
      BY <1>10, <1>12, <1>13, <3>1, <3>2
  <2>2. ASSUME NEW i \in 1..Len(raw') PROVE raw'[i] = v[p + i]
    <3>1. CASE i \in 1..Len(raw)
      <4>1. p + i \in 1..Len(w)
        BY <1>10, <3>1
      <4>2. QED
        BY <1>10, <1>12, <1>13, <3>1, <4>1
    <3>2. CASE i \notin 1..Len(raw)
      <4>1. PICK o : o = i - Len(raw)
        OBVIOUS
      <4>2. o \in 1..FrameCells /\ Len(raw) + o = i /\ Len(w) + o = p + i
        BY <1>10, <1>13, <3>2, <4>1
      <4>3. QED
        BY <1>12, <1>13, <4>2
    <3>3. QED
      BY <3>1, <3>2
  <2>3. v = wire'
    BY <1>5, <1>9, <1>10
  <2>4. QED
    BY <1>10, <2>1, <2>2, <2>3 DEF Dropped
<1>15. Sorted(v, p)'
  <2>1. p <= Len(w) /\ p <= p
    BY <1>10
  <2>2. Sorted(v, p)
    BY <1>7, <1>10, <1>12, <2>1, SortedMore
  <2>3. QED
    BY <1>5, <1>10, <2>1, <2>2, SameSorted
<1>16. Arrivals(v, z, then)'
  BY <1>5, <1>11, SameArrivals
<1>17. QED
  BY <1>9, <1>14, <1>15, <1>16 DEF SortInv

LEMMA WaitSorted ==
  ASSUME TypeInv, SortInv, Wait
  PROVE  SortInv'
<1>1. /\ Unmoved /\ blocks' = blocks /\ out' = out /\ wire' = wire /\ at' = at
      /\ faults' = faults /\ twins' = twins /\ size' = size
      /\ IF Marks = {} THEN raw' = raw ELSE raw' = Pending
  BY DEF Wait, Decoding, Unmoved
<1>2. SUFFICES ASSUME Astray = {}, Harmless PROVE SortInv'
  <2>1. Astray' = Astray /\ (Harmless' <=> Harmless)
    BY <1>1 DEF Astray, IdOf, Harmless, Only
  <2>2. QED
    BY <2>1 DEF SortInv
<1>3. PICK w, p, a, once : /\ a = at /\ once = Only({"lost"})
                           /\ Dropped(w, p) /\ Arrivals(w, a, once) /\ Sorted(w, p)
  BY <1>2 DEF SortInv
<1>4. /\ w = wire /\ p \in Nat /\ Len(w) = p + Len(raw) /\ Len(raw) \in Nat /\ raw \in Seq(Cell)
      /\ \A i \in 1..Len(raw) : raw[i] = w[p + i]
  BY <1>3, LenProperties DEF Dropped, TypeInv, Sorts
<1>5. \E q \in Nat : p <= q /\ Dropped(w, q)'
  <2>1. CASE Marks = {}
    <3>1. Dropped(w, p)' /\ p <= p
      BY <1>1, <1>3, <1>4, <2>1 DEF Dropped
    <3>2. QED
      BY <1>4, <3>1
  <2>2. CASE Marks # {}
    <3>1. PICK m \in Nat : /\ m + 1 \in Marks /\ \A i \in Marks : m + 1 <= i
                           /\ Pending \in Seq(Cell) /\ Len(Pending) = Len(raw) - m /\ m < Len(raw)
                           /\ \A i \in 1..(Len(raw) - m) : Pending[i] = raw[m + i]
      BY <1>4, <2>2, PendingIs
    <3>2. PICK q, n : q = p + m /\ n = Len(raw) - m
      OBVIOUS
    <3>3. /\ q \in Nat /\ p <= q /\ n \in Nat /\ Len(raw') = n /\ Len(w) = q + n
          /\ \A i \in 1..n : raw'[i] = raw[m + i]
      <4>1. raw' = Pending
        BY <1>1, <2>2
      <4>2. QED
        BY <1>4, <3>1, <3>2, <4>1
    <3>4. ASSUME NEW i \in 1..Len(raw') PROVE raw'[i] = w[q + i]
      <4>1. i \in 1..n /\ m + i \in 1..Len(raw) /\ p + (m + i) = q + i
        BY <1>4, <3>1, <3>2, <3>3
      <4>2. QED
        BY <1>4, <3>3, <4>1
    <3>5. Dropped(w, q)'
      BY <1>1, <1>4, <3>3, <3>4 DEF Dropped
    <3>6. QED
      BY <3>3, <3>5
  <2>3. QED
    BY <2>1, <2>2
<1>6. PICK q \in Nat : p <= q /\ Dropped(w, q)'
  BY <1>5
<1>7. Sorted(w, q)'
  BY <1>1, <1>3, <1>4, <1>6, SameSorted
<1>8. Arrivals(w, a, once)' /\ a = at' /\ once = Only({"lost"})'
  BY <1>1, <1>3, SameArrivals DEF Only
<1>9. QED
  BY <1>6, <1>7, <1>8 DEF SortInv

LEMMA TakeSorted ==
  ASSUME TypeInv, SortInv, TakeSymbol
  PROVE  SortInv'
<1>1. /\ Unmoved /\ wire' = wire /\ at' = at /\ faults' = faults /\ twins' = twins /\ size' = size
  BY DEF TakeSymbol, Decoding, Unmoved
<1>2. SUFFICES ASSUME Astray = {}, Harmless PROVE SortInv'
  <2>1. Astray' = Astray /\ (Harmless' <=> Harmless)
    BY <1>1 DEF Astray, IdOf, Harmless, Only
  <2>2. QED
    BY <2>1 DEF SortInv
<1>3. PICK w, p, a, once : /\ a = at /\ once = Only({"lost"})
                           /\ Dropped(w, p) /\ Arrivals(w, a, once) /\ Sorted(w, p)
  BY <1>2 DEF SortInv
<1>4. /\ wire \in Seq(Cell) /\ raw \in Seq(Cell) /\ size \in Sizes /\ Typed(blocks)
      /\ out \in Seq(Output)
  BY DEF TypeInv, TypeOK, Sorts, Typed
<1>5. overhead \in Nat
  BY StreamAssumption, Constants DEF TypeInv, TypeOK
<1>6. PICK i, data : TakenAt(w, p, i, data) /\ Dropped(w, i - 1 + SymbolLen)'
  BY <1>3, <1>4, PieceTaken
<1>7. PICK src : Delivered(w, src, a, once)
  BY <1>3 DEF Arrivals
<1>8. once \/ FrameCells <= Source * SymbolLen
  BY <1>2, <1>3 DEF Harmless
<1>9. w \in Seq(Cell) /\ p \in Nat /\ w = wire
  BY <1>3, <1>4 DEF Dropped
<1>10. Sorted(w, i - 1 + SymbolLen)'
  BY <1>1, <1>2, <1>3, <1>4, <1>5, <1>6, <1>7, <1>8, <1>9, SymbolSorted
<1>11. PICK q : q = i - 1 + SymbolLen
  OBVIOUS
<1>12. Sorted(w, q)' /\ Dropped(w, q)'
  BY <1>6, <1>10, <1>11 DEF SymbolLen
<1>13. Arrivals(w, a, once)' /\ a = at' /\ once = Only({"lost"})'
  BY <1>1, <1>3, SameArrivals DEF Only
<1>14. QED
  BY <1>12, <1>13 DEF SortInv

LEMMA SortInit ==
  ASSUME Init
  PROVE  SortInv
<1>1. size \in Sizes /\ at = 1 /\ wire = <<>> /\ raw = <<>> /\ blocks = <<>> /\ out = <<>>
      /\ faults = <<>>
  BY DEF Init
<1>2. Len(<<>>) = 0 /\ DOMAIN <<>> = {} /\ 1..0 = {}
  BY EmptySeq
<1>3. Dropped(<<>>, 0)
  BY <1>1, <1>2 DEF Dropped
<1>4. Arrivals(<<>>, 1, Only({"lost"}))
  <2> DEFINE src == <<>>
  <2>1. src \in Seq(Nat \ {0}) /\ Len(src) = 0 /\ 0 * FrameCells = 0
    BY <1>2, Constants
  <2>2. Delivered(<<>>, src, 1, Only({"lost"}))
    BY <1>2, <2>1 DEF Delivered
  <2>3. QED
    BY <2>2 DEF Arrivals
<1>5. Sorted(<<>>, 0)
  BY <1>1, <1>2 DEF Sorted
<1>6. QED
  BY <1>1, <1>3, <1>4, <1>5 DEF SortInv

LEMMA SortStep ==
  ASSUME TypeInv, Framed, SortInv, [Next]_vars
  PROVE  SortInv'
<1>1. at \in Nat \ {0}
  <2>1. at \in 1..Len(video) + 1 /\ Len(video) \in Nat
    BY LenProperties DEF TypeInv, TypeOK, Sorts
  <2>2. QED
    BY <2>1
<1>2. CASE PushData \/ Finalize \/ PadVideo \/ Lose \/ Pop \/ UNCHANGED vars
  <2>1. /\ Unmoved /\ blocks' = blocks /\ out' = out /\ raw' = raw /\ wire' = wire
        /\ at' \in {at, at + 1} /\ faults' \in {faults, Append(faults, "lost")}
    BY <1>2 DEF PushData, Finalize, PadVideo, Encoding, Lose, Pop, Fault, Sent, Decoding,
                Unmoved, vars
  <2>2. QED
    BY <1>1, <2>1, StillSorted
<1>3. CASE Deliver \/ Repeat
  BY <1>3, FrameSorted
<1>4. CASE Damage
  <2>1. SUFFICES ASSUME Astray' = {}, Harmless' PROVE FALSE
    BY DEF SortInv
  <2>2. faults' = Append(faults, "damaged") /\ faults \in Seq(FaultKind)
    BY <1>4 DEF Damage, Fault, TypeInv, Sorts
  <2>3. Len(faults) \in Nat /\ Len(faults') = Len(faults) + 1
        /\ faults'[Len(faults) + 1] = "damaged"
    BY <2>2, LenProperties
  <2>4. Len(faults) + 1 \in 1..Len(faults')
    BY <2>3
  <2>5. QED
    BY <2>1, <2>3, <2>4 DEF Harmless, Only
<1>5. CASE Wait
  BY <1>5, WaitSorted
<1>6. CASE TakeSymbol
  BY <1>6, TakeSorted
<1>7. QED
  BY <1>2, <1>3, <1>4, <1>5, <1>6 DEF Next

\* When frames are only lost, StreamingDecoder gives its blocks out in the order in
\* which they were sent and none twice (streaming.rs, push_frame and
\* process_raw_buffer), whatever the sizes of blocks, symbols and frames, however
\* many frames were lost in a row, and whichever data look like the marker, as long
\* as none of those stands before cells that read as a header of the shard (Astray).
\* When frames are shown twice as well, that holds if a frame is too short for
\* Source symbols, or if no data look like the marker.
THEOREM InOrderHolds == Spec => []InOrder
<1>1. Init => TypeInv /\ Framed /\ OrderInv /\ SortInv
  BY InitTyped, OrderInit, SortInit
<1>2. TypeInv /\ Framed /\ OrderInv /\ SortInv /\ [Next]_vars =>
        TypeInv' /\ Framed' /\ OrderInv' /\ SortInv'
  BY TypeStep, FramedStep, OrderStep, SortStep
<1>3. ASSUME TypeInv, OrderInv, SortInv PROVE InOrder
  <2>1. SUFFICES ASSUME Only({"lost", "repeated"}), Astray = {},
                        \/ Only({"lost"}) \/ FrameCells <= Source * SymbolLen \/ twins = {}
                 PROVE  \A i, j \in 1..Len(out) : i < j => out[i].block < out[j].block
    BY DEF InOrder, Only
  <2>2. CASE twins = {}
    <3>1. Undamaged
      BY <2>1, <2>2 DEF Only, Undamaged
    <3>2. QED
      BY <1>3, <3>1 DEF OrderInv, Known, Outputs, Ordered
  <2>3. CASE Only({"lost"}) \/ FrameCells <= Source * SymbolLen
    <3>1. Harmless
      BY <2>1, <2>3 DEF Harmless
    <3>2. QED
      BY <1>3, <2>1, <3>1 DEF SortInv, Sorted
  <2>4. QED
    BY <2>1, <2>2, <2>3
<1>4. QED
  BY <1>1, <1>2, <1>3, PTL DEF Spec

=============================================================================
