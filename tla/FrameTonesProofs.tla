--------------------------- MODULE FrameTonesProofs ---------------------------
(***************************************************************************)
(* What the decoding and the tones of a frame are, for preview sizes of    *)
(* any width and height and whatever bytes the camera delivers.            *)
(***************************************************************************)
EXTENDS FrameTones, FiniteSetTheorems, TLAPS

-----------------------------------------------------------------------------
(* Rows and columns.                                                       *)

\* Quotient and remainder, whatever the divisor.
LEMMA DivisionParts ==
  ASSUME NEW a \in Nat, NEW b \in Nat \ {0}
  PROVE  /\ a \div b \in Nat /\ a % b \in 0..(b - 1)
         /\ a = (a \div b) * b + (a % b)
<1>1. a = b * (a \div b) + (a % b) /\ a % b \in 0..(b - 1) /\ a \div b \in Int
  BY SMT
<1>2. a \div b >= 0
  BY SMT
<1>3. b * (a \div b) = (a \div b) * b
  BY <1>1, SMT
<1>4. QED
  BY <1>1, <1>2, <1>3

\* A multiple of b that is smaller has a smaller factor.
LEMMA FactorOrder ==
  ASSUME NEW b \in Nat \ {0}, NEW p \in Int, NEW q \in Int, p * b < q * b
  PROVE  p < q
<1>1. CASE q <= p
  <2>1. (p - q) * b >= 0
    BY <1>1, SMT
  <2>2. (p - q) * b = p * b - q * b
    BY SMT
  <2>3. p * b \in Int /\ q * b \in Int
    OBVIOUS
  <2>4. QED
    BY <2>1, <2>2, <2>3
<1>2. QED
  BY <1>1

\* They are the only ones.
LEMMA DivisionUnique ==
  ASSUME NEW b \in Nat \ {0}, NEW q \in Nat, NEW r \in 0..(b - 1)
  PROVE  (q * b + r) \div b = q /\ (q * b + r) % b = r
<1> DEFINE a == q * b + r
           d == a \div b
           m == a % b
<1>1. a \in Nat
  BY SMT
<1>2. d \in Nat /\ m \in 0..(b - 1) /\ a = d * b + m
  BY <1>1, DivisionParts
<1>3. a = q * b + r
  OBVIOUS
<1> HIDE DEF a, d, m
<1>4. (d + 1) * b = d * b + b /\ (q + 1) * b = q * b + b
        /\ d * b \in Int /\ q * b \in Int
  BY <1>2, SMT
<1>5. d * b < (q + 1) * b /\ q * b < (d + 1) * b
  BY <1>2, <1>3, <1>4
<1>6. d < q + 1 /\ q < d + 1
  BY <1>2, <1>5, FactorOrder
<1>7. d = q
  BY <1>2, <1>6
<1>8. m = r
  BY <1>2, <1>3, <1>4, <1>7
<1>9. QED
  BY <1>7, <1>8 DEF a, d, m

\* The pixel before one that does not start a row is in that row.
LEMMA PixelBefore ==
  ASSUME NEW k \in Nat, NEW b \in Nat \ {0}, k % b # 0
  PROVE  k >= 1 /\ (k - 1) \div b = k \div b /\ (k - 1) % b = (k % b) - 1
<1> DEFINE q == k \div b
           r == k % b
<1>1. q \in Nat /\ r \in 1..(b - 1) /\ k = q * b + r
  BY DivisionParts
<1> HIDE DEF q, r
<1>2. q * b \in Nat
  BY <1>1, SMT
<1>3. k - 1 = q * b + (r - 1) /\ r - 1 \in 0..(b - 1) /\ k >= 1
  BY <1>1, <1>2
<1>4. (k - 1) \div b = q /\ (k - 1) % b = r - 1
  BY <1>1, <1>3, DivisionUnique
<1>5. QED
  BY <1>3, <1>4 DEF q, r

\* Padding to 16 bytes.
LEMMA Padded ==
  ASSUME NEW n \in Nat
  PROVE  Ceil16(n) \in Nat /\ Ceil16(n) >= n /\ Ceil16(n) % 2 = 0
  BY SMT DEF Ceil16

-----------------------------------------------------------------------------
(* Decoding.                                                               *)

Bytes  == 0..255
Chroma == -128..127
Pixel  == [red : Bytes, green : Bytes, blue : Bytes]

\* The row and the column of pixel k, its chroma bytes and its chroma.
RowOf(k)    == k \div size.width
ColumnOf(k) == k % size.width
ChromaOf(k) == ChromaRow(RowOf(k)) + 2 * (ColumnOf(k) \div 2)
VOf(k) == mYUVBuffer[ChromaOf(k) + 1] - 128
UOf(k) == mYUVBuffer[ChromaOf(k) + 2] - 128

\* Pixel k has the colour of its own luminance and chroma, which the buffer has.
PixelInv(k) ==
  /\ ChromaOf(k) \in Nat /\ ChromaOf(k) + 2 <= BufferSize(size)
  /\ mRGBData[k + 1] = Colour(Luminance(mYUVBuffer[k + 1]), UOf(k), VOf(k))

FrameInv ==
  /\ size \in Sizes
  /\ mYUVBuffer \in [1..BufferSize(size) -> Bytes]
  /\ step = "crashed" => size.height % 2 = 1

\* The pixels before yp are right; within a row the running chroma index is past
\* the chroma of the pixel before, and u and v are that chroma.
PixelsInv ==
  /\ yp \in 0..frameSize
  /\ mRGBData \in Seq(Pixel) /\ Len(mRGBData) = yp
  /\ \A k \in 0..(yp - 1) : PixelInv(k)
  /\ yp < frameSize /\ ColumnOf(yp) # 0 =>
       uvp = ChromaOf(yp - 1) + 2 /\ u = UOf(yp - 1) /\ v = VOf(yp - 1)

\* The inductive invariant.
DecodeInv ==
  /\ FrameInv
  /\ step \in {"decode", "histogram", "tones"} => PixelsInv
  /\ step \in {"histogram", "tones"} => yp = frameSize

\* The values of the size and of the buffer's length.
LEMMA Dimensions ==
  ASSUME size \in Sizes
  PROVE  /\ size.width \in Nat \ {0} /\ size.height \in Nat \ {0}
         /\ frameSize \in Nat \ {0} /\ BufferSize(size) \in Nat
         /\ BufferSize(size) >= frameSize
<1>1. size.width \in Nat \ {0} /\ size.height \in Nat \ {0}
  BY SizesAssumption
<1> DEFINE w == size.width
           h == size.height
           y == Ceil16(w)
           uv == Ceil16(y \div 2)
<1>2. y \in Nat /\ y >= w
  BY <1>1, Padded
<1>3. y \div 2 \in Nat
  BY <1>2, SMT
<1>4. uv \in Nat
  BY <1>3, Padded
<1>5. frameSize = w * h /\ BufferSize(size) = y * h + 2 * ((uv * h) \div 2)
  BY DEF frameSize, BufferSize
<1> HIDE DEF w, h, y, uv
<1>6. w \in Nat \ {0} /\ h \in Nat \ {0}
  BY <1>1 DEF w, h
<1>7. w * h \in Nat \ {0} /\ y * h \in Nat /\ uv * h \in Nat /\ y * h >= w * h
  BY <1>2, <1>4, <1>6, SMT
<1>8. 2 * ((uv * h) \div 2) \in Nat
  BY <1>7, SMT
<1>9. QED
  BY <1>1, <1>5, <1>7, <1>8

\* With an even number of rows the chroma of every pixel that reads it is inside
\* the buffer.
LEMMA ChromaInBuffer ==
  ASSUME size \in Sizes, size.height % 2 = 0,
         NEW k \in 0..(frameSize - 1), ColumnOf(k) % 2 = 0
  PROVE  ChromaOf(k) + 2 <= BufferSize(size)
<1> DEFINE w == size.width
           h == size.height
           m == h \div 2
           y == Ceil16(w)
           uv == Ceil16(y \div 2)
           i == k % w
           j == k \div w
           c == j \div 2
<1>1. w \in Nat \ {0} /\ h \in Nat \ {0} /\ frameSize \in Nat \ {0}
  BY Dimensions
<1>2. y \in Nat /\ y >= w /\ y % 2 = 0
  BY <1>1, Padded
<1>3. uv \in Nat /\ 2 * uv >= y
  <2>1. y \div 2 \in Nat /\ 2 * (y \div 2) = y
    BY <1>2, SMT
  <2>2. uv \in Nat /\ uv >= y \div 2
    BY <2>1, Padded
  <2>3. QED
    BY <1>2, <2>1, <2>2
<1>4. h = 2 * m /\ m \in Nat
  BY <1>1, SMT
<1>5. j \in Nat /\ i \in 0..(w - 1) /\ k = j * w + i /\ k \in Nat /\ k < w * h
  <2>1. k \in Nat /\ k < w * h
    BY <1>1 DEF frameSize
  <2>2. QED
    BY <1>1, <2>1, DivisionParts
<1>6. c \in Nat /\ 2 * c <= j
  BY <1>5, SMT
<1>7. i % 2 = 0 /\ 2 * (i \div 2) = i
  <2>1. i % 2 = 0
    BY DEF ColumnOf
  <2>2. QED
    BY <1>5, <2>1, SMT
<1>8. ChromaOf(k) = w * h + c * w + i
  BY <1>7 DEF ChromaOf, ChromaRow, RowOf, ColumnOf, frameSize
<1>9. BufferSize(size) = y * h + 2 * ((uv * h) \div 2)
  BY DEF BufferSize
<1> HIDE DEF w, h, m, y, uv, i, j, c
<1>10. j < h
  <2>1. j * w \in Nat /\ h * w = w * h /\ h * w \in Nat
    BY <1>1, <1>5, SMT
  <2>2. j * w < h * w
    BY <1>5, <2>1
  <2>3. QED
    BY <1>1, <1>5, <2>2, FactorOrder
<1>11. c <= m - 1
  BY <1>4, <1>6, <1>10, <1>5
<1>12. w % 2 = 1 => y >= w + 1
  BY <1>1, <1>2, SMT
<1>13. w % 2 = 0 => i + 2 <= w
  BY <1>1, <1>5, <1>7, SMT
<1>14. i + 2 <= y /\ (i + 2 <= w \/ y >= w + 1)
  BY <1>1, <1>2, <1>5, <1>12, <1>13, SMT
<1>15. uv * h = 2 * (uv * m) /\ uv * m \in Nat /\ y * h = 2 * (y * m) /\ y * m \in Nat
  BY <1>2, <1>3, <1>4, SMT
<1>16. BufferSize(size) = 2 * (y * m) + 2 * (uv * m)
  <2>1. (uv * h) \div 2 = uv * m
    BY <1>15, SMT
  <2>2. QED
    BY <1>9, <1>15, <2>1
<1>17. 2 * (uv * m) >= y * m
  BY <1>2, <1>3, <1>4, <1>15, SMT
<1>18. w * h = 2 * (w * m) /\ w * m \in Nat /\ c * w <= (m - 1) * w /\ (m - 1) * w = w * m - w
  BY <1>1, <1>4, <1>6, <1>11, SMT
<1>19. y * m >= w * m /\ (y >= w + 1 => y * m >= w * m + m) /\ m >= 1
  BY <1>1, <1>2, <1>4, <1>6, <1>11, SMT
<1>20. c * w \in Nat
  BY <1>1, <1>6
<1>21. QED
  BY <1>1, <1>2, <1>4, <1>5, <1>8, <1>14, <1>15, <1>16, <1>17, <1>18, <1>19, <1>20

\* The level that the packed word keeps is a byte, and a colour has three.
LEMMA PackedIsByte == ASSUME NEW x \in Int PROVE Packed(x) \in Bytes
  BY SMT DEF Packed, Bytes

LEMMA ColourIsPixel ==
  ASSUME NEW y \in Int, NEW un \in Int, NEW vn \in Int
  PROVE  Colour(y, un, vn) \in Pixel
  BY PackedIsByte DEF Colour, Pixel

\* The chroma index of a pixel is a number, and that of an odd column is the one
\* of the pixel before.
LEMMA ChromaPlaces ==
  ASSUME size \in Sizes, NEW k \in Nat
  PROVE  /\ RowOf(k) \in Nat /\ ColumnOf(k) \in 0..(size.width - 1) /\ ChromaOf(k) \in Nat
         /\ ColumnOf(k) = 0 => ChromaOf(k) = ChromaRow(RowOf(k))
         /\ ColumnOf(k) # 0 => k - 1 \in Nat
         /\ ColumnOf(k) # 0 /\ ColumnOf(k) % 2 = 0 => ChromaOf(k) = ChromaOf(k - 1) + 2
         /\ ColumnOf(k) % 2 # 0 => ColumnOf(k) # 0 /\ ChromaOf(k) = ChromaOf(k - 1)
<1> DEFINE r == RowOf(k)
           c == ColumnOf(k)
<1>1. r \in Nat /\ c \in 0..(size.width - 1) /\ frameSize \in Nat /\ size.width \in Nat
  BY Dimensions, DivisionParts DEF RowOf, ColumnOf
<1>2. r \div 2 \in Nat /\ c \div 2 \in Nat
  BY <1>1, SMT
<1>3. (r \div 2) * size.width \in Nat
  BY <1>1, <1>2, SMT
<1>4. ChromaRow(r) \in Nat /\ ChromaOf(k) = ChromaRow(r) + 2 * (c \div 2)
  BY <1>1, <1>3 DEF ChromaRow, ChromaOf
<1>5. c = 0 => c \div 2 = 0
  BY SMT
<1>6. ASSUME c # 0
      PROVE  k - 1 \in Nat /\ ChromaOf(k - 1) = ChromaRow(r) + 2 * ((c - 1) \div 2)
  <2>1. k >= 1 /\ RowOf(k - 1) = r /\ ColumnOf(k - 1) = c - 1
    BY <1>6, Dimensions, PixelBefore DEF RowOf, ColumnOf
  <2>2. QED
    BY <2>1 DEF ChromaOf
<1> HIDE DEF r, c
<1>7. /\ c # 0 /\ c % 2 = 0 => 2 * (c \div 2) = 2 * ((c - 1) \div 2) + 2
      /\ c % 2 # 0 => c # 0 /\ 2 * (c \div 2) = 2 * ((c - 1) \div 2)
      /\ (c - 1) \div 2 \in Int
  BY <1>1, SMT
<1>8. /\ ChromaOf(k) \in Nat
      /\ c = 0 => ChromaOf(k) = ChromaRow(r)
      /\ c # 0 => k - 1 \in Nat
      /\ c # 0 /\ c % 2 = 0 => ChromaOf(k) = ChromaOf(k - 1) + 2
      /\ c % 2 # 0 => c # 0 /\ ChromaOf(k) = ChromaOf(k - 1)
  BY <1>1, <1>2, <1>4, <1>5, <1>6, <1>7
<1>9. QED
  BY <1>1, <1>8 DEF r, c

\* One pixel, unless the index is out of range: it gets the colour of its own
\* chroma, read now or with the pixel before it.
LEMMA OnePixel ==
  ASSUME FrameInv, PixelsInv, DecodePixel, step' = step
  PROVE  /\ yp < frameSize /\ yp' = yp + 1
         /\ ChromaOf(yp) + 2 <= BufferSize(size) /\ ChromaOf(yp) \in Nat
         /\ uvp' = ChromaOf(yp) + 2 /\ v' = VOf(yp) /\ u' = UOf(yp)
         /\ mRGBData' = Append(mRGBData,
                               Colour(Luminance(mYUVBuffer[yp + 1]), UOf(yp), VOf(yp)))
<1> DEFINE i == ColumnOf(yp)
           from == IF i = 0 THEN ChromaRow(RowOf(yp)) ELSE uvp
<1>1. yp \in Nat /\ size \in Sizes /\ yp < frameSize
  BY Dimensions DEF FrameInv, PixelsInv, DecodePixel
<1>2. Len(mYUVBuffer) = BufferSize(size)
  BY <1>1, Dimensions DEF FrameInv, Bytes
<1>3. /\ ~(i % 2 = 0 /\ from + 2 > Len(mYUVBuffer))
      /\ v' = IF i % 2 = 0 THEN mYUVBuffer[from + 1] - 128 ELSE v
      /\ u' = IF i % 2 = 0 THEN mYUVBuffer[from + 2] - 128 ELSE u
      /\ uvp' = IF i % 2 = 0 THEN from + 2 ELSE from
      /\ yp' = yp + 1
      /\ mRGBData' = Append(mRGBData, Colour(Luminance(mYUVBuffer[yp + 1]), u', v'))
  BY DEF DecodePixel, ColumnOf, RowOf
<1>4. /\ ChromaOf(yp) \in Nat
      /\ i = 0 => ChromaOf(yp) = ChromaRow(RowOf(yp))
      /\ i # 0 => yp - 1 \in Nat
      /\ i # 0 /\ i % 2 = 0 => ChromaOf(yp) = ChromaOf(yp - 1) + 2
      /\ i % 2 # 0 => i # 0 /\ ChromaOf(yp) = ChromaOf(yp - 1)
  BY <1>1, ChromaPlaces
<1>5. i # 0 => uvp = ChromaOf(yp - 1) + 2 /\ u = UOf(yp - 1) /\ v = VOf(yp - 1)
  BY <1>1 DEF PixelsInv
<1> HIDE DEF i, from
<1>6. CASE i % 2 = 0
  <2>1. from = ChromaOf(yp)
    BY <1>4, <1>5, <1>6 DEF from
  <2>2. QED
    BY <1>1, <1>2, <1>3, <1>4, <1>6, <2>1 DEF VOf, UOf
<1>7. CASE i % 2 # 0
  <2>1. from = ChromaOf(yp) + 2 /\ u = UOf(yp) /\ v = VOf(yp)
    BY <1>4, <1>5, <1>7 DEF from, VOf, UOf
  <2>2. yp - 1 \in 0..(yp - 1) /\ ChromaOf(yp - 1) + 2 <= BufferSize(size)
    BY <1>1, <1>4, <1>7 DEF PixelsInv, PixelInv
  <2>3. QED
    BY <1>1, <1>3, <1>4, <1>7, <2>1, <2>2
<1>8. QED
  BY <1>6, <1>7

\* The state before the first frame.
LEMMA InitDecode == Init => DecodeInv
<1> SUFFICES ASSUME Init PROVE DecodeInv
  OBVIOUS
<1>1. FrameInv
  BY Dimensions DEF Init, FrameInv, Bytes
<1>2. QED
  BY <1>1 DEF Init, DecodeInv

\* A new frame is decoded from its first pixel, with nothing of the one before.
LEMMA StepFill == DecodeInv /\ Fill => DecodeInv'
<1> SUFFICES ASSUME DecodeInv, Fill PROVE DecodeInv'
  OBVIOUS
<1>1. size \in Sizes /\ BufferSize(size) \in Nat /\ mYUVBuffer \in [1..BufferSize(size) -> Bytes]
  BY Dimensions DEF DecodeInv, FrameInv
<1>2. Len(mYUVBuffer) = BufferSize(size)
  BY <1>1 DEF Bytes
<1>3. size' = size /\ mYUVBuffer' \in Images(BufferSize(size))
        /\ step' = "decode" /\ yp' = 0 /\ mRGBData' = <<>>
  BY <1>2 DEF Fill
<1>4. mYUVBuffer' \in [1..BufferSize(size) -> Bytes]
  BY <1>1, <1>3, ImagesAssumption DEF Bytes
<1>5. BufferSize(size)' = BufferSize(size) /\ frameSize' = frameSize
  BY <1>3 DEF frameSize
<1>6. FrameInv'
  BY <1>1, <1>3, <1>4, <1>5 DEF FrameInv
<1>7. PixelsInv'
  <2>1. ColumnOf(yp)' = 0
    <3>1. 0 % size.width = 0
      BY <1>1, Dimensions, DivisionUnique, 0 * size.width = 0
    <3>2. QED
      BY <1>3, <3>1 DEF ColumnOf
  <2>2. frameSize \in Nat
    BY <1>1, Dimensions
  <2>3. QED
    BY <1>3, <1>5, <2>1, <2>2 DEF PixelsInv
<1>8. QED
  BY <1>3, <1>6, <1>7 DEF DecodeInv

\* One pixel more is right.
LEMMA StepPixel == DecodeInv /\ DecodePixel => DecodeInv'
<1> SUFFICES ASSUME DecodeInv, DecodePixel PROVE DecodeInv'
  OBVIOUS
<1> USE DEF DecodeInv
<1>1. step = "decode" /\ FrameInv /\ PixelsInv /\ size' = size /\ mYUVBuffer' = mYUVBuffer
        /\ step' \in {"decode", "crashed"}
  BY DEF DecodePixel
<1>2. size \in Sizes /\ yp \in Nat /\ yp < frameSize /\ frameSize \in Nat
  BY <1>1, Dimensions DEF FrameInv, PixelsInv, DecodePixel
<1>3. CASE step' = "crashed"
  <2> DEFINE i == ColumnOf(yp)
             from == IF i = 0 THEN ChromaRow(RowOf(yp)) ELSE uvp
  <2>1. Len(mYUVBuffer) = BufferSize(size) /\ BufferSize(size) \in Nat
    BY <1>1, <1>2, Dimensions DEF FrameInv, Bytes
  <2>2. i % 2 = 0 /\ from + 2 > Len(mYUVBuffer)
    BY <1>1, <1>3 DEF DecodePixel, ColumnOf, RowOf
  <2>3. from = ChromaOf(yp) /\ ChromaOf(yp) \in Nat
    <3>1. /\ ChromaOf(yp) \in Nat
          /\ i = 0 => ChromaOf(yp) = ChromaRow(RowOf(yp))
          /\ i # 0 => ChromaOf(yp) = ChromaOf(yp - 1) + 2
      BY <1>2, <2>2, ChromaPlaces
    <3>2. i # 0 => uvp = ChromaOf(yp - 1) + 2
      BY <1>1, <1>2 DEF PixelsInv
    <3>3. QED
      BY <3>1, <3>2
  <2>4. size.height % 2 # 0
    BY <1>2, <2>1, <2>2, <2>3, ChromaInBuffer
  <2>5. size.height % 2 = 1
    BY <1>2, <2>4, Dimensions
  <2>6. QED
    BY <1>1, <1>3, <2>5 DEF FrameInv
<1>4. CASE step' = "decode"
  <2>1. /\ yp' = yp + 1
        /\ ChromaOf(yp) + 2 <= BufferSize(size) /\ ChromaOf(yp) \in Nat
        /\ uvp' = ChromaOf(yp) + 2 /\ v' = VOf(yp) /\ u' = UOf(yp)
        /\ mRGBData' = Append(mRGBData,
                              Colour(Luminance(mYUVBuffer[yp + 1]), UOf(yp), VOf(yp)))
    BY <1>1, <1>4, OnePixel
  <2>2. PICK n : n = yp
    OBVIOUS
  <2>3. PICK pixel : pixel = Colour(Luminance(mYUVBuffer[n + 1]), UOf(n), VOf(n))
    OBVIOUS
  <2>4. \A k : /\ ChromaOf(k)' = ChromaOf(k) /\ VOf(k)' = VOf(k) /\ UOf(k)' = UOf(k)
               /\ ColumnOf(k)' = ColumnOf(k)
    BY <1>1 DEF ChromaOf, VOf, UOf, ColumnOf, RowOf, ChromaRow, frameSize
  <2>5. BufferSize(size)' = BufferSize(size) /\ frameSize' = frameSize
    BY <1>1 DEF frameSize
  <2>6. pixel \in Pixel
    <3>1. \A m \in 1..BufferSize(size) : mYUVBuffer[m] \in Int
      <4>1. \A m \in 1..BufferSize(size) : mYUVBuffer[m] \in Bytes
        BY <1>1 DEF FrameInv
      <4>2. QED
        BY <4>1 DEF Bytes
    <3>2. VOf(n) \in Int /\ UOf(n) \in Int
      <4>1. PICK m \in Nat : m = ChromaOf(n) /\ m + 2 <= BufferSize(size)
        BY <2>1, <2>2
      <4>2. m + 1 \in 1..BufferSize(size) /\ m + 2 \in 1..BufferSize(size)
        BY <1>2, <4>1, Dimensions
      <4>3. mYUVBuffer[m + 1] \in Int /\ mYUVBuffer[m + 2] \in Int
        BY <3>1, <4>2
      <4>4. QED
        BY <4>1, <4>3 DEF VOf, UOf
    <3>3. n + 1 \in 1..BufferSize(size)
      BY <1>2, <2>2, Dimensions
    <3>4. Luminance(mYUVBuffer[n + 1]) \in Int
      BY <3>1, <3>3 DEF Luminance
    <3>5. QED
      BY <2>3, <3>2, <3>4, ColourIsPixel
  <2>7. /\ mRGBData \in Seq(Pixel) /\ Len(mRGBData) = n
        /\ mRGBData' = Append(mRGBData, pixel) /\ n \in Nat
    BY <1>1, <1>2, <2>1, <2>2, <2>3 DEF PixelsInv
  <2>8. /\ mRGBData' \in Seq(Pixel) /\ Len(mRGBData') = n + 1
        /\ mRGBData'[n + 1] = pixel
        /\ \A k \in 0..(n - 1) : mRGBData'[k + 1] = mRGBData[k + 1]
    BY <2>6, <2>7
  <2>9. \A k \in 0..n : PixelInv(k)'
    <3> SUFFICES ASSUME NEW k \in 0..n PROVE PixelInv(k)'
      OBVIOUS
    <3>1. CASE k = n
      BY <1>1, <2>1, <2>2, <2>3, <2>4, <2>5, <2>8, <3>1 DEF PixelInv
    <3>2. CASE k \in 0..(n - 1)
      BY <1>1, <2>2, <2>4, <2>5, <2>8, <3>2 DEF PixelsInv, PixelInv
    <3>3. QED
      BY <2>7, <3>1, <3>2
  <2>10. PixelsInv'
    BY <1>2, <2>1, <2>2, <2>4, <2>5, <2>7, <2>8, <2>9 DEF PixelsInv
  <2>11. FrameInv'
    BY <1>1, <1>4, <2>5 DEF FrameInv
  <2>12. QED
    BY <1>4, <2>10, <2>11
<1>5. QED
  BY <1>1, <1>3, <1>4

\* Every step keeps the invariant.
LEMMA StepDecode == DecodeInv /\ [Next]_vars => DecodeInv'
<1> SUFFICES ASSUME DecodeInv, [Next]_vars PROVE DecodeInv'
  OBVIOUS
<1>1. CASE UNCHANGED vars \/ Decoded \/ Histograms
  <2>1. \A k : PixelInv(k)' <=> PixelInv(k)
    BY <1>1 DEF vars, decoding, Decoded, Histograms, PixelInv, VOf, UOf, ChromaOf, ChromaRow, RowOf,
                ColumnOf, frameSize
  <2>2. FrameInv' /\ (PixelsInv => PixelsInv')
    BY <1>1, <2>1 DEF DecodeInv, FrameInv, PixelsInv, vars, decoding, Decoded, Histograms, VOf, UOf,
                      ChromaOf, ChromaRow, RowOf, ColumnOf, frameSize
  <2>3. QED
    BY <1>1, <2>2 DEF DecodeInv, vars, decoding, Decoded, Histograms, frameSize
<1>2. CASE Fill
  BY <1>2, StepFill
<1>3. CASE DecodePixel
  BY <1>3, StepPixel
<1>4. CASE GenTones
  BY <1>4 DEF DecodeInv, FrameInv, GenTones
<1>5. QED
  BY <1>1, <1>2, <1>3, <1>4 DEF Next

\* Dividing by 1024 and cutting keeps a level near that in thousandths.
LEMMA PackedIsNear ==
  ASSUME NEW x \in Int, NEW t \in Int,
         1000 * x <= 1024 * t + 900000, 1024 * t <= 1000 * x + 900000
  PROVE  Near(Packed(x), t)
<1> DEFINE cut == IF t < 0 THEN 0 ELSE IF t > 255000 THEN 255000 ELSE t
           level == Packed(x)
<1>1. /\ level \in Int /\ (x < 0 => level = 0) /\ (x > 262143 => level = 255)
      /\ 0 <= x /\ x <= 262143 => 1024 * level <= x /\ x <= 1024 * level + 1023
  BY SMT DEF Packed
<1>2. /\ cut \in Int /\ (t < 0 => cut = 0) /\ (t > 255000 => cut = 255000)
      /\ t >= 0 /\ t <= 255000 => cut = t
  BY SMT
<1> HIDE DEF cut, level
<1>3. 1000 * level - cut <= 2000 /\ 1000 * level - cut >= -2000
  BY <1>1, <1>2, SMT
<1>4. 1000 * level - cut \in -2000..2000
  BY <1>1, <1>2, <1>3, SMT
<1>5. QED
  BY <1>4, SMT DEF Near, cut, level

\* The integer conversion to a packed colour is within two levels of the exact one.
NearColour(pixel, y, un, vn) ==
  /\ Near(pixel.red, 1164 * y + 1596 * vn)
  /\ Near(pixel.green, 1164 * y - 813 * vn - 391 * un)
  /\ Near(pixel.blue, 1164 * y + 2018 * un)

LEMMA ColourIsNear ==
  ASSUME NEW y \in 0..239, NEW un \in Chroma, NEW vn \in Chroma
  PROVE  NearColour(Colour(y, un, vn), y, un, vn)
<1>1. /\ Colour(y, un, vn).red = Packed(1192 * y + 1634 * vn)
      /\ Colour(y, un, vn).green = Packed(1192 * y - 833 * vn - 400 * un)
      /\ Colour(y, un, vn).blue = Packed(1192 * y + 2066 * un)
  BY DEF Colour
<1>2. /\ y \in Int /\ un \in Int /\ vn \in Int /\ 0 <= y /\ y <= 239
      /\ -128 <= un /\ un <= 127 /\ -128 <= vn /\ vn <= 127
  BY DEF Chroma
<1>3. Near(Packed(1192 * y + 1634 * vn), 1164 * y + 1596 * vn)
  BY <1>2, PackedIsNear, SMT
<1>4. Near(Packed(1192 * y - 833 * vn - 400 * un), 1164 * y - 813 * vn - 391 * un)
  BY <1>2, PackedIsNear, SMT
<1>5. Near(Packed(1192 * y + 2066 * un), 1164 * y + 2018 * un)
  BY <1>2, PackedIsNear, SMT
<1>6. QED
  BY <1>1, <1>3, <1>4, <1>5 DEF NearColour

\* decodeYUV420SP, for preview sizes of any width and any height and for any bytes:
\* unless the number of rows is odd no chroma index leaves the buffer, and every
\* pixel of an even width is the colour of its own two by two block.
THEOREM EveryPixelItsBlock == Spec => []DecodesItsBlock
<1>1. DecodeInv => DecodesItsBlock
  <2> SUFFICES ASSUME DecodeInv, step = "histogram",
                      NEW i \in 0..(size.width - 1), NEW j \in 0..(size.height - 1)
               PROVE  PixelIsRight(i, j)
    BY DEF DecodesItsBlock, DecodeInv, FrameInv
  <2> DEFINE k == j * size.width + i
             y == Luminance(mYUVBuffer[k + 1])
  <2>1. size \in Sizes /\ size.width \in Nat \ {0} /\ size.height \in Nat \ {0}
          /\ BufferSize(size) >= frameSize /\ BufferSize(size) \in Nat
    BY Dimensions DEF DecodeInv, FrameInv
  <2>2. RowOf(k) = j /\ ColumnOf(k) = i
    <3>1. j \in Nat
      BY <2>1
    <3>2. k \div size.width = j /\ k % size.width = i
      BY <2>1, <3>1, DivisionUnique
    <3>3. QED
      BY <3>2 DEF RowOf, ColumnOf
  <2>3. k \in 0..(frameSize - 1)
    <3>1. frameSize = size.width * size.height /\ j <= size.height - 1
      BY <2>1 DEF frameSize
    <3>2. j * size.width <= (size.height - 1) * size.width
      BY <2>1, SMT
    <3>3. (size.height - 1) * size.width = size.width * size.height - size.width
      BY <2>1, SMT
    <3>4. j * size.width \in Nat /\ size.width * size.height \in Nat
      BY <2>1, SMT
    <3>5. QED
      BY <2>1, <3>1, <3>2, <3>3, <3>4
  <2>4. ChromaOf(k) = frameSize + (j \div 2) * size.width + 2 * (i \div 2)
    BY <2>2 DEF ChromaOf, ChromaRow
  <2>5. PixelInv(k)
    BY <2>3 DEF DecodeInv, PixelsInv
  <2> HIDE DEF k
  <2>6. \A m \in 1..BufferSize(size) : mYUVBuffer[m] \in Bytes
    BY DEF DecodeInv, FrameInv
  <2>7. UOf(k) \in Chroma /\ VOf(k) \in Chroma
    BY <2>1, <2>5, <2>6 DEF UOf, VOf, PixelInv, Bytes, Chroma
  <2>8. k + 1 \in 1..BufferSize(size)
    BY <2>1, <2>3, Dimensions
  <2>9. y \in 0..239
    BY <2>6, <2>8, SMTT(30) DEF Luminance, Bytes
  <2>10. mRGBData[k + 1] = Colour(y, UOf(k), VOf(k))
    BY <2>5 DEF PixelInv
  <2> HIDE DEF y
  <2>11. NearColour(mRGBData[k + 1], y, UOf(k), VOf(k))
    BY <2>7, <2>9, <2>10, ColourIsNear
  <2>12. /\ VOf(k) = mYUVBuffer[frameSize + (j \div 2) * size.width + 2 * (i \div 2) + 1] - 128
         /\ UOf(k) = mYUVBuffer[frameSize + (j \div 2) * size.width + 2 * (i \div 2) + 2] - 128
    BY <2>4 DEF VOf, UOf
  <2>13. QED
    BY <2>11, <2>12 DEF PixelIsRight, NearColour, k, y
<1>2. QED
  BY <1>1, InitDecode, StepDecode, PTL DEF Spec

-----------------------------------------------------------------------------
(* Tones.                                                                  *)

\* A quotient, or one less than it if nothing remains, is at most the quotient and
\* at most one short of it.
LEMMA TruncatedQuotient ==
  ASSUME NEW a \in Nat, NEW b \in Nat \ {0}, NEW less \in {0, 1}, NEW q,
         q = (a \div b) - (IF a % b = 0 THEN less ELSE 0)
  PROVE  q \in Int /\ q * b <= a /\ a <= q * b + b
<1>1. a \div b \in Nat /\ a % b \in 0..(b - 1) /\ a = (a \div b) * b + (a % b)
  BY DivisionParts
<1>2. PICK d \in Nat : d = a \div b
  BY <1>1
<1>3. CASE a % b = 0 /\ less = 1
  <2>1. q = d - 1 /\ a = d * b
    BY <1>1, <1>2, <1>3
  <2>2. (d - 1) * b = d * b - b /\ d * b \in Int
    BY SMT
  <2>3. QED
    BY <2>1, <2>2
<1>4. CASE a % b # 0 \/ less = 0
  <2>1. q = d /\ a = d * b + (a % b)
    BY <1>1, <1>2, <1>4
  <2>2. d * b \in Int
    BY SMT
  <2>3. QED
    BY <1>1, <2>1, <2>2
<1>5. QED
  BY <1>3, <1>4

\* genTones computes, for every mean from 0 to 255: the samples hold whole periods
\* and are less than two samples short of them, they last a third of a second less
\* at most a period, and they fit the array.
LEMMA ToneFits ==
  ASSUME NEW n \in Nat \ {0}, NEW sum \in Nat, sum <= 255 * n,
         NEW late \in {0, 1}, NEW short \in {0, 1},
         NEW p, p = Periods(sum, n, late),
         NEW s, s = Samples(sum, n, p, short)
  PROVE  LET tone == 13 * Tone(sum, n)
             end  == 112455 * p * n
         IN  /\ s * tone <= end
             /\ end - s * tone < 2 * tone
             /\ s \in 14687..14700
<1>1. PICK t \in Nat \ {0} : t = Tone(sum, n) /\ t >= 765 * n
  BY SMT DEF Tone
<1>2. PICK d \in Nat \ {0} : d = 153 * n
  BY SMT
<1>3. 260 * t \in Nat /\ p = ((260 * t) \div d) - (IF (260 * t) % d = 0 THEN late ELSE 0)
  BY <1>1, <1>2, SMT DEF Periods
<1>4. p \in Int /\ p * d <= 260 * t /\ 260 * t <= p * d + d
  <2>1. PICK a \in Nat : a = 260 * t
    BY <1>3
  <2>2. p = (a \div d) - (IF a % d = 0 THEN late ELSE 0)
    BY <1>3, <2>1
  <2>3. p \in Int /\ p * d <= a /\ a <= p * d + d
    BY <2>2, TruncatedQuotient
  <2>4. QED
    BY <2>1, <2>3
<1>5. PICK pd \in Int : pd = p * d
  BY <1>4, SMT
<1>6. 260 * t > d
  BY <1>1, <1>2, SMT
<1>7. pd >= 0
  BY <1>4, <1>5, <1>6, SMT
<1>8. 112455 * p * n = 735 * pd
  BY <1>2, <1>4, <1>5, SMT
<1>9. 735 * pd \in Nat
  BY <1>7, SMT
<1>10. PICK f \in Nat \ {0} : f = 13 * t
  BY SMT
<1>11. s = ((735 * pd) \div f) - (IF (735 * pd) % f = 0 THEN short ELSE 0)
  BY <1>1, <1>8, <1>10, SMT DEF Samples
<1>12. s \in Int /\ s * f <= 735 * pd /\ 735 * pd <= s * f + f
  <2>1. PICK a \in Nat : a = 735 * pd
    BY <1>9
  <2>2. s = (a \div f) - (IF a % f = 0 THEN short ELSE 0)
    BY <1>11, <2>1
  <2>3. s \in Int /\ s * f <= a /\ a <= s * f + f
    BY <2>2, TruncatedQuotient
  <2>4. QED
    BY <2>1, <2>3
<1>13. PICK sf \in Int : sf = s * f
  BY <1>12, SMT
<1>14. sf <= 14700 * f /\ sf + f >= 14688 * f
  BY <1>1, <1>2, <1>4, <1>5, <1>10, <1>12, <1>13, SMT
<1>15. s < 14701
  <2>1. s * f < 14701 * f
    BY <1>13, <1>14, SMT
  <2>2. QED
    BY <1>12, <2>1, FactorOrder, SMT
<1>16. 14686 < s
  <2>1. 14686 * f < s * f
    BY <1>13, <1>14, SMT
  <2>2. QED
    BY <1>12, <2>1, FactorOrder, SMT
<1>17. 13 * Tone(sum, n) = f
  BY <1>1, <1>10
<1>18. s * f <= 735 * pd /\ 735 * pd - s * f < 2 * f /\ s \in 14687..14700
  BY <1>12, <1>13, <1>15, <1>16, SMT
<1>19. QED
  BY <1>8, <1>17, <1>18, SMT

-----------------------------------------------------------------------------
(* Sums.                                                                   *)

\* For each x in S as many elements as f[x] says: their number is the sum of f
\* over S, and unlike the sum it does not depend on an order of S.
Stack(S, f) == {p \in S \X Nat : p[2] \in 1..f[p[1]]}

\* What MapThenSumSet takes the value of at S.
SumsOf(S, f, sums) ==
  sums = [s \in SUBSET S |->
            IF s = {} THEN 0
            ELSE LET x == CHOOSE x \in s : TRUE IN f[x] + sums[s \ {x}]]

LEMMA StackIsFinite ==
  ASSUME NEW S, IsFiniteSet(S), NEW f \in [S -> Nat]
  PROVE  IsFiniteSet(Stack(S, f))
<1> DEFINE g == [x \in S |-> {x} \X (1..f[x])]
           T == {g[x] : x \in S}
<1>1. g \in Surjection(S, T)
  BY DEF Surjection
<1>2. IsFiniteSet(T)
  BY <1>1, FS_Surjection
<1>3. ASSUME NEW t \in T PROVE IsFiniteSet(t)
  <2>1. PICK x \in S : t = {x} \X (1..f[x])
    OBVIOUS
  <2>2. IsFiniteSet({x}) /\ IsFiniteSet(1..f[x])
    <3>1. f[x] \in Int
      OBVIOUS
    <3>2. IsFiniteSet(1..f[x])
      BY <3>1, FS_Interval
    <3>3. QED
      BY <3>2, FS_Singleton
  <2>3. QED
    BY <2>1, <2>2, FS_Product
<1>4. IsFiniteSet(UNION T)
  BY <1>2, <1>3, FS_UNION
<1>5. Stack(S, f) \subseteq UNION T
  <2> SUFFICES ASSUME NEW p \in Stack(S, f) PROVE \E x \in S : p \in g[x]
    OBVIOUS
  <2>1. p \in g[p[1]] /\ p[1] \in S
    BY DEF Stack
  <2>2. QED
    BY <2>1
<1>6. QED
  BY <1>4, <1>5, FS_Subset

LEMMA StackStep ==
  ASSUME NEW S, IsFiniteSet(S), NEW f \in [S -> Nat], NEW s \in SUBSET S, NEW x \in s
  PROVE  /\ Cardinality(Stack(s, f)) = f[x] + Cardinality(Stack(s \ {x}, f))
         /\ Cardinality(Stack(s, f)) \in Nat
<1> DEFINE A == {x} \X (1..f[x])
           B == Stack(s \ {x}, f)
<1>1. IsFiniteSet(A) /\ Cardinality(A) = f[x] /\ f[x] \in Nat
  <2>1. IsFiniteSet({x}) /\ Cardinality({x}) = 1
    BY FS_Singleton
  <2>2. f[x] \in Nat
    OBVIOUS
  <2>3. IsFiniteSet(1..f[x]) /\ Cardinality(1..f[x]) = f[x]
    BY <2>2, FS_Interval
  <2>4. IsFiniteSet(A) /\ Cardinality(A) = 1 * f[x]
    BY <2>1, <2>3, FS_Product
  <2>5. QED
    BY <2>2, <2>4
<1>2. IsFiniteSet(B)
  <2>1. IsFiniteSet(Stack(S, f))
    BY StackIsFinite
  <2>2. B \subseteq Stack(S, f)
    BY DEF Stack
  <2>3. QED
    BY <2>1, <2>2, FS_Subset
<1>3. Stack(s, f) = A \cup B
  BY DEF Stack
<1>4. A \cap B = {}
  BY DEF Stack
<1> HIDE DEF A, B
<1>5. Cardinality(B) \in Nat /\ Cardinality({}) = 0
  BY <1>2, FS_CardinalityType, FS_EmptySet
<1>6. Cardinality(A \cup B) = Cardinality(A) + Cardinality(B) - Cardinality(A \cap B)
  BY <1>1, <1>2, FS_Union
<1>7. Cardinality(Stack(s, f)) = f[x] + Cardinality(B)
  <2>1. Cardinality(A \cap B) = 0
    BY <1>4, <1>5
  <2>2. Cardinality(Stack(s, f)) = Cardinality(A \cup B)
    BY <1>3
  <2>3. Cardinality(A \cup B) = f[x] + Cardinality(B) - 0
    BY <1>1, <1>6, <2>1
  <2>4. QED
    BY <1>1, <1>5, <2>2, <2>3
<1>8. QED
  BY <1>1, <1>5, <1>7 DEF B

\* So the sum is that number, whatever order MapThenSumSet chooses.
LEMMA SumIsCardinality ==
  ASSUME NEW S, IsFiniteSet(S), NEW f \in [S -> Nat]
  PROVE  /\ \E sums : SumsOf(S, f, sums)
         /\ \A sums : SumsOf(S, f, sums) => sums[S] = Cardinality(Stack(S, f))
<1> DEFINE count == [s \in SUBSET S |-> Cardinality(Stack(s, f))]
<1>1. \A s \in SUBSET S : s # {} =>
        /\ (CHOOSE x \in s : TRUE) \in s
        /\ count[s] = f[CHOOSE x \in s : TRUE] + count[s \ {CHOOSE x \in s : TRUE}]
  BY StackStep, ZenonT(60)
<1>2. count[{}] = 0
  <2>1. Stack({}, f) = {}
    BY DEF Stack
  <2>2. QED
    BY <2>1, FS_EmptySet
<1>3. SumsOf(S, f, count)
  BY <1>1, <1>2, Zenon DEF SumsOf
<1>4. ASSUME NEW sums, SumsOf(S, f, sums) PROVE sums[S] = count[S]
  <2> HIDE DEF count
  <2> DEFINE T == {s \in SUBSET S : sums[s] # count[s]}
  <2>1. CASE T # {}
    <3>1. FiniteSubsetsOf(S) = SUBSET S
      BY FS_FiniteSubsetsOfFinite
    <3>2. IsWellFoundedOn(StrictSubsetOrdering(S), SUBSET S)
      BY <3>1, FS_StrictSubsetOrderingWellFounded
    <3>3. PICK s \in T : \A r \in T : ~ (<<r, s>> \in StrictSubsetOrdering(S))
      BY <2>1, <3>2, WFMin
    <3>4. s # {}
      BY <1>2, <1>4 DEF SumsOf
    <3>5. PICK x \in s : x = CHOOSE y \in s : TRUE
      BY <3>4, <1>1
    <3>6. s \ {x} \in SUBSET S /\ <<s \ {x}, s>> \in StrictSubsetOrdering(S)
      BY <3>5 DEF StrictSubsetOrdering
    <3>7. sums[s \ {x}] = count[s \ {x}]
      BY <3>3, <3>6
    <3>8. sums[s] = f[x] + sums[s \ {x}]
      BY <1>4, <3>4, <3>5 DEF SumsOf
    <3>9. count[s] = f[x] + count[s \ {x}]
      BY <1>1, <3>4, <3>5
    <3>10. QED
      BY <3>7, <3>8, <3>9
  <2>2. QED
    BY <2>1
<1>5. QED
  BY <1>3, <1>4

\* Where the sets X[b] are disjoint, their sizes add up to that of their union.
LEMMA FibresAddUp ==
  ASSUME NEW B, IsFiniteSet(B), NEW X, NEW w \in [B -> Nat],
         \A b \in B : IsFiniteSet(X[b]) /\ Cardinality(X[b]) = w[b],
         \A a \in B : \A b \in B : a # b => X[a] \cap X[b] = {}
  PROVE  Cardinality(UNION {X[b] : b \in B}) = Cardinality(Stack(B, w))
<1> DEFINE G(b) == CHOOSE g : g \in Bijection(1..w[b], X[b])
           F == [p \in Stack(B, w) |-> G(p[1])[p[2]]]
           U == UNION {X[b] : b \in B}
<1>1. ASSUME NEW b \in B
      PROVE  /\ \A i \in 1..w[b] : G(b)[i] \in X[b]
             /\ \A i \in 1..w[b] : \A j \in 1..w[b] : G(b)[i] = G(b)[j] => i = j
             /\ \A y \in X[b] : \E i \in 1..w[b] : G(b)[i] = y
  <2>1. \E g : g \in Bijection(1..w[b], X[b])
    BY FS_CardinalityType DEF ExistsBijection
  <2>2. G(b) \in Bijection(1..w[b], X[b])
    BY <2>1, Zenon
  <2> HIDE DEF G
  <2>3. QED
    BY <2>2 DEF Bijection, Injection, Surjection, IsInjective
<1> HIDE DEF G
<1>2. \A p \in Stack(B, w) : /\ p[1] \in B /\ p[2] \in 1..w[p[1]] /\ p = <<p[1], p[2]>>
                             /\ F[p] = G(p[1])[p[2]]
  BY DEF Stack
<1>3. \A b \in B : \A i \in 1..w[b] : <<b, i>> \in Stack(B, w) /\ F[<<b, i>>] = G(b)[i]
  BY DEF Stack
<1>4. F \in [Stack(B, w) -> U]
  <2>1. \A p \in Stack(B, w) : F[p] \in U
    BY <1>1, <1>2
  <2>2. QED
    BY <2>1
<1>5. ASSUME NEW p \in Stack(B, w), NEW q \in Stack(B, w), F[p] = F[q] PROVE p = q
  <2>1. p[1] = q[1]
    <3>1. F[p] \in X[p[1]] /\ F[q] \in X[q[1]]
      BY <1>1, <1>2
    <3>2. QED
      BY <1>2, <1>5, <3>1
  <2>2. p[2] = q[2]
    BY <1>1, <1>2, <1>5, <2>1
  <2>3. QED
    BY <1>2, <2>1, <2>2
<1>6. ASSUME NEW y \in U PROVE \E p \in Stack(B, w) : F[p] = y
  <2>1. PICK b \in B : y \in X[b]
    OBVIOUS
  <2>2. PICK i \in 1..w[b] : G(b)[i] = y
    BY <1>1, <2>1
  <2>3. QED
    BY <1>3, <2>2
<1> HIDE DEF F, U
<1>7. F \in Bijection(Stack(B, w), U)
  BY <1>4, <1>5, <1>6 DEF Bijection, Injection, Surjection, IsInjective
<1>8. Cardinality(U) = Cardinality(Stack(B, w))
  BY <1>7, StackIsFinite, FS_Bijection DEF ExistsBijection
<1>9. QED
  BY <1>8 DEF U

-----------------------------------------------------------------------------
(* The pixels that are counted.                                            *)

Level(c, pix) == mRGBData[pix + 1][c]
Levels(c) == [pix \in Counted |-> Level(c, pix)]

\* The frame has been decoded and its histograms are made.
Tallied ==
  /\ frameSize \in Nat \ {0}
  /\ mRGBData \in [1..frameSize -> Pixel]
  /\ histogram = [c \in Channels |-> [bin \in 0..255 |-> Cardinality(Count(c, bin))]]

LEMMA CountedPixels ==
  ASSUME frameSize \in Nat \ {0}
  PROVE  IsFiniteSet(Counted) /\ Cardinality(Counted) \in Nat \ {0} /\ Counted \subseteq Nat
<1>1. frameSize - 1 \in Int
  OBVIOUS
<1>2. IsFiniteSet(0..(frameSize - 1))
  BY <1>1, FS_Interval
<1>3. IsFiniteSet(Counted) /\ Counted \subseteq Nat
  BY <1>2, FS_Subset DEF Counted
<1>4. 0 \in Counted
  BY DEF Counted
<1>5. Cardinality(Counted) # 0
  BY <1>3, <1>4, FS_EmptySet
<1>6. QED
  BY <1>3, <1>5, FS_CardinalityType

LEMMA LevelsAreBytes ==
  ASSUME Tallied, NEW c \in Channels
  PROVE  /\ \A pix \in Counted : Level(c, pix) \in Bytes
         /\ Levels(c) \in [Counted -> Nat]
<1>1. ASSUME NEW pix \in Counted PROVE Level(c, pix) \in Bytes
  <2>1. mRGBData[pix + 1] \in Pixel
    BY DEF Tallied, Counted
  <2>2. QED
    BY <2>1 DEF Level, Pixel, Channels
<1>2. QED
  BY <1>1 DEF Levels, Bytes

\* The pixels of a level, and the bins that have some.
LEMMA HistogramCounts ==
  ASSUME Tallied, NEW c \in Channels
  PROVE  /\ Bins(c) \subseteq Bytes /\ IsFiniteSet(Bins(c))
         /\ \A bin \in Bins(c) : /\ histogram[c][bin] \in Nat
                                 /\ IsFiniteSet(Count(c, bin))
                                 /\ Cardinality(Count(c, bin)) = histogram[c][bin]
         /\ \A pix \in Counted : Level(c, pix) \in Bins(c)
<1>1. \A bin \in Bytes : /\ histogram[c][bin] \in Nat
                         /\ IsFiniteSet(Count(c, bin))
                         /\ Cardinality(Count(c, bin)) = histogram[c][bin]
  <2> SUFFICES ASSUME NEW bin \in Bytes
               PROVE  /\ histogram[c][bin] \in Nat
                      /\ IsFiniteSet(Count(c, bin))
                      /\ Cardinality(Count(c, bin)) = histogram[c][bin]
    BY SMTT(30)
  <2>1. Count(c, bin) \subseteq Counted /\ IsFiniteSet(Counted)
    BY CountedPixels DEF Tallied, Count
  <2>2. IsFiniteSet(Count(c, bin))
    BY <2>1, FS_Subset
  <2>3. histogram[c][bin] = Cardinality(Count(c, bin))
    BY DEF Tallied, Bytes
  <2>4. QED
    BY <2>2, <2>3, FS_CardinalityType
<1>2. Bins(c) \subseteq Bytes
  BY DEF Bins, Bytes
<1>3. IsFiniteSet(Bins(c))
  <2>1. IsFiniteSet(0..255)
    <3>1. 0 \in Int /\ 255 \in Int
      OBVIOUS
    <3>2. QED
      BY <3>1, FS_Interval
  <2>2. QED
    BY <1>2, <2>1, FS_Subset DEF Bytes
<1>4. ASSUME NEW pix \in Counted PROVE Level(c, pix) \in Bins(c)
  <2>1. Level(c, pix) \in Bytes
    BY LevelsAreBytes
  <2>2. pix \in Count(c, Level(c, pix))
    BY DEF Count, Level
  <2>3. histogram[c][Level(c, pix)] # 0
    BY <1>1, <2>1, <2>2, FS_EmptySet
  <2>4. histogram[c][Level(c, pix)] > 0
    BY <1>1, <2>1, <2>3
  <2>5. QED
    BY <2>1, <2>4 DEF Bins, Bytes
<1>5. QED
  BY <1>1, <1>2, <1>3, <1>4

LEMMA HistogramSumIsCount ==
  ASSUME Tallied, NEW c \in Channels
  PROVE  HistogramSum(c) = Cardinality(Counted)
<1> DEFINE S == Bins(c)
           f == [bin \in S |-> histogram[c][bin]]
           X == [bin \in S |-> Count(c, bin)]
           Sums(sums) == sums = [s \in SUBSET S |->
                                  IF s = {} THEN 0
                                  ELSE LET x == CHOOSE x \in s : TRUE
                                       IN histogram[c][x] + sums[s \ {x}]]
<1>1. IsFiniteSet(S) /\ f \in [S -> Nat]
  BY HistogramCounts
<1>2. HistogramSum(c) = (CHOOSE sums : Sums(sums))[S]
  BY Zenon DEF HistogramSum, MapThenSumSet, MapThenFoldSet
<1>3. \A sums : Sums(sums) <=> SumsOf(S, f, sums)
  <2>1. \A s \in SUBSET S : s # {} => f[CHOOSE x \in s : TRUE] = histogram[c][CHOOSE x \in s : TRUE]
    OBVIOUS
  <2>2. QED
    BY <2>1, Zenon DEF SumsOf
<1> HIDE DEF Sums, f, S
<1>4. Sums(CHOOSE sums : Sums(sums))
  <2>1. \E sums : Sums(sums)
    BY <1>1, <1>3, SumIsCardinality
  <2>2. QED
    BY <2>1, Zenon
<1>5. HistogramSum(c) = Cardinality(Stack(S, f))
  BY <1>1, <1>2, <1>3, <1>4, SumIsCardinality
<1>6. Cardinality(UNION {X[bin] : bin \in S}) = Cardinality(Stack(S, f))
  <2>1. \A bin \in S : IsFiniteSet(X[bin]) /\ Cardinality(X[bin]) = f[bin]
    BY HistogramCounts DEF S, f
  <2>2. \A a \in S : \A b \in S : a # b => X[a] \cap X[b] = {}
    BY DEF Count
  <2> HIDE DEF X
  <2>3. QED
    BY <1>1, <2>1, <2>2, FibresAddUp
<1>7. UNION {X[bin] : bin \in S} = Counted
  BY HistogramCounts DEF S, Count, Level
<1>8. QED
  BY <1>5, <1>6, <1>7

\* The weighted sum over the bins is the sum over the counted pixels.
LEMMA WeightedIsPixelSum ==
  ASSUME Tallied, NEW c \in Channels
  PROVE  /\ Weighted(c) = PixelSum(c)
         /\ PixelSum(c) \in Nat /\ PixelSum(c) <= 255 * Cardinality(Counted)
<1> DEFINE S == Bins(c)
           f == [bin \in S |-> histogram[c][bin] * bin]
           X == [bin \in S |-> Count(c, bin) \X (1..bin)]
           g == Levels(c)
           Sums(sums) == sums = [s \in SUBSET S |->
                                  IF s = {} THEN 0
                                  ELSE LET x == CHOOSE x \in s : TRUE
                                       IN histogram[c][x] * x + sums[s \ {x}]]
           PixelSums(sums) == sums = [s \in SUBSET Counted |->
                                       IF s = {} THEN 0
                                       ELSE LET x == CHOOSE x \in s : TRUE
                                            IN mRGBData[x + 1][c] + sums[s \ {x}]]
<1>1. IsFiniteSet(S) /\ f \in [S -> Nat]
  <2>1. \A bin \in S : histogram[c][bin] * bin \in Nat
    BY HistogramCounts DEF Bytes
  <2>2. QED
    BY <2>1, HistogramCounts
<1>2. IsFiniteSet(Counted) /\ g \in [Counted -> Nat]
  BY CountedPixels, LevelsAreBytes DEF Tallied
<1>3. /\ Weighted(c) = (CHOOSE sums : Sums(sums))[S]
      /\ PixelSum(c) = (CHOOSE sums : PixelSums(sums))[Counted]
  BY Zenon DEF Weighted, PixelSum, MapThenSumSet, MapThenFoldSet
<1>4. \A sums : Sums(sums) <=> SumsOf(S, f, sums)
  <2>1. \A s \in SUBSET S : s # {} =>
          f[CHOOSE x \in s : TRUE] = histogram[c][CHOOSE x \in s : TRUE] * (CHOOSE x \in s : TRUE)
    OBVIOUS
  <2>2. QED
    BY <2>1, Zenon DEF SumsOf
<1>5. ASSUME NEW sums PROVE PixelSums(sums) <=> SumsOf(Counted, g, sums)
  <2> DEFINE A(s) == LET x == CHOOSE x \in s : TRUE IN mRGBData[x + 1][c] + sums[s \ {x}]
             B(s) == LET x == CHOOSE x \in s : TRUE IN g[x] + sums[s \ {x}]
  <2>1. ASSUME NEW s \in SUBSET Counted, s # {} PROVE A(s) = B(s)
    <3>1. g[CHOOSE x \in s : TRUE] = mRGBData[(CHOOSE x \in s : TRUE) + 1][c]
      BY <2>1 DEF Levels, Level
    <3>2. QED
      BY <3>1, Zenon
  <2>2. PixelSums(sums) <=> sums = [s \in SUBSET Counted |-> IF s = {} THEN 0 ELSE A(s)]
    BY Zenon
  <2>3. SumsOf(Counted, g, sums) <=> sums = [s \in SUBSET Counted |-> IF s = {} THEN 0 ELSE B(s)]
    BY Zenon DEF SumsOf
  <2> HIDE DEF A, B, PixelSums, g
  <2>4. QED
    BY <2>1, <2>2, <2>3
<1> HIDE DEF Sums, PixelSums, f, g, S
<1>6. Sums(CHOOSE sums : Sums(sums)) /\ PixelSums(CHOOSE sums : PixelSums(sums))
  <2>1. (\E sums : Sums(sums)) /\ (\E sums : PixelSums(sums))
    BY <1>1, <1>2, <1>4, <1>5, SumIsCardinality
  <2>2. QED
    BY <2>1, Zenon
<1>7. Weighted(c) = Cardinality(Stack(S, f))
  BY <1>1, <1>3, <1>4, <1>6, SumIsCardinality
<1>8. PixelSum(c) = Cardinality(Stack(Counted, g))
  BY <1>2, <1>3, <1>5, <1>6, SumIsCardinality
<1>9. Cardinality(UNION {X[bin] : bin \in S}) = Cardinality(Stack(S, f))
  <2>1. ASSUME NEW bin \in S
        PROVE  IsFiniteSet(X[bin]) /\ Cardinality(X[bin]) = f[bin]
    <3>1. /\ IsFiniteSet(Count(c, bin)) /\ bin \in Nat /\ histogram[c][bin] \in Nat
          /\ Cardinality(Count(c, bin)) = histogram[c][bin]
      BY HistogramCounts DEF S, Bytes
    <3>2. IsFiniteSet(1..bin) /\ Cardinality(1..bin) = bin
      BY <3>1, FS_Interval
    <3>3. IsFiniteSet(X[bin]) /\ Cardinality(X[bin]) = histogram[c][bin] * bin
      BY <3>1, <3>2, FS_Product, ZenonT(60)
    <3>4. QED
      BY <3>3 DEF f
  <2>2. \A a \in S : \A b \in S : a # b => X[a] \cap X[b] = {}
    BY DEF Count
  <2> HIDE DEF X
  <2>3. QED
    BY <1>1, <2>1, <2>2, FibresAddUp
<1>10. UNION {X[bin] : bin \in S} = Stack(Counted, g)
  <2>1. ASSUME NEW p \in Stack(Counted, g) PROVE \E bin \in S : p \in X[bin]
    <3>1. /\ p[1] \in Counted /\ p[2] \in 1..Level(c, p[1]) /\ p = <<p[1], p[2]>>
      BY DEF Stack, g, Levels
    <3>2. Level(c, p[1]) \in S /\ p[1] \in Count(c, Level(c, p[1]))
      BY <3>1, HistogramCounts DEF S, Count, Level
    <3>3. QED
      BY <3>1, <3>2
  <2>2. ASSUME NEW bin \in S, NEW p \in X[bin] PROVE p \in Stack(Counted, g)
    <3>1. /\ p[1] \in Counted /\ Level(c, p[1]) = bin /\ p[2] \in 1..bin /\ p = <<p[1], p[2]>>
      BY DEF Count, Level
    <3>2. bin \in Nat
      BY HistogramCounts DEF S, Bytes
    <3>3. QED
      BY <3>1, <3>2 DEF Stack, g, Levels
  <2>3. QED
    BY <2>1, <2>2
<1>11. Cardinality(Stack(Counted, g)) \in Nat
         /\ Cardinality(Stack(Counted, g)) <= 255 * Cardinality(Counted)
  <2>1. IsFiniteSet(1..255) /\ Cardinality(1..255) = 255
    <3>1. PICK n \in Nat : n = 255
      OBVIOUS
    <3>2. IsFiniteSet(1..n) /\ Cardinality(1..n) = n
      BY FS_Interval
    <3>3. QED
      BY <3>1, <3>2
  <2>2. /\ IsFiniteSet(Counted \X (1..255))
        /\ Cardinality(Counted \X (1..255)) = Cardinality(Counted) * 255
    BY <1>2, <2>1, FS_Product
  <2>3. Stack(Counted, g) \subseteq Counted \X (1..255)
    BY LevelsAreBytes DEF Stack, g, Levels, Bytes
  <2>4. /\ IsFiniteSet(Stack(Counted, g))
        /\ Cardinality(Stack(Counted, g)) <= Cardinality(Counted \X (1..255))
    BY <2>2, <2>3, FS_Subset
  <2>5. Cardinality(Stack(Counted, g)) \in Nat /\ Cardinality(Counted) \in Nat
    BY <1>2, <2>4, FS_CardinalityType
  <2>6. QED
    BY <2>2, <2>4, <2>5
<1>12. QED
  BY <1>7, <1>8, <1>9, <1>10, <1>11

-----------------------------------------------------------------------------
(* The tones of a frame.                                                   *)

\* The histograms are of the frame in mRGBData, and nothing of it changes until its
\* tones are made.
TonesInv ==
  /\ step = "tones" =>
       histogram = [c \in Channels |-> [bin \in 0..255 |-> Cardinality(Count(c, bin))]]
  /\ step = "camera" /\ frames > 0 => \A c \in Channels : ToneIsRight(c)

\* genTones makes the tones of the pixels that the histograms count.
LEMMA StepGenTones ==
  ASSUME Tallied, GenTones, NEW c \in Channels
  PROVE  ToneIsRight(c)'
<1>1. PICK late \in [Channels -> {0, 1}], short \in [Channels -> {0, 1}] :
        /\ periods' = [k \in Channels |-> Periods(Weighted(k), HistogramSum(k), late[k])]
        /\ numSamples' = [k \in Channels |->
                            Samples(Weighted(k), HistogramSum(k), periods'[k], short[k])]
  BY DEF GenTones
<1>2. PICK n \in Nat \ {0}, sum \in Nat :
        n = Cardinality(Counted) /\ sum = PixelSum(c) /\ sum <= 255 * n
  BY CountedPixels, WeightedIsPixelSum DEF Tallied
<1>3. Weighted(c) = sum /\ HistogramSum(c) = n
  BY <1>2, WeightedIsPixelSum, HistogramSumIsCount
<1>4. PICK p, s : p = periods'[c] /\ s = numSamples'[c]
  OBVIOUS
<1>5. /\ late[c] \in {0, 1} /\ short[c] \in {0, 1}
      /\ p = Periods(sum, n, late[c]) /\ s = Samples(sum, n, p, short[c])
  BY <1>1, <1>3, <1>4
<1>6. LET tone == 13 * Tone(sum, n)
          end  == 112455 * p * n
      IN  /\ s * tone <= end
          /\ end - s * tone < 2 * tone
          /\ s \in 14687..14700
  BY <1>2, <1>5, ToneFits
<1>7. Cardinality(Counted)' = n /\ PixelSum(c)' = sum
  <2>1. size' = size /\ mRGBData' = mRGBData
    BY DEF GenTones, decoding
  <2>2. Counted' = Counted
    BY <2>1 DEF Counted, frameSize
  <2>3. PixelSum(c)' = PixelSum(c)
    BY <2>1, <2>2, ZenonT(60) DEF PixelSum, MapThenSumSet, MapThenFoldSet
  <2>4. QED
    BY <1>2, <2>2, <2>3
<1>8. s <= maxSamples
  BY <1>6, SMT DEF maxSamples
<1>9. QED
  BY <1>4, <1>6, <1>7, <1>8, SMT DEF ToneIsRight

\* Every step keeps the invariant.
LEMMA StepTones == DecodeInv /\ TonesInv /\ [Next]_vars => TonesInv'
<1> SUFFICES ASSUME DecodeInv, TonesInv, [Next]_vars PROVE TonesInv'
  OBVIOUS
<1>1. CASE UNCHANGED vars
  <2>1. \A c : Counted' = Counted /\ \A bin : Count(c, bin)' = Count(c, bin)
    BY <1>1 DEF vars, decoding, Counted, Count, frameSize
  <2>2. \A c : PixelSum(c)' = PixelSum(c)
    BY <1>1, <2>1, Zenon DEF vars, decoding, PixelSum, MapThenSumSet, MapThenFoldSet
  <2>3. \A c : ToneIsRight(c)' <=> ToneIsRight(c)
    BY <1>1, <2>1, <2>2, SMT DEF vars, ToneIsRight
  <2>4. QED
    BY <1>1, <2>1, <2>3 DEF TonesInv, vars
<1>2. CASE Fill \/ DecodePixel \/ Decoded
  BY <1>2 DEF TonesInv, Fill, DecodePixel, Decoded, DecodeInv
<1>3. CASE Histograms
  <2>1. \A c, bin : Count(c, bin)' = Count(c, bin)
    BY <1>3 DEF Histograms, decoding, Counted, Count, frameSize
  <2>2. QED
    BY <1>3, <2>1 DEF TonesInv, Histograms
<1>4. CASE GenTones
  <2>1. Tallied
    <3>1. step = "tones" /\ PixelsInv /\ yp = frameSize /\ size \in Sizes
      BY <1>4 DEF GenTones, DecodeInv, FrameInv
    <3>2. mRGBData \in [1..frameSize -> Pixel]
      BY <3>1 DEF PixelsInv
    <3>3. QED
      BY <3>1, <3>2, Dimensions DEF Tallied, TonesInv
  <2>2. \A c \in Channels : ToneIsRight(c)'
    BY <1>4, <2>1, StepGenTones
  <2>3. QED
    BY <1>4, <2>2 DEF TonesInv, GenTones
<1>5. QED
  BY <1>1, <1>2, <1>3, <1>4 DEF Next

\* genTones, for preview sizes of any width and any height and whatever is in the
\* frames: every tone has the frequency of the mean of its own frame's pixels, with
\* whole periods in its samples, and fits the array.
THEOREM TonesFollowFrame == Spec => []ToneOfThisFrame
<1>1. Init => TonesInv
  BY DEF Init, TonesInv
<1>2. TonesInv => ToneOfThisFrame
  BY DEF TonesInv, ToneOfThisFrame
<1>3. QED
  BY <1>1, <1>2, InitDecode, StepDecode, StepTones, PTL DEF Spec

=============================================================================
