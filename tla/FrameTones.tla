------------------------------ MODULE FrameTones ------------------------------
(***************************************************************************)
(* The arithmetic of AudioSynth's worker, whose order and sharing are in    *)
(* the module AudioSynth: one frame after another is decoded pixel by       *)
(* pixel, counted in three histograms and turned into three tones.          *)
(*                                                                         *)
(* Means and frequencies are the exact fractions; where a double that the   *)
(* code truncates may be an integer exactly, either of the integers that    *)
(* rounding can leave is possible.                                          *)
(***************************************************************************)
EXTENDS Integers, Sequences, FiniteSets, FiniteSetsExt

CONSTANTS
  Sizes,      \* preview sizes, [width, height]
  Images(_),  \* what the camera may put into a buffer of n bytes
  MaxFrames   \* bound: the frames decoded

ASSUME SizesAssumption == Sizes \subseteq [width : Nat \ {0}, height : Nat \ {0}]

Channels == {"red", "green", "blue"}
sampleRate == 44100
maxSamples == 20 * 1470
minFreq == 3900
maxFreq == 5200

VARIABLES
  size,        \* mImageWidth, mImageHeight
  mYUVBuffer,  \* the bytes of the frame
  frames,      \* the number of frames so far
  step,        \* "camera", "decode", "histogram", "tones", "crashed"
  yp, uvp,     \* the next luminance and chroma byte
  u, v,        \* the chroma of the pixel
  mRGBData,    \* the pixels decoded so far, [red, green, blue]
  histogram,   \* for each channel how many pixels have a value
  periods,     \* for each channel the periods of the tone
  numSamples   \* and its samples

decoding == <<yp, uvp, u, v, mRGBData>>
vars == <<size, mYUVBuffer, frames, step, decoding, histogram, periods, numSamples>>

Ceil16(n) == ((n + 15) \div 16) * 16

\* The constructor's buffer: rows of both kinds padded to 16 bytes.
BufferSize(s) ==
  LET yStride == Ceil16(s.width)
      uvStride == Ceil16(yStride \div 2)
  IN  yStride * s.height + 2 * ((uvStride * s.height) \div 2)

ASSUME ImagesAssumption ==
  \A s \in Sizes : Images(BufferSize(s)) \subseteq [1..BufferSize(s) -> 0..255]

Empty == [c \in Channels |-> [bin \in 0..255 |-> 0]]

Init ==
  /\ size \in Sizes
  /\ mYUVBuffer = [k \in 1..BufferSize(size) |-> 0]
  /\ frames = 0 /\ step = "camera"
  /\ yp = 0 /\ uvp = 0 /\ u = 0 /\ v = 0
  /\ mRGBData = <<>>
  /\ histogram = Empty
  /\ periods = [c \in Channels |-> 0]
  /\ numSamples = [c \in Channels |-> 0]

-----------------------------------------------------------------------------
\* The camera fills the buffer and the worker starts on it.
Fill ==
  /\ step = "camera" /\ frames < MaxFrames
  /\ frames' = frames + 1
  /\ mYUVBuffer' \in Images(Len(mYUVBuffer))
  /\ step' = "decode"
  /\ yp' = 0 /\ mRGBData' = <<>>
  /\ UNCHANGED <<size, uvp, u, v, histogram, periods, numSamples>>

frameSize == size.width * size.height

\* The eight bits that the packed word keeps of a value of 18 bits.
Packed(x) ==
  LET clipped == IF x < 0 THEN 0 ELSE IF x > 262143 THEN 262143 ELSE x
  IN  clipped \div 1024

Luminance(byte) == IF byte < 16 THEN 0 ELSE byte - 16

\* The conversion, for the chroma un and vn.
Colour(y, un, vn) ==
  [red   |-> Packed(1192 * y + 1634 * vn),
   green |-> Packed(1192 * y - 833 * vn - 400 * un),
   blue  |-> Packed(1192 * y + 2066 * un)]

\* Mutant: the row is multiplied before it is halved.
ChromaRowHalved(j) == frameSize + ((j * size.width) \div 2)

\* Two rows share a row of chroma bytes.
ChromaRow(j) == frameSize + (j \div 2) * size.width

\* One pixel; the chroma, first v and then u, is read for every other one and
\* is zero at the start of a row.  An index out of range is an exception.
DecodePixel ==
  /\ step = "decode" /\ yp < frameSize
  /\ LET i    == yp % size.width
         j    == yp \div size.width
         from == IF i = 0 THEN ChromaRow(j) ELSE uvp
         new  == i % 2 = 0
     IN  IF new /\ from + 2 > Len(mYUVBuffer)
         THEN /\ step' = "crashed"
              /\ UNCHANGED decoding
         ELSE /\ v' = IF new THEN mYUVBuffer[from + 1] - 128 ELSE v
              /\ u' = IF new THEN mYUVBuffer[from + 2] - 128 ELSE u
              /\ uvp' = IF new THEN from + 2 ELSE from
              /\ yp' = yp + 1
              /\ mRGBData' = Append(mRGBData,
                                    Colour(Luminance(mYUVBuffer[yp + 1]), u', v'))
              /\ UNCHANGED step
  /\ UNCHANGED <<size, mYUVBuffer, frames, histogram, periods, numSamples>>

Decoded ==
  /\ step = "decode" /\ yp = frameSize
  /\ step' = "histogram"
  /\ UNCHANGED <<size, mYUVBuffer, frames, decoding, histogram, periods, numSamples>>

\* The pixels that are counted: every third.
Counted == {pix \in 0..(frameSize - 1) : pix % 3 = 0}

Count(c, bin) == {pix \in Counted : mRGBData[pix + 1][c] = bin}

\* Mutant: the bins are not zeroed first.
HistogramsAdded ==
  /\ step = "histogram" /\ step' = "tones"
  /\ histogram' = [c \in Channels |-> [bin \in 0..255 |->
                     histogram[c][bin] + Cardinality(Count(c, bin))]]
  /\ UNCHANGED <<size, mYUVBuffer, frames, decoding, periods, numSamples>>

Histograms ==
  /\ step = "histogram" /\ step' = "tones"
  /\ histogram' = [c \in Channels |-> [bin \in 0..255 |-> Cardinality(Count(c, bin))]]
  /\ UNCHANGED <<size, mYUVBuffer, frames, decoding, periods, numSamples>>

\* The mean of a channel as a fraction.
Bins(c) == {bin \in 0..255 : histogram[c][bin] > 0}
HistogramSum(c) == MapThenSumSet(LAMBDA bin : histogram[c][bin], Bins(c))
Weighted(c) == MapThenSumSet(LAMBDA bin : histogram[c][bin] * bin, Bins(c))

\* The frequency, minFreq + (maxFreq - minFreq) * mean / 255, is
\* 260 * tone / (51 * n) for a mean of sum / n.
Tone(sum, n) == 765 * n + sum

\* (int)((1.0/3) / period), or one less if that quotient is an integer and
\* late is 1.
Periods(sum, n, late) ==
  LET thirds == 260 * Tone(sum, n)
  IN  (thirds \div (153 * n)) - (IF thirds % (153 * n) = 0 THEN late ELSE 0)

\* (int)(p * period * sampleRate), or one less, as above.
Samples(sum, n, p, short) ==
  LET product == 112455 * p * n  \* 13/20 * 44100 * 51 p n
      divisor == 13 * Tone(sum, n)
  IN  (product \div divisor) - (IF product % divisor = 0 THEN short ELSE 0)

\* genTones: the three calls of computeSamples.
GenTones ==
  /\ step = "tones" /\ step' = "camera"
  /\ \E late, short \in [Channels -> {0, 1}] :
       /\ periods' = [c \in Channels |->
                        Periods(Weighted(c), HistogramSum(c), late[c])]
       /\ numSamples' = [c \in Channels |->
                        Samples(Weighted(c), HistogramSum(c), periods'[c], short[c])]
  /\ UNCHANGED <<size, mYUVBuffer, frames, decoding, histogram>>

Next == Fill \/ DecodePixel \/ Decoded \/ Histograms \/ GenTones

Spec == Init /\ [][Next]_vars

-----------------------------------------------------------------------------
(* Properties.                                                             *)

\* A level of 0..255 is within two of one given in thousandths, cut to 0..255.
Near(level, thousandths) ==
  LET cut == IF thousandths < 0 THEN 0
             ELSE IF thousandths > 255000 THEN 255000 ELSE thousandths
  IN  1000 * level - cut \in -2000..2000

\* The pixel at column i of row j, by the layout of the format (one pair of
\* chroma bytes for each block of two by two) and its conversion to RGB.
PixelIsRight(i, j) ==
  LET pixel == mRGBData[j * size.width + i + 1]
      y  == Luminance(mYUVBuffer[j * size.width + i + 1])
      vu == frameSize + (j \div 2) * size.width + 2 * (i \div 2)
      vn == mYUVBuffer[vu + 1] - 128
      un == mYUVBuffer[vu + 2] - 128
  IN  /\ Near(pixel.red, 1164 * y + 1596 * vn)
      /\ Near(pixel.green, 1164 * y - 813 * vn - 391 * un)
      /\ Near(pixel.blue, 1164 * y + 2018 * un)

\* The running chroma index of decodeYUV420SP stays inside the buffer that the
\* constructor allocated, whose rows are padded and the frame's are not, unless
\* the number of rows is odd; and every pixel of a size that the format allows
\* is the colour of its own two by two block.
DecodesItsBlock ==
  /\ step = "crashed" => size.height % 2 = 1
  /\ size.width % 2 = 0 /\ step = "histogram" =>
       \A i \in 0..(size.width - 1), j \in 0..(size.height - 1) : PixelIsRight(i, j)

\* The sum of a channel over the pixels that are counted, straight from the frame.
PixelSum(c) == MapThenSumSet(LAMBDA pix : mRGBData[pix + 1][c], Counted)

ToneIsRight(c) ==
  LET n    == Cardinality(Counted)
      tone == 13 * Tone(PixelSum(c), n)
      end  == 112455 * periods[c] * n
  IN  /\ numSamples[c] * tone <= end
      /\ end - numSamples[c] * tone < 2 * tone
      /\ numSamples[c] \in 14687..14700
      /\ numSamples[c] <= maxSamples

\* A tone has the frequency of the mean of this frame's counted pixels, whatever
\* the frame before: it is a whole number of its periods, less than two samples
\* short, lasts a third of a second less at most a period, and fits the array
\* (the bound that computeSamples has commented out).
ToneOfThisFrame ==
  step = "camera" /\ frames > 0 => \A c \in Channels : ToneIsRight(c)

=============================================================================
