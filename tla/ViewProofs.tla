------------------------------ MODULE ViewProofs ------------------------------
(***************************************************************************)
(* What the user sees is right: the preview size for every list of sizes   *)
(* and every display, and the bands of the overlay for every capture.      *)
(***************************************************************************)
EXTENDS PreviewSize, MagicOverlay, WellFoundedInduction, TLAPS

(* The preview size.                                                       *)

\* A size has pixels: the first one that fits is larger than none at all.
LEMMA PixelsPositive == \A s \in Sizes : Pixels(s) \in Nat /\ Pixels(s) > 0 /\ s # noSize
<1> SUFFICES ASSUME NEW s \in Sizes PROVE Pixels(s) \in Nat /\ Pixels(s) > 0 /\ s # noSize
  OBVIOUS
<1>1. s.width \in Nat \ {0} /\ s.height \in Nat \ {0}
  BY SizesAssumption
<1>2. \A w, h \in Nat \ {0} : w * h \in Nat /\ w * h > 0
  OBVIOUS
<1>3. QED
  BY <1>1, <1>2 DEF Pixels, noSize

\* What the loop keeps, and the size it ends with.
SizeInv ==
  /\ SizeTypeOK /\ BestSoFar
  /\ chosen # noSize => next > Len(supported)
  /\ chosen # noSize => chosen = IF previewSize # noSize THEN previewSize ELSE fallback

\* Nothing has been seen before the loop.
LEMMA InitSize == SizeInit => SizeInv
<1> SUFFICES ASSUME SizeInit PROVE SizeInv
  OBVIOUS
<1>1. PICK n \in 0..MaxSizes : supported \in [1..n -> Sizes]
  BY DEF SizeInit
<1>2. supported \in Seq(Sizes) /\ Len(supported) = n
  BY <1>1, SizesAssumption
<1>3. SizeTypeOK
  BY <1>1, <1>2, SizesAssumption DEF SizeInit, SizeTypeOK
<1>4. BestSoFar
  BY DEF SizeInit, BestSoFar, Seen
<1>5. QED
  BY <1>3, <1>4 DEF SizeInit, SizeInv

\* A pass of the loop sees one more size; it keeps it if it is better than all
\* before, and otherwise none of those it has seen is.
LEMMA StepSize == SizeInv /\ [SizeNext]_sizeVars => SizeInv'
<1> SUFFICES ASSUME SizeInv, [SizeNext]_sizeVars PROVE SizeInv'
  OBVIOUS
<1> USE DEF SizeInv
<1>1. CASE UNCHANGED sizeVars
  BY <1>1 DEF sizeVars, SizeTypeOK, BestSoFar, Seen, Fits
<1>2. CASE Consider
  <2> DEFINE size == supported[next]
  <2>1. next \in 1..Len(supported) /\ size \in Sizes /\ next \in Nat /\ Len(supported) \in Nat
    BY <1>2 DEF SizeTypeOK, Consider
  <2>2. Seen' = Seen \cup {size}
    BY <1>2, <2>1 DEF Consider, Seen
  <2>3. \A s : Fits(s)' <=> Fits(s)
    BY <1>2 DEF Consider, Fits
  <2>4. Pixels(size) \in Nat /\ Pixels(size) > 0 /\ size # noSize
    BY <2>1, PixelsPositive
  <2>5. \A s \in Seen : s \in Sizes /\ Pixels(s) \in Nat
    BY PixelsPositive DEF Seen, SizeTypeOK
  <2>6. SizeTypeOK'
    BY <1>2, <2>1, <2>4 DEF SizeTypeOK, Consider
  <2>7. BestSoFar'
    <3>1. CASE Fits(size) /\ Pixels(size) > previewPixels
      BY <1>2, <2>2, <2>3, <2>4, <2>5, <3>1 DEF Consider, BestSoFar, SizeTypeOK
    <3>2. CASE ~(Fits(size) /\ Pixels(size) > previewPixels)
      BY <1>2, <2>2, <2>3, <2>4, <2>5, <3>2 DEF Consider, BestSoFar, SizeTypeOK
    <3>3. QED
      BY <3>1, <3>2
  <2>8. chosen = noSize /\ chosen' = noSize
    BY <1>2, <2>1 DEF Consider
  <2>9. QED
    BY <2>6, <2>7, <2>8
<1>3. CASE Choose
  <2>1. SizeTypeOK'
    BY <1>3 DEF Choose, SizeTypeOK
  <2>2. BestSoFar'
    BY <1>3 DEF Choose, BestSoFar, Seen, Fits
  <2>3. QED
    BY <1>3, <2>1, <2>2 DEF Choose
<1>4. QED
  BY <1>1, <1>2, <1>3 DEF SizeNext

\* For every list of sizes and every display: the loop always holds the best of
\* the sizes it has seen.
THEOREM LoopKeepsBest == SizeSpec => []BestSoFar
<1>1. SizeInv => BestSoFar
  BY DEF SizeInv
<1>2. QED
  BY <1>1, InitSize, StepSize, PTL DEF SizeSpec

\* And the preview size is a largest one that fits, or the fallback if none does.
THEOREM PreviewSizeIsBest == SizeSpec => []ChosenIsBest
<1>1. SizeInv => ChosenIsBest
  <2> SUFFICES ASSUME SizeInv, chosen # noSize PROVE ChosenIsBest
    BY DEF ChosenIsBest
  <2> DEFINE fitting == {supported[i] : i \in {j \in 1..Len(supported) : Fits(supported[j])}}
  <2>1. next - 1 = Len(supported) /\ Seen = {supported[i] : i \in 1..Len(supported)}
    BY DEF SizeInv, SizeTypeOK, Seen
  <2>2. \A s : s \in fitting <=> s \in Seen /\ Fits(s)
    BY <2>1
  <2>3. CASE previewSize = noSize
    BY <2>2, <2>3 DEF SizeInv, BestSoFar, ChosenIsBest
  <2>4. CASE previewSize # noSize
    BY <2>2, <2>4 DEF SizeInv, BestSoFar, ChosenIsBest
  <2>5. QED
    BY <2>3, <2>4
<1>2. QED
  BY <1>1, InitSize, StepSize, PTL DEF SizeSpec

-----------------------------------------------------------------------------
(* The bands of the overlay.                                               *)

\* A set of naturals that is not empty has a least element.
LEMMA Least ==
  ASSUME NEW T \in SUBSET Nat, T # {} PROVE \E x \in T : \A y \in T : x <= y
<1>1. ASSUME NEW R, R = {ss \in Nat \X Nat : ss[1] < ss[2]}, IsWellFoundedOn(R, Nat)
      PROVE  \E x \in T : \A y \in T : x <= y
  <2>1. PICK x \in T : \A y \in T : ~ (<<y, x>> \in R)
    BY <1>1, WFMin
  <2>2. ASSUME NEW y \in T PROVE x <= y
    <3>1. ~ (<<y, x>>[1] < <<y, x>>[2])
      BY <1>1, <2>1
    <3>2. QED
      BY <3>1
  <2>3. QED
    BY <2>2
<1>2. OpToRel(<, Nat) = {ss \in Nat \X Nat : ss[1] < ss[2]}
  BY DEF OpToRel
<1>3. IsWellFoundedOn(OpToRel(<, Nat), Nat)
  BY NatLessThanWellFounded
<1>4. QED
  BY <1>1, <1>2, <1>3, Zenon

\* The maximum of a bounded set.
LEMMA MaxOfBounded ==
  ASSUME NEW b \in Int, NEW S \in SUBSET Int, S # {}, \A x \in S : x <= b
  PROVE  Max(S) \in S /\ \A y \in S : y <= Max(S)
<1>1. PICK T : T = {b - x : x \in S}
  OBVIOUS
<1>2. T \in SUBSET Nat /\ T # {}
  <2>1. \A x \in S : b - x \in Nat
    OBVIOUS
  <2>2. QED
    BY <1>1, <2>1
<1>3. PICK t \in T : \A y \in T : t <= y
  BY <1>2, Least
<1>4. PICK x \in S : t = b - x
  BY <1>1
<1>5. ASSUME NEW y \in S PROVE x >= y
  <2>1. b - y \in T
    BY <1>1
  <2>2. b - x <= b - y
    BY <1>3, <1>4, <2>1
  <2>3. x \in Int /\ y \in Int
    OBVIOUS
  <2>4. QED
    BY <2>2, <2>3
<1>6. Max(S) \in S /\ \A y \in S : Max(S) >= y
  BY <1>4, <1>5, Zenon DEF Max
<1>7. QED
  BY <1>6

\* A maximum is known by what it is in and above.
LEMMA MaxUnique ==
  ASSUME NEW S \in SUBSET Int, NEW m \in S, \A y \in S : y <= m
  PROVE  Max(S) = m
<1>1. \A y \in S : m >= y
  OBVIOUS
<1>2. PICK x \in S : x = Max(S) /\ \A y \in S : x >= y
  <2>1. Max(S) \in S /\ \A y \in S : Max(S) >= y
    BY <1>1, Zenon DEF Max
  <2>2. QED
    BY <2>1
<1>3. x >= m /\ m >= x /\ x \in Int /\ m \in Int
  BY <1>1, <1>2
<1>4. QED
  BY <1>2, <1>3

\* The quotients of the table: the greatest q whose multiple is not above a.
LEMMA TableQuotient ==
  ASSUME NEW a \in Nat, NEW d \in Nat, d > 0
  PROVE  (a \div d) \in Nat /\ d * (a \div d) <= a /\ a < d * (a \div d) + d
  OBVIOUS

\* Products grow with their factors.
LEMMA MoreTimes ==
  ASSUME NEW m \in Nat, NEW a \in Nat, NEW c \in Nat, a <= c
  PROVE  m * a <= m * c /\ m * a \in Nat /\ m * c \in Nat
<1>1. PICK e \in Nat : c = a + e
  <2>1. c = a + (c - a) /\ c - a \in Nat
    OBVIOUS
  <2>2. QED
    BY <2>1
<1>2. m * c = m * a + m * e /\ m * e \in Nat /\ m * a \in Nat
  BY <1>1
<1>3. QED
  BY <1>2

\* Quotients keep the order.
LEMMA QuotientOrder ==
  ASSUME NEW a \in Nat, NEW c \in Nat, NEW d \in Nat, d > 0, a <= c
  PROVE  a \div d <= c \div d
<1>1. PICK p \in Nat, q \in Nat : p = a \div d /\ q = c \div d
                                 /\ d * p <= a /\ c < d * q + d
  BY TableQuotient
<1>2. SUFFICES ASSUME q < p PROVE FALSE
  BY <1>1
<1>3. q + 1 <= p /\ q + 1 \in Nat
  BY <1>2
<1>4. d * (q + 1) <= d * p
  BY <1>3, MoreTimes
<1>5. d * (q + 1) = d * q + d /\ d * q \in Nat /\ d * p \in Nat
  OBVIOUS
<1>6. QED
  BY <1>1, <1>4, <1>5

\* The table of a capture with m bins goes from 0 to m and does not decrease.
IsTable(t, m) ==
  /\ t \in [0..Bands -> Nat] /\ t[0] = 0 /\ t[Bands] = m
  /\ \A i, k \in 0..Bands : i <= k => t[i] <= t[k]

LEMMA CutoffsAreTable == \A n \in CaptureSizes : n \div 2 \in Nat /\ IsTable(Cutoffs(n), n \div 2)
<1> SUFFICES ASSUME NEW n \in CaptureSizes PROVE n \div 2 \in Nat /\ IsTable(Cutoffs(n), n \div 2)
  OBVIOUS
<1>1. PICK m \in Nat : m = n \div 2
  BY OverlayAssumption
<1>2. PICK d \in Nat : d = Skew[Bands] /\ d > 0
  BY OverlayAssumption
<1>3. Bands \in Nat /\ 0 \in 0..Bands /\ Bands \in 0..Bands
  BY OverlayAssumption
<1>4. \A i \in 0..Bands : Skew[i] \in Nat /\ m * Skew[i] \in Nat
                        /\ Cutoffs(n)[i] = (m * Skew[i]) \div d
  BY <1>1, <1>2, OverlayAssumption DEF Cutoffs
<1>5. Cutoffs(n) \in [0..Bands -> Nat]
  <2>1. \A i \in 0..Bands : (m * Skew[i]) \div d \in Nat
    BY <1>2, <1>4, TableQuotient
  <2>2. Cutoffs(n) = [i \in 0..Bands |-> (m * Skew[i]) \div d]
    BY <1>1, <1>2 DEF Cutoffs
  <2>3. QED
    BY <2>1, <2>2
<1>6. Cutoffs(n)[0] = 0
  <2>1. m * Skew[0] = 0 /\ 0 \div d = 0
    BY <1>2, OverlayAssumption
  <2>2. QED
    BY <1>3, <1>4, <2>1
<1>7. Cutoffs(n)[Bands] = m
  <2>1. PICK a \in Nat, q \in Nat : a = m * d /\ q = a \div d
                                  /\ d * q <= a /\ a < d * q + d
    <3>1. m * d \in Nat
      OBVIOUS
    <3>2. QED
      BY <1>2, <3>1, TableQuotient
  <2>2. ASSUME q < m PROVE FALSE
    <3>1. d * (q + 1) <= d * m
      BY <2>2, MoreTimes
    <3>2. d * (q + 1) = d * q + d /\ d * m = m * d
      OBVIOUS
    <3>3. QED
      BY <2>1, <3>1, <3>2
  <2>3. ASSUME m < q PROVE FALSE
    <3>1. d * (m + 1) <= d * q
      BY <2>3, MoreTimes
    <3>2. d * (m + 1) = m * d + d
      OBVIOUS
    <3>3. QED
      BY <1>2, <2>1, <3>1, <3>2
  <2>4. q = m
    BY <2>2, <2>3
  <2>5. QED
    BY <1>2, <1>3, <1>4, <2>1, <2>4
<1>8. ASSUME NEW i \in 0..Bands, NEW k \in 0..Bands, i <= k
      PROVE  Cutoffs(n)[i] <= Cutoffs(n)[k]
  <2>1. Skew[i] <= Skew[k]
    BY <1>8, OverlayAssumption
  <2>2. m * Skew[i] <= m * Skew[k]
    BY <1>4, <2>1, MoreTimes
  <2>3. QED
    BY <1>2, <1>4, <2>2, QuotientOrder
<1>9. QED
  BY <1>1, <1>5, <1>6, <1>7, <1>8 DEF IsTable

\* Every bin is in exactly one band.
LEMMA OneBand ==
  ASSUME NEW m \in Nat, NEW t, IsTable(t, m), NEW j \in 0..(m - 1)
  PROVE  \E i \in Band : /\ j \in t[i] .. (t[i + 1] - 1)
                         /\ \A k \in Band : j \in t[k] .. (t[k + 1] - 1) => k = i
<1>1. Bands \in Nat /\ Bands > 0
  BY OverlayAssumption
<1>2. PICK T : T = {k \in 1..Bands : t[k] > j}
  OBVIOUS
<1>3. T \in SUBSET Nat /\ T # {}
  BY <1>1, <1>2 DEF IsTable
<1>4. PICK b \in T : \A k \in T : b <= k
  BY <1>3, Least
<1>5. PICK i \in Band : b = i + 1
  <2>1. b - 1 \in Band /\ b = (b - 1) + 1
    BY <1>1, <1>2 DEF Band
  <2>2. QED
    BY <2>1
<1>6. i \in 0..Bands /\ i + 1 \in 0..Bands /\ \A k \in Band : k \in 0..Bands /\ k + 1 \in 1..Bands
  BY <1>1 DEF Band
<1>7. t[i + 1] > j /\ t[i] <= j
  <2>1. i = 0 \/ i \in 1..Bands
    BY <1>1, <1>6
  <2>2. i \notin T
    BY <1>4, <1>5, <1>6
  <2>3. QED
    BY <1>1, <1>2, <1>5, <1>6, <2>1, <2>2 DEF IsTable
<1>8. ASSUME NEW k \in Band, j \in t[k] .. (t[k + 1] - 1) PROVE k = i
  <2>1. t[k] \in Nat /\ t[k + 1] \in Nat /\ t[k] <= j /\ j < t[k + 1]
    BY <1>6, <1>8 DEF IsTable
  <2>2. ~ (k + 1 <= i)
    BY <1>6, <1>7, <2>1 DEF IsTable
  <2>3. ~ (i + 1 <= k)
    BY <1>6, <1>7, <2>1 DEF IsTable
  <2>4. QED
    BY <1>6, <2>2, <2>3 DEF Band
<1>9. t[i] \in Nat /\ t[i + 1] \in Nat
  BY <1>6 DEF IsTable
<1>10. QED
  BY <1>7, <1>8, <1>9

\* What a draw computes for band i.
Point(i) == Amplified(Max({0} \cup {mBytes[k] : k \in Reads(i)}))

\* The last capture holds the announced size, whose table is the one in use, and
\* when no draw is asked for the circles are those of that capture.
OverlayInv ==
  /\ mBytes = none => mCaptureSize = 0
  /\ mBytes # none =>
       /\ mCaptureSize \in CaptureSizes
       /\ mCutoffs = Cutoffs(mCaptureSize)
       /\ \E n \in CaptureSizes : mCaptureSize <= n /\ mBytes \in [RealIndices(n) -> Components]
       /\ ~invalid => circles = [i \in Plotted |-> Point(i)]

LEMMA InitOverlay == Init => OverlayInv
  BY DEF Init, OverlayInv

LEMMA StepOverlay == OverlayInv /\ [Next]_vars => OverlayInv'
<1> SUFFICES ASSUME OverlayInv, [Next]_vars PROVE OverlayInv'
  OBVIOUS
<1>1. CASE UNCHANGED vars
  BY <1>1 DEF vars, OverlayInv, Point, Reads, Bins
<1>2. ASSUME NEW n \in CaptureSizes, NEW size \in CaptureSizes, size <= n,
             NEW data \in [RealIndices(n) -> Components], UpdateData(n, data, size)
      PROVE  OverlayInv'
  <2>1. mBytes' = data /\ mCaptureSize' = size /\ invalid' = TRUE
    BY <1>2 DEF UpdateData
  <2>2. mCutoffs' = Cutoffs(size)
    <3>1. CASE mCaptureSize # size
      BY <1>2, <3>1 DEF UpdateData
    <3>2. CASE mCaptureSize = size
      <4>1. size # 0
        BY OverlayAssumption
      <4>2. QED
        BY <1>2, <3>2, <4>1 DEF UpdateData, OverlayInv
    <3>3. QED
      BY <3>1, <3>2
  <2>3. data # none
    <3>1. 0 \in RealIndices(n)
      <4>1. 0 = 2 * 0 /\ 0 \in 0..(n \div 2 - 1)
        BY OverlayAssumption
      <4>2. QED
        BY <4>1 DEF RealIndices
    <3>2. DOMAIN data # {} /\ DOMAIN none = {}
      BY <3>1 DEF none
    <3>3. QED
      BY <3>2
  <2>4. QED
    BY <1>2, <2>1, <2>2, <2>3 DEF OverlayInv
<1>3. CASE OnDraw
  <2>1. UNCHANGED <<mBytes, mCaptureSize, mCutoffs>> /\ invalid' = FALSE
    BY <1>3 DEF OnDraw
  <2>2. \A i : Point(i)' = Point(i)
    BY <2>1 DEF Point, Reads, Bins
  <2>3. mBytes # none => circles' = [i \in Plotted |-> Point(i)]
    <3>1. Plotted \subseteq Band
      BY OverlayAssumption DEF Plotted, Band
    <3>2. mBytes # none => /\ mPoints' = [i \in Band |-> Point(i)]
                           /\ circles' = [i \in Plotted |-> mPoints'[i]]
      BY <1>3 DEF OnDraw, Point
    <3>3. QED
      BY <3>1, <3>2
  <2>4. QED
    BY <2>1, <2>2, <2>3 DEF OverlayInv
<1>4. QED
  BY <1>1, <1>2, <1>3 DEF Next

LEMMA OverlayAlways == Spec => []OverlayInv
  BY InitOverlay, StepOverlay, PTL DEF Spec

\* The bins of the last capture, and the components a draw reads of them.
LEMMA CaptureFacts ==
  ASSUME OverlayInv, mBytes # none
  PROVE  /\ mCaptureSize \div 2 \in Nat /\ IsTable(mCutoffs, mCaptureSize \div 2)
         /\ \A j \in 0..(mCaptureSize \div 2 - 1) :
              2 * j \in DOMAIN mBytes /\ mBytes[2 * j] \in Int /\ mBytes[2 * j] <= 127
         /\ \A i \in Band : Bins(i) \subseteq 0..(mCaptureSize \div 2 - 1)
<1>1. PICK n \in CaptureSizes : mCaptureSize <= n /\ mBytes \in [RealIndices(n) -> Components]
  BY DEF OverlayInv
<1>2. mCaptureSize \in CaptureSizes
  BY DEF OverlayInv
<1>3. PICK m \in Nat : m = mCaptureSize \div 2 /\ IsTable(mCutoffs, m)
  BY <1>2, CutoffsAreTable DEF OverlayInv
<1>4. m <= n \div 2 /\ n \div 2 \in Nat
  BY <1>1, <1>2, <1>3, OverlayAssumption
<1>5. ASSUME NEW j \in 0..(m - 1)
      PROVE  2 * j \in DOMAIN mBytes /\ mBytes[2 * j] \in Int /\ mBytes[2 * j] <= 127
  <2>1. j \in 0..(n \div 2 - 1)
    BY <1>4
  <2>2. 2 * j \in RealIndices(n)
    BY <2>1 DEF RealIndices
  <2>3. mBytes[2 * j] \in Components
    BY <1>1, <2>2
  <2>4. mBytes[2 * j] \in -128..127 /\ DOMAIN mBytes = RealIndices(n)
    BY <1>1, <2>3, OverlayAssumption
  <2>5. QED
    BY <2>2, <2>4
<1>6. ASSUME NEW i \in Band PROVE Bins(i) \subseteq 0..(m - 1)
  <2>1. i \in 0..Bands /\ i + 1 \in 0..Bands /\ Bands \in 0..Bands /\ i + 1 <= Bands
    BY OverlayAssumption DEF Band
  <2>2. mCutoffs[i] \in Nat /\ mCutoffs[i + 1] \in Nat /\ mCutoffs[i + 1] <= m
    BY <1>3, <2>1 DEF IsTable
  <2>3. QED
    BY <2>2 DEF Bins
<1>7. QED
  BY <1>3, <1>5, <1>6

\* For any capture sizes, bands and curve that does not decrease: a draw reads
\* real components of the last capture, never behind its end.
THEOREM DrawsStayInside == Spec => []ReadsInBounds
<1>1. OverlayInv => ReadsInBounds
  BY CaptureFacts DEF ReadsInBounds, Reads
<1>2. QED
  BY <1>1, OverlayAlways, PTL

\* And each bin of the announced size is in exactly one band.
THEOREM BandsDivideBins == Spec => []BandsPartitionBins
<1>1. OverlayInv => BandsPartitionBins
  BY CaptureFacts, OneBand DEF BandsPartitionBins, Bins
<1>2. QED
  BY <1>1, OverlayAlways, PTL

\* The bins of the plotted bands are those below the last band's cut-off.
LEMMA PlottedBins ==
  ASSUME NEW m \in Nat, NEW t, IsTable(t, m)
  PROVE  /\ t[Bands - 1] \in Nat /\ t[Bands - 1] <= m
         /\ \A i \in Plotted : i \in Band /\ t[i] .. (t[i + 1] - 1) \subseteq 0..(t[Bands - 1] - 1)
         /\ \A j \in 0..(t[Bands - 1] - 1) : \E i \in Plotted : j \in t[i] .. (t[i + 1] - 1)
<1>1. Bands \in Nat /\ Bands > 0 /\ Bands - 1 \in 0..Bands /\ Bands \in 0..Bands
  BY OverlayAssumption
<1>2. t[Bands - 1] \in Nat /\ t[Bands - 1] <= m
  BY <1>1 DEF IsTable
<1>3. ASSUME NEW i \in Plotted
      PROVE  i \in Band /\ t[i] .. (t[i + 1] - 1) \subseteq 0..(t[Bands - 1] - 1)
  <2>1. i \in Band /\ i \in 0..Bands /\ i + 1 \in 0..Bands /\ i + 1 <= Bands - 1
    BY <1>1 DEF Plotted, Band
  <2>2. t[i] \in Nat /\ t[i + 1] \in Nat /\ t[i + 1] <= t[Bands - 1]
    BY <1>1, <2>1 DEF IsTable
  <2>3. QED
    BY <1>2, <2>1, <2>2
<1>4. ASSUME NEW j \in 0..(t[Bands - 1] - 1)
      PROVE  \E i \in Plotted : j \in t[i] .. (t[i + 1] - 1)
  <2>1. j \in 0..(m - 1)
    BY <1>2
  <2>2. PICK i \in Band : j \in t[i] .. (t[i + 1] - 1)
    BY <2>1, OneBand
  <2>3. i # Bands - 1
    BY <1>2, <2>2
  <2>4. i \in Plotted
    BY <1>1, <2>3 DEF Plotted, Band
  <2>5. QED
    BY <2>2, <2>4
<1>5. QED
  BY <1>2, <1>3, <1>4

\* The loudest plotted band of a capture is as loud as its loudest component below
\* the last band.
LEMMA LoudestPlotted ==
  ASSUME OverlayInv, mBytes # none
  PROVE  Max({0} \cup {Point(i) : i \in Plotted}) =
           Amplified(Max({0} \cup {mBytes[2 * j] : j \in 0..(mCutoffs[Bands - 1] - 1)}))
<1>1. PICK m \in Nat : /\ m = mCutoffs[Bands - 1]
                       /\ \A j \in 0..(m - 1) : mBytes[2 * j] \in Int /\ mBytes[2 * j] <= 127
                       /\ \A i \in Plotted : Bins(i) \subseteq 0..(m - 1)
                       /\ \A j \in 0..(m - 1) : \E i \in Plotted : j \in Bins(i)
  <2>1. PICK n \in Nat : /\ n = mCaptureSize \div 2 /\ IsTable(mCutoffs, n)
                         /\ \A j \in 0..(n - 1) : mBytes[2 * j] \in Int /\ mBytes[2 * j] <= 127
    BY CaptureFacts
  <2>2. PICK m \in Nat : m = mCutoffs[Bands - 1] /\ m <= n
    BY <2>1, PlottedBins
  <2>3. \A j \in 0..(m - 1) : j \in 0..(n - 1)
    BY <2>2
  <2>4. QED
    BY <2>1, <2>2, <2>3, PlottedBins DEF Bins
<1>2. PICK All : All = {0} \cup {mBytes[2 * j] : j \in 0..(m - 1)}
  OBVIOUS
<1>3. All \in SUBSET Int /\ All # {} /\ \A x \in All : x <= 127
  BY <1>1, <1>2
<1>4. PICK top \in Int : top = Max(All) /\ top \in All /\ \A x \in All : x <= top
  <2>1. Max(All) \in All /\ \A x \in All : x <= Max(All)
    <3>1. PICK b \in Int : b = 127
      OBVIOUS
    <3>2. QED
      BY <1>3, <3>1, MaxOfBounded
  <2>2. Max(All) \in Int
    BY <1>3, <2>1
  <2>3. QED
    BY <2>1, <2>2
<1>5. PICK Of : Of = [i \in Plotted |-> {0} \cup {mBytes[k] : k \in Reads(i)}]
  OBVIOUS
<1>6. ASSUME NEW i \in Plotted
      PROVE  /\ Of[i] \subseteq All /\ 0 \in Of[i]
             /\ \A j \in Bins(i) : mBytes[2 * j] \in Of[i]
  BY <1>1, <1>2, <1>5 DEF Reads
<1>7. ASSUME NEW i \in Plotted
      PROVE  /\ Max(Of[i]) \in Int /\ Max(Of[i]) <= top
             /\ \A x \in Of[i] : x <= Max(Of[i])
             /\ Point(i) = Amplified(Max(Of[i]))
  <2>1. Of[i] \in SUBSET Int /\ Of[i] # {} /\ \A x \in Of[i] : x <= 127
    BY <1>3, <1>6
  <2>2. Max(Of[i]) \in Of[i] /\ \A x \in Of[i] : x <= Max(Of[i])
    <3>1. PICK b \in Int : b = 127
      OBVIOUS
    <3>2. QED
      BY <2>1, <3>1, MaxOfBounded
  <2>3. Point(i) = Amplified(Max(Of[i]))
    BY <1>5 DEF Point
  <2>4. QED
    BY <1>3, <1>4, <1>6, <2>2, <2>3
<1>8. top >= 0
  BY <1>2, <1>4
<1>9. top = 0 \/ \E i \in Plotted : Max(Of[i]) = top
  <2> SUFFICES ASSUME top # 0 PROVE \E i \in Plotted : Max(Of[i]) = top
    OBVIOUS
  <2>1. PICK j \in 0..(m - 1) : top = mBytes[2 * j]
    BY <1>2, <1>4
  <2>2. PICK i \in Plotted : j \in Bins(i)
    BY <1>1
  <2>3. Max(Of[i]) = top
    BY <1>4, <1>6, <1>7, <2>1, <2>2
  <2>4. QED
    BY <2>3
<1>10. \A x, y \in Int : Amplified(x) \in Int /\ (x <= y => Amplified(x) <= Amplified(y))
  BY DEF Amplified
<1>11. PICK Shown : Shown = {0} \cup {Point(k) : k \in Plotted}
  OBVIOUS
<1>12. Shown \in SUBSET Int /\ Amplified(top) \in Shown /\ \A y \in Shown : y <= Amplified(top)
  <2>1. \A k \in Plotted : Point(k) \in Int /\ Point(k) <= Amplified(top)
    BY <1>4, <1>7, <1>10
  <2>2. Amplified(0) = 0 /\ 0 <= Amplified(top)
    BY <1>4, <1>8 DEF Amplified
  <2>3. Amplified(top) \in Shown
    BY <1>7, <1>9, <1>11, <2>2
  <2>4. QED
    BY <1>11, <2>1, <2>2, <2>3
<1>13. Max(Shown) = Amplified(top)
  BY <1>12, MaxUnique
<1>14. QED
  BY <1>1, <1>2, <1>4, <1>11, <1>13

\* A capture that has been drawn is shown as loud as it is below its last band,
\* whatever the sizes and however many captures one draw stands for.
THEOREM LoudnessIsKept == Spec => []CirclesShowLoudest
<1>1. OverlayInv => CirclesShowLoudest
  <2> SUFFICES ASSUME OverlayInv, mBytes # none, ~invalid PROVE CirclesShowLoudest
    BY DEF CirclesShowLoudest
  <2>1. {circles[i] : i \in Plotted} = {Point(i) : i \in Plotted}
    BY DEF OverlayInv
  <2>2. mCutoffs[Bands - 1] = ((mCaptureSize \div 2) * Skew[Bands - 1]) \div Skew[Bands]
    BY OverlayAssumption DEF OverlayInv, Cutoffs
  <2>3. QED
    BY <2>1, <2>2, LoudestPlotted DEF CirclesShowLoudest
<1>2. QED
  BY <1>1, OverlayAlways, PTL

=============================================================================
