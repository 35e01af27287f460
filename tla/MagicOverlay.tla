----------------------------- MODULE MagicOverlay -----------------------------
(***************************************************************************)
(* The FFT overlay: captures arrive in updateData, which asks for a draw,  *)
(* and the window draws when it comes to it; both on the UI thread.        *)
(*                                                                         *)
(* The bins of a capture are grouped into bands by a table of cut-offs.    *)
(* In the code there are 100 bands, and cut-off i of a capture of size n   *)
(* is (int)((n / 2) * (pow(6000, i / 100) - 1) / (6000 - 1)).  Here Bands  *)
(* is 100 and Skew[i] is pow(6000, i / 100) - 1 in any unit in which all   *)
(* of them are integers: they begin with 0 and increase.                   *)
(***************************************************************************)
EXTENDS Integers, FiniteSetsExt

CONSTANTS
  Bands,        \* the number of bands
  Skew,         \* the curve of the cut-offs
  CaptureSizes, \* the sizes of a capture, which are even
  Components,   \* the values a byte of a capture can have
  MaxCaptures   \* bound: the captures that arrive

ASSUME OverlayAssumption ==
  /\ Bands \in Nat \ {0} /\ Skew \in [0..Bands -> Nat]
  /\ Skew[0] = 0 /\ Skew[Bands] > 0
  /\ \A i, k \in 0..Bands : i <= k => Skew[i] <= Skew[k]
  /\ \A n \in CaptureSizes : n \in Nat \ {0} /\ n % 2 = 0
  /\ Components \subseteq -128..127 /\ MaxCaptures \in Nat

VARIABLES
  mBytes,         \* the last capture, or none
  mCaptureSize, mCutoffs,
  invalid,        \* a draw has been asked for
  mPoints,        \* what the last draw computed for each band, or none
  circles,        \* the values of the circles that it drew, or none
  captures,       \* the number of captures so far
  drawn           \* the number of the one that the last draw showed

vars == <<mBytes, mCaptureSize, mCutoffs, invalid, mPoints, circles, captures, drawn>>

none == <<>>
Band == 0..(Bands - 1)

\* The bands that get a circle: the loop that draws them leaves out the last point.
Plotted == 0..(Bands - 2)

\* Only the bytes at even indices, the real components, are ever read: a capture
\* of size n is the function of them.
RealIndices(n) == {2 * j : j \in 0..(n \div 2 - 1)}

\* Mutant: the table ends with the last bin, not behind it.
CutoffsToLast(n) ==
  [i \in 0..Bands |-> ((n \div 2 - 1) * Skew[i]) \div Skew[Bands]]

Cutoffs(n) == [i \in 0..Bands |-> ((n \div 2) * Skew[i]) \div Skew[Bands]]

\* The bins of band i, and the indices at which onDraw reads them.
Bins(i)  == mCutoffs[i] .. (mCutoffs[i + 1] - 1)
Reads(i) == {2 * j : j \in Bins(i)}

Amplified(c) == IF 10 * c > 255 THEN 255 ELSE 10 * c

TypeOK ==
  /\ mBytes = none \/ \E n \in CaptureSizes : mBytes \in [RealIndices(n) -> Components]
  /\ mCaptureSize \in CaptureSizes \cup {0}
  /\ mCutoffs = none \/ mCutoffs \in [0..Bands -> Nat]
  /\ invalid \in BOOLEAN
  /\ mPoints = none \/ mPoints \in [Band -> 0..255]
  /\ circles = none \/ circles \in [Plotted -> 0..255]
  /\ captures \in 0..MaxCaptures /\ drawn \in 0..captures

\* The constructor; a new view is to be drawn.
Init ==
  /\ mBytes = none /\ mCaptureSize = 0 /\ mCutoffs = none
  /\ invalid = TRUE
  /\ mPoints = none /\ circles = none
  /\ captures = 0 /\ drawn = 0

-----------------------------------------------------------------------------

\* Mutant: the table is computed once.
UpdateKeepingCutoffs(n, data, size) ==
  /\ captures < MaxCaptures
  /\ data \in [RealIndices(n) -> Components]
  /\ mBytes' = data
  /\ mCaptureSize' = size
  /\ mCutoffs' = IF mCutoffs = none THEN Cutoffs(size) ELSE mCutoffs
  /\ invalid' = TRUE
  /\ captures' = captures + 1
  /\ UNCHANGED <<mPoints, circles, drawn>>

\* Mutant: the new draw is only asked for when the table changes.
UpdateInvalidatingOnChange(n, data, size) ==
  /\ captures < MaxCaptures
  /\ data \in [RealIndices(n) -> Components]
  /\ mBytes' = data
  /\ mCaptureSize' = size
  /\ mCutoffs' = Cutoffs(size)
  /\ invalid' = (invalid \/ mCaptureSize # size)
  /\ captures' = captures + 1
  /\ UNCHANGED <<mPoints, circles, drawn>>

\* updateData, with a capture of size n.  size is the capture size of the
\* visualizer of the activity's field.  A capture that an earlier visualizer
\* left in the queue has the maximal size, so it can be larger than size.
UpdateData(n, data, size) ==
  /\ captures < MaxCaptures
  /\ data \in [RealIndices(n) -> Components]
  /\ mBytes' = data
  /\ mCaptureSize' = size
  /\ mCutoffs' = IF mCaptureSize # size THEN Cutoffs(size) ELSE mCutoffs
  /\ invalid' = TRUE
  /\ captures' = captures + 1
  /\ UNCHANGED <<mPoints, circles, drawn>>

\* Mutant: the last bin of a band is left out.
OnDrawMissingLast ==
  /\ invalid' = FALSE /\ drawn' = captures
  /\ IF mBytes = none THEN UNCHANGED <<mPoints, circles>>
     ELSE /\ mPoints' = [i \in Band |-> Amplified(
                  Max({0} \cup {mBytes[2 * j] : j \in mCutoffs[i] .. (mCutoffs[i + 1] - 2)}))]
          /\ circles' = [i \in Plotted |-> mPoints'[i]]
  /\ UNCHANGED <<mBytes, mCaptureSize, mCutoffs, captures>>

\* onDraw: the largest component of each band, amplified, and a circle for each
\* band but the last.  Without a capture it only draws the title.
OnDraw ==
  /\ invalid' = FALSE /\ drawn' = captures
  /\ IF mBytes = none THEN UNCHANGED <<mPoints, circles>>
     ELSE /\ mPoints' = [i \in Band |-> Amplified(Max({0} \cup {mBytes[k] : k \in Reads(i)}))]
          /\ circles' = [i \in Plotted |-> mPoints'[i]]
  /\ UNCHANGED <<mBytes, mCaptureSize, mCutoffs, captures>>

Next ==
  \/ \E n, size \in CaptureSizes :
       size <= n /\ \E data \in [RealIndices(n) -> Components] : UpdateData(n, data, size)
  \/ OnDraw

Spec == Init /\ [][Next]_vars

\* A view that has asked for a draw gets one.
FairSpec == Spec /\ WF_vars(invalid /\ OnDraw)

-----------------------------------------------------------------------------

\* A draw reads the capture where it has real components, whatever the sizes of
\* the captures before it and of those that come late.
ReadsInBounds ==
  mBytes # none => \A i \in Band : Reads(i) \subseteq DOMAIN mBytes

\* The bands divide the bins of the announced size: no bin is in two bands, and
\* none is in no band.
BandsPartitionBins ==
  mBytes # none =>
    \A j \in 0..(mCaptureSize \div 2 - 1) :
      \E i \in Band : j \in Bins(i) /\ \A k \in Band : j \in Bins(k) => k = i

\* The circles of the last capture are as loud as its loudest component below the
\* last band, clipped: the table in use is that of the announced size, no plotted
\* component is lost between two bands, and the last and widest band, which has
\* bins and a point but no circle, is never seen however loud it is.
CirclesShowLoudest ==
  mBytes # none /\ ~invalid /\ drawn = captures =>
    LET shown == ((mCaptureSize \div 2) * Skew[Bands - 1]) \div Skew[Bands]
    IN  Max({0} \cup {circles[i] : i \in Plotted}) =
          Amplified(Max({0} \cup {mBytes[2 * j] : j \in 0..(shown - 1)}))

\* When captures stop coming the last one is drawn.
LastCaptureIsDrawn == \A n \in 1..MaxCaptures : captures = n ~> drawn >= n

=============================================================================
