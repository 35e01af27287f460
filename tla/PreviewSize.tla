----------------------------- MODULE PreviewSize ------------------------------
(***************************************************************************)
(* How setupCamera chooses the preview size: one pass over the sizes that  *)
(* the camera supports, keeping the largest that fits the display, and a   *)
(* fixed size if none does.                                                *)
(***************************************************************************)
EXTENDS Integers, Sequences

CONSTANTS
  Sizes,      \* the sizes a camera may support
  Displays,   \* the displays, of the same form
  MaxSizes    \* bound: the length of the camera's list

ASSUME SizesAssumption ==
  /\ Sizes    \subseteq [width : Nat \ {0}, height : Nat \ {0}]
  /\ Displays \subseteq [width : Nat \ {0}, height : Nat \ {0}]
  /\ MaxSizes \in Nat

VARIABLES
  supported,      \* parameters.getSupportedPreviewSizes()
  display,
  next,           \* the index of the next size of the loop
  previewSize,    \* the best size so far, or noSize
  previewPixels,
  chosen          \* the size given to setPreviewSize, or noSize

sizeVars == <<supported, display, next, previewSize, previewPixels, chosen>>

noSize   == [width |-> 0, height |-> 0]
fallback == [width |-> 640, height |-> 480]

Pixels(s) == s.width * s.height

\* The display's size, with a margin of 8 pixels for sizes rounded up to blocks.
NotTooLarge(s, d) == s.width - 8 <= d.width /\ s.height - 8 <= d.height

\* |1 - (s.width/s.height) / (d.width/d.height)| < 0.01, cross-multiplied; the
\* code's quotients are doubles.
SameAspect(s, d) ==
  LET across == d.width * s.height  along == s.width * d.height
  IN  100 * (across - along) < across /\ 100 * (along - across) < across

Fits(s) == NotTooLarge(s, display) /\ SameAspect(s, display)

\* The sizes that the loop has seen.
Seen == {supported[i] : i \in 1..(next - 1)}

SizeTypeOK ==
  /\ supported \in Seq(Sizes) /\ Len(supported) <= MaxSizes
  /\ display \in Displays
  /\ next \in 1..(Len(supported) + 1)
  /\ previewSize \in Sizes \cup {noSize}
  /\ previewPixels \in Nat
  /\ chosen \in Sizes \cup {noSize, fallback}

SizeInit ==
  /\ supported \in UNION {[1..n -> Sizes] : n \in 0..MaxSizes}
  /\ display \in Displays
  /\ next = 1
  /\ previewSize = noSize /\ previewPixels = 0
  /\ chosen = noSize

-----------------------------------------------------------------------------

\* Mutant: the pixels of the size that was kept are not.
ConsiderForgettingPixels ==
  /\ next <= Len(supported)
  /\ next' = next + 1
  /\ LET s == supported[next] IN
       IF Fits(s) /\ Pixels(s) > previewPixels
         THEN previewSize' = s
         ELSE UNCHANGED previewSize
  /\ UNCHANGED <<supported, display, previewPixels, chosen>>

\* One pass of the loop.
Consider ==
  /\ next <= Len(supported)
  /\ next' = next + 1
  /\ LET s == supported[next] IN
       IF Fits(s) /\ Pixels(s) > previewPixels
         THEN previewSize' = s /\ previewPixels' = Pixels(s)
         ELSE UNCHANGED <<previewSize, previewPixels>>
  /\ UNCHANGED <<supported, display, chosen>>

\* Mutant: the size is taken when the loop meets its last one.
ChooseEarly ==
  /\ next >= Len(supported) /\ chosen = noSize
  /\ chosen' = IF previewSize # noSize THEN previewSize ELSE fallback
  /\ UNCHANGED <<supported, display, next, previewSize, previewPixels>>

\* After the loop.
Choose ==
  /\ next > Len(supported) /\ chosen = noSize
  /\ chosen' = IF previewSize # noSize THEN previewSize ELSE fallback
  /\ UNCHANGED <<supported, display, next, previewSize, previewPixels>>

SizeNext == Consider \/ Choose

SizeSpec == SizeInit /\ [][SizeNext]_sizeVars

-----------------------------------------------------------------------------

\* The size that is used fits the display and no supported size that fits is
\* larger; the fallback is used exactly when no supported size fits.
ChosenIsBest ==
  chosen # noSize =>
    LET fitting == {supported[i] : i \in {j \in 1..Len(supported) : Fits(supported[j])}} IN
      IF fitting = {} THEN chosen = fallback
      ELSE chosen \in fitting /\ \A s \in fitting : Pixels(s) <= Pixels(chosen)

\* The invariant of the loop.
BestSoFar ==
  /\ previewSize = noSize =>
       /\ previewPixels = 0
       /\ \A s \in Seen : ~Fits(s)
  /\ previewSize # noSize =>
       /\ previewSize \in Seen /\ Fits(previewSize)
       /\ previewPixels = Pixels(previewSize)
       /\ \A s \in Seen : Fits(s) => Pixels(s) <= previewPixels

=============================================================================
