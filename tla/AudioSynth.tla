------------------------------ MODULE AudioSynth ------------------------------
(***************************************************************************)
(* One synthesiser: the worker threads that onPreviewFrame starts, call by *)
(* call, on arrays that all of them share, with the camera that posts the  *)
(* frames and the calls of the UI thread that happen beside them.          *)
(*                                                                         *)
(* Frames are numbered as the camera fills the buffer, and every array,    *)
(* histogram and tone is the number of the frame it was computed from: the *)
(* arithmetic is abstracted, what is read and written when is not.         *)
(***************************************************************************)
EXTENDS Naturals

CONSTANTS
  Workers,    \* worker threads that can be alive together
  MaxFrames   \* bound: the frames the camera fills

ASSUME MaxFramesAssumption == MaxFrames \in Nat

Channels == {"red", "green", "blue"}

VARIABLES
  camera, pool,       \* see PreviewBuffers; pool is the queue of mYUVBuffer
  filled,             \* the number of frames filled so far
  mYUVBuffer,         \* the frame the buffer holds
  mRGBData,           \* the frame the pixels were decoded from
  histogram,          \* mRedHistogram, mGreenHistogram, mBlueHistogram
  generatedSnd,       \* redGeneratedSnd, greenGeneratedSnd, blueGeneratedSnd
  track,              \* the three tracks: "playing" or "released"
  tone,               \* the last tone that was written to each track
  pc,                 \* pc[w]: the next call of worker w
  mean,               \* mean[w]: its three local means
  source              \* source[w]: the frame that worker w was started on

shared == <<mYUVBuffer, mRGBData, histogram, generatedSnd>>
vars == <<camera, pool, filled, shared, track, tone, pc, mean, source>>

Frames == 0..MaxFrames   \* 0: no frame yet

(***************************************************************************)
(* The calls of the worker's run and the call that follows each of them;   *)
(* the histogram and play calls are made once for each channel.            *)
(***************************************************************************)
After == [decode |-> "histRed", histRed |-> "histGreen", histGreen |-> "histBlue",
          histBlue |-> "mean", mean |-> "genTones", genTones |-> "playRed",
          playRed |-> "playGreen", playGreen |-> "playBlue", playBlue |-> "return",
          return |-> "free"]

HistogramCall == [red |-> "histRed", green |-> "histGreen", blue |-> "histBlue"]
PlayCall      == [red |-> "playRed", green |-> "playGreen", blue |-> "playBlue"]

Running == DOMAIN After

\* genTones and playSound are synchronized: genTones is one step here, and the
\* monitor is held between the writes of playSound.
InPlaySound == {"playGreen", "playBlue"}
MonitorFree == \A w \in Workers : pc[w] \notin InPlaySound

TypeOK ==
  /\ camera \in {"none", "open", "idle", "previewing", "released"}
  /\ pool \in Nat
  /\ filled \in Frames /\ mYUVBuffer \in Frames /\ mRGBData \in Frames
  /\ histogram \in [Channels -> Frames]
  /\ generatedSnd \in [Channels -> Frames]
  /\ track \in [Channels -> {"playing", "released"}]
  /\ tone \in [Channels -> Frames]
  /\ pc \in [Workers -> Running \cup {"free", "posted"}]
  /\ mean \in [Workers -> [Channels -> Frames]]
  /\ source \in [Workers -> Frames]

Silent == [c \in Channels |-> 0]

Init ==
  /\ camera = "none" /\ pool = 0
  /\ filled = 0 /\ mYUVBuffer = 0 /\ mRGBData = 0
  /\ histogram = Silent /\ generatedSnd = Silent
  /\ track = [c \in Channels |-> "playing"]
  /\ tone = Silent
  /\ pc = [w \in Workers |-> "free"]
  /\ mean = [w \in Workers |-> Silent]
  /\ source = [w \in Workers |-> 0]

-----------------------------------------------------------------------------
(* The UI thread.                                                          *)

Open ==
  /\ camera = "none" /\ camera' = "open"
  /\ UNCHANGED <<pool, filled, shared, track, tone, pc, mean, source>>

\* Mutant: the constructor queues its buffer twice.
NewQueueingTwice ==
  /\ camera = "open" /\ camera' = "idle"
  /\ pool' = pool + 2
  /\ UNCHANGED <<filled, shared, track, tone, pc, mean, source>>

\* The constructor: new arrays, and the buffer queued.
New ==
  /\ camera = "open" /\ camera' = "idle"
  /\ pool' = pool + 1
  /\ UNCHANGED <<filled, shared, track, tone, pc, mean, source>>

\* CameraView's startPreview and stopPreview.
Preview(state) ==
  /\ camera \in {"idle", "previewing"} /\ camera' = state
  /\ UNCHANGED <<pool, filled, shared, track, tone, pc, mean, source>>

\* onPause releases the camera,
ReleaseCamera ==
  /\ camera \in {"open", "idle", "previewing"} /\ camera' = "released"
  /\ pool' = 0
  /\ UNCHANGED <<filled, shared, track, tone, pc, mean, source>>

\* and then the tracks, red, green and blue, without entering the monitor.
ReleaseTrack(c) ==
  /\ camera = "released" /\ track[c] = "playing"
  /\ c \in {"green", "blue"} => track["red"] = "released"
  /\ c = "blue" => track["green"] = "released"
  /\ track' = [track EXCEPT ![c] = "released"]
  /\ UNCHANGED <<camera, pool, filled, shared, tone, pc, mean, source>>

\* Mutant: onPreviewFrame ignores a frame that comes while the preview is off.
DeliverWhilePreviewing(w) ==
  /\ pc[w] = "posted"
  /\ pc' = [pc EXCEPT ![w] = IF camera = "previewing" THEN "decode" ELSE "free"]
  /\ UNCHANGED <<camera, pool, filled, shared, track, tone, mean, source>>

\* onPreviewFrame starts a worker, whatever the state of the camera.
Deliver(w) ==
  /\ pc[w] = "posted"
  /\ pc' = [pc EXCEPT ![w] = "decode"]
  /\ UNCHANGED <<camera, pool, filled, shared, track, tone, mean, source>>

-----------------------------------------------------------------------------
(* The camera.                                                             *)

\* It fills the buffer and posts it to the UI thread.
Post(w) ==
  /\ camera = "previewing" /\ pool > 0 /\ pc[w] = "free"
  /\ filled < MaxFrames
  /\ pool' = pool - 1
  /\ filled' = filled + 1
  /\ mYUVBuffer' = filled'
  /\ source' = [source EXCEPT ![w] = filled']
  /\ pc' = [pc EXCEPT ![w] = "posted"]
  /\ UNCHANGED <<camera, mRGBData, histogram, generatedSnd, track, tone, mean>>

-----------------------------------------------------------------------------
(* The worker threads.                                                     *)

Call(w, name) ==
  /\ pc[w] = name
  /\ pc' = [pc EXCEPT ![w] = After[name]]
  /\ UNCHANGED <<camera, filled, track, source>>

\* Mutant: the buffer goes back to the camera as soon as it is decoded.
DecodeAndReturn(w) ==
  /\ Call(w, "decode")
  /\ mRGBData' = mYUVBuffer
  /\ pool' = IF camera = "released" THEN pool ELSE pool + 1
  /\ UNCHANGED <<mYUVBuffer, histogram, generatedSnd, tone, mean>>

\* decodeYUV420SP reads data, which is mYUVBuffer.
Decode(w) ==
  /\ Call(w, "decode")
  /\ mRGBData' = mYUVBuffer
  /\ UNCHANGED <<pool, mYUVBuffer, histogram, generatedSnd, tone, mean>>

\* calculateIntensityHistogram zeroes one histogram and counts the pixels.
Histogram(w, c) ==
  /\ Call(w, HistogramCall[c])
  /\ histogram' = [histogram EXCEPT ![c] = mRGBData]
  /\ UNCHANGED <<pool, mYUVBuffer, mRGBData, generatedSnd, tone, mean>>

\* The three means, and the frequencies and volumes, are locals of run.
Mean(w) ==
  /\ Call(w, "mean")
  /\ mean' = [mean EXCEPT ![w] = histogram]
  /\ UNCHANGED <<pool, shared, tone>>

\* genTones, inside the monitor from beginning to end.
GenTones(w) ==
  /\ Call(w, "genTones")
  /\ MonitorFree
  /\ generatedSnd' = mean[w]
  /\ UNCHANGED <<pool, mYUVBuffer, mRGBData, histogram, tone, mean>>

\* One write of playSound, which holds the monitor from the first to the last.
\* A released track takes nothing.
Play(w, c) ==
  /\ Call(w, PlayCall[c])
  /\ c = "red" => MonitorFree
  /\ tone' = IF track[c] = "playing" THEN [tone EXCEPT ![c] = generatedSnd[c]] ELSE tone
  /\ UNCHANGED <<pool, shared, mean>>

\* Mutant: the buffer is given back to a camera whatever its state.
ReturnAlways(w) ==
  /\ Call(w, "return")
  /\ pool' = pool + 1
  /\ UNCHANGED <<shared, tone, mean>>

\* camera.addCallbackBuffer(mYUVBuffer), ignored by a released camera.
Return(w) ==
  /\ Call(w, "return")
  /\ pool' = IF camera = "released" THEN pool ELSE pool + 1
  /\ UNCHANGED <<shared, tone, mean>>

Worker(w) ==
  \/ Decode(w) \/ Mean(w) \/ GenTones(w) \/ Return(w)
  \/ \E c \in Channels : Histogram(w, c) \/ Play(w, c)

-----------------------------------------------------------------------------

Next ==
  \/ Open \/ New \/ ReleaseCamera
  \/ \E state \in {"idle", "previewing"} : Preview(state)
  \/ \E c \in Channels : ReleaseTrack(c)
  \/ \E w \in Workers : Post(w) \/ Deliver(w) \/ Worker(w)

Spec == Init /\ [][Next]_vars

\* The looper delivers the frame and threads that can run do.
FairSpec == Spec /\ \A w \in Workers : WF_vars(Deliver(w)) /\ WF_vars(Worker(w))

-----------------------------------------------------------------------------

\* No track goes back to the tone of an earlier frame.
FramesInOrder == [][\A c \in Channels : tone'[c] >= tone[c]]_vars

\* When no worker is inside playSound, the three tracks sound tones of the same
\* frame, until onPause releases the first of them.
TonesOfOneFrame ==
  (\A c \in Channels : track[c] = "playing") /\ MonitorFree =>
    \A c, d \in Channels : tone[c] = tone[d]

\* Every frame that was posted is heard on all three tracks, or followed by a
\* later one, unless the tracks are released first: none is dropped on the way.
EveryFrameIsHeard ==
  \A w \in Workers, n \in Frames \ {0} :
    pc[w] = "posted" /\ source[w] = n ~>
      (\A c \in Channels : tone[c] >= n) \/ \E c \in Channels : track[c] = "released"

(***************************************************************************)
(* The workers implement PreviewBuffers with one session.                  *)
(***************************************************************************)
FrameOf(call) == IF call \in Running THEN "working" ELSE call

PB == INSTANCE PreviewBuffers WITH
        Sessions <- {1},
        camera   <- [s \in {1} |-> camera],
        pool     <- [s \in {1} |-> pool],
        frame    <- [s \in {1} |-> [w \in Workers |-> FrameOf(pc[w])]]

PreviewBuffersImplemented == PB!Spec

=============================================================================
