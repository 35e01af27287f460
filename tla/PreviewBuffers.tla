--------------------------- MODULE PreviewBuffers ---------------------------
(***************************************************************************)
(* What the preview side of the application promises about the camera's    *)
(* callback buffers.  Each session (one onResume/onPause pair) opens one   *)
(* camera, hands it ONE buffer when its AudioSynth is constructed, and     *)
(* from then on the buffer goes round: the camera fills it and posts it to *)
(* the UI thread as a frame, onPreviewFrame starts a worker thread on it,  *)
(* and the worker gives it back.  AudioSynth.mRGBData, the histograms and  *)
(* the sample arrays are shared by all workers of a synthesiser; that the  *)
(* buffer goes round is the only thing that keeps two workers apart.       *)
(*                                                                         *)
(* Superpowers composes this module with the activity; AudioSynth is the   *)
(* detailed worker, shown to implement it.                                 *)
(***************************************************************************)
EXTENDS Naturals

CONSTANTS
  Sessions,  \* onResume/onPause pairs, each with a camera of its own
  Workers    \* the worker threads of a session that can be alive together

VARIABLES
  camera,    \* camera[s]: the state of the camera object of session s
  pool,      \* pool[s]: callback buffers queued in that camera
  frame      \* frame[s][w]: the frame that worker w is, or will be, started on

vars == <<camera, pool, frame>>

(***************************************************************************)
(* "open" is a camera that Camera.open returned, "idle" one that AudioSynth *)
(* has given its buffer to, "previewing" one that delivers frames.         *)
(***************************************************************************)
CameraState == {"none", "open", "idle", "previewing", "released"}
Supplied    == {"idle", "previewing"}
Held        == Supplied \cup {"open"}

FrameState == {"free", "posted", "working"}

TypeOK ==
  /\ camera \in [Sessions -> CameraState]
  /\ pool   \in [Sessions -> Nat]
  /\ frame  \in [Sessions -> [Workers -> FrameState]]

Init ==
  /\ camera = [s \in Sessions |-> "none"]
  /\ pool   = [s \in Sessions |-> 0]
  /\ frame  = [s \in Sessions |-> [w \in Workers |-> "free"]]

-----------------------------------------------------------------------------
(* The UI thread.                                                          *)

\* Camera.open, in Superpowers.getCamera.
Open(s) ==
  /\ camera[s] = "none"
  /\ camera' = [camera EXCEPT ![s] = "open"]
  /\ UNCHANGED <<pool, frame>>

\* Mutant: the constructor queues its buffer twice.
SupplyTwice(s) ==
  /\ camera[s] = "open"
  /\ camera' = [camera EXCEPT ![s] = "idle"]
  /\ pool'   = [pool EXCEPT ![s] = @ + 2]
  /\ UNCHANGED frame

\* new AudioSynth: allocates mYUVBuffer and queues it in the camera.
Supply(s) ==
  /\ camera[s] = "open"
  /\ camera' = [camera EXCEPT ![s] = "idle"]
  /\ pool'   = [pool EXCEPT ![s] = @ + 1]
  /\ UNCHANGED frame

\* CameraView.startPreview, all of its calls succeeding.
StartPreview(s) ==
  /\ camera[s] \in Supplied
  /\ camera' = [camera EXCEPT ![s] = "previewing"]
  /\ UNCHANGED <<pool, frame>>

\* CameraView.stopPreview: queued buffers and posted frames stay where they are.
StopPreview(s) ==
  /\ camera[s] \in Supplied
  /\ camera' = [camera EXCEPT ![s] = "idle"]
  /\ UNCHANGED <<pool, frame>>

\* mCamera.stopPreview and mCamera.release in onPause.  The camera drops the
\* buffer it has; a frame that is posted or being worked on is not recalled.
Release(s) ==
  /\ camera[s] \in Held
  /\ camera' = [camera EXCEPT ![s] = "released"]
  /\ pool'   = [pool EXCEPT ![s] = 0]
  /\ UNCHANGED frame

\* onPreviewFrame: mFinished is never set, so every frame starts a thread.
Deliver(s, w) ==
  /\ frame[s][w] = "posted"
  /\ frame' = [frame EXCEPT ![s][w] = "working"]
  /\ UNCHANGED <<camera, pool>>

-----------------------------------------------------------------------------
(* The camera and the worker threads.                                      *)

\* The camera fills a queued buffer and posts it to the UI thread.
Post(s, w) ==
  /\ camera[s] = "previewing"
  /\ pool[s] > 0
  /\ frame[s][w] = "free"
  /\ pool'  = [pool EXCEPT ![s] = @ - 1]
  /\ frame' = [frame EXCEPT ![s][w] = "posted"]
  /\ UNCHANGED camera

\* Mutant: a way out of the worker's run that skips addCallbackBuffer.
ReturnForgotten(s, w) ==
  /\ frame[s][w] = "working"
  /\ frame' = [frame EXCEPT ![s][w] = "free"]
  /\ UNCHANGED <<camera, pool>>

\* camera.addCallbackBuffer(mYUVBuffer), the last call of the worker's run: the
\* buffer is queued again, or dropped by a camera that was released meanwhile.
Return(s, w) ==
  /\ frame[s][w] = "working"
  /\ frame' = [frame EXCEPT ![s][w] = "free"]
  /\ pool'  = [pool EXCEPT ![s] = IF camera[s] = "released" THEN @ ELSE @ + 1]
  /\ UNCHANGED camera

-----------------------------------------------------------------------------

Next ==
  \E s \in Sessions :
    \/ Open(s) \/ Supply(s) \/ StartPreview(s) \/ StopPreview(s) \/ Release(s)
    \/ \E w \in Workers : Post(s, w) \/ Deliver(s, w) \/ Return(s, w)

Spec == Init /\ [][Next]_vars

-----------------------------------------------------------------------------

Busy(s, w) == frame[s][w] # "free"

\* At most one frame of a session is between the camera and the end of its
\* worker, so two workers never share mRGBData, the histograms or the sample
\* arrays, which AudioSynth.onPreviewFrame uses without holding one lock
\* throughout.
OneFrameInFlight ==
  \A s \in Sessions : \A v, w \in Workers : Busy(s, v) /\ Busy(s, w) => v = w

\* The buffer is never duplicated: while a frame is out, the camera has none.
BufferNotDuplicated ==
  \A s \in Sessions :
    /\ pool[s] <= 1
    /\ (\E w \in Workers : Busy(s, w)) => pool[s] = 0

\* Before its AudioSynth is constructed a camera has no buffer and no frame.
NothingBeforeSupply ==
  \A s \in Sessions :
    camera[s] \in {"none", "open"} => pool[s] = 0 /\ \A w \in Workers : ~Busy(s, w)

\* The buffer is never lost while the camera is held: it is queued or a frame
\* is out.  Losing it would stop the preview callbacks for good.
BufferNotLost ==
  \A s \in Sessions :
    camera[s] \in Supplied => pool[s] = 1 \/ \E w \in Workers : Busy(s, w)

\* The inductive invariant: a step that queues the buffer needs to know that no
\* frame is out, and one that posts a frame that no other is.
BufferInv == /\ TypeOK /\ NothingBeforeSupply
             /\ OneFrameInFlight /\ BufferNotDuplicated /\ BufferNotLost

=============================================================================
