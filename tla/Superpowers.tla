----------------------------- MODULE Superpowers -----------------------------
(***************************************************************************)
(* The activity and everything it owns: its onResume and onPause handlers, *)
(* the hardware objects they open and release, the camera view's surface   *)
(* callbacks, the messages of the camera and the visualizer that the UI    *)
(* thread delivers, and the threads that go on using the objects.          *)
(*                                                                         *)
(* The UI thread runs one handler at a time, but bridge and worker threads *)
(* run between any two calls of a handler, so onResume and onPause are     *)
(* sequences of steps and "ui" says which step is next.  Every onResume    *)
(* makes new objects: an object is identified by the session, the number   *)
(* of the onResume, that made it, and a field holds a session or null.     *)
(*                                                                         *)
(* An exception that nothing catches kills the process: "crash" names the  *)
(* call that threw it, and nothing happens afterwards.                     *)
(***************************************************************************)
EXTENDS Naturals

CONSTANTS
  MaxSessions,  \* bound: how many times the activity is resumed
  Workers,      \* see PreviewBuffers
  Faults        \* what the platform may do to the activity: a subset of FaultKinds

\* "rows" is a preview with an odd number of rows that need no padding; the others
\* are what the platform may refuse.
FaultKinds == {"camera", "microphone", "parameters", "rows", "visualizer", "display"}

ASSUME SessionsAssumption == MaxSessions \in Nat \ {0}
ASSUME FaultsAssumption   == Faults \subseteq FaultKinds

VARIABLES
  ui,                \* the next step of the UI thread
  session,           \* the number of onResume calls so far
  mCamera, mAudioRecord, mTracks, mAudioVisualizer, mPlayer,  \* the fields
  camera, pool, frame,            \* see PreviewBuffers
  record, bridge, keepRunning,    \* see BridgeLife
  track,             \* track[s][t]: the four AudioTracks of session s
  visualizer,        \* visualizer[s]: the state of the Visualizer of session s
  capture,           \* capture[s]: an FFT capture of it waits in the UI queue
  view,              \* the session of the CameraView in the window, or null
  surface,           \* whether the surface of that view exists
  crash              \* the uncaught exception, or "none"

fields  == <<mCamera, mAudioRecord, mTracks, mAudioVisualizer, mPlayer>>
preview == <<camera, pool, frame>>
audio   == <<record, bridge, keepRunning>>
objects == <<track, visualizer>>
window  == <<view, surface>>
vars == <<ui, session, fields, preview, audio, objects, capture, window, crash>>

Sessions == 1..MaxSessions
null == 0
SessionOrNull == 0..MaxSessions

\* mAudioTrack, mRedSynthesizer, mGreenSynthesizer and mBlueSynthesizer.
Tracks == {"audio", "red", "green", "blue"}
TrackState == {"none", "ready", "playing", "released"}
TrackHeld  == {"ready", "playing"}

VisualizerState == {"none", "created", "capturing", "released"}
VisualizerHeld  == {"created", "capturing"}

PB == INSTANCE PreviewBuffers
BL == INSTANCE BridgeLife

(***************************************************************************)
(* The steps of onResume and onPause, in the order of the code.  "paused"  *)
(* and "resumed" are the UI thread waiting in its looper.                  *)
(***************************************************************************)
ResumeSteps == {"openCamera", "newAudio", "newVisualizer", "startBridge",
                "playTracks", "setupCamera", "newViews"}
PauseSteps  == {"releaseCamera", "releaseRecord", "releaseAudio", "releaseRed",
                "releaseGreen", "releaseBlue", "releaseVisualizer", "stopBridge"}
UISteps == {"created", "resumed", "paused"} \cup ResumeSteps \cup PauseSteps

CrashCauses == {"AudioRecord.startRecording", "AudioRecord.stop",
                "Camera.setParameters", "Camera.getParameters",
                "Camera.setPreviewDisplay", "Visualizer.getCaptureSize",
                "AudioSynth.decodeYUV420SP"}

TypeOK ==
  /\ ui \in UISteps
  /\ session \in SessionOrNull
  /\ mCamera \in SessionOrNull
  /\ mAudioRecord \in SessionOrNull
  /\ mTracks \in [Tracks -> SessionOrNull]
  /\ mAudioVisualizer \in SessionOrNull
  /\ mPlayer \in SessionOrNull
  /\ PB!TypeOK
  /\ BL!TypeOK
  /\ track \in [Sessions -> [Tracks -> TrackState]]
  /\ visualizer \in [Sessions -> VisualizerState]
  /\ capture \in [Sessions -> BOOLEAN]
  /\ view \in SessionOrNull
  /\ surface \in BOOLEAN
  /\ crash \in CrashCauses \cup {"none"}

\* The process has been started and onCreate has returned.
Init ==
  /\ ui = "created"
  /\ session = 0
  /\ mCamera = null /\ mAudioRecord = null
  /\ mTracks = [t \in Tracks |-> null]
  /\ mAudioVisualizer = null /\ mPlayer = null
  /\ PB!Init
  /\ BL!Init
  /\ track = [s \in Sessions |-> [t \in Tracks |-> "none"]]
  /\ visualizer = [s \in Sessions |-> "none"]
  /\ capture = [s \in Sessions |-> FALSE]
  /\ view = null /\ surface = FALSE
  /\ crash = "none"

Alive == crash = "none"

Throw(cause) ==
  /\ crash' = cause
  /\ UNCHANGED ui

Goto(here, next) ==
  /\ ui = here
  /\ ui' = next
  /\ UNCHANGED crash

-----------------------------------------------------------------------------
(* onResume.                                                               *)

Resume ==
  /\ ui \in {"created", "paused"}
  /\ session < MaxSessions
  /\ session' = session + 1
  /\ ui' = "openCamera"
  /\ UNCHANGED <<fields, preview, audio, objects, capture, window, crash>>

\* mCamera = getCamera(): null when Camera.open throws, which is caught.
OpenCamera ==
  /\ Goto("openCamera", "newAudio")
  /\ \/ /\ PB!Open(session)
        /\ mCamera' = session
     \/ /\ "camera" \in Faults
        /\ mCamera' = null
        /\ UNCHANGED preview
  /\ UNCHANGED <<session, mAudioRecord, mTracks, mAudioVisualizer, mPlayer>>
  /\ UNCHANGED <<audio, objects, capture, window>>

\* The AudioRecord and the four AudioTracks of setupAudio.
NewAudio ==
  /\ Goto("newAudio", "newVisualizer")
  /\ \/ BL!CreateRecord(session, "ready")
     \/ "microphone" \in Faults /\ BL!CreateRecord(session, "uninit")
  /\ mAudioRecord' = session
  /\ track' = [track EXCEPT ![session] = [t \in Tracks |-> "ready"]]
  /\ mTracks' = [t \in Tracks |-> session]
  /\ UNCHANGED <<session, mCamera, mAudioVisualizer, mPlayer>>
  /\ UNCHANGED <<preview, visualizer, capture, window>>

\* Mutant: the field is assigned when the visualizer is fully set up.
NewVisualizerAssignedLast ==
  /\ Goto("newVisualizer", "startBridge")
  /\ \/ /\ visualizer' = [visualizer EXCEPT ![session] = "capturing"]
        /\ mAudioVisualizer' = session
     \/ /\ "visualizer" \in Faults
        /\ visualizer' = [visualizer EXCEPT ![session] = "created"]
        /\ mAudioVisualizer' = null
  /\ UNCHANGED <<session, mCamera, mAudioRecord, mTracks, mPlayer>>
  /\ UNCHANGED <<preview, audio, track, capture, window>>

\* Mutant: a local variable hides the field in the try block.
NewVisualizerKeptLocal ==
  /\ Goto("newVisualizer", "startBridge")
  /\ visualizer' = [visualizer EXCEPT ![session] = "capturing"]
  /\ mAudioVisualizer' = null
  /\ UNCHANGED <<session, mCamera, mAudioRecord, mTracks, mPlayer>>
  /\ UNCHANGED <<preview, audio, track, capture, window>>

\* The try block of setupAudio: the constructor throws and the field stays
\* null, or a later call throws and it holds a visualizer that is not enabled,
\* or all succeed.  The exception is caught.
NewVisualizer ==
  /\ Goto("newVisualizer", "startBridge")
  /\ \/ /\ visualizer' = [visualizer EXCEPT ![session] = "capturing"]
        /\ mAudioVisualizer' = session
     \/ /\ "visualizer" \in Faults
        /\ \/ /\ visualizer' = [visualizer EXCEPT ![session] = "created"]
              /\ mAudioVisualizer' = session
           \/ /\ mAudioVisualizer' = null
              /\ UNCHANGED visualizer
  /\ UNCHANGED <<session, mCamera, mAudioRecord, mTracks, mPlayer>>
  /\ UNCHANGED <<preview, audio, track, capture, window>>

\* mPlayer = new MediaBridge(...), and new Thread(mPlayer).start().
StartBridge ==
  /\ Goto("startBridge", "playTracks")
  /\ BL!StartThread(session)
  /\ mPlayer' = session
  /\ UNCHANGED <<session, mCamera, mAudioRecord, mTracks, mAudioVisualizer>>
  /\ UNCHANGED <<preview, objects, capture, window>>

PlayTracks ==
  /\ Goto("playTracks", "setupCamera")
  /\ track' = [track EXCEPT ![session] = [t \in Tracks |-> "playing"]]
  /\ UNCHANGED <<session, fields, preview, audio, visualizer, capture, window>>

\* setupCamera does nothing without a camera; setParameters may reject the size.
SetupCamera ==
  /\ \/ Goto("setupCamera", "newViews")
     \/ /\ ui = "setupCamera"
        /\ mCamera # null /\ "parameters" \in Faults
        /\ Throw("Camera.setParameters")
  /\ UNCHANGED <<session, fields, preview, audio, objects, capture, window>>

\* new AudioSynth dereferences the camera and queues its buffer; then the new
\* CameraView replaces the old one in the window.  The old view, if it still
\* has a surface, gets surfaceDestroyed here: its stopPreview finds the camera
\* released and its exception is caught.
NewViews ==
  /\ \/ /\ mCamera # null
        /\ Goto("newViews", "resumed")
        /\ PB!Supply(mCamera)
        /\ view' = session
        /\ surface' = FALSE
     \/ /\ ui = "newViews" /\ mCamera = null
        /\ Throw("Camera.getParameters")
        /\ UNCHANGED <<preview, window>>
  /\ UNCHANGED <<session, fields, audio, objects, capture>>

-----------------------------------------------------------------------------
(* onPause.                                                                *)

Pause ==
  /\ Goto("resumed", "releaseCamera")
  /\ UNCHANGED <<session, fields, preview, audio, objects, capture, window>>

\* Mutant: the camera is stopped but not released.
PauseCameraStopOnly ==
  /\ Goto("releaseCamera", "releaseRecord")
  /\ IF mCamera # null
       THEN /\ PB!StopPreview(mCamera)
            /\ mCamera' = null
       ELSE UNCHANGED <<preview, mCamera>>
  /\ UNCHANGED <<session, mAudioRecord, mTracks, mAudioVisualizer, mPlayer>>
  /\ UNCHANGED <<audio, objects, capture, window>>

PauseCamera ==
  /\ Goto("releaseCamera", "releaseRecord")
  /\ IF mCamera # null
       THEN /\ PB!Release(mCamera)
            /\ mCamera' = null
       ELSE UNCHANGED <<preview, mCamera>>
  /\ UNCHANGED <<session, mAudioRecord, mTracks, mAudioVisualizer, mPlayer>>
  /\ UNCHANGED <<audio, objects, capture, window>>

\* Mutant: onPause waits for the bridge to end before it stops the record.
PauseRecordJoinsBridge ==
  /\ Goto("releaseRecord", "releaseAudio")
  /\ mAudioRecord # null => bridge[mAudioRecord] = "done"
  /\ IF mAudioRecord # null
       THEN BL!ReleaseRecord(mAudioRecord) /\ mAudioRecord' = null
       ELSE UNCHANGED <<audio, mAudioRecord>>
  /\ UNCHANGED <<session, mCamera, mTracks, mAudioVisualizer, mPlayer>>
  /\ UNCHANGED <<preview, objects, capture, window>>

\* mAudioRecord.stop throws, and is not caught, on a record that never opened.
PauseRecord ==
  /\ ui = "releaseRecord"
  /\ IF mAudioRecord # null
       THEN \/ /\ record[mAudioRecord] # "uninit"
               /\ Goto("releaseRecord", "releaseAudio")
               /\ BL!ReleaseRecord(mAudioRecord)
               /\ mAudioRecord' = null
            \/ /\ record[mAudioRecord] = "uninit"
               /\ Throw("AudioRecord.stop")
               /\ UNCHANGED <<audio, mAudioRecord>>
       ELSE Goto("releaseRecord", "releaseAudio") /\ UNCHANGED <<audio, mAudioRecord>>
  /\ UNCHANGED <<session, mCamera, mTracks, mAudioVisualizer, mPlayer>>
  /\ UNCHANGED <<preview, objects, capture, window>>

\* One of the four blocks that stop, release and null an AudioTrack.
PauseTrack(t, here, next) ==
  /\ Goto(here, next)
  /\ IF mTracks[t] # null
       THEN /\ track' = [track EXCEPT ![mTracks[t]][t] = "released"]
            /\ mTracks' = [mTracks EXCEPT ![t] = null]
       ELSE UNCHANGED <<track, mTracks>>
  /\ UNCHANGED <<session, mCamera, mAudioRecord, mAudioVisualizer, mPlayer>>
  /\ UNCHANGED <<preview, audio, visualizer, capture, window>>

PauseTracks ==
  \/ PauseTrack("audio", "releaseAudio", "releaseRed")
  \/ PauseTrack("red",   "releaseRed",   "releaseGreen")
  \/ PauseTrack("green", "releaseGreen", "releaseBlue")
  \/ PauseTrack("blue",  "releaseBlue",  "releaseVisualizer")

\* The visualizer is released but its field is not set to null, and a capture
\* that waits in the queue stays there.
PauseVisualizer ==
  /\ Goto("releaseVisualizer", "stopBridge")
  /\ IF mAudioVisualizer # null
       THEN visualizer' = [visualizer EXCEPT ![mAudioVisualizer] = "released"]
       ELSE UNCHANGED visualizer
  /\ UNCHANGED <<session, fields, preview, audio, track, capture, window>>

\* mPlayer.stopRunning, the last thing onPause does.
StopBridge ==
  /\ Goto("stopBridge", "paused")
  /\ IF mPlayer # null THEN BL!StopRunning(mPlayer) ELSE UNCHANGED audio
  /\ UNCHANGED <<session, fields, preview, objects, capture, window>>

-----------------------------------------------------------------------------
(* The other messages of the UI thread, delivered between its handlers.  A *)
(* paused activity can still be visible, so the surface callbacks come     *)
(* while it is paused too.                                                 *)

InLooper == ui \in {"resumed", "paused"}

\* startPreview; the RuntimeException of a released camera is not caught.
ViewStartsPreview ==
  IF camera[view] = "released"
    THEN crash' = "Camera.setPreviewDisplay" /\ UNCHANGED preview
    ELSE PB!StartPreview(view) /\ UNCHANGED crash

\* The IOException of its setPreviewDisplay is: no preview is started.
DisplayRefused ==
  /\ "display" \in Faults /\ camera[view] # "released"
  /\ UNCHANGED crash

\* stopPreview: the exception of a released camera is caught.
ViewStopsPreview ==
  IF camera[view] = "released" THEN UNCHANGED preview ELSE PB!StopPreview(view)

SurfaceCreated ==
  /\ InLooper /\ view # null /\ ~surface
  /\ surface' = TRUE
  /\ ViewStartsPreview \/ (DisplayRefused /\ UNCHANGED preview)
  /\ UNCHANGED <<ui, session, fields, audio, objects, capture, view>>

\* stopPreview, then startPreview; if that fails the preview stays stopped.
SurfaceChanged ==
  /\ InLooper /\ view # null /\ surface
  /\ ViewStartsPreview \/ (DisplayRefused /\ ViewStopsPreview)
  /\ UNCHANGED <<ui, session, fields, audio, objects, capture, window>>

SurfaceDestroyed ==
  /\ InLooper /\ view # null /\ surface
  /\ surface' = FALSE
  /\ ViewStopsPreview
  /\ UNCHANGED <<ui, session, fields, audio, objects, capture, view, crash>>

\* AudioSynth.onPreviewFrame, of any session: a frame in the queue is delivered
\* even after its camera was released.
DeliverFrame(s, w) ==
  /\ InLooper
  /\ PB!Deliver(s, w)
  /\ UNCHANGED <<ui, session, fields, audio, objects, capture, window, crash>>

\* onFftDataCapture asks the visualizer that the FIELD holds, not the one that
\* made the capture, for its capture size: a released visualizer throws, and so
\* does null.
DeliverCapture(s) ==
  /\ InLooper /\ capture[s]
  /\ capture' = [capture EXCEPT ![s] = FALSE]
  /\ IF mAudioVisualizer # null /\ visualizer[mAudioVisualizer] \in VisualizerHeld
       THEN UNCHANGED <<ui, crash>>
       ELSE Throw("Visualizer.getCaptureSize")
  /\ UNCHANGED <<session, fields, preview, audio, objects, window>>

\* A handler that has begun: the UI thread goes on with its next step.
Handler ==
  \/ OpenCamera \/ NewAudio \/ NewVisualizer \/ StartBridge
  \/ PlayTracks \/ SetupCamera \/ NewViews
  \/ PauseCamera \/ PauseRecord \/ PauseTracks \/ PauseVisualizer \/ StopBridge

SurfaceCallback == SurfaceCreated \/ SurfaceChanged \/ SurfaceDestroyed

-----------------------------------------------------------------------------
(* The platform and the other threads.                                     *)

\* The visualizer posts an FFT capture; one in the queue is enough to be stale.
PostCapture(s) ==
  /\ visualizer[s] = "capturing" /\ ~capture[s]
  /\ capture' = [capture EXCEPT ![s] = TRUE]
  /\ UNCHANGED <<ui, session, fields, preview, audio, objects, window, crash>>

PostFrame(s, w) ==
  /\ PB!Post(s, w)
  /\ UNCHANGED <<ui, session, fields, audio, objects, capture, window, crash>>

\* The worker of AudioSynth, up to the end of its run.  On a frame with more
\* chroma bytes than the buffer has, decodeYUV420SP reads past its end.  The size
\* is not kept: whether it is such a size shows at the first frame.
Worker(s, w) ==
  /\ \/ PB!Return(s, w) /\ UNCHANGED crash
     \/ /\ "rows" \in Faults /\ frame[s][w] = "working"
        /\ crash' = "AudioSynth.decodeYUV420SP"
        /\ UNCHANGED preview
  /\ UNCHANGED <<ui, session, fields, audio, objects, capture, window>>

\* MediaBridge.run; a process whose bridge throws is gone.
Bridge(s) ==
  /\ \/ (BL!StartRecording(s) \/ BL!Exit(s)) /\ UNCHANGED crash
     \/ BL!StartRecordingThrows(s) /\ crash' = "AudioRecord.startRecording"
  /\ UNCHANGED <<ui, session, fields, preview, objects, capture, window>>

\* The write of stopRunning becomes visible: no fairness, nothing forces it.
FlagBecomesVisible(s) ==
  /\ BL!FlagBecomesVisible(s)
  /\ UNCHANGED <<ui, session, fields, preview, objects, capture, window, crash>>

Next ==
  /\ Alive
  /\ \/ Resume \/ Pause \/ Handler \/ SurfaceCallback
     \/ \E s \in Sessions :
          \/ DeliverCapture(s) \/ PostCapture(s)
          \/ Bridge(s) \/ FlagBecomesVisible(s)
          \/ \E w \in Workers : DeliverFrame(s, w) \/ PostFrame(s, w) \/ Worker(s, w)

Spec == Init /\ [][Next]_vars

(***************************************************************************)
(* A handler that has begun goes on, the looper delivers what is queued, a *)
(* previewing camera fills the buffer it has, and workers that can run do. *)
(* The user need never pause or resume and a surface need not change; what *)
(* the bridges need to end is in MediaBridge.                              *)
(***************************************************************************)
Fairness ==
  /\ WF_vars(Alive /\ Handler)
  /\ \A s \in Sessions :
       /\ WF_vars(Alive /\ \E w \in Workers : PostFrame(s, w))
       /\ \A w \in Workers : /\ WF_vars(Alive /\ DeliverFrame(s, w))
                            /\ WF_vars(Alive /\ Worker(s, w))

FairSpec == Spec /\ Fairness

-----------------------------------------------------------------------------
(* Safety.                                                                 *)

\* The activity holds a camera, a microphone or an audio track exactly when the
\* field for it says so, and a visualizer only then: onPause releases what the
\* fields name, so an object that a field no longer names is never released.
Ownership ==
  \A s \in Sessions :
    /\ camera[s] \in PB!Held <=> mCamera = s
    /\ record[s] \in BL!RecordHeld <=> mAudioRecord = s
    /\ \A t \in Tracks : track[s][t] \in TrackHeld <=> mTracks[t] = s
    /\ visualizer[s] \in VisualizerHeld => mAudioVisualizer = s

NothingHeld ==
  \A s \in Sessions :
    /\ camera[s] \notin PB!Held
    /\ record[s] \notin BL!RecordHeld
    /\ \A t \in Tracks : track[s][t] \notin TrackHeld
    /\ visualizer[s] \notin VisualizerHeld

BridgesToldToStop ==
  \A s \in Sessions : bridge[s] # "none" => keepRunning[s] # "set"

\* However the handlers, the callbacks and the threads interleave and whatever
\* the platform refuses, an activity that has been paused holds no camera, no
\* microphone, no track and no visualizer: other applications can have them.
PausedHoldsNothing == ui \in {"created", "paused"} => NothingHeld

\* The onPause of session s has released its AudioRecord.
RecordGivenBack(s) ==
  /\ record[s] = "released"
  /\ s < session \/ ui \in (PauseSteps \ {"releaseCamera", "releaseRecord"}) \cup {"paused"}

\* Whatever is refused and however threads and callbacks interleave, the process
\* dies of one of these, in any session: a camera or parameters that were refused;
\* a microphone that was refused, met by onPause or by a bridge; a bridge so late
\* that onPause had released its record; a surface callback or a capture that came
\* to a paused activity; a capture of an earlier session that came to one that was
\* refused its visualizer; or a frame that did not fit the buffer.  A resumed
\* activity that was refused nothing meets no object that is missing or gone.
CrashHasCause ==
  /\ crash = "Camera.setParameters" => "parameters" \in Faults
  /\ crash = "Camera.getParameters" => camera[session] = "none"
  /\ crash = "AudioRecord.stop"     => record[session] = "uninit"
  /\ crash = "AudioRecord.startRecording" =>
       \E s \in 1..session : /\ bridge[s] = "thrown"
                             /\ record[s] = "uninit" \/ RecordGivenBack(s)
  /\ crash = "Camera.setPreviewDisplay"  => ui = "paused"
  /\ crash = "Visualizer.getCaptureSize" =>
       ui = "paused" \/ (session > 1 /\ visualizer[session] = "none")
  /\ crash = "AudioSynth.decodeYUV420SP" =>
       "rows" \in Faults /\ \E s \in 1..session, w \in Workers : frame[s][w] = "working"

\* Through any sequence of resumes, pauses, surface callbacks and refusals, one
\* frame of a camera is out at a time, so that two workers never share the
\* synthesiser's arrays; its one buffer is never queued twice, and while the
\* camera is held it is never lost.
BuffersStayWhole ==
  PB!OneFrameInFlight /\ PB!BufferNotDuplicated /\ PB!BufferNotLost

-----------------------------------------------------------------------------
(* Liveness, of FairSpec.                                                  *)

\* A frame that the camera has posted is worked on to its end, in whatever
\* session and also when its camera is released on the way.
FramesFinish ==
  \A s \in Sessions, w \in Workers :
    frame[s][w] # "free" ~> frame[s][w] = "free" \/ ~Alive

\* The preview never runs dry: while it is on, another frame comes.
PreviewGoesOn ==
  \A s \in Sessions :
    camera[s] = "previewing" ~>
      \/ \E w \in Workers : frame[s][w] = "posted"
      \/ camera[s] # "previewing" \/ ~Alive

\* The preview stalls nowhere: neither in a worker nor for want of the buffer.
PreviewNeverStalls == FramesFinish /\ PreviewGoesOn

\* An onPause that has begun comes to its end: with every object given back and
\* every bridge told to stop, or the process is killed on the way by its own stop
\* of a microphone that was refused, by a bridge that could not start, or by a
\* worker whose frame did not fit.  Nothing else comes in between.
PauseReleases ==
  ui = "releaseCamera" ~>
    \/ ui = "paused" /\ NothingHeld /\ BridgesToldToStop
    \/ crash \in {"AudioRecord.stop", "AudioRecord.startRecording",
                  "AudioSynth.decodeYUV420SP"}

-----------------------------------------------------------------------------
(* What the comments say, and the code does not do.                        *)

\* CameraView.startPreview is to "bail if we don't have a surface or camera".
SurfaceCallbacksBail == crash # "Camera.setPreviewDisplay"

\* An unavailable camera is caught in getCamera and tested for in setupCamera
\* and startPreview: the activity is to come up without it.
ComesUpWithoutCamera == crash # "Camera.getParameters"

=============================================================================
