-------------------------- MODULE SuperpowersProofs --------------------------
(***************************************************************************)
(* What holds of the activity for any number of resumes, any set of worker *)
(* threads and any set of faults.                                          *)
(***************************************************************************)
EXTENDS Superpowers, TLAPS

\* While a handler runs there is a session, and later ones are untouched.
SessionInv ==
  /\ ui = "created" <=> session = 0
  /\ \A s \in Sessions : s > session =>
       /\ camera[s] = "none" /\ record[s] = "none" /\ visualizer[s] = "none"
       /\ \A t \in Tracks : track[s][t] = "none"

\* An object of the session is made by the step that opens it, and by no other.
FreshInv ==
  /\ ui = "openCamera" => camera[session] = "none"
  /\ ui \in {"openCamera", "newAudio"} =>
       record[session] = "none" /\ \A t \in Tracks : track[session][t] = "none"
  /\ ui \in {"openCamera", "newAudio", "newVisualizer"} => visualizer[session] = "none"

Between == {"created", "paused", "openCamera"}
AfterCamera == Between \cup (PauseSteps \ {"releaseCamera"})
AfterRecord == (AfterCamera \ {"releaseRecord"}) \cup {"newAudio"}

\* The steps at which the field of track t is null: at all others it names the
\* track of the session.
Reached == [audio |-> {"releaseRed", "releaseGreen", "releaseBlue"},
            red   |-> {"releaseGreen", "releaseBlue"},
            green |-> {"releaseBlue"}, blue |-> {}]
TrackNull(t) == ui \in Between \cup {"newAudio", "releaseVisualizer", "stopBridge"} \cup Reached[t]

\* Before a step assigns a field, the field holds nothing that is still open.
FieldInv ==
  /\ ui \in AfterCamera => mCamera = null
  /\ mCamera \in {null, session}
  /\ ui \in AfterRecord => mAudioRecord = null
  /\ mAudioRecord \in {null, session}
  /\ \A t \in Tracks : mTracks[t] = IF TrackNull(t) THEN null ELSE session
  /\ ui \notin Between \cup {"newAudio", "newVisualizer"} =>
       mAudioVisualizer \in {null, session}
  /\ ui \in Between \cup {"newAudio", "newVisualizer", "stopBridge"} =>
       \A s \in Sessions : visualizer[s] \notin VisualizerHeld

\* The inductive invariant.  Ownership alone is not inductive: a step that assigns
\* a field would lose the object the field names, if it still named one.
OwnershipInv == TypeOK /\ SessionInv /\ FreshInv /\ FieldInv /\ Ownership


\* A field holds a session or null, and null is no session.
LEMMA FieldValues == SessionOrNull = Sessions \cup {null} /\ null \notin Sessions
  BY SessionsAssumption DEF SessionOrNull, Sessions, null

-----------------------------------------------------------------------------
(* Types.                                                                  *)

\* The camera operations keep the types of the camera's variables.
LEMMA PreviewTypes ==
  ASSUME PB!TypeOK, NEW s \in Sessions,
         \/ PB!Open(s) \/ PB!Supply(s) \/ PB!StartPreview(s) \/ PB!StopPreview(s)
         \/ PB!Release(s)
         \/ \E w \in Workers : PB!Post(s, w) \/ PB!Deliver(s, w) \/ PB!Return(s, w)
  PROVE  PB!TypeOK'
<1> USE DEF PB!TypeOK, PB!CameraState, PB!FrameState
<1>1. CASE PB!Open(s) \/ PB!StartPreview(s) \/ PB!StopPreview(s)
  BY <1>1 DEF PB!Open, PB!StartPreview, PB!StopPreview
<1>2. CASE PB!Supply(s)
  BY <1>2 DEF PB!Supply
<1>3. CASE PB!Release(s)
  BY <1>3 DEF PB!Release
<1>4. ASSUME NEW w \in Workers, PB!Post(s, w) PROVE PB!TypeOK'
  BY <1>4 DEF PB!Post
<1>5. ASSUME NEW w \in Workers, PB!Deliver(s, w) PROVE PB!TypeOK'
  BY <1>5 DEF PB!Deliver
<1>6. ASSUME NEW w \in Workers, PB!Return(s, w) PROVE PB!TypeOK'
  BY <1>6 DEF PB!Return
<1>7. QED
  BY <1>1, <1>2, <1>3, <1>4, <1>5, <1>6

\* So do those of the bridge and its AudioRecord.
LEMMA AudioTypes ==
  ASSUME BL!TypeOK, NEW s \in Sessions,
         \/ BL!CreateRecord(s, "ready") \/ BL!CreateRecord(s, "uninit")
         \/ BL!StartThread(s) \/ BL!ReleaseRecord(s) \/ BL!StopRunning(s)
         \/ BL!StartRecording(s) \/ BL!StartRecordingThrows(s)
         \/ BL!FlagBecomesVisible(s) \/ BL!Exit(s)
  PROVE  BL!TypeOK'
  BY DEF BL!TypeOK, BL!RecordState, BL!BridgeState, BL!FlagState, BL!CreateRecord,
     BL!StartThread, BL!ReleaseRecord, BL!StopRunning, BL!StartRecording,
     BL!StartRecordingThrows, BL!FlagBecomesVisible, BL!Exit

\* A step that leaves the variables of one of them alone keeps its types.
LEMMA StutterTypes ==
  /\ PB!TypeOK /\ UNCHANGED preview => PB!TypeOK'
  /\ BL!TypeOK /\ UNCHANGED audio => BL!TypeOK'
  BY DEF PB!TypeOK, BL!TypeOK, preview, audio

USE FieldValues DEF Tracks, TrackState, TrackHeld, VisualizerState, VisualizerHeld,
                    UISteps, ResumeSteps, PauseSteps, CrashCauses

\* Once the activity has been resumed there is a session, and it is none of the
\* later ones.
LEMMA InSession ==
  TypeOK /\ SessionInv => (ui # "created" => session \in Sessions) /\ ~(session > session)
  BY SessionsAssumption DEF TypeOK, SessionInv, Sessions, SessionOrNull

\* Every step of the UI thread, of the other threads and of the platform keeps
\* the types.
LEMMA StepTypes == TypeOK /\ SessionInv /\ [Next]_vars => TypeOK'
<1> SUFFICES ASSUME TypeOK, SessionInv, [Next]_vars PROVE TypeOK'
  OBVIOUS
<1> USE InSession, PreviewTypes, AudioTypes, StutterTypes
    DEF TypeOK, Goto, Throw, fields, objects, window
<1>1. CASE UNCHANGED vars
  BY <1>1 DEF vars
<1>2. CASE Resume
  BY <1>2, SessionsAssumption DEF Resume, SessionOrNull
<1>3. CASE OpenCamera
  BY <1>3 DEF OpenCamera
<1>4. CASE NewAudio
  BY <1>4 DEF NewAudio
<1>5. CASE NewVisualizer
  BY <1>5 DEF NewVisualizer
<1>6. CASE StartBridge
  BY <1>6 DEF StartBridge
<1>7. CASE PlayTracks
  BY <1>7 DEF PlayTracks
<1>8. CASE SetupCamera
  BY <1>8 DEF SetupCamera
<1>9. CASE NewViews
  BY <1>9 DEF NewViews
<1>10. CASE Pause
  BY <1>10 DEF Pause
<1>11. CASE PauseCamera
  BY <1>11 DEF PauseCamera
<1>12. CASE PauseRecord
  BY <1>12, SMTT(30) DEF PauseRecord
<1>13. CASE PauseTracks
  <2>1. ASSUME NEW t \in Tracks, NEW here \in UISteps, NEW next \in UISteps,
               PauseTrack(t, here, next)
        PROVE  TypeOK'
    BY <2>1, SMTT(30) DEF PauseTrack
  <2>2. QED
    BY <1>13, <2>1 DEF PauseTracks
<1>14. CASE PauseVisualizer
  BY <1>14 DEF PauseVisualizer
<1>15. CASE StopBridge
  BY <1>15 DEF StopBridge
<1>16. CASE SurfaceCreated
  BY <1>16 DEF SurfaceCreated, ViewStartsPreview, DisplayRefused
<1>17. CASE SurfaceChanged
  BY <1>17 DEF SurfaceChanged, ViewStartsPreview, DisplayRefused, ViewStopsPreview
<1>18. CASE SurfaceDestroyed
  BY <1>18 DEF SurfaceDestroyed, ViewStopsPreview
<1>19. ASSUME NEW s \in Sessions, DeliverCapture(s) PROVE TypeOK'
  BY <1>19 DEF DeliverCapture
<1>20. ASSUME NEW s \in Sessions, PostCapture(s) PROVE TypeOK'
  BY <1>20 DEF PostCapture
<1>21. ASSUME NEW s \in Sessions, Bridge(s) PROVE TypeOK'
  BY <1>21 DEF Bridge
<1>22. ASSUME NEW s \in Sessions, FlagBecomesVisible(s) PROVE TypeOK'
  BY <1>22 DEF FlagBecomesVisible
<1>23. ASSUME NEW s \in Sessions, NEW w \in Workers, DeliverFrame(s, w) PROVE TypeOK'
  BY <1>23 DEF DeliverFrame
<1>24. ASSUME NEW s \in Sessions, NEW w \in Workers, PostFrame(s, w) PROVE TypeOK'
  BY <1>24 DEF PostFrame
<1>25. ASSUME NEW s \in Sessions, NEW w \in Workers, Worker(s, w) PROVE TypeOK'
  BY <1>25 DEF Worker
<1>26. QED
  BY <1>1, <1>2, <1>3, <1>4, <1>5, <1>6, <1>7, <1>8, <1>9, <1>10, <1>11,
     <1>12, <1>13, <1>14, <1>15, <1>16, <1>17, <1>18, <1>19, <1>20, <1>21,
     <1>22, <1>23, <1>24, <1>25
     DEF Next, Handler, SurfaceCallback

-----------------------------------------------------------------------------
(* Ownership.                                                              *)

\* The state before the first onResume.
LEMMA InitOwnership == Init => OwnershipInv
<1> SUFFICES ASSUME Init PROVE OwnershipInv
  OBVIOUS
<1>1. TypeOK
  BY SessionsAssumption
  DEF Init, TypeOK, PB!Init, BL!Init, PB!TypeOK, BL!TypeOK, PB!CameraState, PB!FrameState,
      BL!RecordState, BL!BridgeState, BL!FlagState, SessionOrNull, null
<1>2. SessionInv /\ FreshInv
  BY DEF Init, PB!Init, BL!Init, SessionInv, FreshInv
<1>3. FieldInv /\ Ownership
  BY DEF Init, PB!Init, BL!Init, FieldInv, Ownership, Between, AfterCamera, AfterRecord,
         TrackNull, Reached, PB!Held, PB!Supplied, BL!RecordHeld
<1>4. QED
  BY <1>1, <1>2, <1>3 DEF OwnershipInv

\* A step that opens and releases nothing, and leaves the fields alone.
Quiet ==
  /\ UNCHANGED <<ui, session, fields, objects>>
  /\ \A s \in Sessions :
       /\ camera'[s] \in PB!Held <=> camera[s] \in PB!Held
       /\ camera'[s] = "none" <=> camera[s] = "none"
       /\ record'[s] \in BL!RecordHeld <=> record[s] \in BL!RecordHeld
       /\ record'[s] = "none" <=> record[s] = "none"

\* Such a step keeps the invariant.
LEMMA QuietOwnership == OwnershipInv /\ TypeOK' /\ Quiet => OwnershipInv'
<1> SUFFICES ASSUME OwnershipInv, TypeOK', Quiet PROVE OwnershipInv'
  OBVIOUS
<1> USE DEF OwnershipInv, Quiet, fields, objects
<1>1. SessionInv' /\ FreshInv'
  BY InSession DEF SessionInv, FreshInv
<1>2. FieldInv'
  BY DEF FieldInv, TrackNull
<1>3. Ownership'
  BY DEF Ownership
<1>4. QED
  BY <1>1, <1>2, <1>3

\* The surface callbacks, the messages of the looper, the camera, the visualizer,
\* the workers and the bridges open and release nothing.
LEMMA OthersAreQuiet ==
  ASSUME TypeOK,
         \/ SurfaceCallback
         \/ \E s \in Sessions :
              \/ DeliverCapture(s) \/ PostCapture(s)
              \/ Bridge(s) \/ FlagBecomesVisible(s)
              \/ \E w \in Workers : DeliverFrame(s, w) \/ PostFrame(s, w) \/ Worker(s, w)
  PROVE  Quiet
<1> USE DEF TypeOK, PB!TypeOK, BL!TypeOK, Quiet, PB!Held, PB!Supplied, BL!RecordHeld,
            fields, objects, preview, audio, Throw
<1>1. CASE SurfaceCallback
  BY <1>1 DEF SurfaceCallback, SurfaceCreated, SurfaceChanged, SurfaceDestroyed,
              ViewStartsPreview, DisplayRefused, ViewStopsPreview,
              PB!StartPreview, PB!StopPreview
<1>2. ASSUME NEW s \in Sessions, DeliverCapture(s) \/ PostCapture(s) PROVE Quiet
  BY <1>2 DEF DeliverCapture, PostCapture
<1>3. ASSUME NEW s \in Sessions, Bridge(s) \/ FlagBecomesVisible(s) PROVE Quiet
  BY <1>3 DEF Bridge, FlagBecomesVisible, BL!StartRecording, BL!StartRecordingThrows,
              BL!Exit, BL!FlagBecomesVisible
<1>4. ASSUME NEW s \in Sessions, NEW w \in Workers,
             DeliverFrame(s, w) \/ PostFrame(s, w) \/ Worker(s, w)
      PROVE  Quiet
  BY <1>4, SMTT(30) DEF DeliverFrame, PostFrame, Worker, PB!Deliver, PB!Post, PB!Return
<1>5. QED
  BY <1>1, <1>2, <1>3, <1>4

\* The steps of onResume and onPause keep the invariant: onResume only assigns
\* fields that name nothing any more, and onPause sets a field to null in the
\* step that releases what it names.
LEMMA HandlersKeepOwnership ==
  ASSUME OwnershipInv, TypeOK', Resume \/ Pause \/ Handler
  PROVE  OwnershipInv'
<1> USE InSession
    DEF OwnershipInv, TypeOK, PB!TypeOK, BL!TypeOK, SessionInv, FreshInv, FieldInv, Ownership,
        Between, AfterCamera, AfterRecord, TrackNull, Reached,
        PB!Held, PB!Supplied, BL!RecordHeld, Goto, Throw, fields, preview, audio, objects
<1>1. CASE Resume
  <2>1. /\ session' = session + 1 /\ session' \in Sessions /\ session' # 0
        /\ \A s \in Sessions : s >= session' => s > session
        /\ \A s \in Sessions : s > session' => s > session
    BY <1>1, SessionsAssumption DEF Resume, Sessions, SessionOrNull
  <2>2. SessionInv' /\ FreshInv'
    <3>1. SessionInv'
      BY <1>1, <2>1 DEF Resume
    <3>2. camera'[session'] = "none" /\ record'[session'] = "none"
            /\ visualizer'[session'] = "none" /\ \A t \in Tracks : track'[session'][t] = "none"
      BY <1>1, <2>1 DEF Resume
    <3>3. QED
      BY <1>1, <3>1, <3>2 DEF Resume
  <2>3. FieldInv'
    BY <1>1 DEF Resume
  <2>4. Ownership'
    BY <1>1 DEF Resume
  <2>5. QED
    BY <2>2, <2>3, <2>4
<1>2. CASE OpenCamera
  <2>1. SessionInv' /\ FreshInv'
    BY <1>2 DEF OpenCamera, PB!Open
  <2>2. FieldInv'
    BY <1>2 DEF OpenCamera
  <2>3. Ownership'
    BY <1>2 DEF OpenCamera, PB!Open
  <2>4. QED
    BY <2>1, <2>2, <2>3
<1>3. CASE NewAudio
  <2>1. SessionInv' /\ FreshInv'
    BY <1>3 DEF NewAudio, BL!CreateRecord
  <2>2. FieldInv'
    BY <1>3 DEF NewAudio
  <2>3. Ownership'
    BY <1>3 DEF NewAudio, BL!CreateRecord
  <2>4. QED
    BY <2>1, <2>2, <2>3
<1>4. CASE NewVisualizer
  BY <1>4 DEF NewVisualizer
<1>5. CASE StartBridge
  BY <1>5 DEF StartBridge, BL!StartThread
<1>6. CASE PlayTracks
  BY <1>6 DEF PlayTracks
<1>7. CASE SetupCamera
  BY <1>7 DEF SetupCamera
<1>8. CASE NewViews
  BY <1>8 DEF NewViews, PB!Supply
<1>9. CASE Pause
  BY <1>9 DEF Pause
<1>10. CASE PauseCamera
  BY <1>10 DEF PauseCamera, PB!Release
<1>11. CASE PauseRecord
  BY <1>11 DEF PauseRecord, BL!ReleaseRecord
<1>12. CASE PauseTracks
  <2>1. SessionInv' /\ FreshInv'
    BY <1>12 DEF PauseTracks, PauseTrack
  <2>2. FieldInv'
    BY <1>12 DEF PauseTracks, PauseTrack
  <2>3. Ownership'
    BY <1>12 DEF PauseTracks, PauseTrack
  <2>4. QED
    BY <2>1, <2>2, <2>3
<1>13. CASE PauseVisualizer
  <2>1. SessionInv' /\ FreshInv'
    BY <1>13 DEF PauseVisualizer
  <2>2. FieldInv'
    BY <1>13 DEF PauseVisualizer
  <2>3. Ownership'
    BY <1>13 DEF PauseVisualizer
  <2>4. QED
    BY <2>1, <2>2, <2>3
<1>14. CASE StopBridge
  BY <1>14 DEF StopBridge, BL!StopRunning
<1>15. QED
  BY <1>1, <1>2, <1>3, <1>4, <1>5, <1>6, <1>7, <1>8, <1>9, <1>10, <1>11,
     <1>12, <1>13, <1>14
     DEF Handler

\* Every step of the activity keeps the invariant.
LEMMA StepOwnership == OwnershipInv /\ [Next]_vars => OwnershipInv'
<1> SUFFICES ASSUME OwnershipInv, [Next]_vars PROVE OwnershipInv'
  OBVIOUS
<1>1. TypeOK /\ TypeOK'
  BY StepTypes DEF OwnershipInv
<1>2. CASE UNCHANGED vars
  <2>1. Quiet
    BY <1>2 DEF vars, Quiet, fields, objects, preview, audio
  <2>2. QED
    BY <1>1, <2>1, QuietOwnership
<1>3. CASE Resume \/ Pause \/ Handler
  BY <1>1, <1>3, HandlersKeepOwnership
<1>4. CASE Next /\ ~(Resume \/ Pause \/ Handler)
  <2>1. Quiet
    BY <1>1, <1>4, OthersAreQuiet DEF Next
  <2>2. QED
    BY <1>1, <2>1, QuietOwnership
<1>5. QED
  BY <1>2, <1>3, <1>4 DEF Next

\* The invariant holds throughout.
LEMMA OwnershipAlways == Spec => []OwnershipInv
  BY InitOwnership, StepOwnership, PTL DEF Spec

\* Every variable keeps its type, for every MaxSessions, Workers and Faults.
THEOREM TypesCorrect == Spec => []TypeOK
<1>1. OwnershipInv => TypeOK
  BY DEF OwnershipInv
<1>2. QED
  BY <1>1, OwnershipAlways, PTL

\* What the activity has open is what its fields name: onPause, which releases
\* what the fields name, leaks nothing however often the activity is resumed.
THEOREM NothingLeaks == Spec => []Ownership
<1>1. OwnershipInv => Ownership
  BY DEF OwnershipInv
<1>2. QED
  BY <1>1, OwnershipAlways, PTL

\* Between onPause and the next onResume the activity holds no hardware.
THEOREM PausedIsFree == Spec => []PausedHoldsNothing
<1>1. OwnershipInv => PausedHoldsNothing
  BY DEF OwnershipInv, TypeOK, FieldInv, Ownership, PausedHoldsNothing, NothingHeld, Between,
         AfterCamera, AfterRecord, TrackNull
<1>2. QED
  BY <1>1, OwnershipAlways, PTL

-----------------------------------------------------------------------------
(* The buffers.                                                            *)

\* A step of the activity is a step of the buffer protocol or leaves it alone.
LEMMA StepPreview == OwnershipInv /\ [Next]_vars => [PB!Next]_(PB!vars)
<1> SUFFICES ASSUME OwnershipInv, [Next]_vars PROVE PB!Next \/ UNCHANGED preview
  BY DEF preview, PB!vars
<1> USE InSession DEF OwnershipInv, TypeOK, FieldInv, PB!Next, Goto, preview, window
<1>1. CASE UNCHANGED vars
  BY <1>1 DEF vars
<1>2. CASE OpenCamera
  BY <1>2 DEF OpenCamera
<1>3. CASE NewViews
  BY <1>3 DEF NewViews
<1>4. CASE PauseCamera
  BY <1>4 DEF PauseCamera
<1>5. CASE SurfaceCallback
  BY <1>5 DEF SurfaceCallback, SurfaceCreated, SurfaceChanged, SurfaceDestroyed,
              ViewStartsPreview, ViewStopsPreview
<1>6. ASSUME NEW s \in Sessions, NEW w \in Workers,
             DeliverFrame(s, w) \/ PostFrame(s, w) \/ Worker(s, w)
      PROVE  PB!Next \/ UNCHANGED preview
  BY <1>6 DEF DeliverFrame, PostFrame, Worker
<1>7. ASSUME NEW s \in Sessions,
             DeliverCapture(s) \/ PostCapture(s) \/ Bridge(s) \/ FlagBecomesVisible(s)
      PROVE  UNCHANGED preview
  BY <1>7 DEF DeliverCapture, PostCapture, Bridge, FlagBecomesVisible
<1>8. CASE \/ Resume \/ NewAudio \/ NewVisualizer \/ StartBridge \/ PlayTracks \/ SetupCamera
           \/ Pause \/ PauseRecord \/ PauseTracks \/ PauseVisualizer \/ StopBridge
  BY <1>8 DEF Resume, NewAudio, NewVisualizer, StartBridge, PlayTracks, SetupCamera,
              Pause, PauseRecord, PauseTracks, PauseTrack, PauseVisualizer, StopBridge
<1>9. QED
  BY <1>1, <1>2, <1>3, <1>4, <1>5, <1>6, <1>7, <1>8 DEF Next, Handler

\* The state before the first onResume: no camera, no buffer, no frame.
LEMMA InitBuffers == PB!Init => PB!BufferInv
  BY DEF PB!Init, PB!BufferInv, PB!TypeOK, PB!CameraState, PB!FrameState, PB!Supplied, PB!Busy,
         PB!NothingBeforeSupply, PB!OneFrameInFlight, PB!BufferNotDuplicated, PB!BufferNotLost

\* Every operation of the camera, the UI thread and the workers keeps the buffer
\* in one place.
LEMMA StepBuffers == PB!BufferInv /\ [PB!Next]_(PB!vars) => PB!BufferInv'
<1> SUFFICES ASSUME PB!BufferInv, [PB!Next]_(PB!vars) PROVE PB!BufferInv'
  OBVIOUS
<1> USE DEF PB!BufferInv, PB!TypeOK, PB!CameraState, PB!FrameState, PB!Supplied, PB!Held, PB!Busy,
            PB!NothingBeforeSupply, PB!OneFrameInFlight, PB!BufferNotDuplicated, PB!BufferNotLost
<1>1. CASE UNCHANGED PB!vars
  BY <1>1 DEF PB!vars
<1>2. ASSUME NEW s \in Sessions, PB!Open(s) PROVE PB!BufferInv'
  BY <1>2 DEF PB!Open
<1>3. ASSUME NEW s \in Sessions, PB!Supply(s) PROVE PB!BufferInv'
  BY <1>3 DEF PB!Supply
<1>4. ASSUME NEW s \in Sessions, PB!StartPreview(s) PROVE PB!BufferInv'
  BY <1>4 DEF PB!StartPreview
<1>5. ASSUME NEW s \in Sessions, PB!StopPreview(s) PROVE PB!BufferInv'
  BY <1>5 DEF PB!StopPreview
<1>6. ASSUME NEW s \in Sessions, PB!Release(s) PROVE PB!BufferInv'
  BY <1>6 DEF PB!Release
<1>7. ASSUME NEW s \in Sessions, NEW w \in Workers, PB!Post(s, w) PROVE PB!BufferInv'
  BY <1>7 DEF PB!Post
<1>8. ASSUME NEW s \in Sessions, NEW w \in Workers, PB!Deliver(s, w) PROVE PB!BufferInv'
  BY <1>8 DEF PB!Deliver
<1>9. ASSUME NEW s \in Sessions, NEW w \in Workers, PB!Return(s, w) PROVE PB!BufferInv'
  BY <1>9 DEF PB!Return
<1>10. QED
  BY <1>1, <1>2, <1>3, <1>4, <1>5, <1>6, <1>7, <1>8, <1>9 DEF PB!Next

\* In every behaviour at most one frame of a session is out, so its workers never
\* meet in the arrays they share; the buffer is never in two places; and it is
\* not lost while the camera is held, so the preview callbacks do not dry up.
THEOREM BuffersSafe ==
  PB!Spec => [](PB!OneFrameInFlight /\ PB!BufferNotDuplicated /\ PB!BufferNotLost)
<1>1. PB!BufferInv => PB!OneFrameInFlight /\ PB!BufferNotDuplicated /\ PB!BufferNotLost
  BY DEF PB!BufferInv
<1>2. QED
  BY InitBuffers, StepBuffers, <1>1, PTL DEF PB!Spec

\* The invariant of the buffer protocol is one of the activity too: the activity
\* starts as the protocol does, and StepPreview.
LEMMA BufferInvAlways == Spec => []PB!BufferInv
<1>1. Init => PB!Init
  BY DEF Init
<1>2. QED
  BY <1>1, InitBuffers, StepBuffers, OwnershipAlways, StepPreview, PTL DEF Spec

\* So two workers of a session never run together, and the buffer is neither
\* duplicated nor lost.
THEOREM WorkersNeverMeet == Spec => []BuffersStayWhole
<1>1. PB!BufferInv => BuffersStayWhole
  BY DEF PB!BufferInv, BuffersStayWhole
<1>2. QED
  BY <1>1, BufferInvAlways, PTL

-----------------------------------------------------------------------------
(* Crashes.                                                                *)

AfterRelease == (PauseSteps \ {"releaseCamera"}) \cup {"paused"}

\* The steps between the one that makes the visualizer of the session and the one
\* that releases it.
WithVisualizer == {"startBridge", "playTracks", "setupCamera", "newViews", "resumed",
                   "releaseCamera", "releaseRecord", "releaseAudio", "releaseRed",
                   "releaseGreen", "releaseBlue", "releaseVisualizer"}

\* What was released was released by the onPause of its own session; a resumed
\* activity shows the view of its own camera, and its visualizer field holds its
\* own visualizer or, if that was refused, nothing; a capture that waits and a
\* bridge that has started have once had a visualizer and a record.
ReleasedByPause ==
  \A s \in Sessions :
    /\ camera[s] = "released" => s < session \/ ui \in AfterRelease
    /\ record[s] = "released" => RecordGivenBack(s)
OwnView == ui = "resumed" => view = session
OwnVisualizer ==
  ui \in WithVisualizer =>
    \/ mAudioVisualizer = session /\ visualizer[session] \in VisualizerHeld
    \/ mAudioVisualizer = null /\ visualizer[session] = "none"
Origins ==
  \A s \in Sessions : /\ capture[s] => visualizer[s] # "none"
                      /\ bridge[s] = "started" => record[s] # "none"

\* CrashHasCause is not inductive: whether a step throws depends on all of these.
CrashInv == ReleasedByPause /\ OwnView /\ OwnVisualizer /\ Origins /\ CrashHasCause

\* The state before the first onResume.
LEMMA InitCrashInv == Init => CrashInv
  BY DEF Init, PB!Init, BL!Init, CrashInv, ReleasedByPause, OwnView, OwnVisualizer,
         WithVisualizer, Origins, CrashHasCause

\* The sessions so far are those that are not untouched.
LEMMA SessionsSoFar ==
  TypeOK => \A s \in Sessions : s \in 1..session <=> ~(s > session)
  BY SessionsAssumption DEF TypeOK, SessionOrNull, Sessions

\* The steps of onResume: the objects of the new session are neither released nor
\* anyone else's, and a camera that is missing is one that was never opened.
LEMMA ResumeKeepsCrashInv ==
  ASSUME OwnershipInv, CrashInv, Alive,
         \/ Resume \/ OpenCamera \/ NewAudio \/ NewVisualizer \/ StartBridge
         \/ PlayTracks \/ SetupCamera \/ NewViews
  PROVE  CrashInv'
<1> USE InSession
    DEF OwnershipInv, TypeOK, PB!TypeOK, BL!TypeOK, CrashInv, ReleasedByPause, OwnView,
        OwnVisualizer, Origins, CrashHasCause, RecordGivenBack, AfterRelease, WithVisualizer,
        Alive, Goto, Throw, fields, preview, audio, objects, window
<1>1. CASE Resume
  <2>1. \A s \in Sessions : s <= session => s < session'
    BY <1>1, SessionsAssumption DEF Resume, Sessions, SessionOrNull
  <2>2. \A s \in Sessions : camera[s] = "released" \/ record[s] = "released" => s <= session
    BY SessionsAssumption DEF SessionInv, Sessions, SessionOrNull
  <2>3. QED
    BY <1>1, <2>1, <2>2 DEF Resume
<1>2. CASE OpenCamera
  BY <1>2 DEF OpenCamera, PB!Open
<1>3. CASE NewAudio
  BY <1>3 DEF NewAudio, BL!CreateRecord
<1>4. CASE NewVisualizer
  BY <1>4 DEF NewVisualizer, FreshInv
<1>5. CASE StartBridge
  BY <1>5 DEF StartBridge, BL!StartThread
<1>6. CASE PlayTracks
  BY <1>6 DEF PlayTracks
<1>7. CASE SetupCamera
  BY <1>7 DEF SetupCamera
<1>8. CASE NewViews
  <2>1. CASE mCamera # null
    BY <1>8, <2>1 DEF NewViews, PB!Supply, FieldInv
  <2>2. CASE mCamera = null
    <3>1. camera[session] # "released"
      BY <1>8, <2>2, SessionsAssumption DEF NewViews, Sessions, SessionOrNull
    <3>2. camera[session] = "none"
      BY <1>8, <2>2, <3>1 DEF NewViews, Ownership, PB!Held, PB!Supplied, PB!CameraState
    <3>3. QED
      BY <1>8, <2>2, <3>2 DEF NewViews
  <2>3. QED
    BY <2>1, <2>2
<1>9. QED
  BY <1>1, <1>2, <1>3, <1>4, <1>5, <1>6, <1>7, <1>8

\* The steps of onPause, of which one may throw.
LEMMA PauseKeepsCrashInv ==
  ASSUME OwnershipInv, CrashInv, Alive,
         \/ Pause \/ PauseCamera \/ PauseRecord \/ PauseTracks \/ PauseVisualizer
         \/ StopBridge
  PROVE  CrashInv'
<1> USE InSession
    DEF OwnershipInv, TypeOK, PB!TypeOK, BL!TypeOK, CrashInv, ReleasedByPause, OwnView,
        OwnVisualizer, Origins, CrashHasCause, RecordGivenBack, AfterRelease, WithVisualizer,
        Alive, Goto, Throw, fields, preview, audio, objects, window
<1>1. CASE Pause
  BY <1>1 DEF Pause
<1>2. CASE PauseCamera
  BY <1>2 DEF PauseCamera, PB!Release, FieldInv
<1>3. CASE PauseRecord
  BY <1>3 DEF PauseRecord, BL!ReleaseRecord, FieldInv
<1>4. CASE PauseTracks
  BY <1>4 DEF PauseTracks, PauseTrack
<1>5. CASE PauseVisualizer
  BY <1>5 DEF PauseVisualizer
<1>6. CASE StopBridge
  BY <1>6 DEF StopBridge, BL!StopRunning
<1>7. QED
  BY <1>1, <1>2, <1>3, <1>4, <1>5, <1>6

\* The callbacks, the platform and the other threads.
LEMMA OthersKeepCrashInv ==
  ASSUME OwnershipInv, PB!BufferInv, CrashInv, Alive,
         \/ SurfaceCallback
         \/ \E s \in Sessions :
              \/ DeliverCapture(s) \/ PostCapture(s)
              \/ Bridge(s) \/ FlagBecomesVisible(s)
              \/ \E w \in Workers : DeliverFrame(s, w) \/ PostFrame(s, w) \/ Worker(s, w)
  PROVE  CrashInv'
<1> USE InSession
    DEF OwnershipInv, TypeOK, PB!TypeOK, BL!TypeOK, CrashInv, ReleasedByPause, OwnView,
        OwnVisualizer, Origins, CrashHasCause, RecordGivenBack, AfterRelease, WithVisualizer,
        Alive, InLooper, Throw, fields, preview, audio, objects, window
<1>1. CASE SurfaceCallback
  <2>1. ui = "resumed" => camera[view] # "released"
    BY SessionsAssumption DEF Sessions, SessionOrNull
  <2>2. QED
    BY <1>1, <2>1 DEF SurfaceCallback, SurfaceCreated, SurfaceChanged, SurfaceDestroyed,
         ViewStartsPreview, DisplayRefused, ViewStopsPreview, PB!StartPreview, PB!StopPreview
<1>2. ASSUME NEW s \in Sessions, DeliverCapture(s) PROVE CrashInv'
  <2>1. CASE UNCHANGED <<ui, crash>>
    BY <1>2, <2>1 DEF DeliverCapture
  <2>2. CASE Throw("Visualizer.getCaptureSize")
    <3>1. visualizer[s] # "none" /\ s \in 1..session
      BY <1>2, SessionsSoFar DEF DeliverCapture, SessionInv
    <3>2. ui = "resumed" => visualizer[session] = "none" /\ session > 1
      BY <1>2, <2>2, <3>1, SessionsAssumption DEF DeliverCapture, Sessions, SessionOrNull
    <3>3. QED
      BY <1>2, <2>2, <3>2 DEF DeliverCapture
  <2>3. QED
    BY <1>2, <2>1, <2>2 DEF DeliverCapture
<1>3. ASSUME NEW s \in Sessions, PostCapture(s) PROVE CrashInv'
  BY <1>3 DEF PostCapture
<1>4. ASSUME NEW s \in Sessions, Bridge(s) PROVE CrashInv'
  <2>1. CASE BL!StartRecordingThrows(s) /\ crash' = "AudioRecord.startRecording"
    <3>1. record[s] \in {"uninit", "released"} /\ s \in 1..session
      BY <2>1, SessionsSoFar DEF BL!StartRecordingThrows, BL!RecordState, SessionInv
    <3>2. bridge'[s] = "thrown" /\ record' = record /\ UNCHANGED <<ui, session>>
      BY <1>4, <2>1 DEF Bridge, BL!StartRecordingThrows
    <3>3. CrashHasCause'
      BY <2>1, <3>1, <3>2
    <3>4. ReleasedByPause' /\ OwnView' /\ OwnVisualizer' /\ Origins'
      BY <1>4, <2>1 DEF Bridge, BL!StartRecordingThrows
    <3>5. QED
      BY <3>3, <3>4
  <2>2. CASE (BL!StartRecording(s) \/ BL!Exit(s)) /\ UNCHANGED crash
    <3>1. CrashHasCause'
      BY <2>2
    <3>2. \A r \in Sessions : /\ record'[r] = "released" => record[r] = "released"
                              /\ record'[r] = "none" => record[r] = "none"
                              /\ bridge'[r] = "started" => bridge[r] = "started"
      BY <2>2 DEF BL!StartRecording, BL!Exit
    <3>3. UNCHANGED <<ui, session, mAudioVisualizer, camera, visualizer, capture, view>>
      BY <1>4 DEF Bridge
    <3>4. ReleasedByPause' /\ OwnView' /\ OwnVisualizer' /\ Origins'
      BY <3>2, <3>3
    <3>5. QED
      BY <3>1, <3>4
  <2>3. QED
    BY <1>4, <2>1, <2>2 DEF Bridge
<1>5. ASSUME NEW s \in Sessions, FlagBecomesVisible(s) PROVE CrashInv'
  BY <1>5 DEF FlagBecomesVisible, BL!FlagBecomesVisible
<1>6. ASSUME NEW s \in Sessions, NEW w \in Workers, DeliverFrame(s, w) \/ PostFrame(s, w)
      PROVE  CrashInv'
  BY <1>6 DEF DeliverFrame, PostFrame, PB!Deliver, PB!Post
<1>7. ASSUME NEW s \in Sessions, NEW w \in Workers, Worker(s, w) PROVE CrashInv'
  <2>1. CASE PB!Return(s, w) /\ UNCHANGED crash
    BY <1>7, <2>1 DEF Worker, PB!Return
  <2>2. CASE "rows" \in Faults /\ frame[s][w] = "working" /\ UNCHANGED preview
    <3>1. s \in 1..session
      BY <2>2, SessionsSoFar
      DEF SessionInv, PB!BufferInv, PB!NothingBeforeSupply, PB!Busy
    <3>2. QED
      BY <1>7, <2>2, <3>1 DEF Worker
  <2>3. QED
    BY <1>7, <2>1, <2>2 DEF Worker
<1>8. QED
  BY <1>1, <1>2, <1>3, <1>4, <1>5, <1>6, <1>7

\* Every step keeps the invariant: a step that throws has its cause.
LEMMA StepCrashInv ==
  OwnershipInv /\ PB!BufferInv /\ CrashInv /\ [Next]_vars => CrashInv'
<1> SUFFICES ASSUME OwnershipInv, PB!BufferInv, CrashInv, [Next]_vars PROVE CrashInv'
  OBVIOUS
<1>1. CASE UNCHANGED vars
  BY <1>1 DEF vars, fields, preview, audio, objects, window, CrashInv, ReleasedByPause,
       OwnView, OwnVisualizer, Origins, CrashHasCause, RecordGivenBack
<1>2. CASE Next
  BY <1>2, ResumeKeepsCrashInv, PauseKeepsCrashInv, OthersKeepCrashInv DEF Next, Handler
<1>3. QED
  BY <1>1, <1>2

\* In every session, whatever the user, the platform and the threads do, the process
\* dies of a refusal, of what comes to an activity that onPause has emptied, or of a
\* frame that does not fit, and of each only where CrashHasCause says.
THEOREM CrashesAreExplained == Spec => []CrashHasCause
<1>1. CrashInv => CrashHasCause
  BY DEF CrashInv
<1>2. QED
  BY <1>1, InitCrashInv, StepCrashInv, OwnershipAlways, BufferInvAlways, PTL DEF Spec

=============================================================================
