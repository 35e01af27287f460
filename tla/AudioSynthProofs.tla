--------------------------- MODULE AudioSynthProofs ---------------------------
(***************************************************************************)
(* The workers of a synthesiser implement the buffer protocol, so that one *)
(* at a time uses the arrays; from that, the tones that are heard belong   *)
(* to one frame, and frames are heard in their order.                      *)
(***************************************************************************)
EXTENDS AudioSynth, TLAPS

\* The buffer holds the last frame, and each array that the worker has computed
\* so far is computed from it.
ArraysInv ==
  /\ mYUVBuffer = filled
  /\ \A w \in Workers :
       /\ pc[w] \in {"histRed", "histGreen", "histBlue"} => mRGBData = filled
       /\ pc[w] \in {"histGreen", "histBlue", "mean"} => histogram["red"] = filled
       /\ pc[w] \in {"histBlue", "mean"} => histogram["green"] = filled
       /\ pc[w] = "mean" => histogram["blue"] = filled
       /\ pc[w] = "genTones" => mean[w] = [c \in Channels |-> filled]
       /\ pc[w] \in {"playRed", "playGreen", "playBlue"} =>
            generatedSnd = [c \in Channels |-> filled]

\* No tone is of a later frame than the last, and a worker inside playSound has
\* written the tones of that one.
TonesInv ==
  /\ \A c \in Channels : tone[c] <= filled
  /\ \A w \in Workers :
       /\ pc[w] \in InPlaySound /\ track["red"] = "playing" => tone["red"] = filled
       /\ pc[w] = "playBlue" /\ track["green"] = "playing" => tone["green"] = filled
  /\ TonesOfOneFrame

SynthInv == TypeOK /\ ArraysInv /\ TonesInv

\* One worker at a time, in the terms of this module.
OneWorker ==
  /\ \A v, w \in Workers : pc[v] # "free" /\ pc[w] # "free" => v = w
  /\ pool > 0 => \A w \in Workers : pc[w] = "free"

-----------------------------------------------------------------------------
(* Types and the refinement.                                               *)

LEMMA AfterCall ==
  ASSUME NEW name \in Running PROVE After[name] \in (Running \ {"decode"}) \cup {"free"}
  BY DEF Running, After

LEMMA StepTypes == TypeOK /\ [Next]_vars => TypeOK'
<1> SUFFICES ASSUME TypeOK, [Next]_vars PROVE TypeOK'
  OBVIOUS
<1> USE DEF TypeOK, Frames, shared
<1>1. CASE UNCHANGED vars
  BY <1>1 DEF vars
<1>2. CASE Open \/ New \/ ReleaseCamera \/ \E s \in {"idle", "previewing"} : Preview(s)
  BY <1>2 DEF Open, New, ReleaseCamera, Preview
<1>3. ASSUME NEW c \in Channels, ReleaseTrack(c) PROVE TypeOK'
  BY <1>3 DEF ReleaseTrack
<1>4. ASSUME NEW w \in Workers, Post(w) PROVE TypeOK'
  <2>1. filled + 1 \in 0..MaxFrames /\ pool - 1 \in Nat
    BY <1>4, MaxFramesAssumption DEF Post
  <2>2. QED
    BY <1>4, <2>1 DEF Post
<1>5. ASSUME NEW w \in Workers, Deliver(w) PROVE TypeOK'
  BY <1>5 DEF Deliver, Running, After
<1>6. ASSUME NEW w \in Workers, Worker(w) PROVE TypeOK'
  <2>1. ASSUME NEW name \in Running, Call(w, name)
        PROVE  /\ pc' \in [Workers -> Running \cup {"free", "posted"}]
               /\ UNCHANGED <<camera, filled, track, source>>
    BY <2>1, AfterCall DEF Call
  <2>2. CASE Decode(w)
    BY <2>1, <2>2 DEF Decode, Running, After
  <2>3. CASE Mean(w)
    BY <2>1, <2>3 DEF Mean, Running, After
  <2>4. CASE GenTones(w)
    BY <2>1, <2>4 DEF GenTones, Running, After
  <2>5. CASE Return(w)
    BY <2>1, <2>5 DEF Return, Running, After
  <2>6. ASSUME NEW c \in Channels, Histogram(w, c) PROVE TypeOK'
    <3>1. HistogramCall[c] \in Running
      BY DEF HistogramCall, Channels, Running, After
    <3>2. QED
      BY <2>1, <2>6, <3>1 DEF Histogram
  <2>7. ASSUME NEW c \in Channels, Play(w, c) PROVE TypeOK'
    <3>1. PlayCall[c] \in Running
      BY DEF PlayCall, Channels, Running, After
    <3>2. QED
      BY <2>1, <2>7, <3>1 DEF Play
  <2>8. QED
    BY <1>6, <2>2, <2>3, <2>4, <2>5, <2>6, <2>7 DEF Worker
<1>7. QED
  BY <1>1, <1>2, <1>3, <1>4, <1>5, <1>6 DEF Next

LEMMA TypesAlways == Spec => []TypeOK
<1>1. Init => TypeOK
  BY MaxFramesAssumption DEF Init, TypeOK, Frames, Silent, Running, After
<1>2. QED
  BY <1>1, StepTypes, PTL DEF Spec

\* A call of a running worker other than the last one does not show.
LEMMA InnerCall ==
  ASSUME TypeOK, NEW w \in Workers, NEW name \in Running \ {"return"}, Call(w, name),
         UNCHANGED pool
  PROVE  UNCHANGED PB!vars
<1>1. After[name] \in Running
  BY DEF Running, After
<1>2. \A v \in Workers : FrameOf(pc'[v]) = FrameOf(pc[v])
  BY <1>1 DEF Call, TypeOK, FrameOf
<1>3. QED
  BY <1>2 DEF Call, PB!vars

LEMMA StepProtocol == TypeOK /\ [Next]_vars => [PB!Next]_(PB!vars)
<1> SUFFICES ASSUME TypeOK, [Next]_vars PROVE [PB!Next]_(PB!vars)
  OBVIOUS
<1> USE DEF TypeOK
<1>1. CASE UNCHANGED vars
  BY <1>1 DEF vars, PB!vars
<1>2. CASE Open
  <2>1. PB!Open(1)
    BY <1>2 DEF Open, PB!Open
  <2>2. QED
    BY <2>1 DEF PB!Next
<1>3. CASE New
  <2>1. PB!Supply(1)
    BY <1>3 DEF New, PB!Supply
  <2>2. QED
    BY <2>1 DEF PB!Next
<1>4. CASE ReleaseCamera
  <2>1. PB!Release(1)
    BY <1>4 DEF ReleaseCamera, PB!Release, PB!Held, PB!Supplied
  <2>2. QED
    BY <2>1 DEF PB!Next
<1>5. ASSUME NEW state \in {"idle", "previewing"}, Preview(state)
      PROVE  [PB!Next]_(PB!vars)
  <2>1. PB!StopPreview(1) \/ PB!StartPreview(1)
    BY <1>5 DEF Preview, PB!StopPreview, PB!StartPreview, PB!Supplied
  <2>2. QED
    BY <2>1 DEF PB!Next
<1>6. ASSUME NEW c \in Channels, ReleaseTrack(c) PROVE UNCHANGED PB!vars
  BY <1>6 DEF ReleaseTrack, PB!vars
<1>7. ASSUME NEW w \in Workers, Post(w) PROVE [PB!Next]_(PB!vars)
  <2>1. PB!Post(1, w)
    BY <1>7 DEF Post, PB!Post, FrameOf, Running, After
  <2>2. QED
    BY <2>1 DEF PB!Next
<1>8. ASSUME NEW w \in Workers, Deliver(w) PROVE [PB!Next]_(PB!vars)
  <2>1. PB!Deliver(1, w)
    BY <1>8 DEF Deliver, PB!Deliver, FrameOf, Running, After
  <2>2. QED
    BY <2>1 DEF PB!Next
<1>9. ASSUME NEW w \in Workers, Worker(w) PROVE [PB!Next]_(PB!vars)
  <2>1. CASE Return(w)
    <3>1. PB!Return(1, w)
      BY <2>1 DEF Return, Call, PB!Return, FrameOf, Running, After
    <3>2. QED
      BY <3>1 DEF PB!Next
  <2>2. CASE Decode(w) \/ Mean(w) \/ GenTones(w)
    BY <2>2, InnerCall DEF Decode, Mean, GenTones, Running, After
  <2>3. ASSUME NEW c \in Channels, Histogram(w, c) \/ Play(w, c) PROVE UNCHANGED PB!vars
    <3>1. HistogramCall[c] \in Running \ {"return"} /\ PlayCall[c] \in Running \ {"return"}
      BY DEF HistogramCall, PlayCall, Channels, Running, After
    <3>2. QED
      BY <2>3, <3>1, InnerCall DEF Histogram, Play
  <2>4. QED
    BY <1>9, <2>1, <2>2, <2>3 DEF Worker
<1>10. QED
  BY <1>1, <1>2, <1>3, <1>4, <1>5, <1>6, <1>7, <1>8, <1>9 DEF Next

\* The workers, call by call, use the camera's buffer as the protocol says.
THEOREM SynthImplementsBuffers == Spec => PreviewBuffersImplemented
<1>1. Init => PB!Init
  BY DEF Init, PB!Init, FrameOf, Running, After
<1>2. QED
  BY <1>1, TypesAlways, StepProtocol, PTL DEF Spec, PB!Spec, PreviewBuffersImplemented

-----------------------------------------------------------------------------
(* The arrays and the tones.                                               *)

\* The state before the first onResume: no camera, no buffer, no frame.
LEMMA InitBuffers == PB!Init => PB!BufferInv
  BY DEF PB!Init, PB!BufferInv, PB!TypeOK, PB!CameraState, PB!FrameState, PB!Supplied, PB!Busy,
         PB!NothingBeforeSupply, PB!OneFrameInFlight, PB!BufferNotDuplicated, PB!BufferNotLost

\* Every operation of the camera, the UI thread and the workers keeps the buffer
\* in one place.
LEMMA StepBuffers == PB!BufferInv /\ [PB!Next]_(PB!vars) => PB!BufferInv'
<1> SUFFICES ASSUME PB!BufferInv, [PB!Next]_(PB!vars) PROVE PB!BufferInv'
  OBVIOUS
<1> USE DEF PB!BufferInv, PB!TypeOK, PB!CameraState, PB!FrameState, PB!Supplied, PB!Held, PB!Busy,
            PB!NothingBeforeSupply, PB!OneFrameInFlight, PB!BufferNotDuplicated, PB!BufferNotLost
<1>1. CASE UNCHANGED PB!vars
  BY <1>1 DEF PB!vars
<1>2. ASSUME NEW s \in {1}, PB!Open(s) PROVE PB!BufferInv'
  BY <1>2 DEF PB!Open
<1>3. ASSUME NEW s \in {1}, PB!Supply(s) PROVE PB!BufferInv'
  BY <1>3 DEF PB!Supply
<1>4. ASSUME NEW s \in {1}, PB!StartPreview(s) PROVE PB!BufferInv'
  BY <1>4 DEF PB!StartPreview
<1>5. ASSUME NEW s \in {1}, PB!StopPreview(s) PROVE PB!BufferInv'
  BY <1>5 DEF PB!StopPreview
<1>6. ASSUME NEW s \in {1}, PB!Release(s) PROVE PB!BufferInv'
  BY <1>6 DEF PB!Release
<1>7. ASSUME NEW s \in {1}, NEW w \in Workers, PB!Post(s, w) PROVE PB!BufferInv'
  <2> DEFINE frame == [v \in Workers |-> FrameOf(pc[v])]
  <2>1. frame' = [frame EXCEPT ![w] = "posted"]
    BY <1>7 DEF PB!Post
  <2>2. \A v \in Workers : frame[v] = FrameOf(pc[v]) /\ frame'[v] = FrameOf(pc'[v])
    OBVIOUS
  <2>3. \A v \in Workers : FrameOf(pc'[v]) = IF v = w THEN "posted" ELSE FrameOf(pc[v])
    BY <2>1, <2>2
  <2> HIDE DEF frame
  <2>4. QED
    BY <1>7, <2>3 DEF PB!Post
<1>8. ASSUME NEW s \in {1}, NEW w \in Workers, PB!Deliver(s, w) PROVE PB!BufferInv'
  <2> DEFINE frame == [v \in Workers |-> FrameOf(pc[v])]
  <2>1. frame' = [frame EXCEPT ![w] = "working"]
    BY <1>8 DEF PB!Deliver
  <2>2. \A v \in Workers : frame[v] = FrameOf(pc[v]) /\ frame'[v] = FrameOf(pc'[v])
    OBVIOUS
  <2>3. \A v \in Workers : FrameOf(pc'[v]) = IF v = w THEN "working" ELSE FrameOf(pc[v])
    BY <2>1, <2>2
  <2> HIDE DEF frame
  <2>4. QED
    BY <1>8, <2>3 DEF PB!Deliver
<1>9. ASSUME NEW s \in {1}, NEW w \in Workers, PB!Return(s, w) PROVE PB!BufferInv'
  <2> DEFINE frame == [v \in Workers |-> FrameOf(pc[v])]
  <2>1. frame' = [frame EXCEPT ![w] = "free"]
    BY <1>9 DEF PB!Return
  <2>2. \A v \in Workers : frame[v] = FrameOf(pc[v]) /\ frame'[v] = FrameOf(pc'[v])
    OBVIOUS
  <2>3. \A v \in Workers : FrameOf(pc'[v]) = IF v = w THEN "free" ELSE FrameOf(pc[v])
    BY <2>1, <2>2
  <2> HIDE DEF frame
  <2>4. QED
    BY <1>9, <2>3 DEF PB!Return
<1>10. QED
  BY <1>1, <1>2, <1>3, <1>4, <1>5, <1>6, <1>7, <1>8, <1>9 DEF PB!Next

\* The protocol keeps two workers of the synthesiser apart.
LEMMA OneWorkerAlways == Spec => [](TypeOK /\ OneWorker)
<1>1. ASSUME TypeOK, PB!BufferInv PROVE OneWorker
  <2>1. \A w \in Workers : PB!Busy(1, w) <=> pc[w] # "free"
    BY <1>1 DEF PB!Busy, FrameOf, TypeOK, Running, After
  <2>2. \A v, w \in Workers : PB!Busy(1, v) /\ PB!Busy(1, w) => v = w
    BY <1>1 DEF PB!BufferInv, PB!OneFrameInFlight
  <2>3. (\E w \in Workers : PB!Busy(1, w)) => pool = 0
    BY <1>1 DEF PB!BufferInv, PB!BufferNotDuplicated
  <2>4. QED
    BY <2>1, <2>2, <2>3 DEF OneWorker
<1>2. Init => PB!Init
  BY DEF Init, PB!Init, FrameOf, Running, After
<1>3. QED
  BY <1>1, <1>2, InitBuffers, StepBuffers, TypesAlways, StepProtocol, PTL DEF Spec

\* While worker w runs, the conditions on workers are on it alone.
LEMMA OnlyThisWorker ==
  ASSUME TypeOK, OneWorker, NEW w \in Workers, NEW name \in Running, Call(w, name)
  PROVE  /\ pc[w] = name /\ pc'[w] = After[name]
         /\ \A v \in Workers : v # w => pc[v] = "free" /\ pc'[v] = "free"
         /\ UNCHANGED <<camera, filled, track, source>>
  BY DEF TypeOK, OneWorker, Call, Running, After

LEMMA StepArrays ==
  ASSUME TypeOK, OneWorker, ArraysInv, [Next]_vars PROVE ArraysInv'
<1> USE DEF ArraysInv, shared
<1>1. CASE UNCHANGED vars
  BY <1>1 DEF vars
<1>2. CASE Open \/ New \/ ReleaseCamera \/ \E s \in {"idle", "previewing"} : Preview(s)
  BY <1>2 DEF Open, New, ReleaseCamera, Preview
<1>3. ASSUME NEW c \in Channels, ReleaseTrack(c) PROVE ArraysInv'
  BY <1>3 DEF ReleaseTrack
<1>4. ASSUME NEW w \in Workers, Post(w) PROVE ArraysInv'
  BY <1>4 DEF Post, OneWorker, TypeOK
<1>5. ASSUME NEW w \in Workers, Deliver(w) PROVE ArraysInv'
  BY <1>5 DEF Deliver, OneWorker, TypeOK
<1>6. ASSUME NEW w \in Workers, Decode(w) PROVE ArraysInv'
  BY <1>6, OnlyThisWorker DEF Decode, Running, After
<1>7. ASSUME NEW w \in Workers, NEW c \in Channels, Histogram(w, c) PROVE ArraysInv'
  <2> USE DEF HistogramCall, Running, After, TypeOK
  <2>1. CASE c = "red"
    BY <1>7, <2>1, OnlyThisWorker DEF Histogram
  <2>2. CASE c = "green"
    BY <1>7, <2>2, OnlyThisWorker DEF Histogram
  <2>3. CASE c = "blue"
    BY <1>7, <2>3, OnlyThisWorker DEF Histogram
  <2>4. QED
    BY <2>1, <2>2, <2>3 DEF Channels
<1>8. ASSUME NEW w \in Workers, Mean(w) PROVE ArraysInv'
  <2>1. pc[w] = "mean" /\ histogram = [c \in Channels |-> filled]
    BY <1>8, OnlyThisWorker DEF Mean, Running, After, Channels, TypeOK
  <2>2. mean'[w] = [c \in Channels |-> filled]
    BY <1>8, <2>1 DEF Mean, TypeOK
  <2>3. QED
    BY <1>8, <2>2, OnlyThisWorker DEF Mean, Running, After
<1>9. ASSUME NEW w \in Workers, GenTones(w) PROVE ArraysInv'
  BY <1>9, OnlyThisWorker DEF GenTones, Running, After
<1>10. ASSUME NEW w \in Workers, NEW c \in Channels, Play(w, c) PROVE ArraysInv'
  <2> USE DEF PlayCall, Running, After
  <2>1. PlayCall[c] \in {"playRed", "playGreen", "playBlue"}
    BY DEF Channels
  <2>2. QED
    BY <1>10, <2>1, OnlyThisWorker DEF Play
<1>11. ASSUME NEW w \in Workers, Return(w) PROVE ArraysInv'
  BY <1>11, OnlyThisWorker DEF Return, Running, After
<1>12. QED
  BY <1>1, <1>2, <1>3, <1>4, <1>5, <1>6, <1>7, <1>8, <1>9, <1>10, <1>11
     DEF Next, Worker

\* A step that plays nothing, enters or leaves no playSound and opens no track.
LEMMA SilentStep ==
  ASSUME TypeOK, TonesInv, UNCHANGED tone, filled' \in {filled, filled + 1},
         \A c \in Channels : track'[c] = "playing" => track[c] = "playing",
         filled' = filled \/ \A w \in Workers : pc'[w] \notin InPlaySound,
         \A w \in Workers : (pc'[w] \in InPlaySound \/ pc[w] \in InPlaySound)
                             => pc'[w] = pc[w]
  PROVE  TonesInv'
<1>1. \A c \in Channels : tone'[c] <= filled'
  BY DEF TonesInv, TypeOK, Frames
<1>2. "red" \in Channels /\ "green" \in Channels
  BY DEF Channels
<1>3. ASSUME NEW w \in Workers
      PROVE  /\ pc'[w] \in InPlaySound /\ track'["red"] = "playing" => tone'["red"] = filled'
             /\ pc'[w] = "playBlue" /\ track'["green"] = "playing"
                  => tone'["green"] = filled'
  <2>1. "playBlue" \in InPlaySound
    BY DEF InPlaySound
  <2>2. CASE pc'[w] \in InPlaySound
    BY <1>2, <2>2 DEF TonesInv
  <2>3. QED
    BY <2>1, <2>2
<1>4. TonesOfOneFrame'
  BY DEF TonesInv, TonesOfOneFrame, MonitorFree
<1>5. QED
  BY <1>1, <1>3, <1>4 DEF TonesInv

\* What is written to a track is the tone of the last frame.
LEMMA PlaysTheLast ==
  ASSUME TypeOK, OneWorker, ArraysInv, NEW w \in Workers, NEW c \in Channels, Play(w, c)
  PROVE  /\ \A d \in Channels : tone'[d] =
              IF d = c /\ track[c] = "playing" THEN filled ELSE tone[d]
         /\ pc[w] = PlayCall[c] /\ pc'[w] = After[PlayCall[c]]
         /\ \A v \in Workers : v # w => pc[v] = "free" /\ pc'[v] = "free"
         /\ UNCHANGED <<filled, track>>
<1>1. PlayCall[c] \in {"playRed", "playGreen", "playBlue"} /\ PlayCall[c] \in Running
  BY DEF PlayCall, Channels, Running, After
<1>2. generatedSnd[c] = filled
  BY <1>1 DEF Play, Call, ArraysInv
<1>3. QED
  BY <1>1, <1>2, OnlyThisWorker DEF Play, TypeOK

LEMMA StepTones ==
  ASSUME TypeOK, OneWorker, ArraysInv, TonesInv, [Next]_vars PROVE TonesInv'
<1>1. CASE UNCHANGED vars
  BY <1>1, SilentStep DEF vars
<1>2. CASE Open \/ New \/ ReleaseCamera \/ \E s \in {"idle", "previewing"} : Preview(s)
  BY <1>2, SilentStep DEF Open, New, ReleaseCamera, Preview
<1>3. ASSUME NEW c \in Channels, ReleaseTrack(c) PROVE TonesInv'
  <2>1. \A d \in Channels : track'[d] = "playing" => track[d] = "playing"
    BY <1>3 DEF ReleaseTrack, TypeOK
  <2>2. QED
    BY <1>3, <2>1, SilentStep DEF ReleaseTrack
<1>4. ASSUME NEW w \in Workers, Post(w) PROVE TonesInv'
  <2>1. \A v \in Workers : pc[v] = "free" /\ pc'[v] \in {"free", "posted"}
    BY <1>4 DEF Post, OneWorker, TypeOK
  <2>2. UNCHANGED <<tone, track>> /\ filled' = filled + 1
    BY <1>4 DEF Post
  <2>3. QED
    BY <2>1, <2>2, SilentStep DEF InPlaySound
<1>5. ASSUME NEW w \in Workers, Deliver(w) PROVE TonesInv'
  <2>1. \A v \in Workers : pc'[v] = IF v = w THEN "decode" ELSE pc[v]
    BY <1>5 DEF Deliver, TypeOK
  <2>2. QED
    BY <1>5, <2>1, SilentStep DEF Deliver, InPlaySound
<1>6. ASSUME NEW w \in Workers, NEW name \in Running, Call(w, name), UNCHANGED tone,
             name \notin InPlaySound, After[name] \notin InPlaySound
      PROVE  TonesInv'
  <2>1. \A v \in Workers : pc'[v] = IF v = w THEN After[name] ELSE pc[v]
    BY <1>6 DEF Call, TypeOK
  <2>2. UNCHANGED <<filled, track>> /\ pc[w] = name
    BY <1>6 DEF Call
  <2>3. QED
    BY <1>6, <2>1, <2>2, SilentStep
<1>7. ASSUME NEW w \in Workers, Decode(w) \/ Mean(w) \/ GenTones(w) \/ Return(w)
      PROVE  TonesInv'
  <2> USE DEF Running, After, InPlaySound
  <2>1. CASE Decode(w)
    BY <2>1, <1>6 DEF Decode
  <2>2. CASE Mean(w)
    BY <2>2, <1>6 DEF Mean
  <2>3. CASE GenTones(w)
    BY <2>3, <1>6 DEF GenTones, shared
  <2>4. CASE Return(w)
    BY <2>4, <1>6 DEF Return
  <2>5. QED
    BY <1>7, <2>1, <2>2, <2>3, <2>4
<1>8. ASSUME NEW w \in Workers, NEW c \in Channels, Histogram(w, c) PROVE TonesInv'
  <2>1. HistogramCall[c] \in Running
        /\ HistogramCall[c] \notin InPlaySound /\ After[HistogramCall[c]] \notin InPlaySound
    BY DEF HistogramCall, Channels, Running, After, InPlaySound
  <2>2. QED
    BY <1>6, <1>8, <2>1 DEF Histogram
<1>9. ASSUME NEW w \in Workers, NEW c \in Channels, Play(w, c) PROVE TonesInv'
  <2> USE DEF PlayCall, After, InPlaySound
  <2>1. \A d \in Channels : tone'[d] <= filled'
    BY <1>9, PlaysTheLast DEF TonesInv, TypeOK, Frames
  <2>2. CASE c = "red"
    BY <1>9, <2>1, <2>2, PlaysTheLast DEF TonesInv, TonesOfOneFrame, MonitorFree, Channels
  <2>3. CASE c = "green"
    BY <1>9, <2>1, <2>3, PlaysTheLast DEF TonesInv, TonesOfOneFrame, MonitorFree, Channels
  <2>4. CASE c = "blue"
    BY <1>9, <2>1, <2>4, PlaysTheLast DEF TonesInv, TonesOfOneFrame, MonitorFree, Channels
  <2>5. QED
    BY <2>2, <2>3, <2>4 DEF Channels
<1>10. QED
  BY <1>1, <1>2, <1>3, <1>4, <1>5, <1>7, <1>8, <1>9 DEF Next, Worker

LEMMA SynthAlways == Spec => [](OneWorker /\ SynthInv)
<1>1. Init => ArraysInv /\ TonesInv
  BY DEF Init, ArraysInv, TonesInv, TonesOfOneFrame, InPlaySound, Silent, Channels
<1>2. QED
  BY <1>1, OneWorkerAlways, StepArrays, StepTones, PTL DEF Spec, SynthInv

\* For any number of workers and frames: when no worker is inside playSound, the
\* three tracks sound the same frame, until onPause releases the first of them.
THEOREM TonesBelongTogether == Spec => []TonesOfOneFrame
<1>1. SynthInv => TonesOfOneFrame
  BY DEF SynthInv, TonesInv
<1>2. QED
  BY <1>1, SynthAlways, PTL

\* No track ever goes back to the tone of an earlier frame, although nothing but
\* the buffer keeps the threads of two frames in their order.
THEOREM FramesHeardInOrder == Spec => FramesInOrder
<1> DEFINE Later == \A c \in Channels : tone'[c] >= tone[c]
<1>1. ASSUME TypeOK, OneWorker, ArraysInv, TonesInv, Next PROVE Later
  <2>1. CASE tone' = tone
    BY <1>1, <2>1 DEF TypeOK, Frames
  <2>2. CASE \E w \in Workers, c \in Channels : Play(w, c)
    BY <1>1, <2>2, PlaysTheLast DEF TonesInv, TypeOK, Frames
  <2>3. tone' = tone \/ \E w \in Workers, c \in Channels : Play(w, c)
    <3>1. ASSUME NEW w \in Workers, Worker(w),
                 ~\E c \in Channels : Play(w, c)
          PROVE  tone' = tone
      BY <3>1 DEF Worker, Decode, Mean, GenTones, Return, Histogram
    <3>2. QED
      BY <1>1, <3>1 DEF Next, Open, New, ReleaseCamera, Preview, ReleaseTrack, Post, Deliver
  <2>4. QED
    BY <2>1, <2>2, <2>3
<1>2. OneWorker /\ SynthInv /\ [Next]_vars => [Later]_vars
  BY <1>1 DEF SynthInv
<1>3. QED
  BY <1>2, SynthAlways, PTL DEF Spec, FramesInOrder

=============================================================================
