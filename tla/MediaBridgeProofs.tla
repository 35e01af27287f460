--------------------------- MODULE MediaBridgeProofs ---------------------------
(***************************************************************************)
(* The bridge keeps the order of the sound, loses none of it, plays        *)
(* silence only between the two releases, and lives as BridgeLife says.    *)
(***************************************************************************)
EXTENDS MediaBridge, SequenceTheorems, TLAPS

\* Where the thread can be for each state of the objects of the UI thread.
LifeInv ==
  /\ record = "none" <=> track = "none"
  /\ record = "released" => pc # "none"
  /\ track = "released" => record = "released"
  /\ keepRunning # "set" => track = "released"
  /\ pc # "none" => record # "none"
  /\ pc \in {"test", "read", "write"} => record \in {"recording", "released"}

\* Nothing is recorded or played before the loop, a pass starts with a new
\* array, and the first half is only silence once the microphone is released.
ArrayInv ==
  /\ pc \in {"none", "started", "thrown"} => recorded = 0 /\ played = <<>>
  /\ pc = "read" /\ half = 0 => samples = silence
  /\ pc = "write" /\ half = 0 /\ samples = silence => record = "released"

\* Played chunks increase, and the one about to be written is the last recorded
\* and greater than any of them.
OrderInv ==
  /\ InOrderOnce
  /\ pc = "write" /\ half = 0 /\ samples # silence =>
       /\ samples = recorded
       /\ \A i \in 1..Len(played) : played[i] < samples

BridgeInv ==
  /\ TypeOK /\ LifeInv /\ ArrayInv /\ OrderInv
  /\ SilenceOnlyAfterRelease /\ NothingLost

\* The first half of a pass fits into the array and the second does not.
LEMMA OnlyFirstHalfFits ==
  ASSUME NEW h \in 0..1
  PROVE  Fits(h * ChunkSize, ChunkSize, ChunkSize) <=> h = 0
<1>1. ChunkSize \in Nat /\ ChunkSize >= 1
  BY BufferSizeAssumption DEF ChunkSize
<1>2. h = 0 \/ h = 1
  OBVIOUS
<1>3. CASE h = 0
  BY <1>1, <1>3 DEF Fits
<1>4. CASE h = 1
  BY <1>1, <1>4 DEF Fits
<1>5. QED
  BY <1>2, <1>3, <1>4

\* What the track has played after one more chunk.
LEMMA OneMorePlayed ==
  ASSUME NEW T, NEW s \in Seq(T), NEW c \in T
  PROVE  /\ Append(s, c) \in Seq(T) /\ Len(Append(s, c)) = Len(s) + 1
         /\ \A i \in 1..Len(s) : Append(s, c)[i] = s[i]
         /\ Append(s, c)[Len(s) + 1] = c
  OBVIOUS

LEMMA InitBridge == Init => BridgeInv
  BY MaxChunksAssumption
     DEF Init, BridgeInv, TypeOK, LifeInv, ArrayInv, OrderInv, Statements,
         InOrderOnce, SilenceOnlyAfterRelease, NothingLost, silence

\* The steps of the UI thread record and play nothing.
LEMMA UiKeepsInv ==
  ASSUME BridgeInv, NewAudio \/ Start \/ ReleaseRecord \/ ReleaseTrack
                    \/ StopRunning \/ FlagBecomesVisible
  PROVE  BridgeInv'
<1> USE DEF BridgeInv
<1>1. UNCHANGED <<half, samples, recorded, played>>
  BY DEF NewAudio, Start, ReleaseRecord, ReleaseTrack, StopRunning, FlagBecomesVisible
<1>2. TypeOK'
  BY <1>1 DEF TypeOK, Statements, NewAudio, Start, ReleaseRecord, ReleaseTrack,
              StopRunning, FlagBecomesVisible
<1>3. LifeInv'
  BY DEF LifeInv, TypeOK, NewAudio, Start, ReleaseRecord, ReleaseTrack, StopRunning,
         FlagBecomesVisible
<1>4. pc' = pc \/ (pc = "none" /\ pc' = "started")
  BY DEF NewAudio, Start, ReleaseRecord, ReleaseTrack, StopRunning, FlagBecomesVisible
<1>5. record = "released" => record' = "released"
  BY DEF NewAudio, Start, ReleaseRecord, ReleaseTrack, StopRunning, FlagBecomesVisible
<1>6. track' = "playing" => track = "playing" \/ record = "none"
  BY DEF NewAudio, Start, ReleaseRecord, ReleaseTrack, StopRunning, FlagBecomesVisible
<1>7. ArrayInv'
  BY <1>1, <1>4, <1>5 DEF ArrayInv
<1>8. OrderInv' /\ SilenceOnlyAfterRelease'
  BY <1>1, <1>4, <1>5 DEF OrderInv, InOrderOnce, SilenceOnlyAfterRelease
<1>9. NothingLost'
  <2>1. record = "none" => recorded = 0
    BY DEF LifeInv, ArrayInv
  <2>2. QED
    BY <1>1, <1>4, <1>6, <2>1 DEF NothingLost
<1>10. QED
  BY <1>2, <1>3, <1>7, <1>8, <1>9

\* The thread starts the microphone, enters a pass or leaves the loop.
LEMMA LoopKeepsInv ==
  ASSUME BridgeInv, StartRecording \/ Enter \/ Exit PROVE BridgeInv'
<1> USE DEF BridgeInv
<1>1. UNCHANGED <<track, keepRunning, recorded, played>>
  BY DEF StartRecording, Enter, Exit
<1>2. TypeOK'
  BY DEF TypeOK, Statements, StartRecording, Enter, Exit, silence
<1>3. LifeInv'
  BY DEF LifeInv, TypeOK, StartRecording, Enter, Exit
<1>4. pc' # "write" /\ (record = "released" => record' = "released")
  BY DEF StartRecording, Enter, Exit
<1>5. ArrayInv'
  BY <1>1, <1>4 DEF ArrayInv, StartRecording, Enter, Exit
<1>6. OrderInv' /\ SilenceOnlyAfterRelease'
  BY <1>1, <1>4 DEF OrderInv, InOrderOnce, SilenceOnlyAfterRelease
<1>7. NothingLost'
  BY <1>1 DEF NothingLost, StartRecording, Enter, Exit
<1>8. QED
  BY <1>2, <1>3, <1>5, <1>6, <1>7

\* A read that fits and finds the microphone open records the next chunk.
LEMMA ReadKeepsInv == ASSUME BridgeInv, Read PROVE BridgeInv'
<1> USE DEF BridgeInv
<1>1. pc = "read" /\ pc' = "write" /\ UNCHANGED <<record, keepRunning, track, half, played>>
  BY DEF Read
<1>2. LifeInv'
  BY <1>1 DEF LifeInv
<1>3. CASE half = 0 /\ record = "recording"
  <2>1. recorded < MaxChunks /\ recorded' = recorded + 1 /\ samples' = recorded'
    BY <1>3, OnlyFirstHalfFits DEF Read, TypeOK
  <2>2. recorded \in Nat /\ recorded' \in 0..MaxChunks /\ samples' \in 0..recorded'
    BY <2>1, MaxChunksAssumption DEF TypeOK
  <2>3. played \in Seq(0..recorded')
    <3>1. 0..recorded \subseteq 0..recorded'
      BY <2>1, <2>2
    <3>2. QED
      BY <3>1, SeqMonotonic DEF TypeOK
  <2>4. TypeOK'
    BY <1>1, <2>2, <2>3 DEF TypeOK, Statements
  <2>5. ArrayInv'
    BY <1>1, <2>1, <2>2 DEF ArrayInv, silence
  <2>6. OrderInv'
    <3>1. \A i \in 1..Len(played) : played[i] < samples'
      BY <2>1, <2>2 DEF TypeOK
    <3>2. QED
      BY <1>1, <2>1, <3>1 DEF OrderInv, InOrderOnce
  <2>7. SilenceOnlyAfterRelease'
    BY <1>1 DEF SilenceOnlyAfterRelease
  <2>8. NothingLost'
    BY <1>1, <1>3, <2>1, <2>2 DEF NothingLost
  <2>9. QED
    BY <1>2, <2>4, <2>5, <2>6, <2>7, <2>8
<1>4. CASE ~(half = 0 /\ record = "recording")
  <2>1. UNCHANGED <<recorded, samples>>
    BY <1>4, OnlyFirstHalfFits DEF Read, TypeOK
  <2>2. TypeOK'
    BY <1>1, <2>1 DEF TypeOK, Statements
  <2>3. half = 0 => samples = silence /\ record = "released"
    BY <1>1, <1>4 DEF ArrayInv, LifeInv, TypeOK
  <2>4. ArrayInv' /\ OrderInv'
    BY <1>1, <2>1, <2>3 DEF ArrayInv, OrderInv, InOrderOnce
  <2>5. SilenceOnlyAfterRelease' /\ NothingLost'
    BY <1>1, <2>1 DEF SilenceOnlyAfterRelease, NothingLost
  <2>6. QED
    BY <1>2, <2>2, <2>4, <2>5
<1>5. QED
  BY <1>3, <1>4

\* A write that fits and finds the track playing adds the array to what is heard.
LEMMA WriteKeepsInv == ASSUME BridgeInv, Write PROVE BridgeInv'
<1> USE DEF BridgeInv
<1>1. pc = "write" /\ UNCHANGED <<record, keepRunning, track, samples, recorded>>
  BY DEF Write
<1>2. (half = 0 /\ half' = 1 /\ pc' = "read") \/ (half = 1 /\ half' = 0 /\ pc' = "test")
  BY DEF Write, TypeOK
<1>3. LifeInv' /\ ArrayInv'
  BY <1>1, <1>2 DEF LifeInv, ArrayInv
<1>4. CASE half = 0 /\ track = "playing"
  <2>1. played' = Append(played, samples)
    BY <1>4, OnlyFirstHalfFits DEF Write, TypeOK
  <2> DEFINE n == Len(played)
  <2>2. n \in Nat /\ played' \in Seq(0..recorded) /\ Len(played') = n + 1
    BY <2>1 DEF TypeOK
  <2>3. /\ \A i \in 1..n : played'[i] = played[i]
        /\ played'[n + 1] = samples
    BY <2>1 DEF TypeOK
  <2> HIDE DEF n
  <2>4. TypeOK'
    BY <1>1, <1>2, <2>2 DEF TypeOK, Statements
  <2>5. InOrderOnce'
    <3>1. SUFFICES ASSUME NEW i \in 1..(n + 1), NEW j \in 1..(n + 1), i < j,
                          played'[i] # silence, played'[j] # silence
                   PROVE  played'[i] < played'[j]
      BY <2>2 DEF InOrderOnce
    <3>2. i \in 1..n
      BY <2>2, <3>1
    <3>3. CASE j \in 1..n
      BY <2>3, <3>1, <3>2, <3>3 DEF OrderInv, InOrderOnce, n
    <3>4. CASE j = n + 1
      BY <1>1, <1>4, <2>3, <3>1, <3>2, <3>4 DEF OrderInv, n
    <3>5. QED
      BY <2>2, <3>3, <3>4
  <2>6. OrderInv'
    BY <1>2, <2>5 DEF OrderInv
  <2>7. SilenceOnlyAfterRelease'
    <3>1. SUFFICES ASSUME NEW i \in 1..(n + 1), played'[i] = silence
                   PROVE  record = "released"
      BY <1>1, <2>2 DEF SilenceOnlyAfterRelease
    <3>2. CASE i \in 1..n
      BY <2>3, <3>1, <3>2 DEF SilenceOnlyAfterRelease, n
    <3>3. CASE i = n + 1
      BY <1>1, <1>4, <2>3, <3>1, <3>3 DEF ArrayInv
    <3>4. QED
      BY <2>2, <3>2, <3>3
  <2>8. NothingLost'
    <3>1. SUFFICES ASSUME NEW c \in 1..recorded
                   PROVE  \E i \in 1..(n + 1) : played'[i] = c
      BY <1>1, <2>2 DEF NothingLost
    <3>2. CASE samples = c
      BY <2>2, <2>3, <3>2
    <3>3. CASE \E i \in 1..n : played[i] = c
      BY <2>2, <2>3, <3>3
    <3>4. QED
      BY <1>4, <3>2, <3>3 DEF NothingLost, n
  <2>9. QED
    BY <1>3, <2>4, <2>6, <2>7, <2>8
<1>5. CASE ~(half = 0 /\ track = "playing")
  <2>1. played' = played
    BY <1>5, OnlyFirstHalfFits DEF Write, TypeOK
  <2>2. TypeOK'
    BY <1>1, <1>2, <2>1 DEF TypeOK, Statements
  <2>3. OrderInv' /\ SilenceOnlyAfterRelease'
    BY <1>1, <1>2, <2>1 DEF OrderInv, InOrderOnce, SilenceOnlyAfterRelease
  <2>4. NothingLost'
    BY <1>1, <1>2, <1>5, <2>1 DEF NothingLost
  <2>5. QED
    BY <1>3, <2>2, <2>3, <2>4
<1>6. QED
  BY <1>4, <1>5

LEMMA StepBridge == BridgeInv /\ [Next]_vars => BridgeInv'
<1> SUFFICES ASSUME BridgeInv, [Next]_vars PROVE BridgeInv'
  OBVIOUS
<1>1. CASE UNCHANGED vars
  BY <1>1 DEF vars, BridgeInv, TypeOK, LifeInv, ArrayInv, OrderInv, InOrderOnce,
              SilenceOnlyAfterRelease, NothingLost, Statements
<1>2. CASE Thread
  BY <1>2, LoopKeepsInv, ReadKeepsInv, WriteKeepsInv DEF Thread
<1>3. CASE ~Thread /\ Next
  BY <1>3, UiKeepsInv DEF Next
<1>4. QED
  BY <1>1, <1>2, <1>3

LEMMA BridgeAlways == Spec => []BridgeInv
  BY InitBridge, StepBridge, PTL DEF Spec

\* For any size of the buffer, however long it runs and whenever onPause releases
\* the record and the track, the listener hears the recorded chunks in their
\* order and none twice.
THEOREM HeardInOrder == Spec => []InOrderOnce
<1>1. BridgeInv => InOrderOnce
  BY DEF BridgeInv, OrderInv
<1>2. QED
  BY <1>1, BridgeAlways, PTL

\* Until the track is released every recorded chunk is in it, or about to be
\* written to it.
THEOREM NoChunkIsLost == Spec => []NothingLost
<1>1. BridgeInv => NothingLost
  BY DEF BridgeInv
<1>2. QED
  BY <1>1, BridgeAlways, PTL

\* The second half of a pass, outside the array, is never heard: silence is played
\* only between the release of the microphone and that of the track.
THEOREM SilentOnlyInBetween == Spec => []SilenceOnlyAfterRelease
<1>1. BridgeInv => SilenceOnlyAfterRelease
  BY DEF BridgeInv
<1>2. QED
  BY <1>1, BridgeAlways, PTL

-----------------------------------------------------------------------------
(* The refinement.                                                         *)

LEMMA StepLife == BridgeInv /\ [Next]_vars => [BL!Next]_(BL!vars)
<1> SUFFICES ASSUME BridgeInv, [Next]_vars PROVE [BL!Next]_(BL!vars)
  OBVIOUS
<1> USE DEF BridgeInv, LifeInv, BridgeOf
<1>1. CASE UNCHANGED vars
  BY <1>1 DEF vars, BL!vars
<1>2. CASE NewAudio
  <2>1. BL!CreateRecord(1, record')
    BY <1>2 DEF NewAudio, BL!CreateRecord
  <2>2. record' \in {"ready", "uninit"}
    BY <1>2 DEF NewAudio
  <2>3. QED
    BY <2>1, <2>2 DEF BL!Next
<1>3. CASE Start
  <2>1. BL!StartThread(1)
    BY <1>3 DEF Start, BL!StartThread
  <2>2. QED
    BY <2>1 DEF BL!Next
<1>4. CASE ReleaseRecord
  <2>1. BL!ReleaseRecord(1)
    BY <1>4 DEF ReleaseRecord, BL!ReleaseRecord, BL!RecordHeld
  <2>2. QED
    BY <2>1 DEF BL!Next
<1>5. CASE ReleaseTrack
  BY <1>5 DEF ReleaseTrack, BL!vars
<1>6. CASE StopRunning
  <2>1. BL!StopRunning(1)
    BY <1>6 DEF StopRunning, BL!StopRunning
  <2>2. QED
    BY <2>1 DEF BL!Next
<1>7. CASE FlagBecomesVisible
  <2>1. BL!FlagBecomesVisible(1)
    BY <1>7 DEF FlagBecomesVisible, BL!FlagBecomesVisible
  <2>2. QED
    BY <2>1 DEF BL!Next
<1>8. CASE StartRecording
  <2>1. BL!StartRecording(1) \/ BL!StartRecordingThrows(1)
    BY <1>8 DEF StartRecording, BL!StartRecording, BL!StartRecordingThrows
  <2>2. QED
    BY <2>1 DEF BL!Next
<1>9. CASE Exit
  <2>1. BL!Exit(1)
    BY <1>9 DEF Exit, BL!Exit
  <2>2. QED
    BY <2>1 DEF BL!Next
<1>10. CASE Enter \/ Read \/ Write
  BY <1>10 DEF Enter, Read, Write, BL!vars
<1>11. QED
  BY <1>1, <1>2, <1>3, <1>4, <1>5, <1>6, <1>7, <1>8, <1>9, <1>10 DEF Next, Thread

\* The thread, statement by statement, lives as the activity expects of it.
THEOREM ImplementsBridgeLife == Spec => BridgeLifeImplemented
<1>1. Init => BL!Init
  BY DEF Init, BL!Init, BridgeOf
<1>2. QED
  BY <1>1, BridgeAlways, StepLife, PTL DEF Spec, BL!Spec, BridgeLifeImplemented

=============================================================================
