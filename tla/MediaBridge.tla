----------------------------- MODULE MediaBridge -----------------------------
(***************************************************************************)
(* The thread that copies the microphone to the speaker, statement by      *)
(* statement, with the four calls of onPause that happen beside it: the    *)
(* release of its AudioRecord, the release of its AudioTrack, and          *)
(* stopRunning, in this order and without waiting for it.                  *)
(*                                                                         *)
(* A chunk of sound is its number: 1 is the first chunk that read returned,*)
(* and "silence" the zeros of a new array.                                 *)
(***************************************************************************)
EXTENDS Integers, Sequences

CONSTANTS
  BufferSize,  \* mAudioBufferSize, in samples
  MaxChunks,   \* bound: the chunks recorded before the microphone is released
  MaxPlayed    \* bound: the chunks, silence included, written to the track

ASSUME BufferSizeAssumption == BufferSize \in Nat /\ BufferSize >= 2
ASSUME MaxChunksAssumption  == MaxChunks \in Nat /\ MaxPlayed \in Nat

VARIABLES
  record, keepRunning,  \* see BridgeLife
  track,     \* mAudioTrack: "playing" or "released"
  pc,        \* the next statement of the thread
  half,      \* i, of the inner loop
  samples,   \* what the array holds: a chunk, or silence
  recorded,  \* the number of chunks recorded so far
  played     \* everything that was written to the track

vars == <<record, keepRunning, track, pc, half, samples, recorded, played>>

silence == 0
ChunkSize == BufferSize \div 2

Statements == {"none", "started", "test", "read", "write", "thrown", "done"}

TypeOK ==
  /\ record \in {"none", "uninit", "ready", "recording", "released"}
  /\ keepRunning \in {"set", "cleared", "seen"}
  /\ track \in {"none", "playing", "released"}
  /\ pc \in Statements
  /\ half \in 0..1
  /\ recorded \in 0..MaxChunks
  /\ samples \in 0..recorded
  /\ played \in Seq(0..recorded)

Init ==
  /\ record = "none" /\ keepRunning = "set" /\ track = "none"
  /\ pc = "none" /\ half = 0
  /\ samples = silence /\ recorded = 0 /\ played = <<>>

-----------------------------------------------------------------------------
(* The UI thread.                                                          *)

\* new AudioRecord and new AudioTrack in setupAudio.
NewAudio ==
  /\ record = "none"
  /\ record' \in {"ready", "uninit"}
  /\ track' = "playing"
  /\ UNCHANGED <<keepRunning, pc, half, samples, recorded, played>>

Start ==
  /\ pc = "none" /\ record # "none"
  /\ pc' = "started"
  /\ UNCHANGED <<record, keepRunning, track, half, samples, recorded, played>>

\* stop and release, only reached with a record that opened: stop throws on
\* any other.
ReleaseRecord ==
  /\ pc # "none" /\ record \in {"ready", "recording"}
  /\ record' = "released"
  /\ UNCHANGED <<keepRunning, track, pc, half, samples, recorded, played>>

ReleaseTrack ==
  /\ record = "released" /\ track = "playing"
  /\ track' = "released"
  /\ UNCHANGED <<record, keepRunning, pc, half, samples, recorded, played>>

StopRunning ==
  /\ track = "released" /\ keepRunning = "set"
  /\ keepRunning' = "cleared"
  /\ UNCHANGED <<record, track, pc, half, samples, recorded, played>>

-----------------------------------------------------------------------------
(* The bridge thread.                                                      *)

\* AudioRecord.read and AudioTrack.write reject a range outside the array.
Fits(offset, size, length) == offset >= 0 /\ size >= 0 /\ offset + size <= length

\* Mutant: startRecording is called, and works, whatever the record's state.
StartRecordingAlways ==
  /\ pc = "started"
  /\ pc' = "test" /\ record' = "recording"
  /\ UNCHANGED <<keepRunning, track, half, samples, recorded, played>>

\* The first call of run: IllegalStateException, which nothing catches, on a
\* record that never opened or is already released.
StartRecording ==
  /\ pc = "started"
  /\ IF record \in {"ready", "recording"}
       THEN pc' = "test" /\ record' = "recording"
       ELSE pc' = "thrown" /\ UNCHANGED record
  /\ UNCHANGED <<keepRunning, track, half, samples, recorded, played>>

FlagBecomesVisible ==
  /\ keepRunning = "cleared"
  /\ keepRunning' = "seen"
  /\ UNCHANGED <<record, track, pc, half, samples, recorded, played>>

\* Mutant: one array, allocated before the loop.
EnterKeepingArray ==
  /\ pc = "test" /\ keepRunning # "seen"
  /\ pc' = "read" /\ half' = 0
  /\ UNCHANGED <<record, keepRunning, track, samples, recorded, played>>

\* Mutant: the loop tests a copy of the flag that was made before it.
EnterOnStaleFlag ==
  /\ pc = "test"
  /\ pc' = "read" /\ half' = 0
  /\ samples' = silence
  /\ UNCHANGED <<record, keepRunning, track, recorded, played>>

\* Mutant: read and write in the wrong order.
EnterWritingFirst ==
  /\ pc = "test" /\ keepRunning # "seen"
  /\ pc' = "write" /\ half' = 0
  /\ samples' = silence
  /\ UNCHANGED <<record, keepRunning, track, recorded, played>>

\* The loop test reads true, as it may until the write is visible, and the
\* pass begins with a new array.
Enter ==
  /\ pc = "test" /\ keepRunning # "seen"
  /\ pc' = "read" /\ half' = 0
  /\ samples' = silence
  /\ UNCHANGED <<record, keepRunning, track, recorded, played>>

Exit ==
  /\ pc = "test" /\ keepRunning # "set"
  /\ pc' = "done"
  /\ UNCHANGED <<record, keepRunning, track, half, samples, recorded, played>>

\* mAudioRecord.read: nothing is recorded, and the array stays as it is, when
\* the half does not fit or the record is released.
Read ==
  /\ pc = "read"
  /\ pc' = "write"
  /\ IF Fits(half * ChunkSize, ChunkSize, ChunkSize) /\ record = "recording"
       THEN /\ recorded < MaxChunks
            /\ recorded' = recorded + 1
            /\ samples' = recorded'
       ELSE UNCHANGED <<recorded, samples>>
  /\ UNCHANGED <<record, keepRunning, track, half, played>>

\* Mutant: the write does not check its range, and plays the array again.
WriteBothHalves ==
  /\ pc = "write"
  /\ IF track = "playing"
       THEN Len(played) < MaxPlayed /\ played' = Append(played, samples)
       ELSE UNCHANGED played
  /\ IF half = 0 THEN half' = 1 /\ pc' = "read" ELSE half' = 0 /\ pc' = "test"
  /\ UNCHANGED <<record, keepRunning, track, samples, recorded>>

\* Mutant: nothing is written once the microphone is released.
WriteWhileRecording ==
  /\ pc = "write"
  /\ IF half = 0 /\ track = "playing" /\ record = "recording"
       THEN Len(played) < MaxPlayed /\ played' = Append(played, samples)
       ELSE UNCHANGED played
  /\ IF half = 0 THEN half' = 1 /\ pc' = "read" ELSE half' = 0 /\ pc' = "test"
  /\ UNCHANGED <<record, keepRunning, track, samples, recorded>>

\* mAudioTrack.write, and the end of the inner loop.
Write ==
  /\ pc = "write"
  /\ IF Fits(half * ChunkSize, ChunkSize, ChunkSize) /\ track = "playing"
       THEN Len(played) < MaxPlayed /\ played' = Append(played, samples)
       ELSE UNCHANGED played
  /\ IF half = 0 THEN half' = 1 /\ pc' = "read" ELSE half' = 0 /\ pc' = "test"
  /\ UNCHANGED <<record, keepRunning, track, samples, recorded>>

-----------------------------------------------------------------------------

Thread == StartRecording \/ Enter \/ Exit \/ Read \/ Write

Next ==
  \/ NewAudio \/ Start \/ ReleaseRecord \/ ReleaseTrack \/ StopRunning
  \/ Thread \/ FlagBecomesVisible

Spec == Init /\ [][Next]_vars

\* The calls of the thread return; it need not leave the loop before it can
\* read nothing but false.
FairSpec == Spec /\ WF_vars(StartRecording \/ Enter \/ Read \/ Write)
                 /\ WF_vars(keepRunning = "seen" /\ Exit)

-----------------------------------------------------------------------------

\* The listener hears the chunks in the order in which they were recorded, and
\* none of them twice, through the releases of onPause as well.
InOrderOnce ==
  \A i, j \in 1..Len(played) :
    i < j /\ played[i] # silence /\ played[j] # silence => played[i] < played[j]

\* The bridge plays silence only in the time between the release of the
\* microphone and that of the track: the second half of a pass, which is outside
\* the array, is not played.
SilenceOnlyAfterRelease ==
  (\E i \in 1..Len(played) : played[i] = silence) => record = "released"

\* What was recorded is in the track, or in the array about to be written, until
\* the track is released: no chunk is lost on the way.
NothingLost ==
  track = "playing" =>
    \A c \in 1..recorded :
      \/ \E i \in 1..Len(played) : played[i] = c
      \/ pc = "write" /\ half = 0 /\ samples = c

\* Once the thread can read nothing but false, it finishes its pass and ends.
BridgeEnds == keepRunning = "seen" /\ pc # "none" ~> pc \in {"done", "thrown"}

(***************************************************************************)
(* The thread implements BridgeLife with one session.                      *)
(***************************************************************************)
BridgeOf(statement) ==
  IF statement \in {"test", "read", "write"} THEN "running" ELSE statement

BL == INSTANCE BridgeLife WITH
        Sessions    <- {1},
        record      <- [s \in {1} |-> record],
        bridge      <- [s \in {1} |-> BridgeOf(pc)],
        keepRunning <- [s \in {1} |-> keepRunning]

BridgeLifeImplemented == BL!Spec

=============================================================================
