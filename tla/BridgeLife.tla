------------------------------ MODULE BridgeLife ------------------------------
(***************************************************************************)
(* The life of a MediaBridge thread and of the AudioRecord it listens to,  *)
(* as the activity sees them: when the thread may start the microphone,    *)
(* when it may end, and what it finds if it is late.  MediaBridge is the   *)
(* detailed thread, shown to implement this module; Superpowers composes   *)
(* this module with the activity.                                          *)
(***************************************************************************)

CONSTANT Sessions  \* onResume/onPause pairs, each with a bridge of its own

VARIABLES
  record,       \* record[s]: the state of the AudioRecord of session s
  bridge,       \* bridge[s]: where the thread of that session is
  keepRunning   \* keepRunning[s]: the flag, and what the thread sees of it

vars == <<record, bridge, keepRunning>>

(***************************************************************************)
(* "uninit" is an AudioRecord whose microphone was not available when it   *)
(* was constructed: every call on it throws or fails until release.        *)
(***************************************************************************)
RecordState == {"none", "uninit", "ready", "recording", "released"}
RecordHeld  == {"uninit", "ready", "recording"}

BridgeState == {"none", "started", "running", "thrown", "done"}

(***************************************************************************)
(* keepRunning is neither volatile nor guarded by a lock, so the write in  *)
(* stopRunning need not reach the thread at any given time.  "cleared":    *)
(* written by the UI thread, the bridge may still read true; "seen": the   *)
(* bridge can only read false.                                             *)
(***************************************************************************)
FlagState == {"set", "cleared", "seen"}

TypeOK ==
  /\ record      \in [Sessions -> RecordState]
  /\ bridge      \in [Sessions -> BridgeState]
  /\ keepRunning \in [Sessions -> FlagState]

Init ==
  /\ record      = [s \in Sessions |-> "none"]
  /\ bridge      = [s \in Sessions |-> "none"]
  /\ keepRunning = [s \in Sessions |-> "set"]

-----------------------------------------------------------------------------
(* The UI thread.                                                          *)

\* new AudioRecord in setupAudio; the microphone may be taken.
CreateRecord(s, outcome) ==
  /\ record[s] = "none"
  /\ outcome \in {"ready", "uninit"}
  /\ record' = [record EXCEPT ![s] = outcome]
  /\ UNCHANGED <<bridge, keepRunning>>

\* new MediaBridge and Thread.start, after the AudioRecord was constructed.
StartThread(s) ==
  /\ record[s] # "none"
  /\ bridge[s] = "none"
  /\ bridge' = [bridge EXCEPT ![s] = "started"]
  /\ UNCHANGED <<record, keepRunning>>

\* mAudioRecord.stop and mAudioRecord.release in onPause.
ReleaseRecord(s) ==
  /\ record[s] \in RecordHeld
  /\ record' = [record EXCEPT ![s] = "released"]
  /\ UNCHANGED <<bridge, keepRunning>>

\* MediaBridge.stopRunning.
StopRunning(s) ==
  /\ bridge[s] # "none"
  /\ keepRunning' = [keepRunning EXCEPT ![s] = IF @ = "set" THEN "cleared" ELSE @]
  /\ UNCHANGED <<record, bridge>>

-----------------------------------------------------------------------------
(* The bridge thread.                                                      *)

\* The first call of MediaBridge.run.
StartRecording(s) ==
  /\ bridge[s] = "started"
  /\ record[s] \in {"ready", "recording"}
  /\ bridge' = [bridge EXCEPT ![s] = "running"]
  /\ record' = [record EXCEPT ![s] = "recording"]
  /\ UNCHANGED keepRunning

\* The same call on an AudioRecord that never opened or was already released:
\* IllegalStateException, which run() does not catch.
StartRecordingThrows(s) ==
  /\ bridge[s] = "started"
  /\ record[s] \notin {"ready", "recording"}
  /\ bridge' = [bridge EXCEPT ![s] = "thrown"]
  /\ UNCHANGED <<record, keepRunning>>

\* The write of stopRunning becomes visible to the bridge thread.
FlagBecomesVisible(s) ==
  /\ keepRunning[s] = "cleared"
  /\ keepRunning' = [keepRunning EXCEPT ![s] = "seen"]
  /\ UNCHANGED <<record, bridge>>

\* while (keepRunning) ends; before the write is visible it may read either.
Exit(s) ==
  /\ bridge[s] = "running"
  /\ keepRunning[s] # "set"
  /\ bridge' = [bridge EXCEPT ![s] = "done"]
  /\ UNCHANGED <<record, keepRunning>>

Next ==
  \E s \in Sessions :
    \/ \E o \in {"ready", "uninit"} : CreateRecord(s, o)
    \/ StartThread(s) \/ ReleaseRecord(s) \/ StopRunning(s)
    \/ StartRecording(s) \/ StartRecordingThrows(s)
    \/ FlagBecomesVisible(s) \/ Exit(s)

Spec == Init /\ [][Next]_vars

=============================================================================
