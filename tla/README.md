# Superpowers: specifications, model checks and proofs

Superpowers is an Android application (API 14/15) of five Java classes in
`src/Superpowers/src/com/adaburrows/superpowers/`. It shows the camera preview,
turns the colours of each preview frame into three tones, plays the microphone
back through the speaker, and draws the spectrum of that sound over the picture.
Almost nothing in it is hard one call at a time. What is hard is that a UI thread,
a worker thread per frame, a bridge thread per resume, a camera and a visualizer
share hardware objects that the activity opens in `onResume` and releases in
`onPause`, without joining anyone.

The repository also carries two FFT libraries in C, Kiss FFT (`jni/kiss_fft130`) and
FFTW 3.3.2. The application does not call them yet: no Java class declares a native
method or calls `loadLibrary`. Their control is modelled too: the mixed radix
transform and the tools around it, and FFTW's planner, wisdom and thread pool.

## 1. Inventory

| component | state it keeps | operations | talks to |
|---|---|---|---|
| `Superpowers` (activity) | fields `mCamera`, `mAudioRecord`, four `AudioTrack`s, `mAudioVisualizer`, `mPlayer`, the views | `onCreate`, `onResume` (`getCamera`, `setupAudio`, `setupCamera`), `onPause`, `onFftDataCapture` | constructs and releases everything |
| `CameraView` | its own reference to the camera, the surface | `surfaceCreated`, `surfaceChanged`, `surfaceDestroyed` | starts and stops the preview of the shared camera |
| `AudioSynth` | one callback buffer, pixels, three histograms, three sound arrays, `mFinished` | constructor, `onPreviewFrame` and the worker it starts | gets frames from the camera, gives the buffer back, writes to three tracks |
| `MediaBridge` | `keepRunning`, the record and the track it was given | `run` (own thread), `stopRunning` (UI thread) | reads the microphone, writes the audio track |
| `MagicOverlay` | last capture, cut-off table, point arrays | `updateData`, `onDraw` | fed by the visualizer's listener |
| platform | camera, AudioRecord, AudioTrack, Visualizer, looper | | posts frames, captures and surface callbacks to the UI thread |
| Kiss FFT transforms | none: a plan is computed once and only read | `kiss_fft`, `kiss_fftr`, `kiss_fftri`, `kiss_fftnd`, `kiss_fftndr`, `kiss_fftndri` | called by the tools |
| Kiss FFT tools | `fftutil`: its input buffer; `kfc`: a list of plans; `fastfir`: the samples not yet convolved | block loop; `kfc_fft`, `kfc_ifft`, `kfc_cleanup`; `kiss_fastfir`, `kff_flush`, `direct_file_filter` | call the transforms |
| FFTW planner | two hash tables of solutions, the time of the call, `wisdom_state` | `mkplan` of `api/apiplan.c` and of `kernel/planner.c`, `htab_lookup`, `htab_insert`, `forget`, `imprt` | calls the solvers, which call it again for sub-problems |
| FFTW threads | the worker queue, the workers' semaphores, `threads_inited`, the planner | `init_threads`, `plan_with_nthreads`, `spawn_loop`, `cleanup`, `cleanup_threads` | runs the loops of plans, which may nest |
| FFTW solvers, codelets, MPI, wrappers | plans over strides | | not modelled (section 5) |

Hard behaviours, and the properties each is the subject of (the full list, by source
line, is under "hazards" in `PROJECT.json`):

- frames, captures and surface callbacks that were queued before `onPause` are
  delivered after it (`CrashHasCause`, `PreviewNeverStalls`, `SurfaceCallbacksBail`);
- workers of successive frames share every array, and only the round trip of one
  buffer keeps them apart (`BuffersStayWhole`, `TonesOfOneFrame`, `FramesInOrder`);
- a bridge thread can start, read and write after its objects are released
  (`BridgeLifeImplemented`, `InOrderOnce`, `NothingLost`), and its flag is neither
  volatile nor locked (`BridgeEnds`);
- one of nine opening steps can fail, and everything opened must still be
  released (`Ownership`, `PausedHoldsNothing`, `PauseReleases`);
- indices, truncations and clippings over frames of all sizes (`DecodesItsBlock`,
  `ToneOfThisFrame`) and captures of changing ones (`ReadsInBounds`, `BandsPartitionBins`, `CirclesShowLoudest`);
- clients and workers take workers from one queue while their loops nest, and the work
  items are in stack frames that are used again (`EveryIterationOnce`, `WorkIsLive`);
- `kill_workforce` waits with the queue lock held (`KillReachesAll`, `CallsReturn`), and planner and pool
  come and go in any order (`ThreadedPlannerHasPool`);
- a search is relaxed, runs out of time, is retried, remembered, and made again from
  wisdom that may be foreign (`PlansAreMade`, `WisdomSuffices`, `WisdomIsTrue`, `InsertsAreNew`);
- killed slots stay in the way of searches while the table grows (`TableSound`, `LookupAnswers`);
- plans are cached, blocks padded and samples moved from one read to the next
  (`TransformsAreDFT`, `CountedOnce`, `FilteredAsDirectly`).

## 2. Modules

| module | models | source |
|---|---|---|
| `PreviewBuffers` | abstract: the callback buffer between camera, UI thread and workers | `Camera`, `AudioSynth`, `CameraView` |
| `BridgeLife` | abstract: a bridge thread and its AudioRecord | `MediaBridge`, `Superpowers` |
| `Superpowers` | the activity, the surface callbacks, the queued messages, the threads as the activity sees them | `Superpowers.java`, `CameraView.java` |
| `AudioSynth` | the workers call by call on the shared arrays | `AudioSynth.java` |
| `FrameTones` | what those calls compute, pixel by pixel | `AudioSynth.java` |
| `MediaBridge` | the bridge statement by statement, on chunks of sound | `MediaBridge.java` |
| `MagicOverlay` | captures, the table of bands, draws | `MagicOverlay.java` |
| `PreviewSize` | the loop that chooses the preview size, and its fallback | `Superpowers.setupCamera` |
| `KissFFT` | factors, butterflies, the transforms (operators only) | `kiss_fft.c`, `tools/kiss_fftr.c`, `kiss_fftnd.c`, `kiss_fftndr.c` |
| `FftUtil`, `KfcCache`, `FastFir` | the block loop, the plan cache, the filter | `tools/fftutil.c`, `kfc.c`, `kiss_fastfir.c` |
| `KissTools` | the three, one of which is run, and their properties | |
| `Wisdom` | entries, `subsumes`, what a lookup may answer (operators only) | `kernel/planner.c` |
| `WisdomSet` | abstract: a table is a set of entries | `kernel/planner.c` |
| `PlannerTable` | the hash table slot by slot | `kernel/planner.c` |
| `Planner` | the search and the retries of the API | `kernel/planner.c`, `api/apiplan.c` |
| `FftwThreads` | the pool, `spawn_loop`, the life of the threaded planner | `threads/threads.c`, `threads/api.c`, `api/the-planner.c` |
| `MC...` | the instances TLC checks | |
| `SuperpowersProofs`, `AudioSynthProofs`, `FrameTonesProofs`, `MediaBridgeProofs`, `PlannerTableProofs`, `PlannerProofs`, `FftwThreadsProofs` | theorems about the module of that name; the first also has those about `PreviewBuffers` | |
| `ViewProofs` | theorems about `PreviewSize` and `MagicOverlay` | |

`Superpowers` composes `PB == INSTANCE PreviewBuffers` and `BL == INSTANCE BridgeLife`:
its steps on cameras and bridges are their actions, so it obeys them by composition. `AudioSynth` implements `PreviewBuffers`
(its worker's ten calls map to the one state `"working"`) and `MediaBridge`
implements `BridgeLife`, which is where the refinements are shown: what the activity is composed of is what the
detailed threads do. `PlannerTable` implements `WisdomSet`, whose operators are those `Planner`
keeps its wisdom with, so the planner is checked against what the table does.

**The application.** `onResume` and `onPause` are sequences of steps, because other
threads run between their calls; `ui` names the next step, and `"resumed"` and
`"paused"` are the UI thread waiting in its looper. Each `onResume` makes new objects,
so an object is indexed by the session (the number of the `onResume`) that made it,
and a field holds a session or `null`. An exception nobody catches sets `crash` to the
call that threw and nothing follows. Releasing an object is one step with the `stop`
before it: no other thread can tell the two apart, since what it could do between them
it could do before both. The four track blocks of `onPause` are four steps. A worker may throw
out of `decodeYUV420SP` (`AudioSynth.java:206-207`) if the preview has an odd number of rows and no padding.

`keepRunning` has three values: `"set"`; `"cleared"`, written by the UI thread while the
bridge may still read true; and `"seen"`, the bridge can only read false. It is a plain
field, so nothing forces the step between the last two.

In `AudioSynth` frames are numbered and every array holds the number of the frame it was
computed from. `Post` fills the buffer, `Decode` reads it, and so on: what is read and
written when is kept there, and the arithmetic is in `FrameTones`, where one worker runs at a
time: that workers never meet is what `AudioSynth` shows. In `FrameTones` means and
frequencies are exact fractions; where a double that the code truncates to an int may be an
integer exactly, either of the two integers that rounding can leave is possible.

In `MediaBridge` a chunk of sound is its number and 0 is silence. The second half of a pass
lies outside the array (its offset is the array's length), and `Fits` is the range check of
`read` and `write` that rejects it.

`MagicOverlay` keeps the real components of a capture (the bytes at even indices, the only
ones that are read), the table of cut-offs, the point of each band and the circles drawn from them: one
for each band but the last, because the loop of line 160 ends one point early. The curve
6000^(i/100) - 1 of the cut-offs is the constant `Skew`, any curve of integers that begins with 0 and does
not decrease: the first bands may be empty and the last ones wide, as in the code. A capture
can be larger than the size announced with it, because one that an earlier visualizer left in
the queue is delivered with the size of the field's visualizer. The coordinates and colours of
the circles are left out, their values are kept. `PreviewSize` takes one pass of the loop per step; the quotients of
doubles in the test of the aspect are cross-multiplied, so it is exact. Its initial predicate,
next-state relation and specification are called `SizeInit`, `SizeNext` and `SizeSpec`, so that one
module can extend both views.

**The platform**, modelled from how the code uses it: a message that is in the looper is
delivered although its source has been released; `stopPreview` and `setPreviewDisplay` on
a released camera throw a RuntimeException; a released camera drops a buffer it is given;
`startRecording` and `stop` throw on an AudioRecord that never opened or is released, and
`read` and `write` return an error; `getCaptureSize` throws on a released visualizer; a
paused activity can still be visible, so surfaces come and go between `onPause` and the
next `onResume`. `Faults` is the set of things the platform may refuse (the camera, the
microphone, the camera's parameters, the visualizer, the preview display) and, as `"rows"`, of the preview sizes
whose frames `decodeYUV420SP` overruns.

**Kiss FFT.** A sample is a residue modulo the prime `P = 35281`, and sine and cosine of a
fraction of a turn are read off powers of its generator `G = 23`, for the lengths that divide
`P - 1 = 35280 = 2^4 3^2 5 7^2`. They satisfy every algebraic identity the butterflies rely on
and no rounding hides an error: two transforms that agree modulo `P` on every impulse have the
same matrix. `kf_work` is a recursive operator that returns the output block; the in-place
butterflies read all they need before they write. `malloc`ed memory that is read before it is
written (the first block of `fftutil`, when the file is shorter than it) is taken to be zero.
The overlapping `memcpy` of `kiss_fastfir.c:242` is undefined in C: `Save` is a copy that starts with the
first sample or one that starts with the last, which overwrites samples it has not copied yet, and
`torn` records that the two differed. `DirectFileFilter` has the circular buffer of `-d`, whose index leaves the
buffer for good when the filter has one tap; `MinFftLen` is MIN_FFT_LEN. The plan of a real transform of an
odd length is `NoCfg`, which `fftutil` does not test: such options have no step.

**FFTW.** The bit masks of the planner are sets of flags, and comparing them is inclusion.
A call of the API is one step of `Planner`, because the planner is sequential; each C function
is an operator that returns the set of its outcomes, since which solver measures fastest and
when the time limit passes are open. Its loops are `Loop`, and `mkplan`, which the solvers call again
for their sub-problems, is `MkPlanAt[n]`: a function of how deep calls may nest, each from the one
before. The flags kept are the estimator's, the two
that the search relaxes and one that a solver sets. In `PlannerTable` a key is the two words of
the signature that the hash functions use. The assertion at the head of `htab_insert` is not assumed: entries
are inserted redundantly too, as a release build does.

In `FftwThreads` a thread has a stack of `spawn_loop` calls, because the body of a loop may call
it again. A work item lives in that stack: its address is `<<thread, depth, block>>`, which a
later call uses again, so a worker that comes late would find another call's item. The planner's record says whether it exists, for how many threads it plans, and
which threaded solvers it has: those of `threads_conf_standard`, those that the registered hooks add, or none;
`fftw_cleanup` takes it away and leaves pool and hooks. Between two
semaphore or mutex operations a thread takes one step; `queue_lock` is held for longer only by
`kill_workforce`.

## 3. Runs

| run | instance | shows |
|---|---|---|
| `activity` | 2 sessions, 2 workers, all faults, with fairness | the buffer stays whole; ownership; a paused activity holds nothing; every crash, in every session, has one of seven causes; the preview goes on; `onPause` gives everything back, or one of three crashes comes in between |
| `bridge` | 3 chunks recorded, 5 written | order, no replay, no silence while recording, no loss, termination, refinement |
| `synth` | 2 workers, 3 frames | the tones of a frame, their order, none dropped, refinement |
| `signal` | 10 sizes, 6 images, 2 frames | the decoding stays in the buffer and is right; tones are whole periods of this frame's mean and fit their arrays |
| `preview_size` | lists of up to 4 of 7 sizes, 3 displays | the best size is chosen; the invariant of the loop |
| `overlay` | 2 captures of 4 or 8 bytes, 3 bands, with fairness | reads in bounds, bands partition the bins, the circles are as loud as the loudest component below the last band, the last capture is drawn |
| `kiss` | lengths to 49, matrices, every impulse; 4 calls of `kfc`; 8 filters over 14 samples | every transform is the DFT; plans are cached once; fast convolution is convolution unless a `memcpy` tears its samples, and so is the direct filter with more than one tap |
| `table` | 9 entries of 3 colliding keys, up to 6 live, redundant ones included | the table is sound, answers as the set of its entries does, and implements it |
| `planner` | 3 problems, 5 solvers, with and without a time limit, 5 foreign entries | a plan is found exactly if there is one, and made again unless wisdom is foreign and time is up; what is remembered is true and suffices; no insertion is redundant while the wisdom is the planner's own |
| `threads` | 2 clients, 4 workers, 2 nested calls, 2 initialisations, with fairness | each iteration once; no item outlives its call; cleanup ends every worker; a planner for several threads has a pool and threaded solvers; every call returns |
| `surface_bails` | 1 session | violation: a surface callback uses a released camera |
| `without_camera` | 1 session, the camera may fail | violation: a null camera crashes `onResume` |

**Bounds.**
- `activity`: with `MaxSessions = 2` an object of an old session meets the fields of a newer one;
  a third adds no new pair, since no step relates objects of two sessions other than through
  a field. Two workers are enough to see two frames out at once; the theorem shows that they
  never are. One pending capture per session is enough to be stale.
- `synth`: three frames are one heard, one in work and one to come.
- `bridge`: `MaxChunks` bounds what is recorded and `MaxPlayed` leaves room for two chunks of
  silence after it.
- `signal`: even, odd and padded sizes, one pixel, and one that is too wide for its odd height;
  images of extreme bytes clip every channel at both ends, others differ from byte to byte. Two
  frames show what the second keeps of the first.
- `preview_size`: the sizes match the display, nearly match it, exceed it by less and by more
  than the margin, or have another aspect, and one display is in portrait, where none fits;
  four sizes put a better and a worse one on either side of the best.
- `overlay`: the two captures may announce the same size, a larger or a smaller one; of three
  bands, each wider, the first is empty (as the first ones are in the code), the second is drawn and the
  third has no circle; the components are negative, small,
  and large enough to be clipped.
- `kiss`: the lengths use each butterfly, alone, repeated and combined, and 7 twice for the
  generic one; matrices have two and three dimensions; impulses are a basis, so that linearity
  gives the other blocks. Two blocks show what the second finds in the buffer; of those with more than
  16 samples one is given, since none of them is a real matrix, of which alone the end of a file fills a part. Filters have one
  to four taps, blocks of 5 or of the default size, which `MinFftLen = 6` raises for the two shortest (the
  code has 1024, which no read of the run would fill). A real length of 5 and a real
  matrix whose last dimension is odd are refused. `kiss_fftndr` is given two dimensions or more:
  `fftutil` calls it for no others, and its plan for one would be wrong.
- `table`: three keys start in the same slot and cross each other, with up to 6 of 9 entries the
  table grows from its first size and is searched through killed slots.
- `planner`: a problem with a recursive and a slow solver, a sub-problem whose first solver
  hands a flag of its own down to a third one, which only a slow solver solves: plans need
  relaxation, and entries with flags the request does not have. The foreign entries name a wrong
  solver, lie about infeasibility, or cannot be carried out; two of them
  answer the same request, one of them inconsistently, so that a plan can fail to be made again.
  `Depth = 3` is the whole depth of this
  library, so no call is cut off; `Flags` are the four that are told apart.
- `threads`: two initialisations let everything that the first one, a cleanup, or a planner without threads
  leaves meet a second; `MaxCalls = 2` calls are in sequence, at once or nested in a client or a worker;
  loops have one item, as many as threads, or fewer items than threads asked for; four workers
  are as many as two calls can use.

`CHECK_DEADLOCK FALSE` throughout: every system really may stop. The process may have crashed
and the user need not resume it again, nobody has to plan or to call, or a bound is reached.

**Fairness.** In `Superpowers!FairSpec` a handler that has begun goes on (the UI thread does
not block: no handler waits for another thread), the looper delivers, a previewing camera
with a buffer fills it, and a worker that can run runs. Users, surfaces and the visualizer
owe nothing. In `AudioSynth!FairSpec` a posted frame
is delivered and a worker that can run runs; the camera owes no frame. In
`MediaBridge!FairSpec` the thread's calls return, and it leaves the loop once
it can read nothing but false; that the write becomes visible is *not* assumed, so nothing is
claimed of a bridge whose flag is only `"cleared"`. In `MagicOverlay!FairSpec` an invalidated
view is drawn; captures owe nothing. In `FftwThreads!FairSpec` the scheduler is weakly fair to
each thread that is inside `spawn_loop` or has been signalled, and to the thread that cleans up,
and a body returns. The mutexes and semaphores owe no order: `CallsReturn` holds without strong
fairness because the calls are finitely many and no thread keeps a lock. Nobody has to call.

**Disagreements with the comments.** Two are runs. `CameraView.startPreview`
says "Bail if we don't have a surface or camera", but its copy of the reference outlives the
camera. `getCamera`, `setupCamera` and `CameraView` allow for a camera that is not available;
`new AudioSynth` between them dereferences it. Others can be read from the models without a run:

- `onPreviewFrame` is to "only run if we're not finished", and nothing ever sets `mFinished`.
- `MagicOverlay.java:133-134` speaks of "the 100 frequency bands we're going to plot with circles", but the
  loop of line 160 plots 99: the last band, the widest, has a point and never a circle, so the loudest component
  may not be seen. `CirclesShowLoudest` states what is shown. The same comment says that `mPoints` holds averages,
  it holds amplified maxima; and `onDraw` is said to be called for all new data, although `invalidate` asks
  for one draw however many captures come before it.
- `api.c:49-50` says that "this should be the first time the_planner is called, and hence the time it is
  configured". After `fftw_cleanup` the pool stays initialised, the next planner is created without
  `threads_conf_standard`, and `plan_with_nthreads` gives it threads all the same; it has only the threaded
  solvers of the hooks, as `ThreadedPlannerHasPool` says.
- `AudioSynth.java:169-174` scales "to maximum amplitude"; the samples reach 16384/10.
- `kiss_fftndr.h` asks that `dims[0]` be even; the code needs it of `dims[ndims-1]`, and does not
  test the plan that `kiss_fftr_alloc` refuses for an odd one.
- `planner.c:674` speaks of inheriting the blessing from wisdom, but `fill_slot` (line 256) never
  stores it.
- "It is an error to insert an element that is subsumed by an existing entry" (`planner.c:368`), but
  `mkplan` looks a problem up under the flags of the request and inserts under those that its
  search arrived at. An imported entry that calls the problem infeasible under the latter does not
  answer the request and subsumes the insertion: a release build goes on with a redundant entry, one
  with `FFTW_DEBUG` aborts. TLC shows it once `Importable` holds such an entry (`"n"` infeasible under
  NO_UGLY alone), so `InsertsAreNew` is about the planner's own wisdom.
- `threads.c:340` says that workers enqueue themselves; `spawn_loop` enqueues them.

Some failures that no comment denies are part of the models and not findings: a microphone that
was taken makes `AudioRecord.startRecording` or `stop` throw, and a capture delivered after
`onPause` asks a released visualizer for its size (`CrashHasCause` lists these and the others, and says
in which states each can happen);
a frame of an odd number of rows and a width that needs no padding has more chroma bytes than the
buffer, and decoding it throws (`DecodesItsBlock` allows exactly that, and
`CrashHasCause` has the crash of the worker's process); `fft_filend_real` counts
scalars where the other loops count blocks, so the rest of a file is transformed together with
remains of the block before; `direct_file_filter` is given one tap and writes every
sample after the first outside its buffer (`kiss_fastfir.c:325-329`); `fftutil` uses the plan that is refused for
an odd real length; `kff_flush` subtracts unsigned lengths and leaves its buffer for
an input shorter than the filter; `kfc_fft` uses a plan it could not allocate.

## 4. Proofs

Every theorem holds for all values of the constants that the named assumptions of its module allow;
the assumptions only give the constants their types (sizes have pixels, bytes are bytes, workers
are not clients). The inductive invariants were checked by TLC on the instances of the runs before
they were proved. Every invariant of the runs `activity`, `bridge`, `synth`, `signal`,
`preview_size`, `overlay`, `table` and `threads` is a theorem, and so are those of `planner` but for
`InsertsAreNew`.

**The buffer protocol.** `SuperpowersProofs` proves `BuffersSafe`, for any sets of sessions and
workers. The three properties are not inductive without `NothingBeforeSupply` (a camera without a
synthesiser has no buffer and no frame); `BufferInv` is their conjunction. `AudioSynthProofs` has the
same two lemmas for the single session of a synthesiser, whose variables it substitutes.

**The activity.** `SuperpowersProofs` proves, for every set of workers and of faults, that the types
are kept (`TypesCorrect`), that what is open is what the fields name (`NothingLeaks`), and that a
paused activity holds nothing (`PausedIsFree`). `Ownership` is not inductive: a step of `onResume`
that assigns a field would lose what the field names, if it still named something. `OwnershipInv`
adds what excludes it: sessions to come are untouched (`SessionInv`), the session's own objects are
new until the step that makes them (`FreshInv`), and each field is null from the step of `onPause`
that releases it to the step of `onResume` that assigns it (`FieldInv`). Callbacks, messages and
threads open and release nothing and leave the fields alone (`OthersAreQuiet`), so they need one
lemma, `QuietOwnership`; the handlers are taken step by step in `HandlersKeepOwnership`.
`WorkersNeverMeet` (`BuffersStayWhole`) is the buffer theorem for the activity: each of its steps is one of
the protocol's or leaves the buffer alone (`StepPreview`), so `BufferInv` is kept.

`CrashesAreExplained` (`CrashHasCause`) is for every session, not only for the first, and for every set of
faults. An exception is thrown in one state and depends on what earlier handlers, in other sessions, left behind, so
`CrashInv` adds: what is released was released by an `onPause` that has come so far (`ReleasedByPause`); while
the activity runs its view has its own camera, never a released one (`OwnView`), and the visualizer of its field is
its own or there is none (`OwnVisualizer`); and what waits to be delivered was made (`Origins`).

**The synthesiser.** `AudioSynthProofs` first proves that the workers, call by call, implement the
buffer protocol (`SynthImplementsBuffers`), and takes from its theorem that one worker runs at a time.
Only then is the invariant of the arrays (`ArraysInv`: what a call is about to read was computed from
the last frame) inductive, although no array has a lock; the monitor of `playSound` alone would not
do. `TonesInv` says which tracks a worker inside `playSound` has written. `TonesBelongTogether` and
`FramesHeardInOrder` follow.

`FrameTonesProofs` is about the arithmetic, for every frame size and all bytes of a frame.
`EveryPixelItsBlock`: the decoding carries an index and two chroma values from pixel to pixel;
`PixelsInv` says what they are at each (`ChromaPlaces`), and `ChromaInBuffer` that the index stays
in the padded buffer unless the number of rows is odd. `ColourIsNear` bounds the shifts and clippings.
`TonesFollowFrame`: the code weighs the bins of a histogram, the property adds up the pixels. Both sums
are folds of `MapThenSumSet`, which chooses an order; `SumIsCardinality` shows that such a sum is the
number of elements of `Stack`, in which each element is repeated as often as its value says, so
that `WeightedIsPixelSum` is a statement about the cardinality of a union of fibres (`FibresAddUp`).
`ToneFits` bounds the samples for every mean. Where a double is truncated the theorem is for both
integers that rounding can leave. The induction in `SumIsCardinality` and its like is by least
counterexample (`WFMin` over finite sets and strict inclusion), since the library's induction
theorems, which take an operator as a parameter, cannot be applied by the installed provers.

**The bridge.** `MediaBridgeProofs` proves `HeardInOrder`, `NoChunkIsLost`, `SilentOnlyInBetween`, and the
refinement of `BridgeLife` (`ImplementsBridgeLife`), whose actions the activity is composed of.
`BridgeInv` joins them, because each needs the others: silence is in the array only if the record
was released during this very pass (`ArrayInv`), and the chunk in hand is greater than all that
was played (`OrderInv`). `OnlyFirstHalfFits` is where the odd offset of the second half enters.

**The views.** `ViewProofs` proves `PreviewSizeIsBest` for every list of sizes and every display, from
the invariant of the loop (`LoopKeepsBest`). It needs that a size has a positive number of pixels:
a size without pixels would fit and never be kept. For the overlay, `OverlayInv` says that the table
in use is that of the announced size, which is at most that of the capture. `CutoffsAreTable` shows that
the truncated quotients go from 0 to the number of bins without decreasing, `OneBand` that such a
table divides the bins, and from these follow `DrawsStayInside` and `BandsDivideBins`. `PlottedBins` says that
the bands with a circle are together the bins below the last band, which gives `LoudnessIsKept`.

**The threads.** `FftwThreadsProofs` is for any clients, workers, loops and bounds.
`PoolOutlivesPlanner` (`ThreadedPlannerHasPool`) is not inductive: the end of `cleanup_threads` clears
`threads_inited`, so no planner for several threads may have come back since it began; and `plan_with_nthreads`
keeps whatever planner an initialised pool has, which may have been created before the pool, by it, or after
an `fftw_cleanup`, so each of these must have threaded solvers. `PoolInv` says both.
`BlocksPartitionLoop` is about the arithmetic of `spawn_loop`: for every loop and number of
threads the blocks divide the iterations, none is empty, no more threads are used than asked for,
and with fewer the longest block would be longer, as the comment at `threads.c:387` claims. It rests on
`CeilingIsLeast`, that the quotient computed is the least whose multiple suffices.

`CallsInv` is the invariant of the pool. Every worker is unmade, in the queue, about to end, or held
by exactly one call (`WorkerInv`, `HeldOnce`, `HeldApart`); a held worker has been signalled for the
item of that call, executes it, or has served it (`HeldServe`), and is idle only in the hands of its
caller. It follows that no item outlives its call and no worker serves two (`WorkItemsAreLive`). When
`kill_workforce` takes the lock no call is open; that then no worker is held needs `RankInv`: workers
are held by calls of threads of lower rank, so holding never goes in a circle (`AllReturned`,
`CleanupReachesAll`). `RanInv` counts: an iteration of an open call has been executed once if its
block is done, and not yet otherwise; with the partition of the blocks this is `LoopsRunOnce`.

**The wisdom.** `PlannerTableProofs` is for any set of entries, however their keys collide; keys are two
natural numbers. It begins with numbers: `PrimeSteps` (a step shorter than a prime table visits every
slot before the first one again), which gives `OrbitVisits`, and `PrimeAbove` (there are primes above
every number), without which `next_prime` need not end and a growth would find no size. The invariant is
`TablesSound`. A table is `Sound` if its size is prime, it counts its live slots right, and every live
slot is `Reached`: it is in the orbit of its key, after slots that are all valid. Insertion keeps this,
because it fills the first slot of an orbit that is not live, and all before it are valid
(`InsertIsSound`); killing keeps it, because a killed slot stays valid, and overwriting the first killed
slot, because its entry had the same key (`HtabInsertIsSound`). `RehashIsSound` carries it through
the loop of `rehash`, and `GrowIsSound` counts the room: `nextsz` leaves a slot that is not live
after the insertion that follows, so no search runs for ever. `TableIsSound` and, with the invariant of
the loop of `htab_lookup` in `LookupFindsBest`, `LookupsAnswer` follow.

`TableImplementsSet` is the refinement of `WisdomSet`, for every sequence of insertions, those that
the assertion of `planner.c:368` calls an error included. `EntriesAreInserted` is the type invariant.

The loops of the table are recursive functions on an interval. That such a function exists is
`LoopRuns`, and what its values keep is shown with `LoopStaysIn`: induction over a set instead
of a formula, which the installed provers can apply.

**The planner.** `PlannerProofs` is for every library: any problems, any solvers with any sub-problems
and any flags under which they do not apply, any wisdom to import, any number of calls. Assumed is
what makes these a library (`LibraryAssumption`): the flags are finitely many, and no solver
takes ESTIMATE back for a sub-problem (those of `dft` and `rdft` take back only NO_DESTROY_INPUT).
`Depth` is any number; a call that nests deeper has no outcome, so the theorems speak of the calls that
end within it.

The reference is `PlansAt`: the solvers that can make a plan under flags `l`, with sub-plans
down to a given depth. A planner state is `SoundState` if each entry of its tables is true of
the reference (`SoundEntry`) and the tables are `Closed`: below every solution there are the
solutions of its sub-problems, under flags that the solver will ask for. The second half is what
`WisdomIsTrue` lacks to be inductive beside `WisdomSuffices`: a solution is inserted after those of its
sub-problems and an insertion replaces what it subsumes, so `InsertedKeeps` has to show that
whatever was answered still is, by the new entry if not by the old one.

`IsMkPlan(mk, n)` is what a planner function must answer when calls nest at most `n` deep. With foreign
wisdom in the tables it may find them bogus, and then returns no plan; if it has time and finds
them consistent it returns a plan exactly if there is one; from a sound state it is never bogus,
stays sound, and remembers what it planned. `Kept` is the relation between the states before and
after any part of a call. The lemmas then follow the code: a sub-problem and the loop over them
(`NextSubPlan`, `AllSubPlans`), one solver and the loop over them (`SolverAnswers`, `NextSolver`,
`Search0Answers`), the relaxation of the flags (`SearchAnswers`: a loop that stops as soon as nothing
changes must still have tried `l`), the two halves of `mkplan` (`DoSearchAnswers`,
`UseWisdomAnswers`), and `MkPlanAnswers`; `PlannersAnswer` is the induction over the depth. Each loop is
one application of `LoopKeeps`, which is in turn an induction over a set, as for the table.
Above it `ApiMkPlanAnswers`, `PatientlyAnswers` and `MkApiPlanAnswers` are the retries of `apiplan.c`,
and `PlannerInv` joins what one call leaves for the next.

`WisdomStaysTrue` and `WisdomAlwaysSuffices` are `WisdomIsTrue` and `WisdomSuffices`.
`PlansAreAlwaysMade` is `PlansAreMade`: for all wisdom and all time limits a problem has a plan found for it if
and only if it has one; and that plan is made again, if the wisdom is the planner's own or no time limit is
set. `BogusHasNoPlan` and `OnlyTimeFails` are the assertions of `apiplan.c`, and
`ForgottenWisdomIsConsistent` shows that its third try (`apiplan.c:66-75`) is never needed.

The restriction is needed. With foreign wisdom and a time limit the model makes no plan at `apiplan.c:133`,
and uses the null pointer at line 136, if two foreign entries answer the same request, one of them is
inconsistent, and they are chosen in turn: then the wisdom is forgotten and no time is left to plan again. The
run has two such entries, so the case is met. The set of entries does not say which of several answers
`htab_lookup` meets first; in the code the order changes only if the blessed table grows between the two lookups,
which the record of a timeout can make it do. `InsertsAreNew` is not proved: it needs that
a problem is not its own sub-problem under flags that are taken back, which holds for
particular libraries.

**Only model-checked:** all liveness (`PreviewNeverStalls`, `PauseReleases`, `BridgeEnds`,
`EveryFrameIsHeard`, `LastCaptureIsDrawn`, `CallsReturn`), which with fairness and ENABLED is out of
the prover's reach; `InsertsAreNew`; and the properties of
`KissTools`, whose modules use RECURSIVE operators, as the code recurses over radices and samples.

## 5. Not modelled

The generated codelets of FFTW, more than 230000 of the repository's 292704 lines of C, are straight-line
arithmetic without control, written by `genfft`; a definition of one would be as long as the
codelet. The solvers turn a problem into strides and codelets and keep no state. This is why the
models cover a small share of the repository's lines although they cover most of its control. The
MPI library is not built for Android, and the wrappers of the API only turn arguments into problems.

Of what is modelled, left out are: in the application, the sine and the scaling to 16 bits, the geometry
and colours of what the overlay draws, an `AudioTrack` whose construction fails, and an activity
that is destroyed and created again (`onCreate` only sets window flags); whether a native call is
safe beside the release of its object is the platform's affair. In Kiss FFT, rounding and the
fixed point, SIMD and OpenMP builds. In the planner, measuring (a cost is a choice),
pruning by cost, the hooks of MPI and the text format of wisdom; MEASURE and PATIENT differ in
flags the model does not tell apart. In the threads, the OpenMP file, other platforms'
primitives, and a `pthread_create` that fails, whose result `threads.c:143` ignores: with that
fault `spawn_loop` plainly waits for ever. The manifest, resources and build scripts have no state.

## 6. Plan

Every invariant of a run whose modules a theorem may use is proved, but for `InsertsAreNew`.
What could follow:

1. `InsertsAreNew` for libraries in which no problem is reached again from itself, with the order of
   the problems as a constant;
2. the order in which `htab_lookup` meets its answers, kept in the set of entries, so that `PlansAreMade`
   can say which imports and time limits leave no plan to make again;
3. the plan cache of `KfcCache` on its own (`CountedOnce`), apart from the transforms, which stay with TLC.
