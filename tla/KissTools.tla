------------------------------- MODULE KissTools -------------------------------
(***************************************************************************)
(* The programs and the plan cache of jni/kiss_fft130/tools, one of which    *)
(* is run: fftutil, a client of kfc, or fastfir.  What they share is the     *)
(* transforms of KissFFT; the others' variables stay as they are.            *)
(***************************************************************************)
EXTENDS FftUtil, KfcCache, FastFir

VARIABLE program

vars == <<program, utilVars, cacheVars, firVars>>

Idle == /\ opts = CHOOSE o \in Options : TRUE
        /\ buf = <<>> /\ block = NoBlock /\ blocks = 0

Init == /\ program \in {"fftutil", "kfc", "fastfir"}
        /\ IF program = "fftutil" THEN UtilInit ELSE Idle
        /\ CacheInit
        /\ FirInit
        /\ program # "fastfir" => filter = CHOOSE f \in Filters : TRUE

Next == \/ /\ program = "fftutil"
           /\ UtilNext
           /\ UNCHANGED <<program, cacheVars, firVars>>
        \/ /\ program = "kfc"
           /\ CacheNext
           /\ UNCHANGED <<program, utilVars, firVars>>
        \/ /\ program = "fastfir"
           /\ FirNext
           /\ UNCHANGED <<program, utilVars, cacheVars>>

Spec == Init /\ [][Next]_vars

-----------------------------------------------------------------------------
(* Every block that fftutil writes, whatever its options, and every buffer
   that kfc returns, whatever was planned and cached before, is the discrete
   Fourier transform of what was passed (kf_work and its butterflies, the
   packing of kiss_fftr, the transpositions of kiss_fftnd and kiss_fftndr). *)
TransformsAreDFT ==
    /\ block # NoBlock => block.out = Reference(opts, block.in)
    /\ call # NoCall => call.out = DFT(call.in, call.inverse)

(* The cache holds one plan for each length and direction and counts them,
   also after a failed allocation and across kfc_cleanup. *)
CountedOnce ==
    /\ ncached = Len(cache)
    /\ \A j, k \in 1 .. Len(cache) : cache[j] = cache[k] => j = k

(* However the input is cut into reads, fast convolution has written a prefix
   of the convolution of the samples read so far with the impulse response,
   and all of it once flushed, unless a memcpy tore the samples it had to
   keep, which takes a filter of three taps; the length of the output is right
   even so.  It crashes only on an input shorter than the filter.  Filtering
   directly (the option -d) gives the convolution too, except with one tap,
   where its first sample alone is defined (do_file_filter, kiss_fastfir and
   direct_file_filter). *)
FilteredAsDirectly ==
    LET right == Convolution(filter.imp_resp, fed)
        direct == DirectFileFilter(filter.imp_resp, fed)
        taps == Len(filter.imp_resp)
    IN /\ IF torn THEN taps > 2 ELSE IsPrefix(written, right)
       /\ fate = "flushed" => Len(written) = Len(right)
       /\ fate = "crashed" => fed < taps - 1
       /\ IF taps > 1 THEN direct = right
                      ELSE fed > 0 => direct[1] = right[1]
=============================================================================
