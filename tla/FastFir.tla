------------------------------- MODULE FastFir -------------------------------
(***************************************************************************)
(* tools/kiss_fastfir.c: an FIR filter by fast convolution.  The input       *)
(* comes in reads of any length; each call of kiss_fastfir convolves whole   *)
(* blocks and moves the samples it still needs to the front of the buffer.   *)
(***************************************************************************)
EXTENDS KissFFT

CONSTANTS Filters,    \* a set of [imp_resp, nfft], nfft = 0 for a default
          MinFftLen,  \* MIN_FFT_LEN, the least default
          Input,      \* the samples of the file
          MaxRead     \* bound: the longest read

ASSUME MinFftLenAssumption == MinFftLen \in Nat

VARIABLES filter,   \* what kiss_fastfir_alloc was called with
          fed,      \* how many samples were read
          inbuf,    \* the samples at the front of the input buffer
          torn,     \* has a memcpy of overlapping ranges changed its samples?
          written,  \* the samples written so far
          fate      \* "filtering", "flushed", or "crashed"

firVars == <<filter, fed, inbuf, torn, written, fate>>

(* an appropriate size: a power of two at least twice the impulse response,
   and not below the minimum *)
RECURSIVE Doubled(_, _)
Doubled(nfft, i) == IF i \div 2 = 0 THEN 2 * nfft ELSE Doubled(2 * nfft, i \div 2)

Larger(a, b) == IF a < b THEN b ELSE a

(* The impulse response is rotated left by all but its last sample, so that
   the samples to throw away are at the end of a convolved block. *)
Rotated(imp_resp, nfft) ==
    LET nh == Len(imp_resp)
    IN [k \in 1 .. nfft |->
          CASE k = 1 -> imp_resp[nh]
            [] k > nfft - nh + 1 -> At(imp_resp, k - 1 - (nfft - nh + 1))
            [] OTHER -> Zero] \o <<>>

KissFastfirAlloc(imp_resp, n) ==
    LET nh == Len(imp_resp)
        nfft == IF n > 0 THEN n ELSE Larger(Doubled(2, nh - 1), MinFftLen)
        fftcfg == KissFftAlloc(nfft, FALSE)
        response == KissFft(fftcfg, Rotated(imp_resp, nfft)) \o <<>>
    IN [nfft |-> nfft, ngood |-> nfft - nh + 1, imp_resp |-> imp_resp,
        fftcfg |-> fftcfg, ifftcfg |-> KissFftAlloc(nfft, TRUE),
        fir_freq_resp |-> [k \in 1 .. nfft |-> CScale(response[k], Inv(nfft))] \o <<>>]

State == [f \in Filters |-> KissFastfirAlloc(f.imp_resp, f.nfft)]

Fastconv1buf(st, in) ==
    LET freqbuf == KissFft(st.fftcfg, in) \o <<>>
        product == [k \in 1 .. st.nfft |-> CMul(freqbuf[k], st.fir_freq_resp[k])] \o <<>>
    IN KissFft(st.ifftcfg, product) \o <<>>

(* Mutant: the next block starts after the samples of the last one, so that
   blocks do not overlap. *)
RECURSIVE NocopyApart(_, _)
NocopyApart(st, in) ==
    IF Len(in) < st.nfft THEN <<>>
    ELSE SubSeq(Fastconv1buf(st, SubSeq(in, 1, st.nfft)), 1, st.ngood)
         \o NocopyApart(st, SubSeq(in, st.nfft + 1, Len(in)))

(* Whole blocks: each yields ngood samples and the next starts ngood later. *)
RECURSIVE Nocopy(_, _)
Nocopy(st, in) ==
    IF Len(in) < st.nfft THEN <<>>
    ELSE SubSeq(Fastconv1buf(st, SubSeq(in, 1, st.nfft)), 1, st.ngood)
         \o Nocopy(st, SubSeq(in, st.ngood + 1, Len(in)))

(***************************************************************************)
(* The unused samples are moved to the front by a memcpy.  Where source and *)
(* destination overlap its result is undefined: a copy that starts with the *)
(* first sample is right, one that starts with the last takes samples that  *)
(* it has already overwritten.                                              *)
(***************************************************************************)
Ascending(in, nwritten) == SubSeq(in, nwritten + 1, Len(in))

Descending(in, nwritten) ==
    LET offset == Len(in) - nwritten
        RECURSIVE Copied(_)
        Copied(k) == IF nwritten > 0 /\ k + nwritten <= offset
                     THEN Copied(k + nwritten) ELSE in[k + nwritten]
    IN [k \in 1 .. offset |-> Copied(k)] \o <<>>

Save(in, nwritten) == {Ascending(in, nwritten), Descending(in, nwritten)}

-----------------------------------------------------------------------------
FirInit == /\ filter \in Filters
           /\ fed = 0 /\ inbuf = <<>> /\ torn = FALSE /\ written = <<>>
           /\ fate = "filtering"

(* n_samps_buf of do_file_filter: what fits into the buffer *)
Room(st) == st.nfft + 4 * st.ngood - Len(inbuf)

Read == /\ fate = "filtering"
        /\ \E n \in 1 .. MaxRead :
              /\ n <= Room(State[filter]) /\ fed + n <= Len(Input)
              /\ LET in == inbuf \o SubSeq(Input, fed + 1, fed + n)
                     out == Nocopy(State[filter], in)
                 IN /\ fed' = fed + n
                    /\ inbuf' \in Save(in, Len(out))
                    /\ torn' = (torn \/ inbuf' # Ascending(in, Len(out)))
                    /\ written' = written \o out
        /\ UNCHANGED <<filter, fate>>

(* kff_flush, when a read returns nothing: the rest, padded with zeros.  With
   fewer samples than the filter has taps less one, ngood - zpad is negative
   and the copy, of an unsigned length, leaves the buffer. *)
Flush == /\ fate = "filtering"
         /\ LET st == State[filter]
                zpad == st.nfft - Len(inbuf)
                tmpbuf == inbuf \o [k \in 1 .. zpad |-> Zero]
            IN \/ /\ st.ngood >= zpad
                  /\ written' = written
                       \o SubSeq(Fastconv1buf(st, tmpbuf), 1, st.ngood - zpad)
                  /\ fate' = "flushed"
               \/ /\ st.ngood < zpad
                  /\ fate' = "crashed"
                  /\ UNCHANGED written
         /\ UNCHANGED <<filter, fed, inbuf, torn>>

FirNext == Read \/ Flush

-----------------------------------------------------------------------------
(* The reference: each output is the sum of the samples up to it, weighted by
   the impulse response, and the first one needs a sample per tap. *)
Convolution(imp_resp, n) ==
    LET nlag == Len(imp_resp) - 1
    IN [t \in 1 .. (IF n > nlag THEN n - nlag ELSE 0) |->
          CSum([tap \in 1 .. nlag + 1 |->
                  CMul(imp_resp[tap], Input[t + nlag - (tap - 1)])], nlag + 1)] \o <<>>

(***************************************************************************)
(* direct_file_filter on the first n samples.  The nlag last samples are in *)
(* a circular buffer, the oldest at oldestlag.  With one tap the buffer has *)
(* no place: oldestlag leaves it with the first sample and never wraps, and *)
(* the samples after that are weighted sums of what lies outside it.        *)
(***************************************************************************)
Undefined == [r |-> -1, i |-> -1]

DirectFileFilter(imp_resp, n) ==
    LET nlag == Len(imp_resp) - 1
        outval(circbuf, oldestlag, sample) ==
            CAdd(CSum([tap \in 1 .. nlag |->
                         CMul(At(circbuf, (oldestlag + tap - 1) % nlag),
                              At(imp_resp, nlag + 1 - tap))], nlag),
                 CMul(sample, imp_resp[1]))
        Filtered[t \in Nat] ==
            IF t = 0 THEN [circbuf |-> SubSeq(Input, 1, nlag), oldestlag |-> 0, out |-> <<>>]
            ELSE LET was == Filtered[t - 1]
                     sample == Input[nlag + t]
                 IN IF was.oldestlag > nlag
                    THEN [was EXCEPT !.out = Append(@, Undefined)]
                    ELSE [circbuf |-> [k \in 1 .. nlag |->
                                          IF k = was.oldestlag + 1 THEN sample
                                                                   ELSE was.circbuf[k]],
                          oldestlag |-> IF was.oldestlag + 1 = nlag THEN 0
                                                                    ELSE was.oldestlag + 1,
                          out |-> Append(was.out, outval(was.circbuf, was.oldestlag, sample))]
    IN IF n < nlag THEN <<>> ELSE Filtered[n - nlag].out
=============================================================================
