------------------------------- MODULE KissFFT -------------------------------
(***************************************************************************)
(* The transforms of Kiss FFT (jni/kiss_fft130): the mixed radix transform  *)
(* of kiss_fft.c, the real transform of kiss_fftr.c and the transforms of   *)
(* several dimensions of kiss_fftnd.c and kiss_fftndr.c.                    *)
(*                                                                         *)
(* Samples are exact: a kiss_fft_scalar is a residue modulo the prime P and *)
(* the cosine and sine of 2 pi k / n are read off an n-th root of unity     *)
(* modulo P, for every n that divides P - 1.  They satisfy every algebraic  *)
(* identity that the butterflies use, so a transform that mixes up an       *)
(* index, a twiddle factor or a sign gives other residues than the DFT.     *)
(* Rounding and the fixed point build are not modelled.  A buffer is a      *)
(* sequence, and x[k] of the C code is At(x, k).                            *)
(***************************************************************************)
EXTENDS Integers, Sequences, SequencesExt

CONSTANTS P, G  \* the prime, and a generator of its multiplicative group

ASSUME FieldAssumption == P \in Nat /\ P > 2 /\ P < 46341 /\ G \in 1 .. P - 1

At(x, k) == x[k + 1]

(* G to the power e, modulo P *)
RECURSIVE Pow(_)
Pow(e) == IF e = 0 THEN 1
          ELSE LET h == Pow(e \div 2)
               IN (((h * h) % P) * (IF e % 2 = 1 THEN G ELSE 1)) % P

Half == (P + 1) \div 2
Inv(n) == CHOOSE k \in 1 .. P - 1 : (k * n) % P = 1
MinusI == Pow(3 * ((P - 1) \div 4))

(* complex arithmetic: C_ADD, C_SUB, C_MUL, C_MULBYSCALAR, HALF_OF *)
Zero == [r |-> 0, i |-> 0]
CAdd(a, b) == [r |-> (a.r + b.r) % P, i |-> (a.i + b.i) % P]
CSub(a, b) == [r |-> (a.r - b.r) % P, i |-> (a.i - b.i) % P]
CMul(a, b) == [r |-> (((a.r * b.r) % P) - ((a.i * b.i) % P)) % P,
               i |-> (((a.r * b.i) % P) + ((a.i * b.r) % P)) % P]
CScale(a, s) == [r |-> (a.r * s) % P, i |-> (a.i * s) % P]
CHalf(a) == CScale(a, Half)
Conj(a) == [r |-> a.r, i |-> (-a.i) % P]
TimesI(a) == [r |-> (-a.i) % P, i |-> a.r]

(* cos + i sin of the angle of k turns of 1/n *)
KfCexp(k, n) ==
    LET turn == (P - 1) \div n
        z == Pow(turn * (k % n))
        zInv == Pow(turn * ((-k) % n))
    IN [r |-> (((z + zInv) % P) * Half) % P,
        i |-> (((((z - zInv) % P) * MinusI) % P) * Half) % P]

(***************************************************************************)
(* The reference: the discrete Fourier transform of a block x of dimensions *)
(* dims, in row-major order.                                                *)
(***************************************************************************)
Prod(dims) == FoldLeft(LAMBDA a, b : a * b, 1, dims)
Digit(j, dims, d) == (j \div Prod(SubSeq(dims, d + 1, Len(dims)))) % dims[d]

RECURSIVE CSum(_, _)
CSum(f, n) == IF n = 0 THEN Zero ELSE CAdd(CSum(f, n - 1), f[n])

DFTnd(x, dims, inverse) ==
    LET n == Len(x)
        w == [k \in 1 .. n |-> KfCexp(IF inverse THEN k - 1 ELSE 1 - k, n)] \o <<>>
        digits == [j \in 1 .. n |-> [d \in 1 .. Len(dims) |->
                                       Digit(j - 1, dims, d)] \o <<>>] \o <<>>
        RECURSIVE Phase(_, _, _)
        Phase(j, k, d) == IF d = 0 THEN 0
                          ELSE Phase(j, k, d - 1)
                               + digits[j][d] * digits[k][d] * (n \div dims[d])
    IN [k \in 1 .. n |->
            CSum([j \in 1 .. n |->
                    CMul(x[j], At(w, Phase(j, k, Len(dims)) % n))], n)]

DFT(x, inverse) == DFTnd(x, <<Len(x)>>, inverse)

-----------------------------------------------------------------------------
(* kf_factor: radices p and remaining lengths m, 4 first, then 2, 3, 5, ... *)

FloorSqrt(n) == CHOOSE s \in 0 .. n : s * s <= n /\ n < (s + 1) * (s + 1)

NextRadix(p) == CASE p = 4 -> 2 [] p = 2 -> 3 [] OTHER -> p + 2

RECURSIVE Radix(_, _, _)
Radix(n, p, root) ==
    IF n % p = 0 THEN p
    ELSE Radix(n, IF NextRadix(p) > root THEN n ELSE NextRadix(p), root)

RECURSIVE Factors(_, _, _)
Factors(n, p, root) ==
    LET q == Radix(n, p, root)
        m == n \div q
    IN <<[p |-> q, m |-> m]>> \o (IF m > 1 THEN Factors(m, q, root) ELSE <<>>)

KfFactor(n) == Factors(n, 4, FloorSqrt(n))

KissFftAlloc(n, inverse) ==
    [nfft |-> n, inverse |-> inverse, factors |-> KfFactor(n),
     twiddles |-> [k \in 1 .. n |-> KfCexp(IF inverse THEN k - 1 ELSE 1 - k, n)]
                  \o <<>>]

-----------------------------------------------------------------------------
(* The butterflies: F holds p transforms of length m one after the other,  *)
(* and the result is the transform of length p m.                           *)

KfBfly2(F, fstride, st, m) ==
    LET t == [u \in 0 .. m - 1 |->
                CMul(At(F, u + m), At(st.twiddles, u * fstride))]
    IN [k \in 1 .. m |-> CAdd(F[k], t[k - 1])]
       \o [k \in 1 .. m |-> CSub(F[k], t[k - 1])]

KfBfly4(F, fstride, st, m) ==
    LET s(u, j) == CMul(At(F, u + j * m), At(st.twiddles, j * u * fstride))
        s5(u) == CSub(At(F, u), s(u, 2))
        s0(u) == CAdd(At(F, u), s(u, 2))
        s3(u) == CAdd(s(u, 1), s(u, 3))
        s4(u) == TimesI(CSub(s(u, 1), s(u, 3)))
        plus == [k \in 1 .. m |-> CAdd(s5(k - 1), s4(k - 1))]
        minus == [k \in 1 .. m |-> CSub(s5(k - 1), s4(k - 1))]
    IN [k \in 1 .. m |-> CAdd(s0(k - 1), s3(k - 1))]
       \o (IF st.inverse THEN plus ELSE minus)
       \o [k \in 1 .. m |-> CSub(s0(k - 1), s3(k - 1))]
       \o (IF st.inverse THEN minus ELSE plus)

KfBfly3(F, fstride, st, m) ==
    LET epi3 == At(st.twiddles, fstride * m)
        s1(u) == CMul(At(F, u + m), At(st.twiddles, u * fstride))
        s2(u) == CMul(At(F, u + 2 * m), At(st.twiddles, 2 * u * fstride))
        s3(u) == CAdd(s1(u), s2(u))
        s0(u) == TimesI(CScale(CSub(s1(u), s2(u)), epi3.i))
        mid(u) == CSub(At(F, u), CHalf(s3(u)))
    IN [k \in 1 .. m |-> CAdd(F[k], s3(k - 1))]
       \o [k \in 1 .. m |-> CAdd(mid(k - 1), s0(k - 1))]
       \o [k \in 1 .. m |-> CSub(mid(k - 1), s0(k - 1))]

KfBfly5(F, fstride, st, m) ==
    LET ya == At(st.twiddles, fstride * m)
        yb == At(st.twiddles, 2 * fstride * m)
        s(u, j) == CMul(At(F, u + j * m), At(st.twiddles, j * u * fstride))
        s7(u) == CAdd(s(u, 1), s(u, 4))
        s10(u) == CSub(s(u, 1), s(u, 4))
        s8(u) == CAdd(s(u, 2), s(u, 3))
        s9(u) == CSub(s(u, 2), s(u, 3))
        s5(u) == CAdd(At(F, u), CAdd(CScale(s7(u), ya.r), CScale(s8(u), yb.r)))
        s6(u) == TimesI(CAdd(CScale(s10(u), ya.i), CScale(s9(u), yb.i)))
        s11(u) == CAdd(At(F, u), CAdd(CScale(s7(u), yb.r), CScale(s8(u), ya.r)))
        s12(u) == TimesI(CSub(CScale(s10(u), yb.i), CScale(s9(u), ya.i)))
    IN [k \in 1 .. m |-> CAdd(F[k], CAdd(s7(k - 1), s8(k - 1)))]
       \o [k \in 1 .. m |-> CAdd(s5(k - 1), s6(k - 1))]
       \o [k \in 1 .. m |-> CAdd(s11(k - 1), s12(k - 1))]
       \o [k \in 1 .. m |-> CSub(s11(k - 1), s12(k - 1))]
       \o [k \in 1 .. m |-> CSub(s5(k - 1), s6(k - 1))]

(* the twiddle index of term q of output k, which wraps by one subtraction *)
RECURSIVE Twidx(_, _, _, _)
Twidx(q, k, fstride, Norig) ==
    IF q = 0 THEN 0
    ELSE LET twidx == Twidx(q - 1, k, fstride, Norig) + fstride * k
         IN IF twidx >= Norig THEN twidx - Norig ELSE twidx

KfBflyGeneric(F, fstride, st, m, p) ==
    LET term(k, q) == CMul(At(F, (k % m) + q * m),
                           At(st.twiddles, Twidx(q, k, fstride, st.nfft)))
    IN [k \in 1 .. p * m |->
            CSum([j \in 1 .. p |-> IF j = 1 THEN At(F, (k - 1) % m)
                                            ELSE term(k - 1, j - 1)], p)]

(***************************************************************************)
(* kf_work: the p decimated transforms of length m, one after the other,    *)
(* then the butterfly of the stage.  f is read from index off in steps of   *)
(* fstride * in_stride.                                                     *)
(***************************************************************************)
RECURSIVE KfWork(_, _, _, _, _, _)
KfWork(f, off, fstride, in_stride, level, st) ==
    LET p == st.factors[level].p
        m == st.factors[level].m
        from(q) == off + q * fstride * in_stride
        parts == [q \in 1 .. p |->
                    IF m = 1 THEN <<At(f, from(q - 1))>>
                    ELSE KfWork(f, from(q - 1), fstride * p, in_stride, level + 1, st)]
        F == FlattenSeq(parts)
    IN CASE p = 2 -> KfBfly2(F, fstride, st, m)
         [] p = 3 -> KfBfly3(F, fstride, st, m)
         [] p = 4 -> KfBfly4(F, fstride, st, m)
         [] p = 5 -> KfBfly5(F, fstride, st, m)
         [] OTHER -> KfBflyGeneric(F, fstride, st, m, p)

(* The transform of st.nfft samples of fin, every in_stride-th from off on.
   When fin is fout the code transforms into a temporary buffer and copies
   it: the samples read are always those of before the call. *)
KissFftStride(st, fin, off, in_stride) == KfWork(fin, off, 1, in_stride, 1, st)

KissFft(st, fin) == KissFftStride(st, fin, 0, 1)

-----------------------------------------------------------------------------
(* Real transforms of an even length: the samples are taken in pairs as     *)
(* complex ones, and the two interleaved transforms separated afterwards.   *)

(* A twiddle: minus (or plus) pi ((i+1) / ncfft + 1/2). *)
SuperTwiddle(i, ncfft, inverse) ==
    LET quarters == 2 * (i + 1) + ncfft  \* of 4 ncfft parts of a turn
    IN KfCexp(IF inverse THEN quarters ELSE -quarters, 4 * ncfft)

NoCfg == [refused |-> TRUE]  \* NULL: the length is odd

KissFftrAlloc(nfft, inverse) ==
    LET ncfft == nfft \div 2
    IN IF nfft % 2 = 1 THEN NoCfg ELSE
       [substate |-> KissFftAlloc(ncfft, inverse),
        super_twiddles |-> [k \in 1 .. ncfft \div 2 |->
                              SuperTwiddle(k - 1, ncfft, inverse)] \o <<>>]

(* The later of two writes to one element stays: for an even ncfft the last
   round of either loop writes its middle element twice. *)
KissFftr(st, timedata) ==
    LET ncfft == st.substate.nfft
        pairs == [k \in 1 .. ncfft |-> [r |-> timedata[2 * k - 1].r,
                                        i |-> timedata[2 * k].r]] \o <<>>
        tmpbuf == KissFft(st.substate, pairs) \o <<>>
        tdc == tmpbuf[1]
        f1k(k) == CAdd(At(tmpbuf, k), Conj(At(tmpbuf, ncfft - k)))
        f2k(k) == CSub(At(tmpbuf, k), Conj(At(tmpbuf, ncfft - k)))
        tw(k) == CMul(f2k(k), st.super_twiddles[k])
        low(k) == CHalf(CAdd(f1k(k), tw(k)))
        high(k) == CHalf(Conj(CSub(f1k(k), tw(k))))
    IN [j \in 1 .. ncfft + 1 |->
            LET k == j - 1
            IN CASE k = 0 -> [r |-> (tdc.r + tdc.i) % P, i |-> 0]
                 [] k = ncfft -> [r |-> (tdc.r - tdc.i) % P, i |-> 0]
                 [] 2 * k < ncfft /\ k > 0 -> low(k)
                 [] OTHER -> high(ncfft - k)]

KissFftri(st, freqdata) ==
    LET ncfft == st.substate.nfft
        fek(k) == CAdd(At(freqdata, k), Conj(At(freqdata, ncfft - k)))
        tmp(k) == CSub(At(freqdata, k), Conj(At(freqdata, ncfft - k)))
        fok(k) == CMul(tmp(k), st.super_twiddles[k])
        ends == <<At(freqdata, 0).r, At(freqdata, ncfft).r>>
        tmpbuf == [j \in 1 .. ncfft |->
            LET k == j - 1
            IN CASE k = 0 -> [r |-> (ends[1] + ends[2]) % P,
                              i |-> (ends[1] - ends[2]) % P]
                 [] 2 * k < ncfft /\ k > 0 -> CAdd(fek(k), fok(k))
                 [] OTHER -> Conj(CSub(fek(ncfft - k), fok(ncfft - k)))] \o <<>>
        out == KissFft(st.substate, tmpbuf) \o <<>>
    IN [j \in 1 .. 2 * ncfft |->
            [r |-> IF j % 2 = 1 THEN out[(j + 1) \div 2].r ELSE out[j \div 2].i,
             i |-> 0]]

-----------------------------------------------------------------------------
(***************************************************************************)
(* Several dimensions, one after the other.  Stage k reads the columns of   *)
(* one buffer and writes their transforms as the rows of another, so that   *)
(* the matrix is transposed as it goes; the two buffers then change places. *)
(* mem maps the buffers fin, fout and tmpbuf to what they hold.             *)
(***************************************************************************)
KissFftndAlloc(dims, inverse) ==
    [dimprod |-> Prod(dims), dims |-> dims,
     states |-> [k \in 1 .. Len(dims) |-> KissFftAlloc(dims[k], inverse)]]

Overwrite(buf, at, part) ==
    SubSeq(buf, 1, at) \o part \o SubSeq(buf, at + Len(part) + 1, Len(buf))

RECURSIVE Columns(_, _, _, _, _, _)
Columns(st, mem, bufin, bufout, k, i) ==
    LET stride == st.dimprod \div st.dims[k]
        column == KissFftStride(st.states[k], mem[bufin], i, stride)
    IN IF i = stride THEN mem
       ELSE Columns(st, [mem EXCEPT ![bufout] = Overwrite(@, i * st.dims[k], column)],
                    bufin, bufout, k, i + 1)

RECURSIVE Dimensions(_, _, _, _, _)
Dimensions(st, mem, bufin, bufout, k) ==
    IF k > Len(st.dims) THEN mem
    ELSE Dimensions(st, Columns(st, mem, bufin, bufout, k, 0),
                    bufout, IF bufout = "tmpbuf" THEN "fout" ELSE "tmpbuf", k + 1)

(* The first buffer written is such that the last one is fout; an in-place
   transform that starts with fout reads a copy of it. *)
KissFftnd(st, fin, inPlace) ==
    LET odd == Len(st.dims) % 2 = 1
        blank == [k \in 1 .. st.dimprod |-> Zero]
        mem == [fin |-> fin,
                fout |-> IF inPlace THEN fin ELSE blank,
                tmpbuf |-> IF odd /\ inPlace THEN fin ELSE blank]
        bufin == IF ~inPlace THEN "fin" ELSE IF odd THEN "tmpbuf" ELSE "fout"
    IN Dimensions(st, mem, bufin, IF odd THEN "fout" ELSE "tmpbuf", 1).fout

(* The real transform along the last dimension, the complex ones along the
   others.  tmp2 holds nrbins blocks of dimOther samples.  An odd last
   dimension crashes it: its cfg_nd would lie behind a cfg_r that is NULL. *)
KissFftndrAlloc(dims, inverse) ==
    LET other == SubSeq(dims, 1, Len(dims) - 1)
    IN IF dims[Len(dims)] % 2 = 1 THEN NoCfg ELSE
       [dimReal |-> dims[Len(dims)], dimOther |-> Prod(other),
        cfg_r |-> KissFftrAlloc(dims[Len(dims)], inverse),
        cfg_nd |-> KissFftndAlloc(other, inverse)]

KissFftndr(st, timedata) ==
    LET nrbins == (st.dimReal \div 2) + 1
        rows == [k1 \in 1 .. st.dimOther |->
                    KissFftr(st.cfg_r, SubSeq(timedata, ((k1 - 1) * st.dimReal) + 1,
                                              k1 * st.dimReal)) \o <<>>] \o <<>>
        blocks == [k2 \in 1 .. nrbins |->
                    KissFftnd(st.cfg_nd, [k1 \in 1 .. st.dimOther |-> rows[k1][k2]],
                              FALSE)] \o <<>>
    IN [j \in 1 .. nrbins * st.dimOther |->
            blocks[((j - 1) % nrbins) + 1][((j - 1) \div nrbins) + 1]]

KissFftndri(st, freqdata) ==
    LET nrbins == (st.dimReal \div 2) + 1
        blocks == [k2 \in 1 .. nrbins |->
                    KissFftnd(st.cfg_nd, [k1 \in 1 .. st.dimOther |->
                                At(freqdata, ((k1 - 1) * nrbins) + (k2 - 1))],
                              FALSE)] \o <<>>
        rows == [k1 \in 1 .. st.dimOther |->
                    KissFftri(st.cfg_r, [k2 \in 1 .. nrbins |-> blocks[k2][k1]])]
    IN FlattenSeq([k1 \in 1 .. st.dimOther |-> rows[k1] \o <<>>])

-----------------------------------------------------------------------------
(* kiss_fft_next_fast_size: the next length that is a product of 2, 3 and 5 *)

RECURSIVE Without(_, _)
Without(n, p) == IF n % p = 0 THEN Without(n \div p, p) ELSE n

RECURSIVE NextFastSize(_)
NextFastSize(n) ==
    IF Without(Without(Without(n, 2), 3), 5) <= 1 THEN n ELSE NextFastSize(n + 1)
=============================================================================
