------------------------------- MODULE FftUtil -------------------------------
(***************************************************************************)
(* tools/fftutil.c: transforms a file block by block, by the transform that *)
(* its options (-n dims, -R, -i) choose.  A file is given block by block;   *)
(* only the number of blocks is bounded.                                    *)
(***************************************************************************)
EXTENDS KissFFT

CONSTANTS Options,       \* a set of [dims, real, inverse]
          Samples(_, _), \* blocks of n samples, real ones or not
          MaxBlocks(_)   \* bound: how many, of n samples

VARIABLES opts,   \* the options of this run of the program
          buf,    \* the input buffer
          block,  \* the last block: what was transformed, and into what
          blocks  \* the number of blocks transformed

utilVars == <<opts, buf, block, blocks>>

NoBlock == [in |-> <<>>, out |-> <<>>]

Bins(dims) == (dims[Len(dims)] \div 2) + 1
Spectrum(dims) == (Prod(dims) \div dims[Len(dims)]) * Bins(dims)

(* the samples that fill the input buffer *)
InSize(o) == IF o.real /\ o.inverse THEN Spectrum(o.dims) ELSE Prod(o.dims)

Plan == [o \in Options |->
    IF Len(o.dims) = 1
    THEN IF o.real THEN KissFftrAlloc(o.dims[1], o.inverse)
                   ELSE KissFftAlloc(o.dims[1], o.inverse)
    ELSE IF o.real THEN KissFftndrAlloc(o.dims, o.inverse)
                   ELSE KissFftndAlloc(o.dims, o.inverse)]

Transform(o, in) ==
    CASE Len(o.dims) = 1 /\ ~o.real -> KissFft(Plan[o], in)
      [] Len(o.dims) = 1 /\ o.real /\ ~o.inverse -> KissFftr(Plan[o], in)
      [] Len(o.dims) = 1 /\ o.real /\ o.inverse -> KissFftri(Plan[o], in)
      [] Len(o.dims) > 1 /\ ~o.real -> KissFftnd(Plan[o], in, TRUE)
      [] Len(o.dims) > 1 /\ o.real /\ ~o.inverse -> KissFftndr(Plan[o], in)
      [] Len(o.dims) > 1 /\ o.real /\ o.inverse -> KissFftndri(Plan[o], in)

(***************************************************************************)
(* The reference.  A real transform keeps the bins up to the middle of the  *)
(* last dimension; the inverse one counts the others as conjugates of these. *)
(***************************************************************************)
Reference(o, in) ==
    LET last == o.dims[Len(o.dims)]
        bin(j) == j % last
        half(j) == At(in, ((j \div last) * Bins(o.dims)) + bin(j))
        weighted == [j \in 1 .. Prod(o.dims) |->
            CASE 2 * bin(j - 1) > last -> Zero
              [] 2 * bin(j - 1) \in {0, last} -> half(j - 1)
              [] OTHER -> CScale(half(j - 1), 2)]
        full == DFTnd(IF o.real /\ o.inverse THEN weighted ELSE in, o.dims, o.inverse)
    IN IF ~o.real THEN full
       ELSE IF o.inverse THEN [j \in 1 .. Prod(o.dims) |-> [r |-> full[j].r, i |-> 0]]
       ELSE [j \in 1 .. Spectrum(o.dims) |->
               At(full, (((j - 1) \div Bins(o.dims)) * last) + ((j - 1) % Bins(o.dims)))]

-----------------------------------------------------------------------------
UtilInit == /\ opts \in Options
            /\ buf = [k \in 1 .. InSize(opts) |-> Zero]
            /\ block = NoBlock
            /\ blocks = 0

(* There is a plan: with none (real transforms of an odd length, whose NULL
   is not looked at) the program crashes before it writes a block. *)
Filter(in) == /\ Plan[opts] # NoCfg
              /\ buf' = in
              /\ block' = [in |-> in, out |-> Transform(opts, in)]
              /\ blocks' = blocks + 1
              /\ UNCHANGED opts

(* fread fills the buffer, which is transformed and written *)
ReadBlock == /\ blocks < MaxBlocks(InSize(opts))
             /\ \E x \in Samples(InSize(opts), opts.real /\ ~opts.inverse) : Filter(x)

(* The end of the file inside a block.  fread counts blocks, and the rest is
   dropped, except in fft_filend_real, which counts scalars: the rest is
   transformed together with what the buffer still holds of the last block
   (taken to be zeros before the first). *)
ReadRest == /\ blocks < MaxBlocks(InSize(opts))
            /\ opts.real /\ Len(opts.dims) > 1
            /\ \E x \in Samples(InSize(opts), ~opts.inverse), n \in 1 .. InSize(opts) - 1 :
                  Filter(SubSeq(x, 1, n) \o SubSeq(buf, n + 1, Len(buf)))

UtilNext == ReadBlock \/ ReadRest
=============================================================================
