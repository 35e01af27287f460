------------------------------- MODULE KfcCache -------------------------------
(***************************************************************************)
(* tools/kfc.c: transforms by length and direction, with plans kept in a    *)
(* list that only kfc_cleanup empties.  A client transforms a buffer in     *)
(* place, MaxCalls times; an allocation may fail.                           *)
(***************************************************************************)
EXTENDS KissFFT

CONSTANTS CachedSizes,  \* the lengths the client uses
          Signal(_),    \* what its buffer first holds: n samples
          MaxCalls

VARIABLES cache,    \* the list from cache_root on: [nfft, inverse, cfg]
          ncached,
          samples,  \* the client's buffer
          call,     \* the last call: [nfft, inverse, in, out]
          calls,
          crashed   \* a NULL plan was dereferenced

cacheVars == <<cache, ncached, samples, call, calls, crashed>>

NoCall == [nfft |-> 0, inverse |-> FALSE, in |-> <<>>, out |-> <<>>]

Longest == CHOOSE n \in CachedSizes : \A m \in CachedSizes : m <= n

CacheInit == /\ cache = <<>> /\ ncached = 0
             /\ samples = Signal(Longest)
             /\ call = NoCall /\ calls = 0
             /\ crashed = FALSE

CfgOf == [nfft \in CachedSizes |->
            [inverse \in BOOLEAN |-> KissFftAlloc(nfft, inverse)]]

(* Mutant: a plan of the right length is taken whatever its direction. *)
RightNodeByLength(cur, nfft, inverse) == cur.nfft = nfft

RightNode(cur, nfft, inverse) == cur.nfft = nfft /\ cur.inverse = inverse

RightNodes(nfft, inverse) ==
    {k \in 1 .. Len(cache) : RightNode(cache[k], nfft, inverse)}

(* kiss_fft(cfg, samples, samples) with the plan of a node, and what was asked *)
Apply(node, nfft, inverse) ==
    LET in == SubSeq(samples, 1, nfft)
        out == KissFft(CfgOf[node.nfft][node.inverse], in) \o <<>>
    IN /\ samples' = out \o SubSeq(samples, nfft + 1, Len(samples))
       /\ call' = [nfft |-> nfft, inverse |-> inverse, in |-> in, out |-> out]
       /\ UNCHANGED crashed

KfcFft(nfft, inverse) ==
    /\ ~crashed /\ calls < MaxCalls
    /\ calls' = calls + 1
    /\ LET right == RightNodes(nfft, inverse)
           first == CHOOSE k \in right : \A j \in right : k <= j
           new == [nfft |-> nfft, inverse |-> inverse]
       IN \/ /\ right # {}
             /\ Apply(cache[first], nfft, inverse)
             /\ UNCHANGED <<cache, ncached>>
          \/ /\ right = {}
             /\ cache' = Append(cache, new)
             /\ ncached' = ncached + 1
             /\ Apply(new, nfft, inverse)
          \/ /\ right = {}  \* no memory: NULL, which kiss_fft dereferences
             /\ crashed' = TRUE
             /\ UNCHANGED <<cache, ncached, samples, call>>

(* Mutant: the nodes are freed and the root cleared, the count is not. *)
CleanupKeepingCount == /\ ~crashed /\ calls < MaxCalls
                       /\ calls' = calls + 1
                       /\ cache' = <<>>
                       /\ UNCHANGED <<ncached, samples, call, crashed>>

KfcCleanup == /\ ~crashed /\ calls < MaxCalls
              /\ calls' = calls + 1
              /\ cache' = <<>> /\ ncached' = 0
              /\ UNCHANGED <<samples, call, crashed>>

CacheNext == \/ \E nfft \in CachedSizes, inverse \in BOOLEAN : KfcFft(nfft, inverse)
             \/ KfcCleanup
=============================================================================
