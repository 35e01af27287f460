------------------------------ MODULE MCKissTools ------------------------------
(* Lengths with every radix, repeated radices and a prime squared; blocks of *)
(* one to three dimensions; every unit impulse, real and, for the shorter    *)
(* blocks, imaginary.                                                        *)
EXTENDS KissTools

Lengths == {1, 2, 3, 4, 5, 6, 7, 8, 9, 10, 12, 14, 15, 16, 20, 49}
Even == {2, 4, 6, 8, 10, 12, 14}
Matrices == {<<2, 3>>, <<3, 2>>, <<4, 2>>, <<2, 3, 2>>, <<3, 2, 4>>}
RealMatrices == {<<3, 2>>, <<2, 4>>, <<2, 3, 2>>}

SomeOptions ==
    [dims : {<<n>> : n \in Lengths} \cup Matrices, real : {FALSE}, inverse : BOOLEAN]
    \cup [dims : {<<n>> : n \in Even \cup {5}}, real : {TRUE}, inverse : BOOLEAN]
    \cup [dims : RealMatrices \cup {<<2, 3>>}, real : {TRUE}, inverse : BOOLEAN]

Impulse(n, at, x) == [k \in 1 .. n |-> IF k = at THEN x ELSE Zero] \o <<>>
Dense(n) == [k \in 1 .. n |-> [r |-> (7 * k * k + 3 * k + 1) % P,
                               i |-> (11 * k + 5 * k * k * k) % P]] \o <<>>

SomeSamples(n, real) ==
    {Impulse(n, k, [r |-> 1, i |-> 0]) : k \in 1 .. n}
    \cup (IF real \/ n > 16 THEN {} ELSE {Impulse(n, k, [r |-> 0, i |-> 1]) : k \in 1 .. n})

(* A second block shows what the first leaves in the buffer. *)
BlocksOf(n) == IF n > 16 THEN 1 ELSE 2

SomeFilters ==
    {[imp_resp |-> Dense(nh), nfft |-> n] : nh \in 1 .. 4, n \in {0, 5}}

SomeInput == Dense(14)
SomeSizes == {2, 3, 4}

(* kiss_fft_next_fast_size finds the least product of 2, 3 and 5 that is not
   below n. *)
Fast == {a * b * c : a \in {1, 2, 4, 8, 16, 32, 64, 128, 256},
                     b \in {1, 3, 9, 27, 81, 243}, c \in {1, 5, 25, 125}}
ASSUME NextFastSizeIsLeast ==
    \A n \in 1 .. 128 : /\ NextFastSize(n) \in Fast
                       /\ \A m \in n .. NextFastSize(n) - 1 : m \notin Fast
=============================================================================
