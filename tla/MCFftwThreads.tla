---------------------------- MODULE MCFftwThreads ----------------------------
(* FftwThreads with two clients and four workers. *)
EXTENDS FftwThreads

CONSTANTS c1, c2, w1, w2, w3, w4

TwoClients == {c1, c2}
FourWorkers == {w1, w2, w3, w4}

\* One item; three items of one iteration; four iterations for three threads,
\* which two threads execute as fast.
SomeLoops == {<<1, 2>>, <<3, 3>>, <<4, 3>>}
=============================================================================
