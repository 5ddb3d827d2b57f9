---------------------------- MODULE MCRingBuffer ----------------------------
(* Model-checking instances of RingBuffer: the threads of main.cpp and of   *)
(* tests/benchmarks.cpp as model values.                                   *)
EXTENDS RingBuffer

CONSTANTS feed, processor, tick, order
=============================================================================
