-------------------------- MODULE MCCircularBuffer --------------------------
(* TLC instance of CircularBuffer. *)
EXTENDS CircularBuffer

CONSTANTS a, b, c1, c2, c3

MCItem == {a, b}
MCConsumer == {c1, c2, c3}
=============================================================================
