------------------------------- MODULE MCHeap -------------------------------
(* A heap of 12 header sizes: room for three small blocks or two large ones, *)
(* with requests that split, that leave slack, and that do not fit.          *)
EXTENDS HeapLoops
=============================================================================
