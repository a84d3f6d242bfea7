-------------------------- MODULE MCMultiRingBuffer --------------------------
(* The ring buffer with interchangeable readers, for TLC. *)
EXTENDS MultiRingBuffer

\* No action and no property tells one reader from another.
ReaderSymmetry == Permutations(Readers)
=============================================================================
