------------------------------- MODULE MCRtti -------------------------------
(***************************************************************************)
(* Rtti for TLC: a functor in the buffer, the same functor by reference,   *)
(* and one on the heap, in two callables.                                  *)
(***************************************************************************)
EXTENDS Rtti

CONSTANTS str, ref_str, array

MCShape ==
  [F \in Functors |->
     [pod |-> F = ref_str, small |-> F # array, ptrSmall |-> F = ref_str,
      aligned |-> TRUE, emptyAllocator |-> TRUE, copyThrows |-> FALSE,
      moveThrows |-> F = str, nothrowAssignable |-> F # array,
      nothrowCopyAssignable |-> F = ref_str, nullable |-> FALSE]]

MCActual == [F \in Functors |-> IF F = ref_str THEN str ELSE F]
=============================================================================
