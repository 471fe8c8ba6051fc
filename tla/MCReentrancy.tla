---------------------------- MODULE MCReentrancy ----------------------------
(***************************************************************************)
(* Reentrancy for TLC: a function pointer, a functor with a destructor in  *)
(* one word of the buffer and one on the heap, in two callables.           *)
(***************************************************************************)
EXTENDS Reentrancy

CONSTANTS fptr, str, array

MCShape ==
  [F \in Functors |->
     [pod |-> F = fptr, small |-> F # array, ptrSmall |-> F # array,
      aligned |-> TRUE, emptyAllocator |-> TRUE, copyThrows |-> FALSE,
      moveThrows |-> FALSE, nothrowAssignable |-> F # array,
      nothrowCopyAssignable |-> F # array, nullable |-> F = fptr]]
=============================================================================
