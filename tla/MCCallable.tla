----------------------------- MODULE MCCallable -----------------------------
(***************************************************************************)
(* CallableBase for TLC: the functors of the runs, one or more for each    *)
(* manager, and two callables.                                             *)
(***************************************************************************)
EXTENDS CallableInvariant

CONSTANTS
  fptr,         (* a function pointer                                       *)
  memfn,        (* a bound member pointer: trivial, larger than a pointer   *)
  bigpod,       (* a trivial functor larger than the buffer                 *)
  str,          (* a one-word functor with a destructor, nothing throws     *)
  tone,         (* a one-word functor whose copies may throw, assignable    *)
  array,        (* a large functor with a destructor, nothing throws        *)
  tsmall,       (* a small functor whose copies and moves may throw         *)
  tcopy,        (* a small functor whose copies may throw, move-assignable  *)
  tlarge        (* a large functor whose copies and moves may throw         *)

(* A functor that does not fit in the buffer, that is aligned and empty-   *)
(* allocated, and that never throws: the rows below say what differs.      *)
Plain ==
  [pod |-> FALSE, small |-> FALSE, ptrSmall |-> FALSE, aligned |-> TRUE,
   emptyAllocator |-> TRUE, copyThrows |-> FALSE, moveThrows |-> FALSE,
   nothrowAssignable |-> FALSE, nothrowCopyAssignable |-> FALSE,
   nullable |-> FALSE]

MCShape ==
  [F \in Functors |->
     CASE F = fptr ->
            [Plain EXCEPT !.pod = TRUE, !.small = TRUE, !.ptrSmall = TRUE,
                          !.nothrowAssignable = TRUE,
                          !.nothrowCopyAssignable = TRUE, !.nullable = TRUE]
       [] F = memfn ->
            [Plain EXCEPT !.pod = TRUE, !.small = TRUE]
       [] F = bigpod -> [Plain EXCEPT !.pod = TRUE]
       [] F = str ->
            [Plain EXCEPT !.small = TRUE, !.ptrSmall = TRUE,
                          !.nothrowAssignable = TRUE,
                          !.nothrowCopyAssignable = TRUE]
       [] F = tone ->
            [Plain EXCEPT !.small = TRUE, !.ptrSmall = TRUE, !.copyThrows = TRUE,
                          !.nothrowAssignable = TRUE,
                          !.nothrowCopyAssignable = TRUE]
       [] F = array -> Plain
       [] F = tsmall ->
            [Plain EXCEPT !.small = TRUE, !.copyThrows = TRUE, !.moveThrows = TRUE]
       [] F = tcopy ->
            [Plain EXCEPT !.small = TRUE, !.copyThrows = TRUE,
                          !.nothrowAssignable = TRUE]
       [] F = tlarge ->
            [Plain EXCEPT !.copyThrows = TRUE, !.moveThrows = TRUE]]
=============================================================================
