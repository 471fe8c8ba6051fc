------------------------------ MODULE Ownership ------------------------------
(***************************************************************************)
(* Who owns what in a memory.                                              *)
(*                                                                         *)
(* Ownership is a predicate of a memory and a set of owners, the objects   *)
(* that have been constructed and not destroyed, so that it can be stated  *)
(* between the steps of one call: when a target has been destroyed and the *)
(* next one not yet constructed, when a temporary is an owner as well.     *)
(***************************************************************************)
EXTENDS TargetManagers

Manager(m, o) == functor_manager(m.vtable[o])

(* Owner o of memory m holds what its vtable says, and what it holds on    *)
(* the heap or with a lifetime is there.                                   *)
Good(m, o) ==
  /\ m.vtable[o] \in Vtables
  /\ o \in m.live <=> Manager(m, o) = "small"
  /\ OnHeap(m.vtable[o]) =>
       /\ m.lo[o] \in m.allocated
       /\ m.lo[o] \in m.live <=> Manager(m, o) = "generic"
  /\ m.vtable[o] \notin EmptyVtables =>
       /\ Target(m, o, m.vtable[o]) \in Images
       /\ Target(m, o, m.vtable[o]).type = m.vtable[o]
  /\ Wide(m.vtable[o]) => m.hi[o] = m.lo[o]
  /\ Manager(m, o) = "trivial_heap" => m.hi[o] = m.vtable[o]

(* No two owners share a block, no block is without an owner, and nothing  *)
(* lives outside the owners and the blocks in use.                         *)
Exclusive(m, A) ==
  /\ \A o, p \in A :
       OnHeap(m.vtable[o]) /\ OnHeap(m.vtable[p]) /\ m.lo[o] = m.lo[p] => o = p
  /\ \A b \in m.allocated : \E o \in A : OnHeap(m.vtable[o]) /\ m.lo[o] = b
  /\ m.live \subseteq A \cup m.allocated

(* The one fault that ownership does not exclude, where it can be noticed: *)
(* a debug build asserts something of the buffers of trivial heap targets. *)
Tolerated ==
  {fault \in {"assertion"} :
     DebugBuild /\ \E F \in Functors : functor_manager(F) = "trivial_heap"}

Sound(m, A) ==
  /\ m \in MemoryType
  /\ A \subseteq Objects
  /\ m.faults \subseteq Tolerated
  /\ \A o \in A : Good(m, o)
  /\ Exclusive(m, A)

(* The functors for which it is kept: one that manager_generic stores is   *)
(* constructed without throwing.                                           *)
SafeGenerics ==
  \A F \in Functors :
    functor_manager(F) = "generic" => ~Shape[F].copyThrows /\ ~Shape[F].moveThrows

-----------------------------------------------------------------------------
(* What a call does to the targets of others: nothing. *)

(* The target of o, where it has one. *)
TargetOf(m, o) == Target(m, o, m.vtable[o])

(* If o of m has its target in a block, p of n has its target there too.   *)
SameBlock(m, o, n, p) == OnHeap(m.vtable[o]) => n.lo[p] = m.lo[o]

(* The objects of A have in n the targets they have in m, where they were. *)
SameTargets(m, n, A) ==
  \A o \in A :
    /\ n.vtable[o] = m.vtable[o]
    /\ m.vtable[o] \notin EmptyVtables => TargetOf(n, o) = TargetOf(m, o)
    /\ SameBlock(m, o, n, o)
=============================================================================
