-------------------------- MODULE CallableInvariant --------------------------
(***************************************************************************)
(* The inductive invariant behind the ownership properties of CallableBase,*)
(* and the traits for which it is one.                                     *)
(***************************************************************************)
EXTENDS CallableBase, Ownership

(* Between calls the owners are the callables that exist.                  *)
Inv ==
  /\ alive \subseteq Callables
  /\ last.result \in {"ok", "threw", "terminated", "aborted"}
  /\ Sound(mem, alive)

(* The traits and functors for which the invariant is proved: what is      *)
(* copied and destroyed goes through a manager, a callable has a mover, be *)
(* it bitwise, and a functor that manager_generic stores is constructed    *)
(* without throwing.  Of the others the runs that expect a violation show  *)
(* that they do not keep it.                                               *)
ManagedTraits ==
  /\ Copyable # "trivial"
  /\ Moveable # "na"
  /\ Destructor # "trivial"
  /\ SafeGenerics
=============================================================================
