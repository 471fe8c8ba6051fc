---------------------------- MODULE VtableLayout ----------------------------
(***************************************************************************)
(* The layout of the vtable that a traits class selects, and the           *)
(* compile-time table that decides whether a callable of one traits class  *)
(* can use the vtable of another.                                          *)
(***************************************************************************)
EXTENDS Naturals, SupportLevels

CONSTANTS
  SboSizes,      (* the sizes of buffers in use, in words                   *)
  SboAlignments  (* their alignments, in bytes                              *)

ASSUME SboAssumption == SboSizes \subseteq Nat /\ SboAlignments \subseteq Nat

(* A traits class.  No callable is without a destroyer. *)
TraitsRecord ==
  [destructor: support_level \ {"na"}, moveable: support_level,
   copyable: support_level, is_noexcept: BOOLEAN, rtti: BOOLEAN,
   dll_safe_empty_check: BOOLEAN, sbo_size: SboSizes,
   sbo_alignment: SboAlignments]

(* The members of a vtable, in the order of the base classes of vtable.    *)
Slots == {"invoke", "destroy", "move", "clone", "get_typed_functor", "is_empty"}

(* The primary templates of destroyer, mover and cloner hold a pointer;    *)
(* their specialisations for na and trivial are empty classes.             *)
Points(level) == level \in {"supported", "nofail"}

Has(T, slot) ==
  CASE slot = "invoke"            -> TRUE
    [] slot = "destroy"           -> Points(T.destructor)
    [] slot = "move"              -> Points(T.moveable)
    [] slot = "clone"             -> Points(T.copyable)
    [] slot = "get_typed_functor" -> T.rtti
    [] slot = "is_empty"          -> T.dll_safe_empty_check

(* The number of words before a slot, and in the whole vtable.             *)
Width(T, slot) == IF Has(T, slot) THEN 1 ELSE 0
AfterDestroy(T) == 1 + Width(T, "destroy")
AfterMove(T) == AfterDestroy(T) + Width(T, "move")
AfterClone(T) == AfterMove(T) + Width(T, "clone")
AfterReflector(T) == AfterClone(T) + Width(T, "get_typed_functor")
sizeof_vtable(T) == AfterReflector(T) + Width(T, "is_empty")

Offset(T, slot) ==
  CASE slot = "invoke"            -> 0
    [] slot = "destroy"           -> 1
    [] slot = "move"              -> AfterDestroy(T)
    [] slot = "clone"             -> AfterMove(T)
    [] slot = "get_typed_functor" -> AfterClone(T)
    [] slot = "is_empty"          -> AfterReflector(T)

(* What a callable of traits T finds where it looks for a slot, in the     *)
(* vtable of a target that was stored by a callable of traits O.           *)
Found(T, slot, O) ==
  {s \in Slots : Has(O, s) /\ Offset(O, s) = Offset(T, slot)}

-----------------------------------------------------------------------------
(* Mutant: a nofail slot is content with any pointer. *)
mutant_compatible_vtable_function_entry(me, other) ==
  me = other \/ (Points(me) /\ Points(other))

compatible_vtable_function_entry(me, other) ==
  \/ me = other
  \/ me = "supported" /\ other \notin {"na", "trivial"}
  \/ me = "na" /\ other = "trivial"

(* The mover of one takes the place of the cloner of the other. *)
swappable(T, O) ==
  /\ ~compatible_vtable_function_entry(T.copyable, O.copyable)
  /\ ~compatible_vtable_function_entry(T.moveable, O.moveable)
  /\ compatible_vtable_function_entry(T.moveable, O.copyable)
  /\ compatible_vtable_function_entry(T.copyable, O.moveable)

(* Booleans compare as numbers: other >= me. *)
compatible_vtables(T, O) ==
  /\ compatible_vtable_function_entry(T.destructor, O.destructor)
  /\ \/ swappable(T, O)
     \/ /\ compatible_vtable_function_entry(T.moveable, O.moveable)
        /\ compatible_vtable_function_entry(T.copyable, O.copyable)
  /\ T.is_noexcept => O.is_noexcept
  /\ \/ O.rtti = T.rtti
     \/ ~T.rtti /\ ~T.dll_safe_empty_check
  /\ T.dll_safe_empty_check => O.dll_safe_empty_check

(* Assigning a callable of traits O to one of traits T compiles: the       *)
(* static_asserts of assign_functionoid_direct, and those of the vtable    *)
(* that is instantiated for O's callable as if it were a functor.  Where O *)
(* cannot be copied the branch that would move does not compile.           *)
Assignable(T, O) ==
  /\ compatible_vtables(T, O)
  /\ T.sbo_size >= O.sbo_size
  /\ T.sbo_alignment >= O.sbo_alignment
  /\ O.copyable # "na"
  /\ sizeof_vtable(T) = sizeof_vtable(O)
  /\ T.copyable \in AtLeastNofail => O.copyable \in AtLeastNofail

-----------------------------------------------------------------------------
(* What compatibility is for.  Every slot T uses is the same slot of O;    *)
(* and where T does without a call, copies bytes or counts on no exception,*)
(* O's targets allow it.                                                   *)
Honours(me, other) == me \in AtLeastNofail => other = me

Agree(T, O) ==
  /\ \A s \in Slots : Has(T, s) => Has(O, s) /\ Offset(O, s) = Offset(T, s)
  /\ Honours(T.destructor, O.destructor)
  /\ Honours(T.moveable, O.moveable)
  /\ Honours(T.copyable, O.copyable)
  /\ T.is_noexcept => O.is_noexcept
=============================================================================
