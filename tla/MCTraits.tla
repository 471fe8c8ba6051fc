------------------------------ MODULE MCTraits ------------------------------
(***************************************************************************)
(* CrossTraits for TLC: pairs of traits classes, and functors that callables*)
(* of either class store.                                                  *)
(***************************************************************************)
EXTENDS CrossTraits, TLC

CONSTANTS
  A, B, C,                  (* classes *)
  a1, a2, b1, c1,           (* callables, named for their classes *)
  emptyA, emptyB, emptyC,   (* empty handlers *)
  strA, strB, strC,         (* small functors with a destructor *)
  arrayB, arrayC            (* large functors with a destructor *)

MCClassOf ==
  [c \in Callables |-> IF c = b1 THEN B ELSE IF c = c1 THEN C ELSE A]

MCStoredBy ==
  [F \in Vtables |->
     CASE F \in {emptyA, strA} -> A
       [] F \in {emptyB, strB, arrayB} -> B
       [] F \in {emptyC, strC, arrayC} -> C]

MCEmptyOf ==
  [k \in Classes |-> CASE k = A -> emptyA [] k = B -> emptyB [] k = C -> emptyC]

MCShape ==
  [F \in Functors |->
     [pod |-> FALSE, small |-> F \notin {arrayB, arrayC}, ptrSmall |-> FALSE,
      aligned |-> TRUE, emptyAllocator |-> TRUE, copyThrows |-> FALSE,
      moveThrows |-> FALSE, nothrowAssignable |-> TRUE,
      nothrowCopyAssignable |-> FALSE, nullable |-> FALSE]]

-----------------------------------------------------------------------------
(* default_traits and std_traits, as far as the vtable depends on them. *)
std_traits ==
  [destructor |-> "nofail", moveable |-> "supported", copyable |-> "supported",
   is_noexcept |-> FALSE, rtti |-> TRUE, dll_safe_empty_check |-> TRUE,
   sbo_size |-> 4, sbo_alignment |-> 16]

default_traits ==
  [std_traits EXCEPT !.moveable = "nofail", !.rtti = FALSE,
                     !.dll_safe_empty_check = FALSE]

(* The levels that keep ownership: what callables of one class alone need. *)
Managed == [destructor: {"supported", "nofail"},
            moveable: {"supported", "nofail", "trivial"},
            copyable: {"na", "supported", "nofail"}, is_noexcept: BOOLEAN,
            rtti: BOOLEAN, dll_safe_empty_check: BOOLEAN, sbo_size: SboSizes,
            sbo_alignment: SboAlignments]

Levels(base, dll) ==
  {T \in Managed : T.rtti = base.rtti /\ T.is_noexcept = base.is_noexcept
                  /\ T.dll_safe_empty_check = dll}

(* The pairs A = B that compile and cross no slots.  Functors do not throw *)
(* when they are destroyed, so that B's destroyer is one of them; A's may  *)
(* be looser.                                                              *)
Pairs(base, dll) ==
  {p \in [{A, B} -> Levels(base, dll)] :
     /\ p[A].destructor = "supported" /\ p[B].destructor = "nofail"
     /\ Assignable(p[A], p[B]) /\ ~swappable(p[A], p[B])}

AddressPairs == Pairs(default_traits, FALSE)

(* A = B and B = C compile, between classes that are not all alike. *)
Chains ==
  {p \in [{A, B, C} -> {T \in Levels(std_traits, TRUE) :
                          /\ T.destructor = "nofail" /\ T.copyable = "supported"
                          /\ T.moveable # "trivial"}] :
     /\ Assignable(p[A], p[B]) /\ Assignable(p[B], p[C])
     /\ ~swappable(p[A], p[B]) /\ ~swappable(p[B], p[C])
     /\ p[A].sbo_size > p[C].sbo_size}

(* The pairs, with buffers of one size and a third class that is like B.   *)
SafePairs ==
  {[k \in {A, B, C} |-> IF k = A THEN p[A] ELSE p[B]] :
     p \in {q \in Pairs(std_traits, TRUE) : q[A].sbo_size = 4}}

CheckedPrograms == SafePairs \cup Chains

(* The two callables of class A are alike. *)
Alike == Permutations({a1, a2})

(* Two pairs where the mover of one class is in the place of the cloner of *)
(* the other.                                                              *)
SwappedPairs ==
  LET with(moveable, copyable) ==
            [std_traits EXCEPT !.moveable = moveable, !.copyable = copyable]
      pair(a, b) == [k \in {A, B} |-> IF k = A THEN a ELSE b]
  IN  {pair(with("supported", "na"), with("na", "supported")),
       pair(with("supported", "trivial"), with("trivial", "nofail"))}

(* Classes that differ in RTTI only, in either direction. *)
RttiPairs ==
  {[k \in {A, B} |-> [default_traits EXCEPT !.rtti = (k = B)]],
   [k \in {A, B} |-> [default_traits EXCEPT !.rtti = (k = A)]]}

(* std_traits whose moves do not throw. *)
NofailMoves ==
  {[k \in {A, B} |-> [std_traits EXCEPT !.moveable = "nofail", !.rtti = rtti]] :
     rtti \in BOOLEAN}
=============================================================================
