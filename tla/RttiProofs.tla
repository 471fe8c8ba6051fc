----------------------------- MODULE RttiProofs -----------------------------
(***************************************************************************)
(* Pointers to targets, proved for any number of callables, functors,      *)
(* reference wrappers and values: one that target() gave out is what       *)
(* target() returns for as long as the target is where it was, in whatever *)
(* callable; and contains() follows the target too.                        *)
(*                                                                         *)
(* What the program does with its pointer adds no step to CallableBase, so *)
(* ownership is as proved there; what is new is where a target is.         *)
(***************************************************************************)
EXTENDS Rtti, ContractProofs

(* The pointer the program holds is to the target of its holder.           *)
HeldInv ==
  \/ held = NoPointer
  \/ /\ held \in [p: Objects \cup Blocks \cup Values,
                  type: Types \cup {EmptyHandler}, holder: alive]
     /\ held.p = actual_functor_ptr(mem, held.holder)
     /\ held.type = target_type(mem, held.holder)

RttiInv == Inv /\ HeldInv

-----------------------------------------------------------------------------
(* Where targets are. *)

(* A reference wrapper is a functor in the buffer; nothing else is what    *)
(* its name is not.                                                        *)
LEMMA RttiFacts ==
  /\ \A F \in ByRef : F \in Functors /\ functor_manager(F) = "ptr" /\ ~OnHeap(F)
  /\ EmptyVtable \notin ByRef /\ ~OnHeap(EmptyVtable)
  /\ EmptyHandler \notin Types
  /\ nullptr \notin Objects \cup Blocks \cup Values
  /\ \A v \in Values : v \notin Objects \cup Blocks
  /\ \A o \in Objects : o \notin Blocks
BY RttiAssumption, OneEmptyVtable, ManagerType, Distinct

(* A target is somewhere: in the object, in a block, or elsewhere in the   *)
(* program when it was stored by reference.                                *)
LEMMA PlaceType ==
  ASSUME NEW m, NEW A, Sound(m, A), NEW c \in A
  PROVE  /\ actual_functor_ptr(m, c) \in Objects \cup Blocks \cup Values
         /\ target_type(m, c) \in Types \cup {EmptyHandler}
<1>1. Good(m, c) /\ c \in Objects /\ m \in MemoryType
  BY DEF Sound
<1>2. actual_functor_ptr(m, c) \in Objects \cup Blocks \cup Values
  <2>1. CASE m.vtable[c] \in ByRef
    <3>1. Target(m, c, m.vtable[c]) \in Images
      BY <1>1, <2>1, RttiFacts, OneEmptyVtable DEF Good
    <3> QED  BY <2>1, <3>1 DEF actual_functor_ptr, Images
  <2>2. CASE m.vtable[c] \notin ByRef
    BY <1>1, <2>2 DEF actual_functor_ptr, functor_ptr, Good, MemoryType
  <2> QED  BY <2>1, <2>2
<1>3. target_type(m, c) \in Types \cup {EmptyHandler}
  BY <1>1, OneEmptyVtable DEF target_type, get_typed_functor, Types, Good
<1> QED  BY <1>2, <1>3

(* A target that stays, or is handed on without being in the buffer, stays *)
(* where it is, and of the type it is of.                                  *)
LEMMA SamePlace ==
  ASSUME NEW m, NEW n, NEW s, NEW c, n.vtable[c] = m.vtable[s],
         SameBlock(m, s, n, c),
         m.vtable[s] \in ByRef => TargetOf(n, c) = TargetOf(m, s),
         c = s \/ OnHeap(m.vtable[s]) \/ m.vtable[s] \in ByRef
  PROVE  /\ actual_functor_ptr(n, c) = actual_functor_ptr(m, s)
         /\ target_type(n, c) = target_type(m, s)
<1>1. target_type(n, c) = target_type(m, s)
  BY DEF target_type, get_typed_functor
<1>2. CASE m.vtable[s] \in ByRef
  BY <1>1, <1>2 DEF actual_functor_ptr, TargetOf
<1>3. CASE m.vtable[s] \notin ByRef
  BY <1>1, <1>3 DEF actual_functor_ptr, functor_ptr, SameBlock
<1> QED  BY <1>2, <1>3

-----------------------------------------------------------------------------
(* The held pointer, over one call. *)

(* A pointer to a target that stays. *)
LEMMA PointerKept ==
  ASSUME Inv, HeldInv, held' = held, NEW B, SameTargets(mem, mem', B),
         held # NoPointer => held.holder \in B, B \subseteq alive'
  PROVE  HeldInv'
<1>1. CASE held = NoPointer
  BY <1>1 DEF HeldInv, NoPointer
<1>2. CASE held # NoPointer
  <2> DEFINE c == held.holder
  <2>1. c \in B /\ c \in alive /\ c \in alive'
    BY <1>2 DEF HeldInv
  <2>2. mem'.vtable[c] = mem.vtable[c] /\ SameBlock(mem, c, mem', c)
    BY <2>1 DEF SameTargets
  <2>3. mem.vtable[c] \in ByRef => TargetOf(mem', c) = TargetOf(mem, c)
    BY <2>1, RttiFacts, OneEmptyVtable DEF SameTargets
  <2>4. /\ actual_functor_ptr(mem', c) = actual_functor_ptr(mem, c)
        /\ target_type(mem', c) = target_type(mem, c)
    BY <2>2, <2>3, SamePlace
  <2> QED  BY <1>2, <2>1, <2>4 DEF HeldInv
<1> QED  BY <1>1, <1>2

(* A pointer to a target that the call may have ended. *)
LEMMA PointerDropped ==
  ASSUME Inv, HeldInv, NEW c, Drop({c}), SameTargets(mem, mem', alive \ {c}),
         alive \ {c} \subseteq alive'
  PROVE  HeldInv'
<1>1. CASE held' = NoPointer
  BY <1>1 DEF HeldInv, NoPointer
<1>2. CASE held' # NoPointer
  <2>1. held' = held /\ held.holder # c
    BY <1>2 DEF Drop
  <2>2. held # NoPointer => held.holder \in alive \ {c}
    BY <2>1 DEF HeldInv
  <2> QED  BY <2>1, <2>2, PointerKept
<1> QED  BY <1>1, <1>2

(* A pointer to a target that goes from s to c. *)
LEMMA PointerMoves ==
  ASSUME Inv, HeldInv, NEW s, NEW c, held # NoPointer, held.holder = s,
         held' = [held EXCEPT !.holder = c], c \in alive', ~InBuffer(s),
         mem'.vtable[c] = mem.vtable[s], SameBlock(mem, s, mem', c),
         mem.vtable[s] # EmptyVtable => TargetOf(mem', c) = TargetOf(mem, s)
  PROVE  HeldInv'
<1>1. OnHeap(mem.vtable[s]) \/ mem.vtable[s] \in ByRef
  BY DEF InBuffer, functor_ptr
<1>2. mem.vtable[s] \in ByRef => TargetOf(mem', c) = TargetOf(mem, s)
  BY RttiFacts
<1>3. /\ actual_functor_ptr(mem', c) = actual_functor_ptr(mem, s)
      /\ target_type(mem', c) = target_type(mem, s)
  BY <1>1, <1>2, SamePlace
<1> QED  BY <1>3 DEF HeldInv

(* What a move does to the pointer. *)
LEMMA PointerHanded ==
  ASSUME Inv, HeldInv, NEW s, NEW c, s \in alive, c # s, Hand(s, c), HandedOn(s, c),
         alive' = alive \cup {c}
  PROVE  HeldInv'
<1>1. CASE held' = NoPointer
  BY <1>1 DEF HeldInv, NoPointer
<1>2. CASE held' # NoPointer /\ held.holder = s
  <2>1. held' = [held EXCEPT !.holder = c] /\ ~InBuffer(s)
    BY <1>2 DEF Hand
  <2>2. CASE held = NoPointer
    <3>1. Junk \notin Objects
      BY TokensAssumption
    <3>2. s \in Objects
      BY DEF Inv, Sound
    <3> QED  BY <1>2, <2>2, <3>1, <3>2 DEF NoPointer
  <2>3. CASE held # NoPointer
    <3>1. mem.vtable[s] # EmptyVtable => TargetOf(mem', c) = TargetOf(mem, s)
      BY DEF HandedOn, View
    <3> QED  BY <1>2, <2>1, <2>3, <3>1, PointerMoves DEF HandedOn
  <2> QED  BY <2>2, <2>3
<1>3. CASE held' # NoPointer /\ held.holder # s
  <2>1. held' = held /\ held.holder # c
    BY <1>3 DEF Hand
  <2>2. held # NoPointer => held.holder \in alive \ {c, s}
    BY <1>3, <2>1 DEF HeldInv
  <2>3. SameTargets(mem, mem', alive \ {c, s})
    BY DEF HandedOn
  <2> QED  BY <2>1, <2>2, <2>3, PointerKept
<1> QED  BY <1>1, <1>2, <1>3

-----------------------------------------------------------------------------
(* The calls. *)

(* Every step is a call on the callables, or one that only asks.           *)
LEMMA CallOrQuestion ==
  ASSUME NextT
  PROVE  HeapBound /\ (Next \/ UNCHANGED vars)
<1>1. Running /\ HeapBound
  BY DEF NextT
<1>2. Step \/ UNCHANGED vars
  BY DEF NextT, Step, InvokeT, AssignFunctorT, CopyAssignT, MoveConstructT, MoveAssignT,
         SwapT, Acquire
<1> QED  BY <1>1, <1>2 DEF Next

(* Construction, of whatever target, and asking nothing of the pointer.    *)
LEMMA ConstructKeepsPointer ==
  ASSUME ManagedTraits, Inv, HeapBound, HeldInv, UNCHANGED held, NEW c \in Callables,
         \/ DefaultConstruct(c)
         \/ \E x \in Storable : ConstructFrom(c, x, "copy")
         \/ \E s \in Callables : CopyConstruct(c, s)
  PROVE  HeldInv'
<1>1. SameTargets(mem, mem', alive) /\ alive \subseteq alive'
  <2>1. CASE DefaultConstruct(c)
    BY <2>1, DefaultConstructEffect
  <2>2. ASSUME NEW x \in Storable, ConstructFrom(c, x, "copy")
        PROVE  SameTargets(mem, mem', alive) /\ alive \subseteq alive'
    <3>1. "copy" \in Forms
      BY DEF Forms
    <3> QED  BY <2>2, <3>1, ConstructFromEffect DEF Terminate, SameTargets, SameBlock
  <2>3. ASSUME NEW s \in Callables, CopyConstruct(c, s)
        PROVE  SameTargets(mem, mem', alive) /\ alive \subseteq alive'
    BY <2>3, CopyConstructEffect
  <2> QED  BY <2>1, <2>2, <2>3
<1>2. held # NoPointer => held.holder \in alive
  BY DEF HeldInv
<1> QED  BY <1>1, <1>2, PointerKept

(* A pointer that is asked for is to the target it was asked of. *)
LEMMA AcquirePointer ==
  ASSUME Inv, NEW c \in Callables, NEW Q \in Qualified, Acquire(c, Q)
  PROVE  HeldInv'
<1> DEFINE f == get_typed_functor(mem, c)
<1>1. /\ c \in alive /\ mem' = mem /\ alive' = alive
      /\ held' = [p |-> target_of(mem, c, Q), type |-> Q.type, holder |-> c]
      /\ target_of(mem, c, Q) # nullptr
  BY DEF Acquire, vars
<1>2. target_of(mem, c, Q) = f.p /\ f.type = Q.type
  BY <1>1 DEF target_of, get_functor_if_types_match
<1>3. f.p = actual_functor_ptr(mem, c) /\ f.type = target_type(mem, c)
  BY DEF get_typed_functor, target_type
<1>4. /\ f.p \in Objects \cup Blocks \cup Values
      /\ f.type \in Types \cup {EmptyHandler}
  BY <1>1, <1>3, PlaceType DEF Inv
<1> HIDE DEF f
<1>5. held'.p = actual_functor_ptr(mem', c) /\ held'.type = target_type(mem', c)
  BY <1>1, <1>2, <1>3
<1> QED  BY <1>1, <1>2, <1>4, <1>5 DEF HeldInv

(* Invoking a target does not move it; a referred one it may change.       *)
LEMMA InvokeKeepsPointer ==
  ASSUME ManagedTraits, Inv, HeldInv, NEW c \in Callables, InvokeT(c)
  PROVE  HeldInv'
<1>1. /\ alive' = alive /\ held' = held
      /\ mem.vtable[c] \in ByRef => mem' = mem
      /\ \/ mem' = mem
         \/ /\ SameTargets(mem, mem', alive \ {c}) /\ mem'.vtable = mem.vtable
            /\ SameBlock(mem, c, mem', c)
  BY InvokeEffect DEF InvokeT
<1>2. CASE mem' = mem
  BY <1>1, <1>2 DEF HeldInv
<1>3. CASE held = NoPointer
  BY <1>1, <1>3 DEF HeldInv, NoPointer
<1>4. CASE mem' # mem /\ held # NoPointer /\ held.holder # c
  <2>1. held.holder \in alive \ {c}
    BY <1>4 DEF HeldInv
  <2> QED  BY <1>1, <1>4, <2>1, PointerKept
<1>5. CASE mem' # mem /\ held # NoPointer /\ held.holder = c
  <2>1. mem.vtable[c] \notin ByRef /\ mem'.vtable[c] = mem.vtable[c]
    BY <1>1, <1>5
  <2>2. /\ actual_functor_ptr(mem', c) = actual_functor_ptr(mem, c)
        /\ target_type(mem', c) = target_type(mem, c)
    BY <1>1, <1>5, <2>1, SamePlace
  <2> QED  BY <1>1, <1>5, <2>2 DEF HeldInv
<1> QED  BY <1>2, <1>3, <1>4, <1>5

(* Assigning a functor, or failing to.                                     *)
LEMMA AssignFunctorPointer ==
  ASSUME ManagedTraits, Inv, HeapBound, HeldInv, NEW c \in Callables, NEW x \in Storable,
         NEW form \in Forms, AssignFunctorT(c, x, form)
  PROVE  HeldInv'
<1>1. AssignFunctor(c, x, form, "assign")
  BY DEF AssignFunctorT
<1>2. CASE /\ Finish("assign", "ok") /\ alive' = alive
           /\ SameTargets(mem, mem', alive \ {c})
  <2>1. Drop({c})
    BY <1>2 DEF AssignFunctorT, Finish
  <2> QED  BY <1>2, <2>1, PointerDropped
<1>3. CASE \/ /\ Finish("assign", "threw") /\ alive' = alive
              /\ SameTargets(mem, mem', alive)
           \/ Terminate("assign")
  <2>1. held' = held /\ alive' = alive /\ SameTargets(mem, mem', alive)
    BY <1>3 DEF AssignFunctorT, Finish, Terminate, SameTargets, SameBlock
  <2>2. held # NoPointer => held.holder \in alive
    BY DEF HeldInv
  <2> QED  BY <2>1, <2>2, PointerKept
<1> QED  BY <1>1, <1>2, <1>3, AssignFunctorEffect

(* Copy assignment ends the target of its destination only.                *)
LEMMA CopyAssignPointer ==
  ASSUME ManagedTraits, Inv, HeapBound, HeldInv, NEW c \in Callables, NEW s \in Callables,
         CopyAssignT(c, s)
  PROVE  HeldInv'
<1>1. CopyAssign(c, s, "const")
  BY DEF CopyAssignT
<1>2. alive' = alive /\ SameTargets(mem, mem', alive \ {c}) /\ (c = s => mem' = mem)
  BY <1>1, CopyAssignEffect DEF Terminate, SameTargets, SameBlock
<1>3. CASE c = s
  BY <1>2, <1>3 DEF CopyAssignT, HeldInv
<1>4. CASE c # s
  BY <1>2, <1>4, PointerDropped DEF CopyAssignT
<1> QED  BY <1>3, <1>4

(* Move construction hands the target of its source over.                  *)
LEMMA MoveConstructPointer ==
  ASSUME ManagedTraits, Inv, HeldInv, NEW c \in Callables, NEW s \in Callables,
         MoveConstructT(c, s)
  PROVE  HeldInv'
<1>1. MoveConstruct(c, s)
  BY DEF MoveConstructT
<1>2. c \notin alive /\ s \in alive /\ c # s
  BY <1>1, MoveConstructEffect
<1>3. CASE Finish("move_construct", "ok") /\ alive' = alive \cup {c} /\ HandedOn(s, c)
  BY <1>2, <1>3, PointerHanded DEF MoveConstructT, Finish
<1>4. CASE Terminate("move_construct")
  BY <1>4 DEF MoveConstructT, Terminate, Finish, HeldInv
<1> QED  BY <1>1, <1>3, <1>4, MoveConstructEffect

(* So does move assignment, unless it is to itself, or throws. *)
LEMMA MoveAssignPointer ==
  ASSUME ManagedTraits, Inv, HeldInv, NEW c \in Callables, NEW s \in Callables,
         MoveAssignT(c, s)
  PROVE  HeldInv'
<1>1. MoveAssign(c, s)
  BY DEF MoveAssignT
<1>2. c \in alive /\ s \in alive /\ alive' = alive /\ alive' = alive \cup {c}
  <2>1. c \in alive /\ s \in alive /\ alive' = alive
    BY <1>1, MoveAssignEffect
  <2> QED  BY <2>1
<1>3. CASE Finish("move_assign", "ok") /\ c = s /\ mem' = mem
  BY <1>2, <1>3 DEF MoveAssignT, HeldInv
<1>4. CASE Finish("move_assign", "ok") /\ c # s /\ HandedOn(s, c)
  BY <1>2, <1>4, PointerHanded DEF MoveAssignT, Finish
<1>5. CASE /\ Finish("move_assign", "threw") /\ c # s
           /\ SameTargets(mem, mem', alive \ {c, s})
           /\ mem'.vtable[s] = mem.vtable[s]
           /\ functor_manager(mem.vtable[s]) = "small"
  <2>1. held' = IF held.holder = c THEN NoPointer ELSE held
    BY <1>5 DEF MoveAssignT, Finish, Drop
  <2>2. CASE held' = NoPointer
    BY <2>2 DEF HeldInv, NoPointer
  <2>3. CASE held' # NoPointer /\ held.holder = s
    <3>1. ~OnHeap(mem.vtable[s]) /\ mem.vtable[s] \notin ByRef
      BY <1>5, RttiFacts, ManagerType
    <3>2. SameBlock(mem, s, mem', s)
      BY <3>1 DEF SameBlock
    <3>3. /\ actual_functor_ptr(mem', s) = actual_functor_ptr(mem, s)
          /\ target_type(mem', s) = target_type(mem, s)
      BY <1>5, <3>1, <3>2, SamePlace
    <3> QED  BY <1>2, <2>1, <2>3, <3>3 DEF HeldInv
  <2>4. CASE held' # NoPointer /\ held.holder # s
    <3>1. held' = held /\ held.holder \in alive \ {c, s}
      BY <2>1, <2>4 DEF HeldInv
    <3> QED  BY <1>2, <1>5, <3>1, PointerKept
  <2> QED  BY <2>2, <2>3, <2>4
<1> QED  BY <1>1, <1>3, <1>4, <1>5, MoveAssignEffect

(* swap() hands both targets over. *)
LEMMA SwapPointer ==
  ASSUME ManagedTraits, Inv, HeldInv, NEW a \in Callables, NEW b \in Callables, SwapT(a, b)
  PROVE  HeldInv'
<1>1. Swap(a, b)
  BY DEF SwapT
<1>2. a \in alive /\ b \in alive
  BY <1>1, SwapEffect
<1>3. CASE Terminate("swap") \/ (Finish("swap", "ok") /\ alive' = alive /\ a = b /\ mem' = mem)
  BY <1>3 DEF SwapT, Terminate, Finish, HeldInv
<1>4. CASE /\ Finish("swap", "ok") /\ alive' = alive /\ a # b
           /\ Swapped(mem, mem', alive, a, b)
  <2>1. held' = CASE held.holder \in {a, b} /\ InBuffer(held.holder) -> NoPointer
                  [] held.holder = a /\ ~InBuffer(a) -> [held EXCEPT !.holder = b]
                  [] held.holder = b /\ ~InBuffer(b) -> [held EXCEPT !.holder = a]
                  [] OTHER -> held
    BY <1>4 DEF SwapT, Finish
  <2>2. CASE held.holder \in {a, b} /\ InBuffer(held.holder)
    <3>1. held' = NoPointer
      BY <2>1, <2>2
    <3> QED  BY <3>1 DEF HeldInv, NoPointer
  <2>3. CASE held = NoPointer
    <3>1. Junk \notin {a, b}
      BY <1>2, TokensAssumption DEF Inv, Sound
    <3>2. held' = NoPointer
      BY <1>4, <2>1, <2>3, <3>1 DEF NoPointer
    <3> QED  BY <3>2 DEF HeldInv, NoPointer
  <2>4. CASE held # NoPointer /\ held.holder = a /\ ~InBuffer(a)
    <3>1. held' = [held EXCEPT !.holder = b]
      BY <1>4, <2>1, <2>4
    <3> QED  BY <1>2, <1>4, <2>4, <3>1, PointerMoves DEF Swapped
  <2>5. CASE held # NoPointer /\ held.holder = b /\ ~InBuffer(b)
    <3>1. held' = [held EXCEPT !.holder = a]
      BY <1>4, <2>1, <2>5
    <3> QED  BY <1>2, <1>4, <2>5, <3>1, PointerMoves DEF Swapped
  <2>6. CASE held # NoPointer /\ held.holder \notin {a, b}
    <3>1. held' = held /\ held.holder \in alive \ {a, b}
      BY <2>1, <2>6 DEF HeldInv
    <3> QED  BY <1>4, <3>1, PointerKept DEF Swapped
  <2> QED  BY <2>2, <2>3, <2>4, <2>5, <2>6
<1> QED  BY <1>1, <1>3, <1>4, SwapEffect

-----------------------------------------------------------------------------
(* The theorems about the pointer. *)

(* Every step, of the program or of the callables, keeps the invariant.    *)
LEMMA NextRttiInv ==
  ASSUME ManagedTraits, RttiInv, [NextT]_tvars
  PROVE  RttiInv'
<1>1. Inv /\ HeldInv
  BY DEF RttiInv
<1>2. CASE UNCHANGED tvars
  BY <1>1, <1>2 DEF tvars, vars, RttiInv, Inv, HeldInv
<1>3. CASE NextT
  <2>1. HeapBound /\ (Next \/ UNCHANGED vars)
    BY <1>3, CallOrQuestion
  <2>2. Inv'
    BY <1>1, <2>1, NextInv
  <2>3. ASSUME NEW c \in Callables, Destruct(c) /\ Drop({c}) PROVE HeldInv'
    <3>1. SameTargets(mem, mem', alive \ {c}) /\ alive' = alive \ {c}
      BY <1>1, <2>3, DestructEffect
    <3> QED  BY <1>1, <2>3, <3>1, PointerDropped
  <2>4. ASSUME NEW c \in Callables, Clear(c) /\ Drop({c}) PROVE HeldInv'
    <3>1. SameTargets(mem, mem', alive \ {c}) /\ alive' = alive
      BY <1>1, <2>4, ClearEffect
    <3> QED  BY <1>1, <2>4, <3>1, PointerDropped
  <2>5. HeldInv'
    BY <1>1, <1>3, <2>1, <2>3, <2>4, ConstructKeepsPointer, MoveConstructPointer,
       AssignFunctorPointer, CopyAssignPointer, MoveAssignPointer, SwapPointer,
       InvokeKeepsPointer, AcquirePointer
    DEF NextT
  <2> QED  BY <2>2, <2>5 DEF RttiInv
<1> QED  BY <1>2, <1>3

(* A program that keeps pointers to targets keeps the callables sound, and *)
(* the pointer it keeps is to the target of a callable.                    *)
THEOREM PointerInvariant ==
  ASSUME ManagedTraits
  PROVE  SpecT => []RttiInv
<1>1. InitT => RttiInv
  BY InitInv DEF InitT, RttiInv, HeldInv
<1> QED  BY <1>1, NextRttiInv, PTL DEF SpecT

(* What that says of the properties of Rtti. *)
LEMMA RttiInvImplies ==
  ASSUME RttiInv
  PROVE  RttiTypeOK /\ HeldPointerFollows
<1>1. Sound(mem, alive) /\ HeldInv
  BY DEF RttiInv, Inv
<1>2. RttiTypeOK
  BY <1>1, PlaceType DEF RttiTypeOK, HeldInv
<1>3. ASSUME held # NoPointer
      PROVE  /\ held.holder \in alive
             /\ target_of(mem, held.holder, [type |-> held.type, const |-> FALSE,
                                             volatile |-> FALSE]) = held.p
             /\ held.p \in Blocks => /\ held.p \in mem.allocated
                                     /\ Actual[mem.block[held.p].type] = held.type
  <2> DEFINE c == held.holder
  <2>1. /\ c \in alive /\ held.p = actual_functor_ptr(mem, c)
        /\ held.type = target_type(mem, c)
    BY <1>1, <1>3 DEF HeldInv
  <2>2. target_of(mem, c, [type |-> held.type, const |-> FALSE, volatile |-> FALSE]) = held.p
    BY <2>1 DEF target_of, get_functor_if_types_match, get_typed_functor, target_type
  <2>3. ASSUME held.p \in Blocks
        PROVE  held.p \in mem.allocated /\ Actual[mem.block[held.p].type] = held.type
    <3>1. Good(mem, c) /\ c \in Objects
      BY <1>1, <2>1 DEF Sound
    <3>2. mem.vtable[c] \notin ByRef
      <4>1. mem.vtable[c] \in ByRef => Target(mem, c, mem.vtable[c]) \in Images
        BY <3>1, RttiFacts, OneEmptyVtable DEF Good
      <4>2. mem.vtable[c] \in ByRef => held.p \in Values
        BY <2>1, <4>1 DEF actual_functor_ptr, Images
      <4> QED  BY <2>3, <4>2, RttiFacts
    <3>3. OnHeap(mem.vtable[c]) /\ held.p = mem.lo[c]
      BY <2>1, <2>3, <3>1, <3>2, RttiFacts DEF actual_functor_ptr, functor_ptr
    <3>4. /\ mem.vtable[c] # EmptyVtable /\ mem.lo[c] \in mem.allocated
          /\ mem.block[mem.lo[c]].type = mem.vtable[c]
      BY <3>1, <3>3, RttiFacts, OneEmptyVtable DEF Good, Target, Pointee
    <3> QED  BY <2>1, <3>3, <3>4 DEF target_type, get_typed_functor
  <2> QED  BY <2>1, <2>2, <2>3
<1> QED  BY <1>2, <1>3 DEF HeldPointerFollows

(* target_type() and target() have their types, whatever was called.       *)
THEOREM PointerTypes ==
  ASSUME ManagedTraits
  PROVE  SpecT => []RttiTypeOK
BY PointerInvariant, RttiInvImplies, PTL

(* A pointer from target() stays what target() returns, through any number *)
(* of moves, swaps and calls on any callables, until its target ends or    *)
(* leaves the buffer it was in.                                            *)
THEOREM PointersFollowTargets ==
  ASSUME ManagedTraits
  PROVE  SpecT => []HeldPointerFollows
BY PointerInvariant, RttiInvImplies, PTL

-----------------------------------------------------------------------------
(* contains() *)

(* contains() compares types and states, wherever the target is. *)
LEMMA ContainsMeaning ==
  ASSUME NEW m, NEW A, Sound(m, A), NEW c \in A, NEW x \in Images
  PROVE  contains(m, c, x) <=>
           /\ View(m, c) # EmptyVtable
           /\ Actual[View(m, c).type] = Actual[x.type]
           /\ View(m, c).val = x.val
<1> DEFINE t == m.vtable[c]
           p == actual_functor_ptr(m, c)
<1>1. Good(m, c) /\ c \in Objects /\ p # nullptr
  BY PlaceType, RttiFacts DEF Sound
<1>2. contains(m, c, x) <=> target_type(m, c) = Actual[x.type] /\ StateAt(m, p) = x.val
  BY <1>1 DEF contains, const_target_of, target_of, get_functor_if_types_match,
              get_typed_functor, target_type
<1>3. CASE t = EmptyVtable
  <2>1. Actual[x.type] \in Types
    BY DEF Images, Types
  <2> QED  BY <1>2, <1>3, <2>1, RttiFacts DEF target_type, get_typed_functor, View
<1>4. CASE t # EmptyVtable
  <2>1. /\ View(m, c) # EmptyVtable /\ View(m, c).type = t /\ View(m, c) \in Images
        /\ View(m, c) = Target(m, c, t)
    BY <1>4, ViewType DEF View, TargetOf
  <2>2. target_type(m, c) = Actual[t]
    BY <1>4 DEF target_type, get_typed_functor
  <2>3. StateAt(m, p) = View(m, c).val
    <3>1. CASE t \in ByRef
      BY <2>1, <3>1 DEF StateAt, actual_functor_ptr, Images
    <3>2. CASE t \notin ByRef /\ OnHeap(t)
      <4>1. p = m.lo[c] /\ m.lo[c] \in m.allocated /\ m.lo[c] \in Blocks
        BY <1>1, <3>2 DEF actual_functor_ptr, functor_ptr, Good, Sound, MemoryType
      <4> QED  BY <2>1, <3>2, <4>1, RttiFacts DEF StateAt, Target, Pointee
    <3>3. CASE t \notin ByRef /\ ~OnHeap(t)
      <4>1. p = c
        BY <3>3 DEF actual_functor_ptr, functor_ptr
      <4> QED  BY <1>1, <2>1, <3>3, <4>1, RttiFacts DEF StateAt, Target
    <3> QED  BY <3>1, <3>2, <3>3
  <2> QED  BY <1>2, <2>1, <2>2, <2>3
<1> QED  BY <1>3, <1>4

(* What a callable contains is a matter of its target. *)
LEMMA SameViewContained ==
  ASSUME NEW m, NEW A, Sound(m, A), NEW s \in A, NEW n, NEW B, Sound(n, B), NEW c \in B
  PROVE  /\ View(n, c) = View(m, s) => Contained(n, c) = Contained(m, s)
         /\ n.vtable[c] = EmptyVtable => Contained(n, c) = {}
<1>1. \A x \in Storable : x \in Images
  BY DEF Storable
<1>2. \A x \in Storable : View(n, c) = View(m, s) =>
                            (contains(n, c, x) <=> contains(m, s, x))
  BY <1>1, ContainsMeaning
<1>3. \A x \in Storable : n.vtable[c] = EmptyVtable => ~contains(n, c, x)
  BY <1>1, ContainsMeaning DEF View
<1> QED  BY <1>2, <1>3 DEF Contained

(* What the target of s was that of c is, and s has none. *)
LEMMA HandedOnContained ==
  ASSUME Inv, Inv', NEW c \in alive', NEW s \in alive, s \in alive', HandedOn(s, c)
  PROVE  Contained(mem', c) = Contained(mem, s) /\ Contained(mem', s) = {}
<1>1. Sound(mem, alive) /\ Sound(mem', alive')
  BY DEF Inv
<1>2. Contained(mem', c) = Contained(mem, s)
  BY <1>1, SameViewContained DEF HandedOn
<1>3. Contained(mem', s) = {}
  BY <1>1, SameViewContained DEF HandedOn
<1> QED  BY <1>2, <1>3

(* One step of ContainsFollowsTarget. *)
LEMMA ContainsStep ==
  ASSUME ManagedTraits, RttiInv, RttiInv', NextT
  PROVE  /\ \A c, s \in Callables :
              (\/ Finish("copy_construct", "ok") /\ CopyConstruct(c, s)
               \/ Finish("copy_assign", "ok") /\ CopyAssign(c, s, "const"))
              => Contained(mem', c) = Contained(mem, s)
         /\ \A c, s \in Callables :
              (\/ Finish("move_construct", "ok") /\ MoveConstruct(c, s)
               \/ Finish("move_assign", "ok") /\ c # s /\ MoveAssign(c, s))
              => Contained(mem', c) = Contained(mem, s) /\ Contained(mem', s) = {}
         /\ \A c \in Callables, x \in Storable :
              (/\ Finish("assign", "ok")
               /\ x.type \notin ByRef /\ ~has_empty_target(x)
               /\ AssignFunctor(c, x, "copy", "assign"))
              => contains(mem', c, x)
<1>1. /\ Inv /\ Inv' /\ HeapBound
      /\ Sound(mem, alive) /\ Sound(mem', alive')
  BY CallOrQuestion DEF RttiInv, Inv
<1>2. ASSUME NEW c \in Callables, NEW s \in Callables,
             Finish("copy_construct", "ok"), CopyConstruct(c, s)
      PROVE  Contained(mem', c) = Contained(mem, s)
  <2>1. c \in alive' /\ s \in alive /\ View(mem', c) = View(mem, s)
    BY <1>1, <1>2, CopyConstructEffect DEF Finish
  <2> QED  BY <1>1, <2>1, SameViewContained
<1>3. ASSUME NEW c \in Callables, NEW s \in Callables,
             Finish("copy_assign", "ok"), CopyAssign(c, s, "const")
      PROVE  Contained(mem', c) = Contained(mem, s)
  <2>1. c \in alive' /\ s \in alive /\ View(mem', c) = View(mem, s)
    BY <1>1, <1>3, CopyAssignEffect DEF Finish, Terminate
  <2> QED  BY <1>1, <2>1, SameViewContained
<1>4. ASSUME NEW c \in Callables, NEW s \in Callables,
             Finish("move_construct", "ok"), MoveConstruct(c, s)
      PROVE  Contained(mem', c) = Contained(mem, s) /\ Contained(mem', s) = {}
  <2>1. c \in alive' /\ s \in alive /\ s \in alive' /\ HandedOn(s, c)
    BY <1>1, <1>4, MoveConstructEffect DEF Finish, Terminate
  <2> QED  BY <1>1, <2>1, HandedOnContained
<1>5. ASSUME NEW c \in Callables, NEW s \in Callables,
             Finish("move_assign", "ok"), c # s, MoveAssign(c, s)
      PROVE  Contained(mem', c) = Contained(mem, s) /\ Contained(mem', s) = {}
  <2>1. c \in alive' /\ s \in alive /\ s \in alive' /\ HandedOn(s, c)
    BY <1>1, <1>5, MoveAssignEffect DEF Finish
  <2> QED  BY <1>1, <2>1, HandedOnContained
<1>6. ASSUME NEW c \in Callables, NEW x \in Storable, Finish("assign", "ok"),
             ~has_empty_target(x), AssignFunctor(c, x, "copy", "assign")
      PROVE  contains(mem', c, x)
  <2>0. "copy" \in Forms
    BY DEF Forms
  <2>1. c \in alive' /\ View(mem', c) = x
    BY <1>1, <1>6, <2>0, AssignFunctorEffect DEF Finish, Terminate, Held
  <2>2. x \in Images /\ x # EmptyVtable
    BY TokensAssumption, OneEmptyVtable DEF Storable
  <2> QED  BY <1>1, <2>1, <2>2, ContainsMeaning
<1> QED  BY <1>2, <1>3, <1>4, <1>5, <1>6

(* A copy contains what its source contains, a moved-to callable what its  *)
(* source contained, and one that was assigned to what it was assigned.    *)
THEOREM ContainsFollows ==
  ASSUME ManagedTraits
  PROVE  SpecT => ContainsFollowsTarget
<1> DEFINE Step3 ==
      /\ \A c, s \in Callables :
           (\/ Finish("copy_construct", "ok") /\ CopyConstruct(c, s)
            \/ Finish("copy_assign", "ok") /\ CopyAssign(c, s, "const"))
           => Contained(mem', c) = Contained(mem, s)
      /\ \A c, s \in Callables :
           (\/ Finish("move_construct", "ok") /\ MoveConstruct(c, s)
            \/ Finish("move_assign", "ok") /\ c # s /\ MoveAssign(c, s))
           => Contained(mem', c) = Contained(mem, s) /\ Contained(mem', s) = {}
      /\ \A c \in Callables, x \in Storable :
           (/\ Finish("assign", "ok")
            /\ x.type \notin ByRef /\ ~has_empty_target(x)
            /\ AssignFunctor(c, x, "copy", "assign"))
           => contains(mem', c, x)
<1>1. RttiInv /\ RttiInv' /\ [NextT]_tvars => [Step3]_vars
  BY ContainsStep DEF tvars
<1>2. ContainsFollowsTarget <=> [][Step3]_vars
  BY DEF ContainsFollowsTarget
<1> HIDE DEF Step3
<1> QED  BY <1>1, <1>2, PointerInvariant, PTL DEF SpecT

=============================================================================
