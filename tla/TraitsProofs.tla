---------------------------- MODULE TraitsProofs ----------------------------
(***************************************************************************)
(* The compatibility table keeps the layouts of vtables in step: proved for*)
(* all traits, and for all programs made of any number of traits classes,  *)
(* callables and functors.                                                 *)
(***************************************************************************)
EXTENDS CrossTraits, OwnershipProofs

-----------------------------------------------------------------------------
(* Layouts. *)

(* No two slots of a vtable are in the same place. *)
LEMMA OffsetsDiffer ==
  ASSUME NEW T \in TraitsRecord, NEW s \in Slots, NEW r \in Slots,
         Has(T, s), Has(T, r), Offset(T, s) = Offset(T, r)
  PROVE  s = r
<1>1. /\ \A q \in Slots : Width(T, q) \in {0, 1} /\ (Has(T, q) => Width(T, q) = 1)
      /\ AfterDestroy(T) = 1 + Width(T, "destroy")
      /\ AfterMove(T) = AfterDestroy(T) + Width(T, "move")
      /\ AfterClone(T) = AfterMove(T) + Width(T, "clone")
      /\ AfterReflector(T) = AfterClone(T) + Width(T, "get_typed_functor")
  BY DEF Width, AfterDestroy, AfterMove, AfterClone, AfterReflector
<1>2. {"destroy", "move", "clone", "get_typed_functor"} \subseteq Slots
  BY DEF Slots
<1>3. /\ AfterDestroy(T) \in Nat /\ AfterMove(T) \in Nat
      /\ AfterClone(T) \in Nat /\ AfterReflector(T) \in Nat
  BY <1>1, <1>2
<1>4. \A q \in Slots :
        Offset(T, q) = CASE q = "invoke"            -> 0
                         [] q = "destroy"           -> 1
                         [] q = "move"              -> AfterDestroy(T)
                         [] q = "clone"             -> AfterMove(T)
                         [] q = "get_typed_functor" -> AfterClone(T)
                         [] q = "is_empty"          -> AfterReflector(T)
  BY DEF Offset
<1>5. Width(T, s) = 1 /\ Width(T, r) = 1
  BY <1>1
<1> QED  BY <1>1, <1>2, <1>3, <1>4, <1>5 DEF Slots

(* compatible_vtable_function_entry lets both have a pointer or neither.   *)
LEMMA CompatibleEntries ==
  ASSUME NEW me \in support_level, NEW other \in support_level,
         compatible_vtable_function_entry(me, other)
  PROVE  /\ Points(me) <=> Points(other)
         /\ Honours(me, other)
BY DEF compatible_vtable_function_entry, Points, Honours, support_level, AtLeastNofail

(* compatible_vtables, where it crosses no slots, does what it is for: each*)
(* slot a callable uses is in its place in the foreign vtable, and whatever*)
(* the callable does without a call or without an exception the foreign    *)
(* targets allow.                                                          *)
THEOREM LayoutAgreement ==
  ASSUME NEW T \in TraitsRecord, NEW O \in TraitsRecord,
         compatible_vtables(T, O), ~swappable(T, O)
  PROVE  Agree(T, O)
<1>1. /\ compatible_vtable_function_entry(T.destructor, O.destructor)
      /\ compatible_vtable_function_entry(T.moveable, O.moveable)
      /\ compatible_vtable_function_entry(T.copyable, O.copyable)
  BY DEF compatible_vtables
<1>2. /\ T.destructor \in support_level /\ O.destructor \in support_level
      /\ T.moveable \in support_level /\ O.moveable \in support_level
      /\ T.copyable \in support_level /\ O.copyable \in support_level
      /\ T.rtti \in BOOLEAN /\ O.rtti \in BOOLEAN
      /\ T.dll_safe_empty_check \in BOOLEAN /\ O.dll_safe_empty_check \in BOOLEAN
  BY DEF TraitsRecord
<1>3. /\ Points(T.destructor) <=> Points(O.destructor)
      /\ Points(T.moveable) <=> Points(O.moveable)
      /\ Points(T.copyable) <=> Points(O.copyable)
      /\ Honours(T.destructor, O.destructor)
      /\ Honours(T.moveable, O.moveable)
      /\ Honours(T.copyable, O.copyable)
  BY <1>1, <1>2, CompatibleEntries
<1>4. AfterClone(T) = AfterClone(O) /\ AfterMove(T) = AfterMove(O)
        /\ AfterDestroy(T) = AfterDestroy(O)
  BY <1>3 DEF AfterClone, AfterMove, AfterDestroy, Width, Has
<1>5. T.rtti => O.rtti
  BY DEF compatible_vtables
<1>6. T.dll_safe_empty_check =>
        O.dll_safe_empty_check /\ AfterReflector(T) = AfterReflector(O)
  BY <1>4 DEF compatible_vtables, AfterReflector, Width, Has
<1>7. ASSUME NEW s \in Slots, Has(T, s) PROVE Has(O, s) /\ Offset(O, s) = Offset(T, s)
  BY <1>3, <1>4, <1>5, <1>6, <1>7 DEF Slots, Has, Offset
<1>8. T.is_noexcept => O.is_noexcept
  BY DEF compatible_vtables
<1> QED  BY <1>3, <1>7, <1>8 DEF Agree

(* Agreement survives a second assignment: a callable may pass on a vtable *)
(* that it took over itself.                                               *)
LEMMA AgreeTransitive ==
  ASSUME NEW T, NEW O, NEW P, Agree(T, O), Agree(O, P)
  PROVE  Agree(T, P)
BY DEF Agree, Honours, AtLeastNofail

LEMMA AgreeReflexive ==
  ASSUME NEW T \in TraitsRecord
  PROVE  Agree(T, T)
BY DEF Agree, Honours

(* Where layouts agree a callable finds the slot it looks for, alone.      *)
LEMMA FoundSlot ==
  ASSUME NEW T \in TraitsRecord, NEW O \in TraitsRecord, Agree(T, O),
         NEW slot \in Slots, Has(T, slot)
  PROVE  Found(T, slot, O) = {slot}
<1>1. Has(O, slot) /\ Offset(O, slot) = Offset(T, slot)
  BY DEF Agree
<1>2. \A s \in Slots : Has(O, s) /\ Offset(O, s) = Offset(O, slot) => s = slot
  BY <1>1, OffsetsDiffer
<1> QED  BY <1>1, <1>2 DEF Found

-----------------------------------------------------------------------------
(* Managers, slots and the vtable pointers. *)

(* m is a memory whose vtable pointers are those of v. *)
Keeps(m, v) ==
  /\ m = [f \in DOMAIN m |-> m[f]]
  /\ "vtable" \in DOMAIN m
  /\ m.vtable = v

(* No manager function touches a vtable pointer. *)
LEMMA ManagersKeep ==
  ASSUME NEW m, NEW v, Keeps(m, v), NEW o, NEW d, NEW x, NEW F
  PROVE  /\ Keeps(debug_clear(m, o), v)
         /\ Keeps(debug_clear_ptr(m, o), v) /\ Keeps(debug_clear_target(m, o, F), v)
         /\ Keeps(bitwise(m, o, d, TRUE), v) /\ Keeps(bitwise(m, o, d, FALSE), v)
         /\ Keeps(BeginLifetime(m, o), v) /\ Keeps(EndLifetime(m, o), v)
         /\ Keeps(deallocate(m, o), v)
         /\ Keeps(trivial_small_assign(m, o, x), v) /\ Keeps(ptr_assign(m, o, x), v)
         /\ Keeps(store(m, o, x, F), v)
         /\ Keeps(trivial_small_move(m, o, d), v)
BY DEF Keeps, debug_clear, debug_clear_ptr, debug_clear_target, bitwise, BeginLifetime,
       EndLifetime, deallocate, trivial_small_assign, ptr_assign, store, trivial_small_move

LEMMA AssignKeeps ==
  ASSUME NEW m, NEW v, Keeps(m, v), NEW o, NEW x, NEW F, NEW size, NEW why
  PROVE  /\ Keeps(assign(m, o, x, F, size), v)
         /\ Keeps(assign_failed(m, o, F, why), v)
<1>1. Keeps(small_assign(m, o, x, F), v)
  BY ManagersKeep DEF small_assign
<1>2. Keeps(trivial_heap_assign(m, o, x, size), v)
  BY DEF Keeps, trivial_heap_assign
<1>3. Keeps(generic_assign(m, o, x), v)
  <2> DEFINE n == BeginLifetime(m, Fresh(m))
  <2>1. Keeps(n, v)
    BY ManagersKeep
  <2> HIDE DEF n
  <2>2. Keeps([n EXCEPT !.allocated = @ \cup {Fresh(m)}, !.block[Fresh(m)] = x,
                        !.lo[o] = Fresh(m)], v)
    BY <2>1 DEF Keeps
  <2> QED  BY <2>2 DEF generic_assign, n
<1>4. functor_manager(F) \in {"ptr", "trivial_small", "small", "trivial_heap", "generic"}
  BY DEF functor_manager
<1>5. Keeps(assign(m, o, x, F, size), v)
  BY <1>1, <1>2, <1>3, <1>4, ManagersKeep DEF assign
<1>6. Keeps(assign_failed(m, o, F, why), v)
  <2>1. Keeps(small_assign_failed(m, o, F), v)
    BY ManagersKeep DEF small_assign_failed
  <2>2. Keeps(generic_assign_failed(m, F), v)
    BY DEF Keeps, generic_assign_failed
  <2>3. Keeps([m EXCEPT !.faults = @ \cup If(UnclearedBuffer(m, o), "assertion")], v)
    BY DEF Keeps
  <2> QED  BY <2>1, <2>2, <2>3 DEF assign_failed
<1> QED  BY <1>5, <1>6

LEMMA CloneKeeps ==
  ASSUME NEW m, NEW v, Keeps(m, v), NEW s, NEW d, NEW t
  PROVE  Keeps(clone(m, s, d, t), v)
<1> DEFINE n == [m EXCEPT !.faults = @ \cup ReadFault(m, s, t)]
<1>1. Keeps(n, v)
  BY DEF Keeps
<1>2. Keeps([n EXCEPT !.lo[d] = m.lo[s], !.hi[d] = m.hi[s]], v)
  <2> HIDE DEF n
  <2> QED  BY <1>1 DEF Keeps
<1>3. Keeps(assign(n, d, Target(m, s, t), t, m.hi[s]), v)
  BY <1>1, AssignKeeps
<1> QED  BY <1>2, <1>3 DEF clone

LEMMA DestroyTargetKeeps ==
  ASSUME NEW m, NEW v, Keeps(m, v), NEW o, NEW t
  PROVE  Keeps(destroy_target(m, o, t), v)
<1>1. Keeps(small_destroy(m, o, t), v)
  BY ManagersKeep DEF small_destroy
<1>2. Keeps(trivial_heap_destroy(m, o), v)
  BY ManagersKeep DEF trivial_heap_destroy
<1>3. Keeps(generic_destroy(m, o), v)
  BY ManagersKeep DEF generic_destroy
<1>4. functor_manager(t) \in {"ptr", "trivial_small", "small", "trivial_heap", "generic"}
  BY DEF functor_manager
<1> QED  BY <1>1, <1>2, <1>3, <1>4, ManagersKeep DEF destroy_target

LEMMA MoveKeeps ==
  ASSUME NEW m, NEW v, Keeps(m, v), NEW s, NEW d, NEW t
  PROVE  Keeps(move(m, s, d, t), v)
<1>1. Keeps(ptr_move(m, s, d), v)
  BY ManagersKeep DEF ptr_move
<1>2. Keeps(trivial_small_move(m, s, d), v)
  BY ManagersKeep
<1>3. Keeps(small_move(m, s, d, t), v)
  <2> DEFINE n == [m EXCEPT !.faults = @ \cup If(s \notin m.live, "read_dead")]
  <2>1. Keeps(n, v)
    BY DEF Keeps
  <2>2. Keeps(small_assign(n, d, m.lo[s], t), v)
    BY <2>1, ManagersKeep DEF small_assign
  <2>3. Keeps(small_destroy(small_assign(n, d, m.lo[s], t), s, t), v)
    BY <2>2, ManagersKeep DEF small_destroy
  <2> QED  BY <2>3 DEF small_move
<1>4. functor_manager(t) \in {"ptr", "trivial_small", "small", "trivial_heap", "generic"}
  BY DEF functor_manager
<1> QED  BY <1>1, <1>2, <1>3, <1>4 DEF move, heap_move, OnHeap

-----------------------------------------------------------------------------
(* The invariant. *)

(* No two traits classes of a program are assigned across swapped slots.   *)
SafePrograms ==
  \A p \in Programs : \A j, k \in Classes :
    j # k /\ Assignable(p[j], p[k]) => ~swappable(p[j], p[k])

(* The callables in A have vtables, by v, that agree with their traits.    *)
Layouts(v, A) ==
  /\ A \subseteq Callables
  /\ v \in [Objects -> Vtables \cup {Junk}]
  /\ \A c \in A : v[c] \in Vtables /\ Agree(Of(c), traits[StoredBy[v[c]]])

LayoutInv ==
  /\ traits \in Programs
  /\ Keeps(mem, mem.vtable)
  /\ Layouts(mem.vtable, alive)

LEMMA ClassTraits ==
  ASSUME traits \in Programs
  PROVE  /\ \A k \in Classes : traits[k] \in TraitsRecord
         /\ \A c \in Callables : ClassOf[c] \in Classes /\ Of(c) \in TraitsRecord
         /\ \A F \in Vtables : traits[StoredBy[F]] \in TraitsRecord
         /\ \A k \in Classes : EmptyOf[k] \in EmptyVtables /\ EmptyOf[k] \in Vtables
BY ClassesAssumption DEF Of, Vtables

(* A callable whose vtable agrees with its traits calls the slots it means *)
(* to call, and they leave the vtable pointers alone.                      *)
LEMMA SlotsKeep ==
  ASSUME traits \in Programs, NEW v, NEW A, Layouts(v, A),
         NEW m, Keeps(m, v), NEW c \in A, NEW d
  PROVE  /\ Keeps(destroy(m, c), v)
         /\ Of(c).copyable # "na" => Keeps(clone_slot(m, c, d), v)
         /\ Of(c).moveable # "na" \/ Of(c).copyable # "na" => Keeps(move_to(m, c, d), v)
<1>1. /\ m.vtable = v /\ v[c] \in Vtables /\ c \in Callables
      /\ Agree(Of(c), VtableTraits(m, c))
      /\ Of(c) \in TraitsRecord /\ VtableTraits(m, c) \in TraitsRecord
  BY ClassTraits DEF Keeps, Layouts, VtableTraits
<1>2. \A slot \in Slots :
        Has(Of(c), slot) => Found(Of(c), slot, VtableTraits(m, c)) = {slot}
  BY <1>1, FoundSlot
<1>3. /\ Of(c).destructor \in {"trivial", "supported", "nofail"}
      /\ Of(c).moveable \in {"na", "trivial", "supported", "nofail"}
      /\ Of(c).copyable \in {"na", "trivial", "supported", "nofail"}
  BY <1>1 DEF TraitsRecord, support_level
<1>4. /\ Has(Of(c), "destroy") <=> Of(c).destructor \in {"supported", "nofail"}
      /\ Has(Of(c), "move") <=> Of(c).moveable \in {"supported", "nofail"}
      /\ Has(Of(c), "clone") <=> Of(c).copyable \in {"supported", "nofail"}
  BY DEF Has, Points
<1>5. Keeps(destroy(m, c), v)
  <2>1. CASE Of(c).destructor = "trivial"
    BY <2>1, ManagersKeep DEF destroy
  <2>2. CASE Of(c).destructor # "trivial"
    <3>1. Found(Of(c), "destroy", VtableTraits(m, c)) = {"destroy"}
      BY <1>2, <1>3, <1>4, <2>2 DEF Slots
    <3>2. through(m, c, "destroy", c) = destroy_target(m, c, m.vtable[c])
      BY <3>1 DEF through
    <3> QED  BY <2>2, <3>2, DestroyTargetKeeps DEF destroy
  <2> QED  BY <2>1, <2>2
<1>6. ASSUME Of(c).copyable # "na" PROVE Keeps(clone_slot(m, c, d), v)
  <2>1. CASE Of(c).copyable = "trivial"
    BY <2>1, ManagersKeep DEF clone_slot
  <2>2. CASE Of(c).copyable # "trivial"
    <3>1. Found(Of(c), "clone", VtableTraits(m, c)) = {"clone"}
      BY <1>2, <1>3, <1>4, <1>6, <2>2 DEF Slots
    <3>2. through(m, c, "clone", d) = clone(m, c, d, m.vtable[c])
      BY <3>1 DEF through
    <3> QED  BY <2>2, <3>2, CloneKeeps DEF clone_slot
  <2> QED  BY <2>1, <2>2
<1>7. ASSUME Of(c).moveable # "na" \/ Of(c).copyable # "na"
      PROVE  Keeps(move_to(m, c, d), v)
  <2>1. CASE Of(c).moveable = "na"
    BY <1>6, <1>7, <2>1 DEF move_to
  <2>2. CASE Of(c).moveable = "trivial"
    BY <2>2, ManagersKeep DEF move_to
  <2>3. CASE Of(c).moveable \in {"supported", "nofail"}
    <3>1. Found(Of(c), "move", VtableTraits(m, c)) = {"move"}
      BY <1>2, <1>4, <2>3 DEF Slots
    <3>2. through(m, c, "move", d) = move(m, c, d, m.vtable[c])
      BY <3>1 DEF through
    <3> QED  BY <2>3, <3>2, MoveKeeps DEF move_to
  <2> QED  BY <1>3, <2>1, <2>2, <2>3
<1> QED  BY <1>5, <1>6, <1>7

-----------------------------------------------------------------------------
(* The vtable pointers, one at a time. *)

LEMMA PointerSet ==
  ASSUME NEW m, NEW v, Keeps(m, v), NEW c, NEW F
  PROVE  /\ Keeps(set_vtable(m, c, F), [v EXCEPT ![c] = F])
         /\ Keeps(retire(m, c), [v EXCEPT ![c] = Junk])
BY DEF Keeps, set_vtable, retire

LEMMA LayoutAdded ==
  ASSUME NEW v, NEW A, Layouts(v, A), NEW c \in Callables, NEW F \in Vtables,
         Agree(Of(c), traits[StoredBy[F]])
  PROVE  Layouts([v EXCEPT ![c] = F], A \cup {c})
<1>1. c \in Objects
  BY ClassesAssumption
<1> QED  BY <1>1 DEF Layouts

LEMMA LayoutRemoved ==
  ASSUME NEW v, NEW A, Layouts(v, A), NEW c
  PROVE  Layouts([v EXCEPT ![c] = Junk], A \ {c})
BY ClassesAssumption DEF Layouts

(* The vtables a callable can come by: those of its own class, those of    *)
(* callables of its class, and those of callables it can be assigned from. *)
LEMMA OwnVtable ==
  ASSUME traits \in Programs, NEW c \in Callables, NEW F \in Vtables,
         StoredBy[F] = ClassOf[c]
  PROVE  Agree(Of(c), traits[StoredBy[F]])
BY ClassTraits, AgreeReflexive DEF Of

LEMMA EmptyLayouts ==
  ASSUME traits \in Programs, NEW c \in Callables
  PROVE  EmptyOf[ClassOf[c]] \in Vtables /\ Agree(Of(c), traits[StoredBy[EmptyOf[ClassOf[c]]]])
BY ClassesAssumption, ClassTraits, OwnVtable

LEMMA VtableOfClass ==
  ASSUME NEW v, NEW A, Layouts(v, A), NEW c \in Callables, NEW s \in A,
         ClassOf[c] = ClassOf[s]
  PROVE  v[s] \in Vtables /\ Agree(Of(c), traits[StoredBy[v[s]]])
BY DEF Layouts, Of

LEMMA VtableOfOther ==
  ASSUME SafePrograms, traits \in Programs, NEW v, NEW A, Layouts(v, A),
         NEW c \in Callables, NEW s \in A, Convertible(c, s)
  PROVE  v[s] \in Vtables /\ Agree(Of(c), traits[StoredBy[v[s]]])
<1>1. s \in Callables /\ v[s] \in Vtables /\ Agree(Of(s), traits[StoredBy[v[s]]])
  BY DEF Layouts
<1>2. ~swappable(Of(c), Of(s)) /\ compatible_vtables(Of(c), Of(s))
  BY <1>1, ClassTraits DEF Convertible, SafePrograms, Of, Assignable
<1>3. Agree(Of(c), Of(s))
  BY <1>1, <1>2, ClassTraits, LayoutAgreement
<1> QED  BY <1>1, <1>3, AgreeTransitive

-----------------------------------------------------------------------------
(* The steps. *)

LEMMA StepDone ==
  ASSUME LayoutInv, UNCHANGED traits, NEW v, Keeps(mem', v), Layouts(v, alive')
  PROVE  LayoutInv'
BY DEF LayoutInv, Keeps, Layouts, Of

LEMMA DefaultConstructLayout ==
  ASSUME LayoutInv, UNCHANGED traits, NEW c \in Callables, DefaultConstruct(c)
  PROVE  LayoutInv'
<1>1. Keeps(mem', [mem.vtable EXCEPT ![c] = EmptyOf[ClassOf[c]]])
  BY ManagersKeep, PointerSet DEF LayoutInv, DefaultConstruct
<1>2. Layouts([mem.vtable EXCEPT ![c] = EmptyOf[ClassOf[c]]], alive')
  BY EmptyLayouts, LayoutAdded DEF LayoutInv, DefaultConstruct
<1> QED  BY <1>1, <1>2, StepDone

LEMMA ConstructFromLayout ==
  ASSUME LayoutInv, UNCHANGED traits, NEW c \in Callables, NEW x \in Images,
         ConstructFrom(c, x)
  PROVE  LayoutInv'
<1>1. x.type \in Vtables /\ StoredBy[x.type] = ClassOf[c]
  BY DEF Images, Vtables, ConstructFrom, Accepts
<1>2. Keeps(mem', [mem.vtable EXCEPT ![c] = x.type])
  BY ManagersKeep, AssignKeeps, PointerSet DEF LayoutInv, ConstructFrom
<1>3. Layouts([mem.vtable EXCEPT ![c] = x.type], alive')
  BY <1>1, OwnVtable, LayoutAdded DEF LayoutInv, ConstructFrom
<1> QED  BY <1>2, <1>3, StepDone

(* The storage of c, which does not exist, may hold any pointer.           *)
LEMMA LayoutOutside ==
  ASSUME LayoutInv, NEW c \in Callables \ alive
  PROVE  Layouts([mem.vtable EXCEPT ![c] = Junk], alive)
<1>1. alive \ {c} = alive
  OBVIOUS
<1> QED  BY <1>1, LayoutRemoved DEF LayoutInv

LEMMA CopyConstructLayout ==
  ASSUME LayoutInv, UNCHANGED traits, NEW c \in Callables, NEW s \in Callables,
         CopyConstruct(c, s)
  PROVE  LayoutInv'
<1> DEFINE v == mem.vtable
           m == debug_clear(mem, c)
<1>1. Keeps(m, v) /\ Layouts(v, alive) /\ s \in alive /\ traits \in Programs
  BY ManagersKeep DEF LayoutInv, CopyConstruct
<1>2. CASE /\ mem' = set_vtable(clone_slot(m, s, c), c, v[s])
           /\ alive' = alive \cup {c}
  <2>1. Keeps(clone_slot(m, s, c), v)
    BY <1>1, SlotsKeep DEF CopyConstruct, Of
  <2>2. Keeps(mem', [v EXCEPT ![c] = v[s]])
    BY <1>2, <2>1, PointerSet
  <2>3. Layouts([v EXCEPT ![c] = v[s]], alive')
    BY <1>1, <1>2, VtableOfClass, LayoutAdded DEF CopyConstruct
  <2> QED  BY <2>2, <2>3, StepDone
<1>3. CASE /\ \E why \in CloneFailures(s) : mem' = retire(assign_failed(m, c, v[s], why), c)
           /\ alive' = alive
  <2>1. Keeps(mem', [v EXCEPT ![c] = Junk])
    BY <1>1, <1>3, AssignKeeps, PointerSet
  <2>2. Layouts([v EXCEPT ![c] = Junk], alive')
    BY <1>3, LayoutOutside DEF CopyConstruct
  <2> QED  BY <2>1, <2>2, StepDone
<1> QED  BY <1>2, <1>3 DEF CopyConstruct

LEMMA MoveConstructLayout ==
  ASSUME LayoutInv, UNCHANGED traits, NEW c \in Callables, NEW s \in Callables,
         MoveConstruct(c, s)
  PROVE  LayoutInv'
<1> DEFINE v == mem.vtable
           m == debug_clear(mem, c)
           w == [v EXCEPT ![c] = v[s]]
<1>1. Keeps(m, v) /\ Layouts(v, alive) /\ s \in alive /\ traits \in Programs
  BY ManagersKeep DEF LayoutInv, MoveConstruct
<1>2. Keeps(move_to(m, s, c), v)
  BY <1>1, SlotsKeep DEF MoveConstruct, Of
<1>3. Keeps(mem', [w EXCEPT ![s] = EmptyOf[ClassOf[s]]])
  BY <1>2, PointerSet DEF MoveConstruct
<1>4. Layouts(w, alive \cup {c})
  BY <1>1, VtableOfClass, LayoutAdded DEF MoveConstruct
<1>5. Layouts([w EXCEPT ![s] = EmptyOf[ClassOf[s]]], alive \cup {c} \cup {s})
  BY <1>1, <1>4, EmptyLayouts, LayoutAdded
<1>6. alive \cup {c} \cup {s} = alive'
  BY <1>1 DEF MoveConstruct
<1> QED  BY <1>3, <1>5, <1>6, StepDone

LEMMA ClearLayout ==
  ASSUME LayoutInv, UNCHANGED traits, NEW c \in Callables, Clear(c)
  PROVE  LayoutInv'
<1> DEFINE v == [mem.vtable EXCEPT ![c] = EmptyOf[ClassOf[c]]]
<1>1. Keeps(mem', v)
  BY SlotsKeep, PointerSet DEF LayoutInv, Clear
<1>2. Layouts(v, alive \cup {c}) /\ alive \cup {c} = alive'
  BY EmptyLayouts, LayoutAdded DEF LayoutInv, Clear
<1> QED  BY <1>1, <1>2, StepDone

LEMMA DestructLayout ==
  ASSUME LayoutInv, UNCHANGED traits, NEW c \in Callables, Destruct(c)
  PROVE  LayoutInv'
<1>1. Keeps(mem', [mem.vtable EXCEPT ![c] = Junk])
  BY SlotsKeep, PointerSet DEF LayoutInv, Destruct
<1>2. Layouts([mem.vtable EXCEPT ![c] = Junk], alive')
  BY LayoutRemoved DEF LayoutInv, Destruct
<1> QED  BY <1>1, <1>2, StepDone

(* take: the clone is made by the source's own slot. *)
LEMMA TakeKeeps ==
  ASSUME LayoutInv, NEW m, Keeps(m, mem.vtable), NEW c \in Callables, NEW s \in alive,
         Convertible(c, s)
  PROVE  Keeps(take(m, c, s), [mem.vtable EXCEPT ![c] = mem.vtable[s]])
<1>1. m.vtable = mem.vtable /\ Of(s).copyable # "na"
  BY DEF Keeps, Convertible, Assignable
<1>2. Keeps(clone_slot(m, s, c), mem.vtable)
  BY <1>1, SlotsKeep DEF LayoutInv
<1> QED  BY <1>1, <1>2, PointerSet DEF take

LEMMA CrossConstructLayout ==
  ASSUME SafePrograms, LayoutInv, UNCHANGED traits, NEW c \in Callables,
         NEW s \in Callables, NEW form \in {"copy", "move"}, CrossConstruct(c, s, form)
  PROVE  LayoutInv'
<1> DEFINE v == mem.vtable
           m == debug_clear(mem, c)
<1>1. /\ Keeps(m, v) /\ Layouts(v, alive) /\ s \in alive /\ traits \in Programs
      /\ Convertible(c, s)
  BY ManagersKeep DEF LayoutInv, CrossConstruct
<1>2. CASE mem' = take(m, c, s) /\ alive' = alive \cup {c}
  <2>1. Keeps(mem', [v EXCEPT ![c] = v[s]])
    BY <1>1, <1>2, TakeKeeps
  <2>2. Layouts([v EXCEPT ![c] = v[s]], alive')
    BY <1>1, <1>2, VtableOfOther, LayoutAdded
  <2> QED  BY <2>1, <2>2, StepDone
<1>3. CASE /\ \E why \in CloneFailures(s) : mem' = retire(assign_failed(m, c, v[s], why), c)
           /\ alive' = alive
  <2>1. Keeps(mem', [v EXCEPT ![c] = Junk])
    BY <1>1, <1>3, AssignKeeps, PointerSet
  <2>2. Layouts([v EXCEPT ![c] = Junk], alive')
    BY <1>3, LayoutOutside DEF CrossConstruct
  <2> QED  BY <2>1, <2>2, StepDone
<1>4. CASE UNCHANGED <<mem, alive>>
  BY <1>4, StepDone DEF LayoutInv
<1> QED  BY <1>2, <1>3, <1>4 DEF CrossConstruct

LEMMA CrossAssignLayout ==
  ASSUME SafePrograms, LayoutInv, UNCHANGED traits, NEW c \in Callables,
         NEW s \in Callables, NEW via \in {"assign", "operator="}, CrossAssign(c, s, via)
  PROVE  LayoutInv'
<1> DEFINE v == mem.vtable
           m == destroy(mem, c)
<1>1. /\ Layouts(v, alive) /\ s \in alive /\ c \in alive /\ traits \in Programs
      /\ Convertible(c, s) /\ alive \cup {c} = alive'
  BY DEF LayoutInv, CrossAssign
<1>2. Keeps(m, v)
  BY <1>1, SlotsKeep DEF LayoutInv
<1>3. CASE mem' = take(m, c, s)
  <2>1. Keeps(mem', [v EXCEPT ![c] = v[s]])
    BY <1>1, <1>2, <1>3, TakeKeeps
  <2>2. Layouts([v EXCEPT ![c] = v[s]], alive')
    BY <1>1, VtableOfOther, LayoutAdded
  <2> QED  BY <2>1, <2>2, StepDone
<1>4. CASE \E why \in CloneFailures(s) : mem' = cleaned(assign_failed(m, c, v[s], why), c)
  <2>1. Keeps(mem', [v EXCEPT ![c] = EmptyOf[ClassOf[c]]])
    <3>1. PICK why : mem' = cleaned(assign_failed(m, c, v[s], why), c)
      BY <1>4
    <3>2. Keeps(assign_failed(m, c, v[s], why), v)
      BY <1>2, AssignKeeps
    <3>3. Keeps(set_vtable(assign_failed(m, c, v[s], why), c, EmptyOf[ClassOf[c]]),
                [v EXCEPT ![c] = EmptyOf[ClassOf[c]]])
      BY <3>2, PointerSet
    <3> QED  BY <3>1, <3>3 DEF cleaned
  <2>2. Layouts([v EXCEPT ![c] = EmptyOf[ClassOf[c]]], alive')
    BY <1>1, EmptyLayouts, LayoutAdded
  <2> QED  BY <2>1, <2>2, StepDone
<1>5. CASE UNCHANGED mem
  BY <1>1, <1>5, StepDone DEF LayoutInv
<1> QED  BY <1>3, <1>4, <1>5 DEF CrossAssign

-----------------------------------------------------------------------------
LEMMA LayoutInit == Init => LayoutInv
<1> SUFFICES ASSUME Init PROVE LayoutInv
  OBVIOUS
<1> DEFINE m == [vtable |-> [o \in Objects |-> Junk],
                 lo |-> [o \in Objects |-> Junk], hi |-> [o \in Objects |-> Junk],
                 allocated |-> {}, block |-> [b \in Blocks |-> Junk],
                 live |-> {}, faults |-> {}]
<1>1. traits \in Programs /\ alive = {} /\ mem = m
  BY DEF Init
<1>2. DOMAIN m = {"vtable", "lo", "hi", "allocated", "block", "live", "faults"}
  OBVIOUS
<1>3. m = [f \in DOMAIN m |-> m[f]]
  BY <1>2
<1>4. Keeps(m, m.vtable)
  <2> HIDE DEF m
  <2> QED  BY <1>2, <1>3 DEF Keeps
<1>5. m.vtable \in [Objects -> Vtables \cup {Junk}]
  OBVIOUS
<1> HIDE DEF m
<1> QED  BY <1>1, <1>4, <1>5 DEF LayoutInv, Layouts

LEMMA LayoutNext ==
  ASSUME SafePrograms, LayoutInv, [Next]_vars
  PROVE  LayoutInv'
<1>1. CASE Next
  BY <1>1, DefaultConstructLayout, ConstructFromLayout, CopyConstructLayout,
     MoveConstructLayout, ClearLayout, DestructLayout, CrossConstructLayout,
     CrossAssignLayout
  DEF Next
<1>2. CASE UNCHANGED vars
  BY <1>2, StepDone DEF vars, LayoutInv
<1> QED  BY <1>1, <1>2

(* Whatever vtables callables pass on to each other, every slot a callable *)
(* calls is the one it means to call.                                      *)
THEOREM LayoutSafety ==
  ASSUME SafePrograms
  PROVE  Spec => []SlotsAgree
<1>1. LayoutInv => SlotsAgree
  BY DEF LayoutInv, Layouts, SlotsAgree, VtableTraits
<1> QED  BY <1>1, LayoutInit, LayoutNext, PTL DEF Spec

(* With dll_safe_empty_check everywhere, a callable that took over an empty*)
(* handler, its own or any other, knows that it is empty.                  *)
THEOREM EmptinessIsKnown ==
  ASSUME SafePrograms,
         \A p \in Programs : \A k \in Classes : p[k].dll_safe_empty_check
  PROVE  Spec => []EmptySourceGivesEmpty
<1>1. ASSUME LayoutInv PROVE EmptySourceGivesEmpty
  <2> SUFFICES ASSUME NEW c \in alive, IsEmptyHandler(mem.vtable[c])
               PROVE  empty(mem, c)
    BY DEF EmptySourceGivesEmpty
  <2>1. /\ c \in Callables /\ mem.vtable[c] \in Vtables /\ traits \in Programs
        /\ Agree(Of(c), VtableTraits(mem, c))
    BY <1>1 DEF LayoutInv, Layouts, VtableTraits
  <2>2. /\ Of(c) \in TraitsRecord /\ VtableTraits(mem, c) \in TraitsRecord
        /\ Of(c).dll_safe_empty_check
    BY <2>1, ClassTraits DEF Of, VtableTraits
  <2>3. Has(Of(c), "is_empty") /\ "is_empty" \in Slots
    BY <2>2 DEF Has, Slots
  <2>4. Found(Of(c), "is_empty", VtableTraits(mem, c)) = {"is_empty"}
    BY <2>1, <2>2, <2>3, FoundSlot
  <2> QED  BY <2>2, <2>4 DEF empty
<1> QED  BY <1>1, LayoutInit, LayoutNext, PTL DEF Spec

-----------------------------------------------------------------------------
(* Ownership across traits. *)

(* The levels for which it is proved: what is copied and destroyed goes    *)
(* through a manager, and a callable has a mover, be it bitwise.           *)
ManagedPrograms ==
  \A p \in Programs : \A k \in Classes :
    p[k].copyable # "trivial" /\ p[k].moveable # "na" /\ p[k].destructor # "trivial"

(* Agreement of layouts is what ownership rests on: the slot a callable    *)
(* finds must be the function of the manager that stored the target.       *)
OwnershipInv ==
  /\ LayoutInv
  /\ Sound(mem, alive)
  /\ last.result \in {"ok", "threw", "terminated"}

(* The slots of a callable whose vtable agrees with its traits are the     *)
(* functions of the manager that stored its target.                        *)
LEMMA SlotsCalled ==
  ASSUME ManagedPrograms, traits \in Programs, NEW A, NEW m, Layouts(m.vtable, A),
         NEW c \in A, NEW d
  PROVE  /\ destroy(m, c) = destroy_target(m, c, m.vtable[c])
         /\ Of(c).copyable # "na" => clone_slot(m, c, d) = clone(m, c, d, m.vtable[c])
         /\ Of(c).moveable # "trivial" => move_to(m, c, d) = move(m, c, d, m.vtable[c])
         /\ Of(c).moveable = "trivial" => move_to(m, c, d) = bitwise(m, c, d, TRUE)
<1>1. /\ Agree(Of(c), VtableTraits(m, c)) /\ c \in Callables
      /\ Of(c) \in TraitsRecord /\ VtableTraits(m, c) \in TraitsRecord
  BY ClassTraits DEF Layouts, VtableTraits
<1>2. /\ Of(c).destructor \in {"supported", "nofail"}
      /\ Of(c).moveable \in {"trivial", "supported", "nofail"}
      /\ Of(c).copyable \in {"na", "supported", "nofail"}
  BY <1>1, ClassTraits DEF TraitsRecord, support_level, ManagedPrograms, Of
<1>3. \A slot \in Slots :
        Has(Of(c), slot) => Found(Of(c), slot, VtableTraits(m, c)) = {slot}
  BY <1>1, FoundSlot
<1>4. Found(Of(c), "destroy", VtableTraits(m, c)) = {"destroy"}
  BY <1>2, <1>3 DEF Has, Points, Slots
<1>5. Of(c).copyable # "na" => Found(Of(c), "clone", VtableTraits(m, c)) = {"clone"}
  BY <1>2, <1>3 DEF Has, Points, Slots
<1>6. Of(c).moveable # "trivial" => Found(Of(c), "move", VtableTraits(m, c)) = {"move"}
  BY <1>2, <1>3 DEF Has, Points, Slots
<1>7. destroy(m, c) = destroy_target(m, c, m.vtable[c])
  BY <1>2, <1>4 DEF destroy, through
<1>8. Of(c).copyable # "na" => clone_slot(m, c, d) = clone(m, c, d, m.vtable[c])
  BY <1>2, <1>5 DEF clone_slot, through
<1>9. Of(c).moveable # "trivial" => move_to(m, c, d) = move(m, c, d, m.vtable[c])
  BY <1>2, <1>6 DEF move_to, through
<1>10. Of(c).moveable = "trivial" => move_to(m, c, d) = bitwise(m, c, d, TRUE)
  BY DEF move_to
<1> QED  BY <1>7, <1>8, <1>9, <1>10

(* What a callable holds is told by its vtable pointer and its target.     *)
LEMMA HeldSame ==
  ASSUME NEW m, NEW n, NEW A, SameTargets(m, n, A)
  PROVE  \A o \in A : Held(n, o) = Held(m, o)
BY DEF SameTargets, Held, IsEmptyHandler, TargetOf

(* The bound on the heap leaves a block for what a call allocates.         *)
LEMMA BlockLeft ==
  ASSUME Sound(mem, alive), HeapBound
  PROVE  \E b \in Blocks : b \notin mem.allocated
BY DEF HeapBound, Sound, MemoryType

(* n is m after c has taken over a copy of what s holds. *)
Taken(m, n, A, c, s) ==
  /\ Sound(n, A \cup {c})
  /\ SameTargets(m, n, A)
  /\ Held(n, c) = Held(m, s)

(* take, between any two traits whose layouts agree.                       *)
LEMMA TakeSound ==
  ASSUME ManagedPrograms, traits \in Programs, NEW m, NEW A, Sound(m, A),
         NEW B, Layouts(m.vtable, B), NEW s \in A, s \in B, NEW c \in Objects \ A,
         Of(s).copyable # "na", \E b \in Blocks : b \notin m.allocated
  PROVE  Taken(m, take(m, c, s), A, c, s)
<1>1. clone_slot(m, s, c) = clone(m, s, c, m.vtable[s])
  BY SlotsCalled
<1>2. take(m, c, s) = Cloned(m, s, c)
  BY <1>1 DEF take, set_vtable, Cloned
<1> DEFINE n == Cloned(m, s, c)
<1>3. /\ Sound(n, A \cup {c}) /\ SameTargets(m, n, A)
      /\ n.vtable[c] = m.vtable[s]
      /\ m.vtable[s] \notin EmptyVtables => TargetOf(n, c) = TargetOf(m, s)
  BY CloneSound
<1>4. Held(n, c) = Held(m, s)
  BY <1>3 DEF Held, IsEmptyHandler, TargetOf
<1> QED  BY <1>2, <1>3, <1>4 DEF Taken

(* destroyer, in a callable whose vtable agrees with its traits.           *)
LEMMA ForeignDestroySound ==
  ASSUME ManagedPrograms, traits \in Programs, NEW m, NEW A, Sound(m, A),
         Layouts(m.vtable, A), NEW c \in A
  PROVE  LET n == destroy(m, c)
         IN  /\ Sound(n, A \ {c}) /\ SameTargets(m, n, A \ {c})
             /\ n.vtable = m.vtable
             /\ n.allocated \subseteq m.allocated
<1>1. destroy(m, c) = destroy_target(m, c, m.vtable[c])
  BY SlotsCalled
<1> DEFINE n == destroy_target(m, c, m.vtable[c])
<1>2. /\ Sound(n, A \ {c}) /\ SameTargets(m, n, A \ {c}) /\ n.vtable = m.vtable
      /\ n.allocated = m.allocated \ HeldBlock(m, c)
  BY DestroyTargetSound
<1> QED  BY <1>1, <1>2

(* cleaner makes an empty owner of a callable that owns nothing.           *)
LEMMA EmptiedSound ==
  ASSUME NEW m, NEW A, Sound(m, A), NEW c \in Callables \ A
  PROVE  LET n == cleaned(m, c)
         IN  /\ Sound(n, A \cup {c}) /\ SameTargets(m, n, A)
             /\ n.vtable[c] = EmptyOf[ClassOf[c]]
<1>1. c \in Objects \ A /\ EmptyOf[ClassOf[c]] \in EmptyVtables
  BY ClassesAssumption
<1> QED  BY <1>1, EmptySound DEF cleaned, set_vtable

(* A clone that fails in an object that owns nothing.                      *)
LEMMA CloneFailedSound ==
  ASSUME SafeGenerics, NEW m, NEW A, Sound(m, A), NEW c \in Objects \ A,
         NEW s \in alive, mem.vtable[s] \in Vtables, NEW why \in CloneFailures(s)
  PROVE  LET n == assign_failed(m, c, mem.vtable[s], why)
         IN  Sound(n, A) /\ SameTargets(m, n, A) /\ n.vtable = m.vtable
<1>1. mem.vtable[s] \in Functors /\ why \in AssignFailures(mem.vtable[s], "copy")
  BY DEF CloneFailures, IsEmptyHandler, Vtables
<1> QED  BY <1>1, AssignFailedSound DEF Forms

-----------------------------------------------------------------------------
(* The calls, and the ownership they leave. *)

OwningPrograms == SafePrograms /\ ManagedPrograms /\ SafeGenerics

LEMMA OwnershipFacts ==
  ASSUME OwningPrograms, OwnershipInv
  PROVE  /\ SafePrograms /\ ManagedPrograms /\ SafeGenerics
         /\ traits \in Programs /\ Sound(mem, alive) /\ Layouts(mem.vtable, alive)
         /\ alive \subseteq Callables /\ Callables \subseteq Objects
         /\ \A c \in alive : mem.vtable[c] \in Vtables
         /\ \A c \in Callables : EmptyOf[ClassOf[c]] \in EmptyVtables
BY ClassesAssumption, ClassTraits
DEF OwningPrograms, OwnershipInv, LayoutInv, Layouts

(* As a constructor begins. *)
LEMMA BegunSound ==
  ASSUME OwningPrograms, OwnershipInv, HeapBound, NEW c \in Callables \ alive
  PROVE  LET m == debug_clear(mem, c)
         IN  /\ Sound(m, alive) /\ SameTargets(mem, m, alive)
             /\ m.vtable = mem.vtable /\ Layouts(m.vtable, alive)
             /\ \E b \in Blocks : b \notin m.allocated
<1>1. c \in Objects \ alive /\ Sound(mem, alive) /\ Layouts(mem.vtable, alive)
  BY OwnershipFacts
<1> DEFINE m == debug_clear(mem, c)
<1>2. /\ Sound(m, alive) /\ SameTargets(mem, m, alive)
      /\ m.vtable = mem.vtable /\ m.allocated = mem.allocated
  BY <1>1, ClearedSound
<1> QED  BY <1>1, <1>2, BlockLeft

(* As an assignment begins, once the old target has been destroyed. *)
LEMMA VacatedSound ==
  ASSUME OwningPrograms, OwnershipInv, HeapBound, NEW c \in alive
  PROVE  LET m == destroy(mem, c)
         IN  /\ Sound(m, alive \ {c}) /\ SameTargets(mem, m, alive \ {c})
             /\ m.vtable = mem.vtable /\ Layouts(m.vtable, alive)
             /\ \E b \in Blocks : b \notin m.allocated
             /\ c \in Callables \ (alive \ {c}) /\ c \in Objects \ (alive \ {c})
             /\ (alive \ {c}) \cup {c} = alive
<1>1. /\ ManagedPrograms /\ traits \in Programs /\ Sound(mem, alive)
      /\ Layouts(mem.vtable, alive) /\ c \in Callables /\ c \in Objects
  BY OwnershipFacts
<1> DEFINE m == destroy(mem, c)
<1>2. /\ Sound(m, alive \ {c}) /\ SameTargets(mem, m, alive \ {c})
      /\ m.vtable = mem.vtable /\ m.allocated \subseteq mem.allocated
  BY <1>1, ForeignDestroySound
<1>3. \E b \in Blocks : b \notin m.allocated
  BY <1>1, <1>2, BlockLeft
<1> QED  BY <1>1, <1>2, <1>3

LEMMA DefaultConstructOwns ==
  ASSUME OwningPrograms, OwnershipInv, HeapBound, NEW c \in Callables,
         DefaultConstruct(c)
  PROVE  Sound(mem', alive')
<1> DEFINE m == debug_clear(mem, c)
<1>1. c \in Callables \ alive /\ Sound(m, alive) /\ alive' = alive \cup {c}
  BY BegunSound DEF DefaultConstruct
<1>2. mem' = cleaned(m, c)
  BY DEF DefaultConstruct, cleaned
<1> QED  BY <1>1, <1>2, EmptiedSound

LEMMA ConstructFromOwns ==
  ASSUME OwningPrograms, OwnershipInv, HeapBound, NEW c \in Callables,
         NEW x \in Images, ConstructFrom(c, x)
  PROVE  Sound(mem', alive')
<1> DEFINE m == debug_clear(mem, c)
<1>1. /\ c \in Objects \ alive /\ Sound(m, alive) /\ alive' = alive \cup {c}
      /\ \E b \in Blocks : b \notin m.allocated
  BY OwnershipFacts, BegunSound DEF ConstructFrom
<1>2. x.type \in Words
  BY DEF Images, Words
<1>3. mem' = [assign(m, c, x, x.type, x.type) EXCEPT !.vtable[c] = x.type]
  BY DEF ConstructFrom, set_vtable
<1> HIDE DEF m
<1> QED  BY <1>1, <1>2, <1>3, AssignSound

LEMMA CopyConstructOwns ==
  ASSUME OwningPrograms, OwnershipInv, HeapBound, NEW c \in Callables,
         NEW s \in Callables, CopyConstruct(c, s)
  PROVE  Sound(mem', alive')
<1> DEFINE m == debug_clear(mem, c)
<1>1. c \in Callables \ alive /\ c \in Objects \ alive /\ s \in alive
      /\ Of(s).copyable # "na" /\ mem.vtable[s] \in Vtables
  BY OwnershipFacts DEF CopyConstruct, Of
<1>2. /\ Sound(m, alive) /\ m.vtable = mem.vtable /\ Layouts(m.vtable, alive)
      /\ \E b \in Blocks : b \notin m.allocated
  BY <1>1, BegunSound
<1>3. CASE /\ mem' = set_vtable(clone_slot(debug_clear(mem, c), s, c), c, mem.vtable[s])
           /\ alive' = alive \cup {c}
  <2>1. mem' = take(m, c, s)
    BY <1>2, <1>3 DEF take
  <2>2. Taken(m, take(m, c, s), alive, c, s)
    BY <1>1, <1>2, OwnershipFacts, TakeSound
  <2> QED  BY <1>3, <2>1, <2>2 DEF Taken
<1>4. CASE /\ \E why \in CloneFailures(s) :
                mem' = retire(assign_failed(debug_clear(mem, c), c, mem.vtable[s], why), c)
           /\ alive' = alive
  <2>1. PICK why \in CloneFailures(s) :
               mem' = retire(assign_failed(m, c, mem.vtable[s], why), c)
    BY <1>4
  <2>2. Sound(assign_failed(m, c, mem.vtable[s], why), alive)
    BY <1>1, <1>2, OwnershipFacts, CloneFailedSound
  <2> QED  BY <1>1, <1>4, <2>1, <2>2, RetireSound
<1> QED  BY <1>3, <1>4 DEF CopyConstruct

LEMMA MoveConstructOwns ==
  ASSUME OwningPrograms, OwnershipInv, HeapBound, NEW c \in Callables,
         NEW s \in Callables, MoveConstruct(c, s)
  PROVE  Sound(mem', alive')
<1> DEFINE m == debug_clear(mem, c)
           E == EmptyOf[ClassOf[s]]
<1>1. c \in Callables \ alive /\ c \in Objects \ alive /\ s \in alive /\ E \in EmptyVtables
  BY OwnershipFacts DEF MoveConstruct
<1>2. Sound(m, alive) /\ m.vtable = mem.vtable /\ Layouts(m.vtable, alive)
  BY <1>1, BegunSound
<1>3. mem' = Revtabled(m, move_to(m, s, c), s, c, E) /\ alive' = alive \cup {c}
  BY <1>2 DEF MoveConstruct, set_vtable, Revtabled
<1>4. /\ Of(s).moveable # "trivial" => move_to(m, s, c) = move(m, s, c, m.vtable[s])
      /\ Of(s).moveable = "trivial" => move_to(m, s, c) = bitwise(m, s, c, TRUE)
  <2>1. ManagedPrograms /\ traits \in Programs
    BY OwnershipFacts
  <2> HIDE DEF m
  <2> QED  BY <1>1, <1>2, <2>1, SlotsCalled
<1> HIDE DEF m, E
<1>5. Moved(m, Revtabled(m, move(m, s, c, m.vtable[s]), s, c, E), alive, s, c, E)
  BY <1>1, <1>2, MoveTargetSound
<1>6. Moved(m, Revtabled(m, bitwise(m, s, c, TRUE), s, c, E), alive, s, c, E)
  BY <1>1, <1>2, BitwiseMoveSound
<1>7. Moved(m, mem', alive, s, c, E)
  BY <1>3, <1>4, <1>5, <1>6
<1> QED  BY <1>3, <1>7 DEF Moved

LEMMA ClearOwns ==
  ASSUME OwningPrograms, OwnershipInv, HeapBound, NEW c \in Callables, Clear(c)
  PROVE  Sound(mem', alive')
<1> DEFINE m == destroy(mem, c)
<1>1. /\ c \in Callables \ (alive \ {c}) /\ Sound(m, alive \ {c})
      /\ (alive \ {c}) \cup {c} = alive
  BY VacatedSound DEF Clear
<1>2. mem' = cleaned(m, c) /\ alive' = alive
  BY DEF Clear, cleaned
<1> HIDE DEF m
<1>3. Sound(cleaned(m, c), (alive \ {c}) \cup {c})
  BY <1>1, EmptiedSound
<1> QED  BY <1>1, <1>2, <1>3

LEMMA DestructOwns ==
  ASSUME OwningPrograms, OwnershipInv, HeapBound, NEW c \in Callables, Destruct(c)
  PROVE  Sound(mem', alive')
<1>1. c \in Objects \ (alive \ {c}) /\ Sound(destroy(mem, c), alive \ {c})
  BY VacatedSound DEF Destruct
<1> QED  BY <1>1, RetireSound DEF Destruct

(* What a step may do to the targets of callables of other classes: the    *)
(* action of CrossAssignmentCopies.                                        *)
CopiesAcross ==
  /\ last'.op \in {"cross", "cross_construct", "cross_assign"} =>
       \A d \in alive \ {last'.to} : Held(mem', d) = Held(mem, d)
  /\ last'.op = "cross" =>
       \E s \in alive : Convertible(last'.to, s) /\ Held(mem', last'.to) = Held(mem, s)
  /\ last'.op = "cross_assign" /\ last'.result = "threw" =>
       mem'.vtable[last'.to] = EmptyOf[ClassOf[last'.to]]

(* Construction from a callable of other traits: copied, failed, or ended  *)
(* by the noexcept it promised.                                            *)
LEMMA CrossConstructOwns ==
  ASSUME OwningPrograms, OwnershipInv, HeapBound, NEW c \in Callables,
         NEW s \in Callables, NEW form \in {"copy", "move"}, CrossConstruct(c, s, form)
  PROVE  Sound(mem', alive') /\ CopiesAcross
<1> DEFINE m == debug_clear(mem, c)
<1>1. c \in Callables \ alive /\ c \in Objects \ alive /\ s \in alive
      /\ Of(s).copyable # "na" /\ mem.vtable[s] \in Vtables /\ Convertible(c, s)
  BY OwnershipFacts DEF CrossConstruct, Convertible, Assignable
<1>2. /\ Sound(m, alive) /\ m.vtable = mem.vtable /\ Layouts(m.vtable, alive)
      /\ \E b \in Blocks : b \notin m.allocated
      /\ SameTargets(mem, m, alive)
  BY <1>1, BegunSound
<1>3. CASE /\ mem' = take(debug_clear(mem, c), c, s)
           /\ alive' = alive \cup {c}
           /\ Finish("cross", "ok", c)
  <2>1. Taken(m, mem', alive, c, s)
    BY <1>1, <1>2, <1>3, OwnershipFacts, TakeSound
  <2>2. \A d \in alive : Held(m, d) = Held(mem, d) /\ Held(mem', d) = Held(m, d)
    BY <1>2, <2>1, HeldSame DEF Taken
  <2>3. Held(mem', c) = Held(mem, s)
    BY <1>1, <2>1, <2>2 DEF Taken
  <2> QED  BY <1>1, <1>3, <2>1, <2>2, <2>3 DEF Taken, Finish, CopiesAcross
<1>4. CASE /\ \E why \in CloneFailures(s) :
                mem' = retire(assign_failed(debug_clear(mem, c), c, mem.vtable[s], why), c)
           /\ Finish("cross_construct", "threw", c)
           /\ UNCHANGED alive
  <2>1. PICK why \in CloneFailures(s) :
               mem' = retire(assign_failed(m, c, mem.vtable[s], why), c)
    BY <1>4
  <2> DEFINE f == assign_failed(m, c, mem.vtable[s], why)
  <2>2. Sound(f, alive) /\ SameTargets(m, f, alive)
    BY <1>1, <1>2, OwnershipFacts, CloneFailedSound
  <2>3. Sound(mem', alive) /\ SameTargets(f, mem', alive)
    BY <1>1, <2>1, <2>2, RetireSound
  <2>4. SameTargets(mem, mem', alive)
    BY <1>2, <2>2, <2>3, SameTargetsChain
  <2>5. \A d \in alive : Held(mem', d) = Held(mem, d)
    BY <2>4, HeldSame
  <2> QED  BY <1>4, <2>3, <2>5 DEF Finish, CopiesAcross
<1>5. CASE Finish("cross_construct", "terminated", c) /\ UNCHANGED <<mem, alive>>
  BY <1>5, OwnershipFacts DEF Finish, CopiesAcross
<1> QED  BY <1>3, <1>4, <1>5 DEF CrossConstruct

(* Assignment from a callable of other traits: the old target is destroyed *)
(* before the new one is cloned, and a clone that fails leaves c empty.    *)
LEMMA CrossAssignOwns ==
  ASSUME OwningPrograms, OwnershipInv, HeapBound, NEW c \in Callables,
         NEW s \in Callables, NEW via \in {"assign", "operator="}, CrossAssign(c, s, via)
  PROVE  Sound(mem', alive') /\ CopiesAcross
<1> DEFINE m == destroy(mem, c)
           A == alive \ {c}
<1>1. c \in alive /\ s \in A /\ s \in alive /\ alive' = alive
      /\ Of(s).copyable # "na" /\ mem.vtable[s] \in Vtables /\ Convertible(c, s)
  BY OwnershipFacts DEF CrossAssign, Convertible, Assignable
<1>2. /\ Sound(m, A) /\ m.vtable = mem.vtable /\ Layouts(m.vtable, alive)
      /\ \E b \in Blocks : b \notin m.allocated
      /\ SameTargets(mem, m, A)
      /\ c \in Callables \ A /\ c \in Objects \ A /\ A \cup {c} = alive
  BY <1>1, VacatedSound
<1>3. \A d \in A : Held(m, d) = Held(mem, d)
  BY <1>2, HeldSame
<1> HIDE DEF A
<1>4. CASE mem' = take(destroy(mem, c), c, s) /\ Finish("cross", "ok", c)
  <2>1. Taken(m, mem', A, c, s)
    BY <1>1, <1>2, <1>4, OwnershipFacts, TakeSound
  <2>2. \A d \in A : Held(mem', d) = Held(mem, d)
    BY <1>3, <2>1, HeldSame DEF Taken
  <2>3. Held(mem', c) = Held(mem, s)
    BY <1>1, <1>3, <2>1 DEF Taken
  <2> QED  BY <1>1, <1>2, <1>4, <2>1, <2>2, <2>3 DEF Taken, Finish, CopiesAcross, A
<1>5. CASE /\ \E why \in CloneFailures(s) :
                mem' = cleaned(assign_failed(destroy(mem, c), c, mem.vtable[s], why), c)
           /\ Finish("cross_assign", "threw", c)
  <2>1. PICK why \in CloneFailures(s) :
               mem' = cleaned(assign_failed(m, c, mem.vtable[s], why), c)
    BY <1>5
  <2> DEFINE f == assign_failed(m, c, mem.vtable[s], why)
  <2>2. Sound(f, A) /\ SameTargets(m, f, A)
    BY <1>1, <1>2, OwnershipFacts, CloneFailedSound
  <2>3. /\ Sound(mem', A \cup {c}) /\ SameTargets(f, mem', A)
        /\ mem'.vtable[c] = EmptyOf[ClassOf[c]]
    BY <1>2, <2>1, <2>2, EmptiedSound
  <2>4. SameTargets(mem, mem', A)
    BY <1>2, <2>2, <2>3, SameTargetsChain
  <2>5. \A d \in A : Held(mem', d) = Held(mem, d)
    BY <2>4, HeldSame
  <2> QED  BY <1>1, <1>2, <1>5, <2>3, <2>5 DEF Finish, CopiesAcross, A
<1>6. CASE Finish("cross_assign", "terminated", c) /\ UNCHANGED mem
  BY <1>1, <1>6, OwnershipFacts DEF Finish, CopiesAcross
<1> QED  BY <1>4, <1>5, <1>6 DEF CrossAssign

-----------------------------------------------------------------------------
(* The ownership theorems. *)

LEMMA OwnershipInit == Init => OwnershipInv
<1> SUFFICES ASSUME Init PROVE OwnershipInv
  OBVIOUS
<1>1. mem \in MemoryType
  BY DEF Init, MemoryType, Words
<1> QED  BY <1>1, LayoutInit DEF Init, OwnershipInv, Sound, Exclusive

(* One step: every call keeps the owners, and those between classes copy.  *)
LEMMA OwnershipNext ==
  ASSUME OwningPrograms, OwnershipInv, Next
  PROVE  OwnershipInv' /\ CopiesAcross
<1> DEFINE Kept == Sound(mem', alive') /\ CopiesAcross
<1>1. HeapBound /\ UNCHANGED traits
  BY DEF Next
<1>2. ASSUME NEW c \in Callables, DefaultConstruct(c) PROVE Kept
  BY <1>1, <1>2, DefaultConstructOwns DEF DefaultConstruct, Finish, CopiesAcross
<1>3. ASSUME NEW c \in Callables, NEW x \in Images, ConstructFrom(c, x) PROVE Kept
  BY <1>1, <1>3, ConstructFromOwns DEF ConstructFrom, Finish, CopiesAcross
<1>4. ASSUME NEW c \in Callables, NEW s \in Callables, CopyConstruct(c, s) PROVE Kept
  BY <1>1, <1>4, CopyConstructOwns DEF CopyConstruct, Finish, CopiesAcross
<1>5. ASSUME NEW c \in Callables, NEW s \in Callables, MoveConstruct(c, s) PROVE Kept
  BY <1>1, <1>5, MoveConstructOwns DEF MoveConstruct, Finish, CopiesAcross
<1>6. ASSUME NEW c \in Callables, Clear(c) PROVE Kept
  BY <1>1, <1>6, ClearOwns DEF Clear, Finish, CopiesAcross
<1>7. ASSUME NEW c \in Callables, Destruct(c) PROVE Kept
  BY <1>1, <1>7, DestructOwns DEF Destruct, Finish, CopiesAcross
<1>8. ASSUME NEW c \in Callables, NEW s \in Callables, NEW form \in {"copy", "move"},
             CrossConstruct(c, s, form)
      PROVE  Kept
  BY <1>1, <1>8, CrossConstructOwns
<1>9. ASSUME NEW c \in Callables, NEW s \in Callables,
             NEW via \in {"assign", "operator="}, CrossAssign(c, s, via)
      PROVE  Kept
  BY <1>1, <1>9, CrossAssignOwns
<1>10. Kept
  BY <1>2, <1>3, <1>4, <1>5, <1>6, <1>7, <1>8, <1>9 DEF Next
<1>11. LayoutInv'
  BY LayoutNext DEF OwningPrograms, OwnershipInv
<1>12. last'.result \in {"ok", "threw", "terminated"}
  BY DEF Next, DefaultConstruct, ConstructFrom, CopyConstruct, MoveConstruct, Clear,
         Destruct, CrossConstruct, CrossAssign, Finish
<1> QED  BY <1>10, <1>11, <1>12 DEF OwnershipInv

LEMMA OwnershipStep ==
  ASSUME OwningPrograms, OwnershipInv, [Next]_vars
  PROVE  OwnershipInv' /\ [CopiesAcross]_vars
<1>1. CASE Next
  BY <1>1, OwnershipNext
<1>2. CASE UNCHANGED vars
  <2>1. LayoutInv'
    BY <1>2, LayoutNext DEF OwningPrograms, OwnershipInv
  <2> QED  BY <1>2, <2>1 DEF vars, OwnershipInv
<1> QED  BY <1>1, <1>2

(* Targets are owned once and for all, across any chain of assignments     *)
(* between traits whose vtables the table calls compatible.                *)
THEOREM OwnershipAcrossTraits ==
  ASSUME OwningPrograms
  PROVE  Spec => []OwnershipInv
BY OwnershipInit, OwnershipStep, PTL DEF Spec

(* Every variable has its type, and every callable a vtable.               *)
THEOREM TraitsTypeCorrectness ==
  ASSUME OwningPrograms
  PROVE  Spec => []TypeOK
<1>1. ASSUME OwnershipInv PROVE TypeOK
  BY <1>1, OwnershipFacts DEF OwnershipInv, LayoutInv, Layouts, Sound, TypeOK
<1> QED  BY <1>1, OwnershipAcrossTraits, PTL

(* No block leaks, dangles or has two owners, and constructions pair up    *)
(* with destructions, though they go through vtables of other traits.      *)
THEOREM SingleOwnershipAcrossTraits ==
  ASSUME OwningPrograms
  PROVE  Spec => []OwnedOnce
<1>1. ASSUME OwnershipInv PROVE OwnedOnce
  <2> DEFINE heap == Holders("generic") \cup Holders("trivial_heap")
             of(manager) == {c \in alive : Manager(mem, c) = manager}
  <2>1. Sound(mem, alive)
    BY <1>1 DEF OwnershipInv
  <2>2. heap = {d \in alive : OnHeap(mem.vtable[d])}
    BY ManagerType DEF Holders
  <2>3. \A manager : Holders(manager) = of(manager)
    BY DEF Holders, Manager
  <2> HIDE DEF heap
  <2>4. /\ mem.allocated = {mem.lo[c] : c \in heap}
        /\ \A c, d \in heap : mem.lo[c] = mem.lo[d] => c = d
    BY <2>1, <2>2, SoundBlocks
  <2>5. mem.live = of("small") \cup {mem.lo[c] : c \in of("generic")}
    BY <2>1, SoundLifetimes
  <2>6. mem.live = Holders("small") \cup {mem.lo[c] : c \in Holders("generic")}
    BY <2>3, <2>5
  <2> QED  BY <2>4, <2>6 DEF OwnedOnce, heap
<1> QED  BY <1>1, OwnershipAcrossTraits, PTL

(* Nothing is destroyed, read, overwritten or freed that should not be.    *)
(* Debug builds assert besides that the buffers of trivial heap targets    *)
(* are clear, which ownership says nothing about.                          *)
THEOREM FaultFreedomAcrossTraits ==
  ASSUME OwningPrograms,
         DebugBuild => \A F \in Functors : functor_manager(F) # "trivial_heap"
  PROVE  Spec => []NoFaults
<1>1. ASSUME OwnershipInv PROVE NoFaults
  BY <1>1 DEF OwnershipInv, Sound, Tolerated, NoFaults
<1> QED  BY <1>1, OwnershipAcrossTraits, PTL

(* Assignment between traits copies: the target equals the source's, the   *)
(* source and all others keep theirs, and a failed one leaves it empty.    *)
THEOREM CopiesBetweenTraits ==
  ASSUME OwningPrograms
  PROVE  Spec => CrossAssignmentCopies
BY OwnershipInit, OwnershipStep, PTL DEF Spec, CrossAssignmentCopies, CopiesAcross
=============================================================================
