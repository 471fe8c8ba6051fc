--------------------------- MODULE TargetManagers ---------------------------
(***************************************************************************)
(* The functor managers of detail/callable_base.hpp: how a target is       *)
(* stored in the buffer of a callable or on the heap, and how it is        *)
(* assigned, cloned, moved and destroyed there.                            *)
(*                                                                         *)
(* A manager function is an operator from a memory to a memory.  A memory  *)
(* is a record:                                                            *)
(*   vtable     p_vtable_ of every object (a vtable is the functor type it *)
(*              was built for, or one of EmptyVtables)                     *)
(*   lo, hi     the two words of functor_ a manager distinguishes: obj_ptr *)
(*              (= trivial_heap_obj.ptr) and trivial_heap_obj.size         *)
(*   allocated  the heap blocks in use, and block, what each one holds     *)
(*   live       where a functor with a non-trivial lifetime now lives: the *)
(*              buffer of an object, or a block                            *)
(*   faults     what has gone wrong so far                                 *)
(* live and faults are history: no operator reads them to decide a step.   *)
(***************************************************************************)
CONSTANTS
  Objects,     (* storage for a callable_base: callables and temporaries    *)
  Functors,    (* the functor types stored in callables                     *)
  Values,      (* the states of a functor                                   *)
  Blocks,      (* the heap blocks                                           *)
  Shape,       (* what functor_traits and <type_traits> say of each type    *)
  DebugBuild,  (* TRUE iff NDEBUG is not defined                            *)
  EmptyVtables,(* the vtables of empty handlers, one for each traits class  *)
  AllOnes,     (* a word of all ones, what debug_clear writes               *)
  Junk         (* a word nobody wrote, or one a failed constructor wrote    *)

ShapeRecord ==
  [pod: BOOLEAN, small: BOOLEAN, ptrSmall: BOOLEAN, aligned: BOOLEAN,
   emptyAllocator: BOOLEAN, copyThrows: BOOLEAN, moveThrows: BOOLEAN,
   nothrowAssignable: BOOLEAN, nothrowCopyAssignable: BOOLEAN,
   nullable: BOOLEAN]

(* A target: a functor of some type in some state. *)
Images  == [type: Functors, val: Values]
Vtables == Functors \cup EmptyVtables
Words   == Images \cup Blocks \cup Functors \cup {AllOnes, Junk}
Faults  == {"assertion", "overwrote_live", "destroyed_dead", "read_dead",
            "bad_free", "freed_live", "foreign_free"}

(* A trivially copyable type has no constructor that throws. *)
ASSUME ShapeAssumption ==
  \A F \in Functors :
    /\ Shape[F] \in ShapeRecord
    /\ Shape[F].pod => ~Shape[F].copyThrows /\ ~Shape[F].moveThrows

ASSUME TokensAssumption ==
  /\ DebugBuild \in BOOLEAN
  /\ EmptyVtables \cap (Functors \cup Images) = {}
  /\ AllOnes # Junk
  /\ {AllOnes, Junk} \cap (Images \cup Objects \cup Blocks \cup Vtables) = {}
  /\ Blocks \cap (Images \cup Objects) = {}

MemoryType ==
  [vtable: [Objects -> Vtables \cup {Junk}],
   lo: [Objects -> Words], hi: [Objects -> Words],
   allocated: SUBSET Blocks, block: [Blocks -> Words],
   live: SUBSET (Objects \cup Blocks), faults: SUBSET Faults]

-----------------------------------------------------------------------------
(* Which manager a type gets, and what that implies. *)

Managers == {"ptr", "trivial_small", "small", "trivial_heap", "generic"}

(* The specialisations of functor_manager_aux. *)
functor_manager(t) ==
  IF t \in EmptyVtables THEN "ptr"
  ELSE LET s == Shape[t] IN
       IF s.pod /\ s.ptrSmall THEN "ptr"
       ELSE IF s.pod /\ s.small THEN "trivial_small"
       ELSE IF s.small THEN "small"
       ELSE IF s.pod /\ s.aligned /\ s.emptyAllocator THEN "trivial_heap"
       ELSE "generic"

OnHeap(t) == functor_manager(t) \in {"trivial_heap", "generic"}

(* Whether a target uses both words of the buffer it is in. *)
Wide(t) ==
  \/ functor_manager(t) = "trivial_small"
  \/ functor_manager(t) = "small" /\ ~Shape[t].ptrSmall

(* How a program passes a functor: a const lvalue, another lvalue, an      *)
(* rvalue.                                                                 *)
Forms == {"copy", "lvalue", "move"}

(* Whether constructing an F from a functor in that form may throw. *)
Throws(F, form) ==
  IF form = "move" THEN Shape[F].moveThrows ELSE Shape[F].copyThrows

(* How assign() of F's manager may fail: in the allocator, in F.           *)
AssignFailures(F, form) ==
  {why \in {"allocate", "construct"} :
     IF why = "allocate" THEN OnHeap(F) ELSE Throws(F, form)}

-----------------------------------------------------------------------------
(* The words of a buffer, lifetimes and the heap. *)

debug_clear(m, o) ==
  IF DebugBuild THEN [m EXCEPT !.lo[o] = AllOnes, !.hi[o] = AllOnes] ELSE m

debug_clear_ptr(m, o) ==
  IF DebugBuild THEN [m EXCEPT !.lo[o] = AllOnes] ELSE m

(* debug_clear( functor ): the bytes of an F in the buffer. *)
debug_clear_target(m, o, F) ==
  IF Wide(F) THEN debug_clear(m, o) ELSE debug_clear_ptr(m, o)

If(condition, fault) == IF condition THEN {fault} ELSE {}

(* A constructor has run, or is about to run, at loc. *)
BeginLifetime(m, loc) ==
  [m EXCEPT !.live   = @ \cup {loc},
            !.faults = @ \cup If(loc \in m.live, "overwrote_live")]

(* A destructor has run at loc. *)
EndLifetime(m, loc) ==
  [m EXCEPT !.live   = @ \ {loc},
            !.faults = @ \cup If(loc \notin m.live, "destroyed_dead")]

(* The block the allocator returns: any one that is not in use. *)
Fresh(m) == CHOOSE b \in Blocks : b \notin m.allocated

deallocate(m, b) ==
  [m EXCEPT !.allocated = @ \ {b},
            !.block[b]  = Junk,
            !.faults    = @ \cup If(b \notin m.allocated, "bad_free")
                            \cup If(b \in m.live, "freed_live")]

(* What a manager that keeps its target on the heap finds through word w.  *)
Pointee(m, w) == IF w \in m.allocated THEN m.block[w] ELSE Junk

(* The target of an object whose vtable is t. *)
Target(m, o, t) == IF OnHeap(t) THEN Pointee(m, m.lo[o]) ELSE m.lo[o]

-----------------------------------------------------------------------------
(* assign: construct the image x in the buffer of o, which holds nothing.  *)

ptr_assign(m, o, x) == [m EXCEPT !.lo[o] = x]

trivial_small_assign(m, o, x) == [m EXCEPT !.lo[o] = x, !.hi[o] = x]

(* A small target with a lifetime has the bytes of its type, no more. *)
store(m, o, w, F) ==
  [m EXCEPT !.lo[o] = w, !.hi[o] = IF Wide(F) THEN w ELSE @]

small_assign(m, o, x, F) == BeginLifetime(store(m, o, x, F), o)

(* BOOST_ASSERTs that the words it is about to write are 0 or all ones.    *)
UnclearedBuffer(m, o) ==
  DebugBuild /\ (m.lo[o] # AllOnes \/ m.hi[o] # AllOnes)

trivial_heap_assign(m, o, x, size) ==
  LET b == Fresh(m) IN
  [m EXCEPT !.allocated = @ \cup {b},
            !.block[b]  = x,
            !.lo[o]     = b,
            !.hi[o]     = size,
            !.faults    = @ \cup If(UnclearedBuffer(m, o), "assertion")]

generic_assign(m, o, x) ==
  LET b == Fresh(m)
      n == BeginLifetime(m, b)
  IN  [n EXCEPT !.allocated = @ \cup {b}, !.block[b] = x, !.lo[o] = b]

assign(m, o, x, F, size) ==
  CASE functor_manager(F) = "ptr"           -> ptr_assign(m, o, x)
    [] functor_manager(F) = "trivial_small" -> trivial_small_assign(m, o, x)
    [] functor_manager(F) = "small"         -> small_assign(m, o, x, F)
    [] functor_manager(F) = "trivial_heap"  -> trivial_heap_assign(m, o, x, size)
    [] functor_manager(F) = "generic"       -> generic_assign(m, o, x)

(* assign of an F that fails.  A constructor that throws in the buffer may *)
(* have written to it.  On the heap the guard of assign_aux is a           *)
(* unique_ptr with the default deleter: it runs the destructor of the      *)
(* functor that was never constructed and frees the block behind the back  *)
(* of its allocator.  Where copying F cannot throw there is no guard and   *)
(* the block is lost.                                                      *)
small_assign_failed(m, o, F) == store(m, o, Junk, F)

generic_assign_failed(m, F) ==
  IF Shape[F].copyThrows
  THEN [m EXCEPT !.faults = @ \cup {"destroyed_dead", "foreign_free"}]
  ELSE [m EXCEPT !.allocated = @ \cup {Fresh(m)}]

assign_failed(m, o, F, why) ==
  CASE why = "allocate" /\ functor_manager(F) = "trivial_heap" ->
         [m EXCEPT !.faults = @ \cup If(UnclearedBuffer(m, o), "assertion")]
    [] why = "construct" /\ functor_manager(F) = "small" ->
         small_assign_failed(m, o, F)
    [] why = "construct" /\ functor_manager(F) = "generic" ->
         generic_assign_failed(m, F)
    [] OTHER -> m

-----------------------------------------------------------------------------
(* clone: construct in d a copy of the target that s holds under vtable t. *)

ReadFault(m, s, t) ==
  CASE functor_manager(t) = "small" -> If(s \notin m.live, "read_dead")
    [] OnHeap(t) -> If(m.lo[s] \notin m.allocated, "read_dead")
    [] OTHER -> {}

clone(m, s, d, t) ==
  LET n == [m EXCEPT !.faults = @ \cup ReadFault(m, s, t)] IN
  IF functor_manager(t) = "trivial_small"
  THEN [n EXCEPT !.lo[d] = m.lo[s], !.hi[d] = m.hi[s]]
  ELSE assign(n, d, Target(m, s, t), t, m.hi[s])

-----------------------------------------------------------------------------
(* destroy: end the target that o holds under vtable t, clear its bytes.   *)

(* Mutants (never part of the specification): the block is not freed, the  *)
(* words are not cleared.                                                  *)
mutant_trivial_heap_destroy_leaks(m, o) == debug_clear(m, o)
mutant_trivial_heap_destroy_unclear(m, o) == deallocate(m, m.lo[o])

small_destroy(m, o, F) == debug_clear_target(EndLifetime(m, o), o, F)

trivial_heap_destroy(m, o) == debug_clear(deallocate(m, m.lo[o]), o)

generic_destroy(m, o) ==
  debug_clear(deallocate(EndLifetime(m, m.lo[o]), m.lo[o]), o)

destroy_target(m, o, t) ==
  CASE functor_manager(t) = "ptr"           -> debug_clear_ptr(m, o)
    [] functor_manager(t) = "trivial_small" -> debug_clear(m, o)
    [] functor_manager(t) = "small"         -> small_destroy(m, o, t)
    [] functor_manager(t) = "trivial_heap"  -> trivial_heap_destroy(m, o)
    [] functor_manager(t) = "generic"       -> generic_destroy(m, o)

-----------------------------------------------------------------------------
(* move: construct in d the target that s holds under vtable t, and leave  *)
(* s without one.                                                          *)

(* Mutants: the source is cleared before it is read, or never; it is not   *)
(* destroyed; only the pointer to the block is handed over; the target is  *)
(* cloned into another block.                                              *)
mutant_ptr_move(m, s, d) ==
  LET n == debug_clear_ptr(m, s) IN ptr_assign(n, d, n.lo[s])
mutant_trivial_small_move(m, s, d) ==
  [m EXCEPT !.lo[d] = m.lo[s], !.hi[d] = m.hi[s]]
mutant_small_move(m, s, d, F) == small_assign(m, d, m.lo[s], F)
mutant_heap_move(m, s, d) == debug_clear([m EXCEPT !.lo[d] = m.lo[s]], s)
mutant_heap_move_clones(m, s, d) ==
  generic_destroy(generic_assign(m, d, Pointee(m, m.lo[s])), s)

ptr_move(m, s, d) == debug_clear_ptr(ptr_assign(m, d, m.lo[s]), s)

trivial_small_move(m, s, d) ==
  debug_clear([m EXCEPT !.lo[d] = m.lo[s], !.hi[d] = m.hi[s]], s)

small_move(m, s, d, F) ==
  LET n == [m EXCEPT !.faults = @ \cup If(s \notin m.live, "read_dead")] IN
  small_destroy(small_assign(n, d, m.lo[s], F), s, F)

(* The block changes hands; manager_generic moves through this one too. *)
heap_move(m, s, d) == trivial_small_move(m, s, d)

move(m, s, d, t) ==
  CASE functor_manager(t) = "ptr"           -> ptr_move(m, s, d)
    [] functor_manager(t) = "trivial_small" -> trivial_small_move(m, s, d)
    [] functor_manager(t) = "small"         -> small_move(m, s, d, t)
    [] OnHeap(t)                            -> heap_move(m, s, d)

-----------------------------------------------------------------------------
(* Instead of a manager: cloner<trivial>, which mover<trivial> uses too,   *)
(* out_buffer = in_buffer.  A bitwise move takes the lifetime of the target*)
(* along.                                                                  *)
bitwise(m, s, d, moving) ==
  [m EXCEPT !.lo[d] = m.lo[s], !.hi[d] = m.hi[s],
            !.live  = (@ \ IF moving THEN {s} ELSE {})
                        \cup IF s \in m.live THEN {d} ELSE {}]

(* The storage of an object that no longer exists, or never came to be. *)
retire(m, o) ==
  [m EXCEPT !.vtable[o] = Junk, !.lo[o] = Junk, !.hi[o] = Junk]
=============================================================================
