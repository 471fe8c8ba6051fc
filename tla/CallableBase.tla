---------------------------- MODULE CallableBase ----------------------------
(***************************************************************************)
(* callable and callable_base: the value semantics of a set of callables   *)
(* of one instantiation, down to their vtable pointers, their buffers and  *)
(* the heap.                                                               *)
(*                                                                         *)
(* One action is one member function call, with all it does until it       *)
(* returns, throws or ends the program.  The library takes no locks and    *)
(* promises nothing about concurrent calls on one object, so calls are     *)
(* atomic here.  Every way the constructors of a target or the allocator   *)
(* can fail is a separate outcome of the call.                             *)
(***************************************************************************)
EXTENDS Naturals, FiniteSets, SupportLevels, TargetManagers

CONSTANTS
  Callables,    (* the objects the program declares as callables             *)
  SwapTmp,      (* the local tmp of callable_base::swap                      *)
  AssignTmp,    (* the local tmp of the safe actual_assign                   *)
  Copyable,     (* Traits::copyable                                          *)
  Moveable,     (* Traits::moveable                                          *)
  Destructor,   (* Traits::destructor                                        *)
  EmptyHandler, (* Traits::empty_handler                                     *)
  EmptyVtable,  (* its vtable, that of every empty callable                  *)
  IsNoexcept,   (* Traits::is_noexcept                                       *)
  NullValue     (* the state in which a nullable functor converts to false   *)

ASSUME ObjectsAssumption ==
  /\ Callables \subseteq Objects
  /\ {SwapTmp, AssignTmp} \subseteq Objects \ Callables
  /\ SwapTmp # AssignTmp

(* A traits class must provide some destructor, and a callable that can    *)
(* neither be moved nor copied does not compile.                           *)
ASSUME TraitsAssumption ==
  /\ {Copyable, Moveable, Destructor} \subseteq support_level
  /\ Destructor # "na"
  /\ Moveable = "na" => Copyable # "na"
  /\ EmptyVtables = {EmptyVtable}
  /\ EmptyHandler \in {"throw_on_empty", "assert_on_empty", "nop_on_empty"}
  /\ IsNoexcept \in BOOLEAN

(* The static_asserts of vtable_for_functor_aux, and the noexcept function *)
(* pointers a vtable slot of level nofail is initialised with.             *)
Accepts(F) ==
  /\ Copyable \in AtLeastNofail => ~Shape[F].copyThrows
  /\ Copyable = "nofail" => ~OnHeap(F)
  /\ Moveable = "nofail" => ~(Shape[F].small /\ Shape[F].moveThrows)

(* What a program can put into a callable. *)
Storable == {x \in Images : Accepts(x.type)}

(* has_empty_target *)
has_empty_target(x) == Shape[x.type].nullable /\ x.val = NullValue

VARIABLES
  mem,   (* the memory, see TargetManagers                                   *)
  alive, (* the callables that exist                                         *)
  last   (* the last call and how it ended, as its caller saw it             *)

vars == <<mem, alive, last>>

-----------------------------------------------------------------------------
(* The slots of a vtable, by support level. *)

(* destroyer *)
destroy(m, o) ==
  IF Destructor = "trivial" THEN debug_clear(m, o)
  ELSE destroy_target(m, o, m.vtable[o])

(* cloner *)
clone_slot(m, s, d) ==
  IF Copyable = "trivial" THEN bitwise(m, s, d, FALSE)
  ELSE clone(m, s, d, m.vtable[s])

CloneFailures(t) ==
  IF Copyable = "trivial" \/ t = EmptyVtable THEN {}
  ELSE AssignFailures(t, "copy")

(* Mutant: a move that copies. *)
mutant_move_to(m, s, d) == clone_slot(m, s, d)

(* mover; a callable without one is "moved" by its cloner (move_to). *)
move_to(m, s, d) ==
  CASE Moveable = "na"      -> clone_slot(m, s, d)
    [] Moveable = "trivial" -> bitwise(m, s, d, TRUE)
    [] OTHER                -> move(m, s, d, m.vtable[s])

MoveFailures(t) ==
  CASE Moveable = "na" -> CloneFailures(t)
    [] Moveable = "supported" /\ functor_manager(t) = "small" ->
         AssignFailures(t, "move")
    [] OTHER -> {}

-----------------------------------------------------------------------------
(* The building blocks of callable_base. *)

(* Mutant: the constructor does not clear the buffer. *)
mutant_construct_empty(m, o) == [m EXCEPT !.vtable[o] = EmptyVtable]

(* callable_base( empty_handler_vtable, EmptyHandler ) *)
construct_empty(m, o) == [debug_clear(m, o) EXCEPT !.vtable[o] = EmptyVtable]

(* Mutants: a clear that forgets the old target, assignments that forget   *)
(* p_vtable_, a move that forgets to empty its source, a swap that stops   *)
(* halfway, a cleaner that is always cancelled.                            *)
mutant_clear(m, o) == [m EXCEPT !.vtable[o] = EmptyVtable]
mutant_put(m, o, x) == assign(m, o, x, x.type, x.type)
mutant_copy_from(m, s, d) == clone_slot(m, s, d)
mutant_move_from(m, s, d) == [move_to(m, s, d) EXCEPT !.vtable[d] = m.vtable[s]]
mutant_swap(m, a, b) ==
  IF a = b THEN m
  ELSE LET m1 == [move_to(construct_empty(m, SwapTmp), a, SwapTmp)
                    EXCEPT !.vtable[SwapTmp] = m.vtable[a], !.vtable[a] = EmptyVtable]
           m2 == [move_to(m1, b, a)
                    EXCEPT !.vtable[a] = m1.vtable[b], !.vtable[b] = EmptyVtable]
       IN  retire(destroy(m2, SwapTmp), SwapTmp)
mutant_cleaned(m, o) == m

(* clear<false>: destroy the target, then assign the empty handler. *)
clear(m, o) == [destroy(m, o) EXCEPT !.vtable[o] = EmptyVtable]

(* functor_manager::assign into a buffer that holds nothing. *)
put(m, o, x) ==
  [assign(m, o, x, x.type, x.type) EXCEPT !.vtable[o] = x.type]

(* assign_functionoid_direct, from an lvalue *)
copy_from(m, s, d) == [clone_slot(m, s, d) EXCEPT !.vtable[d] = m.vtable[s]]

(* assign_functionoid_direct, from an rvalue; safe_mover_base::move.  The  *)
(* source is marked empty without a look at what its buffer now holds.     *)
move_from(m, s, d) ==
  [move_to(m, s, d) EXCEPT !.vtable[d] = m.vtable[s], !.vtable[s] = EmptyVtable]

(* swap, with the destructor of its local tmp *)
swap(m, a, b) ==
  IF a = b THEN m
  ELSE LET m1 == move_from(construct_empty(m, SwapTmp), a, SwapTmp)
           m2 == move_from(m1, b, a)
           m3 == move_from(m2, SwapTmp, b)
       IN  retire(destroy(m3, SwapTmp), SwapTmp)

(* What cleaner leaves: the empty handler's vtable over whatever the       *)
(* failed operation left in the buffer.                                    *)
cleaned(m, o) == [m EXCEPT !.vtable[o] = EmptyVtable]

Finish(op, result) == last' = [op |-> op, result |-> result]

(* An exception that leaves a noexcept function. *)
Terminate(op) == Finish(op, "terminated") /\ UNCHANGED <<mem, alive>>

-----------------------------------------------------------------------------
(* Construction and destruction. *)

DefaultConstruct(c) ==
  /\ c \in Callables \ alive
  /\ mem' = construct_empty(mem, c)
  /\ alive' = alive \cup {c}
  /\ Finish("construct", "ok")

(* callable( Functor && ): noexcept when constructing the functor is, even *)
(* if storing it takes an allocation.  All lvalues are constructed from    *)
(* alike.                                                                  *)
ConstructFrom(c, x, form) ==
  /\ c \in Callables \ alive
  /\ \/ /\ has_empty_target(x)
        /\ mem' = construct_empty(mem, c)
        /\ alive' = alive \cup {c}
        /\ Finish("construct_from", "ok")
     \/ /\ ~has_empty_target(x)
        /\ mem' = put(debug_clear(mem, c), c, x)
        /\ alive' = alive \cup {c}
        /\ Finish("construct_from", "ok")
     \/ /\ ~has_empty_target(x)
        /\ Throws(x.type, form)
        /\ \E why \in AssignFailures(x.type, form) :
             mem' = retire(assign_failed(debug_clear(mem, c), c, x.type, why), c)
        /\ Finish("construct_from", "threw")
        /\ UNCHANGED alive
     \/ /\ ~has_empty_target(x)
        /\ ~Throws(x.type, form)
        /\ AssignFailures(x.type, form) # {}
        /\ Terminate("construct_from")

CopyConstruct(c, s) ==
  /\ Copyable # "na"
  /\ c \in Callables \ alive
  /\ s \in alive
  /\ \/ /\ mem' = copy_from(debug_clear(mem, c), s, c)
        /\ alive' = alive \cup {c}
        /\ Finish("copy_construct", "ok")
     \/ /\ \E why \in CloneFailures(mem.vtable[s]) :
             mem' = retire(assign_failed(debug_clear(mem, c), c, mem.vtable[s], why), c)
        /\ Finish("copy_construct", "threw")
        /\ UNCHANGED alive

(* The moving constructor of callable_base is noexcept for every traits. *)
MoveConstruct(c, s) ==
  /\ c \in Callables \ alive
  /\ s \in alive
  /\ \/ /\ mem' = move_from(debug_clear(mem, c), s, c)
        /\ alive' = alive \cup {c}
        /\ Finish("move_construct", "ok")
     \/ /\ MoveFailures(mem.vtable[s]) # {}
        /\ Terminate("move_construct")

Destruct(c) ==
  /\ c \in alive
  /\ mem' = retire(destroy(mem, c), c)
  /\ alive' = alive \ {c}
  /\ Finish("destruct", "ok")

-----------------------------------------------------------------------------
(* Assignment. *)

(* Mutant: every target is assigned directly. *)
mutant_HasNoFailAssignment(F, form) == TRUE

(* has_no_fail_assignement_t.  A const lvalue is never assignable to; for  *)
(* another lvalue F is a reference, and what counts is its copying.        *)
HasNoFailAssignment(F, form) ==
  /\ Shape[F].small
  /\ \/ form = "move" /\ Shape[F].nothrowAssignable
     \/ form = "lvalue" /\ Shape[F].nothrowCopyAssignable

(* The direct actual_assign asks for the manager of F as it is, and that   *)
(* of a reference is one for trivial functors: with an lvalue of another   *)
(* kind it compiles if the functor fits a pointer.                         *)
Compiles(F, form) ==
  form = "lvalue" /\ HasNoFailAssignment(F, form) /\ functor_manager(F) = "small"
    => Shape[F].ptrSmall

(* Mutant: every assignment is noexcept. *)
mutant_PassesOn(via) == FALSE

(* Which assignments pass exceptions on: assign(), and operator= of a      *)
(* const callable.  operator=( F && ) is noexcept whatever F is, and it is *)
(* what a callable that is not const selects.                              *)
PassesOn(via) == via \in {"assign", "const"}

(* Assignment of a functor, by assign() or by operator=( F && ).  The      *)
(* direct actual_assign is noexcept too.                                   *)
AssignFunctor(c, x, form, via) ==
  LET tmp    == construct_empty(mem, AssignTmp)
      direct == HasNoFailAssignment(x.type, form)
  IN
  /\ c \in alive
  /\ Compiles(x.type, form)
  /\ \/ /\ has_empty_target(x)
        /\ mem' = clear(mem, c)
        /\ Finish(via, "ok")
        /\ UNCHANGED alive
     \/ /\ ~has_empty_target(x)
        /\ mem' = IF direct THEN put(destroy(mem, c), c, x)
                  ELSE LET n == swap(put(tmp, AssignTmp, x), c, AssignTmp)
                       IN  retire(destroy(n, AssignTmp), AssignTmp)
        /\ Finish(via, "ok")
        /\ UNCHANGED alive
     \/ /\ ~has_empty_target(x) /\ ~direct /\ PassesOn(via)
        /\ \E why \in AssignFailures(x.type, form) :
             LET n == assign_failed(tmp, AssignTmp, x.type, why)
             IN  mem' = retire(destroy(n, AssignTmp), AssignTmp)
        /\ Finish(via, "threw")
        /\ UNCHANGED alive
     \/ /\ ~has_empty_target(x)
        /\ \/ AssignFailures(x.type, form) # {} /\ (direct \/ ~PassesOn(via))
           \/ ~direct /\ MoveFailures(x.type) \cup MoveFailures(mem.vtable[c]) # {}
        /\ Terminate(via)

(* Mutant: no guard against self-assignment. *)
mutant_SelfAssignGuard(c, s) == FALSE

CopyAssignment(source) ==
  IF source = "const" THEN "copy_assign" ELSE "copy_assign_nonconst"

(* Self-assignment returns early, but not where destruction is trivial. *)
SelfAssignGuard(c, s) == c = s /\ Destructor # "trivial"

(* Copy assignment, from a callable that is const or is not. *)
CopyAssign(c, s, source) ==
  /\ Copyable # "na"
  /\ {c, s} \subseteq alive
  /\ UNCHANGED alive
  /\ \/ /\ mem' = IF SelfAssignGuard(c, s) THEN mem
                  ELSE copy_from(destroy(mem, c), s, c)
        /\ Finish(CopyAssignment(source), "ok")
     \/ /\ ~SelfAssignGuard(c, s)
        /\ PassesOn(source)
        /\ \E why \in CloneFailures(mem.vtable[s]) :
             mem' = cleaned(assign_failed(destroy(mem, c), c, mem.vtable[s], why), c)
        /\ Finish(CopyAssignment(source), "threw")
     \/ /\ ~SelfAssignGuard(c, s)
        /\ ~PassesOn(source)
        /\ CloneFailures(mem.vtable[s]) # {}
        /\ Terminate(CopyAssignment(source))

(* Move assignment.  A throwing move leaves its source in some state.      *)
MoveAssign(c, s) ==
  /\ {c, s} \subseteq alive
  /\ UNCHANGED alive
  /\ \/ /\ mem' = IF SelfAssignGuard(c, s) THEN mem
                  ELSE move_from(destroy(mem, c), s, c)
        /\ Finish("move_assign", "ok")
     \/ /\ ~SelfAssignGuard(c, s)
        /\ Moveable \in {"na", "supported"}
        /\ \E why \in MoveFailures(mem.vtable[s]), v \in Values :
             LET t == mem.vtable[s]
                 n == cleaned(assign_failed(destroy(mem, c), c, t, why), c)
             IN  mem' = IF Moveable = "na" THEN n
                        ELSE store(n, s, [type |-> t, val |-> v], t)
        /\ Finish("move_assign", "threw")

-----------------------------------------------------------------------------
(* Modifiers and invocation. *)

(* clear(), assign( nullptr ) *)
Clear(c) ==
  /\ c \in alive
  /\ mem' = clear(mem, c)
  /\ Finish("clear", "ok")
  /\ UNCHANGED alive

Swap(a, b) ==
  /\ {a, b} \subseteq alive
  /\ \/ /\ mem' = swap(mem, a, b)
        /\ Finish("swap", "ok")
        /\ UNCHANGED alive
     \/ /\ a # b
        /\ MoveFailures(mem.vtable[a]) \cup MoveFailures(mem.vtable[b]) # {}
        /\ Terminate("swap")

(* operator(): const, yet it hands the target its mutable buffer. *)
invoke(m, c, v) ==
  LET x == [type |-> m.vtable[c], val |-> v]
      t == m.vtable[c]
  IN  IF OnHeap(t) THEN [m EXCEPT !.block[m.lo[c]] = x] ELSE store(m, c, x, t)

(* How a call ends in which the target, or the empty handler, throws: with *)
(* is_noexcept operator() and the thunk are noexcept, and nothing asks a   *)
(* target to be.                                                           *)
Raised == IF IsNoexcept THEN "terminated" ELSE "threw"

(* handle_empty_invoke *)
EmptyInvocation ==
  CASE EmptyHandler = "throw_on_empty" -> Raised
    [] EmptyHandler = "assert_on_empty" /\ DebugBuild -> "aborted"
    [] OTHER -> "ok"

Invoke(c) ==
  /\ c \in alive
  /\ UNCHANGED alive
  /\ \/ /\ mem.vtable[c] = EmptyVtable
        /\ Finish("invoke", EmptyInvocation)
        /\ UNCHANGED mem
     \/ /\ mem.vtable[c] # EmptyVtable
        /\ \E v \in Values : mem' = invoke(mem, c, v)
        /\ \E result \in {"ok", Raised} : Finish("invoke", result)

-----------------------------------------------------------------------------
NoObjects ==
  [vtable |-> [o \in Objects |-> Junk],
   lo |-> [o \in Objects |-> Junk], hi |-> [o \in Objects |-> Junk],
   allocated |-> {}, block |-> [b \in Blocks |-> Junk],
   live |-> {}, faults |-> {}]

Init ==
  /\ mem = NoObjects
  /\ alive = {}
  /\ last = [op |-> "start", result |-> "ok"]

(* The program has not ended, and has not left the behaviour C++ defines.  *)
Running ==
  /\ last.result \notin {"terminated", "aborted"}
  /\ mem.faults = {}

(* Bound: no call needs more than three blocks at once (a swap of callables*)
(* that can only be cloned).                                               *)
HeapBound == Cardinality(Blocks \ mem.allocated) >= 3

Step ==
  \/ \E c \in Callables : DefaultConstruct(c)
  \/ \E c \in Callables, x \in Storable, form \in {"copy", "move"} :
       ConstructFrom(c, x, form)
  \/ \E c, s \in Callables : CopyConstruct(c, s)
  \/ \E c, s \in Callables : MoveConstruct(c, s)
  \/ \E c \in Callables : Destruct(c)
  \/ \E c \in Callables, x \in Storable, form \in Forms,
        via \in {"assign", "operator="} : AssignFunctor(c, x, form, via)
  \/ \E c, s \in Callables, source \in {"const", "nonconst"} :
       CopyAssign(c, s, source)
  \/ \E c, s \in Callables : MoveAssign(c, s)
  \/ \E c \in Callables : Clear(c)
  \/ \E a, b \in Callables : Swap(a, b)
  \/ \E c \in Callables : Invoke(c)

Next == Running /\ HeapBound /\ Step

Spec == Init /\ [][Next]_vars

-----------------------------------------------------------------------------
(* Properties. *)

(* Every variable has its type, and a callable that exists points to the   *)
(* vtable of an accepted functor or of the empty handler.                  *)
TypeOK ==
  /\ mem \in MemoryType
  /\ alive \subseteq Callables
  /\ \A c \in alive : mem.vtable[c] \in Vtables
  /\ last.result \in {"ok", "threw", "terminated", "aborted"}

HeapHolders == {c \in alive : OnHeap(mem.vtable[c])}

(* Every block in use is reachable from a callable: whatever was called,   *)
(* and however it ended, nothing has leaked.                               *)
NothingLeaked == mem.allocated \subseteq {mem.lo[c] : c \in HeapHolders}

(* A callable with a target on the heap points to a block in use, and no   *)
(* two callables point to the same one: no dangling or doubly owned target.*)
BlocksOwnedOnce ==
  \A c \in HeapHolders :
    /\ mem.lo[c] \in mem.allocated
    /\ \A d \in HeapHolders : mem.lo[c] = mem.lo[d] => c = d

(* The functors whose constructor has run and whose destructor has not are *)
(* exactly the targets of the callables: constructions and destructions    *)
(* pair up over any sequence of copies, moves, swaps and failures.         *)
LifetimesBalanced ==
  mem.live = {c \in alive : functor_manager(mem.vtable[c]) = "small"}
    \cup {mem.lo[c] : c \in {d \in alive : functor_manager(mem.vtable[d]) = "generic"}}

(* Under the vtable of a functor type there is a functor of that type: the *)
(* vtable pointer and the buffer never disagree between calls.             *)
TargetsIntact ==
  \A c \in alive :
    LET t == mem.vtable[c]
        x == Target(mem, c, t)
    IN  t # EmptyVtable =>
          /\ x \in Images /\ x.type = t
          /\ Wide(t) => mem.hi[c] = x
          /\ functor_manager(t) = "trivial_heap" => mem.hi[c] = t

(* No call destroyed, overwrote, read or freed what it should not have.    *)
NoFaults == mem.faults \subseteq {"assertion"}

(* The BOOST_ASSERTs of manager_trivial_heap::clone hold wherever a debug  *)
(* build evaluates them.                                                   *)
AssertionsHold == "assertion" \notin mem.faults

(* In a debug build the words a target does not use are all ones, in every *)
(* callable: what the assertions of manager_trivial_heap::clone rely on.   *)
UnusedWordsClear ==
  DebugBuild =>
    \A c \in alive :
      /\ mem.vtable[c] = EmptyVtable => mem.lo[c] = AllOnes
      /\ ~Wide(mem.vtable[c]) /\ functor_manager(mem.vtable[c]) # "trivial_heap"
           => mem.hi[c] = AllOnes

(* Moves and swaps hand heap targets over: they neither allocate nor free  *)
(* one, apart from the target a move assignment replaces.                  *)
MovesKeepBlocks ==
  [][/\ last'.op \in {"move_construct", "swap"} => mem'.allocated = mem.allocated
     /\ last'.op = "move_assign" => mem'.allocated \subseteq mem.allocated]_vars

(* The target of every callable, as Functionoid sees it. *)
target ==
  [c \in Callables |->
     IF c \notin alive THEN Junk
     ELSE IF mem.vtable[c] = EmptyVtable THEN EmptyVtable
     ELSE Target(mem, c, mem.vtable[c])]

(* What traits and functors promise of a target, or of none.               *)
VtableOf(t) == IF t = EmptyVtable THEN EmptyVtable ELSE t.type
StoringFails(x, form) == AssignFailures(x.type, form) # {}
ConstructionThrows(x, form) == Throws(x.type, form)
AssignedDirectly(x, form) == HasNoFailAssignment(x.type, form)
CopyingFails(t) == CloneFailures(VtableOf(t)) # {}
MovingFails(t) == MoveFailures(VtableOf(t)) # {}

Contract == INSTANCE Functionoid WITH
  Targets <- Storable, IsNull <- has_empty_target,
  None <- EmptyVtable, Gone <- Junk, EmptyResult <- EmptyInvocation

(* Buffers, managers and heap implement the contract of callable: every    *)
(* call has the effect Functionoid gives it, on every callable, and throws *)
(* or ends the program only where Functionoid lets it.                     *)
ImplementsContract == Contract!Spec

-----------------------------------------------------------------------------
(* What the documentation or the tests say, and some traits do not keep.   *)

(* "If !this->empty(), destroys the target of this": once a callable is    *)
(* gone, so is the block its target was in.                                *)
DestructorFreesTarget ==
  [][\A c \in HeapHolders : c \notin alive' => mem.lo[c] \notin mem'.allocated]_vars

(* "Testing self move assignment": the sole callable of a program, assigned*)
(* from itself, is not empty afterwards.                                   *)
SelfMoveKeepsTarget ==
  [][\A c \in alive :
       alive = {c} /\ last'.op = "move_assign" /\ mem.vtable[c] # EmptyVtable
         => mem'.vtable[c] # EmptyVtable]_vars

(* Memory an allocator gave out goes back to that allocator. *)
BlocksReturnedToAllocator == "foreign_free" \notin mem.faults

(* A move construction may throw, but it returns to its caller. *)
MoveConstructionReturns ==
  ~(last.op = "move_construct" /\ last.result = "terminated")

(* A copy assignment that fails leaves an empty callable to its caller.    *)
CopyAssignmentReturns ==
  ~(last.op = "copy_assign_nonconst" /\ last.result = "terminated")

(* "Trying to assign a not-noexcept function object to a noexcept          *)
(* functionoid." does not compile: invoking a target does not end the      *)
(* program.                                                                *)
NoexceptTargets ==
  [][last'.op = "invoke" /\ last'.result = "terminated"
       => \E c \in alive : mem.vtable[c] = EmptyVtable]_vars
=============================================================================
