----------------------------- MODULE Reentrancy -----------------------------
(***************************************************************************)
(* Targets that use the callables of the program while they are invoked    *)
(* and while they are destroyed.                                           *)
(*                                                                         *)
(* In CallableBase a call is one step.  Here the code of a target runs in  *)
(* the middle of a call: its operator() between invoke and its return, its *)
(* destructor inside destroy(), while p_vtable_ still names it.  Whatever  *)
(* the program can call, it can call from there.  stack holds the targets  *)
(* whose code is running, innermost last, and what the library does once a *)
(* destructor returns.                                                     *)
(*                                                                         *)
(* Calls that destroy no target are the actions of CallableBase.  Moved-   *)
(* from functors and the constructors of functors do not call back.        *)
(***************************************************************************)
EXTENDS CallableBase, Sequences

CONSTANTS
  Tmps,     (* the local tmps of the running safe actual_assigns            *)
  MaxDepth  (* bound: how many targets run at once                          *)

ASSUME ReentrancyAssumption ==
  /\ Tmps \subseteq Objects \ (Callables \cup {SwapTmp})
  /\ MaxDepth \in Nat
  /\ IsFiniteSet(Callables) /\ IsFiniteSet(Blocks) /\ IsFiniteSet(Tmps)
  /\ Cardinality(Tmps) > MaxDepth
  /\ Cardinality(Blocks) > Cardinality(Callables) + MaxDepth
  /\ Destructor # "trivial" /\ Copyable # "na" /\ Moveable # "na"
  /\ \A F \in Functors : ~Shape[F].copyThrows /\ ~Shape[F].moveThrows

VARIABLE stack

rvars == <<vars, stack>>

(* Mutant: the address in the buffer, whatever the manager. *)
mutant_functor_ptr(m, o) == m.lo[o]

(* functor_ptr *)
functor_ptr(m, o) == IF OnHeap(m.vtable[o]) THEN m.lo[o] ELSE o

HasTarget(c) == mem.vtable[c] # EmptyVtable

(* A functor whose destructor is not trivial. *)
HasDestructor(t) == functor_manager(t) \in {"small", "generic"}

Content(loc) == IF loc \in Blocks THEN mem.block[loc] ELSE mem.lo[loc]

(* One entry of the stack: the target of type at this place runs as part   *)
(* of op; then says what follows its destructor, with obj, src and x.      *)
Frame(m, op, then, obj, src, x) ==
  [op |-> op, then |-> then, obj |-> obj, src |-> src, x |-> x,
   at |-> functor_ptr(m, obj), type |-> m.vtable[obj]]

Frames == {stack[i] : i \in DOMAIN stack}
Calling == {f \in Frames : f.op = "invoke"}
Dying   == {f \in Frames : f.op # "invoke"}

-----------------------------------------------------------------------------
(* Which calls a careful program makes from inside a target.  Assigning a  *)
(* const lvalue replaces the target first and destroys it afterwards, so   *)
(* that its destructor may use the callable; the other calls may destroy   *)
(* in place, the assignment of a functor in another form too.              *)

InPlace == {"clear", "assign", "copy_assign", "move_assign", "destruct"}

(* The callables in the middle of a call that destroys in place.           *)
Busy(c) == \E f \in Dying : f.op \in InPlace /\ f.obj = c

IsRunning(c) == \E f \in Calling : HasTarget(c) /\ f.at = functor_ptr(mem, c)

MayUse(c) == c \in alive /\ ~Busy(c)

(* It does not destroy a target that is running, *)
MayReplace(c) == MayUse(c) /\ ~IsRunning(c)

(* nor move one that lives in the buffer of its callable.                  *)
MayMove(c) == MayUse(c) /\ (IsRunning(c) => OnHeap(mem.vtable[c]))

(* Nor does it end the life of an argument of a call that has not returned.*)
MayDestruct(c) == MayReplace(c) /\ \A f \in Dying : f.src # c

-----------------------------------------------------------------------------
(* What the manager does once the destructor returned.  It remembers the   *)
(* block, and clears the buffer it was given.                              *)
released(m, f) ==
  LET n == EndLifetime(m, f.at) IN
  IF f.at \in Blocks THEN debug_clear(deallocate(n, f.at), f.obj)
  ELSE debug_clear_target(n, f.obj, f.type)

(* What the interrupted call does once the target is gone.  An assignment  *)
(* from another callable only now looks at its source.                     *)
Resume(m, f) ==
  \/ /\ f.then = "clear"
     /\ mem' = [m EXCEPT !.vtable[f.obj] = EmptyVtable]
     /\ Finish(f.op, "ok")
     /\ UNCHANGED alive
  \/ /\ f.then = "put"
     /\ mem' = put(m, f.obj, f.x)
     /\ Finish(f.op, "ok")
     /\ UNCHANGED alive
  \/ /\ f.then = "copy_from"
     /\ mem' = copy_from(m, f.src, f.obj)
     /\ Finish(f.op, "ok")
     /\ UNCHANGED alive
  \/ /\ f.then = "copy_from"
     /\ \E why \in CloneFailures(m.vtable[f.src]) :
          mem' = cleaned(assign_failed(m, f.obj, m.vtable[f.src], why), f.obj)
     /\ Finish(f.op, "threw")
     /\ UNCHANGED alive
  \/ /\ f.then = "move_from"
     /\ mem' = move_from(m, f.src, f.obj)
     /\ Finish(f.op, "ok")
     /\ UNCHANGED alive
  \/ /\ f.then = "retire"
     /\ mem' = retire(m, f.obj)
     /\ alive' = alive \ {f.obj}
     /\ Finish(f.op, "ok")

(* destroy() of the target f.obj holds in m, and what follows it: at once, *)
(* or when its destructor returns.                                         *)
Destroy(m, f) ==
  LET t == m.vtable[f.obj] IN
  \/ /\ ~HasDestructor(t)
     /\ Resume(destroy(m, f.obj), f)
     /\ UNCHANGED stack
  \/ /\ HasDestructor(t)
     /\ Len(stack) < MaxDepth
     /\ mem' = m
     /\ stack' = Append(stack, f)
     /\ Finish(f.op, "running")
     /\ UNCHANGED alive

-----------------------------------------------------------------------------
(* The calls that destroy a target. *)

DestructR(c) ==
  /\ MayDestruct(c)
  /\ Destroy(mem, Frame(mem, "destruct", "retire", c, c, EmptyVtable))

ClearR(c) ==
  /\ MayReplace(c)
  /\ Destroy(mem, Frame(mem, "clear", "clear", c, c, EmptyVtable))

(* Mutant: the new target is put into the buffer the old one is still in.  *)
mutant_replaced(m, t, c, x) == put(construct_empty(m, t), c, x)

(* What the safe actual_assign has done when its tmp goes out of scope.    *)
replaced(m, t, c, x) == swap(put(construct_empty(m, t), t, x), c, t)

AssignR(c, x, form) ==
  LET tmp == CHOOSE o \in Tmps : mem.vtable[o] = Junk
      op  == IF form = "copy" THEN "assign_const" ELSE "assign"
  IN
  /\ MayReplace(c)
  /\ Compiles(x.type, form)
  /\ \/ /\ has_empty_target(x)
        /\ Destroy(mem, Frame(mem, "clear", "clear", c, c, EmptyVtable))
     \/ /\ ~has_empty_target(x)
        /\ HasNoFailAssignment(x.type, form)
        /\ Destroy(mem, Frame(mem, op, "put", c, c, x))
     \/ /\ ~has_empty_target(x)
        /\ ~HasNoFailAssignment(x.type, form)
        /\ LET m == replaced(mem, tmp, c, x)
           IN  Destroy(m, Frame(m, op, "retire", tmp, tmp, EmptyVtable))
     \/ /\ ~has_empty_target(x)
        /\ ~HasNoFailAssignment(x.type, form)
        /\ AssignFailures(x.type, form) # {}
        /\ Finish(op, "threw")
        /\ UNCHANGED <<mem, alive, stack>>

CopyAssignR(c, s) ==
  /\ MayReplace(c) /\ MayUse(s)
  /\ \/ /\ SelfAssignGuard(c, s)
        /\ Finish("copy_assign", "ok")
        /\ UNCHANGED <<mem, alive, stack>>
     \/ /\ ~SelfAssignGuard(c, s)
        /\ Destroy(mem, Frame(mem, "copy_assign", "copy_from", c, s, EmptyVtable))

MoveAssignR(c, s) ==
  /\ MayReplace(c) /\ MayMove(s)
  /\ \/ /\ SelfAssignGuard(c, s)
        /\ Finish("move_assign", "ok")
        /\ UNCHANGED <<mem, alive, stack>>
     \/ /\ ~SelfAssignGuard(c, s)
        /\ Destroy(mem, Frame(mem, "move_assign", "move_from", c, s, EmptyVtable))

(* The destructor of the innermost target returns. *)
DestructorReturns ==
  LET f == stack[Len(stack)] IN
  /\ stack # <<>> /\ f \in Dying
  /\ Resume(released(mem, f), f)
  /\ stack' = SubSeq(stack, 1, Len(stack) - 1)

-----------------------------------------------------------------------------
(* The calls that do not. *)

InvokeR(c) ==
  /\ MayUse(c) /\ HasTarget(c)
  /\ Len(stack) < MaxDepth
  /\ stack' = Append(stack, Frame(mem, "invoke", "return", c, c, EmptyVtable))
  /\ Finish("invoke", "running")
  /\ UNCHANGED <<mem, alive>>

CallReturns ==
  /\ stack # <<>> /\ stack[Len(stack)] \in Calling
  /\ stack' = SubSeq(stack, 1, Len(stack) - 1)
  /\ Finish("invoke", "ok")
  /\ UNCHANGED <<mem, alive>>

ConstructFromR(c, x)  == ConstructFrom(c, x, "copy") /\ UNCHANGED stack
CopyConstructR(c, s)  == MayUse(s) /\ CopyConstruct(c, s) /\ UNCHANGED stack
MoveConstructR(c, s)  == MayMove(s) /\ MoveConstruct(c, s) /\ UNCHANGED stack
SwapR(a, b) == MayMove(a) /\ MayMove(b) /\ Swap(a, b) /\ UNCHANGED stack

InitR == Init /\ stack = <<>>

NextR ==
  /\ Running
  /\ \/ \E c \in Callables : DestructR(c)
     \/ \E c \in Callables : ClearR(c)
     \/ \E c \in Callables : InvokeR(c)
     \/ \E c \in Callables, x \in Storable : ConstructFromR(c, x)
     \/ \E c \in Callables, x \in Storable, form \in Forms :
          AssignR(c, x, form)
     \/ \E c, s \in Callables : CopyConstructR(c, s)
     \/ \E c, s \in Callables : MoveConstructR(c, s)
     \/ \E c, s \in Callables : CopyAssignR(c, s)
     \/ \E c, s \in Callables : MoveAssignR(c, s)
     \/ \E a, b \in Callables : SwapR(a, b)
     \/ DestructorReturns
     \/ CallReturns

SpecR == InitR /\ [][NextR]_rvars

-----------------------------------------------------------------------------
(* Properties. *)

(* The stack is within its bound, and every variable of CallableBase has   *)
(* its type.                                                               *)
StackTypeOK ==
  /\ mem \in MemoryType
  /\ alive \subseteq Callables
  /\ Len(stack) <= MaxDepth
  /\ \A f \in Frames : f.at \in Objects \cup Blocks /\ f.type \in Vtables

(* Whatever a target calls while it is invoked, it goes on running in a    *)
(* live functor of its own type: callables on the heap may be moved and    *)
(* swapped under a running target, which stays where it is.                *)
CallsRunInTheirTarget ==
  \A f \in Calling :
    /\ Content(f.at) \in Images /\ Content(f.at).type = f.type
    /\ HasDestructor(f.type) => f.at \in mem.live

(* No callable the program may use names a target whose destructor runs,   *)
(* and none is destroyed a second time: an assignment of a const lvalue has*)
(* put the new target in place before the old one can call back.           *)
DyingTargetsUnreachable ==
  /\ \A f \in Dying, c \in Callables :
       MayUse(c) /\ HasTarget(c) => functor_ptr(mem, c) # f.at
  /\ \A i, j \in DOMAIN stack :
       stack[i] \in Dying /\ stack[j] \in Dying /\ stack[i].at = stack[j].at => i = j

Owned == {functor_ptr(mem, c) : c \in {d \in alive : HasDestructor(mem.vtable[d])}}

(* In the middle of any nesting of calls, every live functor is the target *)
(* of a callable or is being destroyed: what a destructor puts into the    *)
(* callables of the program is neither overwritten nor lost.               *)
NothingForgotten ==
  /\ mem.live = Owned \cup {f.at : f \in Dying}
  /\ mem.allocated =
       {mem.lo[c] : c \in {d \in alive : OnHeap(mem.vtable[d])}}
         \cup ({f.at : f \in Dying} \cap Blocks)
=============================================================================
