-------------------------------- MODULE Rtti --------------------------------
(***************************************************************************)
(* Run-time type information: target(), target_type(), contains() and the  *)
(* typed_functor behind them, over the callables of CallableBase.          *)
(*                                                                         *)
(* A program asks a callable for a pointer to its target and keeps it      *)
(* while it goes on using the callables.  It knows what a C++ program may  *)
(* know: a pointer follows its target when the callable is moved or        *)
(* swapped, unless the target lived in the buffer, and ends with it.       *)
(*                                                                         *)
(* A functor can be stored by reference, in a boost::reference_wrapper.    *)
(* Its state says which functor of the program it refers to; there is one  *)
(* for every state, and it stays in that state.  Wrappers of const and of  *)
(* volatile functors do not compile, nor do those of the standard library: *)
(* the constructor of vtable deduces ActualFunctor without its const, and  *)
(* a typed_functor does not take a volatile one.                           *)
(***************************************************************************)
EXTENDS CallableBase

CONSTANTS
  Actual,  (* ActualFunctor, for each stored functor                        *)
  ByRef,   (* the stored functors that are reference wrappers               *)
  Void,    (* typeid( void )                                                *)
  nullptr  (* what target() returns for a type that is not the target's     *)

Types == {Actual[F] : F \in Functors}

ASSUME RttiAssumption ==
  /\ ByRef \subseteq Functors
  /\ \A F \in ByRef : functor_manager(F) = "ptr" /\ ~Shape[F].nullable
  /\ {EmptyHandler, Void} \cap Types = {}
  /\ nullptr \notin Objects \cup Blocks \cup Values
  /\ Values \cap (Objects \cup Blocks) = {}
  /\ Destructor # "trivial"

Qualified == [type: Types \cup {EmptyHandler}, const: BOOLEAN, volatile: BOOLEAN]

VARIABLE held  (* the pointer the program keeps, its type, whose target it is *)

tvars == <<vars, held>>

-----------------------------------------------------------------------------
(* functor_ptr *)
functor_ptr(m, c) == IF OnHeap(m.vtable[c]) THEN m.lo[c] ELSE c

actual_functor_ptr(m, c) ==
  IF m.vtable[c] \in ByRef THEN Target(m, c, m.vtable[c]).val
  ELSE functor_ptr(m, c)

(* Mutant: the type that is stored instead of the one that was assigned. *)
mutant_get_typed_functor(m, c) ==
  [p |-> actual_functor_ptr(m, c), type |-> m.vtable[c],
   const |-> FALSE, volatile |-> FALSE]

get_typed_functor(m, c) ==
  [p |-> actual_functor_ptr(m, c),
   type |-> IF m.vtable[c] = EmptyVtable THEN EmptyHandler ELSE Actual[m.vtable[c]],
   const |-> FALSE, volatile |-> FALSE]

get_functor_if_types_match(f, Q) ==
  IF /\ f.type = Q.type
     /\ f.const => Q.const
     /\ f.volatile => Q.volatile
  THEN f.p ELSE nullptr

target_type(m, c) == get_typed_functor(m, c).type

target_of(m, c, Q) == get_functor_if_types_match(get_typed_functor(m, c), Q)

const_target_of(m, c, Q) == target_of(m, c, [Q EXCEPT !.const = TRUE])

(* target_as: the bytes of the buffer, whatever they are. *)
target_as(c) == c

(* The image of the functor at a place: a referred one is its own state.   *)
StateAt(m, p) ==
  IF p \in Values THEN p
  ELSE IF p \in Blocks THEN m.block[p].val ELSE m.lo[p].val

(* Mutant: the addresses are compared. *)
mutant_contains(m, c, x) ==
  const_target_of(m, c, [type |-> Actual[x.type], const |-> FALSE,
                         volatile |-> FALSE]) = x.val

(* contains, of a functor x the program has: true if the target equals it. *)
contains(m, c, x) ==
  LET p == const_target_of(m, c, [type |-> Actual[x.type], const |-> FALSE,
                                  volatile |-> FALSE])
  IN  p # nullptr /\ StateAt(m, p) = x.val

-----------------------------------------------------------------------------
(* What becomes of the pointer the program holds. *)

NoPointer == [p |-> nullptr, type |-> Void, holder |-> Junk]

Drop(cs) == held' = IF held.holder \in cs THEN NoPointer ELSE held

InBuffer(c) == functor_ptr(mem, c) = c /\ mem.vtable[c] \notin ByRef

(* The target of s is now that of c: it moves, unless it is in the buffer. *)
Hand(s, c) ==
  held' = IF held.holder = s
          THEN IF InBuffer(s) THEN NoPointer ELSE [held EXCEPT !.holder = c]
          ELSE IF held.holder = c THEN NoPointer ELSE held

Acquire(c, Q) ==
  /\ c \in alive
  /\ target_of(mem, c, Q) # nullptr
  /\ held' = [p |-> target_of(mem, c, Q), type |-> Q.type, holder |-> c]
  /\ UNCHANGED vars

InitT == Init /\ held = NoPointer

(* Invoking a reference wrapper does not make it refer to something else.  *)
InvokeT(c) ==
  /\ Invoke(c)
  /\ mem.vtable[c] \in ByRef => mem' = mem
  /\ UNCHANGED held

AssignFunctorT(c, x, form) ==
  /\ AssignFunctor(c, x, form, "assign")
  /\ IF last'.result = "ok" THEN Drop({c}) ELSE UNCHANGED held

CopyAssignT(c, s) ==
  /\ CopyAssign(c, s, "const")
  /\ IF c = s THEN UNCHANGED held ELSE Drop({c})

MoveConstructT(c, s) ==
  /\ MoveConstruct(c, s)
  /\ IF last'.result = "ok" THEN Hand(s, c) ELSE UNCHANGED held

(* When moving throws, c has lost its target and s has kept its own.       *)
MoveAssignT(c, s) ==
  /\ MoveAssign(c, s)
  /\ CASE c = s -> UNCHANGED held
       [] c # s /\ last'.result = "ok" -> Hand(s, c)
       [] c # s /\ last'.result # "ok" -> Drop({c})

SwapT(a, b) ==
  /\ Swap(a, b)
  /\ IF a = b \/ last'.result # "ok" THEN UNCHANGED held
     ELSE held' = CASE held.holder \in {a, b} /\ InBuffer(held.holder) -> NoPointer
                    [] held.holder = a /\ ~InBuffer(a) -> [held EXCEPT !.holder = b]
                    [] held.holder = b /\ ~InBuffer(b) -> [held EXCEPT !.holder = a]
                    [] OTHER -> held

NextT ==
  /\ Running /\ HeapBound
  /\ \/ \E c \in Callables : DefaultConstruct(c) /\ UNCHANGED held
     \/ \E c \in Callables, x \in Storable : ConstructFrom(c, x, "copy") /\ UNCHANGED held
     \/ \E c, s \in Callables : CopyConstruct(c, s) /\ UNCHANGED held
     \/ \E c, s \in Callables : MoveConstructT(c, s)
     \/ \E c \in Callables : Destruct(c) /\ Drop({c})
     \/ \E c \in Callables : Clear(c) /\ Drop({c})
     \/ \E c \in Callables, x \in Storable, form \in Forms :
          AssignFunctorT(c, x, form)
     \/ \E c, s \in Callables : CopyAssignT(c, s)
     \/ \E c, s \in Callables : MoveAssignT(c, s)
     \/ \E a, b \in Callables : SwapT(a, b)
     \/ \E c \in Callables : InvokeT(c)
     \/ \E c \in Callables, Q \in Qualified : Acquire(c, Q)

SpecT == InitT /\ [][NextT]_tvars

-----------------------------------------------------------------------------
(* Properties. *)

(* The held pointer is null, or one to an object, a block or a functor of  *)
(* the program; and every callable that exists has a target type.          *)
RttiTypeOK ==
  /\ held = NoPointer \/ held.p \in Objects \cup Blocks \cup Values
  /\ \A c \in alive : target_type(mem, c) \in Types \cup {EmptyHandler}

(* A pointer from target() stays one to the target, and is what target()   *)
(* returns, while that target is moved and swapped between callables: only *)
(* a target in the buffer leaves it behind.                                *)
HeldPointerFollows ==
  held # NoPointer =>
    /\ held.holder \in alive
    /\ target_of(mem, held.holder, [type |-> held.type, const |-> FALSE,
                                    volatile |-> FALSE]) = held.p
    /\ held.p \in Blocks =>
         /\ held.p \in mem.allocated
         /\ Actual[mem.block[held.p].type] = held.type

Contained(m, c) == {x \in Storable : contains(m, c, x)}

(* A copy contains what its source contains, a moved-to callable what its  *)
(* source contained, and an empty one nothing.                             *)
ContainsFollowsTarget ==
  [][/\ \A c, s \in Callables :
          (\/ Finish("copy_construct", "ok") /\ CopyConstruct(c, s)
           \/ Finish("copy_assign", "ok") /\ CopyAssign(c, s, "const"))
          => Contained(mem', c) = Contained(mem, s)
     /\ \A c, s \in Callables :
          (\/ Finish("move_construct", "ok") /\ MoveConstruct(c, s)
           \/ Finish("move_assign", "ok") /\ c # s /\ MoveAssign(c, s))
          => Contained(mem', c) = Contained(mem, s) /\ Contained(mem', s) = {}
     /\ \A c \in Callables, x \in Storable :
          (/\ Finish("assign", "ok")
           /\ x.type \notin ByRef /\ ~has_empty_target(x)
           /\ AssignFunctor(c, x, "copy", "assign"))
          => contains(mem', c, x)]_vars

-----------------------------------------------------------------------------
(* What the documentation says, and the code does not. *)

(* "typeid of the target function object, or typeid(void) if empty()"      *)
EmptyHasNoType ==
  \A c \in alive : mem.vtable[c] = EmptyVtable => target_type(mem, c) = Void

(* "unchecked version of target": where target() finds the functor,        *)
(* target_as() finds it too.                                               *)
TargetAsIsTarget ==
  \A c \in alive, Q \in Qualified :
    Q.type \in Types /\ target_of(mem, c, Q) # nullptr
      => target_of(mem, c, Q) = target_as(c)
=============================================================================
