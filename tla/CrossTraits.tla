----------------------------- MODULE CrossTraits -----------------------------
(***************************************************************************)
(* Assignment between callables of different traits: a callable that takes *)
(* over a target takes over the vtable pointer too, and from then on       *)
(* destroys, moves and copies its target through a vtable that was laid    *)
(* out for other traits.                                                   *)
(*                                                                         *)
(* The functor types are told apart by the traits of the callable that     *)
(* first stored them, since their vtable, and with it their manager, are   *)
(* instantiated for it.  Every class has an empty handler of its own.      *)
(***************************************************************************)
EXTENDS FiniteSets, VtableLayout, TargetManagers

CONSTANTS
  Callables, (* the objects the program declares as callables               *)
  Classes,   (* names for the traits classes in use                         *)
  ClassOf,   (* the traits class of every callable                          *)
  StoredBy,  (* the traits class of every vtable                            *)
  EmptyOf,   (* the vtable of the empty handler of every class              *)
  Programs,  (* what the traits classes may be                              *)
  MaxAlive   (* bound: how many callables exist at once                     *)

ASSUME ClassesAssumption ==
  /\ Callables \subseteq Objects
  /\ ClassOf \in [Callables -> Classes]
  /\ StoredBy \in [Vtables -> Classes]
  /\ EmptyOf \in [Classes -> EmptyVtables]
  /\ \A k \in Classes : StoredBy[EmptyOf[k]] = k
  /\ Programs \subseteq [Classes -> TraitsRecord]
  /\ MaxAlive \in Nat

VARIABLES
  traits, (* the traits classes of this program                             *)
  mem,    (* the memory, see TargetManagers                                 *)
  alive,  (* the callables that exist                                       *)
  last    (* the last call and how it ended                                 *)

vars == <<traits, mem, alive, last>>

Of(c) == traits[ClassOf[c]]

(* The traits the vtable of c was laid out for. *)
VtableTraits(m, c) == traits[StoredBy[m.vtable[c]]]

IsEmptyHandler(t) == t \in EmptyVtables

(* empty_checker: the bool that is where c's class has its own, or a       *)
(* comparison of addresses.  Mutant: always addresses.                     *)
mutant_empty(m, c) == m.vtable[c] = EmptyOf[ClassOf[c]]
empty(m, c) ==
  IF Of(c).dll_safe_empty_check
  THEN /\ Found(Of(c), "is_empty", VtableTraits(m, c)) = {"is_empty"}
       /\ IsEmptyHandler(m.vtable[c])
  ELSE m.vtable[c] = EmptyOf[ClassOf[c]]

(* The types a callable of class k accepts, by its levels. *)
Accepts(k, F) ==
  /\ StoredBy[F] = k
  /\ traits[k].copyable \in AtLeastNofail => ~Shape[F].copyThrows
  /\ traits[k].copyable = "nofail" => ~OnHeap(F)
  /\ traits[k].moveable = "nofail" => ~(Shape[F].small /\ Shape[F].moveThrows)

-----------------------------------------------------------------------------
(* The slots, called through the layout of the callable's own class.       *)

(* The manager function that is where c's class has the given slot. *)
through(m, c, slot, d) ==
  LET found == Found(Of(c), slot, VtableTraits(m, c))
      t     == m.vtable[c]
  IN CASE found = {"destroy"} -> destroy_target(m, c, t)
       [] found = {"move"}    -> move(m, c, d, t)
       [] found = {"clone"}   -> clone(m, c, d, t)

(* Mutant: a slot too far, where nothing is destroyed. *)
mutant_destroy(m, c) == m
destroy(m, c) ==
  IF Of(c).destructor = "trivial" THEN debug_clear(m, c)
  ELSE through(m, c, "destroy", c)

clone_slot(m, s, d) ==
  IF Of(s).copyable = "trivial" THEN bitwise(m, s, d, FALSE)
  ELSE through(m, s, "clone", d)

move_to(m, s, d) ==
  CASE Of(s).moveable = "na"      -> clone_slot(m, s, d)
    [] Of(s).moveable = "trivial" -> bitwise(m, s, d, TRUE)
    [] OTHER                      -> through(m, s, "move", d)

(* How the cloner that s calls may fail. *)
CloneFailures(s) ==
  IF Of(s).copyable = "trivial" \/ IsEmptyHandler(mem.vtable[s]) THEN {}
  ELSE AssignFailures(mem.vtable[s], "copy")

set_vtable(m, c, F) == [m EXCEPT !.vtable[c] = F]

(* op tells calls between classes from calls in one class ("own").        *)
Finish(op, result, c) == last' = [op |-> op, result |-> result, to |-> c]

-----------------------------------------------------------------------------
(* The members of one class that a foreign vtable meets. *)

DefaultConstruct(c) ==
  /\ c \in Callables \ alive
  /\ mem' = set_vtable(debug_clear(mem, c), c, EmptyOf[ClassOf[c]])
  /\ alive' = alive \cup {c}
  /\ Finish("own", "ok", Junk)

(* callable( F && ), where storing the functor succeeds. *)
ConstructFrom(c, x) ==
  /\ c \in Callables \ alive
  /\ Accepts(ClassOf[c], x.type)
  /\ mem' = set_vtable(assign(debug_clear(mem, c), c, x, x.type, x.type), c, x.type)
  /\ alive' = alive \cup {c}
  /\ Finish("own", "ok", Junk)

CopyConstruct(c, s) ==
  /\ c \in Callables \ alive
  /\ s \in alive
  /\ ClassOf[c] = ClassOf[s]
  /\ Of(c).copyable # "na"
  /\ \/ /\ mem' = set_vtable(clone_slot(debug_clear(mem, c), s, c), c, mem.vtable[s])
        /\ alive' = alive \cup {c}
        /\ Finish("own", "ok", Junk)
     \/ /\ \E why \in CloneFailures(s) :
             mem' = retire(assign_failed(debug_clear(mem, c), c, mem.vtable[s], why), c)
        /\ Finish("own", "threw", Junk)
        /\ UNCHANGED alive

(* The source is marked with the empty handler of its own class.  There is *)
(* a mover or else a cloner, or it does not compile.                       *)
MoveConstruct(c, s) ==
  /\ c \in Callables \ alive
  /\ s \in alive
  /\ ClassOf[c] = ClassOf[s]
  /\ Of(c).moveable = "na" => Of(c).copyable # "na"
  /\ mem' = set_vtable(set_vtable(move_to(debug_clear(mem, c), s, c), c, mem.vtable[s]),
                       s, EmptyOf[ClassOf[s]])
  /\ alive' = alive \cup {c}
  /\ Finish("own", "ok", Junk)

Clear(c) ==
  /\ c \in alive
  /\ mem' = set_vtable(destroy(mem, c), c, EmptyOf[ClassOf[c]])
  /\ Finish("own", "ok", Junk)
  /\ UNCHANGED alive

Destruct(c) ==
  /\ c \in alive
  /\ mem' = retire(destroy(mem, c), c)
  /\ alive' = alive \ {c}
  /\ Finish("own", "ok", Junk)

-----------------------------------------------------------------------------
(* Construction and assignment from a callable of another class.           *)

(* The program may write c = s: the traits differ, and it compiles. *)
Convertible(c, s) ==
  /\ ClassOf[c] # ClassOf[s]
  /\ Assignable(Of(c), Of(s))

(* Mutants: the vtable pointer is not taken over; the source is moved from.*)
mutant_take(m, c, s) == clone_slot(m, s, c)
mutant_take_by_move(m, c, s) ==
  set_vtable(set_vtable(move_to(m, s, c), c, m.vtable[s]), s, EmptyOf[ClassOf[s]])

(* assign_functionoid_direct, from other traits: it always copies.         *)
take(m, c, s) == set_vtable(clone_slot(m, s, c), c, m.vtable[s])

(* callable( Functor && ): noexcept if the source, as a functor, is        *)
(* constructed without throwing from what is passed.  An lvalue, const or  *)
(* not, is copied: the template does not take a callable of its own class. *)
NoexceptFrom(s, form) ==
  IF form = "copy" THEN Of(s).copyable \in AtLeastNofail
  ELSE Of(s).moveable \in AtLeastNofail

CrossConstruct(c, s, form) ==
  /\ c \in Callables \ alive
  /\ s \in alive
  /\ Convertible(c, s)
  /\ \/ /\ mem' = take(debug_clear(mem, c), c, s)
        /\ alive' = alive \cup {c}
        /\ Finish("cross", "ok", c)
     \/ /\ ~NoexceptFrom(s, form)
        /\ \E why \in CloneFailures(s) :
             mem' = retire(assign_failed(debug_clear(mem, c), c, mem.vtable[s], why), c)
        /\ Finish("cross_construct", "threw", c)
        /\ UNCHANGED alive
     \/ /\ NoexceptFrom(s, form)
        /\ CloneFailures(s) # {}
        /\ Finish("cross_construct", "terminated", c)
        /\ UNCHANGED <<mem, alive>>

(* Mutant: the guard is cancelled before the source is cloned. *)
mutant_cleaned(m, c) == m

(* cleaner *)
cleaned(m, c) == set_vtable(m, c, EmptyOf[ClassOf[c]])

(* assign_functionoid_guarded, by assign() or by the noexcept operator=.   *)
CrossAssign(c, s, via) ==
  /\ {c, s} \subseteq alive
  /\ Convertible(c, s)
  /\ UNCHANGED alive
  /\ \/ /\ mem' = take(destroy(mem, c), c, s)
        /\ Finish("cross", "ok", c)
     \/ /\ via = "assign"
        /\ \E why \in CloneFailures(s) :
             mem' = cleaned(assign_failed(destroy(mem, c), c, mem.vtable[s], why), c)
        /\ Finish("cross_assign", "threw", c)
     \/ /\ via = "operator="
        /\ CloneFailures(s) # {}
        /\ Finish("cross_assign", "terminated", c)
        /\ UNCHANGED mem

-----------------------------------------------------------------------------
Init ==
  /\ traits \in Programs
  /\ mem = [vtable |-> [o \in Objects |-> Junk],
            lo |-> [o \in Objects |-> Junk], hi |-> [o \in Objects |-> Junk],
            allocated |-> {}, block |-> [b \in Blocks |-> Junk],
            live |-> {}, faults |-> {}]
  /\ alive = {}
  /\ last = [op |-> "start", result |-> "ok", to |-> Junk]

(* Bound: a call needs one block at most, and a failing one holds none. *)
HeapBound == Blocks # mem.allocated

Next ==
  /\ UNCHANGED traits
  /\ last.result # "terminated" /\ mem.faults = {} /\ HeapBound
  /\ \/ \E c \in Callables : DefaultConstruct(c)
     \/ \E c \in Callables, x \in Images : ConstructFrom(c, x)
     \/ \E c, s \in Callables : CopyConstruct(c, s)
     \/ \E c, s \in Callables : MoveConstruct(c, s)
     \/ \E c \in Callables : Clear(c)
     \/ \E c \in Callables : Destruct(c)
     \/ \E c, s \in Callables, form \in {"copy", "move"} : CrossConstruct(c, s, form)
     \/ \E c, s \in Callables, via \in {"assign", "operator="} : CrossAssign(c, s, via)
  /\ Cardinality(alive') <= MaxAlive

Spec == Init /\ [][Next]_vars

-----------------------------------------------------------------------------
(* Properties. *)

(* Every variable has its type. *)
TypeOK ==
  /\ traits \in Programs
  /\ mem \in MemoryType
  /\ alive \subseteq Callables
  /\ \A c \in alive : mem.vtable[c] \in Vtables
  /\ last.result \in {"ok", "threw", "terminated"}

(* Whatever vtable a callable has come by, over any chain of assignments   *)
(* between traits, moves and failures: each slot it calls is the one it    *)
(* means to call, and no function there does what its levels exclude.      *)
SlotsAgree == \A c \in alive : Agree(Of(c), VtableTraits(mem, c))

Holders(manager) == {c \in alive : functor_manager(mem.vtable[c]) = manager}

(* Targets taken over from other traits are owned like any other: each     *)
(* block in use by one callable, each functor alive the target of one.     *)
OwnedOnce ==
  LET heap == Holders("generic") \cup Holders("trivial_heap") IN
  /\ mem.allocated = {mem.lo[c] : c \in heap}
  /\ \A c, d \in heap : mem.lo[c] = mem.lo[d] => c = d
  /\ mem.live = Holders("small") \cup {mem.lo[c] : c \in Holders("generic")}

(* No functor is destroyed, read, overwritten or freed that should not be. *)
NoFaults == mem.faults = {}

(* "*this ... is empty if f.empty()": a callable that has taken over an    *)
(* empty handler, its own or one of other traits, knows that it is empty.  *)
EmptySourceGivesEmpty ==
  \A c \in alive : IsEmptyHandler(mem.vtable[c]) => empty(mem, c)

(* What c holds: a type, and unless that is an empty handler, an image.    *)
Held(m, c) ==
  [vtable |-> m.vtable[c],
   target |-> IF IsEmptyHandler(m.vtable[c]) THEN Junk ELSE Target(m, c, m.vtable[c])]

(* Assignment between traits copies, from an rvalue too: afterwards the    *)
(* target equals that of some callable of another class, and nothing that  *)
(* another callable held has changed; a failed one leaves it empty, by the *)
(* empty handler of its own class.                                         *)
CrossAssignmentCopies ==
  [][/\ last'.op \in {"cross", "cross_construct", "cross_assign"} =>
          \A d \in alive \ {last'.to} : Held(mem', d) = Held(mem, d)
     /\ last'.op = "cross" =>
          \E s \in alive : Convertible(last'.to, s) /\ Held(mem', last'.to) = Held(mem, s)
     /\ last'.op = "cross_assign" /\ last'.result = "threw" =>
          mem'.vtable[last'.to] = EmptyOf[ClassOf[last'.to]]]_vars

-----------------------------------------------------------------------------
(* What the documentation or an assertion says, and some traits do not     *)
(* keep.                                                                   *)

(* "the rest of the vtable is ignored/not used by this callable": a        *)
(* callable without RTTI can be assigned from one with it.                 *)
RttiIsIgnored ==
  \A j, k \in Classes :
    LET T == traits[j]
        O == traits[k]
    IN  /\ compatible_vtables(T, O) /\ O.copyable # "na"
        /\ T.sbo_size >= O.sbo_size /\ T.sbo_alignment >= O.sbo_alignment
        /\ T.copyable = O.copyable
        => Assignable(T, O)

(* A move construction between traits that may fail returns to its caller. *)
CrossConstructionReturns ==
  ~(last.op = "cross_construct" /\ last.result = "terminated")
=============================================================================
