# A verification of Psi.Functionoid

`psi::functionoid::callable<Signature, Traits>` is a policy-based `std::function`:
a type-erased functor in a small buffer or on the heap, with a vtable chosen by the
functor's type, and a traits class that says how much the callable can be copied,
moved and destroyed, and what invoking an empty one does. The library is sequential:
no locks, no threads, no I/O, nothing persisted. What is hard about it is object
lifetime. Every special member destroys, constructs, moves and frees targets in some
order, any of these steps may throw, five storage strategies are combined with
four support levels for each of three operations, and the vtable pointer and the
buffer of a callable have to agree after every sequence of calls and failures.

The second surface, `function_ref`, owns nothing, and is about the lifetimes of what
it refers to and about exceptions that must not cross a `noexcept` callback.

The TLA+ modules here model all of this down to vtable pointers, buffer words, heap
blocks, thunks and data words; TLC checks them on small instances, and TLAPS proves for
every value of the constants that the implementation keeps its contract, that targets are
owned once (within one traits class, across several, and while targets call back), that
vtable layouts agree, that debug assertions hold, and where pointers and references lead.

## 1. Inventory

Paths are relative to `src/include/psi/functionoid/`; `CB` is
`detail/callable_base.hpp`.

| component | state | operations | interacts with |
|---|---|---|---|
| traits, support levels, empty handlers (`policies.hpp`) | none: compile-time constants | `handle_empty_invoke` | selects the vtable slots; called through the empty vtable |
| functor managers (CB 186-494) | the words of one `function_buffer`, heap blocks | `assign`, `clone`, `move`, `destroy`, `functor_ptr` | the allocator; the target's constructors and destructor |
| vtable slots (CB 513-778) | none: function pointers | `destroy`, `clone`, `move`, `invoke`, `get_typed_functor` | forward to a manager, or copy bytes for level `trivial` |
| `callable_base` (CB 781-1292) | `p_vtable_`, `functor_` | construct, assign (direct, safe, guarded), `clear`, `swap`, `destroy`, `move_to` | vtable slots, `cleaner`, `safe_mover_base` |
| `callable` (`functionoid.hpp`) | that of `callable_base` | constructors, `operator=`, `assign`, `swap`, `operator()`, `contains`, `target` | `callable_base`; decides what is `noexcept` |
| assignment between traits (CB 1017-1086) | as above | `assign_functionoid_direct( callable_base<OtherTraits> )`, `compatible_vtables`, `empty_checker` | two layouts of the vtable |
| `function_ref` (`function_ref.hpp`) | a data word and a thunk; a tunnel's `target` and `exception` | construct, copy, call, `make_c_callback`, `check_failure` | the referenced callable's lifetime; a foreign caller |
| RTTI (`rtti.hpp`) | none | `target`, `target_type`, `target_as`, `contains`, `typed_functor::target` | the reflector slot, `function_equal` |
| `function_equal`, `functionoid_fwd` | none | `operator==` of two functors, free `swap` | called by `contains`; calls `callable::swap` |
| `vtable_attrs` | none | compiler attributes | |

Properties that make each of them correct:

- *managers*: `assign` constructs exactly one target, `destroy` ends exactly one and
  gives its block back, `move` leaves one target where there was one, a failed
  operation leaves none; the debug assertions about cleared buffers hold.
- *callable_base*: after any sequence of calls, whichever of them failed, each
  constructed functor is the target of exactly one callable, each block in use is owned by
  exactly one, the vtable names the type of what the buffer holds, and no dead target is
  read, destroyed, overwritten or freed.
- *callable*: the value semantics a user sees. Copies are equal, moves empty their
  source, swap exchanges, a failed functor assignment changes nothing, a failed copy
  assignment leaves an empty callable; exceptions reach the caller where the interface
  lets them.
- *assignment between traits*: a slot called through the other layout is the same slot;
  emptiness is recognised.
- *function_ref*: a call arrives, at the callable the reference was made of, while it
  lives; no exception leaves a `noexcept` signature, and a tunneled one is reported, once.
- *RTTI*: a pointer from `target()` follows its target; `contains()` agrees with copies
  and moves; an empty callable has no type.
- *callbacks*: while a target runs or is destroyed, any call it makes leaves every other
  target owned once and itself where it is.

Hard behaviours: partial failure (allocation, construction in place, construction in a
temporary), ordering of destroy/construct/assign of `p_vtable_`, self-assignment, stale
buffer contents, exceptions meeting `noexcept`, re-entrance from a target's own
operator or destructor. `PROJECT.json` lists each at its line under `hazards`.

## 2. Modules

    SupportLevels        the enumeration support_level
    TargetManagers       the five functor managers as operators on a memory
    Ownership            who owns what in a memory: a predicate, no behaviour
    OwnershipProofs      lemmas: what each manager does to ownership

    CallableBase         callable / callable_base: one action per member function
    Functionoid          the abstract contract of a callable: targets, no storage
    CallableInvariant    the inductive invariant, and the assumption on traits
    CallableProofs       theorems: ownership, in every state of CallableBase
    ContractProofs       theorem: CallableBase implements Functionoid
    ClearedProofs        theorems: the all-ones words and assertions of debug builds
    MCCallable           the functors of its runs

    VtableLayout         the slots of a vtable, and the table of compatible traits
    CrossTraits          callables of several traits classes that are assigned
    TraitsProofs         theorems about both
    MCTraits             the pairs and chains of traits of the runs

    Reentrancy           CallableBase with targets that call back
    ReentrancyProofs     theorems about it
    MCReentrancy         the functors of its run
    Rtti                 CallableBase with target(), contains() and their pointers
    RttiProofs           theorems about it
    MCRtti               the functors of its runs

    FunctionRef          function_ref and exception_tunneling_callable
    FunctionRefProofs    theorems about them

`CallableBase` EXTENDS `TargetManagers` and `SupportLevels` and instantiates
`Functionoid` (as `Contract`) under a refinement mapping; `CallableInvariant` EXTENDS
`CallableBase` and `Ownership`; `MCCallable` EXTENDS `CallableInvariant`. `CrossTraits`
EXTENDS `VtableLayout` and `TargetManagers`, so that both kinds of callable run the same
managers; `Reentrancy` and `Rtti` EXTEND `CallableBase` and use its actions and the
operators those are composed of.

Proofs follow the same lines. `OwnershipProofs` is about managers and knows no callable;
`CallableProofs` and `TraitsProofs` both build on it. `ContractProofs`, `ClearedProofs` and
`ReentrancyProofs` EXTEND `CallableProofs`, and `RttiProofs` EXTENDS `ContractProofs`.
`FunctionRef` stands alone, as the header does.

### TargetManagers

A memory is a record: `vtable[o]` is `p_vtable_` of object `o` (the functor type whose
vtable it is, or one of `EmptyVtables`, the vtables of empty handlers), `lo[o]` and `hi[o]` are the two words of `functor_` that
managers tell apart (`obj_ptr`, which is also `trivial_heap_obj.ptr`, and
`trivial_heap_obj.size`), `allocated` and `block` are the heap. Two history fields record
what no operator reads to decide anything: `live`, where a functor with a non-trivial
lifetime now lives, and `faults`, what has gone wrong (a dead functor destroyed or read, a
live one overwritten, a block freed twice, freed under a live functor, or freed behind the
back of its allocator, an assertion failed).

| code | operators |
|---|---|
| `functor_manager_aux`, `functor_traits` | `functor_manager`, `OnHeap` |
| `manager_ptr`, `manager_trivial_small`, `manager_trivial_heap`, `manager_small`, `manager_generic` | `ptr_*`, `trivial_small_*`, `trivial_heap_*`, `small_*`, `generic_*`, collected in `assign`, `clone`, `destroy_target`, `move` |
| `debug_clear` | `debug_clear`, `debug_clear_ptr` (given `obj_ptr`), `debug_clear_target` (given a functor) |
| exceptions from the allocator or the functor | `AssignFailures`, `assign_failed` |
| `cloner<trivial>`, `mover<trivial>` | `bitwise` |
| the end of an object's storage | `retire` |

What `functor_traits` and `<type_traits>` say of a functor type is the constant `Shape`.
`size` is abstracted to the type it is the size of. A target with a destructor that fits a
pointer uses one word of the buffer and clears no more, others use both (`Wide`, `store`,
`debug_clear_target`). A constructor that throws in the buffer has written something nobody
knows to the words of its target (`Junk`).

### CallableBase

`mem` is the memory, `alive` the callables whose constructor has finished and whose
destructor has not begun, `last` the last call with its outcome: `ok`, `threw`,
`terminated` (an exception met `noexcept`) or `aborted` (the assertion of
`assert_on_empty`). One action is one member function call with everything it does:

| action | code |
|---|---|
| `DefaultConstruct` | `callable()`, `callable( nullptr )` |
| `ConstructFrom` | `callable( F && )`, with `has_empty_target` |
| `CopyConstruct`, `MoveConstruct` | `callable_base( callable_base const & )`, `( callable_base && )` |
| `Destruct` | `~callable_base` |
| `AssignFunctor` | `operator=( F && )`, `assign( F && )`: the direct and the safe `actual_assign` |
| `CopyAssign`, `MoveAssign` | `operator=( callable const & )`, `operator=( callable && )`, `assign( callable )`: `assign_functionoid_guarded` |
| `Clear` | `clear()`, `assign( nullptr )` |
| `Swap` | `swap`, with its local `tmp` and two `safe_mover_base` |
| `Invoke` | `operator()` |

The slots `destroyer`, `cloner`, `mover` are the operators `destroy`, `clone_slot`,
`move_to`, which consult the support levels; `put`, `copy_from`, `move_from`, `clear`,
`swap` and `cleaned` are the steps a member function is made of, applied in the order of
the code. `tmp` of `swap` and of the safe `actual_assign` are objects of their own
(`SwapTmp`, `AssignTmp`), with buffers that are constructed and destroyed like any
other. Because several steps make one action, every way one of them can fail is a disjunct
of its own, with the state the unwinding leaves behind.

`Running` stops the model after termination, an abort or a fault: there is nothing left
to say of that program. This is why the configurations switch deadlock checking off.

Choices a reader may want to question:

- Calls are atomic. The library takes no locks, and concurrent calls on one object
  are a data race by contract. `Reentrancy` is where calls are interrupted by a target.
- `form` is how a functor is passed: `"copy"` is a const lvalue, `"lvalue"` another lvalue,
  `"move"` an rvalue. `has_no_fail_assignement_t` (CB 1265-1285) asks whether `F` can be
  assigned to what `F` refers to, which a const lvalue never can: it always gets the safe
  `actual_assign`. Another lvalue gets the direct one if its *copy assignment* does not
  throw, though what then runs, in a `noexcept` function, is its copying constructor. The
  direct one is also written for `F` without its reference removed (CB 976), so that for an
  lvalue of a small functor with a destructor it compiles only where the functor fits a
  pointer (`Compiles`).
- `MoveAssign` has no guard on `Moveable`: `operator=( callable && )` asserts
  `moveable > na` (`functionoid.hpp:149`), but `assign( callable && )`
  (`functionoid.hpp:155`) does not and reaches the same code.
- `Accepts` stands for the `static_assert`s and slot types that reject a functor at compile time.
- `via` and `source` say how an assignment is written: `assign( f )`, `c = f` or, between
  callables, `c = s` with a const `s` or not. What differs is which failures reach the caller
  (`PassesOn`).
- A target that throws when invoked has changed its own state like one that returns. With
  `is_noexcept` the exception, and that of `throw_on_empty`, ends the program (`Raised`).
- Functors' destructors do not throw. A functor moved from is in an arbitrary state,
  and so is one that was invoked.
- The empty handler is an object like any other: its vtable uses `manager_ptr`, so
  destroying an empty callable clears one word of the buffer.

### Functionoid

The contract: `target[c]` is a functor, `None`, or `Gone`; each call relates targets before
and after, by outcome. It knows nothing of buffers, managers or traits, but says exactly which
outcomes a call may have: an exception, or the end of the program, is in the contract
of a call only if storing, copying or moving a target it handles may fail (`StoringFails`,
`CopyingFails`, `MovingFails`, which `CallableBase` defines by its managers), and which of
the two it is depends on the `noexcept` the interface promises there. An `assign()` that
turns a failure into termination is not in it, nor an `operator=( F && )` that throws. The
functor a call is given is not observable when it fails, so for `ConstructFrom`, `Assign`
and `AssignOperator` the condition is that some functor of the program may fail so.
`CallableBase!target` is the refinement mapping: what an observer finds by following the
vtable pointer into the buffer and, if need be, through the heap pointer.

### VtableLayout and CrossTraits

A traits class is a record: three levels, three booleans and the size and alignment of the
buffer.
`Has(T, s)` says whether the vtable of `T` has slot `s`, `Offset` how many words precede
it, and `Found(T, s, O)` what is where `T` looks for `s` in a vtable that was laid out for
`O`. `compatible_vtables` is the function of the code, and `Assignable` all of the
`static_assert`s and overloads an assignment has to get through to compile.

`CrossTraits` has callables of several classes (`ClassOf`) in the memory of
`TargetManagers`. `traits` is a variable without steps: every program a configuration
admits is an initial state. Every vtable belongs to the class it was laid out for
(`StoredBy`), so the vtable pointer of a callable says which layout is behind it; each class
has an empty handler of its own (`EmptyOf`), whose vtable other classes may come by.
Every slot is called `through` the layout of the callable's *own* class, wherever its
vtable came from: that is the `reinterpret_cast` of line 1085.

| action | code |
|---|---|
| `CrossConstruct`, `CrossAssign` | `callable( F && )`, `operator=( F && )`, `assign( F && )` where `F` is a callable of other traits: `take` is the cross-traits `assign_functionoid_direct` |
| `DefaultConstruct`, `ConstructFrom`, `CopyConstruct`, `MoveConstruct`, `Clear`, `Destruct` | the members of one class that use or replace a vtable it was given |

Assignments within one class and `swap` are not repeated here: they are made of the same
slots as these six, and `CallableBase` has them. `ConstructFrom` is only the successful
construction, for the same reason.

### Reentrancy

`stack` is the targets whose code is running, each with where it is, why it runs
(`op`: `invoke`, or the call that destroys it) and what the library does when its destructor
returns (`then`). A call that destroys a target is two actions: `Destroy` up to
the destructor's entry, with `p_vtable_` still naming the target, and
`DestructorReturns`, which frees the block, clears the buffer and runs the rest of the call
(`Resume`): reset the vtable pointer, put the functor, or look at the source of the
assignment, in the state it is in by then. In between, everything the program can do can
be done by the target, and so on down to `MaxDepth` targets.

| action | code |
|---|---|
| `DestructR`, `ClearR`, `AssignR`, `CopyAssignR`, `MoveAssignR` | the member function, up to the destructor of the old target |
| `DestructorReturns` | the rest of `manager_*::destroy` and of the member function |
| `InvokeR`, `CallReturns` | `invoke_impl` and its return |
| `ConstructFromR`, `CopyConstructR`, `MoveConstructR`, `SwapR` | the atomic actions of `CallableBase` |

Some calls from inside a target are wrong by any reading: using a callable that is being
cleared in place, moving a target that runs in the buffer, destroying a running one, ending the
life of the source of an assignment that has not returned. `MayUse`, `MayReplace`,
`MayMove` and `MayDestruct` leave exactly these out. What they leave in is what the safe
`actual_assign` is for: when a const lvalue is assigned, the callable already has its new
target when the old one's destructor runs, and that destructor may use it, clear it, or assign
to it again. Functors here do not throw and their constructors do not call back.

### Rtti

`held` is a pointer a program got from `target()`, with the type it asked for and the
callable whose target it is. The actions are those of `CallableBase`, each with what it
does to the pointer as the program can know it: it follows a heap target or a referenced
functor through moves and swaps (`Hand`, `SwapT`), and is dropped with its target, or when
a target in the buffer moves. `Actual` is the ActualFunctor of a stored one: the functor
itself, or what a `boost::reference_wrapper` refers to. `get_typed_functor`,
`get_functor_if_types_match`, `target_type`, `target_as` and `contains` are operators, since
they change nothing. A move that throws has emptied its destination and left the source
its target (`MoveAssignT`), so a pointer to the first is dropped and one to the second stays. `const_target_of` is the const overload, which `contains` calls.

### FunctionRef

| state | code |
|---|---|
| `ref[r]`: `thunk`, `data`, `val` | `function_` (null, the inline thunk, the borrowing one) and `data_` (an address, or the bytes of an embedded callable: which one, and in which state) |
| `holds`, `state` of a tunnel, `exception` | `exception_tunneling_callable::target`, `exception` |
| `alive`, `state` of a callable | the program's own objects |
| `stack` | calls in progress: forwarding through a thunk, or running a body |
| `madeFrom`, `want`, `unchecked` | history: what the program made a reference of, what a call was for, what was thrown since a check |

| action | code |
|---|---|
| `Bind`, `DefaultConstruct`, `CopyConstruct`, `CopyAssign` | constructors and the implicit copy operations |
| `Call`, `Forward`, `Return`, `Throw` | `operator()`, the thunks, the end of a body, also inside a tunnel's `try` |
| `MakeTunnel`, `CheckFailure` | `make_exception_tunneling_callable`, `check_failure` |
| `Export` | `make_c_callback` called by the program (only in `ExportSpec`) |
| `CreateCallable`, `UseDirectly`, `Destroy` | the program |

Overload resolution is part of the behaviour: `Copied` says that a const reference or an
rvalue is copied, and that a non-const lvalue goes to `function_ref( F && )`, which treats
it as any other callable: being two words long, it is not embedded but borrowed. `Lifetimes` says how careful the program is: `"documented"` keeps every
callable alive that a reference was made of, unless it is embedded; `"actual"` also knows about
borrowed references.

## 3. Runs

Every run of `MCCallable` has two callables and the two temporaries, and two states per functor (one of which
makes a nullable functor convert to `false`). Two callables are enough for every call,
since no member function touches more than two, and temporaries are separate.

Six blocks bound the heap. `HeapBound` requires three free ones before a call: with two
callables at most two are in use between calls of the traits that do not leak, no call holds
more than three more at once, and the allocator may fail in any call regardless of how many
are free.

| run | traits, build | functors (managers) | shows |
|---|---|---|---|
| `default_debug` | `default_traits`, debug | one per manager, nothing throws | contract, ownership, lifetimes, assertions, cleared words |
| `std_release` | `std_traits`, release | trivial heap; a small one that throws | the same with failing allocations, copies and moves |
| `relocating` | `moveable = trivial`, release | pointer, generic; a one-word small one that throws when copied | bitwise moves own everything once though source bytes stay |
| `move_only` | `copyable = na`, `is_noexcept`, debug | trivial small, trivial heap, generic; a small one that throws when copied | what is left of the interface keeps contract and assertions; no `assign()` ends the program |

Properties checked there:

- `NothingLeaked`, `BlocksOwnedOnce`, `LifetimesBalanced`, `TargetsIntact`, `NoFaults`:
  ownership, one hazard each. `Inv` is their conjunction with `TypeOK`, the inductive one
  (section 4); it is checked in every run of these traits' hazards, and the parts by name in
  one run each, so that each is known to depend on the code.
- `AssertionsHold`, `UnusedWordsClear`: what `manager_trivial_heap::clone` asserts of the
  buffer it writes to, and the invariant that makes it true: in a debug build, words not
  in use are all ones, on every path.
- `MovesKeepBlocks` (an action property): moves and swaps never allocate.
- `ImplementsContract`: every step of `CallableBase` is a step of `Functionoid` under the
  refinement mapping. It is the strongest one: it contains the strong guarantee of functor
  assignment, the basic guarantee of copy assignment, self-assignment and swap, and which
  failures throw and which end the program.

The other modules:

| run | instance | shows |
|---|---|---|
| `cross_traits` | 2 callables of class A, one of B, one of C, three alive at once; 12 pairs A, B of traits with the safe empty check, and chains of three different classes | slots agree, ownership and copies across classes, failing copies, vtables passed on twice |
| `reentrant` | 2 callables, 3 temporaries, a pointer and two functors with destructors, 2 targets running at once | targets that call back |
| `rtti` | 2 callables, a functor in the buffer that throws when moved, one by reference, one on the heap, 2 states | pointers and `contains` over all calls, failed moves included |
| `ref_noexcept` | an embedded, a borrowed and a throwing callable, 2 references, a tunnel, 2 nested calls, `noexcept` signature | calls run their callable, which lives; failures are reported |
| `ref_nested` | a borrowed and a throwing callable, 2 references copied from const and non-const ones, a tunnel, 2 nested calls, throwing signature, the careful program | chains of references are sound if every link is kept alive, and calls through them arrive |

Their bounds. Two callables are enough as above; a chain of foreign vtables needs a third
class since the second hop is what differs from a direct assignment (a further hop meets
the same table again, and `LayoutSafety` holds for any number). Two running targets
are an outer one that was interrupted and an inner one that interferes; `Tmps` has one
more than that, for the assignment in progress. In FunctionRef two references make the
shortest chain and the shortest cycle, and two calls let one be interrupted. `SafePairs` is
not a sample: it is every assignable pair whose levels keep ownership, with RTTI, buffers and
the check as in `std_traits`, A's destroyer `supported` and B's `nofail` (the level changes
nothing a destroyer does; in the chains both are `nofail`); class C is then like B, under
another name. The two callables of class A are interchangeable, and `Alike` says so (no
operator of the model chooses a callable). `MaxAlive = 3` admits both two callables of A with
one of B, which is what moves and copies of a foreign target need, and one of each. With three
blocks, all three of them may hold heap targets, but `HeapBound` ends such a run there: calls
are followed up while two blocks are in use.

- `SlotsAgree`: each slot a callable calls, in whatever vtable it has come by, is the
  slot it means, and its function does nothing the callable's levels exclude.
- `OwnedOnce`, `NoFaults`: the ownership properties of `CallableBase` across classes.
- `CrossAssignmentCopies`: assigning from other traits copies, changes no third callable, and
  when the copy throws leaves the empty handler of the right class.
- `EmptySourceGivesEmpty`: an empty callable's empty handler is recognised by its new owner.
- `DyingTargetsUnreachable`, `NothingForgotten`, `CallsRunInTheirTarget`: in the middle of any
  nesting, no usable callable names a dying target and none dies twice; each live
  functor is some callable's target or dying; a running target stays in its place.
- `HeldPointerFollows`, `ContainsFollowsTarget`: what section 1 says of RTTI.
- `CallsReachLiveObjects`, `CallsReachTheirCallable`, `CopiesAreIsolated`: lifetime and
  identity of what is called. `NoExceptionEscapes`, `FailureReported`: exceptions.
- `CallsArrive` (liveness): a call that is being forwarded, from reference to reference,
  reaches the body of a callable, unless the chain is broken or closed to a circle
  when the call is made (`Grounded`).

Fairness. `FairSpec` has one condition, `WF_vars(Live /\ Forward)`: a thread in the middle of
a thunk is not suspended for ever. Nothing is assumed of the program: it need not call, return
or check anything. `CallsArrive` is not free even so: only `ref_nested` has chains of
references, where forwarding from reference to reference might go round for ever, and where a
circle has been closed it does (`EveryCallArrives`, below). No other module has
a liveness property: their calls are single steps or end when the program's own code
returns, and the library waits for nothing.

The definitions named `mutant_*` are not part of the specification. Each is a plausible bug in
the definition it is named after (a missing clear, a destructor not run, a vtable pointer not
set), and for each property of these runs `PROJECT.json` names one that violates it: the
property depends on the code.

### Findings

Three runs expect a violation. Each takes a statement of the documentation or the tests and
shows that the code does otherwise.

| run | what happens |
|---|---|
| `throwing_heap_guard` | a large functor's constructor throws: the guard destroys what was not constructed and frees the block past the allocator |
| `copied_ref_dangles` | the copy of a non-const `function_ref` borrows it, and dangles when it dies, while the callable both were made of lives |
| `exported_temporary` | `make_c_callback` of a throwing callable returns the address of a dead temporary |

The same models show more disagreements, with other values of their constants. They are not
runs of their own; to see one, start from the configuration named here and check the property.
"Two classes" is `Classes = {A, B}`, `Callables` and `Objects` `{a1, a2, b1}`, `EmptyVtables`
`{emptyA, emptyB}`, and `Functors` `{strA, strB, arrayB}`.

| property | start from, and change | what happens |
|---|---|---|
| `NothingLeaked` | `relocating`, `Moveable = "na"` | the source of a move is cloned, then marked empty without being destroyed |
| `DestructorFreesTarget` | `move_only`, `Destructor = "trivial"` | a heap target is never freed |
| `SelfMoveKeepsTarget` | `move_only`, `Destructor = "trivial"` | the self-assignment guard is compiled out, a self-move empties the callable (`src/test/function_test.cpp:764` expects otherwise) |
| `MoveConstructionReturns` | `std_release` | a move constructor documented to throw (`src/doc/reference.xml:652`) terminates |
| `CopyAssignmentReturns` | `std_release` | `f = g` with non-const `g` selects the `noexcept` template: a failed copy terminates |
| `NoexceptTargets` | `move_only` | the `static_assert` that rejects a throwing target of a `noexcept` functionoid (CB 571) is in the invoker of the others, where it holds of every target; the specialization for `noexcept` ones (CB 657-669) has none, and the target's exception ends the program |
| `AssertionsHold` | `default_debug`, with `tcopy` | a failed copy assignment leaves a dirty buffer; a later copy of a large trivial functor trips an assertion (CB 293) |
| `AssertionsHold` | `default_debug`, `Moveable = "trivial"` | bitwise moves leave the source's words; the same assertion trips |
| `OwnedOnce` | `cross_traits`, `Programs <- SwappedPairs` and two classes | traits whose mover and cloner change places pass `compatible_vtables`; a copy then moves, a move clones |
| `EmptySourceGivesEmpty` | the same, `Programs <- AddressPairs` | without the safe check, a copy of an empty callable of other traits does not know it is empty |
| `RttiIsIgnored` | the same, `Programs <- RttiPairs` | the table says a callable may ignore the RTTI slot (CB 1064), a `static_assert` on the size says no (CB 1084) |
| `CrossConstructionReturns` | the same, `Programs <- NofailMoves` | constructing from an rvalue of other traits copies, inside a constructor that is `noexcept` as moves are |
| `EveryCallArrives` | `ref_nested` | `function_ref g( f ); f = g;` makes `f` its own target: a call never arrives |
| `CallsSeeTheCallable` | `ref_noexcept` | an embedded callable is a copy: a call does not see what the original has become |
| `FailureIsFresh` | `ref_noexcept` | `check_failure()` throws the same exception again after a successful call |
| `EmptyHasNoType` | `rtti` | `target_type()` of an empty callable is its empty handler, not `void` (`src/doc/reference.xml:131`) |
| `TargetAsIsTarget` | `rtti` | `target_as()` of a functor stored by reference is the wrapper |

The passing runs stay away from these: `relocating` is a release build, `std_release`
has no functor that `manager_generic` stores and that throws, no passing run has
`moveable = na` or `destructor = trivial`. `cross_traits` has no swapped pairs and has the
safe check; `ref_noexcept` copies const references, `ref_nested` keeps borrowed ones alive,
and neither exports a temporary. `CallsArrive` excludes what `EveryCallArrives` finds, by name.

## 4. What is proved

Every theorem holds for any number of callables, functor types, values and blocks, and any
shape of the functors. What it assumes of traits, functors and programs is a named formula.
Each formula holds in those passing runs of its module that check a property stated by a
theorem which assumes it. What it excludes does go wrong, as a finding above shows, or is excluded
for a reason given below the table.

| assumption | of | says |
|---|---|---|
| `ManagedTraits` | `CallableBase`, `Rtti` | copies and destructions go through a manager (`copyable` and `destructor` are not `trivial`), there is a mover, possibly bitwise (`moveable` is not `na`), and `SafeGenerics` |
| `SafeGenerics` | all | a functor that `manager_generic` stores is constructed without throwing |
| `ClearedTraits` | debug assertions | `ManagedTraits`, and in a debug build moves go through a manager and small functors are cloned and moved without throwing |
| `SafePrograms` | `CrossTraits` | no two classes of the program are a `swappable` pair |
| `OwningPrograms` | `CrossTraits` | `SafePrograms`, `SafeGenerics`, and the levels of `ManagedTraits` for each class |
| `Copyable # "trivial"` | `Reentrancy` | the rest of `ManagedTraits` is in `ReentrancyAssumption` |
| `ConstCopies` | `FunctionRef` | references are copied from const ones, or moved |
| `KeptLifetimes` | `FunctionRef` | `ConstCopies`, and callables live as long as references made of them unless embedded; or whatever is borrowed lives as long as it is |

`moveable = na`, `destructor = trivial` and `throwing_heap_guard` are findings about traits
and functors outside of `ManagedTraits`; `copyable = trivial` is excluded since a bitwise copy of
an owner is a second owner. The two `AssertionsHold` findings are what `ClearedTraits`
excludes, `SwappedPairs` is what `SafePrograms` excludes, and `copied_ref_dangles` what
`KeptLifetimes` does. `ConstCopies` is a matter of meaning: the copy of a non-const reference
follows that reference when it is rebound.

Besides these, theorems use the assumptions that come with the constants (`ShapeAssumption`,
`TokensAssumption` and so on): names that stand for different things are different, a trivially
copyable type has no constructor that throws, bounds are numbers. TLC evaluates them in
every run.

### Ownership of callables

| theorem of `CallableProofs` | states |
|---|---|
| `OwnershipInvariant` | `Spec => []Inv` |
| `TypeCorrectness` | `Spec => []TypeOK` |
| `LeakFreedom` | `Spec => []NothingLeaked` |
| `SingleOwnership` | `Spec => []BlocksOwnedOnce` |
| `LifetimeBalance` | `Spec => []LifetimesBalanced` |
| `TargetIntegrity` | `Spec => []TargetsIntact` |
| `FaultFreedom` | `Spec => []NoFaults` |
| `MovesNeverAllocate` | `Spec => MovesKeepBlocks` |

The argument. No single one of the properties is inductive: that a block is not leaked depends
on the vtable naming what the buffer holds, that a destroy is not a fault depends on single
ownership, and so on. `Inv` is their conjunction, `Sound(mem, alive)`. `Sound(m, A)`
is a predicate of a memory and a set of *owners*, and does not mention the variables, so that
it can be stated in the middle of a call: after the old target is destroyed `c` is no
longer in `A`, while `swap` runs `SwapTmp` is in `A` as well. It says that every owner is
`Good` (holds what its vtable says, alive and allocated as its manager requires) and that
owners are `Exclusive` (no shared block, no block without an owner, nothing alive outside).

The proof climbs the way the code is built. In `OwnershipProofs` three lemmas describe the
only ways ownership changes: an object becomes an owner (`AddOwner`), stops being one
(`RemoveOwner`), hands its target to another (`TransferOwner`). Each manager function is one
of them. In `CallableProofs` so is each building block of a member function: `AssignSound` and
`CopySound` add an owner, `DestroySound` removes one, `MoveSound` transfers; `SwapSound`
is three transfers; a failed assignment (`AssignFailedSound`) leaves what was. Each
action composes these in the order of the code, in a lemma of its own; `InitInv`, `NextInv`
and `InvImplies` carry them to the theorems.

### The contract

`ContractProofs` proves `ContractKept`: `Spec => ImplementsContract`, the refinement of
`Functionoid` by `CallableBase`. The lemmas about building blocks also say what they do to
targets: `SameTargets(m, n, A)`, everyone in `A` has in `n` the target it had in `m`, in the
same place. For each member function there is an *effect* lemma, which says by outcome what
the call did to memory (whose target changed, into what, and that all others kept theirs),
and a *contract* lemma, which is the effect seen through the refinement mapping. Initial
states map to initial states (`InitContract`); a step maps to the call of the contract with
the same name and outcome, or to a stutter (`StepContract`). For outcomes other than `ok` that
is where the work is: that a failure was possible is traced from the effect back to the
manager and the functor that may fail (`TargetFailures`, `FunctorFailures`), and the steps by
which `AssignFunctor` ends go through `AssigningEnds`.

### Debug builds

`ClearedProofs` proves `AssertionsKept` (`Spec => []AssertionsHold`) and `UnusedWordsStayClear`
(`Spec => []UnusedWordsClear`) from `ClearedInvariant`. An assertion of
`manager_trivial_heap` reads the words of a buffer *before* it is used, so what has to be
invariant is about words nobody owns: `Tidy`, the words a target does not use are all ones,
and, where a call is between two targets, `Blank`, both are. `Neat` adds this to `Sound`. Each
building block needs a blank destination and leaves a tidy one; `destroy` turns tidy into
blank, which is where a missing `debug_clear` would break the proof.

### Traits

`LayoutAgreement` is a fact about the table itself: if `compatible_vtables` accepts `T` and
`O` and the pair is not `swappable`, then every slot of `T` is at the same offset in `O`'s
vtable, and `O`'s targets honour `T`'s levels. The table lets levels differ only where both have a
pointer or neither has one, so that all later slots line up; the `static_assert` on the sizes of
the vtables is not needed.

| theorem of `TraitsProofs` | states | assumes |
|---|---|---|
| `LayoutSafety` | `Spec => []SlotsAgree` | `SafePrograms` |
| `EmptinessIsKnown` | `Spec => []EmptySourceGivesEmpty` | `SafePrograms`, and that classes have the safe check |
| `OwnershipAcrossTraits` | `Spec => []OwnershipInv` | `OwningPrograms` |
| `TraitsTypeCorrectness` | `Spec => []TypeOK` | `OwningPrograms` |
| `SingleOwnershipAcrossTraits` | `Spec => []OwnedOnce` | `OwningPrograms` |
| `FaultFreedomAcrossTraits` | `Spec => []NoFaults` | `OwningPrograms`; no trivial heap functors in a debug build |
| `CopiesBetweenTraits` | `Spec => CrossAssignmentCopies` | `OwningPrograms` |

`SlotsAgree` is not inductive: to take a vtable from a callable of `O` that itself has one of
`Q`, agreement of `T` with `O` and of `O` with `Q` has to give agreement of `T` with `Q`. `Agree`
is transitive, which is the lemma the invariant `LayoutInv` rests on. Ownership in turn rests
on agreement: a slot called through the layout of another class is, by `SlotsCalled`, the
function of the manager that stored the target, and from there on the lemmas of
`OwnershipProofs` apply as they do to one class. The exception in `FaultFreedomAcrossTraits` is
the assertion about cleared buffers, which ownership says nothing about.

### Callbacks

| theorem of `ReentrancyProofs` | states |
|---|---|
| `ReentrancyInvariant` | `SpecR => []ReentrancyInv` |
| `StackTypeCorrectness` | `SpecR => []StackTypeOK` |
| `RunningTargetsStay` | `SpecR => []CallsRunInTheirTarget` |
| `DyingTargetsStayUnreachable` | `SpecR => []DyingTargetsUnreachable` |
| `NothingIsForgotten` | `SpecR => []NothingForgotten` |
| `ReentrancyIsFaultFree` | `SpecR => []NoFaults` |

They hold for any `MaxDepth`. The idea: a target whose destructor runs is still owned, by the
object it is in, which is a callable being cleared in place or the `tmp` of a safe assignment.
So ownership is `Sound(mem, Owners)` with `Owners == alive \cup Suspended`, and is never
interrupted; all calls a destructor makes meet a sound memory. Besides, the invariant says

- `DyingInv`: the object of every suspended call holds the target it held when the call began
  (`Holds`), and what the call will need when the destructor returns is there (`Resumable`);
- `CallingInv`: a target that runs is that of some callable, in the same place (`Host`);
- `Ordered`: what lower entries of the stack rely on, against the entries above. An inner call
  never has the object or the source of an outer one, nor moves a target that runs.

`Ordered` is what a rule of careful use (`MayReplace`, `MayDestruct`) has to amount to when
calls nest. Without it the invariant is not inductive: when a destructor returns, its call may
end a callable, and an outer call must not be left with it as its source.

A destroy without a destructor to wait for goes on at once and one with a destructor goes on
later, but both go on with `Resume`; `ResumeKeeps` is proved once for both
(`ReleasedIsDestroyed`: what is left after the destructor returned is what an immediate
`destroy` leaves). The `tmp` and the block a call takes exist because there are more of them
than owners: `FreeTmp` and `FreeBlock` count, with the sizes in `ReentrancyAssumption`
and the pigeonhole principle. (In the code, a `tmp` is a local variable, and there are as many as
calls; an allocator may fail, which the model has as an outcome of its own.)

### Run-time type information

`RttiProofs` assumes `ManagedTraits` and proves `PointerTypes` (`SpecT => []RttiTypeOK`),
`PointersFollowTargets` (`SpecT => []HeldPointerFollows`) and `ContainsFollows`
(`SpecT => ContainsFollowsTarget`). The invariant, `RttiInv`, is `Inv` and that the pointer
which the program holds is to the target of its holder, of the type it asked for. The effect
lemmas of `ContractProofs` say for every call whose target stayed, and `SameTargets` says
*where*: a target that stays, or is on the heap or referenced and is handed on, keeps its
address (`SamePlace`). What is dropped is what the code may have destroyed or moved.

### References

| theorem of `FunctionRefProofs` | states | assumes |
|---|---|---|
| `TypeCorrectness` | `Spec => []TypeOK` | |
| `ExceptionsStay` | `Spec => []NoExceptionEscapes` | |
| `FailuresAreReported` | `Spec => FailureReported` | |
| `CallsArriveRight` | `Spec => []CallsReachTheirCallable` | `ConstCopies` |
| `CopiesStayApart` | `Spec => CopiesAreIsolated` | `ConstCopies` |
| `NoDanglingCalls` | `Spec => []CallsReachLiveObjects` | `KeptLifetimes` |

They hold for any number of callables, references, tunnels and nested calls, and either kind
of signature. There are three invariants, one on top of the other, and each theorem rests on
the weakest that will do:

- `RefInv` needs nothing of the program, which may leave any reference dangling. A reference is
  null, or embeds or borrows something its signature admits (`SoundRef`); a call in progress
  runs in such a copy, or in an object that is alive, or is on its way to something borrowed
  (`SoundFrame`); a tunnel's `exception` is one of those thrown into it since its last
  check, if any was (`SoundTunnel`). Exceptions stay, since only callables throw and a noexcept
  reference admits none that does, nor a chain of references that ends in one.
- `MadeInv`: every data word is what the program made its reference of. It is what
  `ConstCopies` is for.
- `LiveInv`: whatever is borrowed exists, and so does what a call in progress is the address
  of. Of a program with documented lifetimes it needs `MadeInv`, which ties the words that
  could dangle to the callables the program keeps (`BorrowedKept`).

`RefSteps` and `FrameSteps` say once, for all actions, what a step does to one reference and to
one frame; the last two invariants are proved from them.

### What is only model-checked

`CallsArrive`, a liveness property, which needs fairness and is out of the prover's
reach; and the findings, which are counterexamples.

## 5. Not modelled, and plan

Not modelled, because the compiler rejects it:

- `rtti.hpp`: with RTTI on, wrappers of const functors (the constructor of `vtable`
  deduces `ActualFunctor` without its const; `src/test/contains_test.cpp` uses them), wrappers
  of volatile ones, `std::reference_wrapper` (it has no `get_pointer`), and
  `boost::reference_wrapper` lvalues (`get_function_tag` sees a reference type).
- The comparison operators at the end of `rtti.hpp`: they take a `detail::function_base`,
  which no callable derives from, or a template parameter that cannot be deduced. No
  expression selects them.
- `CB` 1080-1081, the move from a callable of other traits that cannot be copied: it passes a
  const buffer to `mover<trivial>::move`, or has no such slot.
- A tunnel of a large throwing lvalue, or of a const one.

Not modelled, because it has no behaviour of its own: `vtable_attrs` (compiler
attributes), `function_buffer_base` (the layout of the union, checked by the
`static_assert`s of the header), `get_function_tag`, `mem_fn` and the rest of overload
selection, where it only decides which member function is called; arguments and results
of calls; tests, examples and build files.

Not modelled, as outside of what the library can promise: two threads using one callable;
programs that destroy the target they run in, or end the life of an argument of a call
that has not returned.

Open. `Reentrancy` leaves out functors whose constructors throw or call back, and copies
through `cloner<trivial>`; with them its invariant would have to speak of a call that is
interrupted between two constructions. `ClearedTraits` and `SafeGenerics` are where the
library could be made to promise more: a cleaner that also clears, and a guard that frees
through the allocator, would let the theorems drop them.
