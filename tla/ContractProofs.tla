--------------------------- MODULE ContractProofs ---------------------------
(***************************************************************************)
(* CallableBase implements Functionoid: buffers, managers, vtable pointers *)
(* and the heap keep the contract of callable, call by call.               *)
(*                                                                         *)
(* There are two lemmas for a member function: its effect on memory, by    *)
(* how the call ends, and that this is what its contract says of targets,  *)
(* or that the program has ended.                                          *)
(***************************************************************************)
EXTENDS CallableProofs

(* What the owner o of m has for a target. *)
View(m, o) == IF m.vtable[o] = EmptyVtable THEN EmptyVtable ELSE TargetOf(m, o)

(* The refinement mapping, in these terms. *)
LEMMA TargetViews ==
  /\ target = [c \in Callables |-> IF c \in alive THEN View(mem, c) ELSE Junk]
  /\ target' = [c \in Callables |-> IF c \in alive' THEN View(mem', c) ELSE Junk]
BY DEF target, View, TargetOf

(* A target is told from no target, and both from no callable. *)
LEMMA ViewType ==
  ASSUME NEW m, NEW A, Sound(m, A), NEW o \in A
  PROVE  /\ View(m, o) # Junk
         /\ View(m, o) = EmptyVtable <=> m.vtable[o] = EmptyVtable
         /\ m.vtable[o] # EmptyVtable =>
              View(m, o) \in Images /\ View(m, o).type = m.vtable[o]
<1>1. Good(m, o)
  BY DEF Sound
<1>2. /\ Junk \notin Images /\ EmptyVtable \notin Images /\ EmptyVtable # Junk
  BY TokensAssumption, OneEmptyVtable
<1> QED  BY <1>1, <1>2, OneEmptyVtable DEF Good, View, TargetOf

(* The callables of the contract are the callables that exist.             *)
LEMMA AliveViews ==
  ASSUME Inv
  PROVE  Contract!Alive = alive
<1>1. \A c \in alive : View(mem, c) # Junk
  BY ViewType DEF Inv
<1>2. alive \subseteq Callables
  BY DEF Inv
<1> QED  BY <1>1, <1>2, TargetViews DEF Contract!Alive

(* A call that leaves the targets of all but C alone leaves them alone in  *)
(* the contract too.                                                       *)
LEMMA Unaffected ==
  ASSUME NEW C, SameTargets(mem, mem', alive \ C), alive' \ C = alive \ C
  PROVE  \A p \in Callables \ C : target'[p] = target[p]
<1> TAKE p \in Callables \ C
<1>1. p \in alive' <=> p \in alive
  OBVIOUS
<1>2. p \in alive => View(mem', p) = View(mem, p)
  BY OneEmptyVtable DEF SameTargets, View
<1> QED  BY <1>1, <1>2, TargetViews

(* A call that changes the target of one callable.                         *)
LEMMA OneTarget ==
  ASSUME NEW c \in Callables, NEW x, target'[c] = x,
         \A p \in Callables \ {c} : target'[p] = target[p]
  PROVE  target' = [target EXCEPT ![c] = x]
BY TargetViews

(* A call that changes the targets of two. *)
LEMMA TwoTargets ==
  ASSUME NEW c \in Callables, NEW d \in Callables, c # d, NEW x, NEW y,
         target'[c] = x, target'[d] = y,
         \A p \in Callables \ {c, d} : target'[p] = target[p]
  PROVE  target' = [target EXCEPT ![c] = x, ![d] = y]
BY TargetViews

(* A call that changes none. *)
LEMMA NoTargets ==
  ASSUME SameTargets(mem, mem', alive), alive' = alive
  PROVE  target' = target
<1>1. \A p \in Callables \ {} : target'[p] = target[p]
  BY Unaffected
<1> QED  BY <1>1, TargetViews

(* Where a call ends the program instead, all targets stay. *)
LEMMA TerminateContract ==
  ASSUME NEW op, Terminate(op)
  PROVE  Contract!Terminates(op)
<1>1. target' = target
  BY TargetViews DEF Terminate
<1> QED  BY <1>1 DEF Terminate, Finish, Contract!Terminates, Contract!Ends

(* The vtable of a callable that exists, found from its target.            *)
LEMMA TargetVtable ==
  ASSUME Inv, NEW c \in alive
  PROVE  VtableOf(target[c]) = mem.vtable[c]
<1>1. Sound(mem, alive) /\ c \in Callables
  BY DEF Inv
<1>2. target[c] = View(mem, c)
  BY <1>1, TargetViews
<1> QED  BY <1>1, <1>2, ViewType DEF VtableOf

(* What the contract asks of targets is what decides here. *)
LEMMA TargetFailures ==
  ASSUME Inv, NEW c \in alive
  PROVE  /\ CopyingFails(target[c]) <=> CloneFailures(mem.vtable[c]) # {}
         /\ MovingFails(target[c]) <=> MoveFailures(mem.vtable[c]) # {}
BY TargetVtable DEF CopyingFails, MovingFails

LEMMA FunctorFailures ==
  ASSUME NEW x \in Storable, NEW form
  PROVE  /\ StoringFails(x, form) <=> AssignFailures(x.type, form) # {}
         /\ ConstructionThrows(x, form) <=> Throws(x.type, form)
         /\ AssignedDirectly(x, form) <=> HasNoFailAssignment(x.type, form)
         /\ MovingFails(x) <=> MoveFailures(x.type) # {}
<1>1. x # EmptyVtable
  BY TokensAssumption, OneEmptyVtable DEF Storable
<1> QED  BY <1>1 DEF StoringFails, ConstructionThrows, AssignedDirectly, MovingFails, VtableOf

-----------------------------------------------------------------------------
(* What each member function does to memory, by how it ends. *)

(* A functor put in an object is its target. *)
LEMMA StoredView ==
  ASSUME NEW m, NEW n, NEW A, NEW o, NEW x \in Images, Stored(m, n, A, o, x)
  PROVE  View(n, o) = x
BY OneEmptyVtable DEF Stored, View, Images

(* What a callable holds once the functor x has been put in it: a null     *)
(* functor stands for no target.                                           *)
Held(x) == IF has_empty_target(x) THEN EmptyVtable ELSE x

(* The target of s is now, where it was, that of c, and s has none. *)
HandedOn(s, c) ==
  /\ SameTargets(mem, mem', alive \ {c, s})
  /\ mem'.vtable[c] = mem.vtable[s] /\ View(mem', c) = View(mem, s)
  /\ SameBlock(mem, s, mem', c)
  /\ mem'.vtable[s] = EmptyVtable

(* The default constructor: a callable without a target. *)
LEMMA DefaultConstructEffect ==
  ASSUME ManagedTraits, Inv, NEW c \in Callables, DefaultConstruct(c)
  PROVE  /\ c \notin alive /\ alive' = alive \cup {c}
         /\ SameTargets(mem, mem', alive) /\ mem'.vtable[c] = EmptyVtable
BY TraitsFacts, ConstructEmptySound DEF DefaultConstruct

(* Construction from a functor: the target is the functor, or none where   *)
(* it was null; a construction that throws leaves nothing.                 *)
LEMMA ConstructFromEffect ==
  ASSUME ManagedTraits, Inv, HeapBound, NEW c \in Callables, NEW x \in Storable,
         NEW form \in Forms, ConstructFrom(c, x, form)
  PROVE  /\ c \notin alive
         /\ \/ /\ Finish("construct_from", "ok") /\ alive' = alive \cup {c}
               /\ SameTargets(mem, mem', alive) /\ View(mem', c) = Held(x)
            \/ /\ Finish("construct_from", "threw") /\ alive' = alive
               /\ SameTargets(mem, mem', alive)
               /\ ~has_empty_target(x) /\ Throws(x.type, form)
               /\ AssignFailures(x.type, form) # {}
            \/ /\ Terminate("construct_from")
               /\ ~has_empty_target(x) /\ ~Throws(x.type, form)
               /\ AssignFailures(x.type, form) # {}
<1> DEFINE m == debug_clear(mem, c)
<1>1. x \in Images /\ x.type \in Functors
  BY DEF Storable, Images
<1>2. c \in Objects \ alive
  BY TraitsFacts DEF ConstructFrom
<1>3. /\ Sound(m, alive) /\ SameTargets(mem, m, alive)
      /\ \E b \in Blocks : b \notin m.allocated
  BY <1>2, TraitsFacts, ClearedSound, HeapBoundFresh
<1> HIDE DEF m
<1>4. CASE /\ has_empty_target(x)
           /\ mem' = construct_empty(mem, c)
           /\ alive' = alive \cup {c}
           /\ Finish("construct_from", "ok")
  <2>1. SameTargets(mem, mem', alive) /\ mem'.vtable[c] = EmptyVtable
    BY <1>2, <1>4, TraitsFacts, ConstructEmptySound
  <2> QED  BY <1>2, <1>4, <2>1 DEF View, Held
<1>5. CASE /\ ~has_empty_target(x)
           /\ mem' = put(debug_clear(mem, c), c, x)
           /\ alive' = alive \cup {c}
           /\ Finish("construct_from", "ok")
  <2> DEFINE n == put(m, c, x)
  <2>1. Stored(m, n, alive, c, x)
    BY <1>1, <1>2, <1>3, PutSound
  <2>2. mem' = n
    BY <1>5 DEF m
  <2> HIDE DEF n
  <2>3. SameTargets(m, n, alive) /\ View(n, c) = x
    BY <1>1, <2>1, StoredView DEF Stored
  <2>4. SameTargets(mem, mem', alive)
    BY <1>3, <2>2, <2>3, SameTargetsChain
  <2> QED  BY <1>2, <1>5, <2>2, <2>3, <2>4 DEF Held
<1>6. CASE /\ ~has_empty_target(x) /\ Throws(x.type, form)
           /\ \E why \in AssignFailures(x.type, form) :
                mem' = retire(assign_failed(debug_clear(mem, c), c, x.type, why), c)
           /\ Finish("construct_from", "threw")
           /\ UNCHANGED alive
  <2>1. PICK why \in AssignFailures(x.type, form) :
               mem' = retire(assign_failed(m, c, x.type, why), c)
    BY <1>6 DEF m
  <2> DEFINE n == assign_failed(m, c, x.type, why)
  <2>2. Sound(n, alive) /\ SameTargets(m, n, alive)
    BY <1>1, <1>2, <1>3, <2>1, TraitsFacts, AssignFailedSound
  <2> HIDE DEF n
  <2>3. SameTargets(n, mem', alive)
    BY <1>2, <2>1, <2>2, RetireSound DEF n
  <2>4. SameTargets(mem, n, alive)
    BY <1>3, <2>2, SameTargetsChain
  <2>5. SameTargets(mem, mem', alive)
    BY <2>3, <2>4, SameTargetsChain
  <2> QED  BY <1>2, <1>6, <2>1, <2>5
<1>7. CASE /\ ~has_empty_target(x) /\ ~Throws(x.type, form)
           /\ AssignFailures(x.type, form) # {} /\ Terminate("construct_from")
  BY <1>2, <1>7
<1> QED  BY <1>4, <1>5, <1>6, <1>7 DEF ConstructFrom

(* The copy constructor: the same target in both, or nothing at all. *)
LEMMA CopyConstructEffect ==
  ASSUME ManagedTraits, Inv, HeapBound, NEW c \in Callables, NEW s \in Callables,
         CopyConstruct(c, s)
  PROVE  /\ c \notin alive /\ s \in alive
         /\ SameTargets(mem, mem', alive)
         /\ \/ /\ Finish("copy_construct", "ok") /\ alive' = alive \cup {c}
               /\ View(mem', c) = View(mem, s)
            \/ /\ Finish("copy_construct", "threw") /\ alive' = alive
               /\ CloneFailures(mem.vtable[s]) # {}
<1> DEFINE m == debug_clear(mem, c)
           t == mem.vtable[s]
<1>1. c \in Objects \ alive /\ s \in alive /\ t \in Vtables
  BY TraitsFacts DEF CopyConstruct
<1>2. /\ Sound(m, alive) /\ SameTargets(mem, m, alive)
      /\ m.vtable = mem.vtable /\ \E b \in Blocks : b \notin m.allocated
  BY <1>1, TraitsFacts, ClearedSound, HeapBoundFresh
<1> HIDE DEF m
<1>3. CASE /\ mem' = copy_from(debug_clear(mem, c), s, c)
           /\ alive' = alive \cup {c}
           /\ Finish("copy_construct", "ok")
  <2>1. Copied(m, mem', alive, s, c)
    BY <1>1, <1>2, <1>3, TraitsFacts, CopySound DEF m
  <2>2. SameTargets(mem, mem', alive)
    BY <1>2, <2>1, SameTargetsChain DEF Copied
  <2>3. View(mem', c) = View(mem, s)
    BY <1>1, <1>2, <2>1, OneEmptyVtable DEF Copied, SameTargets, View
  <2> QED  BY <1>1, <1>3, <2>2, <2>3
<1>4. CASE /\ \E why \in CloneFailures(t) :
                mem' = retire(assign_failed(debug_clear(mem, c), c, t, why), c)
           /\ Finish("copy_construct", "threw")
           /\ UNCHANGED alive
  <2>1. PICK why \in CloneFailures(t) : mem' = retire(assign_failed(m, c, t, why), c)
    BY <1>4 DEF m
  <2> DEFINE n == assign_failed(m, c, t, why)
  <2>2. t \in Functors /\ why \in AssignFailures(t, "copy") /\ "copy" \in Forms
    BY <1>1, <2>1, TraitsFacts, OneEmptyVtable DEF CloneFailures, Forms
  <2>3. Sound(n, alive) /\ SameTargets(m, n, alive)
    BY <1>1, <1>2, <2>2, TraitsFacts, AssignFailedSound
  <2> HIDE DEF n
  <2>4. SameTargets(n, mem', alive)
    BY <1>1, <2>1, <2>3, RetireSound DEF n
  <2>5. SameTargets(mem, n, alive)
    BY <1>2, <2>3, SameTargetsChain
  <2>6. SameTargets(mem, mem', alive)
    BY <2>4, <2>5, SameTargetsChain
  <2> QED  BY <1>1, <1>4, <2>1, <2>6
<1> QED  BY <1>3, <1>4 DEF CopyConstruct

(* The moving constructor: the target changes hands, its source is empty.  *)
LEMMA MoveConstructEffect ==
  ASSUME ManagedTraits, Inv, NEW c \in Callables, NEW s \in Callables,
         MoveConstruct(c, s)
  PROVE  /\ c \notin alive /\ s \in alive
         /\ \/ /\ Finish("move_construct", "ok") /\ alive' = alive \cup {c}
               /\ HandedOn(s, c)
            \/ Terminate("move_construct") /\ MoveFailures(mem.vtable[s]) # {}
<1>1. c \in Objects \ alive /\ s \in alive
  BY TraitsFacts DEF MoveConstruct
<1>2. CASE /\ mem' = move_from(debug_clear(mem, c), s, c)
           /\ alive' = alive \cup {c}
           /\ Finish("move_construct", "ok")
  <2> DEFINE m == debug_clear(mem, c)
  <2>1. Sound(m, alive) /\ SameTargets(mem, m, alive)
    BY <1>1, TraitsFacts, ClearedSound
  <2> HIDE DEF m
  <2>2. Moved(m, mem', alive, s, c, EmptyVtable)
    BY <1>1, <1>2, <2>1, TraitsFacts, MoveSound DEF m
  <2>3. SameTargets(mem, mem', alive \ {c, s})
    BY <2>1, <2>2 DEF SameTargets, SameBlock, Moved
  <2>4. /\ View(mem', c) = View(mem, s) /\ mem'.vtable[c] = mem.vtable[s]
        /\ SameBlock(mem, s, mem', c) /\ mem'.vtable[s] = EmptyVtable
    BY <1>1, <2>1, <2>2, OneEmptyVtable DEF SameTargets, SameBlock, Moved, View
  <2> QED  BY <1>1, <1>2, <2>3, <2>4 DEF HandedOn
<1>3. CASE MoveFailures(mem.vtable[s]) # {} /\ Terminate("move_construct")
  BY <1>1, <1>3
<1> QED  BY <1>2, <1>3 DEF MoveConstruct

(* The destructor: no callable. *)
LEMMA DestructEffect ==
  ASSUME ManagedTraits, Inv, NEW c \in Callables, Destruct(c)
  PROVE  /\ c \in alive /\ alive' = alive \ {c}
         /\ SameTargets(mem, mem', alive \ {c})
<1> DEFINE n == destroy(mem, c)
<1>1. c \in alive /\ alive' = alive \ {c} /\ c \in Objects /\ mem' = retire(n, c)
  BY TraitsFacts DEF Destruct
<1>2. Sound(n, alive \ {c}) /\ SameTargets(mem, n, alive \ {c})
  BY <1>1, TraitsFacts, DestroySound
<1> HIDE DEF n
<1>3. SameTargets(n, mem', alive \ {c})
  BY <1>1, <1>2, RetireSound
<1> QED  BY <1>1, <1>2, <1>3, SameTargetsChain

(* clear() and assign( nullptr ): no target, whatever there was. *)
LEMMA ClearEffect ==
  ASSUME ManagedTraits, Inv, NEW c \in Callables, Clear(c)
  PROVE  /\ c \in alive /\ alive' = alive
         /\ SameTargets(mem, mem', alive \ {c}) /\ mem'.vtable[c] = EmptyVtable
BY TraitsFacts, ClearSound DEF Clear

(* Where an assignment ends the program: a failure that is not passed on,  *)
(* or one of the moves of the swap.                                        *)
AssigningEnds(x, form, via, c) ==
  /\ ~has_empty_target(x)
  /\ \/ /\ AssignFailures(x.type, form) # {}
        /\ HasNoFailAssignment(x.type, form) \/ ~PassesOn(via)
     \/ /\ ~HasNoFailAssignment(x.type, form)
        /\ MoveFailures(x.type) \cup MoveFailures(mem.vtable[c]) # {}

(* Assignment of a functor: as construction, but when it throws, the old   *)
(* target is still there.                                                  *)
LEMMA AssignFunctorEffect ==
  ASSUME ManagedTraits, Inv, HeapBound, NEW c \in Callables, NEW x \in Storable,
         NEW form \in Forms, NEW via \in {"assign", "operator="},
         AssignFunctor(c, x, form, via)
  PROVE  /\ c \in alive
         /\ \/ /\ Finish(via, "ok") /\ alive' = alive
               /\ SameTargets(mem, mem', alive \ {c}) /\ View(mem', c) = Held(x)
            \/ /\ Finish(via, "threw") /\ alive' = alive
               /\ SameTargets(mem, mem', alive)
               /\ ~has_empty_target(x) /\ PassesOn(via)
               /\ AssignFailures(x.type, form) # {}
               /\ ~HasNoFailAssignment(x.type, form)
            \/ Terminate(via) /\ AssigningEnds(x, form, via, c)
<1> DEFINE T   == AssignTmp
           tmp == construct_empty(mem, T)
           B   == alive \ {c}
<1>1. x \in Images /\ x.type \in Functors
  BY DEF Storable, Images
<1>2. /\ c \in alive /\ T \in Objects \ alive
      /\ c \in Objects /\ T # SwapTmp /\ SwapTmp \notin alive
  BY TraitsFacts DEF AssignFunctor
<1>3. /\ Sound(tmp, alive \cup {T}) /\ Sound(tmp, alive) /\ SameTargets(mem, tmp, alive)
      /\ tmp.vtable[T] = EmptyVtable /\ tmp.allocated = mem.allocated
  BY <1>2, TraitsFacts, ConstructEmptySound
<1> HIDE DEF tmp, T
<1>4. CASE /\ has_empty_target(x)
           /\ mem' = clear(mem, c)
           /\ Finish(via, "ok")
           /\ UNCHANGED alive
  <2>1. SameTargets(mem, mem', B) /\ mem'.vtable[c] = EmptyVtable
    BY <1>2, <1>4, TraitsFacts, ClearSound
  <2> QED  BY <1>2, <1>4, <2>1 DEF View, Held
<1>5. CASE /\ ~has_empty_target(x)
           /\ mem' = put(destroy(mem, c), c, x)
           /\ Finish(via, "ok")
           /\ UNCHANGED alive
  <2> DEFINE k == destroy(mem, c)
  <2>1. /\ Sound(k, B) /\ SameTargets(mem, k, B)
        /\ k.allocated = mem.allocated \ HeldBlock(mem, c)
    BY <1>2, TraitsFacts, DestroySound
  <2>2. c \in Objects \ B /\ \E b \in Blocks : b \notin k.allocated
    BY <1>2, <2>1, HeapBoundFresh
  <2>3. mem' = put(k, c, x)
    BY <1>5
  <2> HIDE DEF k
  <2>4. Stored(k, mem', B, c, x)
    BY <1>1, <2>1, <2>2, <2>3, PutSound
  <2>5. SameTargets(mem, mem', B) /\ View(mem', c) = x
    <3>1. SameTargets(k, mem', B)
      BY <2>4 DEF Stored
    <3> QED  BY <1>1, <2>1, <2>4, <3>1, SameTargetsChain, StoredView
  <2> QED  BY <1>2, <1>5, <2>5 DEF Held
<1>6. CASE /\ ~has_empty_target(x)
           /\ mem' = LET n == swap(put(tmp, T, x), c, T)
                     IN  retire(destroy(n, T), T)
           /\ Finish(via, "ok")
           /\ UNCHANGED alive
  <2> DEFINE p == put(tmp, T, x)
             n == swap(p, c, T)
             e == destroy(n, T)
             A == alive \cup {T}
  <2>1. Sound(p, A) /\ Stored(tmp, p, alive, T, x)
    BY <1>1, <1>2, <1>3, HeapBoundFresh, PutSound
  <2>2. mem' = retire(e, T)
    BY <1>6
  <2>3. c \in A /\ T \in A /\ SwapTmp \notin A /\ A \ {T} = alive
    BY <1>2
  <2> HIDE DEF p, n, e
  <2>4. Sound(n, A) /\ Swapped(p, n, A, c, T)
    BY <2>1, <2>3, TraitsFacts, SwapSound DEF n
  <2>5. Sound(e, alive) /\ SameTargets(n, e, alive)
    <3>1. Sound(e, A \ {T}) /\ SameTargets(n, e, A \ {T})
      BY <2>3, <2>4, TraitsFacts, DestroySound DEF e
    <3> QED  BY <2>3, <3>1
  <2>6. SameTargets(e, mem', alive)
    BY <1>2, <2>2, <2>5, RetireSound
  <2>7. SameTargets(n, mem', alive)
    BY <2>5, <2>6, SameTargetsChain
  <2>8. SameTargets(mem, mem', B)
    <3>1. SameTargets(mem, p, alive)
      BY <1>3, <2>1, SameTargetsChain DEF Stored
    <3>2. SameTargets(p, n, B)
      BY <1>2, <2>4 DEF Swapped, SameTargets
    <3>3. SameTargets(mem, n, B)
      BY <3>1, <3>2, SameTargetsChain
    <3> QED  BY <2>7, <3>3, SameTargetsChain
  <2>9. View(mem', c) = x
    <3>1. p.vtable[T] # EmptyVtable /\ View(p, T) = x
      BY <1>1, <2>1, OneEmptyVtable, StoredView DEF Stored
    <3>2. View(n, c) = x
      BY <2>4, <3>1 DEF Swapped, View
    <3> QED  BY <1>2, <2>7, <3>2, OneEmptyVtable DEF SameTargets, View
  <2> QED  BY <1>2, <1>6, <2>8, <2>9 DEF Held
<1>7. CASE /\ ~has_empty_target(x) /\ ~HasNoFailAssignment(x.type, form)
           /\ PassesOn(via)
           /\ \E why \in AssignFailures(x.type, form) :
                LET n == assign_failed(tmp, T, x.type, why)
                IN  mem' = retire(destroy(n, T), T)
           /\ Finish(via, "threw")
           /\ UNCHANGED alive
  <2>1. PICK why \in AssignFailures(x.type, form) :
               mem' = retire(destroy(assign_failed(tmp, T, x.type, why), T), T)
    BY <1>7
  <2> DEFINE n == assign_failed(tmp, T, x.type, why)
             k == [n EXCEPT !.vtable[T] = EmptyVtable]
             e == destroy(n, T)
  <2>2. Sound(n, alive) /\ SameTargets(tmp, n, alive) /\ n.vtable = tmp.vtable
    BY <1>1, <1>2, <1>3, TraitsFacts, AssignFailedSound
  <2>3. k = n
    BY <1>2, <1>3, <2>2 DEF Sound, MemoryType
  <2>4. Sound(n, alive \cup {T})
    BY <1>2, <2>2, <2>3, OneEmptyVtable, EmptySound
  <2>5. (alive \cup {T}) \ {T} = alive
    BY <1>2
  <2> HIDE DEF n
  <2>6. Sound(e, alive) /\ SameTargets(n, e, alive)
    BY <2>4, <2>5, TraitsFacts, DestroySound
  <2>7. mem' = retire(e, T)
    BY <2>1 DEF n
  <2> HIDE DEF e
  <2>8. SameTargets(e, mem', alive)
    BY <1>2, <2>6, <2>7, RetireSound
  <2>9. SameTargets(mem, n, alive) /\ SameTargets(n, mem', alive)
    BY <1>3, <2>2, <2>6, <2>8, SameTargetsChain
  <2>10. SameTargets(mem, mem', alive)
    BY <2>9, SameTargetsChain
  <2> QED  BY <1>2, <1>7, <2>1, <2>10
<1>8. CASE AssigningEnds(x, form, via, c) /\ Terminate(via)
  BY <1>2, <1>8
<1> QED  BY <1>4, <1>5, <1>6, <1>7, <1>8 DEF AssignFunctor, AssigningEnds, tmp, T

(* Copy assignment: the target of the source, and no target when cloning   *)
(* throws, for the old one is gone by then.                                *)
LEMMA CopyAssignEffect ==
  ASSUME ManagedTraits, Inv, HeapBound, NEW c \in Callables, NEW s \in Callables,
         NEW source \in {"const", "nonconst"}, CopyAssign(c, s, source)
  PROVE  /\ c \in alive /\ s \in alive
         /\ \/ /\ Finish(CopyAssignment(source), "ok") /\ alive' = alive
               /\ c = s => mem' = mem
               /\ SameTargets(mem, mem', alive \ {c}) /\ View(mem', c) = View(mem, s)
            \/ /\ Finish(CopyAssignment(source), "threw") /\ alive' = alive /\ c # s
               /\ SameTargets(mem, mem', alive \ {c}) /\ mem'.vtable[c] = EmptyVtable
               /\ PassesOn(source) /\ CloneFailures(mem.vtable[s]) # {}
            \/ /\ Terminate(CopyAssignment(source)) /\ c # s
               /\ ~PassesOn(source) /\ CloneFailures(mem.vtable[s]) # {}
<1> DEFINE m == destroy(mem, c)
           t == mem.vtable[s]
           B == alive \ {c}
<1>1. c \in alive /\ s \in alive /\ t \in Vtables /\ alive' = alive
  BY TraitsFacts DEF CopyAssign
<1>2. /\ Sound(m, B) /\ SameTargets(mem, m, B) /\ m.vtable = mem.vtable
      /\ \E b \in Blocks : b \notin m.allocated
  BY <1>1, TraitsFacts, DestroySound, HeapBoundFresh
<1>3. c \in Objects \ B
  BY <1>1, TraitsFacts
<1> HIDE DEF m
<1>4. CASE SelfAssignGuard(c, s) /\ mem' = mem
           /\ Finish(CopyAssignment(source), "ok")
  BY <1>1, <1>4 DEF SelfAssignGuard, SameTargets, SameBlock
<1>5. CASE /\ ~SelfAssignGuard(c, s) /\ mem' = copy_from(destroy(mem, c), s, c)
           /\ Finish(CopyAssignment(source), "ok")
  <2>1. s \in B /\ c # s
    BY <1>1, <1>5, TraitsFacts DEF SelfAssignGuard
  <2>2. Copied(m, mem', B, s, c)
    BY <1>2, <1>3, <1>5, <2>1, TraitsFacts, CopySound DEF m
  <2>3. SameTargets(mem, mem', B)
    BY <1>2, <2>2, SameTargetsChain DEF Copied
  <2>4. View(mem', c) = View(mem, s)
    BY <1>2, <2>1, <2>2, OneEmptyVtable DEF Copied, SameTargets, View
  <2> QED  BY <1>1, <1>5, <2>1, <2>3, <2>4
<1>6. CASE /\ ~SelfAssignGuard(c, s) /\ PassesOn(source)
           /\ \E why \in CloneFailures(t) :
                mem' = cleaned(assign_failed(destroy(mem, c), c, t, why), c)
           /\ Finish(CopyAssignment(source), "threw")
  <2>1. PICK why \in CloneFailures(t) : mem' = cleaned(assign_failed(m, c, t, why), c)
    BY <1>6 DEF m
  <2> DEFINE n == assign_failed(m, c, t, why)
  <2>2. t \in Functors /\ why \in AssignFailures(t, "copy") /\ "copy" \in Forms
    BY <1>1, <2>1, TraitsFacts, OneEmptyVtable DEF CloneFailures, Forms
  <2>3. Sound(n, B) /\ SameTargets(m, n, B)
    BY <1>2, <1>3, <2>2, TraitsFacts, AssignFailedSound
  <2> HIDE DEF n
  <2>4. SameTargets(n, mem', B) /\ mem'.vtable[c] = EmptyVtable
    BY <1>3, <2>1, <2>3, CleanedSound DEF n
  <2>5. SameTargets(mem, n, B)
    BY <1>2, <2>3, SameTargetsChain
  <2>6. SameTargets(mem, mem', B)
    BY <2>4, <2>5, SameTargetsChain
  <2>7. c # s
    BY <1>6, TraitsFacts DEF SelfAssignGuard
  <2> QED  BY <1>1, <1>6, <2>1, <2>4, <2>6, <2>7
<1>7. CASE /\ ~SelfAssignGuard(c, s) /\ ~PassesOn(source)
           /\ CloneFailures(t) # {} /\ Terminate(CopyAssignment(source))
  BY <1>1, <1>7, TraitsFacts DEF SelfAssignGuard
<1> QED  BY <1>4, <1>5, <1>6, <1>7 DEF CopyAssign

(* Move assignment: the target changes hands, and where moving throws, the *)
(* source keeps a target of the same type and the destination has none.    *)
LEMMA MoveAssignEffect ==
  ASSUME ManagedTraits, Inv, NEW c \in Callables, NEW s \in Callables, MoveAssign(c, s)
  PROVE  /\ c \in alive /\ s \in alive /\ alive' = alive
         /\ \/ Finish("move_assign", "ok") /\ c = s /\ mem' = mem
            \/ Finish("move_assign", "ok") /\ c # s /\ HandedOn(s, c)
            \/ /\ Finish("move_assign", "threw") /\ c # s
               /\ SameTargets(mem, mem', alive \ {c, s})
               /\ mem'.vtable[c] = EmptyVtable
               /\ mem.vtable[s] # EmptyVtable /\ mem'.vtable[s] = mem.vtable[s]
               /\ functor_manager(mem.vtable[s]) = "small"
               /\ MoveFailures(mem.vtable[s]) # {}
               /\ \E v \in Values : View(mem', s) = [View(mem, s) EXCEPT !.val = v]
<1> DEFINE m == destroy(mem, c)
           t == mem.vtable[s]
           B == alive \ {c}
<1>1. /\ c \in alive /\ s \in alive /\ t \in Vtables /\ alive' = alive /\ Moveable # "na"
  BY TraitsFacts DEF MoveAssign
<1>2. Sound(m, B) /\ SameTargets(mem, m, B) /\ m.vtable = mem.vtable
  BY <1>1, TraitsFacts, DestroySound
<1>3. c \in Objects \ B /\ B \cup {c} = alive
  BY <1>1, TraitsFacts
<1> HIDE DEF m
<1>4. CASE SelfAssignGuard(c, s) /\ mem' = mem /\ Finish("move_assign", "ok")
  BY <1>1, <1>4 DEF SelfAssignGuard
<1>5. CASE /\ ~SelfAssignGuard(c, s) /\ mem' = move_from(destroy(mem, c), s, c)
           /\ Finish("move_assign", "ok")
  <2>1. s \in B /\ c # s
    BY <1>1, <1>5, TraitsFacts DEF SelfAssignGuard
  <2>2. mem' = move_from(m, s, c)
    BY <1>5 DEF m
  <2>3. Moved(m, mem', B, s, c, EmptyVtable)
    BY <1>1, <1>2, <1>3, <2>1, <2>2, MoveSound
  <2>4. SameTargets(mem, mem', alive \ {c, s})
    BY <1>2, <2>3 DEF SameTargets, SameBlock, Moved
  <2>5. /\ View(mem', c) = View(mem, s) /\ mem'.vtable[c] = mem.vtable[s]
        /\ SameBlock(mem, s, mem', c) /\ mem'.vtable[s] = EmptyVtable
    BY <1>2, <2>1, <2>3, OneEmptyVtable DEF SameTargets, SameBlock, Moved, View
  <2> QED  BY <1>1, <1>5, <2>1, <2>4, <2>5 DEF HandedOn
<1>6. CASE /\ ~SelfAssignGuard(c, s)
           /\ \E why \in MoveFailures(t), v \in Values :
                mem' = store(cleaned(assign_failed(destroy(mem, c), c, t, why), c),
                             s, [type |-> t, val |-> v], t)
           /\ Finish("move_assign", "threw")
  <2>1. PICK why \in MoveFailures(t), v \in Values :
               mem' = store(cleaned(assign_failed(m, c, t, why), c),
                            s, [type |-> t, val |-> v], t)
    BY <1>6 DEF m
  <2> DEFINE f == assign_failed(m, c, t, why)
             n == cleaned(f, c)
  <2>2. /\ functor_manager(t) = "small" /\ why \in AssignFailures(t, "move")
        /\ "move" \in Forms /\ MoveFailures(t) # {}
    BY <1>1, <2>1 DEF MoveFailures, Forms
  <2>3. t # EmptyVtable /\ t \in Functors /\ ~OnHeap(t)
    BY <1>1, <2>2, OneEmptyVtable, ManagerType
  <2>4. Sound(f, B) /\ SameTargets(m, f, B)
    BY <1>2, <1>3, <2>2, <2>3, TraitsFacts, AssignFailedSound
  <2> HIDE DEF f
  <2>5. Sound(n, alive) /\ SameTargets(f, n, B) /\ n.vtable[c] = EmptyVtable
    BY <1>3, <2>4, CleanedSound
  <2>6. s # c /\ s \in B
    BY <1>1, <1>6, TraitsFacts DEF SelfAssignGuard
  <2> HIDE DEF n
  <2>7. SameTargets(mem, f, B)
    BY <1>2, <2>4, SameTargetsChain
  <2>8. SameTargets(mem, n, B)
    BY <2>5, <2>7, SameTargetsChain
  <2>9. n.vtable[s] = t
    BY <2>6, <2>8 DEF SameTargets
  <2>10. mem' = invoke(n, s, v)
    BY <2>1, <2>2, <2>3, <2>9 DEF invoke, n, f
  <2>11. /\ SameTargets(n, mem', alive \ {s}) /\ mem'.vtable = n.vtable
         /\ TargetOf(mem', s) = [type |-> t, val |-> v]
    BY <1>1, <2>3, <2>5, <2>9, <2>10, InvokeSound
  <2>12. SameTargets(mem, mem', alive \ {c, s})
    BY <2>8, <2>11 DEF SameTargets, SameBlock
  <2>13. View(mem', s) = [type |-> t, val |-> v] /\ mem'.vtable[c] = EmptyVtable
    BY <2>3, <2>5, <2>9, <2>11 DEF View
  <2>14. View(mem, s) \in Images /\ View(mem, s).type = t
    <3>1. Sound(mem, alive)
      BY TraitsFacts
    <3> QED  BY <1>1, <2>3, <3>1, ViewType
  <2>15. View(mem', s) = [View(mem, s) EXCEPT !.val = v]
    BY <2>13, <2>14 DEF Images
  <2> QED  BY <1>1, <1>6, <2>2, <2>3, <2>6, <2>9, <2>11, <2>12, <2>13, <2>15
<1> QED  BY <1>1, <1>4, <1>5, <1>6 DEF MoveAssign

(* swap(): the targets change places, or the program ends. *)
LEMMA SwapEffect ==
  ASSUME ManagedTraits, Inv, NEW a \in Callables, NEW b \in Callables, Swap(a, b)
  PROVE  /\ a \in alive /\ b \in alive
         /\ \/ /\ Finish("swap", "ok") /\ alive' = alive
               /\ Swapped(mem, mem', alive, a, b)
               /\ a = b => mem' = mem
            \/ /\ Terminate("swap") /\ a # b
               /\ MoveFailures(mem.vtable[a]) \cup MoveFailures(mem.vtable[b]) # {}
<1>1. a \in alive /\ b \in alive /\ SwapTmp \notin alive
  BY TraitsFacts DEF Swap
<1>2. Swapped(mem, swap(mem, a, b), alive, a, b)
  BY <1>1, TraitsFacts, SwapSound
<1>3. a = b => swap(mem, a, b) = mem
  BY DEF swap
<1> QED  BY <1>1, <1>2, <1>3 DEF Swap

(* operator(): the target may change its own state, and nothing else does. *)
LEMMA InvokeEffect ==
  ASSUME ManagedTraits, Inv, NEW c \in Callables, Invoke(c)
  PROVE  /\ c \in alive /\ alive' = alive
         /\ \/ /\ mem.vtable[c] = EmptyVtable /\ mem' = mem
               /\ Finish("invoke", EmptyInvocation)
            \/ /\ mem.vtable[c] # EmptyVtable
               /\ \E result \in {"ok", Raised} : Finish("invoke", result)
               /\ SameTargets(mem, mem', alive \ {c}) /\ mem'.vtable = mem.vtable
               /\ SameBlock(mem, c, mem', c)
               /\ \E v \in Values : View(mem', c) = [View(mem, c) EXCEPT !.val = v]
<1>1. c \in alive /\ alive' = alive /\ Sound(mem, alive)
  BY TraitsFacts DEF Invoke
<1>2. CASE mem.vtable[c] = EmptyVtable /\ Finish("invoke", EmptyInvocation) /\ UNCHANGED mem
  BY <1>1, <1>2
<1>3. CASE /\ mem.vtable[c] # EmptyVtable
           /\ \E v \in Values : mem' = invoke(mem, c, v)
           /\ \E result \in {"ok", Raised} : Finish("invoke", result)
  <2>1. PICK v \in Values : mem' = invoke(mem, c, v)
    BY <1>3
  <2> DEFINE t == mem.vtable[c]
  <2>2. /\ SameTargets(mem, mem', alive \ {c}) /\ mem'.vtable = mem.vtable
        /\ TargetOf(mem', c) = [type |-> t, val |-> v]
        /\ SameBlock(mem, c, mem', c)
    BY <1>1, <1>3, <2>1, InvokeSound
  <2>3. View(mem', c) = [type |-> t, val |-> v]
    BY <1>3, <2>2 DEF View
  <2>4. View(mem, c) \in Images /\ View(mem, c).type = t
    BY <1>1, <1>3, ViewType
  <2>5. View(mem', c) = [View(mem, c) EXCEPT !.val = v]
    BY <2>3, <2>4 DEF Images
  <2> QED  BY <1>1, <1>3, <2>2, <2>5
<1> QED  BY <1>2, <1>3 DEF Invoke

-----------------------------------------------------------------------------
(* What the contract says of each of them. *)

(* A new callable, of whatever target: the targets of others stay.         *)
LEMMA NewCallable ==
  ASSUME NEW c \in Callables \ alive, alive' = alive \cup {c},
         SameTargets(mem, mem', alive)
  PROVE  target' = [target EXCEPT ![c] = View(mem', c)]
<1>1. SameTargets(mem, mem', alive \ {c}) /\ alive' \ {c} = alive \ {c}
  BY DEF SameTargets
<1>2. target'[c] = View(mem', c)
  BY TargetViews
<1> QED  BY <1>1, <1>2, Unaffected, OneTarget

(* Another target, or none, for a callable. *)
LEMMA NewTarget ==
  ASSUME NEW c \in Callables, c \in alive, alive' = alive,
         SameTargets(mem, mem', alive \ {c})
  PROVE  target' = [target EXCEPT ![c] = View(mem', c)]
<1>1. target'[c] = View(mem', c)
  BY TargetViews
<1> QED  BY <1>1, Unaffected, OneTarget

(* A target that changes hands, by construction or by assignment. *)
LEMMA HandedOnTarget ==
  ASSUME NEW c \in Callables, NEW s \in Callables, c # s, s \in alive,
         alive' = alive \cup {c}, HandedOn(s, c)
  PROVE  target' = [target EXCEPT ![c] = target[s], ![s] = EmptyVtable]
<1>1. SameTargets(mem, mem', alive \ {c, s}) /\ alive' \ {c, s} = alive \ {c, s}
  BY DEF HandedOn
<1>2. \A p \in Callables \ {c, s} : target'[p] = target[p]
  BY <1>1, Unaffected
<1>3. target'[c] = target[s] /\ target'[s] = EmptyVtable
  BY TargetViews DEF HandedOn, View
<1> QED  BY <1>2, <1>3, TwoTargets

(* A functor that was put in a callable is what its contract speaks of.    *)
LEMMA HeldTarget ==
  ASSUME NEW x \in Storable
  PROVE  Held(x) \in Contract!StoredTargets
BY DEF Held, Contract!StoredTargets

(* The default constructor. *)
LEMMA DefaultConstructContract ==
  ASSUME ManagedTraits, Inv, NEW c \in Callables, DefaultConstruct(c)
  PROVE  Contract!DefaultConstruct(c)
<1>1. target' = [target EXCEPT ![c] = EmptyVtable]
  BY DefaultConstructEffect, NewCallable DEF View
<1> QED  BY <1>1, DefaultConstructEffect, AliveViews
         DEF DefaultConstruct, Finish, Contract!DefaultConstruct, Contract!Ends,
             Contract!Set

(* callable( Functor && ). *)
LEMMA ConstructFromContract ==
  ASSUME ManagedTraits, Inv, HeapBound, NEW c \in Callables, NEW x \in Storable,
         NEW form \in Forms, ConstructFrom(c, x, form)
  PROVE  Contract!ConstructFrom(c)
<1>1. c \in Callables \ alive /\ c \notin Contract!Alive
  BY ConstructFromEffect, AliveViews
<1>2. CASE /\ Finish("construct_from", "ok") /\ alive' = alive \cup {c}
           /\ SameTargets(mem, mem', alive) /\ View(mem', c) = Held(x)
  <2>1. target' = [target EXCEPT ![c] = View(mem', c)]
    BY <1>1, <1>2, NewCallable
  <2>2. target'[c] = View(mem', c)
    BY <1>2, TargetViews
  <2>3. target'[c] \in Contract!StoredTargets
    BY <1>2, <2>2, HeldTarget
  <2> QED  BY <1>1, <1>2, <2>1, <2>2, <2>3
           DEF Finish, Contract!ConstructFrom, Contract!Ends, Contract!Set, Contract!Store
<1>3. CASE /\ Finish("construct_from", "threw") /\ alive' = alive
           /\ SameTargets(mem, mem', alive)
           /\ ~has_empty_target(x) /\ Throws(x.type, form)
           /\ AssignFailures(x.type, form) # {}
  <2>1. ConstructionThrows(x, form) /\ StoringFails(x, form)
    BY <1>3, FunctorFailures
  <2> QED  BY <1>1, <1>3, <2>1, NoTargets
           DEF Finish, Contract!ConstructFrom, Contract!Ends
<1>4. CASE /\ Terminate("construct_from")
           /\ ~has_empty_target(x) /\ ~Throws(x.type, form)
           /\ AssignFailures(x.type, form) # {}
  <2>1. ~ConstructionThrows(x, form) /\ StoringFails(x, form)
    BY <1>4, FunctorFailures
  <2> QED  BY <1>1, <1>4, <2>1, TerminateContract DEF Contract!ConstructFrom
<1> QED  BY <1>2, <1>3, <1>4, ConstructFromEffect

(* The copy constructor. *)
LEMMA CopyConstructContract ==
  ASSUME ManagedTraits, Inv, HeapBound, NEW c \in Callables, NEW s \in Callables,
         CopyConstruct(c, s)
  PROVE  Contract!CopyConstruct(c, s)
<1>1. /\ c \in Callables \ alive /\ s \in alive
      /\ c \notin Contract!Alive /\ s \in Contract!Alive
      /\ SameTargets(mem, mem', alive)
  BY CopyConstructEffect, AliveViews
<1>2. CASE /\ Finish("copy_construct", "ok") /\ alive' = alive \cup {c}
           /\ View(mem', c) = View(mem, s)
  <2>1. target' = [target EXCEPT ![c] = View(mem', c)] /\ target[s] = View(mem, s)
    BY <1>1, <1>2, NewCallable, TargetViews
  <2>2. target' = [target EXCEPT ![c] = target[s]]
    BY <1>2, <2>1
  <2> QED  BY <1>1, <1>2, <2>2
           DEF Finish, Contract!CopyConstruct, Contract!Ends, Contract!Set
<1>3. CASE /\ Finish("copy_construct", "threw") /\ alive' = alive
           /\ CloneFailures(mem.vtable[s]) # {}
  BY <1>1, <1>3, NoTargets, TargetFailures
  DEF Finish, Contract!CopyConstruct, Contract!Ends
<1> QED  BY <1>2, <1>3, CopyConstructEffect

(* The moving constructor. *)
LEMMA MoveConstructContract ==
  ASSUME ManagedTraits, Inv, NEW c \in Callables, NEW s \in Callables,
         MoveConstruct(c, s)
  PROVE  Contract!MoveConstruct(c, s)
<1>1. c \notin alive /\ s \in alive /\ c # s /\ c \notin Contract!Alive /\ s \in Contract!Alive
  BY MoveConstructEffect, AliveViews
<1>2. CASE Finish("move_construct", "ok") /\ alive' = alive \cup {c} /\ HandedOn(s, c)
  BY <1>1, <1>2, HandedOnTarget DEF Finish, Contract!MoveConstruct, Contract!Ends
<1>3. CASE Terminate("move_construct") /\ MoveFailures(mem.vtable[s]) # {}
  BY <1>1, <1>3, TerminateContract, TargetFailures DEF Contract!MoveConstruct
<1> QED  BY <1>2, <1>3, MoveConstructEffect

(* The destructor. *)
LEMMA DestructContract ==
  ASSUME ManagedTraits, Inv, NEW c \in Callables, Destruct(c)
  PROVE  Contract!Destruct(c)
<1>1. c \in alive /\ alive' = alive \ {c} /\ SameTargets(mem, mem', alive \ {c})
  BY DestructEffect
<1>2. alive' \ {c} = alive \ {c} /\ target'[c] = Junk
  BY <1>1, TargetViews
<1>3. target' = [target EXCEPT ![c] = Junk]
  BY <1>1, <1>2, Unaffected, OneTarget
<1> QED  BY <1>1, <1>3, AliveViews
         DEF Destruct, Finish, Contract!Destruct, Contract!Ends, Contract!Set

(* clear(). *)
LEMMA ClearContract ==
  ASSUME ManagedTraits, Inv, NEW c \in Callables, Clear(c)
  PROVE  Contract!Clear(c)
<1>1. c \in alive /\ target' = [target EXCEPT ![c] = EmptyVtable]
  BY ClearEffect, NewTarget DEF View
<1> QED  BY <1>1, AliveViews DEF Clear, Finish, Contract!Clear, Contract!Ends, Contract!Set

(* What is stored, by either function. *)
LEMMA StoreContract ==
  ASSUME Inv, NEW c \in Callables, c \in alive, NEW x \in Storable, alive' = alive,
         SameTargets(mem, mem', alive \ {c}), View(mem', c) = Held(x)
  PROVE  Contract!Store(c)
<1>1. target' = [target EXCEPT ![c] = View(mem', c)]
  BY NewTarget
<1>2. target'[c] = View(mem', c)
  BY TargetViews
<1>3. target'[c] \in Contract!StoredTargets
  BY <1>2, HeldTarget
<1> QED  BY <1>1, <1>2, <1>3 DEF Contract!Store, Contract!Set

(* assign(): as construction, but a callable that was not assigned to has  *)
(* its old target.                                                         *)
LEMMA AssignContract ==
  ASSUME ManagedTraits, Inv, HeapBound, NEW c \in Callables, NEW x \in Storable,
         NEW form \in Forms, AssignFunctor(c, x, form, "assign")
  PROVE  Contract!Assign(c)
<1>1. c \in alive /\ c \in Contract!Alive
  BY AssignFunctorEffect, AliveViews
<1>2. CASE /\ Finish("assign", "ok") /\ alive' = alive
           /\ SameTargets(mem, mem', alive \ {c}) /\ View(mem', c) = Held(x)
  BY <1>1, <1>2, StoreContract DEF Finish, Contract!Assign, Contract!Ends
<1>3. CASE /\ Finish("assign", "threw") /\ alive' = alive
           /\ SameTargets(mem, mem', alive)
           /\ ~has_empty_target(x) /\ AssignFailures(x.type, form) # {}
           /\ ~HasNoFailAssignment(x.type, form)
  <2>1. ~AssignedDirectly(x, form) /\ StoringFails(x, form)
    BY <1>3, FunctorFailures
  <2> QED  BY <1>1, <1>3, <2>1, NoTargets DEF Finish, Contract!Assign, Contract!Ends
<1>4. CASE Terminate("assign") /\ AssigningEnds(x, form, "assign", c)
  <2>1. /\ ~has_empty_target(x)
        /\ \/ StoringFails(x, form) /\ AssignedDirectly(x, form)
           \/ ~AssignedDirectly(x, form) /\ (MovingFails(x) \/ MovingFails(target[c]))
    BY <1>1, <1>4, FunctorFailures, TargetFailures DEF AssigningEnds, PassesOn
  <2> QED  BY <1>1, <1>4, <2>1, TerminateContract
           DEF Contract!Assign, Contract!SwappingInFails
<1> QED  BY <1>2, <1>3, <1>4, AssignFunctorEffect

(* operator=( F && ): every failure ends the program. *)
LEMMA AssignOperatorContract ==
  ASSUME ManagedTraits, Inv, HeapBound, NEW c \in Callables, NEW x \in Storable,
         NEW form \in Forms, AssignFunctor(c, x, form, "operator=")
  PROVE  Contract!AssignOperator(c)
<1>1. c \in alive /\ c \in Contract!Alive
  BY AssignFunctorEffect, AliveViews
<1>2. CASE /\ Finish("operator=", "ok") /\ alive' = alive
           /\ SameTargets(mem, mem', alive \ {c}) /\ View(mem', c) = Held(x)
  BY <1>1, <1>2, StoreContract DEF Finish, Contract!AssignOperator, Contract!Ends
<1>3. CASE Terminate("operator=") /\ AssigningEnds(x, form, "operator=", c)
  <2>1. /\ ~has_empty_target(x)
        /\ \/ StoringFails(x, form)
           \/ ~AssignedDirectly(x, form) /\ (MovingFails(x) \/ MovingFails(target[c]))
    BY <1>1, <1>3, FunctorFailures, TargetFailures DEF AssigningEnds
  <2> QED  BY <1>1, <1>3, <2>1, TerminateContract
           DEF Contract!AssignOperator, Contract!SwappingInFails
<1>4. ~PassesOn("operator=")
  BY DEF PassesOn
<1> QED  BY <1>2, <1>3, <1>4, AssignFunctorEffect

(* Copy assignment, from a const callable and from one that is not.        *)
LEMMA CopyAssignContract ==
  ASSUME ManagedTraits, Inv, HeapBound, NEW c \in Callables, NEW s \in Callables,
         NEW source \in {"const", "nonconst"}, CopyAssign(c, s, source)
  PROVE  Contract!CopyAssign(c, s) \/ Contract!CopyAssignNonconst(c, s)
<1>1. /\ c \in alive /\ s \in alive /\ {c, s} \subseteq Contract!Alive
      /\ \/ source = "const" /\ CopyAssignment(source) = "copy_assign"
         \/ /\ source = "nonconst" /\ ~PassesOn(source)
            /\ CopyAssignment(source) = "copy_assign_nonconst"
      /\ PassesOn("const")
  BY CopyAssignEffect, AliveViews DEF CopyAssignment, PassesOn
<1>2. CASE /\ Finish(CopyAssignment(source), "ok") /\ alive' = alive
           /\ SameTargets(mem, mem', alive \ {c}) /\ View(mem', c) = View(mem, s)
  <2>1. target' = [target EXCEPT ![c] = View(mem', c)] /\ target[s] = View(mem, s)
    BY <1>1, <1>2, NewTarget, TargetViews
  <2>2. target' = [target EXCEPT ![c] = target[s]]
    BY <1>2, <2>1
  <2> QED  BY <1>1, <1>2, <2>2
           DEF Finish, Contract!CopyAssign, Contract!CopyAssignNonconst, Contract!Ends,
               Contract!Set
<1>3. CASE /\ Finish(CopyAssignment(source), "threw") /\ alive' = alive /\ c # s
           /\ SameTargets(mem, mem', alive \ {c}) /\ mem'.vtable[c] = EmptyVtable
           /\ PassesOn(source) /\ CloneFailures(mem.vtable[s]) # {}
  <2>1. target' = [target EXCEPT ![c] = EmptyVtable]
    BY <1>1, <1>3, NewTarget DEF View
  <2> QED  BY <1>1, <1>3, <2>1, TargetFailures
           DEF Finish, Contract!CopyAssign, Contract!Ends, Contract!Set
<1>4. CASE /\ Terminate(CopyAssignment(source)) /\ c # s
           /\ ~PassesOn(source) /\ CloneFailures(mem.vtable[s]) # {}
  BY <1>1, <1>4, TerminateContract, TargetFailures DEF Contract!CopyAssignNonconst
<1> QED  BY <1>2, <1>3, <1>4, CopyAssignEffect

(* Move assignment. *)
LEMMA MoveAssignContract ==
  ASSUME ManagedTraits, Inv, NEW c \in Callables, NEW s \in Callables, MoveAssign(c, s)
  PROVE  Contract!MoveAssign(c, s)
<1>1. c \in alive /\ s \in alive /\ alive' = alive /\ {c, s} \subseteq Contract!Alive
  BY MoveAssignEffect, AliveViews
<1>2. CASE Finish("move_assign", "ok") /\ c = s /\ mem' = mem
  <2>1. target' = target
    BY <1>1, <1>2, TargetViews
  <2> QED  BY <1>1, <1>2, <2>1
           DEF Finish, Contract!MoveAssign, Contract!Ends
<1>3. CASE Finish("move_assign", "ok") /\ c # s /\ HandedOn(s, c)
  <2>1. alive' = alive \cup {c}
    BY <1>1
  <2>2. target' = [target EXCEPT ![c] = target[s], ![s] = EmptyVtable]
    BY <1>1, <1>3, <2>1, HandedOnTarget
  <2> QED  BY <1>1, <1>3, <2>2
           DEF Finish, Contract!MoveAssign, Contract!Ends
<1>4. CASE /\ Finish("move_assign", "threw") /\ c # s
           /\ MoveFailures(mem.vtable[s]) # {}
           /\ SameTargets(mem, mem', alive \ {c, s})
           /\ mem'.vtable[c] = EmptyVtable
           /\ mem.vtable[s] # EmptyVtable /\ mem'.vtable[s] = mem.vtable[s]
           /\ \E v \in Values : View(mem', s) = [View(mem, s) EXCEPT !.val = v]
  <2>1. PICK v \in Values : View(mem', s) = [View(mem, s) EXCEPT !.val = v]
    BY <1>4
  <2>2. /\ target[s] = View(mem, s) /\ target[s] # EmptyVtable
        /\ target'[c] = EmptyVtable /\ target'[s] = [target[s] EXCEPT !.val = v]
    <3>1. View(mem, s) # EmptyVtable
      BY <1>1, <1>4, TraitsFacts, ViewType
    <3> QED  BY <1>1, <1>4, <2>1, <3>1, TargetViews DEF View
  <2>3. \A p \in Callables \ {c, s} : target'[p] = target[p]
    BY <1>1, <1>4, Unaffected
  <2>4. target' = [target EXCEPT ![c] = EmptyVtable, ![s] = [target[s] EXCEPT !.val = v]]
    BY <1>4, <2>2, <2>3, TwoTargets
  <2>5. target' = [target EXCEPT ![c] = EmptyVtable, ![s].val = v]
    BY <1>4, <2>4, TargetViews
  <2> QED  BY <1>1, <1>4, <2>2, <2>5, TargetFailures
           DEF Finish, Contract!MoveAssign, Contract!Ends
<1> QED  BY <1>2, <1>3, <1>4, MoveAssignEffect

(* swap(). *)
LEMMA SwapContract ==
  ASSUME ManagedTraits, Inv, NEW a \in Callables, NEW b \in Callables, Swap(a, b)
  PROVE  Contract!Swap(a, b)
<1>1. a \in alive /\ b \in alive /\ {a, b} \subseteq Contract!Alive
  BY SwapEffect, AliveViews
<1>2. CASE Finish("swap", "ok") /\ alive' = alive /\ Swapped(mem, mem', alive, a, b)
  <2>1. View(mem', a) = View(mem, b) /\ View(mem', b) = View(mem, a)
    BY <1>2 DEF Swapped, View
  <2>2. target'[a] = target[b] /\ target'[b] = target[a]
    BY <1>1, <1>2, <2>1, TargetViews
  <2>3. \A p \in Callables \ {a, b} : target'[p] = target[p]
    BY <1>2, Unaffected DEF Swapped
  <2>4. target' = [target EXCEPT ![a] = target[b], ![b] = target[a]]
    BY <2>2, <2>3, TargetViews
  <2> QED  BY <1>1, <1>2, <2>4 DEF Finish, Contract!Swap, Contract!Ends
<1>3. CASE /\ Terminate("swap") /\ a # b
           /\ MoveFailures(mem.vtable[a]) \cup MoveFailures(mem.vtable[b]) # {}
  <2>1. MovingFails(target[a]) \/ MovingFails(target[b])
    BY <1>1, <1>3, TargetFailures
  <2> QED  BY <1>1, <1>3, <2>1, TerminateContract DEF Contract!Swap
<1> QED  BY <1>2, <1>3, SwapEffect

(* operator(). *)
LEMMA InvokeContract ==
  ASSUME ManagedTraits, Inv, NEW c \in Callables, Invoke(c)
  PROVE  Contract!Invoke(c)
<1>1. c \in alive /\ alive' = alive /\ c \in Contract!Alive
  BY InvokeEffect, AliveViews
<1>2. CASE /\ mem.vtable[c] = EmptyVtable /\ mem' = mem
           /\ Finish("invoke", EmptyInvocation)
  <2>1. target' = target /\ target[c] = EmptyVtable
    BY <1>1, <1>2, TargetViews DEF View
  <2> QED  BY <1>1, <1>2, <2>1 DEF Finish, Contract!Invoke, Contract!Ends
<1>3. CASE /\ mem.vtable[c] # EmptyVtable
           /\ \E result \in {"ok", Raised} : Finish("invoke", result)
           /\ SameTargets(mem, mem', alive \ {c})
           /\ \E v \in Values : View(mem', c) = [View(mem, c) EXCEPT !.val = v]
  <2>1. PICK v \in Values : View(mem', c) = [View(mem, c) EXCEPT !.val = v]
    BY <1>3
  <2>2. target[c] = View(mem, c) /\ target[c] # EmptyVtable
    BY <1>1, <1>3, TraitsFacts, ViewType, TargetViews
  <2>3. target' = [target EXCEPT ![c] = [target[c] EXCEPT !.val = v]]
    BY <1>1, <1>3, <2>1, <2>2, NewTarget
  <2> QED  BY <1>1, <1>3, <2>2, <2>3 DEF Finish, Contract!Invoke, Contract!Ends, Contract!Set
<1> QED  BY <1>2, <1>3, InvokeEffect

-----------------------------------------------------------------------------
(* The theorem. *)

(* The program starts without callables, in the contract as in memory. *)
LEMMA InitContract ==
  ASSUME Init
  PROVE  Contract!Init
BY TargetViews DEF Init, Contract!Init

(* Every call is one the contract allows, or has no effect in it. *)
LEMMA StepContract ==
  ASSUME ManagedTraits, Inv, [Next]_vars
  PROVE  [Contract!Next]_(Contract!vars)
<1>1. CASE Next
  <2>1. HeapBound /\ Step
    BY <1>1 DEF Next
  <2>2. ASSUME NEW c \in Callables, DefaultConstruct(c) PROVE Contract!Next
    BY <2>2, DefaultConstructContract DEF Contract!Next
  <2>3. ASSUME NEW c \in Callables, NEW x \in Storable, NEW form \in {"copy", "move"},
               ConstructFrom(c, x, form)
        PROVE  Contract!Next
    <3>1. form \in Forms
      BY DEF Forms
    <3> QED  BY <2>1, <2>3, <3>1, ConstructFromContract DEF Contract!Next
  <2>4. ASSUME NEW c \in Callables, NEW s \in Callables, CopyConstruct(c, s)
        PROVE  Contract!Next
    BY <2>1, <2>4, CopyConstructContract DEF Contract!Next
  <2>5. ASSUME NEW c \in Callables, NEW s \in Callables, MoveConstruct(c, s)
        PROVE  Contract!Next
    BY <2>5, MoveConstructContract DEF Contract!Next
  <2>6. ASSUME NEW c \in Callables, Destruct(c) PROVE Contract!Next
    BY <2>6, DestructContract DEF Contract!Next
  <2>7. ASSUME NEW c \in Callables, NEW x \in Storable, NEW form \in Forms,
               NEW via \in {"assign", "operator="}, AssignFunctor(c, x, form, via)
        PROVE  Contract!Next
    <3>1. CASE via = "assign"
      BY <2>1, <2>7, <3>1, AssignContract DEF Contract!Next
    <3>2. CASE via = "operator="
      BY <2>1, <2>7, <3>2, AssignOperatorContract DEF Contract!Next
    <3> QED  BY <3>1, <3>2
  <2>8. ASSUME NEW c \in Callables, NEW s \in Callables,
               NEW source \in {"const", "nonconst"}, CopyAssign(c, s, source)
        PROVE  Contract!Next
    BY <2>1, <2>8, CopyAssignContract DEF Contract!Next
  <2>9. ASSUME NEW c \in Callables, NEW s \in Callables, MoveAssign(c, s)
        PROVE  Contract!Next
    BY <2>9, MoveAssignContract DEF Contract!Next
  <2>10. ASSUME NEW c \in Callables, Clear(c) PROVE Contract!Next
    BY <2>10, ClearContract DEF Contract!Next
  <2>11. ASSUME NEW a \in Callables, NEW b \in Callables, Swap(a, b) PROVE Contract!Next
    BY <2>11, SwapContract DEF Contract!Next
  <2>12. ASSUME NEW c \in Callables, Invoke(c) PROVE Contract!Next
    BY <2>12, InvokeContract DEF Contract!Next
  <2> QED  BY <2>1, <2>2, <2>3, <2>4, <2>5, <2>6, <2>7, <2>8, <2>9, <2>10, <2>11, <2>12
           DEF Step
<1>2. CASE UNCHANGED vars
  <2>1. target' = target /\ last' = last
    BY <1>2, TargetViews DEF vars
  <2> QED  BY <2>1 DEF Contract!vars
<1> QED  BY <1>1, <1>2

(* The refinement: whatever sequence of member functions is called on any  *)
(* number of callables, with any outcomes, buffers, managers and heap give *)
(* every callable the target its contract promises.                        *)
THEOREM ContractKept ==
  ASSUME ManagedTraits
  PROVE  Spec => ImplementsContract
BY InitContract, StepContract, OwnershipInvariant, PTL
DEF Spec, ImplementsContract, Contract!Spec
=============================================================================
