--------------------------- MODULE CallableProofs ---------------------------
(***************************************************************************)
(* The ownership invariant of CallableBase, proved for any number of       *)
(* callables, functors, values and blocks.                                 *)
(***************************************************************************)
EXTENDS CallableInvariant, OwnershipProofs, FiniteSetTheorems

(* There is one empty handler, whose vtable is told from those of functors.*)
LEMMA OneEmptyVtable ==
  /\ \A t : t \in EmptyVtables <=> t = EmptyVtable
  /\ EmptyVtable \in Vtables /\ EmptyVtable \notin Functors
  /\ \A t \in Vtables : t # EmptyVtable => t \in Functors
BY TraitsAssumption, TokensAssumption DEF Vtables

-----------------------------------------------------------------------------
(* The building blocks of callable_base. *)

(* construct_empty, before which its object owns nothing, and after which  *)
(* it owns no more than that.                                              *)
LEMMA ConstructEmptySound ==
  ASSUME NEW m, NEW A, Sound(m, A), NEW o \in Objects \ A
  PROVE  LET n == construct_empty(m, o)
         IN  /\ Sound(n, A \cup {o}) /\ Sound(n, A) /\ SameTargets(m, n, A)
             /\ n.vtable[o] = EmptyVtable /\ n.allocated = m.allocated
<1> DEFINE k == debug_clear(m, o)
           n == construct_empty(m, o)
<1>1. Sound(k, A) /\ SameTargets(m, k, A) /\ k.allocated = m.allocated
  BY DebugClear, BufferSound DEF Sound, BufferOnly
<1>2. n = [k EXCEPT !.vtable[o] = EmptyVtable]
  BY DEF construct_empty
<1> HIDE DEF k, n
<1>3. /\ Sound(n, A \cup {o}) /\ SameTargets(k, n, A)
      /\ n.vtable[o] = EmptyVtable /\ n.allocated = k.allocated
  BY <1>1, <1>2, OneEmptyVtable, EmptySound
<1>4. (A \cup {o}) \ {o} = A
  OBVIOUS
<1>5. Sound(n, (A \cup {o}) \ {o})
  BY <1>3, OneEmptyVtable, DropEmpty
<1>6. Sound(n, A)
  BY <1>4, <1>5
<1>7. SameTargets(m, n, A)
  BY <1>1, <1>3, SameTargetsChain
<1> QED  BY <1>1, <1>3, <1>6, <1>7 DEF n

(* destroyer, where it goes through a manager. *)
LEMMA DestroySound ==
  ASSUME NEW m, NEW A, Sound(m, A), NEW o \in A, Destructor # "trivial"
  PROVE  LET n == destroy(m, o)
         IN  /\ Sound(n, A \ {o}) /\ SameTargets(m, n, A \ {o})
             /\ n.vtable = m.vtable
             /\ n.allocated = m.allocated \ HeldBlock(m, o)
BY DestroyTargetSound DEF destroy

(* assign_functionoid_direct, from an rvalue, with a mover of any kind.    *)
LEMMA MoveSound ==
  ASSUME NEW m, NEW A, Sound(m, A), NEW s \in A, NEW d \in Objects \ A,
         Moveable # "na"
  PROVE  Moved(m, move_from(m, s, d), A, s, d, EmptyVtable)
<1>1. CASE Moveable = "trivial"
  BY <1>1, OneEmptyVtable, BitwiseMoveSound DEF move_from, move_to, Revtabled
<1>2. CASE Moveable # "trivial"
  <2>1. move_from(m, s, d)
          = Revtabled(m, move(m, s, d, m.vtable[s]), s, d, EmptyVtable)
    BY <1>2 DEF move_from, move_to, Revtabled
  <2> QED  BY <2>1, OneEmptyVtable, MoveTargetSound
<1> QED  BY <1>1, <1>2

(* The target of d in n is a copy of that of s in m, and those of A are    *)
(* what they are in m.                                                     *)
Copied(m, n, A, s, d) ==
  /\ SameTargets(m, n, A)
  /\ n.vtable[d] = m.vtable[s]
  /\ m.vtable[s] # EmptyVtable => TargetOf(n, d) = TargetOf(m, s)

(* assign_functionoid_direct, from an lvalue, where it clones. *)
LEMMA CopySound ==
  ASSUME NEW m, NEW A, Sound(m, A), NEW s \in A, NEW d \in Objects \ A,
         Copyable # "trivial", \E b \in Blocks : b \notin m.allocated
  PROVE  Sound(copy_from(m, s, d), A \cup {d}) /\ Copied(m, copy_from(m, s, d), A, s, d)
<1>1. copy_from(m, s, d) = Cloned(m, s, d)
  BY DEF copy_from, clone_slot, Cloned
<1> QED  BY <1>1, OneEmptyVtable, CloneSound DEF Copied

(* What an invocation leaves is still a target of the same type. *)
LEMMA InvokeSound ==
  ASSUME NEW m, NEW A, Sound(m, A), NEW c \in A, m.vtable[c] # EmptyVtable,
         NEW v \in Values
  PROVE  LET n == invoke(m, c, v)
         IN  /\ Sound(n, A) /\ SameTargets(m, n, A \ {c})
             /\ n.vtable = m.vtable
             /\ TargetOf(n, c) = [type |-> m.vtable[c], val |-> v]
             /\ SameBlock(m, c, n, c)
<1> DEFINE t == m.vtable[c]
           x == [type |-> t, val |-> v]
           n == invoke(m, c, v)
           Invoked == /\ Sound(n, A) /\ SameTargets(m, n, A \ {c})
                      /\ n.vtable = m.vtable /\ TargetOf(n, c) = x
                      /\ SameBlock(m, c, n, c)
<1> SUFFICES Invoked
  OBVIOUS
<1>1. /\ m \in MemoryType /\ A \subseteq Objects /\ c \in Objects /\ Exclusive(m, A)
      /\ m.faults \subseteq Tolerated /\ \A p \in A : Good(m, p)
  BY DEF Sound
<1>2. t \in Vtables /\ t \in Functors
  BY <1>1, OneEmptyVtable DEF Good
<1>3. x \in Images /\ x.type = t /\ x \in Words
  BY <1>2 DEF Images, Words
<1> HIDE DEF x, n
<1>4. CASE OnHeap(t)
  <2> DEFINE b == m.lo[c]
  <2>1. n = [m EXCEPT !.block[b] = x] /\ b \in m.allocated /\ b \in Blocks
    BY <1>1, <1>4 DEF invoke, Good, MemoryType, n, x
  <2>2. \A p \in A : OnHeap(m.vtable[p]) /\ m.lo[p] = b => p = c
    BY <1>1, <1>4 DEF Exclusive
  <2> HIDE DEF b
  <2>3. /\ n \in MemoryType /\ n.vtable = m.vtable /\ n.lo = m.lo /\ n.hi = m.hi
        /\ n.allocated = m.allocated /\ n.live = m.live /\ n.faults = m.faults
        /\ n.block[b] = x /\ \A d \in Blocks \ {b} : n.block[d] = m.block[d]
    BY <1>1, <1>3, <2>1 DEF MemoryType
  <2>4. ASSUME NEW p \in A PROVE Good(n, p)
    <3>1. Good(m, p)
      BY <1>1
    <3>2. CASE p = c
      BY <1>2, <1>3, <1>4, <2>1, <2>3, <3>1, <3>2 DEF Good, Manager, Target, Pointee, b
    <3>3. CASE p # c
      <4>1. OnHeap(m.vtable[p]) => m.lo[p] \in Blocks /\ m.lo[p] # b
        BY <1>1, <2>2, <3>1, <3>3 DEF Good, MemoryType
      <4> QED  BY <2>3, <3>1, <4>1 DEF Good, Manager, Target, Pointee
    <3> QED  BY <3>2, <3>3
  <2>5. Exclusive(n, A)
    BY <1>1, <2>3 DEF Exclusive
  <2>6. SameTargets(m, n, A \ {c})
    <3> SUFFICES ASSUME NEW p \in A \ {c}, m.vtable[p] \notin EmptyVtables
                 PROVE  TargetOf(n, p) = TargetOf(m, p)
      BY <2>3 DEF SameTargets, SameBlock
    <3>1. OnHeap(m.vtable[p]) => m.lo[p] \in Blocks /\ m.lo[p] # b
      BY <1>1, <2>2 DEF Good, MemoryType
    <3> QED  BY <2>3, <3>1 DEF TargetOf, Target, Pointee
  <2>7. TargetOf(n, c) = x /\ SameBlock(m, c, n, c)
    BY <1>4, <2>1, <2>3 DEF TargetOf, Target, Pointee, SameBlock, b
  <2> QED  BY <1>1, <2>3, <2>4, <2>5, <2>6, <2>7 DEF Sound
<1>5. CASE ~OnHeap(t)
  <2>1. n = store(m, c, x, t)
    BY <1>5 DEF invoke, n, x
  <2>2. /\ n \in MemoryType /\ n.vtable = m.vtable /\ n.block = m.block
        /\ n.allocated = m.allocated /\ n.live = m.live /\ n.faults = m.faults
        /\ n.lo[c] = x /\ (Wide(t) => n.hi[c] = x)
        /\ \A p \in Objects \ {c} : n.lo[p] = m.lo[p] /\ n.hi[p] = m.hi[p]
    BY <1>1, <1>3, <2>1, StoreWords DEF BufferOnly
  <2>3. ASSUME NEW p \in A PROVE Good(n, p)
    <3>1. Good(m, p)
      BY <1>1
    <3>2. CASE p = c
      BY <1>2, <1>3, <1>5, <2>2, <3>1, <3>2, ManagerType DEF Good, Manager, Target, Pointee
    <3>3. CASE p # c
      BY <1>1, <2>2, <3>1, <3>3 DEF Good, Manager, Target, Pointee
    <3> QED  BY <3>2, <3>3
  <2>4. Exclusive(n, A)
    BY <1>1, <1>5, <2>2 DEF Exclusive
  <2>5. SameTargets(m, n, A \ {c})
    BY <1>1, <2>2 DEF SameTargets, SameBlock, TargetOf, Target, Pointee
  <2>6. TargetOf(n, c) = x /\ SameBlock(m, c, n, c)
    BY <1>5, <2>2 DEF TargetOf, Target, SameBlock
  <2> QED  BY <1>1, <2>2, <2>3, <2>4, <2>5, <2>6 DEF Sound
<1> QED  BY <1>4, <1>5

-----------------------------------------------------------------------------
(* swap: three moves through tmp, which then holds nothing. *)

(* The targets of a and b of m have changed places in n. *)
Swapped(m, n, A, a, b) ==
  /\ SameTargets(m, n, A \ {a, b})
  /\ n.vtable[a] = m.vtable[b] /\ n.vtable[b] = m.vtable[a]
  /\ m.vtable[b] # EmptyVtable => TargetOf(n, a) = TargetOf(m, b)
  /\ m.vtable[a] # EmptyVtable => TargetOf(n, b) = TargetOf(m, a)
  /\ SameBlock(m, b, n, a) /\ SameBlock(m, a, n, b)
  /\ n.allocated = m.allocated

(* swap leaves its two operands owners of each other's targets, tmp        *)
(* nothing, and the blocks as they were.                                   *)
LEMMA SwapSound ==
  ASSUME NEW m, NEW A, Sound(m, A), NEW a \in A, NEW b \in A,
         SwapTmp \notin A, Moveable # "na", Destructor # "trivial"
  PROVE  Sound(swap(m, a, b), A) /\ Swapped(m, swap(m, a, b), A, a, b)
<1>1. CASE a = b
  BY <1>1 DEF swap, Swapped, SameTargets, SameBlock
<1>2. CASE a # b
  <2> DEFINE S  == SwapTmp
             m0 == construct_empty(m, S)
             m1 == move_from(m0, a, S)
             m2 == move_from(m1, b, a)
             m3 == move_from(m2, S, b)
             m4 == destroy(m3, S)
             m5 == retire(m4, S)
             A1 == (A \cup {S}) \ {a}
             A2 == (A \cup {S}) \ {b}
  <2>0. S \in Objects /\ a \in Objects /\ b \in Objects /\ S \notin A
    BY ObjectsAssumption DEF Sound
  <2>1. swap(m, a, b) = m5
    BY <1>2 DEF swap
  <2>2. a \in Objects \ A1 /\ b \in A1 /\ b \in Objects \ A2 /\ S \in A2
    BY <1>2, <2>0
  <2>3. A1 \cup {a} = A \cup {S} /\ A2 \cup {b} = A \cup {S} /\ (A \cup {S}) \ {S} = A
    BY <2>0
  <2> HIDE DEF S, m0, m1, m2, m3, m4, m5
  <2>4. Sound(m0, A) /\ SameTargets(m, m0, A) /\ m0.allocated = m.allocated
    BY <2>0, ConstructEmptySound DEF m0
  <2>5. Moved(m0, m1, A, a, S, EmptyVtable)
    BY <2>0, <2>4, MoveSound DEF m1
  <2>6. Sound(m1, A1)
    BY <2>5, OneEmptyVtable, DropEmpty DEF Moved
  <2> HIDE DEF A1
  <2>7. Moved(m1, m2, A1, b, a, EmptyVtable)
    BY <2>2, <2>6, MoveSound DEF m2
  <2>8. Sound(m2, A2)
    BY <2>2, <2>3, <2>7, OneEmptyVtable, DropEmpty DEF Moved
  <2> HIDE DEF A2
  <2>9. Moved(m2, m3, A2, S, b, EmptyVtable)
    BY <2>2, <2>8, MoveSound DEF m3
  <2>10. Sound(m3, A \cup {S}) /\ HeldBlock(m3, S) = {}
    BY <2>3, <2>9, OneEmptyVtable, ManagerType DEF HeldBlock, Moved
  <2>11. /\ Sound(m4, A) /\ SameTargets(m3, m4, A) /\ m4.allocated = m3.allocated
    <3>1. /\ Sound(m4, (A \cup {S}) \ {S}) /\ SameTargets(m3, m4, (A \cup {S}) \ {S})
          /\ m4.allocated = m3.allocated \ HeldBlock(m3, S)
      <4>1. Sound(m3, A \cup {S}) /\ S \in A \cup {S}
        BY <2>10
      <4> QED  BY <4>1, DestroySound DEF m4
    <3> QED  BY <2>3, <2>10, <3>1
  <2>12. Sound(m5, A) /\ SameTargets(m4, m5, A) /\ m5.allocated = m4.allocated
    BY <2>0, <2>11, RetireSound DEF m5
  <2>13. SameTargets(m3, m5, A)
    BY <2>11, <2>12, SameTargetsChain
  <2>14. SameTargets(m, m5, A \ {a, b})
    <3>1. SameTargets(m, m1, A \ {a, b})
      BY <2>4, <2>5, SameTargetsChain DEF Moved
    <3>2. SameTargets(m1, m2, A \ {a, b})
      BY <2>7 DEF SameTargets, Moved, A1
    <3>3. SameTargets(m2, m3, A \ {a, b})
      BY <2>0, <2>9 DEF SameTargets, Moved, A2
    <3>4. SameTargets(m, m2, A \ {a, b}) /\ SameTargets(m2, m5, A \ {a, b})
      BY <3>1, <3>2, <3>3, <2>13, SameTargetsChain
    <3> QED  BY <3>4, SameTargetsChain
  <2>15. /\ m5.vtable[a] = m.vtable[b] /\ SameBlock(m, b, m5, a)
         /\ m.vtable[b] # EmptyVtable => TargetOf(m5, a) = TargetOf(m, b)
    <3>1. /\ m1.vtable[b] = m.vtable[b] /\ SameBlock(m, b, m1, b)
          /\ m.vtable[b] # EmptyVtable => TargetOf(m1, b) = TargetOf(m, b)
      BY <1>2, <2>4, <2>5, OneEmptyVtable DEF SameTargets, SameBlock, Moved
    <3>2. /\ m2.vtable[a] = m1.vtable[b] /\ TargetOf(m2, a) = TargetOf(m1, b)
          /\ SameBlock(m1, b, m2, a)
      BY <2>7 DEF Moved
    <3>3. a \in A2 \ {S} /\ a \in A
      BY <1>2, <2>0 DEF A2
    <3>4. /\ m3.vtable[a] = m2.vtable[a] /\ SameBlock(m2, a, m3, a)
          /\ m2.vtable[a] # EmptyVtable => TargetOf(m3, a) = TargetOf(m2, a)
      BY <2>9, <3>3, OneEmptyVtable DEF SameTargets, Moved
    <3> QED  BY <2>13, <3>1, <3>2, <3>3, <3>4, OneEmptyVtable DEF SameTargets, SameBlock
  <2>16. /\ m5.vtable[b] = m.vtable[a] /\ SameBlock(m, a, m5, b)
         /\ m.vtable[a] # EmptyVtable => TargetOf(m5, b) = TargetOf(m, a)
    <3>1. /\ m1.vtable[S] = m.vtable[a] /\ SameBlock(m, a, m1, S)
          /\ m.vtable[a] # EmptyVtable => TargetOf(m1, S) = TargetOf(m, a)
      BY <2>4, <2>5, OneEmptyVtable DEF SameTargets, SameBlock, Moved
    <3>2. S \in A1 \ {b}
      BY <2>0 DEF A1
    <3>3. /\ m2.vtable[S] = m1.vtable[S] /\ SameBlock(m1, S, m2, S)
          /\ m1.vtable[S] # EmptyVtable => TargetOf(m2, S) = TargetOf(m1, S)
      BY <2>7, <3>2, OneEmptyVtable DEF SameTargets, Moved
    <3>4. /\ m3.vtable[b] = m2.vtable[S] /\ TargetOf(m3, b) = TargetOf(m2, S)
          /\ SameBlock(m2, S, m3, b)
      BY <2>9 DEF Moved
    <3> QED  BY <2>13, <3>1, <3>3, <3>4, OneEmptyVtable DEF SameTargets, SameBlock
  <2>17. m5.allocated = m.allocated
    BY <2>4, <2>5, <2>7, <2>9, <2>11, <2>12 DEF Moved
  <2> QED  BY <2>1, <2>12, <2>14, <2>15, <2>16, <2>17 DEF Swapped
<1> QED  BY <1>1, <1>2

-----------------------------------------------------------------------------
(* An assign or a clone that fails. *)

(* The bound on the heap leaves a block for what a call allocates. *)
LEMMA HeapBoundFresh ==
  ASSUME HeapBound
  PROVE  \E b \in Blocks : b \notin mem.allocated
<1>1. Cardinality({}) = 0
  BY FS_EmptySet
<1> QED  BY <1>1 DEF HeapBound

(* The target of o in n is x, and those of A are what they are in m.       *)
Stored(m, n, A, o, x) ==
  /\ SameTargets(m, n, A)
  /\ n.vtable[o] = x.type /\ TargetOf(n, o) = x

(* put, into an object that owns nothing, of a target the heap has room for*)
LEMMA PutSound ==
  ASSUME NEW m, NEW A, Sound(m, A), NEW o \in Objects \ A, NEW x \in Images,
         \E b \in Blocks : b \notin m.allocated
  PROVE  Sound(put(m, o, x), A \cup {o}) /\ Stored(m, put(m, o, x), A, o, x)
<1>1. x.type \in Words
  BY DEF Images, Words
<1> QED  BY <1>1, AssignSound DEF put, Stored

(* cleaner makes an empty owner of an object that owns nothing. *)
LEMMA CleanedSound ==
  ASSUME NEW m, NEW A, Sound(m, A), NEW o \in Objects \ A
  PROVE  LET n == cleaned(m, o)
         IN  /\ Sound(n, A \cup {o}) /\ SameTargets(m, n, A)
             /\ n.vtable[o] = EmptyVtable
BY OneEmptyVtable, EmptySound DEF cleaned

(* The facts about the constants that every action needs. *)
LEMMA TraitsFacts ==
  ASSUME ManagedTraits, Inv
  PROVE  /\ Copyable # "trivial" /\ Destructor # "trivial"
         /\ Moveable # "na"
         /\ Sound(mem, alive) /\ alive \subseteq Callables /\ Callables \subseteq Objects
         /\ SwapTmp \in Objects \ Callables /\ AssignTmp \in Objects \ Callables
         /\ SwapTmp # AssignTmp /\ SafeGenerics
         /\ \A c \in alive : mem.vtable[c] \in Vtables
BY ObjectsAssumption DEF ManagedTraits, Inv, Sound, Good

(* The default constructor.                                                *)
LEMMA DefaultConstructInv ==
  ASSUME ManagedTraits, Inv, NEW c \in Callables, DefaultConstruct(c)
  PROVE  Inv'
<1>1. Sound(mem', alive')
  BY TraitsFacts, ConstructEmptySound DEF DefaultConstruct
<1> QED  BY <1>1 DEF DefaultConstruct, Finish, Inv

(* callable( Functor && ), when the target is null, stored, cannot be      *)
(* stored, or the exception leaves a noexcept constructor.                 *)
LEMMA ConstructFromInv ==
  ASSUME ManagedTraits, Inv, HeapBound, NEW c \in Callables, NEW x \in Storable,
         NEW form \in Forms, ConstructFrom(c, x, form)
  PROVE  Inv'
<1> DEFINE m == debug_clear(mem, c)
<1>1. x \in Images /\ x.type \in Functors
  BY DEF Storable, Images
<1>2. c \in Objects \ alive
  BY TraitsFacts DEF ConstructFrom
<1>3. Sound(m, alive) /\ m.allocated = mem.allocated
  BY <1>2, TraitsFacts, ClearedSound
<1> HIDE DEF m
<1>4. CASE /\ mem' = construct_empty(mem, c)
           /\ alive' = alive \cup {c}
           /\ Finish("construct_from", "ok")
  BY <1>2, <1>4, TraitsFacts, ConstructEmptySound DEF Finish, Inv
<1>5. CASE /\ mem' = put(debug_clear(mem, c), c, x)
           /\ alive' = alive \cup {c}
           /\ Finish("construct_from", "ok")
  <2>1. Sound(mem', alive')
    BY <1>1, <1>2, <1>3, <1>5, HeapBoundFresh, PutSound DEF m
  <2> QED  BY <1>5, <2>1, TraitsFacts DEF Finish, Inv
<1>6. CASE /\ \E why \in AssignFailures(x.type, form) :
                mem' = retire(assign_failed(debug_clear(mem, c), c, x.type, why), c)
           /\ Finish("construct_from", "threw")
           /\ UNCHANGED alive
  <2>1. PICK why \in AssignFailures(x.type, form) :
               mem' = retire(assign_failed(m, c, x.type, why), c)
    BY <1>6 DEF m
  <2>2. Sound(assign_failed(m, c, x.type, why), alive)
    BY <1>1, <1>2, <1>3, <2>1, TraitsFacts, AssignFailedSound
  <2>3. Sound(mem', alive')
    BY <1>2, <1>6, <2>1, <2>2, RetireSound
  <2> QED  BY <1>6, <2>3, TraitsFacts DEF Finish, Inv
<1>7. CASE Terminate("construct_from")
  BY <1>7, TraitsFacts DEF Terminate, Finish, Inv
<1> QED  BY <1>4, <1>5, <1>6, <1>7 DEF ConstructFrom

(* The copy constructor, when cloning succeeds and when it throws.         *)
LEMMA CopyConstructInv ==
  ASSUME ManagedTraits, Inv, HeapBound, NEW c \in Callables, NEW s \in Callables,
         CopyConstruct(c, s)
  PROVE  Inv'
<1> DEFINE m == debug_clear(mem, c)
           t == mem.vtable[s]
<1>1. c \in Objects \ alive /\ s \in alive /\ t \in Vtables
  BY TraitsFacts DEF CopyConstruct
<1>2. Sound(m, alive) /\ m.allocated = mem.allocated /\ m.vtable = mem.vtable
  BY <1>1, TraitsFacts, ClearedSound
<1> HIDE DEF m
<1>3. CASE /\ mem' = copy_from(debug_clear(mem, c), s, c)
           /\ alive' = alive \cup {c}
           /\ Finish("copy_construct", "ok")
  <2>1. Sound(mem', alive')
    BY <1>1, <1>2, <1>3, TraitsFacts, HeapBoundFresh, CopySound DEF m
  <2> QED  BY <1>3, <2>1, TraitsFacts DEF Finish, Inv
<1>4. CASE /\ \E why \in CloneFailures(t) :
                mem' = retire(assign_failed(debug_clear(mem, c), c, t, why), c)
           /\ Finish("copy_construct", "threw")
           /\ UNCHANGED alive
  <2>1. PICK why \in CloneFailures(t) : mem' = retire(assign_failed(m, c, t, why), c)
    BY <1>4 DEF m
  <2>2. t \in Functors /\ why \in AssignFailures(t, "copy")
    BY <1>1, <2>1, TraitsFacts, OneEmptyVtable DEF CloneFailures
  <2>3. Sound(assign_failed(m, c, t, why), alive)
    BY <1>1, <1>2, <2>2, TraitsFacts, AssignFailedSound DEF Forms
  <2>4. Sound(mem', alive')
    BY <1>1, <1>4, <2>1, <2>3, RetireSound
  <2> QED  BY <1>4, <2>4, TraitsFacts DEF Finish, Inv
<1> QED  BY <1>3, <1>4 DEF CopyConstruct

(* The move constructor, when moving succeeds and when it terminates.      *)
LEMMA MoveConstructInv ==
  ASSUME ManagedTraits, Inv, NEW c \in Callables, NEW s \in Callables,
         MoveConstruct(c, s)
  PROVE  Inv'
<1>1. c \in Objects \ alive /\ s \in alive
  BY TraitsFacts DEF MoveConstruct
<1>2. CASE /\ mem' = move_from(debug_clear(mem, c), s, c)
           /\ alive' = alive \cup {c}
           /\ Finish("move_construct", "ok")
  <2>1. Sound(debug_clear(mem, c), alive)
    BY <1>1, TraitsFacts, ClearedSound
  <2>2. Sound(mem', alive')
    BY <1>1, <1>2, <2>1, TraitsFacts, MoveSound DEF Moved
  <2> QED  BY <1>2, <2>2, TraitsFacts DEF Finish, Inv
<1>3. CASE Terminate("move_construct")
  BY <1>3, TraitsFacts DEF Terminate, Finish, Inv
<1> QED  BY <1>2, <1>3 DEF MoveConstruct

(* The destructor.                                                         *)
LEMMA DestructInv ==
  ASSUME ManagedTraits, Inv, NEW c \in Callables, Destruct(c)
  PROVE  Inv'
<1>1. Sound(destroy(mem, c), alive \ {c})
  BY TraitsFacts, DestroySound DEF Destruct
<1>2. Sound(mem', alive')
  BY <1>1, TraitsFacts, RetireSound DEF Destruct
<1> QED  BY <1>2, TraitsFacts DEF Destruct, Finish, Inv

(* clear<false>, and the cleaner of a failed assignment: an object whose   *)
(* target has been destroyed gets the vtable of the empty handler.         *)
LEMMA ClearSound ==
  ASSUME NEW m, NEW A, Sound(m, A), NEW c \in A, Destructor # "trivial"
  PROVE  LET n == clear(m, c)
         IN  /\ Sound(n, A) /\ SameTargets(m, n, A \ {c})
             /\ n.vtable[c] = EmptyVtable
<1> DEFINE k == destroy(m, c)
           n == clear(m, c)
<1>1. Sound(k, A \ {c}) /\ SameTargets(m, k, A \ {c}) /\ c \in Objects \ (A \ {c})
  BY DestroySound DEF Sound
<1>2. (A \ {c}) \cup {c} = A
  OBVIOUS
<1>3. n = [k EXCEPT !.vtable[c] = EmptyVtable]
  BY DEF clear
<1> HIDE DEF k, n
<1>4. Sound(n, A) /\ SameTargets(k, n, A \ {c}) /\ n.vtable[c] = EmptyVtable
  BY <1>1, <1>2, <1>3, OneEmptyVtable, EmptySound
<1> QED  BY <1>1, <1>4, SameTargetsChain DEF n

(* Assignment of a functor: of a null one, the direct one, the one through *)
(* a tmp and swap, and the failures of both.                               *)
LEMMA AssignFunctorInv ==
  ASSUME ManagedTraits, Inv, HeapBound, NEW c \in Callables, NEW x \in Storable,
         NEW form \in Forms, NEW via \in {"assign", "operator="},
         AssignFunctor(c, x, form, via)
  PROVE  Inv'
<1> DEFINE T   == AssignTmp
           tmp == construct_empty(mem, T)
<1>1. x \in Images /\ x.type \in Functors
  BY DEF Storable, Images
<1>2. c \in alive /\ T \in Objects \ alive /\ T # SwapTmp /\ SwapTmp \notin alive
  BY TraitsFacts DEF AssignFunctor
<1>3. (alive \cup {T}) \ {T} = alive
  BY <1>2
(* T is an owner of nothing once it has been constructed empty. *)
<1>4. Sound(tmp, alive \cup {T}) /\ Sound(tmp, alive) /\ tmp.allocated = mem.allocated
  <2>1. Sound(tmp, alive \cup {T})
    BY <1>2, TraitsFacts, ConstructEmptySound
  <2>2. Sound(debug_clear(mem, T), alive) /\ debug_clear(mem, T).allocated = mem.allocated
    BY <1>2, TraitsFacts, ClearedSound
  <2>3. tmp.vtable[T] = EmptyVtable /\ tmp.allocated = mem.allocated
    BY <1>2, <2>2 DEF construct_empty, Sound, MemoryType
  <2> QED  BY <1>3, <2>1, <2>3, OneEmptyVtable, DropEmpty
<1> HIDE DEF tmp, T
<1>5. CASE /\ mem' = clear(mem, c)
           /\ Finish(via, "ok")
           /\ UNCHANGED alive
  BY <1>2, <1>5, TraitsFacts, ClearSound DEF Finish, Inv
<1>6. CASE /\ mem' = put(destroy(mem, c), c, x)
           /\ Finish(via, "ok")
           /\ UNCHANGED alive
  <2>1. /\ Sound(destroy(mem, c), alive \ {c})
        /\ destroy(mem, c).allocated \subseteq mem.allocated
    BY <1>2, TraitsFacts, DestroySound
  <2>2. c \in Objects \ (alive \ {c}) /\ (alive \ {c}) \cup {c} = alive
    BY <1>2, TraitsFacts
  <2>3. \E b \in Blocks : b \notin destroy(mem, c).allocated
    BY <2>1, HeapBoundFresh
  <2>4. Sound(mem', alive)
    BY <1>1, <1>6, <2>1, <2>2, <2>3, PutSound
  <2> QED  BY <1>6, <2>4, TraitsFacts DEF Finish, Inv
<1>7. CASE /\ mem' = LET n == swap(put(tmp, T, x), c, T)
                     IN  retire(destroy(n, T), T)
           /\ Finish(via, "ok")
           /\ UNCHANGED alive
  <2> DEFINE p == put(tmp, T, x)
             n == swap(p, c, T)
  <2>1. Sound(p, alive \cup {T})
    BY <1>1, <1>2, <1>4, HeapBoundFresh, PutSound
  <2> HIDE DEF p
  <2>2. SwapTmp \notin alive \cup {T}
    BY <1>2
  <2>3. Sound(n, alive \cup {T})
    BY <1>2, <2>1, <2>2, TraitsFacts, SwapSound
  <2>4. mem' = retire(destroy(n, T), T)
    BY <1>7 DEF p
  <2> HIDE DEF n
  <2>5. Sound(destroy(n, T), alive)
    BY <1>3, <2>3, TraitsFacts, DestroySound
  <2>6. Sound(mem', alive)
    BY <1>2, <2>4, <2>5, RetireSound
  <2> QED  BY <1>7, <2>6, TraitsFacts DEF Finish, Inv
<1>8. CASE /\ \E why \in AssignFailures(x.type, form) :
                LET n == assign_failed(tmp, T, x.type, why)
                IN  mem' = retire(destroy(n, T), T)
           /\ Finish(via, "threw")
           /\ UNCHANGED alive
  <2>1. PICK why \in AssignFailures(x.type, form) :
               mem' = retire(destroy(assign_failed(tmp, T, x.type, why), T), T)
    BY <1>8
  <2> DEFINE n == assign_failed(tmp, T, x.type, why)
             e == [n EXCEPT !.vtable[T] = EmptyVtable]
  <2>2. Sound(n, alive) /\ n.vtable = tmp.vtable
    BY <1>1, <1>2, <1>4, TraitsFacts, AssignFailedSound
  <2>3. tmp.vtable[T] = EmptyVtable
    <3>1. Sound(debug_clear(mem, T), alive)
      BY <1>2, TraitsFacts, ClearedSound
    <3> QED  BY <1>2, <3>1 DEF tmp, construct_empty, Sound, MemoryType
  <2>4. e = n
    BY <1>2, <2>2, <2>3 DEF Sound, MemoryType
  <2>5. Sound(n, alive \cup {T})
    BY <1>2, <2>2, <2>4, OneEmptyVtable, EmptySound
  <2>6. Sound(destroy(n, T), alive)
    BY <1>3, <2>5, TraitsFacts, DestroySound
  <2>7. Sound(mem', alive)
    BY <1>2, <2>1, <2>6, RetireSound
  <2> QED  BY <1>8, <2>7, TraitsFacts DEF Finish, Inv
<1>9. CASE Terminate(via)
  BY <1>9, TraitsFacts DEF Terminate, Finish, Inv
<1> QED  BY <1>5, <1>6, <1>7, <1>8, <1>9 DEF AssignFunctor, tmp, T

(* Copy assignment: to itself, from another callable, and when cloning     *)
(* throws after the old target has been destroyed.                         *)
LEMMA CopyAssignInv ==
  ASSUME ManagedTraits, Inv, HeapBound, NEW c \in Callables, NEW s \in Callables,
         NEW source \in {"const", "nonconst"}, CopyAssign(c, s, source)
  PROVE  Inv'
<1> DEFINE m == destroy(mem, c)
           t == mem.vtable[s]
<1>1. c \in alive /\ s \in alive /\ t \in Vtables /\ alive' = alive
  BY TraitsFacts DEF CopyAssign
<1>2. /\ Sound(m, alive \ {c}) /\ m.vtable = mem.vtable
      /\ \E b \in Blocks : b \notin m.allocated
  BY <1>1, TraitsFacts, DestroySound, HeapBoundFresh
<1>3. c \in Objects \ (alive \ {c}) /\ (alive \ {c}) \cup {c} = alive
  BY <1>1, TraitsFacts
<1> HIDE DEF m
<1>4. CASE SelfAssignGuard(c, s) /\ mem' = mem /\ Finish(CopyAssignment(source), "ok")
  BY <1>1, <1>4, TraitsFacts DEF Finish, Inv
<1>5. CASE /\ ~SelfAssignGuard(c, s) /\ mem' = copy_from(destroy(mem, c), s, c)
           /\ Finish(CopyAssignment(source), "ok")
  <2>1. s \in alive \ {c}
    BY <1>1, <1>5, TraitsFacts DEF SelfAssignGuard
  <2>2. Sound(mem', alive)
    BY <1>2, <1>3, <1>5, <2>1, TraitsFacts, CopySound DEF m
  <2> QED  BY <1>1, <1>5, <2>2, TraitsFacts DEF Finish, Inv
<1>6. CASE /\ \E why \in CloneFailures(t) :
                mem' = cleaned(assign_failed(destroy(mem, c), c, t, why), c)
           /\ Finish(CopyAssignment(source), "threw")
  <2>1. PICK why \in CloneFailures(t) : mem' = cleaned(assign_failed(m, c, t, why), c)
    BY <1>6 DEF m
  <2>2. t \in Functors /\ why \in AssignFailures(t, "copy")
    BY <1>1, <2>1, TraitsFacts, OneEmptyVtable DEF CloneFailures
  <2>3. Sound(assign_failed(m, c, t, why), alive \ {c})
    BY <1>2, <1>3, <2>2, TraitsFacts, AssignFailedSound DEF Forms
  <2>4. Sound(mem', alive)
    BY <1>3, <2>1, <2>3, CleanedSound
  <2> QED  BY <1>1, <1>6, <2>4, TraitsFacts DEF Finish, Inv
<1>7. CASE Terminate(CopyAssignment(source))
  BY <1>7, TraitsFacts DEF Terminate, Finish, Inv
<1> QED  BY <1>4, <1>5, <1>6, <1>7 DEF CopyAssign

(* Move assignment: to itself, from another callable, and when the move    *)
(* throws after the old target has been destroyed.                         *)
LEMMA MoveAssignInv ==
  ASSUME ManagedTraits, Inv, NEW c \in Callables, NEW s \in Callables, MoveAssign(c, s)
  PROVE  Inv'
<1> DEFINE m == destroy(mem, c)
           t == mem.vtable[s]
<1>1. c \in alive /\ s \in alive /\ t \in Vtables /\ alive' = alive
  BY TraitsFacts DEF MoveAssign
<1>2. Sound(m, alive \ {c}) /\ m.vtable = mem.vtable
  BY <1>1, TraitsFacts, DestroySound
<1>3. c \in Objects \ (alive \ {c}) /\ (alive \ {c}) \cup {c} = alive
  BY <1>1, TraitsFacts
<1> HIDE DEF m
<1>4. CASE SelfAssignGuard(c, s) /\ mem' = mem /\ Finish("move_assign", "ok")
  BY <1>1, <1>4, TraitsFacts DEF Finish, Inv
<1>5. CASE /\ ~SelfAssignGuard(c, s) /\ mem' = move_from(destroy(mem, c), s, c)
           /\ Finish("move_assign", "ok")
  <2>1. s \in alive \ {c}
    BY <1>1, <1>5, TraitsFacts DEF SelfAssignGuard
  <2>2. Moveable # "na"
    BY TraitsFacts
  <2>3. Sound(move_from(m, s, c), (alive \ {c}) \cup {c})
    BY <1>2, <1>3, <2>1, <2>2, MoveSound DEF Moved
  <2>4. Sound(mem', alive)
    BY <1>3, <1>5, <2>3 DEF m
  <2> QED  BY <1>1, <1>5, <2>4, TraitsFacts DEF Finish, Inv
<1>6. CASE /\ ~SelfAssignGuard(c, s)
           /\ \E why \in MoveFailures(t), v \in Values :
                mem' = store(cleaned(assign_failed(destroy(mem, c), c, t, why), c),
                             s, [type |-> t, val |-> v], t)
           /\ Finish("move_assign", "threw")
  <2>1. PICK why \in MoveFailures(t), v \in Values :
               mem' = store(cleaned(assign_failed(m, c, t, why), c),
                            s, [type |-> t, val |-> v], t)
    BY <1>6 DEF m
  <2> DEFINE f == assign_failed(m, c, t, why)
             n == cleaned(f, c)
  <2>2. functor_manager(t) = "small" /\ why \in AssignFailures(t, "move")
    BY <2>1, TraitsFacts DEF MoveFailures
  <2>3. t # EmptyVtable /\ t \in Functors /\ ~OnHeap(t)
    BY <1>1, <2>2, OneEmptyVtable, ManagerType
  <2>4. Sound(f, alive \ {c}) /\ f.vtable = mem.vtable
    BY <1>2, <1>3, <2>2, <2>3, TraitsFacts, AssignFailedSound DEF Forms
  <2> HIDE DEF f
  <2>5. Sound(n, alive)
    BY <1>3, <2>4, CleanedSound
  <2>6. s # c
    BY <1>6, TraitsFacts DEF SelfAssignGuard
  <2>7. n.vtable[s] = t
    BY <1>1, <1>3, <2>4, <2>6, TraitsFacts DEF cleaned, Sound, MemoryType
  <2> HIDE DEF n
  <2>8. mem' = invoke(n, s, v)
    BY <2>1, <2>2, <2>3, <2>7 DEF invoke, n, f
  <2>9. Sound(mem', alive)
    BY <1>1, <2>3, <2>5, <2>7, <2>8, InvokeSound
  <2> QED  BY <1>1, <1>6, <2>9, TraitsFacts DEF Finish, Inv
<1>7. Moveable # "na"
  BY TraitsFacts
<1> QED  BY <1>4, <1>5, <1>6, <1>7 DEF MoveAssign

(* clear() and assign( nullptr ).                                          *)
LEMMA ClearInv ==
  ASSUME ManagedTraits, Inv, NEW c \in Callables, Clear(c)
  PROVE  Inv'
BY TraitsFacts, ClearSound DEF Clear, Finish, Inv

(* swap(), of two callables or of one with itself.                         *)
LEMMA SwapInv ==
  ASSUME ManagedTraits, Inv, NEW a \in Callables, NEW b \in Callables, Swap(a, b)
  PROVE  Inv'
<1>1. a \in alive /\ b \in alive /\ SwapTmp \notin alive
  BY TraitsFacts DEF Swap
<1>2. CASE mem' = swap(mem, a, b) /\ Finish("swap", "ok") /\ UNCHANGED alive
  BY <1>1, <1>2, TraitsFacts, SwapSound DEF Finish, Inv
<1>3. CASE Terminate("swap")
  BY <1>3, TraitsFacts DEF Terminate, Finish, Inv
<1> QED  BY <1>2, <1>3 DEF Swap

(* operator(), of an empty callable and of one with a target.              *)
LEMMA InvokeInv ==
  ASSUME ManagedTraits, Inv, NEW c \in Callables, Invoke(c)
  PROVE  Inv'
<1>1. {"ok", Raised, EmptyInvocation} \subseteq {"ok", "threw", "terminated", "aborted"}
  BY DEF EmptyInvocation, Raised
<1>2. CASE Finish("invoke", EmptyInvocation) /\ UNCHANGED mem /\ UNCHANGED alive
  BY <1>1, <1>2, TraitsFacts DEF Finish, Inv
<1>3. CASE /\ mem.vtable[c] # EmptyVtable
           /\ \E v \in Values : mem' = invoke(mem, c, v)
           /\ \E result \in {"ok", Raised} : Finish("invoke", result)
           /\ UNCHANGED alive
  <2>1. PICK v \in Values : mem' = invoke(mem, c, v)
    BY <1>3
  <2>2. Sound(mem', alive)
    BY <1>3, <2>1, TraitsFacts, InvokeSound DEF Invoke
  <2>3. last'.result \in {"ok", Raised}
    BY <1>3 DEF Finish
  <2> QED  BY <1>1, <1>3, <2>2, <2>3, TraitsFacts DEF Inv
<1> QED  BY <1>2, <1>3 DEF Invoke

-----------------------------------------------------------------------------
(* The theorems. *)

(* Inv holds of the memory without objects the program starts with. *)
LEMMA InitInv == Init => Inv
<1> SUFFICES ASSUME Init PROVE Inv
  OBVIOUS
<1>1. Junk \in Words
  BY DEF Words
<1>2. mem \in MemoryType
  BY <1>1 DEF Init, NoObjects, MemoryType
<1> QED  BY <1>2 DEF Init, NoObjects, Inv, Sound, Exclusive

(* Every call keeps Inv, whatever its outcome. *)
LEMMA NextInv ==
  ASSUME ManagedTraits, Inv, [Next]_vars
  PROVE  Inv'
<1>1. CASE Next
  BY <1>1, DefaultConstructInv, ConstructFromInv, CopyConstructInv, MoveConstructInv,
     DestructInv, AssignFunctorInv, CopyAssignInv, MoveAssignInv, ClearInv, SwapInv,
     InvokeInv
  DEF Next, Step, Forms
<1>2. CASE UNCHANGED vars
  BY <1>2 DEF vars, Inv
<1> QED  BY <1>1, <1>2

(* Ownership: after any sequence of calls, with any outcomes, every        *)
(* callable that exists holds what its vtable says, every block in use has *)
(* exactly one owner and no functor lives outside an owner.                *)
THEOREM OwnershipInvariant ==
  ASSUME ManagedTraits
  PROVE  Spec => []Inv
BY InitInv, NextInv, PTL DEF Spec

(* What Inv says of each of the properties of CallableBase. *)
LEMMA InvImplies ==
  ASSUME Inv
  PROVE  TypeOK /\ NothingLeaked /\ BlocksOwnedOnce /\ LifetimesBalanced
           /\ TargetsIntact /\ NoFaults
<1>1. /\ mem \in MemoryType /\ Exclusive(mem, alive) /\ mem.faults \subseteq Tolerated
      /\ \A c \in alive : Good(mem, c)
  BY DEF Inv, Sound
<1>2. TypeOK
  BY <1>1 DEF Inv, TypeOK, Good
<1>3. NothingLeaked
  BY <1>1 DEF NothingLeaked, HeapHolders, Exclusive
<1>4. BlocksOwnedOnce
  BY <1>1 DEF BlocksOwnedOnce, HeapHolders, Exclusive, Good
<1>5. LifetimesBalanced
  BY SoundLifetimes DEF LifetimesBalanced, Manager, Inv
<1>6. TargetsIntact
  <2> SUFFICES ASSUME NEW c \in alive, mem.vtable[c] # EmptyVtable
               PROVE  LET t == mem.vtable[c]
                          x == Target(mem, c, t)
                      IN  /\ x \in Images /\ x.type = t
                          /\ Wide(t) => mem.hi[c] = x
                          /\ functor_manager(t) = "trivial_heap" => mem.hi[c] = t
    BY DEF TargetsIntact
  <2>1. Good(mem, c)
    BY <1>1
  <2>2. Wide(mem.vtable[c]) => Target(mem, c, mem.vtable[c]) = mem.lo[c]
    BY ManagerType DEF Target, OnHeap
  <2> QED  BY <2>1, <2>2, OneEmptyVtable DEF Good, Manager
<1>7. NoFaults
  BY <1>1 DEF NoFaults, Tolerated
<1> QED  BY <1>2, <1>3, <1>4, <1>5, <1>6, <1>7

(* Every variable has its type after any sequence of calls, and a callable *)
(* that exists has a vtable.                                               *)
THEOREM TypeCorrectness ==
  ASSUME ManagedTraits
  PROVE  Spec => []TypeOK
BY OwnershipInvariant, InvImplies, PTL

(* No sequence of calls, succeeding or failing, leaks a heap target. *)
THEOREM LeakFreedom ==
  ASSUME ManagedTraits
  PROVE  Spec => []NothingLeaked
BY OwnershipInvariant, InvImplies, PTL

(* No two callables own the same heap target, and none dangles. *)
THEOREM SingleOwnership ==
  ASSUME ManagedTraits
  PROVE  Spec => []BlocksOwnedOnce
BY OwnershipInvariant, InvImplies, PTL

(* Every functor that was constructed and not destroyed is the target of a *)
(* callable, and every target with a destructor was constructed.           *)
THEOREM LifetimeBalance ==
  ASSUME ManagedTraits
  PROVE  Spec => []LifetimesBalanced
BY OwnershipInvariant, InvImplies, PTL

(* The vtable pointer of a callable never disagrees with its buffer.       *)
THEOREM TargetIntegrity ==
  ASSUME ManagedTraits
  PROVE  Spec => []TargetsIntact
BY OwnershipInvariant, InvImplies, PTL

(* No call destroys, overwrites, reads or frees what it should not.        *)
THEOREM FaultFreedom ==
  ASSUME ManagedTraits
  PROVE  Spec => []NoFaults
BY OwnershipInvariant, InvImplies, PTL

-----------------------------------------------------------------------------
(* Moves and the heap. *)

(* move_from hands a block over and never takes one. *)
LEMMA MoveFromKeepsBlocks ==
  ASSUME NEW m, NEW A, Sound(m, A), NEW s \in A, NEW d \in Objects \ A,
         Moveable # "na"
  PROVE  move_from(m, s, d).allocated = m.allocated
<1>1. Moved(m, move_from(m, s, d), A, s, d, EmptyVtable)
  BY MoveSound
<1> QED  BY <1>1 DEF Moved

(* The step from one state to the next. *)
LEMMA MoveKeepsBlocks ==
  ASSUME ManagedTraits, Inv, Next
  PROVE  /\ last'.op \in {"move_construct", "swap"} => mem'.allocated = mem.allocated
         /\ last'.op = "move_assign" => mem'.allocated \subseteq mem.allocated
<1> DEFINE Keeps ==
      /\ last'.op \in {"move_construct", "swap"} => mem'.allocated = mem.allocated
      /\ last'.op = "move_assign" => mem'.allocated \subseteq mem.allocated
<1>1. ASSUME NEW c \in Callables, NEW s \in Callables, MoveConstruct(c, s)
      PROVE  Keeps
  <2>1. c \in Objects \ alive /\ s \in alive
    BY <1>1, TraitsFacts DEF MoveConstruct
  <2>2. CASE mem' = move_from(debug_clear(mem, c), s, c) /\ Finish("move_construct", "ok")
    <3> DEFINE m == debug_clear(mem, c)
    <3>1. Sound(m, alive) /\ m.allocated = mem.allocated
      BY <2>1, TraitsFacts, ClearedSound
    <3> HIDE DEF m
    <3>2. Moveable # "na"
      BY TraitsFacts
    <3>3. move_from(m, s, c).allocated = m.allocated
      BY <2>1, <3>1, <3>2, MoveFromKeepsBlocks
    <3>4. mem' = move_from(m, s, c)
      BY <2>2 DEF m
    <3>5. mem'.allocated = mem.allocated /\ last'.op = "move_construct"
      BY <2>2, <3>1, <3>3, <3>4 DEF Finish
    <3> QED  BY <3>5
  <2>3. CASE Terminate("move_construct")
    BY <2>3 DEF Terminate, Finish
  <2> QED  BY <1>1, <2>2, <2>3 DEF MoveConstruct
<1>2. ASSUME NEW a \in Callables, NEW b \in Callables, Swap(a, b)
      PROVE  Keeps
  <2>1. a \in alive /\ b \in alive /\ SwapTmp \notin alive
    BY <1>2, TraitsFacts DEF Swap
  <2>2. CASE mem' = swap(mem, a, b) /\ Finish("swap", "ok")
    <3>1. Swapped(mem, swap(mem, a, b), alive, a, b)
      BY <2>1, TraitsFacts, SwapSound
    <3> QED  BY <2>2, <3>1 DEF Finish, Swapped
  <2>3. CASE Terminate("swap")
    BY <2>3 DEF Terminate, Finish
  <2> QED  BY <1>2, <2>2, <2>3 DEF Swap
<1>3. ASSUME NEW c \in Callables, NEW s \in Callables, MoveAssign(c, s)
      PROVE  Keeps
  <2> DEFINE m == destroy(mem, c)
             t == mem.vtable[s]
  <2>1. c \in alive /\ s \in alive /\ t \in Vtables /\ last'.op = "move_assign"
    BY <1>3, TraitsFacts DEF MoveAssign, Finish
  <2>2. /\ Sound(m, alive \ {c}) /\ m.vtable = mem.vtable
        /\ m.allocated \subseteq mem.allocated
    <3>1. /\ Sound(m, alive \ {c}) /\ m.vtable = mem.vtable
          /\ m.allocated = mem.allocated \ HeldBlock(mem, c)
      BY <2>1, TraitsFacts, DestroySound
    <3> QED  BY <3>1
  <2>3. c \in Objects \ (alive \ {c}) /\ Moveable # "na"
    BY <2>1, TraitsFacts
  <2> HIDE DEF m
  <2>4. CASE SelfAssignGuard(c, s) /\ mem' = mem
    BY <2>1, <2>4
  <2>5. CASE ~SelfAssignGuard(c, s) /\ mem' = move_from(destroy(mem, c), s, c)
    <3>1. s \in alive \ {c}
      BY <2>1, <2>5, TraitsFacts DEF SelfAssignGuard
    <3>2. move_from(m, s, c).allocated = m.allocated
      BY <2>2, <2>3, <3>1, MoveFromKeepsBlocks
    <3>3. mem' = move_from(m, s, c)
      BY <2>5 DEF m
    <3> QED  BY <2>1, <2>2, <3>2, <3>3
  <2>6. CASE \E why \in MoveFailures(t), v \in Values :
               mem' = store(cleaned(assign_failed(destroy(mem, c), c, t, why), c),
                            s, [type |-> t, val |-> v], t)
    <3>1. PICK why \in MoveFailures(t), v \in Values :
                 mem' = store(cleaned(assign_failed(m, c, t, why), c),
                              s, [type |-> t, val |-> v], t)
      BY <2>6 DEF m
    <3> DEFINE f == assign_failed(m, c, t, why)
    <3>2. functor_manager(t) = "small" /\ why \in AssignFailures(t, "move")
      BY <2>3, <3>1 DEF MoveFailures
    <3>3. t \in Functors
      BY <2>1, <3>2, OneEmptyVtable, ManagerType
    <3>4. Sound(f, alive \ {c}) /\ f.allocated = m.allocated
      BY <2>2, <2>3, <3>2, <3>3, TraitsFacts, AssignFailedSound DEF Forms
    <3> HIDE DEF f
    <3>5. mem'.allocated = f.allocated
      BY <3>1, <3>4 DEF store, cleaned, Sound, MemoryType, f
    <3> QED  BY <2>1, <2>2, <3>4, <3>5
  <2> QED  BY <1>3, <2>3, <2>4, <2>5, <2>6 DEF MoveAssign
<1>4. ASSUME ~(\E c, s \in Callables : MoveConstruct(c, s)),
             ~(\E a, b \in Callables : Swap(a, b)),
             ~(\E c, s \in Callables : MoveAssign(c, s))
      PROVE  Keeps
  <2>1. last'.op \notin {"move_construct", "swap", "move_assign"}
    BY <1>4
    DEF Next, Step, DefaultConstruct, ConstructFrom, CopyConstruct, Destruct,
        AssignFunctor, CopyAssign, CopyAssignment, Clear, Invoke, Terminate, Finish
  <2> QED  BY <2>1
<1> QED  BY <1>1, <1>2, <1>3, <1>4

(* No move construction or swap ever allocates or frees a block, and a     *)
(* move assignment at most frees what its destination held.                *)
THEOREM MovesNeverAllocate ==
  ASSUME ManagedTraits
  PROVE  Spec => MovesKeepBlocks
<1>1. Inv /\ [Next]_vars =>
        [/\ last'.op \in {"move_construct", "swap"} => mem'.allocated = mem.allocated
         /\ last'.op = "move_assign" => mem'.allocated \subseteq mem.allocated]_vars
  BY MoveKeepsBlocks
<1> QED  BY <1>1, OwnershipInvariant, PTL DEF Spec, MovesKeepBlocks
=============================================================================
