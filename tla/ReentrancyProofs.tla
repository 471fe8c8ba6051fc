-------------------------- MODULE ReentrancyProofs --------------------------
(***************************************************************************)
(* Targets that call back: the inductive invariant behind the properties   *)
(* of Reentrancy, proved for any number of callables and any depth.        *)
(*                                                                         *)
(* While a destructor runs its object still owns the target that dies, so  *)
(* that the objects of the dying targets are owners next to the callables  *)
(* that exist, and ownership is never interrupted: what the destructor     *)
(* calls finds every target where it is.                                   *)
(***************************************************************************)
EXTENDS Reentrancy, CallableProofs, SequenceTheorems

(* The objects in the middle of a call that destroys their target. *)
Suspended == {f.obj : f \in Dying}

Owners == alive \cup Suspended

FrameType ==
  [op: {"invoke", "assign_const"} \cup InPlace,
   then: {"return", "clear", "put", "copy_from", "move_from", "retire"},
   obj: Objects, src: Objects, x: Images \cup {EmptyVtable},
   at: Objects \cup Blocks, type: Vtables]

(* The entries of the stack depend on those below them: a destructor may   *)
(* destroy or replace what it finds, but not what a call that has not      *)
(* returned was given, nor move a target that runs where it is.            *)
Ordered ==
  \A i, j \in 1 .. Len(stack) :
    i < j /\ stack[j] \in Dying =>
      /\ stack[i] \in Dying =>
           /\ stack[i].obj \notin {stack[j].obj, stack[j].src}
           /\ stack[j].then = "retire" => stack[i].src # stack[j].obj
      /\ stack[i] \in Calling /\ stack[j].then = "move_from" =>
           stack[i].at # stack[j].src

(* What the interrupted call of f will need when the destructor returns.   *)
Resumable(f) ==
  /\ f.obj \in alive \cup Tmps
  /\ f.obj \in alive => f.op \in InPlace
  /\ f.then # "return"
  /\ f.then # "retire" => f.obj \in alive
  /\ f.then = "put" => f.x \in Images
  /\ IF f.then \in {"copy_from", "move_from"} THEN f.src \in alive \ {f.obj}
     ELSE f.src = f.obj

(* The dying target of f is still the one its object holds in memory m.    *)
Holds(m, f) ==
  /\ f.type = m.vtable[f.obj] /\ HasDestructor(f.type)
  /\ f.at = functor_ptr(m, f.obj)

(* A running target is that of a callable that is not being replaced.      *)
Host(f, c) ==
  /\ c \in alive \ Suspended
  /\ mem.vtable[c] = f.type /\ f.type \in Functors
  /\ functor_ptr(mem, c) = f.at

MemoryInv ==
  /\ alive \subseteq Callables
  /\ Sound(mem, Owners)
  /\ \A t \in Tmps \ Suspended : mem.vtable[t] = Junk

StackInv == stack \in Seq(FrameType) /\ Len(stack) <= MaxDepth /\ Ordered

DyingInv == \A f \in Dying : Resumable(f) /\ Holds(mem, f)

CallingInv == \A f \in Calling : \E c \in Callables : Host(f, c)

ReentrancyInv == MemoryInv /\ StackInv /\ DyingInv /\ CallingInv

-----------------------------------------------------------------------------
(* The constants: the traits, the functors, the temporaries. *)

(* Copying goes through a manager; the other traits are assumed by         *)
(* Reentrancy itself, of whose functors no constructor throws.             *)
LEMMA ConstantFacts ==
  ASSUME Copyable # "trivial"
  PROVE  /\ ManagedTraits /\ SafeGenerics
         /\ Copyable # "trivial" /\ Destructor # "trivial" /\ Moveable # "na"
         /\ Callables \subseteq Objects /\ Tmps \subseteq Objects
         /\ Tmps \cap Callables = {}
         /\ SwapTmp \in Objects /\ SwapTmp \notin Callables \cup Tmps
         /\ Junk \notin Vtables
BY ReentrancyAssumption, ObjectsAssumption, TokensAssumption DEF ManagedTraits, SafeGenerics

(* Nothing that is cloned or moved fails in a constructor. *)
LEMMA NoConstructorThrows ==
  \A F \in Functors, form \in Forms : ~Throws(F, form)
BY ReentrancyAssumption DEF Throws

LEMMA NoMoveFails ==
  ASSUME NEW t \in Vtables
  PROVE  MoveFailures(t) = {}
<1>1. Moveable # "na"
  BY ReentrancyAssumption
<1>2. ASSUME functor_manager(t) = "small" PROVE AssignFailures(t, "move") = {}
  <2>1. t \in Functors
    BY <1>2, OneEmptyVtable, ManagerType
  <2> QED  BY <1>2, <2>1, NoConstructorThrows DEF AssignFailures, OnHeap, Forms
<1> QED  BY <1>1, <1>2 DEF MoveFailures

(* A destructor runs for targets of functors only. *)
LEMMA DestructorOfFunctor ==
  ASSUME NEW t \in Vtables, HasDestructor(t)
  PROVE  t \in Functors
BY OneEmptyVtable, ManagerType DEF HasDestructor

-----------------------------------------------------------------------------
(* Which vtable pointers a call writes. *)

LEMMA AssignVtable ==
  ASSUME NEW m \in MemoryType, NEW o, NEW x, NEW F \in Vtables, NEW size
  PROVE  assign(m, o, x, F, size).vtable = m.vtable
BY ManagerType DEF assign, ptr_assign, trivial_small_assign, small_assign, store,
   trivial_heap_assign, generic_assign, BeginLifetime, MemoryType, Managers

LEMMA DestroyVtable ==
  ASSUME NEW m \in MemoryType, NEW o, Destructor # "trivial"
  PROVE  destroy(m, o).vtable = m.vtable
BY ManagerType
DEF destroy, destroy_target, debug_clear_ptr, debug_clear, debug_clear_target,
    small_destroy, EndLifetime, trivial_heap_destroy, generic_destroy, deallocate, MemoryType, Managers

LEMMA AssignFailedVtable ==
  ASSUME NEW m \in MemoryType, NEW o, NEW F, NEW why
  PROVE  assign_failed(m, o, F, why).vtable = m.vtable
BY DEF assign_failed, small_assign_failed, generic_assign_failed, store, MemoryType

LEMMA CopyVtable ==
  ASSUME NEW m \in MemoryType, NEW s, NEW d, Copyable # "trivial",
         m.vtable[s] \in Vtables, NEW o \in Objects \ {d}
  PROVE  copy_from(m, s, d).vtable[o] = m.vtable[o]
<1> DEFINE n == [m EXCEPT !.faults = @ \cup ReadFault(m, s, m.vtable[s])]
<1>1. n.vtable = m.vtable
  BY DEF MemoryType
<1>2. clone(m, s, d, m.vtable[s]).vtable = m.vtable
  BY <1>1, ManagerType
  DEF clone, assign, ptr_assign, trivial_small_assign, small_assign, store,
      trivial_heap_assign, generic_assign, BeginLifetime, MemoryType, Managers
<1> HIDE DEF n
<1>3. clone_slot(m, s, d).vtable = m.vtable
  BY <1>2 DEF clone_slot
<1> QED  BY <1>3 DEF copy_from

LEMMA MoveVtable ==
  ASSUME NEW m \in MemoryType, NEW s, NEW d, Moveable # "na",
         m.vtable[s] \in Vtables, NEW o \in Objects \ {s, d}
  PROVE  move_from(m, s, d).vtable[o] = m.vtable[o]
<1> DEFINE t == m.vtable[s]
           n == [m EXCEPT !.faults = @ \cup If(s \notin m.live, "read_dead")]
<1>1. n.vtable = m.vtable /\ n.live = m.live
  BY DEF MemoryType
<1>2. small_move(m, s, d, t).vtable = m.vtable
  <2>1. small_assign(n, d, m.lo[s], t).vtable = n.vtable
    BY DEF small_assign, store, BeginLifetime, MemoryType
  <2>2. small_move(m, s, d, t) = small_destroy(small_assign(n, d, m.lo[s], t), s, t)
    BY DEF small_move
  <2>3. small_destroy(small_assign(n, d, m.lo[s], t), s, t).vtable
          = small_assign(n, d, m.lo[s], t).vtable
    BY DEF small_destroy, EndLifetime, debug_clear_target, debug_clear, debug_clear_ptr,
           small_assign, store, BeginLifetime, MemoryType
  <2> QED  BY <1>1, <2>1, <2>2, <2>3
<1> HIDE DEF n
<1>3. move(m, s, d, t).vtable = m.vtable
  BY <1>2, ManagerType
  DEF move, ptr_move, ptr_assign, debug_clear_ptr, trivial_small_move, heap_move,
      debug_clear, OnHeap, MemoryType, Managers
<1>4. bitwise(m, s, d, TRUE).vtable = m.vtable
  BY DEF bitwise, MemoryType
<1>5. move_to(m, s, d).vtable = m.vtable
  <2>1. \/ move_to(m, s, d) = bitwise(m, s, d, TRUE)
        \/ move_to(m, s, d) = move(m, s, d, t)
    BY DEF move_to
  <2> QED  BY <1>3, <1>4, <2>1
<1> DEFINE k == [move_to(m, s, d) EXCEPT !.vtable[d] = t]
<1>6. k.vtable[o] = m.vtable[o]
  BY <1>5
<1>7. move_from(m, s, d) = [k EXCEPT !.vtable[s] = EmptyVtable]
  BY DEF move_from
<1> HIDE DEF k
<1> QED  BY <1>6, <1>7

LEMMA PutVtable ==
  ASSUME NEW m \in MemoryType, NEW o, NEW x \in Images, NEW p \in Objects \ {o}
  PROVE  put(m, o, x).vtable[p] = m.vtable[p]
<1>1. assign(m, o, x, x.type, x.type).vtable = m.vtable
  BY AssignVtable DEF Images, Vtables
<1> QED  BY <1>1 DEF put

(* swap writes the vtable pointers of its operands and of its tmp.         *)
LEMMA SwapVtable ==
  ASSUME NEW m, NEW A, Sound(m, A), NEW a \in A, NEW b \in A,
         SwapTmp \notin A, Moveable # "na", Destructor # "trivial",
         NEW o \in Objects \ {a, b, SwapTmp}
  PROVE  swap(m, a, b).vtable[o] = m.vtable[o]
<1>1. CASE a = b
  BY <1>1 DEF swap
<1>2. CASE a # b
  <2> DEFINE S  == SwapTmp
             m0 == construct_empty(m, S)
             m1 == move_from(m0, a, S)
             m2 == move_from(m1, b, a)
             m3 == move_from(m2, S, b)
             m4 == destroy(m3, S)
             A1 == (A \cup {S}) \ {a}
             A2 == (A \cup {S}) \ {b}
  <2>0. S \in Objects /\ a \in Objects /\ b \in Objects /\ S \notin A
    BY ObjectsAssumption DEF Sound
  <2>1. swap(m, a, b) = retire(m4, S)
    BY <1>2 DEF swap
  <2>2. /\ a \in Objects \ A1 /\ b \in A1 /\ b \in Objects \ A2 /\ S \in A2
        /\ A1 \cup {a} = A \cup {S} /\ A2 \cup {b} = A \cup {S}
    BY <1>2, <2>0
  <2>3. m0.vtable[o] = m.vtable[o]
    BY <2>0 DEF construct_empty, debug_clear, Sound, MemoryType
  <2> HIDE DEF S, m0, m1, m2, m3, m4
  <2>4. Sound(m0, A)
    BY <2>0, ConstructEmptySound DEF m0
  <2>5. Moved(m0, m1, A, a, S, EmptyVtable)
    BY <2>0, <2>4, MoveSound DEF m1
  <2>6. Sound(m1, A1)
    BY <2>5, OneEmptyVtable, DropEmpty DEF Moved
  <2> HIDE DEF A1
  <2>7. Moved(m1, m2, A1, b, a, EmptyVtable)
    BY <2>2, <2>6, MoveSound DEF m2
  <2>8. Sound(m2, A2)
    BY <2>2, <2>7, OneEmptyVtable, DropEmpty DEF Moved
  <2> HIDE DEF A2
  <2>9. Moved(m2, m3, A2, S, b, EmptyVtable)
    BY <2>2, <2>8, MoveSound DEF m3
  <2>10. m1.vtable[o] = m0.vtable[o]
    BY <2>0, <2>4, MoveVtable DEF Sound, Good, S, m1
  <2>11. m2.vtable[o] = m1.vtable[o]
    BY <2>2, <2>6, MoveVtable DEF Sound, Good, m2
  <2>12. m3.vtable[o] = m2.vtable[o]
    BY <2>2, <2>8, MoveVtable DEF Sound, Good, S, m3
  <2>13. m3 \in MemoryType /\ m4 \in MemoryType /\ m4.vtable = m3.vtable
    <3>1. Sound(m3, A \cup {S}) /\ S \in A \cup {S}
      BY <2>2, <2>9 DEF Moved
    <3>2. Sound(m4, (A \cup {S}) \ {S}) /\ m4.vtable = m3.vtable
      BY <3>1, DestroySound DEF m4
    <3> QED  BY <3>1, <3>2 DEF Sound
  <2>14. retire(m4, S).vtable[o] = m4.vtable[o]
    BY <2>13 DEF retire, MemoryType, S
  <2> QED  BY <2>1, <2>3, <2>10, <2>11, <2>12, <2>13, <2>14
<1> QED  BY <1>1, <1>2

-----------------------------------------------------------------------------
(* The stack: what is pushed and what is popped. *)

LEMMA FramesType ==
  ASSUME stack \in Seq(FrameType)
  PROVE  /\ Len(stack) \in Nat
         /\ Frames = {stack[i] : i \in 1 .. Len(stack)}
         /\ \A f \in Frames : f \in FrameType
         /\ Dying \subseteq Frames /\ Calling \subseteq Frames
         /\ Calling \cap Dying = {} /\ Frames = Calling \cup Dying
BY DEF Frames, Dying, Calling

LEMMA PushFrame ==
  ASSUME stack \in Seq(FrameType), NEW f \in FrameType, stack' = Append(stack, f)
  PROVE  /\ stack' \in Seq(FrameType) /\ Len(stack') = Len(stack) + 1
         /\ \A i \in 1 .. Len(stack) : stack'[i] = stack[i]
         /\ stack'[Len(stack) + 1] = f
         /\ f.op = "invoke" => /\ Calling' = Calling \cup {f} /\ Dying' = Dying
                               /\ Suspended' = Suspended
         /\ f.op # "invoke" => /\ Calling' = Calling /\ Dying' = Dying \cup {f}
                               /\ Suspended' = Suspended \cup {f.obj}
<1>1. /\ stack' \in Seq(FrameType) /\ Len(stack') = Len(stack) + 1
      /\ \A i \in 1 .. Len(stack) : stack'[i] = stack[i]
      /\ stack'[Len(stack) + 1] = f
  BY AppendProperties
<1>2. Frames' = Frames \cup {f}
  <2>1. DOMAIN stack' = 1 .. (Len(stack) + 1) /\ DOMAIN stack = 1 .. Len(stack)
    BY <1>1
  <2>2. Len(stack) \in Nat
    OBVIOUS
  <2>3. DOMAIN stack' = DOMAIN stack \cup {Len(stack) + 1}
    BY <2>1, <2>2
  <2> QED  BY <1>1, <2>1, <2>3 DEF Frames
<1>3. f.op = "invoke" => Calling' = Calling \cup {f} /\ Dying' = Dying
  BY <1>2 DEF Calling, Dying
<1>4. f.op # "invoke" => Calling' = Calling /\ Dying' = Dying \cup {f}
  BY <1>2 DEF Calling, Dying
<1> QED  BY <1>1, <1>3, <1>4 DEF Suspended

LEMMA AllButLast ==
  ASSUME NEW S, NEW s \in Seq(S), s # <<>>
  PROVE  LET r == SubSeq(s, 1, Len(s) - 1)
         IN  /\ r \in Seq(S) /\ Len(r) = Len(s) - 1
             /\ \A i \in 1 .. Len(s) - 1 : r[i] = s[i]
<1> DEFINE k == Len(s) - 1
           r == SubSeq(s, 1, k)
<1>1. Len(s) \in Nat /\ Len(s) # 0 /\ k \in Nat /\ k - 1 + 1 = k
  OBVIOUS
<1>2. \A i \in 1 .. k : s[i] \in S
  BY <1>1
<1> HIDE DEF k
<1>3. /\ SubSeq(s, 1, k) \in Seq(S)
      /\ Len(SubSeq(s, 1, k)) = IF 1 <= k THEN k - 1 + 1 ELSE 0
      /\ \A i \in 1 .. k - 1 + 1 : SubSeq(s, 1, k)[i] = s[1 + i - 1]
  <2>1. 1 \in Int /\ k \in Int
    BY <1>1
  <2> QED  BY <1>2, <2>1, SubSeqProperties
<1>4. Len(r) = k
  BY <1>1, <1>3
<1>5. \A i \in 1 .. k : r[i] = s[i]
  BY <1>1, <1>3
<1> QED  BY <1>3, <1>4, <1>5 DEF k

(* The entry that is popped: what lies below it does not need what it ends.*)
LEMMA PopFrame ==
  ASSUME StackInv, stack # <<>>, stack' = SubSeq(stack, 1, Len(stack) - 1)
  PROVE  LET f == stack[Len(stack)] IN
         /\ f \in Frames
         /\ StackInv'
         /\ f \in Calling => /\ Calling' \subseteq Calling /\ Dying' = Dying
                             /\ Suspended' = Suspended
         /\ f \in Dying =>
              /\ Calling' = Calling /\ Suspended' = Suspended \ {f.obj}
              /\ \A g \in Dying' :
                   /\ g \in Dying /\ g.obj \notin {f.obj, f.src}
                   /\ f.then = "retire" => g.src # f.obj
              /\ \A g \in Calling : f.then = "move_from" => g.at # f.src
<1> DEFINE n == Len(stack)
           f == stack[n]
<1>1. /\ stack \in Seq(FrameType) /\ n \in Nat /\ n <= MaxDepth /\ n # 0
      /\ MaxDepth \in Nat
  BY ReentrancyAssumption DEF StackInv
<1>2. /\ stack' \in Seq(FrameType) /\ Len(stack') = n - 1
      /\ \A i \in 1 .. n - 1 : stack'[i] = stack[i]
  BY <1>1, AllButLast
<1>3. DOMAIN stack' = 1 .. n - 1 /\ DOMAIN stack = 1 .. n /\ n \in 1 .. n
  BY <1>1, <1>2
<1>4. 1 .. n = (1 .. n - 1) \cup {n}
  BY <1>1
<1>5. Frames = Frames' \cup {f}
  BY <1>2, <1>3, <1>4 DEF Frames
<1>6. \A g \in Frames' : \E i \in 1 .. n - 1 : g = stack[i] /\ i < n /\ i \in 1 .. n
  BY <1>1, <1>2, <1>3 DEF Frames
<1>7. Calling' = {g \in Frames' : g.op = "invoke"} /\ Dying' = {g \in Frames' : g.op # "invoke"}
  BY DEF Calling, Dying
<1>8. Ordered'
  <2> SUFFICES ASSUME NEW i \in 1 .. n - 1, NEW j \in 1 .. n - 1, i < j, stack[j] \in Dying'
               PROVE  /\ stack[i] \in Dying' =>
                           /\ stack[i].obj \notin {stack[j].obj, stack[j].src}
                           /\ stack[j].then = "retire" => stack[i].src # stack[j].obj
                      /\ stack[i] \in Calling' /\ stack[j].then = "move_from" =>
                           stack[i].at # stack[j].src
    BY <1>2 DEF Ordered
  <2>1. Dying' \subseteq Dying /\ Calling' \subseteq Calling
    BY <1>5, <1>7 DEF Calling, Dying
  <2>2. i \in 1 .. n /\ j \in 1 .. n
    BY <1>1
  <2> QED  BY <2>1, <2>2 DEF StackInv, Ordered
<1>9. StackInv'
  <2>1. n - 1 <= MaxDepth
    BY <1>1
  <2> QED  BY <1>2, <1>8, <2>1 DEF StackInv
<1>10. f \in Frames
  BY <1>5
<1>11. ASSUME f \in Calling
       PROVE  Calling' \subseteq Calling /\ Dying' = Dying /\ Suspended' = Suspended
  <2>1. f.op = "invoke"
    BY <1>11 DEF Calling
  <2>2. Calling' \subseteq Calling /\ Dying' = Dying
    BY <1>5, <2>1 DEF Calling, Dying
  <2> QED  BY <2>2 DEF Suspended
<1>12. ASSUME f \in Dying
       PROVE  /\ Calling' = Calling /\ Suspended' = Suspended \ {f.obj}
              /\ \A g \in Dying' :
                   /\ g \in Dying /\ g.obj \notin {f.obj, f.src}
                   /\ f.then = "retire" => g.src # f.obj
              /\ \A g \in Calling : f.then = "move_from" => g.at # f.src
  <2>1. f.op # "invoke"
    BY <1>12 DEF Dying
  <2>2. Calling' = Calling /\ Dying = Dying' \cup {f}
    BY <1>5, <2>1 DEF Calling, Dying
  <2>3. ASSUME NEW g \in Dying'
        PROVE  /\ g \in Dying /\ g.obj \notin {f.obj, f.src}
               /\ f.then = "retire" => g.src # f.obj
    <3>1. PICK i \in 1 .. n - 1 : g = stack[i] /\ i < n /\ i \in 1 .. n
      BY <1>6, <1>7
    <3>2. g \in Dying
      BY <2>2
    <3> QED  BY <1>3, <1>12, <3>1, <3>2 DEF StackInv, Ordered
  <2>4. ASSUME NEW g \in Calling, f.then = "move_from" PROVE g.at # f.src
    <3>1. g \in Frames'
      BY <1>5, <2>1 DEF Calling
    <3>2. PICK i \in 1 .. n - 1 : g = stack[i] /\ i < n /\ i \in 1 .. n
      BY <1>6, <3>1
    <3> QED  BY <1>3, <1>12, <2>4, <3>2 DEF StackInv, Ordered
  <2>5. Suspended' = Suspended \ {f.obj}
    BY <2>2, <2>3 DEF Suspended
  <2> QED  BY <2>2, <2>3, <2>4, <2>5
<1> QED  BY <1>9, <1>10, <1>11, <1>12

-----------------------------------------------------------------------------
(* There is a temporary and a block for every call. *)

LEMMA FewSuspended ==
  ASSUME StackInv
  PROVE  IsFiniteSet(Suspended) /\ Cardinality(Suspended) <= MaxDepth
<1> DEFINE n == Len(stack)
           I == {i \in 1 .. n : stack[i] \in Dying}
           h == [i \in I |-> stack[i].obj]
<1>1. n \in Nat /\ n <= MaxDepth /\ MaxDepth \in Nat
  BY ReentrancyAssumption DEF StackInv
<1>2. IsFiniteSet(1 .. n) /\ Cardinality(1 .. n) = n
  <2>1. 1 \in Int /\ n \in Int
    BY <1>1
  <2>2. /\ IsFiniteSet(1 .. n)
        /\ Cardinality(1 .. n) = IF 1 > n THEN 0 ELSE n - 1 + 1
    BY <2>1, FS_Interval
  <2> QED  BY <1>1, <2>2
<1>3. IsFiniteSet(I) /\ Cardinality(I) <= n
  BY <1>2, FS_Subset
<1>4. h \in Surjection(I, Suspended)
  BY <1>1, FramesType DEF StackInv, Surjection, Suspended, Frames, Dying
<1>5. IsFiniteSet(Suspended) /\ Cardinality(Suspended) <= Cardinality(I)
  BY <1>3, <1>4, FS_Surjection
<1> QED  BY <1>1, <1>3, <1>5, FS_CardinalityType

(* The local tmp of a safe actual_assign is not one that another call uses.*)
LEMMA FreeTmp ==
  ASSUME MemoryInv, StackInv
  PROVE  \E o \in Tmps : o \notin Suspended /\ mem.vtable[o] = Junk
<1>1. Suspended \in SUBSET Suspended /\ IsFiniteSet(Tmps) /\ Cardinality(Tmps) > MaxDepth
  BY ReentrancyAssumption
<1>2. ASSUME Tmps \subseteq Suspended PROVE FALSE
  <2>1. Cardinality(Tmps) <= Cardinality(Suspended)
    BY <1>2, FewSuspended, FS_Subset
  <2>2. Cardinality(Tmps) \in Nat /\ Cardinality(Suspended) \in Nat /\ MaxDepth \in Nat
    BY <1>1, FewSuspended, FS_CardinalityType, ReentrancyAssumption
  <2> QED  BY <1>1, <2>1, <2>2, FewSuspended
<1> QED  BY <1>2 DEF MemoryInv

(* Every block in use has an owner of its own. *)
LEMMA FreeBlock ==
  ASSUME MemoryInv, StackInv
  PROVE  \E b \in Blocks : b \notin mem.allocated
<1> SUFFICES ASSUME Blocks \subseteq mem.allocated PROVE FALSE
  OBVIOUS
<1> DEFINE Owner(b) == CHOOSE o \in Owners : OnHeap(mem.vtable[o]) /\ mem.lo[o] = b
           g == [b \in Blocks |-> Owner(b)]
<1>1. Exclusive(mem, Owners)
  BY DEF MemoryInv, Sound
<1>2. \A b \in Blocks : Owner(b) \in Owners /\ mem.lo[Owner(b)] = b
  BY <1>1 DEF Exclusive
<1>3. g \in [Blocks -> Owners]
  BY <1>2
<1>4. IsFiniteSet(Callables) /\ IsFiniteSet(Suspended) /\ IsFiniteSet(Blocks)
  BY FewSuspended, ReentrancyAssumption
<1>5. /\ Cardinality(Callables) \in Nat /\ Cardinality(Suspended) \in Nat
      /\ Cardinality(Blocks) \in Nat /\ MaxDepth \in Nat
  BY <1>4, FS_CardinalityType, ReentrancyAssumption
<1>6. /\ IsFiniteSet(Callables \cup Suspended)
      /\ Cardinality(Callables \cup Suspended) <= Cardinality(Callables) + Cardinality(Suspended)
  <2>1. /\ IsFiniteSet(Callables \cup Suspended)
        /\ Cardinality(Callables \cup Suspended)
             = Cardinality(Callables) + Cardinality(Suspended)
                 - Cardinality(Callables \cap Suspended)
    BY <1>4, FS_Union
  <2>2. Cardinality(Callables \cap Suspended) \in Nat
    <3>1. Callables \cap Suspended \in SUBSET Callables
      OBVIOUS
    <3>2. IsFiniteSet(Callables \cap Suspended)
      BY <1>4, <3>1, FS_Subset
    <3> QED  BY <3>2, FS_CardinalityType
  <2> QED  BY <1>5, <2>1, <2>2
<1>7. IsFiniteSet(Owners) /\ Cardinality(Owners) <= Cardinality(Callables \cup Suspended)
  <2>1. Owners \in SUBSET (Callables \cup Suspended)
    BY DEF Owners, MemoryInv
  <2> QED  BY <1>6, <2>1, FS_Subset
<1>8. Cardinality(Owners) < Cardinality(Blocks)
  <2>1. Cardinality(Owners) \in Nat /\ Cardinality(Callables \cup Suspended) \in Nat
    BY <1>6, <1>7, FS_CardinalityType
  <2>2. Cardinality(Blocks) > Cardinality(Callables) + MaxDepth
    BY ReentrancyAssumption
  <2> QED  BY <1>5, <1>6, <1>7, <2>1, <2>2, FewSuspended
<1> HIDE DEF Owner
<1>9. PICK x, y \in Blocks : x # y /\ g[x] = g[y]
  <2> HIDE DEF g
  <2> QED  BY <1>3, <1>4, <1>7, <1>8, FS_PigeonHole
<1> QED  BY <1>2, <1>9

-----------------------------------------------------------------------------
(* What follows the destructor, in a memory whose owners are A and no      *)
(* longer the object of f.                                                 *)

(* What happens after the destructor of f returned is what destroy does    *)
(* where there is no destructor to wait for.                               *)
LEMMA ReleasedIsDestroyed ==
  ASSUME Sound(mem, Owners), NEW f, f.obj \in Owners, Holds(mem, f)
  PROVE  released(mem, f) = destroy(mem, f.obj)
<1> DEFINE o == f.obj
<1>1. mem \in MemoryType /\ Good(mem, o) /\ o \in Objects /\ Destructor # "trivial"
  BY ReentrancyAssumption DEF Sound
<1>2. o \notin Blocks
  BY <1>1, Distinct
<1>3. CASE functor_manager(f.type) = "small"
  <2>1. f.at = o
    BY <1>3 DEF Holds, functor_ptr, OnHeap
  <2> QED  BY <1>1, <1>2, <1>3, <2>1
           DEF released, destroy, destroy_target, small_destroy, Holds
<1>4. CASE functor_manager(f.type) = "generic"
  <2>1. f.at = mem.lo[o] /\ f.at \in Blocks
    BY <1>1, <1>4 DEF Holds, functor_ptr, OnHeap, Good, MemoryType
  <2> QED  BY <1>1, <1>4, <2>1 DEF released, destroy, destroy_target, generic_destroy, Holds
<1> QED  BY <1>3, <1>4 DEF Holds, HasDestructor

(* Whom a call that resumes after f leaves as owners, and with what.       *)
Resumed(m, A, f) ==
  LET B == IF f.then = "move_from" THEN A \ {f.src} ELSE A
      d == f.obj
  IN
  /\ SameTargets(m, mem', B)
  /\ f.then = "retire" =>
       alive' = alive \ {d} /\ Sound(mem', A) /\ mem'.vtable[d] = Junk
  /\ f.then # "retire" => alive' = alive /\ Sound(mem', A \cup {d})
  /\ f.then = "move_from" =>
       mem'.vtable[d] = m.vtable[f.src] /\ SameBlock(m, f.src, mem', d)
  /\ \A o \in Objects \ (A \cup {d}) : mem'.vtable[o] = m.vtable[o]

LEMMA ResumeEffect ==
  ASSUME Copyable # "trivial", NEW m, NEW A, Sound(m, A),
         NEW f, f.obj \in Objects \ A,
         f.then = "put" => f.x \in Images,
         f.then \in {"copy_from", "move_from"} => f.src \in A,
         f.then \in {"put", "copy_from"} => \E b \in Blocks : b \notin m.allocated,
         Resume(m, f)
  PROVE  Resumed(m, A, f)
<1> DEFINE d == f.obj
           s == f.src
<1>1. /\ m \in MemoryType /\ A \subseteq Objects /\ d \in Objects \ A
      /\ Moveable # "na" /\ SafeGenerics
  BY ConstantFacts DEF Sound
<1>2. CASE /\ f.then = "clear"
           /\ mem' = [m EXCEPT !.vtable[f.obj] = EmptyVtable]
           /\ UNCHANGED alive
  <2>1. Sound(mem', A \cup {d}) /\ SameTargets(m, mem', A)
    BY <1>1, <1>2, OneEmptyVtable, EmptySound
  <2>2. \A o \in Objects \ (A \cup {d}) : mem'.vtable[o] = m.vtable[o]
    BY <1>1, <1>2 DEF MemoryType
  <2> QED  BY <1>2, <2>1, <2>2 DEF Resumed
<1>3. CASE /\ f.then = "put"
           /\ mem' = put(m, f.obj, f.x)
           /\ UNCHANGED alive
  <2>1. Sound(mem', A \cup {d}) /\ SameTargets(m, mem', A)
    BY <1>1, <1>3, PutSound DEF Stored
  <2>2. \A o \in Objects \ (A \cup {d}) : mem'.vtable[o] = m.vtable[o]
    BY <1>1, <1>3, PutVtable
  <2> QED  BY <1>3, <2>1, <2>2 DEF Resumed
<1>4. CASE /\ f.then = "copy_from"
           /\ mem' = copy_from(m, f.src, f.obj)
           /\ UNCHANGED alive
  <2>1. s \in A /\ m.vtable[s] \in Vtables
    BY <1>4 DEF Sound, Good
  <2>2. Sound(mem', A \cup {d}) /\ SameTargets(m, mem', A)
    BY <1>1, <1>4, <2>1, CopySound DEF Copied
  <2>3. \A o \in Objects \ (A \cup {d}) : mem'.vtable[o] = m.vtable[o]
    BY <1>1, <1>4, <2>1, CopyVtable
  <2> QED  BY <1>4, <2>2, <2>3 DEF Resumed
<1>5. CASE /\ f.then = "copy_from"
           /\ \E why \in CloneFailures(m.vtable[f.src]) :
                mem' = cleaned(assign_failed(m, f.obj, m.vtable[f.src], why), f.obj)
           /\ UNCHANGED alive
  <2> DEFINE t == m.vtable[s]
  <2>1. PICK why \in CloneFailures(t) : mem' = cleaned(assign_failed(m, d, t, why), d)
    BY <1>5
  <2>2. s \in A /\ t \in Vtables
    BY <1>5 DEF Sound, Good
  <2>3. t \in Functors /\ why \in AssignFailures(t, "copy") /\ "copy" \in Forms
    BY <2>1, <2>2, OneEmptyVtable DEF CloneFailures, Forms
  <2> DEFINE n == assign_failed(m, d, t, why)
  <2>4. Sound(n, A) /\ SameTargets(m, n, A) /\ n.vtable = m.vtable
    BY <1>1, <2>3, AssignFailedSound
  <2> HIDE DEF n
  <2>5. Sound(mem', A \cup {d}) /\ SameTargets(n, mem', A)
    BY <1>1, <2>1, <2>4, CleanedSound DEF n
  <2>6. SameTargets(m, mem', A)
    BY <2>4, <2>5, SameTargetsChain
  <2>7. \A o \in Objects \ (A \cup {d}) : mem'.vtable[o] = m.vtable[o]
    BY <1>1, <2>1, <2>4 DEF cleaned, Sound, MemoryType, n
  <2> QED  BY <1>5, <2>5, <2>6, <2>7 DEF Resumed
<1>6. CASE /\ f.then = "move_from"
           /\ mem' = move_from(m, f.src, f.obj)
           /\ UNCHANGED alive
  <2>1. s \in A /\ m.vtable[s] \in Vtables
    BY <1>6 DEF Sound, Good
  <2>2. Moved(m, mem', A, s, d, EmptyVtable)
    BY <1>1, <1>6, <2>1, MoveSound
  <2>3. \A o \in Objects \ (A \cup {d}) : mem'.vtable[o] = m.vtable[o]
    BY <1>1, <1>6, <2>1, MoveVtable
  <2> QED  BY <1>6, <2>2, <2>3 DEF Resumed, Moved
<1>7. CASE /\ f.then = "retire"
           /\ mem' = retire(m, f.obj)
           /\ alive' = alive \ {f.obj}
  <2>1. Sound(mem', A) /\ SameTargets(m, mem', A)
    BY <1>1, <1>7, RetireSound
  <2>2. mem'.vtable[d] = Junk /\ \A o \in Objects \ (A \cup {d}) : mem'.vtable[o] = m.vtable[o]
    BY <1>1, <1>7 DEF retire, MemoryType
  <2> QED  BY <1>7, <2>1, <2>2 DEF Resumed
<1> QED  BY <1>2, <1>3, <1>4, <1>5, <1>6, <1>7 DEF Resume

(* destroy, and what follows it. *)
LEMMA DestroyResumeEffect ==
  ASSUME Copyable # "trivial", NEW m, NEW O, Sound(m, O),
         NEW f, f.obj \in O,
         f.then = "put" => f.x \in Images,
         f.then \in {"copy_from", "move_from"} => f.src \in O \ {f.obj},
         f.then \in {"put", "copy_from"} => \E b \in Blocks : b \notin m.allocated,
         Resume(destroy(m, f.obj), f)
  PROVE  Resumed(m, O \ {f.obj}, f)
<1> DEFINE A == O \ {f.obj}
           n == destroy(m, f.obj)
<1>1. Destructor # "trivial" /\ f.obj \in Objects \ A /\ O \subseteq Objects
  BY ConstantFacts DEF Sound
<1>2. /\ Sound(n, A) /\ SameTargets(m, n, A) /\ n.vtable = m.vtable
      /\ n.allocated \subseteq m.allocated
  <2>1. /\ Sound(n, A) /\ SameTargets(m, n, A) /\ n.vtable = m.vtable
        /\ n.allocated = m.allocated \ HeldBlock(m, f.obj)
    BY <1>1, DestroySound
  <2> QED  BY <2>1
<1> HIDE DEF n
<1>3. Resumed(n, A, f)
  <2>1. /\ Resume(n, f)
        /\ f.then \in {"put", "copy_from"} => \E b \in Blocks : b \notin n.allocated
    BY <1>2 DEF n
  <2> QED  BY <1>1, <1>2, <2>1, ResumeEffect
<1>4. \A B : B \subseteq A /\ SameTargets(n, mem', B) => SameTargets(m, mem', B)
  BY <1>2, SameTargetsChain
<1>5. f.then = "move_from" /\ SameBlock(n, f.src, mem', f.obj) => SameBlock(m, f.src, mem', f.obj)
  BY <1>2 DEF SameTargets, SameBlock
<1> QED  BY <1>2, <1>3, <1>4, <1>5 DEF Resumed

-----------------------------------------------------------------------------
(* The target of f is gone and the interrupted call goes on.  No other     *)
(* dying target, and no running one, is disturbed.                         *)

LEMMA SamePlace ==
  ASSUME NEW m, NEW n, NEW c, NEW d,
         n.vtable[d] = m.vtable[c], SameBlock(m, c, n, d),
         c = d \/ OnHeap(m.vtable[c])
  PROVE  functor_ptr(n, d) = functor_ptr(m, c)
BY DEF SameBlock, functor_ptr

LEMMA ResumeKeeps ==
  ASSUME Copyable # "trivial", ReentrancyInv, NEW f \in FrameType, f.obj \in Owners,
         Resumable(f), Resume(destroy(mem, f.obj), f),
         Suspended' = Suspended \ {f.obj}, Calling' = Calling,
         \A g \in Dying' :
           /\ g \in Dying /\ g.obj \notin {f.obj, f.src}
           /\ f.then = "retire" => g.src # f.obj,
         \A g \in Calling : f.then = "move_from" => g.at # f.src,
         f.obj \in Suspended \/ ~IsRunning(f.obj)
  PROVE  MemoryInv' /\ DyingInv' /\ CallingInv'
<1> DEFINE d == f.obj
           s == f.src
           A == Owners \ {d}
           B == IF f.then = "move_from" THEN A \ {s} ELSE A
<1>1. /\ MemoryInv /\ StackInv /\ DyingInv /\ CallingInv
      /\ alive \subseteq Callables /\ Tmps \cap Callables = {} /\ Tmps \subseteq Objects
      /\ Sound(mem, Owners) /\ d \in Objects
  BY ConstantFacts DEF ReentrancyInv, MemoryInv, FrameType
<1>2. Resumed(mem, A, f)
  <2>1. f.then \in {"copy_from", "move_from"} => f.src \in A
    BY DEF Resumable, Owners
  <2>2. f.then = "put" => f.x \in Images
    BY DEF Resumable
  <2> QED  BY <1>1, <2>1, <2>2, FreeBlock, DestroyResumeEffect
<1>3. /\ SameTargets(mem, mem', B)
      /\ \A c \in B : functor_ptr(mem', c) = functor_ptr(mem, c)
      /\ \A c \in B : mem'.vtable[c] = mem.vtable[c]
  <2>1. SameTargets(mem, mem', B)
    BY <1>2 DEF Resumed
  <2> HIDE DEF B
  <2> QED  BY <2>1, SamePlace DEF SameTargets
<1>4. /\ f.then = "retire" => alive' = alive \ {d} /\ Owners' = A /\ mem'.vtable[d] = Junk
      /\ f.then # "retire" => alive' = alive /\ d \in alive /\ Owners' = A \cup {d}
      /\ Sound(mem', Owners')
  <2>1. CASE f.then = "retire"
    <3>1. alive' = alive \ {d} /\ Sound(mem', A) /\ mem'.vtable[d] = Junk
      BY <1>2, <2>1 DEF Resumed
    <3>2. Owners' = A
      BY <3>1 DEF Owners
    <3> QED  BY <2>1, <3>1, <3>2
  <2>2. CASE f.then # "retire"
    <3>1. alive' = alive /\ Sound(mem', A \cup {d}) /\ d \in alive
      BY <1>2, <2>2 DEF Resumed, Resumable
    <3>2. Owners' = A \cup {d}
      BY <3>1 DEF Owners
    <3> QED  BY <2>2, <3>1, <3>2
  <2> QED  BY <2>1, <2>2
<1>5. MemoryInv'
  <2>1. alive' \subseteq Callables
    BY <1>1, <1>4
  <2>2. ASSUME NEW t \in Tmps, t \notin Suspended' PROVE mem'.vtable[t] = Junk
    <3>1. CASE t = d
      BY <1>1, <1>4, <3>1
    <3>2. CASE t # d
      <4>1. t \in Objects \ (A \cup {d}) /\ mem.vtable[t] = Junk
        BY <1>1, <2>2, <3>2 DEF Owners, MemoryInv
      <4>2. mem'.vtable[t] = mem.vtable[t]
        BY <1>2, <4>1 DEF Resumed
      <4> QED  BY <4>1, <4>2
    <3> QED  BY <3>1, <3>2
  <2> QED  BY <1>4, <2>1, <2>2 DEF MemoryInv
<1>6. DyingInv'
  <2> SUFFICES ASSUME NEW g \in Dying' PROVE Resumable(g)' /\ Holds(mem', g)
    BY DEF DyingInv, Holds, functor_ptr
  <2>1. /\ g \in Dying /\ g.obj \notin {d, s} /\ g.obj \in Suspended
        /\ f.then = "retire" => g.src # d
    BY DEF Suspended
  <2>2. Resumable(g) /\ Holds(mem, g)
    BY <1>1, <2>1 DEF DyingInv
  <2>3. g.obj \in B
    BY <2>1 DEF Owners
  <2>4. Holds(mem', g)
    BY <1>3, <2>2, <2>3 DEF Holds
  <2>5. alive' \subseteq alive /\ (g.obj \in alive => g.obj \in alive')
    BY <1>4, <2>1
  <2>6. Resumable(g)'
    BY <1>4, <2>1, <2>2, <2>5 DEF Resumable
  <2> QED  BY <2>4, <2>6
<1>7. CallingInv'
  <2> SUFFICES ASSUME NEW g \in Calling PROVE \E c \in Callables : Host(g, c)'
    BY DEF CallingInv
  <2>1. PICK c \in Callables : Host(g, c)
    BY <1>1 DEF CallingInv
  <2>2. /\ c \in alive /\ c \notin Suspended /\ mem.vtable[c] = g.type
        /\ g.type \in Functors /\ functor_ptr(mem, c) = g.at
    BY <2>1 DEF Host
  <2>3. c # d
    BY <2>2, OneEmptyVtable DEF IsRunning, HasTarget
  <2>4. c \notin Suspended'
    BY <2>2
  <2>5. CASE f.then = "move_from" /\ c = s
    <3>1. /\ mem'.vtable[d] = mem.vtable[s] /\ SameBlock(mem, s, mem', d)
      BY <1>2, <2>5 DEF Resumed
    <3>2. OnHeap(mem.vtable[s])
      BY <2>2, <2>5 DEF functor_ptr
    <3>3. functor_ptr(mem', d) = g.at
      BY <2>2, <2>5, <3>1, <3>2, SamePlace
    <3>4. d \in alive' /\ d \notin Suspended' /\ d \in Callables
      BY <1>1, <1>4, <2>5
    <3> QED  BY <2>2, <2>5, <3>1, <3>3, <3>4 DEF Host, functor_ptr
  <2>6. CASE ~(f.then = "move_from" /\ c = s)
    <3>1. c \in B
      BY <2>2, <2>3, <2>6 DEF Owners
    <3>2. c \in alive'
      BY <1>4, <2>2, <2>3
    <3>3. functor_ptr(mem', c) = g.at /\ mem'.vtable[c] = g.type
      BY <1>3, <2>2, <3>1
    <3> QED  BY <2>2, <2>4, <3>2, <3>3 DEF Host, functor_ptr
  <2> QED  BY <2>5, <2>6
<1> QED  BY <1>5, <1>6, <1>7

-----------------------------------------------------------------------------
(* What the guards of a careful program mean. *)

(* The objects of dying targets are callables in the middle of a call, or  *)
(* temporaries: a callable the program may use is neither.                 *)
LEMMA MayUseFree ==
  ASSUME ReentrancyInv, NEW c
  PROVE  /\ MayUse(c) => c \in alive /\ c \notin Suspended
         /\ c \in Callables \ alive => c \notin Suspended
<1>1. \A g \in Dying : g.obj = c => c \in alive \cup Tmps /\ (c \in alive => g.op \in InPlace)
  BY DEF ReentrancyInv, DyingInv, Resumable
<1>2. Tmps \cap Callables = {}
  BY ReentrancyAssumption
<1> QED  BY <1>1, <1>2 DEF MayUse, Busy, Suspended

(* No target runs in the buffer of a callable that may be moved from. *)
LEMMA MayMoveFree ==
  ASSUME ReentrancyInv, NEW s, MayMove(s), NEW g \in Calling
  PROVE  g.at # s
<1> SUFFICES ASSUME g.at = s PROVE FALSE
  OBVIOUS
<1>1. s \in alive /\ alive \subseteq Callables /\ Sound(mem, Owners)
  BY DEF MayMove, MayUse, ReentrancyInv, MemoryInv
<1>2. PICK c \in Callables : Host(g, c)
  BY DEF ReentrancyInv, CallingInv
<1>3. c \in Owners /\ functor_ptr(mem, c) = s /\ mem.vtable[c] \in Functors
  BY <1>2 DEF Host, Owners
<1>4. ~OnHeap(mem.vtable[c])
  <2>1. s \in Objects /\ s \notin Blocks
    BY <1>1, ObjectsAssumption, Distinct
  <2>2. OnHeap(mem.vtable[c]) => mem.lo[c] \in Blocks
    BY <1>1, <1>3 DEF Sound, Good, MemoryType
  <2> QED  BY <1>3, <2>1, <2>2 DEF functor_ptr
<1>5. c = s
  BY <1>3, <1>4 DEF functor_ptr
<1> QED  BY <1>3, <1>4, <1>5, OneEmptyVtable DEF MayMove, IsRunning, HasTarget

(* The target of an owner has a type and a place. *)
LEMMA TargetPlace ==
  ASSUME NEW m, NEW O, Sound(m, O), NEW d \in O
  PROVE  /\ d \in Objects /\ m.vtable[d] \in Vtables
         /\ functor_ptr(m, d) \in Objects \cup Blocks
BY DEF Sound, Good, functor_ptr, MemoryType

-----------------------------------------------------------------------------
(* Calls that destroy a target where it is. *)

LEMMA PushKeepsStack ==
  ASSUME StackInv, NEW f \in FrameType, Len(stack) < MaxDepth,
         stack' = Append(stack, f),
         f.op # "invoke" =>
           /\ {f.obj, f.src} \cap Suspended = {}
           /\ f.then = "retire" => \A g \in Dying : g.src # f.obj
           /\ f.then = "move_from" => \A g \in Calling : g.at # f.src
  PROVE  StackInv'
<1> DEFINE n == Len(stack)
<1>1. /\ stack \in Seq(FrameType) /\ n \in Nat /\ n < MaxDepth /\ MaxDepth \in Nat
  BY ReentrancyAssumption DEF StackInv
<1>2. /\ stack' \in Seq(FrameType) /\ Len(stack') = n + 1
      /\ \A i \in 1 .. n : stack'[i] = stack[i]
      /\ stack'[n + 1] = f
  BY <1>1, PushFrame
<1>3. /\ f.op = "invoke" => Calling' = Calling \cup {f} /\ Dying' = Dying
      /\ f.op # "invoke" => Calling' = Calling /\ Dying' = Dying \cup {f}
  BY <1>1, PushFrame
<1>4. \A g \in Frames : (g \in Dying' <=> g \in Dying) /\ (g \in Calling' <=> g \in Calling)
  BY <1>3 DEF Dying, Calling
<1>5. \A i \in 1 .. n : stack[i] \in Frames
  BY <1>1, FramesType
<1>6. Ordered'
  <2> SUFFICES ASSUME NEW i \in 1 .. n + 1, NEW j \in 1 .. n + 1, i < j, stack'[j] \in Dying'
               PROVE  /\ stack'[i] \in Dying' =>
                           /\ stack'[i].obj \notin {stack'[j].obj, stack'[j].src}
                           /\ stack'[j].then = "retire" => stack'[i].src # stack'[j].obj
                      /\ stack'[i] \in Calling' /\ stack'[j].then = "move_from" =>
                           stack'[i].at # stack'[j].src
    BY <1>2 DEF Ordered
  <2>1. i \in 1 .. n /\ stack'[i] = stack[i] /\ stack[i] \in Frames
    BY <1>1, <1>2, <1>5
  <2>2. CASE j \in 1 .. n
    <3>1. stack'[j] = stack[j] /\ stack[j] \in Dying
      BY <1>2, <1>4, <1>5, <2>2
    <3> QED  BY <1>4, <2>1, <2>2, <3>1 DEF StackInv, Ordered
  <2>3. CASE j = n + 1
    <3>1. stack'[j] = f /\ f.op # "invoke"
      BY <1>2, <2>3 DEF Dying
    <3>2. stack[i] \in Dying => stack[i].obj \in Suspended
      BY DEF Suspended
    <3> QED  BY <1>4, <2>1, <3>1, <3>2
  <2>4. j \in 1 .. n \/ j = n + 1
    BY <1>1
  <2> QED  BY <2>2, <2>3, <2>4
<1> QED  BY <1>1, <1>2, <1>6 DEF StackInv

(* destroy() of the target of a callable the program may replace: what     *)
(* follows does so at once, or the callable is suspended until then.       *)
LEMMA DestroyKeeps ==
  ASSUME Copyable # "trivial", ReentrancyInv, NEW c, MayReplace(c), NEW s \in alive,
         s \notin Suspended, NEW x \in Images \cup {EmptyVtable}, NEW op \in InPlace,
         NEW then \in {"clear", "put", "copy_from", "move_from", "retire"},
         then = "put" => x \in Images,
         then \in {"copy_from", "move_from"} <=> s # c,
         then = "retire" => \A g \in Dying : g.src # c,
         then = "move_from" => MayMove(s),
         Destroy(mem, Frame(mem, op, then, c, s, x))
  PROVE  ReentrancyInv'
<1> DEFINE f == Frame(mem, op, then, c, s, x)
<1>1. /\ MemoryInv /\ StackInv /\ DyingInv /\ CallingInv /\ Sound(mem, Owners)
      /\ c \in alive /\ c \notin Suspended /\ ~IsRunning(c) /\ c \in Owners
      /\ s \in Objects
  BY MayUseFree, ConstantFacts DEF MayReplace, Owners, ReentrancyInv, MemoryInv
<1>2. /\ f \in FrameType /\ f.op \in InPlace /\ f.op # "invoke" /\ f.then = then
      /\ f.obj = c /\ f.src = s /\ f.x = x
      /\ HasDestructor(mem.vtable[c]) => Holds(mem, f)
  <2>1. mem.vtable[c] \in Vtables /\ functor_ptr(mem, c) \in Objects \cup Blocks
    BY <1>1, TargetPlace
  <2>2. f \in FrameType
    BY <1>1, <2>1, ConstantFacts DEF Frame, FrameType, MemoryInv, InPlace
  <2> QED  BY <2>2 DEF Frame, Holds, InPlace
<1>3. Destroy(mem, f)
  OBVIOUS
<1> HIDE DEF f
<1>4. Resumable(f)
  BY <1>1, <1>2 DEF Resumable
<1>5. f.then = "move_from" => \A g \in Calling : g.at # f.src
  BY <1>2, MayMoveFree
<1>6. \A g \in Dying : g.obj \in Suspended
  BY DEF Suspended
<1>7. CASE Resume(destroy(mem, f.obj), f) /\ UNCHANGED stack
  <2>1. Dying' = Dying /\ Calling' = Calling /\ Suspended' = Suspended /\ StackInv'
    BY <1>1, <1>7 DEF Dying, Calling, Frames, Suspended, StackInv, Ordered
  <2>2. MemoryInv' /\ DyingInv' /\ CallingInv'
    BY <1>1, <1>2, <1>4, <1>5, <1>6, <1>7, <2>1, ResumeKeeps
  <2> QED  BY <2>1, <2>2 DEF ReentrancyInv
<1>8. CASE /\ HasDestructor(mem.vtable[f.obj])
           /\ Len(stack) < MaxDepth
           /\ mem' = mem
           /\ stack' = Append(stack, f)
           /\ UNCHANGED alive
  <2>1. StackInv'
    BY <1>1, <1>2, <1>5, <1>8, PushKeepsStack
  <2>2. Calling' = Calling /\ Dying' = Dying \cup {f} /\ Suspended' = Suspended \cup {c}
    BY <1>1, <1>2, <1>8, PushFrame DEF StackInv
  <2>3. Owners' = Owners
    BY <1>1, <1>8, <2>2 DEF Owners
  <2>4. MemoryInv'
    BY <1>1, <1>8, <2>2, <2>3 DEF MemoryInv
  <2>5. DyingInv'
    <3> SUFFICES ASSUME NEW g \in Dying' PROVE Resumable(g)' /\ Holds(mem', g)
      BY DEF DyingInv, Holds, functor_ptr
    <3>1. Resumable(g) /\ Holds(mem, g)
      BY <1>1, <1>2, <1>4, <1>8, <2>2 DEF DyingInv
    <3> QED  BY <1>8, <3>1 DEF Resumable, Holds
  <2>6. CallingInv'
    <3> SUFFICES ASSUME NEW g \in Calling PROVE \E d \in Callables : Host(g, d)'
      BY <2>2 DEF CallingInv
    <3>1. PICK d \in Callables : Host(g, d)
      BY <1>1 DEF CallingInv
    <3>2. d # c
      BY <1>1, <3>1, OneEmptyVtable DEF Host, IsRunning, HasTarget
    <3> QED  BY <1>8, <2>2, <3>1, <3>2 DEF Host, functor_ptr
  <2> QED  BY <2>1, <2>4, <2>5, <2>6 DEF ReentrancyInv
<1> QED  BY <1>3, <1>7, <1>8 DEF Destroy

LEMMA UnchangedKeeps ==
  ASSUME ReentrancyInv, UNCHANGED <<mem, alive, stack>>
  PROVE  ReentrancyInv'
<1>1. /\ Calling' = Calling /\ Dying' = Dying /\ Suspended' = Suspended
      /\ Owners' = Owners /\ Ordered' = Ordered
  BY DEF Calling, Dying, Frames, Suspended, Owners, Ordered
<1> QED  BY <1>1
         DEF ReentrancyInv, MemoryInv, StackInv, DyingInv, CallingInv, Resumable, Holds,
             Host, functor_ptr

LEMMA DestructKeeps ==
  ASSUME Copyable # "trivial", ReentrancyInv, NEW c \in Callables, DestructR(c)
  PROVE  ReentrancyInv'
<1>1. /\ MayReplace(c) /\ c \in alive /\ c \notin Suspended
      /\ \A g \in Dying : g.src # c
      /\ Destroy(mem, Frame(mem, "destruct", "retire", c, c, EmptyVtable))
  BY MayUseFree DEF DestructR, MayDestruct, MayReplace
<1>2. "destruct" \in InPlace
  BY DEF InPlace
<1> QED  BY <1>1, <1>2, DestroyKeeps

LEMMA ClearDestroyKeeps ==
  ASSUME Copyable # "trivial", ReentrancyInv, NEW c, MayReplace(c),
         Destroy(mem, Frame(mem, "clear", "clear", c, c, EmptyVtable))
  PROVE  ReentrancyInv'
<1>1. c \in alive /\ c \notin Suspended
  BY MayUseFree DEF MayReplace
<1>2. "clear" \in InPlace
  BY DEF InPlace
<1> QED  BY <1>1, <1>2, DestroyKeeps

(* Copy and move assignment look at their source when the destructor of    *)
(* the target they replace has returned.                                   *)
LEMMA CopyAssignKeeps ==
  ASSUME Copyable # "trivial", ReentrancyInv, NEW c \in Callables, NEW s \in Callables,
         CopyAssignR(c, s)
  PROVE  ReentrancyInv'
<1>1. /\ MayReplace(c) /\ s \in alive /\ s \notin Suspended
  BY MayUseFree DEF CopyAssignR
<1>2. CASE UNCHANGED <<mem, alive, stack>>
  BY <1>2, UnchangedKeeps
<1>3. CASE /\ ~SelfAssignGuard(c, s)
           /\ Destroy(mem, Frame(mem, "copy_assign", "copy_from", c, s, EmptyVtable))
  <2>1. s # c /\ "copy_assign" \in InPlace
    BY <1>3, ConstantFacts DEF SelfAssignGuard, InPlace
  <2> QED  BY <1>1, <1>3, <2>1, DestroyKeeps
<1> QED  BY <1>2, <1>3 DEF CopyAssignR

LEMMA MoveAssignKeeps ==
  ASSUME Copyable # "trivial", ReentrancyInv, NEW c \in Callables, NEW s \in Callables,
         MoveAssignR(c, s)
  PROVE  ReentrancyInv'
<1>1. /\ MayReplace(c) /\ MayMove(s) /\ s \in alive /\ s \notin Suspended
  BY MayUseFree DEF MoveAssignR, MayMove
<1>2. CASE UNCHANGED <<mem, alive, stack>>
  BY <1>2, UnchangedKeeps
<1>3. CASE /\ ~SelfAssignGuard(c, s)
           /\ Destroy(mem, Frame(mem, "move_assign", "move_from", c, s, EmptyVtable))
  <2>1. s # c /\ "move_assign" \in InPlace
    BY <1>3, ConstantFacts DEF SelfAssignGuard, InPlace
  <2> QED  BY <1>1, <1>3, <2>1, DestroyKeeps
<1> QED  BY <1>2, <1>3 DEF MoveAssignR

(* The destructor of the innermost target returns. *)
LEMMA DestructorReturnsKeeps ==
  ASSUME Copyable # "trivial", ReentrancyInv, DestructorReturns
  PROVE  ReentrancyInv'
<1> DEFINE f == stack[Len(stack)]
<1>1. /\ StackInv /\ stack # <<>> /\ f \in Dying /\ Resume(released(mem, f), f)
      /\ stack' = SubSeq(stack, 1, Len(stack) - 1)
  BY DEF DestructorReturns, ReentrancyInv
<1>2. /\ StackInv' /\ f \in Frames
      /\ Calling' = Calling /\ Suspended' = Suspended \ {f.obj}
      /\ \A g \in Dying' :
           /\ g \in Dying /\ g.obj \notin {f.obj, f.src}
           /\ f.then = "retire" => g.src # f.obj
      /\ \A g \in Calling : f.then = "move_from" => g.at # f.src
  BY <1>1, PopFrame
<1> HIDE DEF f
<1>3. /\ Resumable(f) /\ Holds(mem, f) /\ f \in FrameType
      /\ f.obj \in Suspended /\ f.obj \in Owners /\ Sound(mem, Owners)
  BY <1>1, <1>2, FramesType DEF ReentrancyInv, StackInv, DyingInv, MemoryInv, Suspended, Owners
<1>4. Resume(destroy(mem, f.obj), f)
  <2>1. released(mem, f) = destroy(mem, f.obj)
    BY <1>3, ReleasedIsDestroyed
  <2> QED  BY <1>1, <2>1
<1>5. MemoryInv' /\ DyingInv' /\ CallingInv'
  BY <1>2, <1>3, <1>4, ResumeKeeps
<1> QED  BY <1>2, <1>5 DEF ReentrancyInv

-----------------------------------------------------------------------------
(* Calls that destroy nothing. *)

LEMMA InvokeKeeps ==
  ASSUME ReentrancyInv, NEW c \in Callables, InvokeR(c)
  PROVE  ReentrancyInv'
<1> DEFINE f == Frame(mem, "invoke", "return", c, c, EmptyVtable)
<1>1. /\ MemoryInv /\ StackInv /\ DyingInv /\ CallingInv
      /\ c \in alive /\ c \notin Suspended /\ mem.vtable[c] # EmptyVtable
      /\ Len(stack) < MaxDepth /\ stack' = Append(stack, f) /\ mem' = mem /\ alive' = alive
  BY MayUseFree DEF InvokeR, HasTarget, ReentrancyInv
<1>2. /\ mem \in MemoryType /\ Good(mem, c) /\ c \in Objects
      /\ mem.vtable[c] \in Functors /\ functor_ptr(mem, c) \in Objects \cup Blocks
  <2>1. mem \in MemoryType /\ Good(mem, c) /\ c \in Objects
    BY <1>1 DEF MemoryInv, Sound, Owners
  <2> QED  BY <1>1, <2>1, OneEmptyVtable DEF Good, functor_ptr, MemoryType
<1>3. f \in FrameType /\ f.op = "invoke" /\ f.type = mem.vtable[c] /\ f.at = functor_ptr(mem, c)
  BY <1>2, OneEmptyVtable DEF Frame, FrameType, Vtables
<1> HIDE DEF f
<1>4. Calling' = Calling \cup {f} /\ Dying' = Dying /\ Suspended' = Suspended
  BY <1>1, <1>3, PushFrame DEF StackInv
<1>5. StackInv'
  BY <1>1, <1>3, PushKeepsStack
<1>6. MemoryInv'
  BY <1>1, <1>4 DEF MemoryInv, Owners
<1>7. DyingInv'
  BY <1>1, <1>4 DEF DyingInv, Resumable, Holds, functor_ptr
<1>8. CallingInv'
  <2> SUFFICES ASSUME NEW g \in Calling' PROVE \E d \in Callables : Host(g, d)'
    BY DEF CallingInv
  <2>1. \E d \in Callables : Host(g, d)
    <3>1. CASE g \in Calling
      BY <1>1, <3>1 DEF CallingInv
    <3>2. CASE g = f
      BY <1>1, <1>2, <1>3, <3>2 DEF Host
    <3> QED  BY <1>4, <3>1, <3>2
  <2> QED  BY <1>1, <1>4, <2>1 DEF Host, functor_ptr
<1> QED  BY <1>5, <1>6, <1>7, <1>8 DEF ReentrancyInv

LEMMA CallReturnsKeeps ==
  ASSUME ReentrancyInv, CallReturns
  PROVE  ReentrancyInv'
<1> DEFINE f == stack[Len(stack)]
<1>1. /\ MemoryInv /\ StackInv /\ DyingInv /\ CallingInv
      /\ stack # <<>> /\ f \in Calling /\ mem' = mem /\ alive' = alive
      /\ stack' = SubSeq(stack, 1, Len(stack) - 1)
  BY DEF CallReturns, ReentrancyInv
<1>2. /\ StackInv' /\ Calling' \subseteq Calling /\ Dying' = Dying
      /\ Suspended' = Suspended
  BY <1>1, PopFrame
<1> HIDE DEF f
<1>3. MemoryInv'
  BY <1>1, <1>2 DEF MemoryInv, Owners
<1>4. DyingInv'
  BY <1>1, <1>2 DEF DyingInv, Resumable, Holds, functor_ptr
<1>5. CallingInv'
  BY <1>1, <1>2 DEF CallingInv, Host, functor_ptr
<1> QED  BY <1>2, <1>3, <1>4, <1>5 DEF ReentrancyInv

(* Who dies and who runs in mem stays where it is in mem', or a running    *)
(* target has changed hands together with its block.                       *)
Undisturbed(B) ==
  /\ \A o \in Suspended :
       mem'.vtable[o] = mem.vtable[o] /\ functor_ptr(mem', o) = functor_ptr(mem, o)
  /\ \A c \in alive \ Suspended :
       IsRunning(c) =>
         \E d \in B \ Suspended :
           mem'.vtable[d] = mem.vtable[c] /\ functor_ptr(mem', d) = functor_ptr(mem, c)

(* SameTargets says so of all of them, but for a callable whose target is  *)
(* not running or has been handed over.                                    *)
LEMMA SameUndisturbed ==
  ASSUME ReentrancyInv, NEW B, SameTargets(mem, mem', B),
         Suspended \subseteq B, alive \subseteq B
  PROVE  Undisturbed(alive)
BY SamePlace DEF Undisturbed, SameTargets

LEMMA HostUndisturbed ==
  ASSUME ReentrancyInv, alive' \subseteq Callables, Undisturbed(alive'), NEW g \in Calling
  PROVE  \E d \in Callables : /\ d \in alive' /\ d \notin Suspended
                              /\ mem'.vtable[d] = g.type /\ g.type \in Functors
                              /\ functor_ptr(mem', d) = g.at
<1>1. PICK c \in Callables : Host(g, c)
  BY DEF ReentrancyInv, CallingInv
<1>2. IsRunning(c)
  BY <1>1, OneEmptyVtable DEF Host, IsRunning, HasTarget
<1>3. PICK d \in alive' \ Suspended :
           mem'.vtable[d] = mem.vtable[c] /\ functor_ptr(mem', d) = functor_ptr(mem, c)
  BY <1>1, <1>2 DEF Host, Undisturbed
<1> QED  BY <1>1, <1>3 DEF Host

LEMMA DyingUndisturbed ==
  ASSUME ReentrancyInv, alive \subseteq alive', alive' \subseteq Callables,
         Undisturbed(alive'), NEW g \in Dying
  PROVE  Resumable(g)' /\ Holds(mem', g)
<1>1. Resumable(g) /\ Holds(mem, g) /\ g.obj \in Suspended
  BY DEF ReentrancyInv, DyingInv, Suspended
<1>2. g.obj \in alive' => g.obj \in alive
  BY <1>1, ReentrancyAssumption DEF Resumable
<1>3. Resumable(g)'
  BY <1>1, <1>2 DEF Resumable
<1>4. Holds(mem', g)
  BY <1>1 DEF Holds, Undisturbed
<1> QED  BY <1>3, <1>4

LEMMA BystandersKeep ==
  ASSUME ReentrancyInv, UNCHANGED stack, alive \subseteq alive', alive' \subseteq Callables,
         Sound(mem', alive' \cup Suspended),
         \A t \in Tmps \ Suspended : mem'.vtable[t] = mem.vtable[t] \/ mem'.vtable[t] = Junk,
         Undisturbed(alive')
  PROVE  ReentrancyInv'
<1>1. /\ Calling' = Calling /\ Dying' = Dying /\ Suspended' = Suspended /\ Ordered' = Ordered
      /\ stack' = stack
  BY DEF Calling, Dying, Frames, Suspended, Ordered
<1>2. MemoryInv'
  BY <1>1 DEF MemoryInv, Owners, ReentrancyInv
<1>3. StackInv'
  BY <1>1 DEF StackInv, ReentrancyInv
<1>4. DyingInv'
  BY <1>1, DyingUndisturbed DEF DyingInv, Holds, functor_ptr
<1>5. CallingInv'
  <2> SUFFICES ASSUME NEW g \in Calling PROVE \E d \in Callables : Host(g, d)'
    BY <1>1 DEF CallingInv
  <2>1. PICK d \in Callables : /\ d \in alive' /\ d \notin Suspended
                               /\ mem'.vtable[d] = g.type /\ g.type \in Functors
                               /\ functor_ptr(mem', d) = g.at
    BY HostUndisturbed
  <2> QED  BY <1>1, <2>1 DEF Host, functor_ptr
<1> QED  BY <1>2, <1>3, <1>4, <1>5 DEF ReentrancyInv

(* What every action on a state of the invariant may use. *)
LEMMA StateFacts ==
  ASSUME Copyable # "trivial", ReentrancyInv
  PROVE  /\ Sound(mem, Owners) /\ mem \in MemoryType
         /\ alive \subseteq Callables /\ alive \subseteq Owners /\ Suspended \subseteq Owners
         /\ SwapTmp \in Objects \ Owners
         /\ \A t \in Tmps \ Suspended : t \in Objects \ Owners /\ mem.vtable[t] = Junk
         /\ \E b \in Blocks : b \notin mem.allocated
<1>1. MemoryInv /\ StackInv /\ DyingInv
  BY DEF ReentrancyInv
<1>2. Suspended \subseteq Callables \cup Tmps
  BY <1>1 DEF DyingInv, Resumable, Suspended, MemoryInv
<1> QED  BY <1>1, <1>2, FreeBlock, ConstantFacts DEF MemoryInv, Owners, Sound

(* A constructor that makes one more owner, or that fails. *)
LEMMA ConstructedKeeps ==
  ASSUME Copyable # "trivial", ReentrancyInv, UNCHANGED stack,
         NEW c \in Callables \ alive, alive' = alive \cup {c},
         SameTargets(mem, mem', Owners), Sound(mem', Owners \cup {c}),
         \A o \in Objects \ {c} : mem'.vtable[o] = mem.vtable[o]
  PROVE  ReentrancyInv'
<1>1. Sound(mem', alive' \cup Suspended)
  <2>1. alive' \cup Suspended = Owners \cup {c}
    BY DEF Owners
  <2> QED  BY <2>1
<1>2. Undisturbed(alive')
  <2>1. Undisturbed(alive)
    BY StateFacts, SameUndisturbed
  <2> QED  BY <2>1 DEF Undisturbed
<1>3. \A t \in Tmps : mem'.vtable[t] = mem.vtable[t]
  BY ConstantFacts
<1>4. alive' \subseteq Callables
  BY StateFacts
<1> QED  BY <1>1, <1>2, <1>3, <1>4, BystandersKeep

LEMMA FailedConstructKeeps ==
  ASSUME Copyable # "trivial", ReentrancyInv, UNCHANGED stack,
         NEW c \in Callables, alive' = alive,
         SameTargets(mem, mem', Owners), Sound(mem', Owners),
         \A o \in Objects \ {c} : mem'.vtable[o] = mem.vtable[o]
  PROVE  ReentrancyInv'
<1>1. Sound(mem', alive' \cup Suspended)
  BY DEF Owners
<1>2. Undisturbed(alive')
  BY StateFacts, SameUndisturbed
<1>3. \A t \in Tmps : mem'.vtable[t] = mem.vtable[t]
  BY ConstantFacts
<1> QED  BY <1>1, <1>2, <1>3, StateFacts, BystandersKeep

LEMMA ConstructFromKeeps ==
  ASSUME Copyable # "trivial", ReentrancyInv, NEW c \in Callables, NEW x \in Storable,
         ConstructFromR(c, x)
  PROVE  ReentrancyInv'
<1> DEFINE m == debug_clear(mem, c)
<1>1. /\ c \in Objects \ Owners /\ c \notin Suspended /\ c \notin alive /\ UNCHANGED stack
      /\ ConstructFrom(c, x, "copy")
  BY MayUseFree, ConstantFacts DEF ConstructFromR, ConstructFrom, Owners
<1>2. /\ Sound(m, Owners) /\ SameTargets(mem, m, Owners) /\ m.vtable = mem.vtable
      /\ m.allocated = mem.allocated /\ m \in MemoryType
  BY <1>1, StateFacts, ClearedSound DEF Sound
<1>3. x \in Images /\ x.type \in Functors
  BY DEF Storable, Images
<1>4. Throws(x.type, "copy") = FALSE
  BY <1>3, NoConstructorThrows DEF Throws, Forms
<1> HIDE DEF m
<1>5. ASSUME SameTargets(mem, mem', Owners), Sound(mem', Owners \cup {c}),
             alive' = alive \cup {c},
             \A o \in Objects \ {c} : mem'.vtable[o] = mem.vtable[o]
      PROVE  ReentrancyInv'
  BY <1>1, <1>5, ConstructedKeeps
<1>6. CASE /\ mem' = construct_empty(mem, c)
           /\ alive' = alive \cup {c}
  <2>1. SameTargets(mem, mem', Owners) /\ Sound(mem', Owners \cup {c})
    BY <1>1, <1>6, StateFacts, ConstructEmptySound
  <2>2. \A o \in Objects \ {c} : mem'.vtable[o] = mem.vtable[o]
    BY <1>2, <1>6 DEF construct_empty, m, MemoryType
  <2> QED  BY <1>5, <1>6, <2>1, <2>2
<1>7. CASE /\ mem' = put(debug_clear(mem, c), c, x)
           /\ alive' = alive \cup {c}
  <2>1. SameTargets(m, mem', Owners) /\ Sound(mem', Owners \cup {c})
    BY <1>1, <1>2, <1>3, <1>7, StateFacts, PutSound DEF Stored, m
  <2>2. SameTargets(mem, mem', Owners)
    BY <1>2, <2>1, SameTargetsChain
  <2>3. \A o \in Objects \ {c} : mem'.vtable[o] = mem.vtable[o]
    BY <1>2, <1>3, <1>7, PutVtable DEF m
  <2> QED  BY <1>5, <1>7, <2>1, <2>2, <2>3
<1>8. CASE UNCHANGED <<mem, alive>>
  BY <1>1, <1>8, UnchangedKeeps
<1> QED  BY <1>1, <1>4, <1>6, <1>7, <1>8 DEF ConstructFrom, Terminate

(* The copy constructor, of any callable whose target does not die.        *)
LEMMA CopyConstructKeeps ==
  ASSUME Copyable # "trivial", ReentrancyInv, NEW c \in Callables, NEW s \in Callables,
         CopyConstructR(c, s)
  PROVE  ReentrancyInv'
<1> DEFINE m == debug_clear(mem, c)
           t == mem.vtable[s]
<1>1. /\ c \in Objects \ Owners /\ c \notin Suspended /\ c \notin alive /\ UNCHANGED stack
      /\ CopyConstruct(c, s) /\ s \in Owners /\ t \in Vtables /\ SafeGenerics
  BY MayUseFree, StateFacts, ConstantFacts
  DEF CopyConstructR, CopyConstruct, Owners, Sound, Good
<1>2. /\ Sound(m, Owners) /\ SameTargets(mem, m, Owners) /\ m.vtable = mem.vtable
      /\ m.allocated = mem.allocated /\ m \in MemoryType
  BY <1>1, StateFacts, ClearedSound DEF Sound
<1> HIDE DEF m
<1>3. CASE /\ mem' = copy_from(debug_clear(mem, c), s, c)
           /\ alive' = alive \cup {c}
  <2>1. SameTargets(m, mem', Owners) /\ Sound(mem', Owners \cup {c})
    BY <1>1, <1>2, <1>3, StateFacts, CopySound DEF Copied, m
  <2>2. SameTargets(mem, mem', Owners)
    BY <1>2, <2>1, SameTargetsChain
  <2>3. \A o \in Objects \ {c} : mem'.vtable[o] = mem.vtable[o]
    BY <1>1, <1>2, <1>3, CopyVtable DEF m
  <2> QED  BY <1>1, <1>3, <2>1, <2>2, <2>3, ConstructedKeeps
<1>4. CASE /\ \E why \in CloneFailures(t) :
                mem' = retire(assign_failed(debug_clear(mem, c), c, t, why), c)
           /\ UNCHANGED alive
  <2>1. PICK why \in CloneFailures(t) : mem' = retire(assign_failed(m, c, t, why), c)
    BY <1>4 DEF m
  <2>2. t \in Functors /\ why \in AssignFailures(t, "copy") /\ "copy" \in Forms
    BY <1>1, <2>1, OneEmptyVtable DEF CloneFailures, Forms
  <2> DEFINE n == assign_failed(m, c, t, why)
  <2>3. Sound(n, Owners) /\ SameTargets(m, n, Owners) /\ n.vtable = m.vtable
    BY <1>1, <1>2, <2>2, AssignFailedSound
  <2> HIDE DEF n
  <2>4. Sound(mem', Owners) /\ SameTargets(n, mem', Owners)
    BY <1>1, <2>1, <2>3, RetireSound DEF n
  <2>5. SameTargets(mem, mem', Owners)
    BY <1>2, <2>3, <2>4, SameTargetsChain
  <2>6. \A o \in Objects \ {c} : mem'.vtable[o] = mem.vtable[o]
    BY <1>2, <2>1, <2>3 DEF retire, Sound, MemoryType, n
  <2> QED  BY <1>1, <1>4, <2>4, <2>5, <2>6, FailedConstructKeeps
<1> QED  BY <1>1, <1>3, <1>4 DEF CopyConstruct

(* The move constructor: a target that runs changes hands with its block.  *)
LEMMA MoveConstructKeeps ==
  ASSUME Copyable # "trivial", ReentrancyInv, NEW c \in Callables, NEW s \in Callables,
         MoveConstructR(c, s)
  PROVE  ReentrancyInv'
<1> DEFINE m == debug_clear(mem, c)
<1>1. /\ c \in Objects \ Owners /\ c \notin Suspended /\ c \notin alive /\ UNCHANGED stack
      /\ MoveConstruct(c, s) /\ MayMove(s) /\ s \in alive /\ s \in Owners
      /\ s \notin Suspended /\ mem.vtable[s] \in Vtables /\ Moveable # "na"
  BY MayUseFree, StateFacts, ConstantFacts
  DEF MoveConstructR, MoveConstruct, MayMove, Owners, Sound, Good
<1>2. /\ Sound(m, Owners) /\ SameTargets(mem, m, Owners) /\ m.vtable = mem.vtable
      /\ m \in MemoryType
  BY <1>1, StateFacts, ClearedSound DEF Sound
<1> HIDE DEF m
<1>3. CASE /\ mem' = move_from(debug_clear(mem, c), s, c)
           /\ alive' = alive \cup {c}
  <2>1. Moved(m, mem', Owners, s, c, EmptyVtable)
    BY <1>1, <1>2, <1>3, MoveSound DEF m
  <2>2. Sound(mem', alive' \cup Suspended)
    <3>1. alive' \cup Suspended = Owners \cup {c}
      BY <1>3 DEF Owners
    <3> QED  BY <2>1, <3>1 DEF Moved
  <2>3. SameTargets(mem, mem', Owners \ {s})
    <3>1. SameTargets(m, mem', Owners \ {s})
      BY <2>1 DEF Moved
    <3> QED  BY <1>2, <3>1, SameTargetsChain
  <2>4. Undisturbed(alive')
    <3>1. \A o \in Suspended :
            mem'.vtable[o] = mem.vtable[o] /\ functor_ptr(mem', o) = functor_ptr(mem, o)
      BY <1>1, <2>3, StateFacts, SamePlace DEF SameTargets
    <3>2. ASSUME NEW d \in alive \ Suspended, d # s
          PROVE  mem'.vtable[d] = mem.vtable[d] /\ functor_ptr(mem', d) = functor_ptr(mem, d)
      BY <2>3, <3>2, StateFacts, SamePlace DEF SameTargets
    <3>3. ASSUME IsRunning(s)
          PROVE  mem'.vtable[c] = mem.vtable[s] /\ functor_ptr(mem', c) = functor_ptr(mem, s)
      <4>1. OnHeap(mem.vtable[s])
        BY <1>1, <3>3 DEF MayMove
      <4>2. mem'.vtable[c] = mem.vtable[s] /\ SameBlock(mem, s, mem', c)
        <5>1. /\ mem'.vtable[c] = m.vtable[s] /\ SameBlock(m, s, mem', c)
              /\ SameBlock(mem, s, m, s)
          BY <1>1, <1>2, <2>1 DEF Moved, SameTargets
        <5> QED  BY <1>2, <5>1 DEF SameBlock
      <4> QED  BY <4>1, <4>2, SamePlace
    <3> QED  BY <1>1, <1>3, <3>1, <3>2, <3>3 DEF Undisturbed
  <2>5. \A t \in Tmps : mem'.vtable[t] = mem.vtable[t]
    <3>1. \A t \in Tmps : t \in Objects \ {s, c}
      BY ConstantFacts
    <3> QED  BY <1>1, <1>2, <1>3, <3>1, MoveVtable DEF m
  <2>6. alive' \subseteq Callables
    BY <1>3, StateFacts
  <2> QED  BY <1>1, <1>3, <2>2, <2>4, <2>5, <2>6, BystandersKeep
<1>4. CASE UNCHANGED <<mem, alive>>
  BY <1>1, <1>4, UnchangedKeeps
<1> QED  BY <1>1, <1>3, <1>4 DEF MoveConstruct, Terminate

LEMMA SwapKeeps ==
  ASSUME Copyable # "trivial", ReentrancyInv, NEW a \in Callables, NEW b \in Callables,
         SwapR(a, b)
  PROVE  ReentrancyInv'
<1>1. /\ MayMove(a) /\ MayMove(b) /\ UNCHANGED stack
      /\ a \in Owners /\ b \in Owners /\ a \in alive /\ b \in alive
      /\ a \notin Suspended /\ b \notin Suspended
      /\ Moveable # "na" /\ Destructor # "trivial"
  BY MayUseFree, ConstantFacts DEF SwapR, MayMove, Owners
<1>2. CASE mem' = swap(mem, a, b) /\ UNCHANGED alive
  <2>1. Sound(mem', Owners) /\ Swapped(mem, mem', Owners, a, b)
    BY <1>1, <1>2, StateFacts, SwapSound
  <2>2. Sound(mem', alive' \cup Suspended)
    BY <1>2, <2>1 DEF Owners
  <2>3. SameTargets(mem, mem', Owners \ {a, b})
    BY <2>1 DEF Swapped
  <2>4. Undisturbed(alive')
    <3>1. \A o \in Suspended :
            mem'.vtable[o] = mem.vtable[o] /\ functor_ptr(mem', o) = functor_ptr(mem, o)
      BY <1>1, <2>3, StateFacts, SamePlace DEF SameTargets
    <3>2. ASSUME NEW d \in alive \ Suspended, d \notin {a, b}
          PROVE  mem'.vtable[d] = mem.vtable[d] /\ functor_ptr(mem', d) = functor_ptr(mem, d)
      BY <2>3, <3>2, StateFacts, SamePlace DEF SameTargets
    <3>3. ASSUME IsRunning(a)
          PROVE  mem'.vtable[b] = mem.vtable[a] /\ functor_ptr(mem', b) = functor_ptr(mem, a)
      BY <1>1, <2>1, <3>3, SamePlace DEF MayMove, Swapped
    <3>4. ASSUME IsRunning(b)
          PROVE  mem'.vtable[a] = mem.vtable[b] /\ functor_ptr(mem', a) = functor_ptr(mem, b)
      BY <1>1, <2>1, <3>4, SamePlace DEF MayMove, Swapped
    <3> QED  BY <1>1, <1>2, <3>1, <3>2, <3>3, <3>4 DEF Undisturbed
  <2>5. \A t \in Tmps : mem'.vtable[t] = mem.vtable[t]
    <3>1. \A t \in Tmps : t \in Objects \ {a, b, SwapTmp}
      BY ConstantFacts
    <3>2. SwapTmp \notin Owners /\ Sound(mem, Owners)
      BY StateFacts
    <3> QED  BY <1>1, <1>2, <3>1, <3>2, SwapVtable
  <2> QED  BY <1>1, <1>2, <2>2, <2>4, <2>5, StateFacts, BystandersKeep
<1>3. CASE UNCHANGED <<mem, alive>>
  BY <1>1, <1>3, UnchangedKeeps
<1> QED  BY <1>2, <1>3 DEF SwapR, Swap, Terminate

-----------------------------------------------------------------------------
(* Assignment of a functor. *)

(* The safe actual_assign has put the new target in place, and the old one *)
(* into its tmp, before any destructor runs.                               *)
LEMMA ReplacedSound ==
  ASSUME Copyable # "trivial", ReentrancyInv, NEW t \in Tmps \ Suspended,
         NEW c \in alive, c \notin Suspended, NEW x \in Images
  PROVE  LET m == replaced(mem, t, c, x)
         IN  /\ Sound(m, Owners \cup {t}) /\ SameTargets(mem, m, Owners \ {c})
             /\ \A o \in Tmps \ (Suspended \cup {t}) : m.vtable[o] = Junk
<1> DEFINE n == construct_empty(mem, t)
           k == put(n, t, x)
           m == swap(k, c, t)
           A == Owners \cup {t}
<1>1. /\ t \in Objects \ Owners /\ c \in Owners /\ SwapTmp \notin A
      /\ Moveable # "na" /\ Destructor # "trivial"
  BY StateFacts, ConstantFacts
<1>2. Sound(n, Owners) /\ SameTargets(mem, n, Owners) /\ n.allocated = mem.allocated
  BY <1>1, StateFacts, ConstructEmptySound
<1>3. \A o \in Objects \ {t} : n.vtable[o] = mem.vtable[o]
  BY <1>1, StateFacts DEF construct_empty, debug_clear, MemoryType
<1> HIDE DEF n
<1>4. Sound(k, A) /\ SameTargets(n, k, Owners)
  BY <1>1, <1>2, StateFacts, PutSound DEF Stored
<1>5. \A o \in Objects \ {t} : k.vtable[o] = n.vtable[o]
  BY <1>2, PutVtable DEF Sound
<1> HIDE DEF k
<1>6. Sound(m, A) /\ SameTargets(k, m, A \ {c, t})
  BY <1>1, <1>4, SwapSound DEF Swapped
<1>7. SameTargets(mem, m, Owners \ {c})
  <2>1. Owners \ {c} \subseteq Owners /\ Owners \ {c} \subseteq A \ {c, t}
    BY <1>1
  <2>2. SameTargets(mem, k, Owners)
    BY <1>2, <1>4, SameTargetsChain
  <2> QED  BY <1>6, <2>1, <2>2, SameTargetsChain
<1>8. \A o \in Tmps \ (Suspended \cup {t}) : m.vtable[o] = Junk
  <2> SUFFICES ASSUME NEW o \in Tmps \ (Suspended \cup {t}) PROVE m.vtable[o] = Junk
    OBVIOUS
  <2>1. o \in Objects \ {c, t, SwapTmp} /\ mem.vtable[o] = Junk
    BY StateFacts, ConstantFacts
  <2>2. m.vtable[o] = k.vtable[o]
    BY <1>1, <1>4, <2>1, SwapVtable
  <2> QED  BY <1>3, <1>5, <2>1, <2>2
<1>9. m = replaced(mem, t, c, x)
  BY DEF replaced, k, n
<1> QED  BY <1>6, <1>7, <1>8, <1>9

LEMMA SafeAssignKeeps ==
  ASSUME Copyable # "trivial", ReentrancyInv, NEW t \in Tmps \ Suspended,
         NEW c, MayReplace(c), NEW x \in Images,
         NEW op \in {"assign_const", "assign"}, NEW m, m = replaced(mem, t, c, x),
         Destroy(m, Frame(m, op, "retire", t, t, EmptyVtable))
  PROVE  ReentrancyInv'
<1> DEFINE f == Frame(m, op, "retire", t, t, EmptyVtable)
           A == Owners \cup {t}
<1>1. /\ c \in alive /\ c \notin Suspended /\ ~IsRunning(c)
      /\ t \in Objects \ Owners /\ t \notin alive /\ StackInv /\ MemoryInv
  BY MayUseFree, StateFacts DEF MayReplace, ReentrancyInv
<1>2. /\ Sound(m, A) /\ SameTargets(mem, m, Owners \ {c})
      /\ \A o \in Tmps \ (Suspended \cup {t}) : m.vtable[o] = Junk
  BY <1>1, ReplacedSound
<1>3. /\ f \in FrameType /\ f.op # "invoke" /\ f.then = "retire"
      /\ f.obj = t /\ f.src = t
      /\ HasDestructor(m.vtable[t]) => Holds(m, f)
  <2>1. m.vtable[t] \in Vtables /\ functor_ptr(m, t) \in Objects \cup Blocks
    BY <1>2, TargetPlace
  <2>2. f \in FrameType
    BY <1>1, <2>1 DEF Frame, FrameType, InPlace
  <2> QED  BY <2>2 DEF Frame, Holds
<1>4. Destroy(m, f)
  OBVIOUS
<1> HIDE DEF f
(* Only c has lost its target, and it was not running. *)
<1>5. ASSUME SameTargets(mem, mem', Owners \ {c}), alive' = alive
      PROVE  Undisturbed(alive')
  <2>1. \A o \in Owners \ {c} :
          mem'.vtable[o] = mem.vtable[o] /\ functor_ptr(mem', o) = functor_ptr(mem, o)
    BY <1>5, SamePlace DEF SameTargets
  <2> QED  BY <1>1, <1>5, <2>1, StateFacts DEF Undisturbed
<1>6. CASE Resume(destroy(m, f.obj), f) /\ UNCHANGED stack
  <2>1. Resumed(m, A \ {t}, f)
    BY <1>2, <1>3, <1>6, DestroyResumeEffect
  <2>2. A \ {t} = Owners /\ alive \ {t} = alive
    BY <1>1
  <2>3. /\ SameTargets(m, mem', Owners) /\ alive' = alive /\ Sound(mem', Owners)
        /\ mem'.vtable[t] = Junk
        /\ \A o \in Objects \ (Owners \cup {t}) : mem'.vtable[o] = m.vtable[o]
    BY <1>3, <2>1, <2>2 DEF Resumed
  <2>4. SameTargets(mem, mem', Owners \ {c})
    BY <1>2, <2>3, SameTargetsChain
  <2>5. \A o \in Tmps \ Suspended : mem'.vtable[o] = Junk
    BY <1>2, <2>3, StateFacts
  <2>6. Sound(mem', alive' \cup Suspended)
    BY <2>3 DEF Owners
  <2> QED  BY <1>5, <1>6, <2>3, <2>4, <2>5, <2>6, StateFacts, BystandersKeep
<1>7. CASE /\ HasDestructor(m.vtable[f.obj])
           /\ Len(stack) < MaxDepth
           /\ mem' = m
           /\ stack' = Append(stack, f)
           /\ UNCHANGED alive
  <2>1. Calling' = Calling /\ Dying' = Dying \cup {f} /\ Suspended' = Suspended \cup {t}
    BY <1>1, <1>3, <1>7, PushFrame DEF StackInv
  <2>2. Undisturbed(alive')
    BY <1>2, <1>5, <1>7
  <2>3. StackInv'
    <3>1. \A g \in Dying : g.src # t
      <4> SUFFICES ASSUME NEW g \in Dying, g.src = t PROVE FALSE
        OBVIOUS
      <4>1. Resumable(g) /\ g.obj \in Suspended
        BY DEF ReentrancyInv, DyingInv, Suspended
      <4> QED  BY <1>1, <4>1 DEF Resumable
    <3> QED  BY <1>1, <1>3, <1>7, <3>1, PushKeepsStack
  <2>4. MemoryInv'
    <3>1. Owners' = A
      BY <1>7, <2>1 DEF Owners
    <3> QED  BY <1>1, <1>2, <1>7, <2>1, <3>1 DEF MemoryInv
  <2>5. DyingInv'
    <3> SUFFICES ASSUME NEW g \in Dying' PROVE Resumable(g)' /\ Holds(mem', g)
      BY DEF DyingInv, Holds, functor_ptr
    <3>1. CASE g \in Dying
      BY <1>1, <1>7, <2>2, <3>1, DyingUndisturbed DEF MemoryInv
    <3>2. CASE g = f
      BY <1>1, <1>3, <1>7, <3>2 DEF Resumable
    <3> QED  BY <2>1, <3>1, <3>2
  <2>6. CallingInv'
    <3> SUFFICES ASSUME NEW g \in Calling PROVE \E d \in Callables : Host(g, d)'
      BY <2>1 DEF CallingInv
    <3>1. PICK d \in Callables : /\ d \in alive' /\ d \notin Suspended
                                 /\ mem'.vtable[d] = g.type /\ g.type \in Functors
                                 /\ functor_ptr(mem', d) = g.at
      BY <1>1, <1>7, <2>2, HostUndisturbed DEF MemoryInv
    <3>2. d # t
      BY <1>1, <1>7, <3>1
    <3> QED  BY <2>1, <3>1, <3>2 DEF Host, functor_ptr
  <2> QED  BY <2>3, <2>4, <2>5, <2>6 DEF ReentrancyInv
<1> QED  BY <1>4, <1>6, <1>7 DEF Destroy

(* The tmp of a safe actual_assign is one that holds nothing. *)
LEMMA TmpIsFree ==
  ASSUME Copyable # "trivial", ReentrancyInv
  PROVE  (CHOOSE o \in Tmps : mem.vtable[o] = Junk) \in Tmps \ Suspended
<1> DEFINE t == CHOOSE o \in Tmps : mem.vtable[o] = Junk
<1>1. t \in Tmps /\ mem.vtable[t] = Junk
  BY FreeTmp DEF ReentrancyInv
<1>2. \A o \in Suspended : mem.vtable[o] \in Vtables
  BY StateFacts DEF Sound, Good
<1> QED  BY <1>1, <1>2, ConstantFacts

LEMMA AssignKeeps ==
  ASSUME Copyable # "trivial", ReentrancyInv, NEW c \in Callables, NEW x \in Storable,
         NEW form \in Forms, AssignR(c, x, form)
  PROVE  ReentrancyInv'
<1> DEFINE t  == CHOOSE o \in Tmps : mem.vtable[o] = Junk
           op == IF form = "copy" THEN "assign_const" ELSE "assign"
           m  == replaced(mem, t, c, x)
<1>1. MayReplace(c) /\ c \in alive /\ c \notin Suspended /\ x \in Images
  BY MayUseFree DEF AssignR, MayReplace, Storable
<1>2. CASE Destroy(mem, Frame(mem, "clear", "clear", c, c, EmptyVtable))
  BY <1>1, <1>2, ClearDestroyKeeps
<1>3. CASE /\ HasNoFailAssignment(x.type, form)
           /\ Destroy(mem, Frame(mem, op, "put", c, c, x))
  <2>1. op = "assign" /\ "assign" \in InPlace
    BY <1>3 DEF HasNoFailAssignment, InPlace
  <2>2. Destroy(mem, Frame(mem, "assign", "put", c, c, x))
    BY <1>3, <2>1
  <2> HIDE DEF op
  <2> QED  BY <1>1, <2>1, <2>2, DestroyKeeps
<1>4. CASE Destroy(m, Frame(m, op, "retire", t, t, EmptyVtable))
  <2>1. t \in Tmps \ Suspended
    BY TmpIsFree
  <2>2. op \in {"assign_const", "assign"}
    OBVIOUS
  <2> HIDE DEF t, op
  <2> QED  BY <1>1, <1>4, <2>1, <2>2, SafeAssignKeeps
<1>5. CASE UNCHANGED <<mem, alive, stack>>
  BY <1>5, UnchangedKeeps
<1> QED  BY <1>2, <1>3, <1>4, <1>5 DEF AssignR

-----------------------------------------------------------------------------
(* The invariant, and what follows from it. *)

LEMMA InitReentrancy == InitR => ReentrancyInv
<1> SUFFICES ASSUME InitR PROVE ReentrancyInv
  OBVIOUS
<1>1. mem = NoObjects /\ alive = {} /\ stack = <<>>
  BY DEF InitR, Init
<1>2. Frames = {} /\ Dying = {} /\ Calling = {} /\ Suspended = {} /\ Owners = {}
  BY <1>1 DEF Frames, Dying, Calling, Suspended, Owners
<1>3. Sound(mem, {})
  BY <1>1 DEF NoObjects, Sound, MemoryType, Exclusive, Words
<1>4. \A t \in Tmps : mem.vtable[t] = Junk
  BY <1>1, ReentrancyAssumption DEF NoObjects
<1>5. StackInv
  BY <1>1, ReentrancyAssumption DEF StackInv, Ordered
<1> QED  BY <1>1, <1>2, <1>3, <1>4, <1>5
         DEF ReentrancyInv, MemoryInv, DyingInv, CallingInv

LEMMA NextReentrancy ==
  ASSUME Copyable # "trivial", ReentrancyInv, [NextR]_rvars
  PROVE  ReentrancyInv'
<1>1. CASE UNCHANGED rvars
  BY <1>1, UnchangedKeeps DEF rvars, vars
<1>2. ASSUME NEW c \in Callables, DestructR(c) PROVE ReentrancyInv'
  BY <1>2, DestructKeeps
<1>3. ASSUME NEW c \in Callables, ClearR(c) PROVE ReentrancyInv'
  BY <1>3, ClearDestroyKeeps DEF ClearR
<1>4. ASSUME NEW c \in Callables, InvokeR(c) PROVE ReentrancyInv'
  BY <1>4, InvokeKeeps
<1>5. ASSUME NEW c \in Callables, NEW x \in Storable, ConstructFromR(c, x)
      PROVE  ReentrancyInv'
  BY <1>5, ConstructFromKeeps
<1>6. ASSUME NEW c \in Callables, NEW x \in Storable, NEW form \in Forms,
             AssignR(c, x, form)
      PROVE  ReentrancyInv'
  BY <1>6, AssignKeeps
<1>7. ASSUME NEW c \in Callables, NEW s \in Callables, CopyConstructR(c, s)
      PROVE  ReentrancyInv'
  BY <1>7, CopyConstructKeeps
<1>8. ASSUME NEW c \in Callables, NEW s \in Callables, MoveConstructR(c, s)
      PROVE  ReentrancyInv'
  BY <1>8, MoveConstructKeeps
<1>9. ASSUME NEW c \in Callables, NEW s \in Callables, CopyAssignR(c, s)
      PROVE  ReentrancyInv'
  BY <1>9, CopyAssignKeeps
<1>10. ASSUME NEW c \in Callables, NEW s \in Callables, MoveAssignR(c, s)
       PROVE  ReentrancyInv'
  BY <1>10, MoveAssignKeeps
<1>11. ASSUME NEW a \in Callables, NEW b \in Callables, SwapR(a, b)
       PROVE  ReentrancyInv'
  BY <1>11, SwapKeeps
<1>12. CASE DestructorReturns
  BY <1>12, DestructorReturnsKeeps
<1>13. CASE CallReturns
  BY <1>13, CallReturnsKeeps
<1> QED  BY <1>1, <1>2, <1>3, <1>4, <1>5, <1>6, <1>7, <1>8, <1>9, <1>10, <1>11,
            <1>12, <1>13 DEF NextR

(* Whatever running and dying targets do with the callables of the program,*)
(* every call finds and leaves the targets of all of them owned, those in  *)
(* the middle of being destroyed included.                                 *)
THEOREM ReentrancyInvariant ==
  ASSUME Copyable # "trivial"
  PROVE  SpecR => []ReentrancyInv
<1>1. ReentrancyInv /\ [NextR]_rvars => ReentrancyInv'
  BY NextReentrancy
<1> QED  BY InitReentrancy, <1>1, PTL DEF SpecR

LEMMA StackTypes ==
  ASSUME Copyable # "trivial", ReentrancyInv
  PROVE  StackTypeOK
<1>1. MemoryInv /\ StackInv /\ stack \in Seq(FrameType)
  BY DEF ReentrancyInv, StackInv
<1>2. \A f \in Frames : f.at \in Objects \cup Blocks /\ f.type \in Vtables
  BY <1>1, FramesType DEF FrameType
<1> QED  BY <1>1, <1>2, StateFacts DEF StackTypeOK, MemoryInv, StackInv

(* The stack and the memory have their types, at any depth of nesting.     *)
THEOREM StackTypeCorrectness ==
  ASSUME Copyable # "trivial"
  PROVE  SpecR => []StackTypeOK
BY StackTypes, ReentrancyInvariant, PTL

LEMMA RunningTargets ==
  ASSUME Copyable # "trivial", ReentrancyInv
  PROVE  CallsRunInTheirTarget
<1> SUFFICES ASSUME NEW f \in Calling
             PROVE  /\ Content(f.at) \in Images /\ Content(f.at).type = f.type
                    /\ HasDestructor(f.type) => f.at \in mem.live
  BY DEF CallsRunInTheirTarget
<1>1. PICK c \in Callables : Host(f, c)
  BY DEF ReentrancyInv, CallingInv
<1>2. /\ mem \in MemoryType /\ Good(mem, c) /\ c \in Objects /\ c \notin Blocks
      /\ mem.vtable[c] = f.type /\ f.type \in Functors /\ f.type \notin EmptyVtables
      /\ functor_ptr(mem, c) = f.at
  BY <1>1, StateFacts, Distinct, OneEmptyVtable DEF Host, Sound
<1>3. CASE OnHeap(f.type)
  <2>1. f.at = mem.lo[c] /\ f.at \in mem.allocated /\ f.at \in Blocks
    BY <1>2, <1>3 DEF functor_ptr, Good, MemoryType
  <2>2. Content(f.at) = Target(mem, c, f.type)
    BY <1>3, <2>1 DEF Content, Target, Pointee
  <2> QED  BY <1>2, <1>3, <2>1, <2>2 DEF Good, Manager, HasDestructor, OnHeap
<1>4. CASE ~OnHeap(f.type)
  <2>1. f.at = c /\ Content(f.at) = Target(mem, c, f.type)
    BY <1>2, <1>4 DEF functor_ptr, Content, Target
  <2> QED  BY <1>2, <1>4, <2>1 DEF Good, Manager, HasDestructor, OnHeap
<1> QED  BY <1>3, <1>4

(* A target goes on running in a live functor of its type, whatever it     *)
(* calls: moves and swaps hand its block over and leave it where it is.    *)
THEOREM RunningTargetsStay ==
  ASSUME Copyable # "trivial"
  PROVE  SpecR => []CallsRunInTheirTarget
BY RunningTargets, ReentrancyInvariant, PTL

(* No two owners have their target in the same place. *)
LEMMA OnePlaceEach ==
  ASSUME Copyable # "trivial", ReentrancyInv, NEW c \in Owners, NEW d \in Owners,
         functor_ptr(mem, c) = functor_ptr(mem, d)
  PROVE  c = d
<1>1. /\ mem \in MemoryType /\ Exclusive(mem, Owners) /\ Good(mem, c) /\ Good(mem, d)
      /\ c \in Objects /\ d \in Objects /\ c \notin Blocks /\ d \notin Blocks
  BY StateFacts, Distinct DEF Sound
<1>2. \A o \in {c, d} : OnHeap(mem.vtable[o]) => mem.lo[o] \in Blocks
  BY <1>1 DEF Good, MemoryType
<1> QED  BY <1>1, <1>2 DEF Exclusive, functor_ptr

LEMMA DyingTargets ==
  ASSUME Copyable # "trivial", ReentrancyInv
  PROVE  DyingTargetsUnreachable
<1>1. \A f \in Dying : f.obj \in Suspended /\ f.obj \in Owners /\ f.at = functor_ptr(mem, f.obj)
  BY DEF ReentrancyInv, DyingInv, Holds, Suspended, Owners
<1>2. ASSUME NEW f \in Dying, NEW c \in Callables, MayUse(c)
      PROVE  functor_ptr(mem, c) # f.at
  <2>1. c \in Owners /\ c \notin Suspended
    BY <1>2, MayUseFree DEF Owners
  <2> QED  BY <1>1, <2>1, OnePlaceEach
<1>3. ASSUME NEW i \in DOMAIN stack, NEW j \in DOMAIN stack,
             stack[i] \in Dying, stack[j] \in Dying, stack[i].at = stack[j].at
      PROVE  i = j
  <2>1. stack[i].obj = stack[j].obj
    BY <1>1, <1>3, OnePlaceEach
  <2>2. DOMAIN stack = 1 .. Len(stack) /\ Len(stack) \in Nat /\ Ordered
    BY DEF ReentrancyInv, StackInv
  <2>3. ~(i < j) /\ ~(j < i)
    BY <1>3, <2>1, <2>2 DEF Ordered
  <2> QED  BY <2>2, <2>3
<1> QED  BY <1>2, <1>3 DEF DyingTargetsUnreachable

(* A target that is being destroyed cannot be reached, nor destroyed twice.*)
THEOREM DyingTargetsStayUnreachable ==
  ASSUME Copyable # "trivial"
  PROVE  SpecR => []DyingTargetsUnreachable
BY DyingTargets, ReentrancyInvariant, PTL

LEMMA AllOwned ==
  ASSUME Copyable # "trivial", ReentrancyInv
  PROVE  NothingForgotten
<1> DEFINE Dead == {f.at : f \in Dying}
<1>1. Sound(mem, Owners) /\ \A c \in Owners : Good(mem, c) /\ c \in Objects /\ c \notin Blocks
  BY StateFacts, Distinct DEF Sound
<1>2. /\ mem \in MemoryType
      /\ \A f \in Dying : /\ f.obj \in Suspended /\ f.at = functor_ptr(mem, f.obj)
                          /\ HasDestructor(mem.vtable[f.obj])
  BY StateFacts DEF ReentrancyInv, DyingInv, Holds, Suspended
<1>3. \A c \in Suspended : HasDestructor(mem.vtable[c]) /\ functor_ptr(mem, c) \in Dead
  BY <1>2 DEF Suspended
<1>4. mem.live = {functor_ptr(mem, c) : c \in {d \in Owners : HasDestructor(mem.vtable[d])}}
  <2>1. mem.live = {c \in Owners : Manager(mem, c) = "small"}
                     \cup {mem.lo[c] : c \in {d \in Owners : Manager(mem, d) = "generic"}}
    BY <1>1, SoundLifetimes
  <2>2. \A c \in Owners : /\ Manager(mem, c) = "small" => functor_ptr(mem, c) = c
                          /\ Manager(mem, c) = "generic" => functor_ptr(mem, c) = mem.lo[c]
    BY DEF Manager, functor_ptr, OnHeap
  <2> QED  BY <2>1, <2>2 DEF HasDestructor, Manager
<1>5. {functor_ptr(mem, c) : c \in {d \in Owners : HasDestructor(mem.vtable[d])}}
        = Owned \cup Dead
  BY <1>2, <1>3 DEF Owners, Owned
<1>6. mem.allocated = {mem.lo[c] : c \in {d \in Owners : OnHeap(mem.vtable[d])}}
  BY <1>1, SoundBlocks
<1>7. {mem.lo[c] : c \in {d \in Owners : OnHeap(mem.vtable[d])}}
        = {mem.lo[c] : c \in {d \in alive : OnHeap(mem.vtable[d])}} \cup (Dead \cap Blocks)
  <2>1. \A c \in Suspended : c \in Owners /\ c \notin Blocks
    BY <1>1 DEF Owners
  <2>2. \A c \in Owners : OnHeap(mem.vtable[c]) =>
          mem.lo[c] \in Blocks /\ functor_ptr(mem, c) = mem.lo[c]
    BY <1>1, <1>2 DEF Good, functor_ptr, MemoryType
  <2>3. \A b \in Dead \cap Blocks :
          \E c \in Suspended : OnHeap(mem.vtable[c]) /\ mem.lo[c] = b
    BY <1>2, <2>1 DEF functor_ptr
  <2>4. \A c \in Suspended : OnHeap(mem.vtable[c]) => mem.lo[c] \in Dead \cap Blocks
    BY <1>3, <2>1, <2>2
  <2> QED  BY <2>1, <2>3, <2>4 DEF Owners
<1> QED  BY <1>4, <1>5, <1>6, <1>7 DEF NothingForgotten

(* Every functor that lives and every block in use is the target of a      *)
(* callable or of a call that is destroying it, in any nesting of calls.   *)
THEOREM NothingIsForgotten ==
  ASSUME Copyable # "trivial"
  PROVE  SpecR => []NothingForgotten
BY AllOwned, ReentrancyInvariant, PTL

(* Nothing is destroyed, overwritten, read or freed that should not be,    *)
(* though destructors and running targets use the callables of the program.*)
THEOREM ReentrancyIsFaultFree ==
  ASSUME Copyable # "trivial"
  PROVE  SpecR => []NoFaults
<1>1. ReentrancyInv => NoFaults
  BY StateFacts DEF Sound, Tolerated, NoFaults
<1> QED  BY <1>1, ReentrancyInvariant, PTL
=============================================================================
