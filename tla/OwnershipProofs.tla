--------------------------- MODULE OwnershipProofs ---------------------------
(***************************************************************************)
(* What each building block of a callable does to ownership and to the     *)
(* targets of others: the lemmas about managers that callables of one      *)
(* traits class, of several, and re-entrant ones have in common.           *)
(***************************************************************************)
EXTENDS Ownership, TLAPS

(* Which manager a vtable has. *)

(* functor_manager picks one of the five managers; an empty handler is a   *)
(* pointer-sized trivial object; only what is in the buffer can be wide.   *)
LEMMA ManagerType ==
  /\ \A t : functor_manager(t) \in Managers
  /\ \A t \in EmptyVtables : functor_manager(t) = "ptr" /\ ~OnHeap(t)
  /\ \A t : OnHeap(t) <=> functor_manager(t) \in {"trivial_heap", "generic"}
  /\ \A t : Wide(t) => functor_manager(t) \in {"trivial_small", "small"}
  /\ \A t : functor_manager(t) = "trivial_small" => Wide(t)
BY DEF functor_manager, Managers, OnHeap, Wide

(* Objects, blocks, targets and the two tokens are told apart. *)
LEMMA Distinct ==
  /\ \A o \in Objects : o \notin Blocks
  /\ \A b \in Blocks : b \notin Images /\ b # AllOnes /\ b # Junk
  /\ \A t \in EmptyVtables : t \notin Functors
BY TokensAssumption DEF Vtables

-----------------------------------------------------------------------------
(* The buffer of an object that owns nothing can be written at will. *)

(* An object that owns nothing has no lifetime, and its vtable pointer and *)
(* words can take any value without disturbing the owners.                 *)
LEMMA OutsideOwners ==
  ASSUME NEW m, NEW A, Sound(m, A), NEW o \in Objects \ A,
         NEW t \in Vtables \cup {Junk}, NEW x \in Words, NEW y \in Words
  PROVE  /\ o \notin m.live
         /\ Sound([m EXCEPT !.vtable[o] = t, !.lo[o] = x, !.hi[o] = y], A)
         /\ SameTargets(m, [m EXCEPT !.vtable[o] = t, !.lo[o] = x, !.hi[o] = y], A)
<1> DEFINE n == [m EXCEPT !.vtable[o] = t, !.lo[o] = x, !.hi[o] = y]
<1>1. o \notin m.live
  BY Distinct DEF Sound, Exclusive, MemoryType
<1>2. n \in MemoryType
  BY DEF Sound, MemoryType
<1>3. \A p \in A : n.vtable[p] = m.vtable[p] /\ n.lo[p] = m.lo[p] /\ n.hi[p] = m.hi[p]
  BY DEF Sound, MemoryType
<1>4. n.allocated = m.allocated /\ n.block = m.block /\ n.live = m.live /\ n.faults = m.faults
  BY DEF Sound, MemoryType
<1>5. ASSUME NEW p \in A PROVE Good(n, p)
  <2>1. Good(m, p)
    BY DEF Sound
  <2> QED  BY <2>1, <1>3, <1>4 DEF Good, Manager, Target, Pointee
<1>6. Exclusive(n, A)
  <2>1. Exclusive(m, A)
    BY DEF Sound
  <2> QED  BY <2>1, <1>3, <1>4 DEF Exclusive
<1>7. SameTargets(m, n, A)
  BY <1>3, <1>4 DEF SameTargets, SameBlock, TargetOf, Target, Pointee
<1> QED  BY <1>1, <1>2, <1>4, <1>5, <1>6, <1>7 DEF Sound

(* n differs from m in the buffer of o only. *)
BufferOnly(m, n, o) ==
  /\ n \in MemoryType
  /\ n.vtable = m.vtable /\ n.allocated = m.allocated /\ n.block = m.block
  /\ n.live = m.live /\ n.faults = m.faults
  /\ \A p \in Objects \ {o} : n.lo[p] = m.lo[p] /\ n.hi[p] = m.hi[p]

(* A target under vtable t has a use for the second word of its buffer. *)
UsesHi(t) == Wide(t) \/ functor_manager(t) = "trivial_heap"

(* store writes the bytes of a small target and no others. *)
LEMMA StoreWords ==
  ASSUME NEW m \in MemoryType, NEW o \in Objects, NEW w \in Words, NEW F
  PROVE  /\ BufferOnly(m, store(m, o, w, F), o)
         /\ store(m, o, w, F).lo[o] = w
         /\ store(m, o, w, F).hi[o] = IF Wide(F) THEN w ELSE m.hi[o]
<1> DEFINE h == IF Wide(F) THEN w ELSE m.hi[o]
           n == store(m, o, w, F)
<1>1. h \in Words
  BY DEF MemoryType
<1>2. n = [m EXCEPT !.lo[o] = w, !.hi[o] = h]
  BY DEF store
<1> HIDE DEF h, n
<1>3. BufferOnly(m, n, o) /\ n.lo[o] = w /\ n.hi[o] = h
  BY <1>1, <1>2 DEF BufferOnly, MemoryType
<1> QED  BY <1>3 DEF h, n

-----------------------------------------------------------------------------
(* The three ways in which a call changes who owns what. *)

(* What o holds on the heap, as a set of at most one block. *)
HeldBlock(m, o) == IF OnHeap(m.vtable[o]) THEN {m.lo[o]} ELSE {}

(* n differs from m in the words of o and p and in what lives at L only.   *)
SameElsewhere(m, n, O, L) ==
  /\ \A p \in Objects \ O :
       n.vtable[p] = m.vtable[p] /\ n.lo[p] = m.lo[p] /\ n.hi[p] = m.hi[p]
  /\ \A loc \in (Objects \cup Blocks) \ L :
       loc \in n.live <=> loc \in m.live

(* An object that owned nothing becomes an owner, with a block that was    *)
(* not in use if its target is on the heap.                                *)
LEMMA AddOwner ==
  ASSUME NEW m, NEW A, Sound(m, A), NEW o \in Objects \ A, NEW n \in MemoryType,
         n.faults \subseteq Tolerated, Good(n, o),
         SameElsewhere(m, n, {o}, {o} \cup HeldBlock(n, o)),
         HeldBlock(n, o) \cap m.allocated = {},
         n.allocated = m.allocated \cup HeldBlock(n, o),
         \A b \in m.allocated : n.block[b] = m.block[b]
  PROVE  Sound(n, A \cup {o}) /\ SameTargets(m, n, A)
<1>1. /\ m \in MemoryType /\ A \subseteq Objects /\ Exclusive(m, A)
      /\ \A p \in A : Good(m, p)
  BY DEF Sound
<1>2. \A p \in A : n.vtable[p] = m.vtable[p] /\ n.lo[p] = m.lo[p] /\ n.hi[p] = m.hi[p]
  BY <1>1 DEF SameElsewhere
<1>3. \A p \in A : p \in n.live <=> p \in m.live
  <2>1. HeldBlock(n, o) \subseteq Blocks
    BY DEF MemoryType
  <2> QED  BY <1>1, <2>1, Distinct DEF SameElsewhere
<1>4. \A b \in m.allocated : b \in n.live <=> b \in m.live
  BY <1>1, Distinct DEF SameElsewhere, MemoryType
<1>5. ASSUME NEW p \in A PROVE Good(n, p)
  <2>1. Good(m, p)
    BY <1>1
  <2> QED  BY <2>1, <1>2, <1>3, <1>4 DEF Good, Manager, Target, Pointee
<1>6. Exclusive(n, A \cup {o})
  <2>1. \A p \in A : OnHeap(m.vtable[p]) => m.lo[p] \in m.allocated
    BY <1>1 DEF Good
  <2>2. ASSUME NEW p \in A \cup {o}, NEW q \in A \cup {o},
               OnHeap(n.vtable[p]), OnHeap(n.vtable[q]), n.lo[p] = n.lo[q]
        PROVE  p = q
    BY <1>1, <1>2, <2>1, <2>2 DEF Exclusive, HeldBlock
  <2>3. \A b \in n.allocated : \E p \in A \cup {o} : OnHeap(n.vtable[p]) /\ n.lo[p] = b
    BY <1>1, <1>2 DEF Exclusive, HeldBlock
  <2>4. n.live \subseteq (A \cup {o}) \cup n.allocated
    BY <1>1 DEF Exclusive, SameElsewhere, MemoryType
  <2> QED  BY <2>2, <2>3, <2>4 DEF Exclusive
<1>7. SameTargets(m, n, A)
  BY <1>1, <1>2 DEF SameTargets, SameBlock, TargetOf, Target, Pointee, Good
<1> QED  BY <1>1, <1>5, <1>6, <1>7 DEF Sound

(* An owner gives up its target, and the block it was in. *)
LEMMA RemoveOwner ==
  ASSUME NEW m, NEW A, Sound(m, A), NEW o \in A, NEW n \in MemoryType,
         n.faults \subseteq Tolerated,
         SameElsewhere(m, n, {o}, {o} \cup HeldBlock(m, o)),
         ({o} \cup HeldBlock(m, o)) \cap n.live = {},
         n.allocated = m.allocated \ HeldBlock(m, o),
         \A b \in n.allocated : n.block[b] = m.block[b]
  PROVE  Sound(n, A \ {o}) /\ SameTargets(m, n, A \ {o})
<1> DEFINE B == A \ {o}
<1>1. /\ m \in MemoryType /\ A \subseteq Objects /\ Exclusive(m, A)
      /\ \A p \in A : Good(m, p)
  BY DEF Sound
<1>2. \A p \in B : n.vtable[p] = m.vtable[p] /\ n.lo[p] = m.lo[p] /\ n.hi[p] = m.hi[p]
  BY <1>1 DEF SameElsewhere
<1>3. \A p \in B : p \in n.live <=> p \in m.live
  <2>1. HeldBlock(m, o) \subseteq Blocks
    BY <1>1 DEF HeldBlock, Good, MemoryType
  <2> QED  BY <1>1, <2>1, Distinct DEF SameElsewhere
<1>4. \A b \in n.allocated : b \in n.live <=> b \in m.live
  BY <1>1, Distinct DEF SameElsewhere, MemoryType
<1>5. \A p \in B : OnHeap(m.vtable[p]) => m.lo[p] \in n.allocated
  BY <1>1 DEF Good, Exclusive, HeldBlock
<1>6. ASSUME NEW p \in B PROVE Good(n, p)
  <2>1. Good(m, p)
    BY <1>1
  <2> QED  BY <2>1, <1>2, <1>3, <1>4, <1>5 DEF Good, Manager, Target, Pointee
<1>7. Exclusive(n, B)
  <2>1. \A p, q \in B :
          OnHeap(n.vtable[p]) /\ OnHeap(n.vtable[q]) /\ n.lo[p] = n.lo[q] => p = q
    BY <1>1, <1>2 DEF Exclusive
  <2>2. \A b \in n.allocated : \E p \in B : OnHeap(n.vtable[p]) /\ n.lo[p] = b
    BY <1>1, <1>2 DEF Exclusive, HeldBlock
  <2>3. n.live \subseteq B \cup n.allocated
    BY <1>1 DEF Exclusive, SameElsewhere, MemoryType
  <2> QED  BY <2>1, <2>2, <2>3 DEF Exclusive
<1>8. SameTargets(m, n, B)
  BY <1>1, <1>2, <1>5 DEF SameTargets, SameBlock, TargetOf, Target, Pointee, Good
<1> QED  BY <1>1, <1>6, <1>7, <1>8 DEF Sound

(* An object that owned nothing takes over all that another one owned. *)
LEMMA TransferOwner ==
  ASSUME NEW m, NEW A, Sound(m, A), NEW s \in A, NEW d \in Objects \ A,
         NEW n \in MemoryType, n.faults \subseteq Tolerated,
         SameElsewhere(m, n, {s, d}, {s, d}),
         n.vtable[d] = m.vtable[s], n.lo[d] = m.lo[s],
         UsesHi(m.vtable[s]) => n.hi[d] = m.hi[s],
         s \notin n.live, d \in n.live <=> s \in m.live,
         n.allocated = m.allocated, n.block = m.block
  PROVE  /\ Sound(n, (A \ {s}) \cup {d})
         /\ SameTargets(m, n, A \ {s})
         /\ TargetOf(n, d) = TargetOf(m, s)
         /\ SameBlock(m, s, n, d)
<1> DEFINE R == A \ {s}
           B == R \cup {d}
<1>1. /\ m \in MemoryType /\ A \subseteq Objects /\ Exclusive(m, A)
      /\ \A p \in A : Good(m, p)
  BY DEF Sound
<1>2. \A p \in R : n.vtable[p] = m.vtable[p] /\ n.lo[p] = m.lo[p] /\ n.hi[p] = m.hi[p]
  BY <1>1 DEF SameElsewhere
<1>3. /\ \A p \in R : p \in n.live <=> p \in m.live
      /\ \A b \in m.allocated : b \in n.live <=> b \in m.live
  BY <1>1, Distinct DEF SameElsewhere, MemoryType
<1>4. ASSUME NEW p \in R PROVE Good(n, p)
  <2>1. Good(m, p)
    BY <1>1
  <2> QED  BY <2>1, <1>2, <1>3 DEF Good, Manager, Target, Pointee
<1>5. Good(n, d)
  <2>1. Good(m, s)
    BY <1>1
  <2> QED  BY <2>1, <1>3, ManagerType DEF Good, Manager, Target, Pointee, UsesHi
<1>6. Exclusive(n, B)
  <2>1. \A p, q \in B :
          OnHeap(n.vtable[p]) /\ OnHeap(n.vtable[q]) /\ n.lo[p] = n.lo[q] => p = q
    BY <1>1, <1>2 DEF Exclusive
  <2>2. \A b \in n.allocated : \E p \in B : OnHeap(n.vtable[p]) /\ n.lo[p] = b
    BY <1>1, <1>2 DEF Exclusive
  <2>3. n.live \subseteq B \cup n.allocated
    BY <1>1 DEF Exclusive, SameElsewhere, MemoryType
  <2> QED  BY <2>1, <2>2, <2>3 DEF Exclusive
<1>7. SameTargets(m, n, R) /\ TargetOf(n, d) = TargetOf(m, s) /\ SameBlock(m, s, n, d)
  BY <1>1, <1>2 DEF SameTargets, SameBlock, TargetOf, Target, Pointee
<1> QED  BY <1>1, <1>4, <1>5, <1>6, <1>7 DEF Sound

-----------------------------------------------------------------------------
(* assign makes an owner of an object that owned nothing. *)

(* The allocator returns a block that is not in use, if there is one. *)
LEMMA FreshBlock ==
  ASSUME NEW m, \E b \in Blocks : b \notin m.allocated
  PROVE  Fresh(m) \in Blocks /\ Fresh(m) \notin m.allocated
BY DEF Fresh

(* functor_manager::assign and the vtable that goes with it, for each of   *)
(* the five managers.                                                      *)
LEMMA AssignSound ==
  ASSUME NEW m, NEW A, Sound(m, A), NEW o \in Objects \ A,
         NEW x \in Images, NEW size \in Words,
         functor_manager(x.type) = "trivial_heap" => size = x.type,
         OnHeap(x.type) => \E b \in Blocks : b \notin m.allocated
  PROVE  LET n == [assign(m, o, x, x.type, size) EXCEPT !.vtable[o] = x.type]
         IN  /\ Sound(n, A \cup {o}) /\ SameTargets(m, n, A)
             /\ n.vtable[o] = x.type /\ TargetOf(n, o) = x
<1> DEFINE F == x.type
           n == [assign(m, o, x, F, size) EXCEPT !.vtable[o] = F]
           b == Fresh(m)
<1>1. /\ F \in Functors /\ F \in Vtables /\ F \notin EmptyVtables /\ x \in Words
      /\ o \notin m.live /\ o \notin Blocks /\ m \in MemoryType
      /\ m.faults \subseteq Tolerated
  <2>1. m \in MemoryType /\ m.faults \subseteq Tolerated
    BY DEF Sound
  <2>2. o \notin m.live
    BY OutsideOwners
  <2>3. F \in Functors /\ F \in Vtables /\ x \in Words
    BY DEF Images, Vtables, Words
  <2>4. F \notin EmptyVtables /\ o \notin Blocks
    BY <2>3, Distinct
  <2> QED  BY <2>1, <2>2, <2>3, <2>4
<1>2. CASE functor_manager(F) = "ptr"
  <2>1. n = [m EXCEPT !.vtable[o] = F, !.lo[o] = x]
    BY <1>2 DEF assign, ptr_assign
  <2> HIDE DEF n, F
  <2>2. n \in MemoryType /\ n.faults \subseteq Tolerated
    BY <1>1, <2>1 DEF MemoryType
  <2>3. Good(n, o) /\ n.vtable[o] = F /\ TargetOf(n, o) = x
    BY <1>1, <1>2, <2>1, ManagerType DEF MemoryType, Good, Manager, TargetOf, Target, F
  <2>4. SameElsewhere(m, n, {o}, {o} \cup HeldBlock(n, o)) /\ HeldBlock(n, o) = {}
    BY <1>1, <1>2, <2>1, ManagerType DEF SameElsewhere, HeldBlock, MemoryType
  <2>5. n.allocated = m.allocated /\ n.block = m.block
    BY <2>1
  <2> QED  BY <2>2, <2>3, <2>4, <2>5, AddOwner DEF n, F
<1>3. CASE functor_manager(F) = "trivial_small"
  <2>1. n = [m EXCEPT !.vtable[o] = F, !.lo[o] = x, !.hi[o] = x]
    BY <1>3 DEF assign, trivial_small_assign
  <2> HIDE DEF n, F
  <2>2. n \in MemoryType /\ n.faults \subseteq Tolerated
    BY <1>1, <2>1 DEF MemoryType
  <2>3. Good(n, o) /\ n.vtable[o] = F /\ TargetOf(n, o) = x
    BY <1>1, <1>3, <2>1, ManagerType DEF MemoryType, Good, Manager, TargetOf, Target, F
  <2>4. SameElsewhere(m, n, {o}, {o} \cup HeldBlock(n, o)) /\ HeldBlock(n, o) = {}
    BY <1>1, <1>3, <2>1, ManagerType DEF SameElsewhere, HeldBlock, MemoryType
  <2>5. n.allocated = m.allocated /\ n.block = m.block
    BY <2>1
  <2> QED  BY <2>2, <2>3, <2>4, <2>5, AddOwner DEF n, F
<1>4. CASE functor_manager(F) = "small"
  <2> DEFINE h == IF Wide(F) THEN x ELSE m.hi[o]
  <2>1. n = [m EXCEPT !.vtable[o] = F, !.lo[o] = x, !.hi[o] = h,
                      !.live = @ \cup {o}, !.faults = @ \cup {}]
    <3> DEFINE k == store(m, o, x, F)
    <3>1. k.live = m.live /\ k.faults = m.faults
      BY <1>1 DEF store, MemoryType
    <3>2. assign(m, o, x, F, size) = [k EXCEPT !.live = k.live \cup {o}, !.faults = k.faults \cup {}]
      BY <1>1, <1>4, <3>1 DEF assign, small_assign, BeginLifetime, If
    <3> QED  BY <1>1, <3>1, <3>2 DEF store, MemoryType
  <2>6. h \in Words /\ (Wide(F) => h = x)
    BY <1>1 DEF MemoryType
  <2> HIDE DEF n, F, h
  <2>2. n \in MemoryType /\ n.faults \subseteq Tolerated
    BY <1>1, <2>1, <2>6 DEF MemoryType
  <2>3. Good(n, o) /\ n.vtable[o] = F /\ TargetOf(n, o) = x
    BY <1>1, <1>4, <2>1, <2>6, ManagerType DEF MemoryType, Good, Manager, TargetOf, Target, F
  <2>4. SameElsewhere(m, n, {o}, {o} \cup HeldBlock(n, o)) /\ HeldBlock(n, o) = {}
    BY <1>1, <1>4, <2>1, ManagerType DEF SameElsewhere, HeldBlock, MemoryType
  <2>5. n.allocated = m.allocated /\ n.block = m.block
    BY <2>1
  <2> QED  BY <2>2, <2>3, <2>4, <2>5, AddOwner DEF n, F
<1>5. CASE functor_manager(F) = "trivial_heap"
  <2>1. b \in Blocks /\ b \notin m.allocated /\ b \notin m.live /\ b \in Words /\ b # o
    BY <1>1, <1>5, ManagerType, FreshBlock, Distinct DEF Sound, Exclusive, Words
  <2>2. n = [m EXCEPT !.vtable[o] = F, !.lo[o] = b, !.hi[o] = F,
                      !.allocated = @ \cup {b}, !.block[b] = x,
                      !.faults = @ \cup If(UnclearedBuffer(m, o), "assertion")]
    <3>1. assign(m, o, x, F, size) = trivial_heap_assign(m, o, x, size) /\ size = F
      BY <1>5 DEF assign
    <3>2. assign(m, o, x, F, size)
            = [m EXCEPT !.allocated = @ \cup {b}, !.block[b] = x, !.lo[o] = b, !.hi[o] = F,
                        !.faults = @ \cup If(UnclearedBuffer(m, o), "assertion")]
      BY <3>1, Zenon DEF trivial_heap_assign
    <3> HIDE DEF F, b
    <3> QED  BY <1>1, <3>2 DEF MemoryType
  <2> HIDE DEF n, F, b
  <2>3. n \in MemoryType /\ n.faults \subseteq Tolerated
    <3>1. If(UnclearedBuffer(m, o), "assertion") \subseteq Tolerated \cap Faults
      BY <1>1, <1>5 DEF If, Faults, Tolerated, UnclearedBuffer
    <3> QED  BY <1>1, <2>1, <2>2, <3>1 DEF MemoryType, Words
  <2>4. /\ Good(n, o) /\ HeldBlock(n, o) = {b}
        /\ n.vtable[o] = F /\ TargetOf(n, o) = x
    BY <1>1, <1>5, <2>1, <2>2, ManagerType
    DEF MemoryType, Good, Manager, TargetOf, Target, Pointee, HeldBlock, F
  <2>5. SameElsewhere(m, n, {o}, {o} \cup HeldBlock(n, o))
    BY <2>2, <2>4 DEF SameElsewhere
  <2>6. /\ n.allocated = m.allocated \cup HeldBlock(n, o)
        /\ HeldBlock(n, o) \cap m.allocated = {}
        /\ \A c \in m.allocated : n.block[c] = m.block[c]
    BY <1>1, <2>1, <2>2, <2>4 DEF MemoryType
  <2> QED  BY <2>3, <2>4, <2>5, <2>6, AddOwner DEF n, F
<1>6. CASE functor_manager(F) = "generic"
  <2>1. b \in Blocks /\ b \notin m.allocated /\ b \notin m.live /\ b \in Words /\ b # o
    BY <1>1, <1>6, ManagerType, FreshBlock, Distinct DEF Sound, Exclusive, Words
  <2>2. n = [m EXCEPT !.vtable[o] = F, !.lo[o] = b,
                      !.allocated = @ \cup {b}, !.block[b] = x,
                      !.live = @ \cup {b}, !.faults = @ \cup {}]
    <3>1. assign(m, o, x, F, size) = generic_assign(m, o, x)
      BY <1>6 DEF assign
    <3>2. BeginLifetime(m, b) = [m EXCEPT !.live = @ \cup {b}, !.faults = @ \cup {}]
      BY <2>1 DEF BeginLifetime, If
    <3>3. assign(m, o, x, F, size)
            = [BeginLifetime(m, b) EXCEPT !.allocated = @ \cup {b}, !.block[b] = x, !.lo[o] = b]
      BY <3>1, Zenon DEF generic_assign
    <3> HIDE DEF F, b
    <3>4. assign(m, o, x, F, size)
            = [m EXCEPT !.live = @ \cup {b}, !.faults = @ \cup {},
                        !.allocated = @ \cup {b}, !.block[b] = x, !.lo[o] = b]
      BY <3>2, <3>3
    <3> QED  BY <1>1, <3>4 DEF MemoryType
  <2> HIDE DEF n, F, b
  <2>3. n \in MemoryType /\ n.faults \subseteq Tolerated
    BY <1>1, <2>1, <2>2 DEF MemoryType, Words
  <2>4. /\ Good(n, o) /\ HeldBlock(n, o) = {b}
        /\ n.vtable[o] = F /\ TargetOf(n, o) = x
    BY <1>1, <1>6, <2>1, <2>2, ManagerType
    DEF MemoryType, Good, Manager, TargetOf, Target, Pointee, HeldBlock, F
  <2>5. SameElsewhere(m, n, {o}, {o} \cup HeldBlock(n, o))
    BY <1>1, <2>2, <2>4 DEF SameElsewhere, MemoryType
  <2>6. /\ n.allocated = m.allocated \cup HeldBlock(n, o)
        /\ HeldBlock(n, o) \cap m.allocated = {}
        /\ \A c \in m.allocated : n.block[c] = m.block[c]
    BY <1>1, <2>1, <2>2, <2>4 DEF MemoryType
  <2> QED  BY <2>3, <2>4, <2>5, <2>6, AddOwner DEF n, F
<1> QED  BY <1>2, <1>3, <1>4, <1>5, <1>6, ManagerType DEF Managers

-----------------------------------------------------------------------------
(* Clearing, marking empty, retiring: what touches no target. *)

(* debug_clear writes the bytes it is given and no others. *)
LEMMA DebugClear ==
  ASSUME NEW m \in MemoryType, NEW o \in Objects
  PROVE  BufferOnly(m, debug_clear(m, o), o) /\ BufferOnly(m, debug_clear_ptr(m, o), o)
<1>1. AllOnes \in Words
  BY DEF Words
<1>2. BufferOnly(m, m, o)
  BY DEF BufferOnly
<1>3. BufferOnly(m, [m EXCEPT !.lo[o] = AllOnes], o)
  BY <1>1 DEF BufferOnly, MemoryType
<1>4. BufferOnly(m, [m EXCEPT !.lo[o] = AllOnes, !.hi[o] = AllOnes], o)
  BY <1>1 DEF BufferOnly, MemoryType
<1> QED  BY <1>2, <1>3, <1>4 DEF debug_clear, debug_clear_ptr

(* What is written into an object that owns nothing is of no consequence:  *)
(* debug_clear, retire, and a constructor that fails in the buffer.        *)
LEMMA BufferSound ==
  ASSUME NEW m, NEW A, Sound(m, A), NEW o \in Objects \ A, NEW n, BufferOnly(m, n, o)
  PROVE  Sound(n, A) /\ SameTargets(m, n, A)
<1>1. /\ n \in MemoryType /\ m \in MemoryType /\ A \subseteq Objects
      /\ m.faults \subseteq Tolerated /\ Exclusive(m, A)
      /\ \A p \in A : Good(m, p) /\ n.lo[p] = m.lo[p] /\ n.hi[p] = m.hi[p]
  BY DEF Sound, BufferOnly
<1>2. ASSUME NEW p \in A PROVE Good(n, p)
  <2>1. Good(m, p)
    BY <1>1
  <2> QED  BY <1>1, <2>1 DEF BufferOnly, Good, Manager, Target, Pointee
<1>3. Exclusive(n, A)
  BY <1>1 DEF Exclusive, BufferOnly
<1>4. SameTargets(m, n, A)
  BY <1>1 DEF BufferOnly, SameTargets, SameBlock, TargetOf, Target, Pointee
<1> QED  BY <1>1, <1>2, <1>3, <1>4 DEF Sound, BufferOnly

(* What two calls in a row leave alone. *)
LEMMA SameTargetsChain ==
  ASSUME NEW m, NEW n, NEW k, NEW A, NEW B, NEW C,
         SameTargets(m, n, A), SameTargets(n, k, B), C \subseteq A, C \subseteq B
  PROVE  SameTargets(m, k, C)
BY DEF SameTargets, SameBlock

(* debug_clear of an object that owns nothing, as a constructor begins. *)
LEMMA ClearedSound ==
  ASSUME NEW m, NEW A, Sound(m, A), NEW o \in Objects \ A
  PROVE  LET n == debug_clear(m, o)
         IN  /\ Sound(n, A) /\ SameTargets(m, n, A)
             /\ n.vtable = m.vtable /\ n.allocated = m.allocated
BY DebugClear, BufferSound DEF Sound, BufferOnly

(* callable_base( empty_handler_vtable, EmptyHandler ), clear() and cleaner*)
(* give an object that owns nothing the vtable of the empty handler, which *)
(* makes an owner of it.                                                   *)
LEMMA EmptySound ==
  ASSUME NEW m, NEW A, Sound(m, A), NEW o \in Objects \ A, NEW E \in EmptyVtables
  PROVE  LET n == [m EXCEPT !.vtable[o] = E]
         IN  /\ Sound(n, A \cup {o}) /\ SameTargets(m, n, A)
             /\ n.vtable[o] = E /\ n.allocated = m.allocated
<1> DEFINE n == [m EXCEPT !.vtable[o] = E]
<1>1. m \in MemoryType /\ m.faults \subseteq Tolerated /\ o \notin m.live
  BY Distinct DEF Sound, Exclusive, MemoryType
<1>2. n \in MemoryType /\ E \in Vtables /\ n.vtable[o] = E /\ n.allocated = m.allocated
  BY <1>1 DEF MemoryType, Vtables
<1>3. Good(n, o) /\ HeldBlock(n, o) = {}
  BY <1>1, <1>2, ManagerType DEF Good, Manager, HeldBlock, MemoryType
<1>4. SameElsewhere(m, n, {o}, {o} \cup HeldBlock(n, o))
  BY <1>1 DEF SameElsewhere, MemoryType
<1>5. /\ n.allocated = m.allocated \cup HeldBlock(n, o) /\ n.faults = m.faults
      /\ \A b \in m.allocated : n.block[b] = m.block[b]
  BY <1>3
<1> HIDE DEF n
<1>6. Sound(n, A \cup {o}) /\ SameTargets(m, n, A)
  BY <1>1, <1>2, <1>3, <1>4, <1>5, AddOwner
<1> QED  BY <1>2, <1>6 DEF n

(* An object that no longer exists may hold anything. *)
LEMMA RetireSound ==
  ASSUME NEW m, NEW A, Sound(m, A), NEW o \in Objects \ A
  PROVE  /\ Sound(retire(m, o), A) /\ SameTargets(m, retire(m, o), A)
         /\ retire(m, o).allocated = m.allocated
<1>1. Sound(retire(m, o), A) /\ SameTargets(m, retire(m, o), A)
  BY OutsideOwners DEF retire, Words
<1>2. retire(m, o).allocated = m.allocated
  BY DEF retire, Sound, MemoryType
<1> QED  BY <1>1, <1>2

-----------------------------------------------------------------------------
(* destroy_target makes a non-owner of an owner. *)

(* For each of the five managers: the target ends, its block is returned,  *)
(* and neither happens to a target that is not there.                      *)
LEMMA DestroyTargetSound ==
  ASSUME NEW m, NEW A, Sound(m, A), NEW o \in A
  PROVE  LET n == destroy_target(m, o, m.vtable[o])
         IN  /\ Sound(n, A \ {o}) /\ SameTargets(m, n, A \ {o})
             /\ n.vtable = m.vtable
             /\ n.allocated = m.allocated \ HeldBlock(m, o)
<1> DEFINE t == m.vtable[o]
           n == destroy_target(m, o, t)
           b == m.lo[o]
           Destroyed == /\ Sound(n, A \ {o}) /\ SameTargets(m, n, A \ {o})
                        /\ n.vtable = m.vtable
                        /\ n.allocated = m.allocated \ HeldBlock(m, o)
<1> SUFFICES Destroyed
  OBVIOUS
<1>1. /\ m \in MemoryType /\ o \in Objects /\ Good(m, o)
      /\ m.faults \subseteq Tolerated
  BY DEF Sound
<1>2. CASE functor_manager(t) \in {"ptr", "trivial_small"}
  <2>1. BufferOnly(m, n, o)
    <3>1. n = debug_clear_ptr(m, o) \/ n = debug_clear(m, o)
      BY <1>2 DEF destroy_target
    <3> QED  BY <1>1, <3>1, DebugClear
  <2>2. HeldBlock(m, o) = {} /\ o \notin m.live
    BY <1>1, <1>2, ManagerType DEF HeldBlock, Good, Manager
  <2> HIDE DEF n
  <2>3. SameElsewhere(m, n, {o}, {o})
    BY <2>1 DEF BufferOnly, SameElsewhere
  <2> QED  BY <1>1, <2>1, <2>2, <2>3, RemoveOwner DEF BufferOnly
<1>3. CASE functor_manager(t) = "small"
  <2> DEFINE k == EndLifetime(m, o)
  <2>1. HeldBlock(m, o) = {} /\ o \in m.live
    BY <1>1, <1>3, ManagerType DEF HeldBlock, Good, Manager
  <2>2. k = [m EXCEPT !.live = @ \ {o}, !.faults = @ \cup {}]
    BY <2>1 DEF EndLifetime, If
  <2>3. n = debug_clear(k, o) \/ n = debug_clear_ptr(k, o)
    BY <1>3 DEF destroy_target, small_destroy, debug_clear_target
  <2> HIDE DEF n, k
  <2>4. k \in MemoryType
    BY <1>1, <2>2 DEF MemoryType
  <2>5. BufferOnly(k, n, o)
    BY <1>1, <2>3, <2>4, DebugClear
  <2>6. /\ n.vtable = m.vtable /\ n.allocated = m.allocated /\ n.block = m.block
        /\ n.live = m.live \ {o} /\ n.faults = m.faults /\ n \in MemoryType
    BY <1>1, <2>2, <2>5 DEF BufferOnly, MemoryType
  <2>7. SameElsewhere(m, n, {o}, {o})
    BY <1>1, <2>2, <2>5 DEF BufferOnly, SameElsewhere, MemoryType
  <2>8. /\ SameElsewhere(m, n, {o}, {o} \cup HeldBlock(m, o))
        /\ ({o} \cup HeldBlock(m, o)) \cap n.live = {}
        /\ n.allocated = m.allocated \ HeldBlock(m, o) /\ n.faults \subseteq Tolerated
        /\ \A c \in n.allocated : n.block[c] = m.block[c]
    BY <1>1, <2>1, <2>6, <2>7
  <2>9. Sound(n, A \ {o}) /\ SameTargets(m, n, A \ {o})
    BY <2>6, <2>8, RemoveOwner
  <2> QED  BY <2>6, <2>8, <2>9
<1>4. CASE functor_manager(t) = "trivial_heap"
  <2> DEFINE k == deallocate(m, b)
  <2>1. /\ HeldBlock(m, o) = {b} /\ b \in m.allocated /\ b \notin m.live /\ o \notin m.live
        /\ b \in Blocks /\ Junk \in Words
    BY <1>1, <1>4, ManagerType DEF HeldBlock, Good, Manager, MemoryType, Words
  <2>2. k = [m EXCEPT !.allocated = @ \ {b}, !.block[b] = Junk, !.faults = @ \cup {}]
    BY <2>1 DEF deallocate, If
  <2>3. n = debug_clear(k, o)
    BY <1>4 DEF destroy_target, trivial_heap_destroy
  <2> HIDE DEF n, k, b
  <2>4. k \in MemoryType
    BY <1>1, <2>1, <2>2 DEF MemoryType
  <2>5. BufferOnly(k, n, o)
    BY <1>1, <2>3, <2>4, DebugClear
  <2>6. /\ n.vtable = m.vtable /\ n.allocated = m.allocated \ {b} /\ n \in MemoryType
        /\ n.live = m.live /\ n.faults = m.faults
        /\ \A c \in n.allocated : n.block[c] = m.block[c]
    BY <1>1, <2>1, <2>2, <2>5 DEF BufferOnly, MemoryType
  <2>7. SameElsewhere(m, n, {o}, {o} \cup {b})
    BY <1>1, <2>2, <2>5 DEF BufferOnly, SameElsewhere, MemoryType
  <2>8. /\ SameElsewhere(m, n, {o}, {o} \cup HeldBlock(m, o))
        /\ ({o} \cup HeldBlock(m, o)) \cap n.live = {}
        /\ n.allocated = m.allocated \ HeldBlock(m, o) /\ n.faults \subseteq Tolerated
    BY <1>1, <2>1, <2>6, <2>7
  <2>9. Sound(n, A \ {o}) /\ SameTargets(m, n, A \ {o})
    BY <2>6, <2>8, RemoveOwner
  <2> QED  BY <2>6, <2>8, <2>9
<1>5. CASE functor_manager(t) = "generic"
  <2> DEFINE e == EndLifetime(m, b)
             k == deallocate(e, b)
  <2>1. /\ HeldBlock(m, o) = {b} /\ b \in m.allocated /\ b \in m.live /\ o \notin m.live
        /\ b \in Blocks /\ Junk \in Words
    BY <1>1, <1>5, ManagerType DEF HeldBlock, Good, Manager, MemoryType, Words
  <2>2. e = [m EXCEPT !.live = @ \ {b}, !.faults = @ \cup {}]
    BY <2>1 DEF EndLifetime, If
  <2>3. n = debug_clear(k, o)
    BY <1>5 DEF destroy_target, generic_destroy
  <2> HIDE DEF e, b
  <2>4. e.allocated = m.allocated /\ e.live = m.live \ {b} /\ e \in MemoryType
    BY <1>1, <2>2 DEF MemoryType
  <2>5. k = [e EXCEPT !.allocated = @ \ {b}, !.block[b] = Junk, !.faults = @ \cup {}]
    BY <2>1, <2>4 DEF deallocate, If
  <2> HIDE DEF n, k
  <2>6. k \in MemoryType
    BY <2>1, <2>4, <2>5 DEF MemoryType
  <2>7. BufferOnly(k, n, o)
    BY <1>1, <2>3, <2>6, DebugClear
  <2>8. /\ n.vtable = m.vtable /\ n.allocated = m.allocated \ {b} /\ n \in MemoryType
        /\ n.live = m.live \ {b} /\ n.faults = m.faults
        /\ \A c \in n.allocated : n.block[c] = m.block[c]
    BY <1>1, <2>1, <2>2, <2>5, <2>7 DEF BufferOnly, MemoryType
  <2>9. SameElsewhere(m, n, {o}, {o} \cup {b})
    BY <1>1, <2>2, <2>5, <2>7, <2>8 DEF BufferOnly, SameElsewhere, MemoryType
  <2>10. /\ SameElsewhere(m, n, {o}, {o} \cup HeldBlock(m, o))
         /\ ({o} \cup HeldBlock(m, o)) \cap n.live = {}
         /\ n.allocated = m.allocated \ HeldBlock(m, o) /\ n.faults \subseteq Tolerated
    BY <1>1, <2>1, <2>8, <2>9
  <2>11. Sound(n, A \ {o}) /\ SameTargets(m, n, A \ {o})
    BY <2>8, <2>10, RemoveOwner
  <2> QED  BY <2>8, <2>10, <2>11
<1> QED  BY <1>2, <1>3, <1>4, <1>5, ManagerType DEF Managers

-----------------------------------------------------------------------------
(* move: the source hands its target over and becomes empty. *)

(* In u the target that s has in m has been constructed in d, and s no     *)
(* longer has a lifetime; the vtables are still those of m.                *)
HandedOver(m, u, s, d) ==
  /\ u \in MemoryType
  /\ u.vtable = m.vtable /\ u.allocated = m.allocated
  /\ u.block = m.block /\ u.faults = m.faults
  /\ u.lo[d] = m.lo[s]
  /\ UsesHi(m.vtable[s]) => u.hi[d] = m.hi[s]
  /\ \A p \in Objects \ {s, d} : u.lo[p] = m.lo[p] /\ u.hi[p] = m.hi[p]
  /\ \A loc \in (Objects \cup Blocks) \ {s, d} : loc \in u.live <=> loc \in m.live
  /\ s \notin u.live
  /\ d \in u.live <=> s \in m.live

(* w with the vtables a move leaves: that of s in d, an empty one in s.    *)
Revtabled(m, w, s, d, E) ==
  [w EXCEPT !.vtable[d] = m.vtable[s], !.vtable[s] = E]

(* The target that s of m had is in d of n, s is empty, and the heap and   *)
(* the targets of others are as they were.                                 *)
Moved(m, n, A, s, d, E) ==
  /\ Sound(n, A \cup {d})
  /\ SameTargets(m, n, A \ {s})
  /\ n.vtable[d] = m.vtable[s] /\ TargetOf(n, d) = TargetOf(m, s)
  /\ SameBlock(m, s, n, d)
  /\ n.vtable[s] = E
  /\ n.allocated = m.allocated

(* Once the target has been handed over, and whatever the source buffer is *)
(* cleared with, the two vtable pointers settle who owns it.               *)
LEMMA HandedOverSound ==
  ASSUME NEW m, NEW A, Sound(m, A), NEW s \in A, NEW d \in Objects \ A,
         NEW E \in EmptyVtables,
         NEW u, HandedOver(m, u, s, d), NEW w, BufferOnly(u, w, s)
  PROVE  Moved(m, Revtabled(m, w, s, d, E), A, s, d, E)
<1> DEFINE k == [w EXCEPT !.vtable[d] = m.vtable[s]]
           n == [k EXCEPT !.vtable[s] = E]
           B == (A \ {s}) \cup {d}
<1>1. /\ m \in MemoryType /\ s \in Objects /\ s # d
      /\ m.faults \subseteq Tolerated /\ m.vtable[s] \in Vtables
  BY DEF Sound, Good
<1>2. w \in MemoryType /\ k \in MemoryType
  BY <1>1 DEF BufferOnly, MemoryType
<1>3. /\ k.lo = w.lo /\ k.hi = w.hi /\ k.allocated = w.allocated /\ k.block = w.block
      /\ k.live = w.live /\ k.faults = w.faults /\ k.vtable[d] = m.vtable[s]
      /\ \A p \in Objects \ {d} : k.vtable[p] = w.vtable[p]
  BY <1>2 DEF MemoryType
<1> HIDE DEF k
<1>4. SameElsewhere(m, k, {s, d}, {s, d})
  BY <1>1, <1>3 DEF HandedOver, BufferOnly, SameElsewhere
<1>5. /\ k.faults = m.faults /\ k.allocated = m.allocated /\ k.block = m.block
      /\ k.lo[d] = m.lo[s] /\ s \notin k.live /\ (d \in k.live <=> s \in m.live)
      /\ UsesHi(m.vtable[s]) => k.hi[d] = m.hi[s]
  BY <1>1, <1>3 DEF HandedOver, BufferOnly
<1>6. Sound(k, B) /\ SameTargets(m, k, A \ {s}) /\ TargetOf(k, d) = TargetOf(m, s)
  <2>1. k \in MemoryType /\ k.faults \subseteq Tolerated /\ k.vtable[d] = m.vtable[s]
    BY <1>1, <1>2, <1>3, <1>5
  <2> HIDE DEF n
  <2>2. Sound(k, B)
    BY <1>4, <1>5, <2>1, TransferOwner
  <2>3. SameTargets(m, k, A \ {s})
    BY <1>4, <1>5, <2>1, TransferOwner
  <2>4. TargetOf(k, d) = TargetOf(m, s)
    BY <1>5, <2>1 DEF TargetOf, Target, Pointee
  <2> QED  BY <2>2, <2>3, <2>4
<1>7. /\ Sound(n, B \cup {s}) /\ SameTargets(k, n, B)
      /\ n.vtable[s] = E /\ n.allocated = k.allocated
  BY <1>1, <1>6, EmptySound
<1>8. n = Revtabled(m, w, s, d, E)
  BY <1>2 DEF k, Revtabled, MemoryType
<1>9. B \cup {s} = A \cup {d}
  OBVIOUS
<1> HIDE DEF n
<1>10. SameTargets(m, n, A \ {s})
  BY <1>6, <1>7 DEF SameTargets, SameBlock
<1>11. /\ n.vtable[d] = m.vtable[s] /\ TargetOf(n, d) = TargetOf(m, s)
       /\ SameBlock(m, s, n, d)
  <2>1. /\ n.vtable[d] = k.vtable[d] /\ n.lo[d] = k.lo[d]
        /\ n.allocated = k.allocated /\ n.block = k.block
    BY <1>1, <1>2 DEF n, MemoryType
  <2> QED  BY <1>3, <1>5, <1>6, <2>1 DEF TargetOf, Target, Pointee, SameBlock
<1> QED  BY <1>5, <1>7, <1>8, <1>9, <1>10, <1>11 DEF Moved

(* mover<trivial>: the bytes of the buffer change hands. *)
LEMMA BitwiseMoveSound ==
  ASSUME NEW m, NEW A, Sound(m, A), NEW s \in A, NEW d \in Objects \ A,
         NEW E \in EmptyVtables
  PROVE  Moved(m, Revtabled(m, bitwise(m, s, d, TRUE), s, d, E), A, s, d, E)
<1> DEFINE u == bitwise(m, s, d, TRUE)
<1>1. m \in MemoryType /\ s \in Objects /\ s # d /\ d \notin m.live
  BY Distinct DEF Sound, Exclusive, MemoryType
<1>2. HandedOver(m, u, s, d)
  BY <1>1 DEF HandedOver, bitwise, MemoryType
<1> HIDE DEF u
<1>3. BufferOnly(u, u, s)
  BY <1>2 DEF BufferOnly, HandedOver
<1> QED  BY <1>2, <1>3, HandedOverSound DEF u

(* functor_manager::move, for each of the five managers: the target has a  *)
(* new owner, and no block was allocated or freed.                         *)
LEMMA MoveTargetSound ==
  ASSUME NEW m, NEW A, Sound(m, A), NEW s \in A, NEW d \in Objects \ A,
         NEW E \in EmptyVtables
  PROVE  Moved(m, Revtabled(m, move(m, s, d, m.vtable[s]), s, d, E), A, s, d, E)
<1> DEFINE t == m.vtable[s]
           w == move(m, s, d, t)
<1>1. /\ m \in MemoryType /\ s \in Objects /\ s # d /\ Good(m, s)
      /\ d \notin m.live /\ m.lo[s] \in Words /\ m.hi[s] \in Words
  BY Distinct DEF Sound, Exclusive, MemoryType
<1>2. CASE functor_manager(t) = "ptr"
  <2> DEFINE u == ptr_assign(m, d, m.lo[s])
  <2>1. HandedOver(m, u, s, d)
    BY <1>1, <1>2, ManagerType DEF HandedOver, ptr_assign, Manager, Good, MemoryType, UsesHi
  <2>2. w = debug_clear_ptr(u, s)
    BY <1>2 DEF move, ptr_move, OnHeap
  <2> HIDE DEF u, w
  <2>3. BufferOnly(u, w, s)
    BY <1>1, <2>1, <2>2, DebugClear DEF HandedOver
  <2> QED  BY <2>1, <2>3, HandedOverSound DEF w
<1>3. CASE functor_manager(t) = "trivial_small" \/ OnHeap(t)
  <2> DEFINE u == [m EXCEPT !.lo[d] = m.lo[s], !.hi[d] = m.hi[s]]
  <2>1. s \notin m.live
    BY <1>1, <1>3, ManagerType DEF Good, Manager
  <2>2. HandedOver(m, u, s, d)
    BY <1>1, <2>1 DEF HandedOver, MemoryType
  <2>3. w = debug_clear(u, s)
    <3>1. functor_manager(t) \notin {"ptr", "small"}
      BY <1>3, ManagerType
    <3> QED  BY <1>3, <3>1 DEF move, heap_move, trivial_small_move, OnHeap
  <2> HIDE DEF u, w
  <2>4. BufferOnly(u, w, s)
    BY <1>1, <2>2, <2>3, DebugClear DEF HandedOver
  <2> QED  BY <2>2, <2>4, HandedOverSound DEF w
<1>4. CASE functor_manager(t) = "small"
  <2> DEFINE x == m.lo[s]
             k == [m EXCEPT !.faults = @ \cup If(s \notin m.live, "read_dead")]
             a == store(k, d, x, t)
             c == small_assign(k, d, x, t)
             u == EndLifetime(c, s)
  <2>1. s \in m.live
    BY <1>1, <1>4 DEF Good, Manager
  <2>2. w = debug_clear(u, s) \/ w = debug_clear_ptr(u, s)
    BY <1>4 DEF move, small_move, small_destroy, debug_clear_target, OnHeap
  <2>3. k = m
    BY <1>1, <2>1 DEF If, MemoryType
  <2>4. x \in Words
    BY <1>1
  <2> HIDE DEF k, x, t
  <2>5. BufferOnly(m, a, d) /\ a.lo[d] = x /\ (Wide(t) => a.hi[d] = x)
    BY <1>1, <2>3, <2>4, StoreWords
  <2>6. c = [a EXCEPT !.live = @ \cup {d}, !.faults = @ \cup {}]
    BY <1>1, <2>5 DEF small_assign, BeginLifetime, If, BufferOnly
  <2> HIDE DEF w, k, a, c
  <2>7. c \in MemoryType /\ c.live = m.live \cup {d} /\ c.faults = m.faults
    BY <1>1, <2>5, <2>6 DEF MemoryType, BufferOnly
  <2>8. u = [c EXCEPT !.live = @ \ {s}, !.faults = @ \cup {}]
    BY <2>1, <2>7 DEF EndLifetime, If
  <2> HIDE DEF u
  <2>9. u \in MemoryType /\ u.live = (m.live \cup {d}) \ {s} /\ u.faults = m.faults
    BY <2>7, <2>8 DEF MemoryType
  <2>10. /\ u.vtable = m.vtable /\ u.allocated = m.allocated /\ u.block = m.block
         /\ u.lo[d] = x /\ (Wide(t) => u.hi[d] = x)
         /\ \A p \in Objects \ {s, d} : u.lo[p] = m.lo[p] /\ u.hi[p] = m.hi[p]
    BY <1>1, <2>5, <2>6, <2>8 DEF MemoryType, BufferOnly
  <2>11. (Wide(t) => m.hi[s] = x) /\ m.lo[s] = x /\ (UsesHi(t) => Wide(t))
    BY <1>1, <1>4 DEF x, t, Good, UsesHi
  <2>12. HandedOver(m, u, s, d)
    BY <1>1, <2>1, <2>9, <2>10, <2>11 DEF HandedOver, t
  <2>13. BufferOnly(u, w, s)
    BY <1>1, <2>2, <2>9, DebugClear
  <2> QED  BY <2>12, <2>13, HandedOverSound DEF w, t
<1> QED  BY <1>2, <1>3, <1>4, ManagerType DEF Managers

-----------------------------------------------------------------------------
(* clone: the destination owns a copy, the source what it owned. *)

(* m with a clone of the target of s in d, and the vtable that goes with it*)
Cloned(m, s, d) ==
  [clone(m, s, d, m.vtable[s]) EXCEPT !.vtable[d] = m.vtable[s]]

(* functor_manager::clone, under any vtable: the copy is in words or in a  *)
(* block of its own, and of an empty callable it is an empty callable.     *)
LEMMA CloneSound ==
  ASSUME NEW m, NEW A, Sound(m, A), NEW s \in A, NEW d \in Objects \ A,
         OnHeap(m.vtable[s]) => \E b \in Blocks : b \notin m.allocated
  PROVE  LET n == Cloned(m, s, d)
         IN  /\ Sound(n, A \cup {d}) /\ SameTargets(m, n, A)
             /\ n.vtable[d] = m.vtable[s]
             /\ m.vtable[s] \notin EmptyVtables => TargetOf(n, d) = TargetOf(m, s)
<1> DEFINE t == m.vtable[s]
           x == Target(m, s, t)
           n == clone(m, s, d, t)
           r == [n EXCEPT !.vtable[d] = t]
<1>1. /\ m \in MemoryType /\ s \in Objects /\ Good(m, s)
      /\ m.lo[s] \in Words /\ m.hi[s] \in Words
  BY DEF Sound, MemoryType
<1>2. ReadFault(m, s, t) = {}
  BY <1>1, ManagerType DEF ReadFault, If, Good, Manager, OnHeap
<1>3. [m EXCEPT !.faults = @ \cup ReadFault(m, s, t)] = m
  BY <1>1, <1>2 DEF MemoryType
<1>4. CASE t \in EmptyVtables
  <2>1. n = [m EXCEPT !.lo[d] = m.lo[s]]
    BY <1>3, <1>4, ManagerType DEF clone, assign, ptr_assign, Target
  <2> HIDE DEF n
  <2>2. BufferOnly(m, n, d)
    BY <1>1, <2>1 DEF BufferOnly, MemoryType
  <2>3. Sound(n, A) /\ SameTargets(m, n, A)
    BY <2>2, BufferSound
  <2>4. Sound(r, A \cup {d}) /\ SameTargets(n, r, A) /\ r.vtable[d] = t
    BY <1>4, <2>3, EmptySound
  <2> HIDE DEF r
  <2>5. SameTargets(m, r, A)
    BY <2>3, <2>4 DEF SameTargets, SameBlock
  <2> QED  BY <1>4, <2>4, <2>5 DEF r, n, Cloned
<1>5. CASE t \notin EmptyVtables
  <2>1. x \in Images /\ x.type = t
    BY <1>1, <1>5 DEF Good
  <2>2. n = assign(m, d, x, t, m.hi[s])
    <3>1. CASE functor_manager(t) = "trivial_small"
      <4>1. x = m.lo[s] /\ m.hi[s] = m.lo[s]
        BY <1>1, <3>1, ManagerType DEF Good, Target
      <4> HIDE DEF x
      <4> QED  BY <1>3, <3>1, <4>1 DEF clone, assign, trivial_small_assign
    <3>2. CASE functor_manager(t) # "trivial_small"
      BY <1>3, <3>2 DEF clone
    <3> QED  BY <3>1, <3>2
  <2>3. functor_manager(t) = "trivial_heap" => m.hi[s] = t
    BY <1>1 DEF Good, Manager
  <2>4. x = TargetOf(m, s)
    BY DEF TargetOf
  <2> DEFINE q == [assign(m, d, x, x.type, m.hi[s]) EXCEPT !.vtable[d] = x.type]
  <2>5. q = r
    BY <2>1, <2>2
  <2> HIDE DEF n, x, t, r
  <2>6. /\ Sound(q, A \cup {d}) /\ SameTargets(m, q, A)
        /\ q.vtable[d] = x.type /\ TargetOf(q, d) = x
    BY <1>1, <2>1, <2>3, AssignSound DEF t
  <2> HIDE DEF q
  <2>7. /\ Sound(r, A \cup {d}) /\ SameTargets(m, r, A)
        /\ r.vtable[d] = t /\ TargetOf(r, d) = TargetOf(m, s)
    BY <2>1, <2>4, <2>5, <2>6
  <2> QED  BY <2>7 DEF r, n, t, Cloned
<1> QED  BY <1>4, <1>5

-----------------------------------------------------------------------------
(* Owners of nothing, and assigns that fail. *)

(* An owner with the vtable of an empty handler owns nothing. *)
LEMMA DropEmpty ==
  ASSUME NEW m, NEW A, Sound(m, A), NEW o \in A, m.vtable[o] \in EmptyVtables
  PROVE  Sound(m, A \ {o})
<1>1. m \in MemoryType /\ m.faults \subseteq Tolerated /\ Good(m, o)
  BY DEF Sound
<1>2. HeldBlock(m, o) = {} /\ o \notin m.live
  BY <1>1, ManagerType DEF HeldBlock, Good, Manager
<1>3. SameElsewhere(m, m, {o}, {o})
  BY DEF SameElsewhere
<1> QED  BY <1>1, <1>2, <1>3, RemoveOwner

(* A failed assign leaves nothing behind that is owned or lives: what it   *)
(* wrote is in a buffer that holds nothing.                                *)
LEMMA AssignFailedSound ==
  ASSUME NEW m, NEW A, Sound(m, A), NEW o \in Objects \ A, NEW F \in Functors,
         NEW form \in Forms, NEW why \in AssignFailures(F, form),
         SafeGenerics
  PROVE  LET n == assign_failed(m, o, F, why)
         IN  /\ Sound(n, A) /\ SameTargets(m, n, A)
             /\ n.vtable = m.vtable
             /\ n.allocated = m.allocated
<1> DEFINE n == assign_failed(m, o, F, why)
<1>1. m \in MemoryType /\ m.faults \subseteq Tolerated
  BY DEF Sound
<1>2. CASE why = "allocate" /\ functor_manager(F) = "trivial_heap"
  <2>1. n = [m EXCEPT !.faults = @ \cup If(UnclearedBuffer(m, o), "assertion")]
    BY <1>2 DEF assign_failed
  <2> HIDE DEF n
  <2>2. /\ n \in MemoryType /\ n.faults \subseteq Tolerated
        /\ n.vtable = m.vtable /\ n.lo = m.lo /\ n.hi = m.hi
        /\ n.allocated = m.allocated /\ n.block = m.block /\ n.live = m.live
    BY <1>1, <1>2, <2>1 DEF MemoryType, If, Faults, Tolerated, UnclearedBuffer
  <2>3. ASSUME NEW p \in A PROVE Good(n, p)
    <3>1. Good(m, p)
      BY DEF Sound
    <3> QED  BY <2>2, <3>1 DEF Good, Manager, Target, Pointee
  <2>4. Exclusive(n, A)
    BY <2>2 DEF Sound, Exclusive
  <2>5. SameTargets(m, n, A)
    BY <2>2 DEF SameTargets, SameBlock, TargetOf, Target, Pointee
  <2> QED  BY <2>2, <2>3, <2>4, <2>5 DEF Sound, n
<1>3. CASE why = "construct" /\ functor_manager(F) = "small"
  <2>1. n = store(m, o, Junk, F) /\ Junk \in Words
    BY <1>3 DEF assign_failed, small_assign_failed, Words
  <2> HIDE DEF n
  <2>2. BufferOnly(m, n, o) /\ n.vtable = m.vtable /\ n.allocated = m.allocated
    BY <1>1, <2>1, StoreWords DEF BufferOnly
  <2> QED  BY <2>2, BufferSound DEF n
<1>4. CASE /\ ~(why = "allocate" /\ functor_manager(F) = "trivial_heap")
           /\ ~(why = "construct" /\ functor_manager(F) = "small")
  <2>1. ~(why = "construct" /\ functor_manager(F) = "generic")
    BY DEF AssignFailures, Throws, SafeGenerics, Forms
  <2>2. n = m
    BY <1>4, <2>1 DEF assign_failed
  <2> QED  BY <2>2 DEF SameTargets, SameBlock
<1> QED  BY <1>2, <1>3, <1>4

-----------------------------------------------------------------------------
(* What ownership says of the whole memory. *)

(* Constructions and destructions have paired up.                          *)
LEMMA SoundLifetimes ==
  ASSUME NEW m, NEW A, Sound(m, A)
  PROVE  m.live = {c \in A : Manager(m, c) = "small"}
                    \cup {m.lo[c] : c \in {d \in A : Manager(m, d) = "generic"}}
<1> DEFINE S == {c \in A : Manager(m, c) = "small"}
           G == {c \in A : Manager(m, c) = "generic"}
<1>1. Exclusive(m, A) /\ \A c \in A : Good(m, c)
  BY DEF Sound
<1>2. ASSUME NEW loc \in m.live PROVE loc \in S \cup {m.lo[c] : c \in G}
  <2>1. loc \in A \/ loc \in m.allocated
    BY <1>1 DEF Exclusive
  <2>2. CASE loc \in A
    BY <1>1, <2>2 DEF Good
  <2>3. CASE loc \in m.allocated
    <3>1. PICK c \in A : OnHeap(m.vtable[c]) /\ m.lo[c] = loc
      BY <1>1, <2>3 DEF Exclusive
    <3> QED  BY <1>1, <3>1 DEF Good
  <2> QED  BY <2>1, <2>2, <2>3
<1>3. S \subseteq m.live
  BY <1>1 DEF Good
<1>4. \A c \in G : m.lo[c] \in m.live
  BY <1>1, ManagerType DEF Good, Manager
<1> QED  BY <1>2, <1>3, <1>4

(* The blocks in use are those of the owners, each of one owner.           *)
LEMMA SoundBlocks ==
  ASSUME NEW m, NEW A, Sound(m, A)
  PROVE  /\ m.allocated = {m.lo[c] : c \in {d \in A : OnHeap(m.vtable[d])}}
         /\ \A c, d \in A : OnHeap(m.vtable[c]) /\ OnHeap(m.vtable[d]) /\ m.lo[c] = m.lo[d]
                            => c = d
BY DEF Sound, Exclusive, Good
=============================================================================
