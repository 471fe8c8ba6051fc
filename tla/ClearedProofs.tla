---------------------------- MODULE ClearedProofs ----------------------------
(***************************************************************************)
(* The all-ones words of a debug build: every buffer is cleared before a   *)
(* target is constructed in it, so the assertions of manager_trivial_heap  *)
(* hold.  Proved for any number of callables, functors, values and blocks. *)
(***************************************************************************)
EXTENDS CallableProofs

(* The traits and functors for which it is proved.  A bitwise move leaves  *)
(* the words of its source as they are, and a constructor that fails in    *)
(* the buffer of a callable that goes on to exist may leave anything in it.*)
ClearedTraits ==
  /\ ManagedTraits
  /\ DebugBuild =>
       /\ Moveable # "trivial"
       /\ \A F \in Functors :
            functor_manager(F) = "small" =>
              /\ Copyable # "na" => ~Shape[F].copyThrows
              /\ Moveable = "supported" => ~Shape[F].moveThrows

(* o holds nothing, and its words say so. *)
Blank(m, o) == DebugBuild => m.lo[o] = AllOnes /\ m.hi[o] = AllOnes

(* The words that the target of o does not use are all ones. *)
Tidy(m, o) ==
  DebugBuild =>
    /\ m.vtable[o] = EmptyVtable => m.lo[o] = AllOnes
    /\ ~UsesHi(m.vtable[o]) => m.hi[o] = AllOnes

Cleared(m, A) ==
  /\ "assertion" \notin m.faults
  /\ \A o \in A : Tidy(m, o)

(* The inductive invariant: ownership, and the words nobody uses.          *)
Neat(m, A) == Sound(m, A) /\ Cleared(m, A)

-----------------------------------------------------------------------------
(* What a call leaves alone. *)

(* n differs from m in the words of the objects of O only, and nothing new *)
(* was asserted in vain.                                                   *)
Beside(m, n, O) ==
  /\ \A p \in Objects \ O :
       n.vtable[p] = m.vtable[p] /\ n.lo[p] = m.lo[p] /\ n.hi[p] = m.hi[p]
  /\ "assertion" \in n.faults => "assertion" \in m.faults

LEMMA ClearedBeside ==
  ASSUME NEW m, NEW A, Cleared(m, A), NEW n, NEW O, Beside(m, n, O),
         NEW B \in SUBSET Objects, B \subseteq A \cup O,
         \A o \in B \cap O : Tidy(n, o)
  PROVE  Cleared(n, B)
BY DEF Cleared, Beside, Tidy

(* n differs from m in lifetimes, blocks and faults only. *)
SameWords(m, n) ==
  /\ n \in MemoryType
  /\ n.vtable = m.vtable /\ n.lo = m.lo /\ n.hi = m.hi
  /\ "assertion" \in n.faults => "assertion" \in m.faults

(* Lifetimes and the heap have nothing to do with the words of a buffer.   *)
LEMMA LifetimesKeepWords ==
  ASSUME NEW m \in MemoryType, NEW loc \in Objects \cup Blocks, NEW b
  PROVE  /\ SameWords(m, BeginLifetime(m, loc))
         /\ SameWords(m, EndLifetime(m, b))
         /\ SameWords(m, deallocate(m, b))
<1>1. SameWords(m, BeginLifetime(m, loc))
  BY DEF SameWords, BeginLifetime, MemoryType, If, Faults
<1>2. SameWords(m, EndLifetime(m, b))
  BY DEF SameWords, EndLifetime, MemoryType, If, Faults
<1>3. SameWords(m, deallocate(m, b))
  BY DEF SameWords, deallocate, MemoryType, If, Faults, Words
<1> QED  BY <1>1, <1>2, <1>3

(* debug_clear blanks the words it is given; the variant for pointers, one.*)
LEMMA ClearBlanks ==
  ASSUME NEW m \in MemoryType, NEW o \in Objects
  PROVE  /\ Blank(debug_clear(m, o), o) /\ Beside(m, debug_clear(m, o), {o})
         /\ Beside(m, debug_clear_ptr(m, o), {o})
         /\ (DebugBuild => m.hi[o] = AllOnes) => Blank(debug_clear_ptr(m, o), o)
BY DEF Blank, Beside, debug_clear, debug_clear_ptr, MemoryType

(* A target of one word does not use the other. *)
LEMMA OneWord ==
  /\ \A t : functor_manager(t) \in {"ptr", "generic"} => ~UsesHi(t)
  /\ \A t : functor_manager(t) = "small" => (UsesHi(t) <=> Wide(t))
  /\ \A t : functor_manager(t) \in {"trivial_small", "trivial_heap"} => UsesHi(t)
BY ManagerType DEF UsesHi

-----------------------------------------------------------------------------
(* The managers. *)

(* Destroying a target whose unused words are clear leaves a clear buffer. *)
LEMMA DestroyBlanks ==
  ASSUME NEW m \in MemoryType, NEW o \in Objects, Destructor # "trivial"
  PROVE  /\ Beside(m, destroy(m, o), {o})
         /\ Tidy(m, o) => Blank(destroy(m, o), o)
<1> DEFINE t == m.vtable[o]
           Done(n) == Beside(m, n, {o}) /\ (Tidy(m, o) => Blank(n, o))
<1>1. ASSUME NEW k, SameWords(m, k) PROVE Done(debug_clear(k, o))
  <2>1. Blank(debug_clear(k, o), o) /\ Beside(k, debug_clear(k, o), {o})
    BY <1>1, ClearBlanks DEF SameWords
  <2> QED  BY <1>1, <2>1 DEF SameWords, Beside
<1>2. SameWords(m, m)
  BY DEF SameWords
<1>3. CASE functor_manager(t) = "ptr"
  BY <1>3, ClearBlanks, OneWord DEF destroy, destroy_target, Tidy
<1>4. CASE functor_manager(t) = "trivial_small"
  BY <1>1, <1>2, <1>4 DEF destroy, destroy_target
<1>5. CASE functor_manager(t) = "small"
  <2> DEFINE k == EndLifetime(m, o)
  <2>1. SameWords(m, k)
    BY LifetimesKeepWords
  <2>2. destroy(m, o) = debug_clear_target(k, o, t)
    BY <1>5 DEF destroy, destroy_target, small_destroy
  <2> HIDE DEF k
  <2>3. CASE Wide(t)
    BY <1>1, <2>1, <2>2, <2>3 DEF debug_clear_target
  <2>4. CASE ~Wide(t)
    <3>1. destroy(m, o) = debug_clear_ptr(k, o)
      BY <2>2, <2>4 DEF debug_clear_target
    <3>2. Beside(k, debug_clear_ptr(k, o), {o})
      BY <2>1, ClearBlanks DEF SameWords
    <3>3. Tidy(m, o) => Blank(debug_clear_ptr(k, o), o)
      BY <1>5, <2>1, <2>4, ClearBlanks, OneWord DEF SameWords, Tidy
    <3> QED  BY <2>1, <3>1, <3>2, <3>3 DEF SameWords, Beside
  <2> QED  BY <2>3, <2>4
<1>6. CASE functor_manager(t) = "trivial_heap"
  BY <1>1, <1>6, LifetimesKeepWords DEF destroy, destroy_target, trivial_heap_destroy
<1>7. CASE functor_manager(t) = "generic"
  <2>1. SameWords(m, deallocate(EndLifetime(m, m.lo[o]), m.lo[o]))
    <3>1. SameWords(m, EndLifetime(m, m.lo[o]))
      BY LifetimesKeepWords
    <3> DEFINE k == EndLifetime(m, m.lo[o])
    <3> HIDE DEF k
    <3>2. ASSUME NEW k1, SameWords(m, k1) PROVE SameWords(m, deallocate(k1, m.lo[o]))
      <4>1. SameWords(k1, deallocate(k1, m.lo[o]))
        BY <3>2, LifetimesKeepWords DEF SameWords
      <4> QED  BY <3>2, <4>1 DEF SameWords
    <3> QED  BY <3>1, <3>2
  <2> QED  BY <1>1, <1>7, <2>1 DEF destroy, destroy_target, generic_destroy
<1> QED  BY <1>3, <1>4, <1>5, <1>6, <1>7, ManagerType DEF Managers

(* Assigning to a clear buffer asserts nothing in vain, and writes the     *)
(* words the target uses.                                                  *)
LEMMA AssignTidy ==
  ASSUME NEW m \in MemoryType, NEW o \in Objects, Blank(m, o),
         NEW x \in Images, NEW size,
         \E b \in Blocks : b \notin m.allocated
  PROVE  LET n == [assign(m, o, x, x.type, size) EXCEPT !.vtable[o] = x.type]
         IN  Beside(m, n, {o}) /\ Tidy(n, o)
<1> DEFINE F == x.type
           a == assign(m, o, x, F, size)
           n == [a EXCEPT !.vtable[o] = F]
<1>1. F # EmptyVtable
  BY OneEmptyVtable DEF Images
<1>2. /\ a.vtable = m.vtable
      /\ \A p \in Objects \ {o} : a.lo[p] = m.lo[p] /\ a.hi[p] = m.hi[p]
      /\ "assertion" \in a.faults => "assertion" \in m.faults
      /\ ~UsesHi(F) => a.hi[o] = m.hi[o]
      /\ a = [f \in DOMAIN m |-> a[f]]
  <2>0. /\ functor_manager(F) \in {"trivial_small", "trivial_heap"} => UsesHi(F)
        /\ functor_manager(F) = "small" => (UsesHi(F) <=> Wide(F))
    BY OneWord
  <2>1. CASE functor_manager(F) = "ptr"
    BY <2>1 DEF assign, ptr_assign, MemoryType
  <2>2. CASE functor_manager(F) = "trivial_small"
    BY <2>0, <2>2 DEF assign, trivial_small_assign, MemoryType
  <2>3. CASE functor_manager(F) = "small"
    BY <2>0, <2>3 DEF assign, small_assign, BeginLifetime, store, MemoryType, If
  <2>4. CASE functor_manager(F) = "trivial_heap"
    BY <2>0, <2>4 DEF assign, trivial_heap_assign, MemoryType, If, UnclearedBuffer, Blank
  <2>5. CASE functor_manager(F) = "generic"
    BY <2>5 DEF assign, generic_assign, BeginLifetime, MemoryType, If
  <2> QED  BY <2>1, <2>2, <2>3, <2>4, <2>5, ManagerType DEF Managers
<1> HIDE DEF a
<1>3. /\ n.lo = a.lo /\ n.hi = a.hi /\ n.faults = a.faults
      /\ n.vtable = [m.vtable EXCEPT ![o] = F]
  BY <1>2 DEF MemoryType
<1>4. n.vtable[o] = F /\ \A p \in Objects \ {o} : n.vtable[p] = m.vtable[p]
  BY <1>3 DEF MemoryType
<1> HIDE DEF n, F
<1>5. Beside(m, n, {o}) /\ Tidy(n, o)
  BY <1>1, <1>2, <1>3, <1>4 DEF Beside, Tidy, Blank
<1> QED  BY <1>5 DEF n, F, a

(* Cloning writes the words the source uses; those of an empty source are  *)
(* all ones.                                                               *)
LEMMA CloneTidy ==
  ASSUME NEW m, NEW A, Sound(m, A), NEW s \in A, Tidy(m, s), NEW d \in Objects \ A,
         Blank(m, d), Copyable # "trivial", \E b \in Blocks : b \notin m.allocated
  PROVE  Beside(m, copy_from(m, s, d), {d}) /\ Tidy(copy_from(m, s, d), d)
<1> DEFINE t == m.vtable[s]
           x == Target(m, s, t)
           n == copy_from(m, s, d)
           Done == Beside(m, n, {d}) /\ Tidy(n, d)
<1> SUFFICES Done
  OBVIOUS
<1>1. /\ m \in MemoryType /\ s \in Objects /\ d \in Objects /\ s # d /\ Good(m, s)
      /\ t \in Vtables /\ m.lo[s] \in Words
  BY DEF Sound, Good, MemoryType
<1>2. [m EXCEPT !.faults = @ \cup ReadFault(m, s, t)] = m
  <2>1. ReadFault(m, s, t) = {}
    BY <1>1, ManagerType DEF ReadFault, If, Good, Manager, OnHeap
  <2> QED  BY <1>1, <2>1 DEF MemoryType
<1>3. n = [clone(m, s, d, t) EXCEPT !.vtable[d] = t]
  BY DEF copy_from, clone_slot
<1> HIDE DEF n
<1>4. CASE t = EmptyVtable
  <2>0. functor_manager(t) = "ptr" /\ ~OnHeap(t)
    BY <1>4, OneEmptyVtable, ManagerType
  <2>1. n = [[m EXCEPT !.lo[d] = m.lo[s]] EXCEPT !.vtable[d] = t]
    BY <1>2, <1>3, <2>0 DEF clone, assign, ptr_assign, Target
  <2>2. /\ n.hi = m.hi /\ n.faults = m.faults /\ n.lo[d] = m.lo[s] /\ n.vtable[d] = t
        /\ \A p \in Objects \ {d} : n.vtable[p] = m.vtable[p] /\ n.lo[p] = m.lo[p]
    BY <1>1, <2>1 DEF MemoryType
  <2> QED  BY <1>4, <2>2 DEF Beside, Tidy, Blank
<1>5. CASE t # EmptyVtable
  <2>1. x \in Images /\ x.type = t
    BY <1>1, <1>5, OneEmptyVtable DEF Good
  <2>2. clone(m, s, d, t) = assign(m, d, x, t, m.hi[s])
    <3>1. CASE functor_manager(t) = "trivial_small"
      <4>1. x = m.lo[s] /\ m.hi[s] = m.lo[s]
        BY <1>1, <3>1, ManagerType DEF Good, Target
      <4> HIDE DEF x
      <4> QED  BY <1>2, <3>1, <4>1 DEF clone, assign, trivial_small_assign
    <3>2. CASE functor_manager(t) # "trivial_small"
      BY <1>2, <3>2 DEF clone
    <3> QED  BY <3>1, <3>2
  <2> DEFINE q == [assign(m, d, x, x.type, m.hi[s]) EXCEPT !.vtable[d] = x.type]
  <2>3. q = n
    BY <1>3, <2>1, <2>2
  <2> HIDE DEF x, t
  <2>4. Beside(m, q, {d}) /\ Tidy(q, d)
    BY <1>1, <2>1, AssignTidy
  <2> QED  BY <2>3, <2>4
<1> QED  BY <1>4, <1>5

(* Moving into a clear buffer leaves a clear one, whichever function does  *)
(* it: the bytes a manager reads are the bytes it clears.                  *)
LEMMA MoveTidy ==
  ASSUME NEW m \in MemoryType, NEW s \in Objects, Tidy(m, s),
         NEW d \in Objects, s # d, Blank(m, d), m.vtable[s] \in Vtables,
         Moveable # "na", DebugBuild => Moveable # "trivial"
  PROVE  LET n == move_from(m, s, d)
         IN  /\ Beside(m, n, {s, d}) /\ Tidy(n, d) /\ Blank(n, s) /\ Tidy(n, s)
<1> DEFINE t == m.vtable[s]
           a == move_to(m, s, d)
           n == move_from(m, s, d)
           Done == Beside(m, n, {s, d}) /\ Tidy(n, d) /\ Blank(n, s) /\ Tidy(n, s)
<1> SUFFICES Done
  OBVIOUS
<1>1. n = [a EXCEPT !.vtable[d] = t, !.vtable[s] = EmptyVtable]
  BY DEF move_from
<1> DEFINE Handed ==
      /\ a \in MemoryType /\ a.vtable = m.vtable
      /\ \A p \in Objects \ {s, d} : a.lo[p] = m.lo[p] /\ a.hi[p] = m.hi[p]
      /\ "assertion" \in a.faults => "assertion" \in m.faults
      /\ Blank(a, s)
      /\ DebugBuild =>
           /\ ~UsesHi(t) => a.hi[d] = AllOnes
           /\ t = EmptyVtable => a.lo[d] = AllOnes
<1> HIDE DEF a
<1>2. ASSUME Handed PROVE Done
  <2>1. /\ n.lo = a.lo /\ n.hi = a.hi /\ n.faults = a.faults
        /\ n.vtable[d] = t /\ n.vtable[s] = EmptyVtable
        /\ \A p \in Objects \ {s, d} : n.vtable[p] = m.vtable[p]
    BY <1>1, <1>2 DEF MemoryType
  <2> HIDE DEF n
  <2> QED  BY <1>2, <2>1, OneEmptyVtable DEF Beside, Tidy, Blank
<1> SUFFICES Handed
  BY <1>2
<1>3. m.lo[s] \in Words /\ m.hi[s] \in Words /\ AllOnes \in Words
  BY DEF MemoryType, Words
<1> HIDE DEF n
<1>4. CASE Moveable = "trivial"
  <2>1. a = bitwise(m, s, d, TRUE) /\ ~DebugBuild
    BY <1>4, TokensAssumption DEF move_to, a
  <2>2. /\ a \in MemoryType /\ a.vtable = m.vtable /\ a.faults = m.faults
        /\ \A p \in Objects \ {s, d} : a.lo[p] = m.lo[p] /\ a.hi[p] = m.hi[p]
    BY <1>3, <2>1 DEF bitwise, MemoryType
  <2> QED  BY <2>1, <2>2 DEF Blank
<1>5. CASE Moveable # "trivial"
  <2>1. a = move(m, s, d, t)
    BY <1>5 DEF move_to, a
  <2>2. CASE functor_manager(t) = "ptr"
    <3>1. a = debug_clear_ptr([m EXCEPT !.lo[d] = m.lo[s]], s)
      BY <2>1, <2>2 DEF move, ptr_move, ptr_assign, OnHeap
    <3>2. a = IF DebugBuild THEN [m EXCEPT !.lo[d] = m.lo[s], !.lo[s] = AllOnes]
                            ELSE [m EXCEPT !.lo[d] = m.lo[s]]
      BY <3>1 DEF debug_clear_ptr
    <3>3. /\ a \in MemoryType /\ a.vtable = m.vtable /\ a.faults = m.faults
          /\ \A p \in Objects \ {s, d} : a.lo[p] = m.lo[p] /\ a.hi[p] = m.hi[p]
          /\ a.hi = m.hi /\ a.lo[d] = m.lo[s] /\ (DebugBuild => a.lo[s] = AllOnes)
      BY <1>3, <3>2 DEF MemoryType
    <3> QED  BY <2>2, <3>3, OneWord DEF Blank, Tidy
  <2>3. ASSUME NEW q \in MemoryType, a = debug_clear(q, s), q.vtable = m.vtable,
               "assertion" \in q.faults => "assertion" \in m.faults,
               q.lo = [m.lo EXCEPT ![d] = m.lo[s]],
               q.hi[d] = m.hi[s] \/ Wide(t),
               \A p \in Objects \ {d} : q.hi[p] = m.hi[p],
               functor_manager(t) # "ptr"
        PROVE  Handed
    <3>1. BufferOnly(q, a, s) /\ Blank(a, s)
      BY <2>3, DebugClear, ClearBlanks
    <3>2. /\ a \in MemoryType /\ a.vtable = m.vtable /\ a.faults = q.faults
          /\ \A p \in Objects \ {s} : a.lo[p] = q.lo[p] /\ a.hi[p] = q.hi[p]
      BY <2>3, <3>1 DEF BufferOnly
    <3>3. t # EmptyVtable
      BY <2>3, OneEmptyVtable, ManagerType
    <3>4. /\ DebugBuild /\ ~UsesHi(t) => m.hi[s] = AllOnes
          /\ Wide(t) => UsesHi(t)
      BY DEF Tidy, UsesHi
    <3>5. \A p \in Objects \ {s, d} : a.lo[p] = m.lo[p] /\ a.hi[p] = m.hi[p]
      BY <2>3, <3>2 DEF MemoryType
    <3> QED  BY <2>3, <3>1, <3>2, <3>3, <3>4, <3>5
  <2>4. CASE functor_manager(t) \in {"trivial_small", "trivial_heap", "generic"}
    <3>1. a = debug_clear([m EXCEPT !.lo[d] = m.lo[s], !.hi[d] = m.hi[s]], s)
      BY <2>1, <2>4 DEF move, trivial_small_move, heap_move, OnHeap
    <3> DEFINE q == [m EXCEPT !.lo[d] = m.lo[s], !.hi[d] = m.hi[s]]
    <3>2. /\ q \in MemoryType /\ q.vtable = m.vtable /\ q.faults = m.faults
          /\ q.lo = [m.lo EXCEPT ![d] = m.lo[s]] /\ q.hi = [m.hi EXCEPT ![d] = m.hi[s]]
      BY <1>3 DEF MemoryType
    <3> HIDE DEF q
    <3>3. q.hi[d] = m.hi[s] /\ \A p \in Objects \ {d} : q.hi[p] = m.hi[p]
      BY <3>2 DEF MemoryType
    <3> QED  BY <2>3, <2>4, <3>1, <3>2, <3>3 DEF q
  <2>5. CASE functor_manager(t) = "small"
    <3> DEFINE k1 == [m EXCEPT !.faults = @ \cup If(s \notin m.live, "read_dead")]
               k2 == store(k1, d, m.lo[s], t)
               k3 == BeginLifetime(k2, d)
               k4 == EndLifetime(k3, s)
    <3>1. a = debug_clear_target(k4, s, t)
      BY <2>1, <2>5 DEF move, small_move, small_destroy, small_assign, OnHeap
    <3>2. SameWords(m, k1)
      BY DEF SameWords, MemoryType, If, Faults
    <3> HIDE DEF k1
    <3>3. /\ k2 \in MemoryType /\ k2.vtable = m.vtable
          /\ "assertion" \in k2.faults => "assertion" \in m.faults
          /\ k2.lo = [m.lo EXCEPT ![d] = m.lo[s]]
          /\ k2.hi = [m.hi EXCEPT ![d] = IF Wide(t) THEN m.lo[s] ELSE @]
      BY <1>3, <3>2 DEF SameWords, MemoryType, store
    <3> HIDE DEF k2
    <3>4. SameWords(k2, k3)
      BY <3>3, LifetimesKeepWords
    <3> HIDE DEF k3
    <3>5. SameWords(k3, k4)
      BY <3>4, LifetimesKeepWords DEF SameWords
    <3> HIDE DEF k4
    <3>6. /\ k4 \in MemoryType /\ k4.vtable = m.vtable
          /\ "assertion" \in k4.faults => "assertion" \in m.faults
          /\ k4.lo = [m.lo EXCEPT ![d] = m.lo[s]]
          /\ k4.hi = [m.hi EXCEPT ![d] = IF Wide(t) THEN m.lo[s] ELSE @]
      BY <3>3, <3>4, <3>5 DEF SameWords
    <3>7. \A p \in Objects \ {d} : k4.hi[p] = m.hi[p]
      BY <3>6 DEF MemoryType
    <3>8. CASE Wide(t)
      <4>1. a = debug_clear(k4, s)
        BY <3>1, <3>8 DEF debug_clear_target
      <4> QED  BY <2>3, <2>5, <3>6, <3>7, <3>8, <4>1
    <3>9. CASE ~Wide(t)
      <4>1. a = debug_clear_ptr(k4, s)
        BY <3>1, <3>9 DEF debug_clear_target
      <4>2. k4.hi = m.hi
        BY <3>6, <3>9 DEF MemoryType
      <4>3. /\ a \in MemoryType /\ a.vtable = m.vtable /\ a.faults = k4.faults
            /\ \A p \in Objects \ {s} : a.lo[p] = k4.lo[p] /\ a.hi[p] = k4.hi[p]
            /\ DebugBuild /\ ~UsesHi(t) => Blank(a, s)
        <5>1. BufferOnly(k4, a, s)
          BY <3>6, <4>1, DebugClear
        <5>2. DebugBuild /\ ~UsesHi(t) => k4.hi[s] = AllOnes
          BY <4>2 DEF Tidy
        <5> QED  BY <3>6, <4>1, <5>1, <5>2, ClearBlanks DEF BufferOnly
      <4>4. ~UsesHi(t) /\ t # EmptyVtable
        BY <2>5, <3>9, OneWord, OneEmptyVtable, ManagerType
      <4>5. a.hi[d] = m.hi[d] /\ \A p \in Objects \ {s, d} : a.lo[p] = m.lo[p] /\ a.hi[p] = m.hi[p]
        BY <3>6, <4>2, <4>3 DEF MemoryType
      <4> QED  BY <3>6, <4>3, <4>4, <4>5 DEF Blank
    <3> QED  BY <3>8, <3>9
  <2> QED  BY <2>2, <2>4, <2>5, ManagerType DEF Managers
<1> QED  BY <1>4, <1>5

(* A failing assign has nothing to assert of a clear buffer, and leaves it *)
(* clear unless it was the target's constructor that threw in it.          *)
LEMMA FailedBeside ==
  ASSUME NEW m \in MemoryType, NEW o \in Objects, Blank(m, o), NEW F, NEW why,
         NEW form \in Forms, why \in AssignFailures(F, form),
         F \in Functors, SafeGenerics
  PROVE  LET n == assign_failed(m, o, F, why)
         IN  /\ Beside(m, n, {o})
             /\ ~(why = "construct" /\ functor_manager(F) = "small") => Blank(n, o)
<1> DEFINE n == assign_failed(m, o, F, why)
           Done == /\ Beside(m, n, {o})
                   /\ ~(why = "construct" /\ functor_manager(F) = "small") => Blank(n, o)
<1> SUFFICES Done
  OBVIOUS
<1>1. CASE why = "allocate" /\ functor_manager(F) = "trivial_heap"
  <2>1. n = [m EXCEPT !.faults = @ \cup {}]
    BY <1>1 DEF assign_failed, If, UnclearedBuffer, Blank
  <2> HIDE DEF n
  <2> QED  BY <2>1 DEF MemoryType, Beside, Blank
<1>2. CASE why = "construct" /\ functor_manager(F) = "small"
  BY <1>2 DEF assign_failed, small_assign_failed, store, MemoryType, Beside
<1>3. CASE /\ ~(why = "allocate" /\ functor_manager(F) = "trivial_heap")
           /\ ~(why = "construct" /\ functor_manager(F) = "small")
  <2>1. ~(why = "construct" /\ functor_manager(F) = "generic")
    BY DEF AssignFailures, Throws, SafeGenerics
  <2>2. n = m
    BY <1>3, <2>1 DEF assign_failed
  <2> QED  BY <2>2 DEF Beside
<1> QED  BY <1>1, <1>2, <1>3

(* An object with a clear buffer may become empty. *)
LEMMA EmptyTidy ==
  ASSUME NEW m \in MemoryType, NEW o \in Objects, Blank(m, o)
  PROVE  LET n == [m EXCEPT !.vtable[o] = EmptyVtable]
         IN  Beside(m, n, {o}) /\ Blank(n, o) /\ Tidy(n, o)
<1> DEFINE n == [m EXCEPT !.vtable[o] = EmptyVtable]
<1>1. /\ n.lo = m.lo /\ n.hi = m.hi /\ n.faults = m.faults
      /\ \A p \in Objects \ {o} : n.vtable[p] = m.vtable[p]
  BY DEF MemoryType
<1> HIDE DEF n
<1>2. Beside(m, n, {o}) /\ Blank(n, o) /\ Tidy(n, o)
  BY <1>1 DEF Beside, Blank, Tidy
<1> QED  BY <1>2 DEF n

(* retire touches what no longer exists. *)
LEMMA RetireBeside ==
  ASSUME NEW m \in MemoryType, NEW o \in Objects
  PROVE  Beside(m, retire(m, o), {o})
BY DEF retire, MemoryType, Beside

-----------------------------------------------------------------------------
(* The building blocks of callable_base, from one neat memory to the next. *)

LEMMA NeatAfter ==
  ASSUME NEW m, NEW A, Neat(m, A), NEW n, NEW B, Sound(n, B), NEW O, Beside(m, n, O),
         B \subseteq A \cup O, \A o \in B \cap O : Tidy(n, o)
  PROVE  Neat(n, B)
<1>1. B \in SUBSET Objects
  BY DEF Sound
<1> QED  BY <1>1, ClearedBeside DEF Neat

LEMMA NeatType ==
  ASSUME NEW m, NEW A, Neat(m, A)
  PROVE  /\ Sound(m, A) /\ m \in MemoryType /\ A \subseteq Objects
         /\ \A o \in A : Tidy(m, o) /\ m.vtable[o] \in Vtables
BY DEF Neat, Sound, Cleared, Good

(* debug_clear, as a constructor begins. *)
LEMMA NeatBegun ==
  ASSUME NEW m, NEW A, Neat(m, A), NEW o \in Objects \ A
  PROVE  LET n == debug_clear(m, o)
         IN  /\ Neat(n, A) /\ Blank(n, o)
             /\ n.vtable = m.vtable /\ n.allocated = m.allocated
<1> DEFINE n == debug_clear(m, o)
<1>1. m \in MemoryType /\ Sound(m, A)
  BY NeatType
<1>2. Sound(n, A) /\ n.vtable = m.vtable /\ n.allocated = m.allocated
  BY <1>1, ClearedSound
<1>3. Blank(n, o) /\ Beside(m, n, {o})
  BY <1>1, ClearBlanks
<1> HIDE DEF n
<1>4. A \cap {o} = {}
  OBVIOUS
<1>5. Neat(n, A)
  BY <1>2, <1>3, <1>4, NeatAfter
<1> QED  BY <1>2, <1>3, <1>5 DEF n

(* The vtable of the empty handler, over a clear buffer that nobody owns.  *)
LEMMA NeatEmptied ==
  ASSUME NEW m, NEW A, Neat(m, A), NEW o \in Objects \ A, Blank(m, o)
  PROVE  Neat([m EXCEPT !.vtable[o] = EmptyVtable], A \cup {o})
<1> DEFINE n == [m EXCEPT !.vtable[o] = EmptyVtable]
<1>1. m \in MemoryType /\ Sound(m, A)
  BY NeatType
<1>2. Sound(n, A \cup {o})
  BY <1>1, OneEmptyVtable, EmptySound
<1>3. Beside(m, n, {o}) /\ Tidy(n, o)
  BY <1>1, EmptyTidy
<1> HIDE DEF n
<1>4. Neat(n, A \cup {o})
  BY <1>2, <1>3, NeatAfter
<1> QED  BY <1>4 DEF n

LEMMA NeatConstructEmpty ==
  ASSUME NEW m, NEW A, Neat(m, A), NEW o \in Objects \ A
  PROVE  LET n == construct_empty(m, o)
         IN  /\ Neat(n, A \cup {o}) /\ Neat(n, A) /\ Blank(n, o)
             /\ n.vtable[o] = EmptyVtable /\ n.allocated = m.allocated
<1> DEFINE k == debug_clear(m, o)
           n == construct_empty(m, o)
<1>1. Neat(k, A) /\ Blank(k, o) /\ k \in MemoryType
  BY NeatBegun, NeatType
<1>2. n = [k EXCEPT !.vtable[o] = EmptyVtable]
  BY DEF construct_empty
<1> HIDE DEF k
<1>3. Neat(n, A \cup {o})
  BY <1>1, <1>2, NeatEmptied
<1>4. Blank(n, o)
  BY <1>1, <1>2, EmptyTidy
<1>5. Sound(n, A) /\ n.vtable[o] = EmptyVtable /\ n.allocated = m.allocated
  BY NeatType, ConstructEmptySound
<1> HIDE DEF n
<1>6. Neat(n, A)
  BY <1>3, <1>5 DEF Neat, Cleared
<1> QED  BY <1>3, <1>4, <1>5, <1>6 DEF n

LEMMA NeatDestroy ==
  ASSUME NEW m, NEW A, Neat(m, A), NEW o \in A, Destructor # "trivial"
  PROVE  LET n == destroy(m, o)
         IN  /\ Neat(n, A \ {o}) /\ Blank(n, o)
             /\ n.vtable = m.vtable /\ n.allocated \subseteq m.allocated
<1> DEFINE n == destroy(m, o)
<1>1. m \in MemoryType /\ Sound(m, A) /\ Tidy(m, o) /\ o \in Objects
  BY NeatType
<1>2. /\ Sound(n, A \ {o}) /\ n.vtable = m.vtable
      /\ n.allocated = m.allocated \ HeldBlock(m, o)
  BY <1>1, DestroySound
<1>3. Beside(m, n, {o}) /\ Blank(n, o)
  BY <1>1, DestroyBlanks
<1> HIDE DEF n
<1>4. Neat(n, A \ {o})
  BY <1>2, <1>3, NeatAfter
<1> QED  BY <1>2, <1>3, <1>4 DEF n

LEMMA NeatRetire ==
  ASSUME NEW m, NEW A, Neat(m, A), NEW o \in Objects \ A
  PROVE  Neat(retire(m, o), A)
<1>1. m \in MemoryType /\ Sound(m, A)
  BY NeatType
<1>2. Sound(retire(m, o), A) /\ Beside(m, retire(m, o), {o}) /\ A \cap {o} = {}
  BY <1>1, RetireSound, RetireBeside
<1> QED  BY <1>2, NeatAfter

(* Between a clear destination and an owner. *)
LEMMA NeatMove ==
  ASSUME ClearedTraits, NEW m, NEW A, Neat(m, A), NEW s \in A, NEW d \in Objects \ A,
         Blank(m, d)
  PROVE  LET n == move_from(m, s, d)
         IN  /\ Neat(n, A \cup {d}) /\ Neat(n, (A \cup {d}) \ {s})
             /\ Blank(n, s) /\ n.vtable[s] = EmptyVtable
             /\ n.allocated = m.allocated
<1> DEFINE n == move_from(m, s, d)
<1>1. /\ m \in MemoryType /\ Sound(m, A) /\ Tidy(m, s) /\ s \in Objects /\ s # d
      /\ m.vtable[s] \in Vtables
  BY NeatType
<1>2. Moveable # "na" /\ (DebugBuild => Moveable # "trivial")
  BY DEF ClearedTraits, ManagedTraits
<1>3. Moved(m, n, A, s, d, EmptyVtable)
  BY <1>1, <1>2, MoveSound
<1>4. Beside(m, n, {s, d}) /\ Tidy(n, d) /\ Blank(n, s) /\ Tidy(n, s)
  BY <1>1, <1>2, MoveTidy
<1> HIDE DEF n
<1>5. Neat(n, A \cup {d}) /\ n.vtable[s] = EmptyVtable /\ n.allocated = m.allocated
  BY <1>3, <1>4, NeatAfter DEF Moved
<1>6. Sound(n, (A \cup {d}) \ {s})
  BY <1>3, OneEmptyVtable, DropEmpty DEF Moved
<1>7. Neat(n, (A \cup {d}) \ {s})
  BY <1>5, <1>6 DEF Neat, Cleared
<1> QED  BY <1>4, <1>5, <1>7 DEF n

LEMMA NeatCopy ==
  ASSUME ClearedTraits, NEW m, NEW A, Neat(m, A), NEW s \in A, NEW d \in Objects \ A,
         Blank(m, d), \E b \in Blocks : b \notin m.allocated
  PROVE  Neat(copy_from(m, s, d), A \cup {d})
<1>1. Sound(m, A) /\ Tidy(m, s) /\ Copyable # "trivial"
  BY NeatType DEF ClearedTraits, ManagedTraits
<1>2. Sound(copy_from(m, s, d), A \cup {d})
  BY <1>1, CopySound
<1>3. Beside(m, copy_from(m, s, d), {d}) /\ Tidy(copy_from(m, s, d), d)
  BY <1>1, CloneTidy
<1> QED  BY <1>2, <1>3, NeatAfter

LEMMA NeatPut ==
  ASSUME NEW m, NEW A, Neat(m, A), NEW o \in Objects \ A, Blank(m, o),
         NEW x \in Images, \E b \in Blocks : b \notin m.allocated
  PROVE  Neat(put(m, o, x), A \cup {o})
<1>1. Sound(m, A) /\ m \in MemoryType
  BY NeatType
<1>2. Sound(put(m, o, x), A \cup {o})
  BY <1>1, PutSound
<1>3. Beside(m, put(m, o, x), {o}) /\ Tidy(put(m, o, x), o)
  BY <1>1, AssignTidy DEF put
<1> QED  BY <1>2, <1>3, NeatAfter

LEMMA NeatFailed ==
  ASSUME ClearedTraits, NEW m, NEW A, Neat(m, A), NEW o \in Objects \ A, Blank(m, o),
         NEW F \in Functors, NEW form \in Forms,
         NEW why \in AssignFailures(F, form)
  PROVE  LET n == assign_failed(m, o, F, why)
         IN  /\ Neat(n, A) /\ n.vtable = m.vtable
             /\ ~(why = "construct" /\ functor_manager(F) = "small") => Blank(n, o)
<1> DEFINE n == assign_failed(m, o, F, why)
<1>1. Sound(m, A) /\ m \in MemoryType /\ SafeGenerics /\ A \cap {o} = {}
  BY NeatType DEF ClearedTraits, ManagedTraits
<1>2. Sound(n, A) /\ n.vtable = m.vtable
  BY <1>1, AssignFailedSound
<1>3. /\ Beside(m, n, {o})
      /\ ~(why = "construct" /\ functor_manager(F) = "small") => Blank(n, o)
  BY <1>1, FailedBeside
<1> HIDE DEF n
<1>4. Neat(n, A)
  BY <1>1, <1>2, <1>3, NeatAfter
<1> QED  BY <1>2, <1>3, <1>4 DEF n

(* clear<false> *)
LEMMA NeatClear ==
  ASSUME NEW m, NEW A, Neat(m, A), NEW c \in A, Destructor # "trivial"
  PROVE  Neat(clear(m, c), A)
<1>1. Neat(destroy(m, c), A \ {c}) /\ Blank(destroy(m, c), c)
  BY NeatDestroy
<1>2. c \in Objects \ (A \ {c}) /\ (A \ {c}) \cup {c} = A
  BY NeatType
<1>3. Neat([destroy(m, c) EXCEPT !.vtable[c] = EmptyVtable], (A \ {c}) \cup {c})
  BY <1>1, <1>2, NeatEmptied
<1> QED  BY <1>2, <1>3 DEF clear

(* An invocation writes the words its target uses. *)
LEMMA NeatInvoke ==
  ASSUME NEW m, NEW A, Neat(m, A), NEW c \in A, m.vtable[c] # EmptyVtable,
         NEW v \in Values
  PROVE  Neat(invoke(m, c, v), A)
<1> DEFINE n == invoke(m, c, v)
<1>1. m \in MemoryType /\ Sound(m, A) /\ Tidy(m, c) /\ c \in Objects
  BY NeatType
<1>2. Sound(n, A) /\ n.vtable = m.vtable
  BY <1>1, InvokeSound
<1>3. Beside(m, n, {c}) /\ (~UsesHi(m.vtable[c]) => n.hi[c] = m.hi[c])
  <2>1. CASE OnHeap(m.vtable[c])
    BY <1>1, <2>1 DEF invoke, MemoryType, Beside
  <2>2. CASE ~OnHeap(m.vtable[c])
    BY <1>1, <2>2 DEF invoke, store, MemoryType, Beside, UsesHi
  <2> QED  BY <2>1, <2>2
<1> HIDE DEF n
<1>4. Tidy(n, c)
  BY <1>1, <1>2, <1>3 DEF Tidy
<1>5. Neat(n, A)
  BY <1>2, <1>3, <1>4, NeatAfter
<1> QED  BY <1>5 DEF n

(* swap: each of its three moves goes into a buffer the one before cleared.*)
LEMMA NeatSwap ==
  ASSUME ClearedTraits, NEW m, NEW A, Neat(m, A), NEW a \in A, NEW b \in A,
         SwapTmp \notin A
  PROVE  Neat(swap(m, a, b), A)
<1>1. CASE a = b
  BY <1>1 DEF swap
<1>2. CASE a # b
  <2> DEFINE S  == SwapTmp
             m0 == construct_empty(m, S)
             m1 == move_from(m0, a, S)
             m2 == move_from(m1, b, a)
             m3 == move_from(m2, S, b)
             m4 == destroy(m3, S)
             A1 == (A \cup {S}) \ {a}
             A2 == (A \cup {S}) \ {b}
  <2>0. /\ S \in Objects /\ a \in Objects /\ b \in Objects /\ S \notin A
        /\ Destructor # "trivial"
    BY NeatType, ObjectsAssumption DEF ClearedTraits, ManagedTraits
  <2>1. swap(m, a, b) = retire(m4, S)
    BY <1>2 DEF swap
  <2>2. a \in Objects \ A1 /\ b \in A1 /\ b \in Objects \ A2 /\ S \in A2
    BY <1>2, <2>0
  <2>3. /\ (A1 \cup {a}) \ {b} = A2 /\ A2 \cup {b} = A \cup {S}
        /\ (A \cup {S}) \ {S} = A
    BY <2>0
  <2> HIDE DEF S, m0, m1, m2, m3, m4
  <2>4. Neat(m0, A) /\ Blank(m0, S)
    BY <2>0, NeatConstructEmpty DEF m0
  <2>5. Neat(m1, A1) /\ Blank(m1, a)
    BY <2>0, <2>4, NeatMove DEF m1
  <2> HIDE DEF A1
  <2>6. Neat(m2, (A1 \cup {a}) \ {b}) /\ Blank(m2, b)
    BY <2>2, <2>5, NeatMove DEF m2
  <2> HIDE DEF A2
  <2>7. Neat(m2, A2)
    BY <2>3, <2>6
  <2>8. Neat(m3, A2 \cup {b})
    BY <2>2, <2>6, <2>7, NeatMove DEF m3
  <2>9. Neat(m3, A \cup {S}) /\ S \in A \cup {S}
    BY <2>3, <2>8
  <2>10. Neat(m4, (A \cup {S}) \ {S})
    BY <2>0, <2>9, NeatDestroy DEF m4
  <2>11. Neat(m4, A)
    BY <2>3, <2>10
  <2> QED  BY <2>0, <2>1, <2>11, NeatRetire
<1> QED  BY <1>1, <1>2

-----------------------------------------------------------------------------
(* The calls. *)

NeatInv == Inv /\ Cleared(mem, alive)

LEMMA NeatFacts ==
  ASSUME ClearedTraits, NeatInv, HeapBound
  PROVE  /\ ManagedTraits /\ Inv /\ Neat(mem, alive)
         /\ Destructor # "trivial" /\ alive \subseteq Objects
         /\ SwapTmp \in Objects \ alive /\ AssignTmp \in Objects \ alive
         /\ SwapTmp # AssignTmp
         /\ \A c \in alive : mem.vtable[c] \in Vtables
         /\ \A c \in Callables : c \in Objects
         /\ \E b \in Blocks : b \notin mem.allocated
BY TraitsFacts, HeapBoundFresh, ObjectsAssumption
DEF ClearedTraits, ManagedTraits, NeatInv, Inv, Neat, Sound

(* As a constructor and as an assignment begin. *)
LEMMA NeatConstructing ==
  ASSUME ClearedTraits, NeatInv, HeapBound, NEW c \in Callables \ alive
  PROVE  LET m == debug_clear(mem, c)
         IN  /\ c \in Objects \ alive
             /\ Neat(m, alive) /\ Blank(m, c)
             /\ m.vtable = mem.vtable /\ \E b \in Blocks : b \notin m.allocated
<1> DEFINE m == debug_clear(mem, c)
<1>1. c \in Objects \ alive /\ Neat(mem, alive)
  BY NeatFacts
<1>2. Neat(m, alive) /\ Blank(m, c) /\ m.vtable = mem.vtable /\ m.allocated = mem.allocated
  BY <1>1, NeatBegun
<1> QED  BY <1>1, <1>2, NeatFacts

LEMMA NeatAssigning ==
  ASSUME ClearedTraits, NeatInv, HeapBound, NEW c \in alive
  PROVE  LET m == destroy(mem, c)
         IN  /\ Neat(m, alive \ {c}) /\ Blank(m, c)
             /\ m.vtable = mem.vtable /\ \E b \in Blocks : b \notin m.allocated
             /\ c \in Objects \ (alive \ {c}) /\ (alive \ {c}) \cup {c} = alive
<1> DEFINE m == destroy(mem, c)
<1>1. Neat(mem, alive) /\ Destructor # "trivial" /\ c \in Objects
  BY NeatFacts
<1>2. /\ Neat(m, alive \ {c}) /\ Blank(m, c) /\ m.vtable = mem.vtable
      /\ m.allocated \subseteq mem.allocated
  BY <1>1, NeatDestroy
<1>3. \E b \in Blocks : b \notin m.allocated
  BY <1>2, NeatFacts
<1> QED  BY <1>1, <1>2, <1>3

LEMMA DefaultConstructNeat ==
  ASSUME ClearedTraits, NeatInv, HeapBound, NEW c \in Callables, DefaultConstruct(c)
  PROVE  Neat(mem', alive')
BY NeatFacts, NeatConstructEmpty DEF DefaultConstruct

LEMMA ConstructFromNeat ==
  ASSUME ClearedTraits, NeatInv, HeapBound, NEW c \in Callables, NEW x \in Storable,
         NEW form \in Forms, ConstructFrom(c, x, form)
  PROVE  Neat(mem', alive')
<1> DEFINE m == debug_clear(mem, c)
<1>1. x \in Images /\ x.type \in Functors
  BY DEF Storable, Images
<1>2. /\ c \in Objects \ alive /\ Neat(m, alive) /\ Blank(m, c)
      /\ \E b \in Blocks : b \notin m.allocated
  BY NeatConstructing DEF ConstructFrom
<1>3. CASE mem' = construct_empty(mem, c) /\ alive' = alive \cup {c}
  BY <1>2, <1>3, NeatFacts, NeatConstructEmpty
<1>4. CASE mem' = put(debug_clear(mem, c), c, x) /\ alive' = alive \cup {c}
  BY <1>1, <1>2, <1>4, NeatPut
<1>5. CASE /\ \E why \in AssignFailures(x.type, form) :
                mem' = retire(assign_failed(debug_clear(mem, c), c, x.type, why), c)
           /\ UNCHANGED alive
  <2>1. PICK why \in AssignFailures(x.type, form) :
               mem' = retire(assign_failed(m, c, x.type, why), c)
    BY <1>5
  <2>2. Neat(assign_failed(m, c, x.type, why), alive)
    BY <1>1, <1>2, NeatFailed
  <2> QED  BY <1>2, <1>5, <2>1, <2>2, NeatRetire
<1>6. CASE UNCHANGED <<mem, alive>>
  BY <1>6, NeatFacts
<1> QED  BY <1>3, <1>4, <1>5, <1>6 DEF ConstructFrom, Terminate

LEMMA CopyConstructNeat ==
  ASSUME ClearedTraits, NeatInv, HeapBound, NEW c \in Callables, NEW s \in Callables,
         CopyConstruct(c, s)
  PROVE  Neat(mem', alive')
<1> DEFINE m == debug_clear(mem, c)
           t == mem.vtable[s]
<1>1. /\ c \in Objects \ alive /\ Neat(m, alive) /\ Blank(m, c) /\ m.vtable = mem.vtable
      /\ \E b \in Blocks : b \notin m.allocated
      /\ s \in alive /\ t \in Vtables
  BY NeatConstructing, NeatFacts DEF CopyConstruct
<1>2. CASE mem' = copy_from(debug_clear(mem, c), s, c) /\ alive' = alive \cup {c}
  BY <1>1, <1>2, NeatCopy
<1>3. CASE /\ \E why \in CloneFailures(t) :
                mem' = retire(assign_failed(debug_clear(mem, c), c, t, why), c)
           /\ UNCHANGED alive
  <2>1. PICK why \in CloneFailures(t) : mem' = retire(assign_failed(m, c, t, why), c)
    BY <1>3
  <2>2. t \in Functors /\ why \in AssignFailures(t, "copy") /\ "copy" \in Forms
    BY <1>1, <2>1, OneEmptyVtable DEF CloneFailures, Forms
  <2>3. Neat(assign_failed(m, c, t, why), alive)
    BY <1>1, <2>2, NeatFailed
  <2> QED  BY <1>1, <1>3, <2>1, <2>3, NeatRetire
<1> QED  BY <1>2, <1>3 DEF CopyConstruct

LEMMA MoveConstructNeat ==
  ASSUME ClearedTraits, NeatInv, HeapBound, NEW c \in Callables, NEW s \in Callables,
         MoveConstruct(c, s)
  PROVE  Neat(mem', alive')
<1> DEFINE m == debug_clear(mem, c)
<1>1. c \in Objects \ alive /\ Neat(m, alive) /\ Blank(m, c) /\ s \in alive
  BY NeatConstructing DEF MoveConstruct
<1>2. CASE mem' = move_from(debug_clear(mem, c), s, c) /\ alive' = alive \cup {c}
  BY <1>1, <1>2, NeatMove
<1>3. CASE UNCHANGED <<mem, alive>>
  BY <1>3, NeatFacts
<1> QED  BY <1>2, <1>3 DEF MoveConstruct, Terminate

LEMMA DestructNeat ==
  ASSUME ClearedTraits, NeatInv, HeapBound, NEW c \in Callables, Destruct(c)
  PROVE  Neat(mem', alive')
<1>1. Neat(destroy(mem, c), alive \ {c}) /\ c \in Objects \ (alive \ {c})
  BY NeatAssigning DEF Destruct
<1> QED  BY <1>1, NeatRetire DEF Destruct

(* Through a tmp it is the tmp's buffer a failing constructor writes to.   *)
LEMMA AssignFunctorNeat ==
  ASSUME ClearedTraits, NeatInv, HeapBound, NEW c \in Callables, NEW x \in Storable,
         NEW form \in Forms, NEW via \in {"assign", "operator="},
         AssignFunctor(c, x, form, via)
  PROVE  Neat(mem', alive')
<1> DEFINE T   == AssignTmp
           tmp == construct_empty(mem, T)
<1>1. x \in Images /\ x.type \in Functors
  BY DEF Storable, Images
<1>2. /\ c \in alive /\ T \in Objects \ alive /\ T # SwapTmp /\ SwapTmp \notin alive
      /\ Destructor # "trivial" /\ (alive \cup {T}) \ {T} = alive
  BY NeatFacts DEF AssignFunctor
<1>3. /\ Neat(tmp, alive) /\ Blank(tmp, T) /\ tmp.vtable[T] = EmptyVtable
      /\ tmp.allocated = mem.allocated
  BY <1>2, NeatFacts, NeatConstructEmpty
<1> HIDE DEF tmp, T
<1>4. CASE mem' = clear(mem, c) /\ UNCHANGED alive
  BY <1>2, <1>4, NeatFacts, NeatClear
<1>5. CASE mem' = put(destroy(mem, c), c, x) /\ UNCHANGED alive
  <2> DEFINE m == destroy(mem, c)
  <2>1. /\ Neat(m, alive \ {c}) /\ Blank(m, c)
        /\ \E b \in Blocks : b \notin m.allocated
        /\ c \in Objects \ (alive \ {c}) /\ (alive \ {c}) \cup {c} = alive
    BY <1>2, NeatAssigning
  <2> HIDE DEF m
  <2>2. Neat(put(m, c, x), (alive \ {c}) \cup {c})
    BY <1>1, <2>1, NeatPut
  <2> QED  BY <1>5, <2>1, <2>2 DEF m
<1>6. CASE /\ mem' = LET n == swap(put(tmp, T, x), c, T)
                     IN  retire(destroy(n, T), T)
           /\ UNCHANGED alive
  <2> DEFINE n == swap(put(tmp, T, x), c, T)
  <2>1. Neat(put(tmp, T, x), alive \cup {T})
    BY <1>1, <1>2, <1>3, NeatFacts, NeatPut
  <2>2. Neat(n, alive \cup {T})
    BY <1>2, <2>1, NeatSwap
  <2>3. mem' = retire(destroy(n, T), T)
    BY <1>6
  <2> HIDE DEF n
  <2>4. Neat(destroy(n, T), (alive \cup {T}) \ {T})
    BY <1>2, <2>2, NeatDestroy
  <2>5. Neat(destroy(n, T), alive)
    BY <1>2, <2>4
  <2> QED  BY <1>2, <1>6, <2>3, <2>5, NeatRetire
<1>7. CASE /\ \E why \in AssignFailures(x.type, form) :
                LET n == assign_failed(tmp, T, x.type, why)
                IN  mem' = retire(destroy(n, T), T)
           /\ UNCHANGED alive
  <2>1. PICK why \in AssignFailures(x.type, form) :
               mem' = retire(destroy(assign_failed(tmp, T, x.type, why), T), T)
    BY <1>7
  <2> DEFINE n == assign_failed(tmp, T, x.type, why)
             e == [n EXCEPT !.vtable[T] = EmptyVtable]
  <2>2. Neat(n, alive) /\ n.vtable = tmp.vtable
    BY <1>1, <1>2, <1>3, NeatFailed
  <2>3. Sound(n, alive) /\ n \in MemoryType
    BY <2>2, NeatType
  <2>4. e = n
    BY <1>2, <1>3, <2>2, <2>3 DEF MemoryType
  <2>5. Sound(n, alive \cup {T})
    BY <1>2, <2>3, <2>4, OneEmptyVtable, EmptySound
  <2> HIDE DEF n
  <2>6. Sound(destroy(n, T), (alive \cup {T}) \ {T})
    <3>1. T \in alive \cup {T}
      OBVIOUS
    <3> QED  BY <1>2, <2>5, <3>1, DestroySound
  <2>7. Sound(destroy(n, T), alive) /\ Beside(n, destroy(n, T), {T}) /\ alive \cap {T} = {}
    BY <1>2, <2>3, <2>6, DestroyBlanks
  <2>8. Neat(destroy(n, T), alive)
    BY <2>2, <2>7, NeatAfter
  <2> QED  BY <1>2, <1>7, <2>1, <2>8, NeatRetire DEF n
<1>8. CASE UNCHANGED <<mem, alive>>
  BY <1>8, NeatFacts
<1> QED  BY <1>4, <1>5, <1>6, <1>7, <1>8 DEF AssignFunctor, Terminate, tmp, T

(* Of the targets that are cloned or moved into a callable that has just   *)
(* been emptied, none throws in the buffer of a debug build.               *)
LEMMA CleanedNeat ==
  ASSUME ClearedTraits, NEW m, NEW A, Neat(m, A), NEW c \in Objects \ A, Blank(m, c),
         NEW F \in Functors, NEW form \in {"copy", "move"},
         NEW why \in AssignFailures(F, form), form \in Forms,
         form = "copy" => Copyable # "na", form = "move" => Moveable = "supported"
  PROVE  LET n == cleaned(assign_failed(m, c, F, why), c)
         IN  Neat(n, A \cup {c})
<1> DEFINE f == assign_failed(m, c, F, why)
<1>1. /\ Neat(f, A)
      /\ ~(why = "construct" /\ functor_manager(F) = "small") => Blank(f, c)
  BY NeatFailed
<1>2. DebugBuild => ~(why = "construct" /\ functor_manager(F) = "small")
  BY DEF ClearedTraits, AssignFailures, Throws
<1>3. Blank(f, c)
  BY <1>1, <1>2 DEF Blank
<1> HIDE DEF f
<1>4. Neat(cleaned(f, c), A \cup {c})
  BY <1>1, <1>3, NeatEmptied DEF cleaned
<1> QED  BY <1>4 DEF f

LEMMA CopyAssignNeat ==
  ASSUME ClearedTraits, NeatInv, HeapBound, NEW c \in Callables, NEW s \in Callables,
         NEW source \in {"const", "nonconst"}, CopyAssign(c, s, source)
  PROVE  Neat(mem', alive')
<1> DEFINE m == destroy(mem, c)
           t == mem.vtable[s]
           A == alive \ {c}
<1>1. /\ c \in alive /\ s \in alive /\ t \in Vtables /\ alive' = alive
      /\ Destructor # "trivial" /\ Neat(mem, alive) /\ Copyable # "na"
  BY NeatFacts DEF CopyAssign
<1>2. /\ Neat(m, A) /\ Blank(m, c) /\ m.vtable = mem.vtable
      /\ \E b \in Blocks : b \notin m.allocated
      /\ c \in Objects \ A /\ A \cup {c} = alive
  BY <1>1, NeatAssigning
<1>3. CASE mem' = mem
  BY <1>1, <1>3
<1>4. CASE ~SelfAssignGuard(c, s) /\ mem' = copy_from(destroy(mem, c), s, c)
  <2>1. s \in A
    BY <1>1, <1>4 DEF SelfAssignGuard
  <2> HIDE DEF A, m
  <2>2. Neat(copy_from(m, s, c), A \cup {c})
    BY <1>2, <2>1, NeatCopy
  <2> QED  BY <1>1, <1>2, <1>4, <2>2 DEF m
<1>5. CASE \E why \in CloneFailures(t) :
             mem' = cleaned(assign_failed(destroy(mem, c), c, t, why), c)
  <2>1. PICK why \in CloneFailures(t) : mem' = cleaned(assign_failed(m, c, t, why), c)
    BY <1>5
  <2>2. t \in Functors /\ why \in AssignFailures(t, "copy") /\ "copy" \in Forms
    BY <1>1, <2>1, OneEmptyVtable DEF CloneFailures, Forms
  <2> HIDE DEF A, m
  <2>3. Neat(cleaned(assign_failed(m, c, t, why), c), A \cup {c})
    BY <1>1, <1>2, <2>2, CleanedNeat
  <2> QED  BY <1>1, <1>2, <2>1, <2>3
<1> QED  BY <1>3, <1>4, <1>5 DEF CopyAssign, Terminate

LEMMA MoveAssignNeat ==
  ASSUME ClearedTraits, NeatInv, HeapBound, NEW c \in Callables, NEW s \in Callables,
         MoveAssign(c, s)
  PROVE  Neat(mem', alive')
<1> DEFINE m == destroy(mem, c)
           t == mem.vtable[s]
           A == alive \ {c}
<1>1. /\ c \in alive /\ s \in alive /\ t \in Vtables /\ alive' = alive
      /\ Destructor # "trivial" /\ Neat(mem, alive) /\ Moveable # "na"
  BY NeatFacts, TraitsFacts DEF MoveAssign
<1>2. /\ Neat(m, A) /\ Blank(m, c) /\ m.vtable = mem.vtable
      /\ c \in Objects \ A /\ A \cup {c} = alive
  BY <1>1, NeatAssigning
<1>3. CASE mem' = mem
  BY <1>1, <1>3
<1>4. CASE ~SelfAssignGuard(c, s) /\ mem' = move_from(destroy(mem, c), s, c)
  <2>1. s \in A
    BY <1>1, <1>4 DEF SelfAssignGuard
  <2> HIDE DEF A, m
  <2>2. Neat(move_from(m, s, c), A \cup {c})
    BY <1>2, <2>1, NeatMove
  <2> QED  BY <1>1, <1>2, <1>4, <2>2 DEF m
<1>5. CASE /\ ~SelfAssignGuard(c, s)
           /\ \E why \in MoveFailures(t), v \in Values :
                mem' = store(cleaned(assign_failed(destroy(mem, c), c, t, why), c),
                             s, [type |-> t, val |-> v], t)
  <2>1. PICK why \in MoveFailures(t), v \in Values :
               mem' = store(cleaned(assign_failed(m, c, t, why), c),
                            s, [type |-> t, val |-> v], t)
    BY <1>5
  <2>2. /\ functor_manager(t) = "small" /\ why \in AssignFailures(t, "move")
        /\ Moveable = "supported" /\ "move" \in Forms
    BY <1>1, <2>1 DEF MoveFailures, Forms
  <2>3. t # EmptyVtable /\ t \in Functors /\ ~OnHeap(t)
    BY <1>1, <2>2, OneEmptyVtable, ManagerType
  <2> DEFINE f == assign_failed(m, c, t, why)
             n == cleaned(f, c)
  <2>4. s \in A
    BY <1>1, <1>5 DEF SelfAssignGuard
  <2> HIDE DEF A, m
  <2>5. Neat(n, A \cup {c})
    BY <1>2, <2>2, <2>3, CleanedNeat
  <2>6. f.vtable = mem.vtable /\ f \in MemoryType
    <3>1. Neat(f, A) /\ f.vtable = m.vtable
      BY <1>2, <2>2, <2>3, NeatFailed
    <3> QED  BY <1>2, <3>1, NeatType
  <2> HIDE DEF f
  <2>7. n.vtable[s] = t
    BY <1>2, <2>4, <2>6 DEF cleaned, MemoryType
  <2> HIDE DEF n
  <2>8. mem' = invoke(n, s, v)
    BY <2>1, <2>2, <2>3, <2>7 DEF invoke, n, f
  <2> QED  BY <1>1, <1>2, <2>3, <2>5, <2>7, <2>8, NeatInvoke
<1> QED  BY <1>1, <1>3, <1>4, <1>5 DEF MoveAssign

LEMMA ClearNeat ==
  ASSUME ClearedTraits, NeatInv, HeapBound, NEW c \in Callables, Clear(c)
  PROVE  Neat(mem', alive')
BY NeatFacts, NeatClear DEF Clear

LEMMA SwapNeat ==
  ASSUME ClearedTraits, NeatInv, HeapBound, NEW a \in Callables, NEW b \in Callables,
         Swap(a, b)
  PROVE  Neat(mem', alive')
BY NeatFacts, NeatSwap DEF Swap, Terminate

LEMMA InvokeNeat ==
  ASSUME ClearedTraits, NeatInv, HeapBound, NEW c \in Callables, Invoke(c)
  PROVE  Neat(mem', alive')
BY NeatFacts, NeatInvoke DEF Invoke

-----------------------------------------------------------------------------
(* The theorems. *)

LEMMA NeatStep ==
  ASSUME ClearedTraits, NeatInv, [Next]_vars
  PROVE  NeatInv'
<1>1. ManagedTraits /\ Inv
  BY DEF ClearedTraits, NeatInv
<1>2. Inv'
  BY <1>1, NextInv
<1>3. CASE Next
  <2>1. HeapBound
    BY <1>3 DEF Next
  <2>2. Neat(mem', alive')
    BY <1>3, <2>1, DefaultConstructNeat, ConstructFromNeat, CopyConstructNeat,
       MoveConstructNeat, DestructNeat, AssignFunctorNeat, CopyAssignNeat,
       MoveAssignNeat, ClearNeat, SwapNeat, InvokeNeat
    DEF Next, Step, Forms
  <2> QED  BY <1>2, <2>2 DEF Neat, NeatInv
<1>4. CASE UNCHANGED vars
  BY <1>2, <1>4 DEF vars, NeatInv
<1> QED  BY <1>3, <1>4

LEMMA NeatInit == Init => NeatInv
BY InitInv DEF Init, NoObjects, NeatInv, Cleared

(* Ownership and clear words together, in every state. *)
THEOREM ClearedInvariant ==
  ASSUME ClearedTraits
  PROVE  Spec => []NeatInv
BY NeatInit, NeatStep, PTL DEF Spec

(* No debug build trips over the assertions of manager_trivial_heap, over  *)
(* any sequence of calls.                                                  *)
THEOREM AssertionsKept ==
  ASSUME ClearedTraits
  PROVE  Spec => []AssertionsHold
<1>1. NeatInv => AssertionsHold
  BY DEF NeatInv, Cleared, AssertionsHold
<1> QED  BY <1>1, ClearedInvariant, PTL

(* What the target of a callable does not use of its buffer stays clear.   *)
THEOREM UnusedWordsStayClear ==
  ASSUME ClearedTraits
  PROVE  Spec => []UnusedWordsClear
<1>1. NeatInv => UnusedWordsClear
  BY DEF NeatInv, Cleared, Tidy, UsesHi, UnusedWordsClear
<1> QED  BY <1>1, ClearedInvariant, PTL
=============================================================================
