------------------------- MODULE FunctionRefProofs -------------------------
(***************************************************************************)
(* What function_ref and exception_tunneling_callable guarantee, proved for*)
(* any number of callables, references, tunnels, values and exceptions, any*)
(* depth of nested calls, and both kinds of signature.                     *)
(***************************************************************************)
EXTENDS FunctionRef, TLAPS

(* Programs that copy references from const ones, or move them: one that   *)
(* is not const would be borrowed.                                         *)
ConstCopies == Sources \subseteq {"const"}

(* What a program has to keep alive: the callables that references were    *)
(* made of, which is enough if copies have no further links; or whatever   *)
(* references have borrowed, be it other references.                       *)
KeptLifetimes == ConstCopies \/ Lifetimes = "actual"

-----------------------------------------------------------------------------
(* Three invariants.  The first needs nothing of the program; the others   *)
(* are about what exists, and about what a reference was made of.          *)

(* What a noexcept reference may be made of. *)
Bodies == {o \in Callables \cup Tunnels : Invocable(o)}

(* What is borrowed: copies of references that are not const are links.    *)
Links == (Bodies \cup Refs) \ Trivial

(* The words of a reference are empty, or those of a callable its signature*)
(* admits: a copy of the bytes, or the address.                            *)
SoundRef(r) ==
  \/ ref[r] = Null
  \/ r \in alive /\ \E c \in Bodies \cap Trivial, v \in Values : ref[r] = Embed(c, v)
  \/ r \in alive /\ \E o \in Links : ref[r] = Borrow(o)

(* A call runs in a copy, or in an object that is alive, or is on its way. *)
SoundFrame(f) ==
  /\ f \in Frames
  /\ \/ /\ f.running /\ f.val \in Values /\ f.tunnel = None
        /\ f.at \in Bodies \cap Trivial
     \/ /\ f.running /\ f.val = None /\ f.tunnel \in {None, f.at}
        /\ f.at \in (Bodies \cap alive) \ Trivial
     \/ /\ ~f.running /\ f.val = None /\ f.tunnel = None
        /\ f.at \in Links

(* A tunnel that was thrown into and not checked has one of the exceptions.*)
SoundTunnel(t) ==
  /\ t \notin alive => unchecked[t] = {}
  /\ unchecked[t] # {} => exception[t] \in unchecked[t]

RefInv ==
  /\ TypeOK
  /\ \A r \in Refs : SoundRef(r)
  /\ \A i \in DOMAIN stack : SoundFrame(stack[i])
  /\ \A t \in Tunnels : SoundTunnel(t)
  /\ NoExceptionEscapes

(* Data words are what the program made its references of.                 *)
MadeInv ==
  /\ \A r \in Refs : madeFrom[r] = ref[r].data
  /\ \A i \in DOMAIN stack : stack[i].at = stack[i].want

(* What is borrowed exists, and what is on its way arrives at it.          *)
LiveInv ==
  /\ \A r \in Refs : ref[r].thunk = "borrowed" => ref[r].data \in alive
  /\ CallsReachLiveObjects

-----------------------------------------------------------------------------
(* The stack. *)

LEMMA Pushed ==
  ASSUME NEW s \in Seq(Frames), NEW f \in Frames
  PROVE  /\ Append(s, f) \in Seq(Frames)
         /\ Len(Append(s, f)) = Len(s) + 1
         /\ \A i \in DOMAIN Append(s, f) : Append(s, f)[i] = f \/ (i \in DOMAIN s /\ Append(s, f)[i] = s[i])
OBVIOUS

LEMMA Popped ==
  ASSUME NEW s \in Seq(Frames), s # <<>>
  PROVE  /\ Front(s) \in Seq(Frames)
         /\ Len(Front(s)) = Len(s) - 1
         /\ \A i \in DOMAIN Front(s) : i \in DOMAIN s /\ Front(s)[i] = s[i]
         /\ Len(s) \in DOMAIN s
<1>1. Len(s) \in Nat /\ Len(s) # 0 /\ DOMAIN s = 1..Len(s)
  OBVIOUS
<1>2. Front(s) = SubSeq(s, 1, Len(s) - 1)
  BY DEF Front
<1>3. Len(Front(s)) = Len(s) - 1
  BY <1>1, <1>2
<1>4. \A i \in 1..(Len(s) - 1) : Front(s)[i] = s[i]
  BY <1>1, <1>2
<1>5. Front(s) \in Seq(Frames)
  BY <1>1, <1>2
<1> QED  BY <1>1, <1>3, <1>4, <1>5

(* The frame on top. *)
LEMMA TopFrame ==
  ASSUME RefInv, InCall
  PROVE  /\ SoundFrame(Top) /\ Top \in Frames
         /\ Len(stack) \in DOMAIN stack /\ stack \in Seq(Frames)
         /\ Front(stack) \in Seq(Frames) /\ Len(Front(stack)) = Len(stack) - 1
         /\ Len(stack) \in Nat /\ Len(stack) <= MaxDepth
         /\ \A i \in DOMAIN Front(stack) : i \in DOMAIN stack /\ Front(stack)[i] = stack[i]
<1>1. stack \in Seq(Frames) /\ stack # <<>> /\ Len(stack) <= MaxDepth
  BY DEF RefInv, TypeOK, InCall
<1>2. Len(stack) \in DOMAIN stack /\ Len(stack) \in Nat
  BY <1>1, Popped
<1>3. SoundFrame(Top)
  BY <1>2 DEF RefInv, Top
<1> QED  BY <1>1, <1>2, <1>3, Popped DEF SoundFrame

-----------------------------------------------------------------------------
(* What a step leaves as it is stays sound, unless an object dies.         *)

LEMMA SameRefs ==
  ASSUME RefInv, UNCHANGED ref, alive \subseteq alive'
  PROVE  \A r \in Refs : SoundRef(r)'
BY DEF RefInv, SoundRef

LEMMA SameFrames ==
  ASSUME RefInv, alive \subseteq alive',
         \A i \in DOMAIN stack' : i \in DOMAIN stack /\ stack'[i] = stack[i]
  PROVE  \A i \in DOMAIN stack' : SoundFrame(stack[i])'
BY DEF RefInv, SoundFrame

LEMMA SameTunnels ==
  ASSUME RefInv, UNCHANGED <<exception, unchecked>>, alive \subseteq alive'
  PROVE  \A t \in Tunnels : SoundTunnel(t)'
BY DEF RefInv, SoundTunnel

(* The frame of a call through words that are not null. *)
LEMMA FrameOf ==
  ASSUME NEW want, NEW c, NEW v, NEW o
  PROVE  /\ Frame(Embed(c, v), None, want)
              = [running |-> TRUE, at |-> c, val |-> v, tunnel |-> None, want |-> want]
         /\ Frame(Borrow(o), None, want)
              = [running |-> FALSE, at |-> o, val |-> None, tunnel |-> None, want |-> want]
<1>1. /\ Embed(c, v).data = c /\ Embed(c, v).val = v
      /\ Borrow(o).data = o /\ Borrow(o).val = None
  BY DEF Embed, Borrow
<1>2. (Embed(c, v).thunk = "embedded") = TRUE
  BY DEF Embed
<1>3. (Borrow(o).thunk = "embedded") = FALSE
  BY DEF Borrow
<1> QED  BY <1>1, <1>2, <1>3, Zenon DEF Frame

LEMMA LinkTypes ==
  /\ Bodies \subseteq Callables \cup Tunnels /\ Callables \cup Tunnels \subseteq Objects
  /\ Links \subseteq Objects /\ Links \cap Trivial = {} /\ Refs \subseteq Links
  /\ \A o \in Links : o \in Refs \/ o \in Bodies
  /\ \A o \in Links : o # None /\ o # Temporary
  /\ Temporary \notin Bodies /\ None \notin Bodies /\ Bodies \cap Refs = {}
  /\ Throwing \subseteq Callables /\ None \notin Objects /\ Temporary \notin Objects
BY KindsAssumption DEF Bodies, Links, Objects

(* A reference called yields a frame that goes where it may. *)
LEMMA CalledFrame ==
  ASSUME RefInv, NEW r \in Refs, ref[r] # Null,
         NEW want \in Callables \cup Tunnels \cup {None}
  PROVE  LET f == Frame(ref[r], None, want)
         IN  /\ SoundFrame(f) /\ f \in Frames
             /\ f.at = ref[r].data /\ f.want = want
             /\ f.val = None <=> ref[r].thunk = "borrowed"
<1>1. SoundRef(r)
  BY DEF RefInv
<1>2. CASE \E c \in Bodies \cap Trivial, v \in Values : ref[r] = Embed(c, v)
  <2>1. PICK c \in Bodies \cap Trivial, v \in Values : ref[r] = Embed(c, v)
    BY <1>2
  <2>2. Frame(ref[r], None, want)
          = [running |-> TRUE, at |-> c, val |-> v, tunnel |-> None, want |-> want]
    BY <2>1, FrameOf
  <2>3. ref[r].data = c /\ ref[r].thunk = "embedded" /\ v # None
    BY <2>1, KindsAssumption DEF Embed
  <2>4. c \in Objects
    BY LinkTypes
  <2> QED  BY <2>2, <2>3, <2>4 DEF SoundFrame, Frames
<1>3. CASE \E o \in Links : ref[r] = Borrow(o)
  <2>1. PICK o \in Links : ref[r] = Borrow(o)
    BY <1>3
  <2>2. Frame(ref[r], None, want)
          = [running |-> FALSE, at |-> o, val |-> None, tunnel |-> None, want |-> want]
    BY <2>1, FrameOf
  <2>3. ref[r].data = o /\ ref[r].thunk = "borrowed"
    BY <2>1 DEF Borrow
  <2>4. o \in Objects
    BY LinkTypes
  <2> QED  BY <2>2, <2>3, <2>4 DEF SoundFrame, Frames
<1> QED  BY <1>1, <1>2, <1>3 DEF SoundRef

(* A reference made of a callable, or of another reference. *)
LEMMA MadeWords ==
  ASSUME RefInv, NEW o \in alive, Invocable(o)
  PROVE  /\ make_c_callback(o) \in Thunks
         /\ make_c_callback(o).data = o
         /\ \/ o \in Bodies \cap Trivial /\ \E v \in Values : make_c_callback(o) = Embed(o, v)
            \/ o \in Links /\ make_c_callback(o) = Borrow(o)
<1>1. o \in Objects /\ state \in [Callables \cup Tunnels -> Values]
  BY DEF RefInv, TypeOK
<1>2. o \in Bodies \cup Refs
  BY <1>1 DEF Bodies, Objects
<1>3. CASE o \in Trivial
  <2>1. o \in Bodies /\ o \in Callables
    BY <1>2, <1>3, KindsAssumption
  <2>2. make_c_callback(o) = Embed(o, state[o]) /\ state[o] \in Values
    BY <1>1, <1>3, <2>1 DEF make_c_callback
  <2> QED  BY <1>3, <2>1, <2>2 DEF Thunks, Embed
<1>4. CASE o \notin Trivial
  <2>1. make_c_callback(o) = Borrow(o) /\ o \in Links
    BY <1>2, <1>4 DEF make_c_callback, Links
  <2> QED  BY <1>1, <2>1 DEF Thunks, Borrow
<1> QED  BY <1>3, <1>4

(* A noexcept reference may be made of any reference. *)
LEMMA RefsAreNoexcept ==
  ASSUME NEW r \in Refs
  PROVE  Invocable(r)
BY KindsAssumption DEF Invocable

-----------------------------------------------------------------------------
(* Calls. *)

LEMMA CallInv ==
  ASSUME RefInv, NEW r \in Refs, Call(r)
  PROVE  RefInv'
<1>1. UNCHANGED <<alive, state, ref, holds, exception, madeFrom, unchecked>>
  BY DEF Call
<1>2. /\ \A q \in Refs : SoundRef(q)'
      /\ \A t \in Tunnels : SoundTunnel(t)'
  BY <1>1, SameRefs, SameTunnels
<1>3. CASE NullCall /\ UNCHANGED stack
  <2>1. \A i \in DOMAIN stack' : SoundFrame(stack[i])'
    BY <1>1, <1>3, SameFrames
  <2>2. TypeOK' /\ NoExceptionEscapes'
    BY <1>1, <1>3 DEF RefInv, TypeOK, NullCall, NoExceptionEscapes
  <2> QED  BY <1>2, <2>1, <2>2 DEF RefInv
<1>4. CASE /\ ref[r] # Null /\ Len(stack) < MaxDepth
           /\ stack' = Append(stack, Frame(ref[r], None, madeFrom[r]))
           /\ last' = "ok"
  <2> DEFINE f == Frame(ref[r], None, madeFrom[r])
  <2>1. SoundFrame(f) /\ f \in Frames
    <3>1. madeFrom[r] \in Callables \cup Tunnels \cup {None}
      BY DEF RefInv, TypeOK
    <3> QED  BY <1>4, <3>1, CalledFrame
  <2>2. stack \in Seq(Frames) /\ MaxDepth \in Nat /\ Len(stack) \in Nat
    BY KindsAssumption DEF RefInv, TypeOK
  <2> HIDE DEF f
  <2>3. /\ stack' \in Seq(Frames) /\ Len(stack') = Len(stack) + 1
        /\ \A i \in DOMAIN stack' : stack'[i] = f \/ (i \in DOMAIN stack /\ stack'[i] = stack[i])
    BY <1>4, <2>1, <2>2, Pushed DEF f
  <2>4. \A i \in DOMAIN stack' : SoundFrame(stack'[i])
    BY <2>1, <2>3 DEF RefInv
  <2>5. \A i \in DOMAIN stack' : SoundFrame(stack[i])'
    BY <1>1, <2>4 DEF SoundFrame
  <2>6. TypeOK' /\ NoExceptionEscapes'
    BY <1>1, <1>4, <2>2, <2>3 DEF RefInv, TypeOK, NoExceptionEscapes
  <2> QED  BY <1>2, <2>5, <2>6 DEF RefInv
<1> QED  BY <1>3, <1>4 DEF Call

(* The top frame is replaced by one that is sound. *)
LEMMA ReplaceTop ==
  ASSUME RefInv, InCall, NEW f \in Frames, SoundFrame(f), UNCHANGED last,
         UNCHANGED <<alive, state, ref, holds, exception, madeFrom, unchecked>>,
         stack' = Append(Front(stack), f)
  PROVE  RefInv'
<1>1. /\ Front(stack) \in Seq(Frames)
      /\ Len(Front(stack)) = Len(stack) - 1 /\ Len(stack) \in Nat /\ Len(stack) <= MaxDepth
      /\ \A i \in DOMAIN Front(stack) : i \in DOMAIN stack /\ Front(stack)[i] = stack[i]
  BY TopFrame
<1>2. /\ stack' \in Seq(Frames) /\ Len(stack') = Len(Front(stack)) + 1
      /\ \A i \in DOMAIN stack' :
           stack'[i] = f \/ (i \in DOMAIN Front(stack) /\ stack'[i] = Front(stack)[i])
  BY <1>1, Pushed
<1>3. \A i \in DOMAIN stack' : SoundFrame(stack'[i])
  BY <1>1, <1>2 DEF RefInv
<1>4. \A i \in DOMAIN stack' : SoundFrame(stack[i])'
  BY <1>3 DEF SoundFrame
<1>5. TypeOK' /\ NoExceptionEscapes'
  BY <1>1, <1>2 DEF RefInv, TypeOK, NoExceptionEscapes
<1> QED  BY <1>4, <1>5, SameRefs, SameTunnels DEF RefInv

LEMMA ForwardInv ==
  ASSUME RefInv, Forward
  PROVE  RefInv'
<1>1. /\ UNCHANGED <<alive, state, ref, holds, exception, madeFrom, unchecked>>
      /\ InCall /\ ~Top.running /\ Top.at \in alive
  BY DEF Forward
<1>2. SoundFrame(Top) /\ Top \in Frames
  BY <1>1, TopFrame
<1>3. CASE /\ Top.at \in Refs /\ ref[Top.at] # Null /\ UNCHANGED last
           /\ stack' = Append(Front(stack), Frame(ref[Top.at], None, Top.want))
  <2>1. Top.want \in Callables \cup Tunnels \cup {None}
    BY <1>2 DEF Frames
  <2> DEFINE f == Frame(ref[Top.at], None, Top.want)
  <2>2. SoundFrame(f) /\ f \in Frames
    BY <1>3, <2>1, CalledFrame
  <2> HIDE DEF f
  <2> QED  BY <1>1, <1>3, <2>2, ReplaceTop DEF f
<1>4. CASE NullCall /\ UNCHANGED stack
  <2>1. TypeOK' /\ NoExceptionEscapes'
    BY <1>1, <1>4 DEF RefInv, TypeOK, NullCall, NoExceptionEscapes
  <2> QED  BY <1>1, <1>4, <2>1, SameRefs, SameFrames, SameTunnels DEF RefInv
<1>5. CASE /\ Top.at \notin Refs /\ UNCHANGED last
           /\ stack' = Append(Front(stack),
                [Top EXCEPT !.running = TRUE,
                            !.tunnel  = IF Top.at \in Tunnels THEN Top.at ELSE None])
  <2> DEFINE t == IF Top.at \in Tunnels THEN Top.at ELSE None
             f == [Top EXCEPT !.running = TRUE, !.tunnel = t]
  <2>1. Top.at \in Bodies /\ Top.at \in Links /\ Top.val = None
    BY <1>1, <1>2, <1>5, LinkTypes DEF SoundFrame
  <2>2. t \in {None, Top.at} /\ t \in Tunnels \cup {None}
    OBVIOUS
  <2> HIDE DEF t
  <2>3. f \in Frames /\ f.running /\ f.val = None /\ f.tunnel = t /\ f.at = Top.at
    BY <1>2, <2>1, <2>2 DEF Frames
  <2> HIDE DEF f
  <2>4. SoundFrame(f)
    BY <1>1, <2>1, <2>2, <2>3, LinkTypes DEF SoundFrame
  <2> QED  BY <1>1, <1>5, <2>3, <2>4, ReplaceTop DEF f, t
<1> QED  BY <1>3, <1>4, <1>5 DEF Forward, Forwarded

(* The top frame is gone, the others are as they were. *)
LEMMA PopFrames ==
  ASSUME RefInv, InCall, stack' = Front(stack), alive \subseteq alive'
  PROVE  /\ \A i \in DOMAIN stack' : SoundFrame(stack[i])'
         /\ stack' \in Seq(Frames) /\ Len(stack') <= MaxDepth
<1>1. /\ Front(stack) \in Seq(Frames)
      /\ Len(Front(stack)) = Len(stack) - 1 /\ Len(stack) \in Nat /\ Len(stack) <= MaxDepth
      /\ \A i \in DOMAIN Front(stack) : i \in DOMAIN stack /\ Front(stack)[i] = stack[i]
  BY TopFrame
<1>2. MaxDepth \in Nat
  BY KindsAssumption
<1> QED  BY <1>1, <1>2, SameFrames

LEMMA ReturnInv ==
  ASSUME RefInv, Return
  PROVE  RefInv'
<1>1. /\ UNCHANGED <<alive, ref, holds, exception, madeFrom, unchecked>>
      /\ InCall /\ stack' = Front(stack) /\ last' = "ok"
  BY DEF Return
<1>2. /\ \A q \in Refs : SoundRef(q)'
      /\ \A t \in Tunnels : SoundTunnel(t)'
      /\ \A i \in DOMAIN stack' : SoundFrame(stack[i])'
      /\ stack' \in Seq(Frames) /\ Len(stack') <= MaxDepth
  BY <1>1, SameRefs, SameTunnels, PopFrames
<1>3. state' \in [Callables \cup Tunnels -> Values]
  BY DEF Return, RefInv, TypeOK
<1>4. TypeOK' /\ NoExceptionEscapes'
  BY <1>1, <1>2, <1>3 DEF RefInv, TypeOK, NoExceptionEscapes
<1> QED  BY <1>2, <1>4 DEF RefInv

(* A tunnel keeps what it catches; without one a noexcept signature admits *)
(* no callable that throws.                                                *)
LEMMA ThrowInv ==
  ASSUME RefInv, NEW e \in Exceptions, Throw(e)
  PROVE  RefInv'
<1>1. /\ UNCHANGED <<alive, state, ref, holds, madeFrom>>
      /\ InCall /\ Top.running /\ stack' = Front(stack) /\ Runs(Top) \in Throwing
  BY DEF Throw
<1>2. /\ \A q \in Refs : SoundRef(q)'
      /\ \A i \in DOMAIN stack' : SoundFrame(stack[i])'
      /\ stack' \in Seq(Frames) /\ Len(stack') <= MaxDepth
  BY <1>1, SameRefs, PopFrames
<1>3. SoundFrame(Top) /\ Top.tunnel \in Tunnels \cup {None}
  BY <1>1, TopFrame DEF Frames
<1>4. CASE /\ Top.tunnel # None /\ Catch(Top.tunnel, e)
           /\ unchecked' = [unchecked EXCEPT ![Top.tunnel] = @ \cup {e}]
           /\ last' = "ok"
  <2>1. Top.tunnel \in Tunnels \cap alive
    BY <1>1, <1>3, <1>4 DEF SoundFrame
  <2>2. exception' \in [Tunnels -> Exceptions \cup {None}] /\ unchecked' \in [Tunnels -> SUBSET Exceptions]
    BY <1>4, <2>1 DEF Catch, RefInv, TypeOK
  <2>3. ASSUME NEW t \in Tunnels PROVE SoundTunnel(t)'
    <3>1. SoundTunnel(t) /\ unchecked \in [Tunnels -> SUBSET Exceptions]
          /\ exception \in [Tunnels -> Exceptions \cup {None}]
      BY DEF RefInv, TypeOK
    <3> QED  BY <1>1, <1>4, <2>1, <3>1 DEF SoundTunnel, Catch
  <2>4. TypeOK' /\ NoExceptionEscapes'
    BY <1>1, <1>2, <1>4, <2>2 DEF RefInv, TypeOK, NoExceptionEscapes
  <2> QED  BY <1>2, <2>3, <2>4 DEF RefInv
<1>5. CASE /\ Top.tunnel = None
           /\ last' = IF ne THEN "terminated" ELSE "threw"
           /\ UNCHANGED <<exception, unchecked>>
  <2>1. ~ne
    BY <1>1, <1>3, <1>5 DEF SoundFrame, Runs, Bodies, Invocable
  <2>2. \A t \in Tunnels : SoundTunnel(t)'
    BY <1>1, <1>5, SameTunnels
  <2>3. TypeOK' /\ NoExceptionEscapes'
    BY <1>1, <1>2, <1>5, <2>1 DEF RefInv, TypeOK, NoExceptionEscapes
  <2> QED  BY <1>2, <2>2, <2>3 DEF RefInv
<1> QED  BY <1>4, <1>5 DEF Throw

-----------------------------------------------------------------------------
(* What the program does between calls. *)

LEMMA CreateCallableInv ==
  ASSUME RefInv, NEW c \in Callables, CreateCallable(c)
  PROVE  RefInv'
<1>1. /\ UNCHANGED <<state, ref, holds, exception, stack, madeFrom, unchecked>>
      /\ alive' = alive \cup {c} /\ last' = "ok"
  BY DEF CreateCallable
<1>2. TypeOK' /\ NoExceptionEscapes'
  BY <1>1 DEF RefInv, TypeOK, NoExceptionEscapes, Objects
<1> QED  BY <1>1, <1>2, SameRefs, SameFrames, SameTunnels DEF RefInv

LEMMA UseDirectlyInv ==
  ASSUME RefInv, NEW c \in Callables, NEW v \in Values, UseDirectly(c, v)
  PROVE  RefInv'
<1>1. /\ UNCHANGED <<alive, ref, holds, exception, stack, madeFrom, unchecked>>
      /\ state' = [state EXCEPT ![c] = v] /\ last' = "ok"
  BY DEF UseDirectly
<1>2. TypeOK' /\ NoExceptionEscapes'
  BY <1>1 DEF RefInv, TypeOK, NoExceptionEscapes
<1> QED  BY <1>1, <1>2, SameRefs, SameFrames, SameTunnels DEF RefInv

LEMMA MakeTunnelInv ==
  ASSUME RefInv, NEW t \in Tunnels, NEW c \in Callables, MakeTunnel(t, c)
  PROVE  RefInv'
<1>1. /\ UNCHANGED <<ref, stack, madeFrom>>
      /\ alive' = alive \cup {t} /\ last' = "ok"
      /\ holds' = [holds EXCEPT ![t] = c] /\ state' = [state EXCEPT ![t] = state[c]]
      /\ exception' = [exception EXCEPT ![t] = None]
      /\ unchecked' = [unchecked EXCEPT ![t] = {}]
  BY DEF MakeTunnel
<1>2. TypeOK' /\ NoExceptionEscapes'
  BY <1>1 DEF RefInv, TypeOK, NoExceptionEscapes, Objects
<1>3. \A u \in Tunnels : SoundTunnel(u)'
  BY <1>1 DEF RefInv, TypeOK, SoundTunnel
<1> QED  BY <1>1, <1>2, <1>3, SameRefs, SameFrames DEF RefInv

LEMMA CheckFailureInv ==
  ASSUME RefInv, NEW t \in Tunnels, CheckFailure(t)
  PROVE  RefInv'
<1>1. /\ UNCHANGED <<alive, state, ref, holds, exception, stack, madeFrom>>
      /\ last' \in {"ok", exception[t]} /\ (exception[t] = None => last' = "ok")
      /\ unchecked' = [unchecked EXCEPT ![t] = {}]
  BY DEF CheckFailure
<1>2. exception[t] \in Exceptions \cup {None}
  BY DEF RefInv, TypeOK
<1>3. TypeOK' /\ NoExceptionEscapes'
  BY <1>1, <1>2, KindsAssumption DEF RefInv, TypeOK, NoExceptionEscapes
<1>4. \A u \in Tunnels : SoundTunnel(u)'
  BY <1>1 DEF RefInv, TypeOK, SoundTunnel
<1> QED  BY <1>1, <1>3, <1>4, SameRefs, SameFrames DEF RefInv

(* One reference is given words. *)
LEMMA RefSet ==
  ASSUME RefInv, NEW r \in Refs, NEW w \in Thunks,
         NEW o \in Callables \cup Tunnels \cup {None},
         UNCHANGED <<state, holds, exception, stack, unchecked>>,
         alive' = alive \cup {r}, last' = "ok",
         ref' = [ref EXCEPT ![r] = w], madeFrom' = [madeFrom EXCEPT ![r] = o],
         \/ w = Null
         \/ \E c \in Bodies \cap Trivial, v \in Values : w = Embed(c, v)
         \/ \E p \in Links : w = Borrow(p)
  PROVE  RefInv'
<1>1. ref \in [Refs -> Thunks] /\ madeFrom \in [Refs -> Callables \cup Tunnels \cup {None}]
  BY DEF RefInv, TypeOK
<1>2. SoundRef(r)'
  BY <1>1 DEF SoundRef
<1>3. ASSUME NEW q \in Refs, q # r PROVE SoundRef(q)'
  <2>1. SoundRef(q) /\ ref'[q] = ref[q]
    BY <1>1, <1>3 DEF RefInv
  <2> QED  BY <2>1 DEF SoundRef
<1>4. TypeOK' /\ NoExceptionEscapes'
  BY <1>1 DEF RefInv, TypeOK, NoExceptionEscapes, Objects
<1> QED  BY <1>2, <1>3, <1>4, SameFrames, SameTunnels DEF RefInv

LEMMA DefaultConstructInv ==
  ASSUME RefInv, NEW r \in Refs, DefaultConstruct(r)
  PROVE  RefInv'
<1>1. Null \in Thunks
  BY DEF Thunks
<1> QED  BY <1>1, RefSet DEF DefaultConstruct

LEMMA BindInv ==
  ASSUME RefInv, NEW r \in Refs, NEW o \in Objects, Bind(r, o)
  PROVE  RefInv'
<1>1. o \in alive \ Refs /\ Invocable(o) /\ o \in Callables \cup Tunnels
  BY DEF Bind, Objects
<1>2. /\ make_c_callback(o) \in Thunks
      /\ \/ \E c \in Bodies \cap Trivial, v \in Values : make_c_callback(o) = Embed(c, v)
         \/ \E p \in Links : make_c_callback(o) = Borrow(p)
  BY <1>1, MadeWords
<1> QED  BY <1>1, <1>2, RefSet DEF Bind

(* The words of s suit r as well. *)
LEMMA CopyInv ==
  ASSUME RefInv, NEW r \in Refs, NEW s \in Refs,
         UNCHANGED <<state, holds, exception, stack, unchecked>>,
         alive' = alive \cup {r}, last' = "ok",
         ref' = [ref EXCEPT ![r] = ref[s]], madeFrom' = [madeFrom EXCEPT ![r] = madeFrom[s]]
  PROVE  RefInv'
<1>1. ref[s] \in Thunks /\ madeFrom[s] \in Callables \cup Tunnels \cup {None} /\ SoundRef(s)
  BY DEF RefInv, TypeOK
<1> QED  BY <1>1, RefSet DEF SoundRef

(* A reference that is not const is itself made a reference of. *)
LEMMA CopyConstructInv ==
  ASSUME RefInv, NEW r \in Refs, NEW s \in Refs, NEW source \in Sources,
         CopyConstruct(r, s, source)
  PROVE  RefInv'
<1>1. CASE source = "const"
  BY <1>1, CopyInv DEF CopyConstruct, Copied
<1>2. CASE source # "const"
  <2>1. /\ s \in alive /\ Copied(s, source) = make_c_callback(s)
        /\ madeFrom[s] \in Callables \cup Tunnels \cup {None}
    BY <1>2 DEF CopyConstruct, Copied, RefInv, TypeOK
  <2>2. /\ make_c_callback(s) \in Thunks
        /\ \/ \E c \in Bodies \cap Trivial, v \in Values : make_c_callback(s) = Embed(c, v)
           \/ \E p \in Links : make_c_callback(s) = Borrow(p)
    BY <2>1, MadeWords, RefsAreNoexcept
  <2> QED  BY <2>1, <2>2, RefSet DEF CopyConstruct
<1> QED  BY <1>1, <1>2

LEMMA CopyAssignInv ==
  ASSUME RefInv, NEW r \in Refs, NEW s \in Refs, CopyAssign(r, s)
  PROVE  RefInv'
<1>1. alive' = alive \cup {r}
  BY DEF CopyAssign
<1> QED  BY <1>1, CopyInv DEF CopyAssign

(* What dies is not running. *)
LEMMA DestroyInv ==
  ASSUME RefInv, NEW o \in Objects, Destroy(o)
  PROVE  RefInv'
<1>1. /\ alive' = alive \ {o} /\ UNCHANGED stack /\ last' = "ok"
      /\ state' = [p \in DOMAIN state |-> IF p = o THEN Initial ELSE state[p]]
      /\ holds' = [t \in Tunnels |-> IF t = o THEN None ELSE holds[t]]
      /\ ref' = [r \in Refs |-> IF r = o THEN Null ELSE ref[r]]
      /\ madeFrom' = [r \in Refs |-> IF r = o THEN None ELSE madeFrom[r]]
      /\ exception' = [t \in Tunnels |-> IF t = o THEN None ELSE exception[t]]
      /\ unchecked' = [t \in Tunnels |-> IF t = o THEN {} ELSE unchecked[t]]
  BY DEF Destroy
<1>2. \A i \in DOMAIN stack : stack[i].at = o => stack[i].val # None
  BY DEF Destroy, MayDestroy
<1>3. Initial \in Values
  BY KindsAssumption DEF Initial
<1>4. TypeOK'
  <2>1. TypeOK
    BY DEF RefInv
  <2>2. alive' \subseteq Objects /\ stack' \in Seq(Frames) /\ Len(stack') <= MaxDepth
    BY <1>1, <2>1 DEF TypeOK
  <2>3. state' \in [Callables \cup Tunnels -> Values]
    BY <1>1, <1>3, <2>1 DEF TypeOK
  <2>4. holds' \in [Tunnels -> Callables \cup {None}] /\ exception' \in [Tunnels -> Exceptions \cup {None}]
          /\ unchecked' \in [Tunnels -> SUBSET Exceptions]
    BY <1>1, <2>1 DEF TypeOK
  <2>5. ref' \in [Refs -> Thunks]
    BY <1>1, <2>1 DEF TypeOK, Thunks
  <2>6. madeFrom' \in [Refs -> Callables \cup Tunnels \cup {None}]
    BY <1>1, <2>1 DEF TypeOK
  <2> QED  BY <2>2, <2>3, <2>4, <2>5, <2>6 DEF TypeOK
<1>5. ASSUME NEW r \in Refs PROVE SoundRef(r)'
  <2>1. CASE r = o
    BY <1>1, <2>1 DEF SoundRef
  <2>2. CASE r # o
    <3>1. SoundRef(r) /\ ref'[r] = ref[r]
      BY <1>1, <2>2 DEF RefInv
    <3> QED  BY <1>1, <2>2, <3>1 DEF SoundRef
  <2> QED  BY <2>1, <2>2
<1>6. ASSUME NEW i \in DOMAIN stack' PROVE SoundFrame(stack[i])'
  <2>1. i \in DOMAIN stack /\ stack'[i] = stack[i] /\ SoundFrame(stack[i])
    BY <1>1 DEF RefInv
  <2> QED  BY <1>1, <1>2, <2>1 DEF SoundFrame
<1>7. ASSUME NEW t \in Tunnels PROVE SoundTunnel(t)'
  <2>1. SoundTunnel(t)
    BY DEF RefInv
  <2> QED  BY <1>1, <2>1 DEF SoundTunnel
<1>8. NoExceptionEscapes'
  BY <1>1 DEF NoExceptionEscapes
<1> QED  BY <1>4, <1>5, <1>6, <1>7, <1>8 DEF RefInv

-----------------------------------------------------------------------------
LEMMA RefInit == Init => RefInv
<1> SUFFICES ASSUME Init PROVE RefInv
  OBVIOUS
<1>1. Initial \in Values /\ MaxDepth \in Nat
  BY KindsAssumption DEF Initial
<1>2. stack \in Seq(Frames) /\ Len(stack) = 0 /\ DOMAIN stack = {}
  BY DEF Init
<1>3. TypeOK
  BY <1>1, <1>2 DEF Init, TypeOK, Thunks
<1>4. \A r \in Refs : SoundRef(r)
  BY DEF Init, SoundRef
<1> QED  BY <1>2, <1>3, <1>4 DEF Init, RefInv, SoundTunnel, NoExceptionEscapes

LEMMA RefNext ==
  ASSUME RefInv, [Next]_vars
  PROVE  RefInv'
<1>1. CASE Next
  BY <1>1, CallInv, ForwardInv, ReturnInv, ThrowInv, CreateCallableInv, UseDirectlyInv,
     MakeTunnelInv, CheckFailureInv, DefaultConstructInv, BindInv, CopyConstructInv,
     CopyAssignInv, DestroyInv
  DEF Next, Program
<1>2. CASE UNCHANGED vars
  <2>1. UNCHANGED <<alive, state, ref, holds, exception, stack, last, madeFrom, unchecked>>
    BY <1>2 DEF vars
  <2>2. TypeOK' /\ NoExceptionEscapes'
    BY <2>1 DEF RefInv, TypeOK, NoExceptionEscapes
  <2> QED  BY <2>1, <2>2, SameRefs, SameFrames, SameTunnels DEF RefInv
<1> QED  BY <1>1, <1>2

LEMMA RefInvariant == Spec => []RefInv
BY RefInit, RefNext, PTL DEF Spec

-----------------------------------------------------------------------------
(* What a step does to the references and to the calls in progress.        *)

(* A reference keeps its words, loses them, is made of an object, or copied*)
(* from another one.                                                       *)
LEMMA RefSteps ==
  ASSUME RefInv, [Next]_vars, NEW r \in Refs
  PROVE  \/ ref'[r] = ref[r] /\ madeFrom'[r] = madeFrom[r]
         \/ ref'[r] = Null /\ madeFrom'[r] = None
         \/ \E s \in Refs : ref'[r] = ref[s] /\ madeFrom'[r] = madeFrom[s]
         \/ \E o \in alive \cap alive' :
              /\ ref'[r] = make_c_callback(o) /\ Invocable(o)
              /\ madeFrom'[r] = o \/ (o \in Refs /\ ~ConstCopies)
<1> DEFINE Result ==
      \/ ref'[r] = ref[r] /\ madeFrom'[r] = madeFrom[r]
      \/ ref'[r] = Null /\ madeFrom'[r] = None
      \/ \E s \in Refs : ref'[r] = ref[s] /\ madeFrom'[r] = madeFrom[s]
      \/ \E o \in alive \cap alive' :
           /\ ref'[r] = make_c_callback(o) /\ Invocable(o)
           /\ madeFrom'[r] = o \/ (o \in Refs /\ ~ConstCopies)
<1> SUFFICES Result
  OBVIOUS
<1>1. DOMAIN ref = Refs /\ DOMAIN madeFrom = Refs
  BY DEF RefInv, TypeOK
<1>2. CASE UNCHANGED <<ref, madeFrom>>
  BY <1>2
<1>3. ASSUME NEW q \in Refs, DefaultConstruct(q) PROVE Result
  BY <1>1, <1>3 DEF DefaultConstruct
<1>4. ASSUME NEW q \in Refs, NEW o \in Objects, Bind(q, o) PROVE Result
  <2>1. /\ o \in alive \cap alive' /\ Invocable(o)
        /\ ref' = [ref EXCEPT ![q] = make_c_callback(o)]
        /\ madeFrom' = [madeFrom EXCEPT ![q] = o]
    BY <1>4 DEF Bind
  <2> QED  BY <1>1, <2>1
<1>5. ASSUME NEW q \in Refs, NEW s \in Refs, NEW source \in Sources,
             CopyConstruct(q, s, source)
      PROVE  Result
  <2>1. /\ s \in alive \cap alive' /\ Invocable(s)
        /\ ref' = [ref EXCEPT ![q] = Copied(s, source)]
        /\ madeFrom' = [madeFrom EXCEPT ![q] = madeFrom[s]]
    BY <1>5, RefsAreNoexcept DEF CopyConstruct
  <2>2. CASE source = "const"
    BY <1>1, <2>1, <2>2 DEF Copied
  <2>3. CASE source # "const"
    <3>1. Copied(s, source) = make_c_callback(s) /\ ~ConstCopies
      BY <2>3 DEF Copied, ConstCopies
    <3> QED  BY <1>1, <2>1, <3>1
  <2> QED  BY <2>2, <2>3
<1>6. ASSUME NEW q \in Refs, NEW s \in Refs, CopyAssign(q, s) PROVE Result
  BY <1>1, <1>6 DEF CopyAssign
<1>7. ASSUME NEW o \in Objects, Destroy(o) PROVE Result
  BY <1>7 DEF Destroy
<1> HIDE DEF Result
<1>8. CASE Next
  BY <1>2, <1>3, <1>4, <1>5, <1>6, <1>7, <1>8
  DEF Next, Program, Call, Forward, Return, Throw, CreateCallable, UseDirectly,
      MakeTunnel, CheckFailure
<1>9. CASE UNCHANGED vars
  BY <1>2, <1>9 DEF vars
<1> QED  BY <1>8, <1>9

(* A frame stays; or it is that of a call through a reference, by the      *)
(* program or by a thunk; or the call it stands for arrives.               *)
LEMMA FrameSteps ==
  ASSUME RefInv, [Next]_vars, NEW i \in DOMAIN stack'
  PROVE  \/ i \in DOMAIN stack /\ stack'[i] = stack[i]
         \/ /\ UNCHANGED alive
            /\ \E r \in Refs : ref[r] # Null /\ stack'[i] = Frame(ref[r], None, madeFrom[r])
         \/ /\ UNCHANGED alive /\ InCall /\ ~Top.running
            /\ \/ /\ Top.at \in Refs /\ ref[Top.at] # Null
                  /\ stack'[i] = Frame(ref[Top.at], None, Top.want)
               \/ /\ Top.at \in alive
                  /\ stack'[i].at = Top.at /\ stack'[i].want = Top.want
<1> DEFINE Kept == i \in DOMAIN stack /\ stack'[i] = stack[i]
           Called == \E r \in Refs : ref[r] # Null /\ stack'[i] = Frame(ref[r], None, madeFrom[r])
           Passed == \/ /\ Top.at \in Refs /\ ref[Top.at] # Null
                        /\ stack'[i] = Frame(ref[Top.at], None, Top.want)
                     \/ /\ Top.at \in alive
                        /\ stack'[i].at = Top.at /\ stack'[i].want = Top.want
           Result == \/ Kept
                     \/ UNCHANGED alive /\ Called
                     \/ UNCHANGED alive /\ InCall /\ ~Top.running /\ Passed
<1> SUFFICES Result
  OBVIOUS
<1>1. stack \in Seq(Frames) /\ RefInv'
  BY RefNext DEF RefInv, TypeOK
<1>2. CASE UNCHANGED stack
  BY <1>2
<1>3. ASSUME NEW r \in Refs, Call(r) PROVE Result
  <2>1. CASE UNCHANGED stack
    BY <1>2, <2>1
  <2>2. CASE /\ ref[r] # Null
             /\ stack' = Append(stack, Frame(ref[r], None, madeFrom[r]))
    <3>1. i \in DOMAIN stack \/ i = Len(stack) + 1
      BY <1>1, <2>2
    <3>2. stack'[i] = IF i \in DOMAIN stack THEN stack[i] ELSE Frame(ref[r], None, madeFrom[r])
      BY <1>1, <2>2, <3>1
    <3> QED  BY <1>3, <2>2, <3>2 DEF Call
  <2> QED  BY <1>3, <2>1, <2>2 DEF Call
<1>4. CASE Forward
  <2>1. /\ Front(stack) \in Seq(Frames) /\ InCall /\ ~Top.running /\ UNCHANGED alive
        /\ Top \in Frames /\ Top.at \in alive
        /\ \A k \in DOMAIN Front(stack) : k \in DOMAIN stack /\ Front(stack)[k] = stack[k]
    BY <1>4, TopFrame DEF Forward
  <2>2. ASSUME NEW f, stack' = Append(Front(stack), f)
        PROVE  Kept \/ stack'[i] = f
    <3>1. i \in DOMAIN Front(stack) \/ i = Len(Front(stack)) + 1
      BY <2>1, <2>2
    <3>2. stack'[i] = IF i \in DOMAIN Front(stack) THEN Front(stack)[i] ELSE f
      BY <2>1, <2>2, <3>1
    <3> QED  BY <2>1, <3>2
  <2>3. CASE /\ Top.at \in Refs /\ ref[Top.at] # Null
             /\ stack' = Append(Front(stack), Frame(ref[Top.at], None, Top.want))
    <3>1. Kept \/ stack'[i] = Frame(ref[Top.at], None, Top.want)
      BY <2>2, <2>3
    <3> QED  BY <2>1, <2>3, <3>1
  <2>4. CASE stack' = Append(Front(stack),
               [Top EXCEPT !.running = TRUE,
                           !.tunnel  = IF Top.at \in Tunnels THEN Top.at ELSE None])
    <3> DEFINE f == [Top EXCEPT !.running = TRUE,
                                !.tunnel  = IF Top.at \in Tunnels THEN Top.at ELSE None]
    <3>1. f.at = Top.at /\ f.want = Top.want
      BY <2>1 DEF Frames
    <3>2. Kept \/ stack'[i] = f
      BY <2>2, <2>4
    <3> QED  BY <2>1, <3>1, <3>2
  <2> QED  BY <1>2, <1>4, <2>3, <2>4 DEF Forward, Forwarded
<1>5. CASE InCall /\ stack' = Front(stack)
  BY <1>5, TopFrame
<1> HIDE DEF Result
<1>6. CASE Next
  BY <1>2, <1>3, <1>4, <1>5, <1>6
  DEF Next, Program, Return, Throw, CreateCallable, UseDirectly, MakeTunnel, CheckFailure,
      DefaultConstruct, Bind, CopyConstruct, CopyAssign, Destroy
<1>7. CASE UNCHANGED vars
  BY <1>2, <1>7 DEF vars
<1> QED  BY <1>6, <1>7

-----------------------------------------------------------------------------
(* Where copies are made of const references, every data word is what the  *)
(* program made its reference of.                                          *)

LEMMA MadeInit == Init => MadeInv
BY DEF Init, MadeInv, Null

LEMMA MadeNext ==
  ASSUME ConstCopies, RefInv, MadeInv, [Next]_vars
  PROVE  MadeInv'
<1>1. ASSUME NEW r \in Refs PROVE madeFrom'[r] = ref'[r].data
  <2>1. \A s \in Refs : madeFrom[s] = ref[s].data
    BY DEF MadeInv
  <2>2. CASE \E o \in alive : /\ ref'[r] = make_c_callback(o) /\ Invocable(o)
                              /\ madeFrom'[r] = o
    BY <2>2, MadeWords
  <2>3. Null.data = None
    BY DEF Null
  <2> QED  BY <2>1, <2>2, <2>3, RefSteps
<1>2. ASSUME NEW i \in DOMAIN stack' PROVE stack'[i].at = stack'[i].want
  <2>1. CASE \E r \in Refs : /\ ref[r] # Null
                             /\ stack'[i] = Frame(ref[r], None, madeFrom[r])
    BY <2>1, CalledFrame DEF MadeInv, RefInv, TypeOK
  <2>2. CASE InCall
    <3>1. Top.at = Top.want /\ Top.want \notin Refs
      BY <2>2, TopFrame, KindsAssumption DEF MadeInv, Top, Frames, Objects
    <3> QED  BY <2>1, <3>1, FrameSteps DEF MadeInv
  <2> QED  BY <2>1, <2>2, FrameSteps DEF MadeInv
<1> QED  BY <1>1, <1>2 DEF MadeInv

LEMMA MadeInvariant ==
  ASSUME ConstCopies
  PROVE  Spec => []MadeInv
<1>1. RefInv /\ MadeInv /\ [Next]_vars => MadeInv'
  BY MadeNext
<1> QED  BY <1>1, MadeInit, RefInvariant, PTL DEF Spec

-----------------------------------------------------------------------------
(* What references and calls in progress are the address of exists.        *)

LEMMA LiveInit == Init => LiveInv
BY DEF Init, LiveInv, CallsReachLiveObjects, Null

(* A program that keeps its lifetimes destroys nothing that is borrowed.   *)
LEMMA BorrowedKept ==
  ASSUME KeptLifetimes, RefInv, ConstCopies => MadeInv,
         NEW o \in Objects, Destroy(o), NEW r \in Refs, ref[r].thunk = "borrowed"
  PROVE  ref[r].data # o
<1>1. r \in alive /\ ref[r].data \in Links
  <2>1. SoundRef(r)
    BY DEF RefInv
  <2>2. /\ ref[r] # Null
        /\ \A c, v : ref[r] # Embed(c, v)
    BY DEF Null, Embed
  <2>3. PICK p \in Links : ref[r] = Borrow(p) /\ r \in alive
    BY <2>1, <2>2 DEF SoundRef
  <2> QED  BY <2>3 DEF Borrow
<1>2. CASE Lifetimes = "actual"
  BY <1>1, <1>2 DEF Destroy, MayDestroy
<1>3. CASE Lifetimes # "actual" /\ ConstCopies
  <2>1. Lifetimes = "documented" /\ madeFrom[r] = ref[r].data
    BY <1>3, KindsAssumption DEF MadeInv
  <2> QED  BY <1>1, <2>1, LinkTypes DEF Destroy, MayDestroy
<1> QED  BY <1>2, <1>3 DEF KeptLifetimes

(* Nothing but Destroy ends a lifetime. *)
LEMMA OnlyDestroy ==
  ASSUME [Next]_vars, ~(alive \subseteq alive')
  PROVE  \E o \in Objects : Destroy(o)
<1>1. alive' # alive
  OBVIOUS
<1>2. Next
  BY <1>1 DEF vars
<1> QED
  BY <1>1, <1>2
  DEF Next, Program, Call, Forward, Return, Throw, CreateCallable, UseDirectly, MakeTunnel,
      CheckFailure, DefaultConstruct, Bind, CopyConstruct, CopyAssign

LEMMA LiveNext ==
  ASSUME KeptLifetimes, RefInv, ConstCopies => MadeInv, LiveInv, [Next]_vars
  PROVE  LiveInv'
<1>1. CASE \E o \in Objects : Destroy(o)
  <2>1. PICK o \in Objects : Destroy(o)
    BY <1>1
  <2>2. /\ alive' = alive \ {o} /\ UNCHANGED stack
        /\ ref' = [r \in Refs |-> IF r = o THEN Null ELSE ref[r]]
        /\ \A i \in DOMAIN stack : stack[i].at = o => stack[i].val # None
    BY <2>1 DEF Destroy, MayDestroy
  <2>3. ASSUME NEW r \in Refs, ref'[r].thunk = "borrowed" PROVE ref'[r].data \in alive'
    <3>1. ref'[r] = ref[r]
      BY <2>2, <2>3 DEF Null
    <3> QED  BY <2>1, <2>2, <2>3, <3>1, BorrowedKept DEF LiveInv
  <2>4. CallsReachLiveObjects'
    BY <2>2 DEF LiveInv, CallsReachLiveObjects
  <2> QED  BY <2>3, <2>4 DEF LiveInv
<1>2. CASE ~\E o \in Objects : Destroy(o)
  <2>1. alive \subseteq alive'
    BY <1>2, OnlyDestroy
  <2>2. \A r \in Refs : ref[r].thunk = "borrowed" => ref[r].data \in alive
    BY DEF LiveInv
  <2>3. ASSUME NEW r \in Refs, ref'[r].thunk = "borrowed" PROVE ref'[r].data \in alive'
    <3>1. CASE \E o \in alive : ref'[r] = make_c_callback(o) /\ Invocable(o)
      BY <2>1, <3>1, MadeWords
    <3>2. CASE \E s \in Refs : ref'[r] = ref[s]
      BY <2>1, <2>2, <2>3, <3>2
    <3>3. ref'[r] # Null
      BY <2>3 DEF Null
    <3> QED  BY <3>1, <3>2, <3>3, RefSteps
  <2>4. ASSUME NEW i \in DOMAIN stack', stack'[i].val = None PROVE stack'[i].at \in alive'
    <3>1. ASSUME NEW r \in Refs, ref[r] # Null,
                 NEW want \in Callables \cup Tunnels \cup {None},
                 stack'[i] = Frame(ref[r], None, want)
          PROVE  stack'[i].at \in alive'
      BY <2>1, <2>2, <2>4, <3>1, CalledFrame
    <3>2. \A r \in Refs : madeFrom[r] \in Callables \cup Tunnels \cup {None}
      BY DEF RefInv, TypeOK
    <3>3. InCall => Top.want \in Callables \cup Tunnels \cup {None}
      BY TopFrame DEF Frames
    <3>4. CASE i \in DOMAIN stack /\ stack'[i] = stack[i]
      BY <2>1, <2>4, <3>4 DEF LiveInv, CallsReachLiveObjects
    <3> QED  BY <2>1, <3>1, <3>2, <3>3, <3>4, FrameSteps
  <2> QED  BY <2>3, <2>4 DEF LiveInv, CallsReachLiveObjects
<1> QED  BY <1>1, <1>2

LEMMA LiveInvariant ==
  ASSUME KeptLifetimes
  PROVE  Spec => []LiveInv
<1>1. CASE ConstCopies
  <2>1. RefInv /\ MadeInv /\ LiveInv /\ [Next]_vars => LiveInv'
    BY LiveNext
  <2> QED  BY <1>1, <2>1, LiveInit, RefInvariant, MadeInvariant, PTL DEF Spec
<1>2. CASE ~ConstCopies
  <2>1. RefInv /\ LiveInv /\ [Next]_vars => LiveInv'
    BY <1>2, LiveNext
  <2> QED  BY <2>1, LiveInit, RefInvariant, PTL DEF Spec
<1> QED  BY <1>1, <1>2

-----------------------------------------------------------------------------
(* The theorems. *)

(* References hold words a thunk can follow, calls in progress are of      *)
(* objects, however references are copied and whatever is destroyed.       *)
THEOREM TypeCorrectness == Spec => []TypeOK
<1>1. RefInv => TypeOK
  BY DEF RefInv
<1> QED  BY <1>1, RefInvariant, PTL

(* No exception crosses a noexcept signature, whatever the program does.   *)
THEOREM ExceptionsStay == Spec => []NoExceptionEscapes
<1>1. RefInv => NoExceptionEscapes
  BY DEF RefInv
<1> QED  BY <1>1, RefInvariant, PTL

(* Programs that keep what is borrowed alive never call through a dangling *)
(* reference: if copies are made of const references, it is enough that    *)
(* callables live as long as what was made of them.                        *)
THEOREM NoDanglingCalls ==
  ASSUME KeptLifetimes
  PROVE  Spec => []CallsReachLiveObjects
<1>1. LiveInv => CallsReachLiveObjects
  BY DEF LiveInv
<1> QED  BY <1>1, LiveInvariant, PTL

(* However references are copied and rebound, also during the call, what   *)
(* runs is the callable the reference had been made of.                    *)
THEOREM CallsArriveRight ==
  ASSUME ConstCopies
  PROVE  Spec => []CallsReachTheirCallable
<1>1. MadeInv => CallsReachTheirCallable
  BY DEF MadeInv, CallsReachTheirCallable
<1> QED  BY <1>1, MadeInvariant, PTL

-----------------------------------------------------------------------------
(* Action properties. *)

(* Only check_failure(), and the end of the tunnel, forget what was thrown.*)
LEMMA ReportedStep ==
  ASSUME RefInv, [Next]_vars, NEW t \in alive' \cap Tunnels,
         unchecked[t] # {}, unchecked'[t] = {}
  PROVE  last' \in unchecked[t]
<1>1. /\ unchecked \in [Tunnels -> SUBSET Exceptions]
      /\ exception[t] \in unchecked[t] /\ t \in alive
  BY DEF RefInv, TypeOK, SoundTunnel
<1>2. exception[t] # None
  BY <1>1, KindsAssumption
<1>3. unchecked' # unchecked
  OBVIOUS
<1>4. ASSUME NEW u \in Tunnels, CheckFailure(u) PROVE last' \in unchecked[t]
  BY <1>1, <1>2, <1>4 DEF CheckFailure
<1>5. ASSUME NEW u \in Tunnels, NEW c \in Callables, MakeTunnel(u, c) PROVE FALSE
  BY <1>1, <1>5 DEF MakeTunnel
<1>6. ASSUME NEW o \in Objects, Destroy(o) PROVE FALSE
  BY <1>1, <1>6 DEF Destroy
<1>7. ASSUME NEW e \in Exceptions, Throw(e) PROVE FALSE
  <2>1. InCall
    BY <1>7 DEF Throw
  <2>2. Top.tunnel \in Tunnels \cup {None}
    BY <2>1, TopFrame DEF Frames
  <2> QED  BY <1>1, <1>7, <2>2 DEF Throw
<1>8. CASE Next
  BY <1>3, <1>4, <1>5, <1>6, <1>7, <1>8
  DEF Next, Program, Call, Forward, Return, CreateCallable, UseDirectly,
      DefaultConstruct, Bind, CopyConstruct, CopyAssign
<1>9. CASE UNCHANGED vars
  BY <1>3, <1>9 DEF vars
<1> QED  BY <1>8, <1>9

(* No failure of a callback goes unreported. *)
THEOREM FailuresAreReported == Spec => FailureReported
<1>1. RefInv /\ [Next]_vars =>
        [\A t \in alive' \cap Tunnels :
           unchecked[t] # {} /\ unchecked'[t] = {} => last' \in unchecked[t]]_vars
  BY ReportedStep
<1> QED  BY <1>1, RefInvariant, PTL DEF Spec, FailureReported

(* Only the end of a body that runs in the callable itself changes it. *)
LEMMA IsolatedStep ==
  ASSUME RefInv, MadeInv, [Next]_vars, NEW c \in Callables,
         state'[c] # state[c], Len(stack') < Len(stack)
  PROVE  Top.at = c /\ Top.want = c /\ c \notin Trivial
<1>1. state' # state /\ stack' # stack
  <2>1. Len(stack) \in Nat
    BY DEF RefInv, TypeOK
  <2> QED  BY <2>1
<1>2. CASE Return
  <2>1. /\ SoundFrame(Top) /\ state \in [Callables \cup Tunnels -> Values]
        /\ Len(stack) \in DOMAIN stack
    BY <1>2, TopFrame DEF Return, RefInv, TypeOK
  <2>2. Top.val = None /\ Top.running /\ \E v \in Values : state' = [state EXCEPT ![Top.at] = v]
    BY <1>1, <1>2 DEF Return
  <2>3. Top.at = c
    BY <2>1, <2>2
  <2>4. Top.want = c
    BY <2>1, <2>3 DEF MadeInv, Top
  <2> QED  BY <2>1, <2>2, <2>3, <2>4, KindsAssumption DEF SoundFrame
<1>3. CASE Next
  BY <1>1, <1>2, <1>3
  DEF Next, Program, Call, Forward, Throw, CreateCallable, UseDirectly, MakeTunnel,
      CheckFailure, DefaultConstruct, Bind, CopyConstruct, CopyAssign, Destroy
<1>4. CASE UNCHANGED vars
  BY <1>1, <1>4 DEF vars
<1> QED  BY <1>3, <1>4

(* Bodies that run in copies leave the originals alone. *)
THEOREM CopiesStayApart ==
  ASSUME ConstCopies
  PROVE  Spec => CopiesAreIsolated
<1>1. RefInv /\ MadeInv /\ [Next]_vars =>
        [\A c \in Callables : state'[c] # state[c] /\ Len(stack') < Len(stack)
           => Top.at = c /\ Top.want = c /\ c \notin Trivial]_vars
  BY IsolatedStep
<1> QED  BY <1>1, RefInvariant, MadeInvariant, PTL DEF Spec, CopiesAreIsolated
=============================================================================
