----------------------------- MODULE FunctionRef -----------------------------
(***************************************************************************)
(* function_ref and exception_tunneling_callable: what a reference to a    *)
(* callable holds, where a call through it arrives, and which exceptions   *)
(* come back.                                                              *)
(*                                                                         *)
(* The program is one thread.  A call is a frame on its stack: first it is *)
(* forwarded from thunk to thunk, then the body of a callable runs.  A     *)
(* body may do all that the program may: create and destroy objects, bind  *)
(* references (also the one it was called through), make further calls.    *)
(***************************************************************************)
EXTENDS Naturals, FiniteSets, Sequences, SequencesExt

CONSTANTS
  Callables,   (* the callables of the program, each of a type of its own   *)
  Trivial,     (* those of a trivially copyable type no larger than a word  *)
  Throwing,    (* those whose operator() is not noexcept                    *)
  Refs,        (* the function_refs of the program                          *)
  Tunnels,     (* its exception_tunneling_callables                         *)
  Temporary,   (* an object that dies at the end of the expression it is in *)
  None,        (* no object                                                 *)
  Values,      (* the states of a callable                                  *)
  Exceptions,  (* what a callable may throw                                 *)
  ne,          (* the signature is noexcept                                 *)
  DebugBuild,  (* NDEBUG is not defined                                     *)
  Sources,     (* how references are copied: from "const" or "nonconst" ones*)
  Lifetimes,   (* which objects the program keeps alive, see MayDestroy     *)
  MaxDepth     (* bound: calls in progress at once                          *)

Objects == Callables \cup Refs \cup Tunnels

ASSUME KindsAssumption ==
  /\ Callables \cap (Refs \cup Tunnels) = {} /\ Refs \cap Tunnels = {}
  /\ {Temporary, None} \cap Objects = {} /\ Temporary # None
  /\ Trivial \subseteq Callables /\ Throwing \subseteq Callables
  /\ Values # {} /\ None \notin Values \cup Exceptions
  /\ Exceptions \cap {"ok", "threw", "terminated", "aborted", "undefined"} = {}
  /\ ne \in BOOLEAN /\ DebugBuild \in BOOLEAN
  /\ Sources \subseteq {"const", "nonconst"}
  /\ Lifetimes \in {"documented", "actual"}
  /\ MaxDepth \in Nat

(* The state every callable is constructed in, and its bytes are left in.  *)
Initial == CHOOSE v \in Values : TRUE

VARIABLES
  alive,     (* the objects that exist                                      *)
  state,     (* the state of every callable, and of every tunnel's target   *)
  ref,       (* function_ and data_ of every reference                      *)
  holds,     (* the callable whose type a tunnel's target has               *)
  exception, (* the member exception of every tunnel                        *)
  stack,     (* the calls in progress                                       *)
  last,      (* how the last operation ended, or what it threw              *)
  madeFrom,  (* history: the callable the program made a reference of       *)
  unchecked  (* history: what was thrown into a tunnel since its last check *)

vars == <<alive, state, ref, holds, exception, stack, last, madeFrom, unchecked>>

-----------------------------------------------------------------------------
(* The pair of a thunk and a data word.                                    *)

Null == [thunk |-> "null", data |-> None, val |-> None]
Embed(c, v) == [thunk |-> "embedded", data |-> c, val |-> v]
Borrow(o) == [thunk |-> "borrowed", data |-> o, val |-> None]

Thunks ==
  {Null} \cup {Embed(c, v) : c \in Trivial, v \in Values}
         \cup {Borrow(o) : o \in Objects \cup {Temporary}}

(* noexcept( callable( args... ) ) >= ne; tunnels are noexcept, references *)
(* as noexcept as their signature.  Mutant: without the constraint.        *)
mutant_Invocable(o) == TRUE
Invocable(o) == ne => o \notin Throwing

(* make_c_callback.  A callable that may throw is wrapped in a temporary,  *)
(* and the data word is the address of the temporary.  Mutants: whatever   *)
(* its size a callable is embedded; the callable is taken by value; the    *)
(* trivial ones are borrowed too.                                          *)
mutant_make_c_callback_embeds(o) == Embed(o, state[o])
mutant_make_c_callback_by_value(o) == Borrow(Temporary)
mutant_make_c_callback(o) == IF Invocable(o) THEN Borrow(o) ELSE Borrow(Temporary)
make_c_callback(o) ==
  IF ~Invocable(o) THEN Borrow(Temporary)
  ELSE IF o \in Trivial THEN Embed(o, state[o])
  ELSE Borrow(o)

-----------------------------------------------------------------------------
(* Calls in progress.  A frame is forwarding to an object or running it; a *)
(* running frame may own the copy it runs.  want is history: the callable  *)
(* the reference had been made of when the program called it.              *)

Frame(w, tunnel, want) ==
  [running |-> w.thunk = "embedded", at |-> w.data, val |-> w.val,
   tunnel |-> tunnel, want |-> want]

Frames ==
  [running: BOOLEAN, at: Objects \cup {Temporary}, val: Values \cup {None},
   tunnel: Tunnels \cup {None}, want: Callables \cup Tunnels \cup {None}]

Top == stack[Len(stack)]
InCall == stack # <<>>

(* The program or the body of a callable has control. *)
InControl == InCall => Top.running

(* The program has not ended, nor called what it may not call. *)
Live == last \notin {"terminated", "aborted", "undefined"}

(* BOOST_ASSERT_MSG( function_, ... ), and what follows without it. *)
NullCall == last' = IF DebugBuild THEN "aborted" ELSE "undefined"

(* operator() *)
Call(r) ==
  /\ r \in alive \cap Refs
  /\ Len(stack) < MaxDepth
  /\ \/ /\ ref[r] = Null
        /\ NullCall
        /\ UNCHANGED stack
     \/ /\ ref[r] # Null
        /\ stack' = Append(stack, Frame(ref[r], None, madeFrom[r]))
        /\ last' = "ok"
  /\ UNCHANGED <<alive, state, ref, holds, exception, madeFrom, unchecked>>

(* The thunk of the reference a call is at passes it on. Mutant: to itself.*)
mutant_Forwarded(frame) == frame
Forwarded(frame) == Frame(ref[frame.at], None, frame.want)

(* A thunk follows its data word: to a callable or a tunnel, whose body    *)
(* then runs, or to another reference.  What is behind the address of an   *)
(* object that died is not defined: there is no step.                      *)
Forward ==
  /\ InCall /\ ~Top.running /\ Top.at \in alive
  /\ \/ /\ Top.at \in Refs
        /\ ref[Top.at] # Null
        /\ stack' = Append(Front(stack), Forwarded(Top))
        /\ UNCHANGED last
     \/ /\ Top.at \in Refs
        /\ ref[Top.at] = Null
        /\ NullCall
        /\ UNCHANGED stack
     \/ /\ Top.at \notin Refs
        /\ stack' = Append(Front(stack),
             [Top EXCEPT !.running = TRUE,
                         !.tunnel  = IF Top.at \in Tunnels THEN Top.at ELSE None])
        /\ UNCHANGED last
  /\ UNCHANGED <<alive, state, ref, holds, exception, madeFrom, unchecked>>

(* The body returns, and leaves its object in some state.  An embedded     *)
(* callable was a copy in the arguments of the thunk, and is gone.         *)
Return ==
  /\ InCall /\ Top.running
  /\ stack' = Front(stack)
  /\ \/ /\ Top.val # None
        /\ UNCHANGED state
     \/ /\ Top.val = None
        /\ \E v \in Values : state' = [state EXCEPT ![Top.at] = v]
  /\ last' = "ok"
  /\ UNCHANGED <<alive, ref, holds, exception, madeFrom, unchecked>>

(* The type of the callable that runs. *)
Runs(frame) == IF frame.tunnel = None THEN frame.at ELSE holds[frame.tunnel]

(* Mutant: a tunnel that swallows what it catches. *)
mutant_Catch(t, e) == UNCHANGED exception
Catch(t, e) == exception' = [exception EXCEPT ![t] = e]

(* The body throws.  A tunnel catches and returns R{}; otherwise the       *)
(* exception goes to the caller, unless the thunk is noexcept.             *)
Throw(e) ==
  /\ InCall /\ Top.running
  /\ Runs(Top) \in Throwing
  /\ stack' = Front(stack)
  /\ \/ /\ Top.tunnel # None
        /\ Catch(Top.tunnel, e)
        /\ unchecked' = [unchecked EXCEPT ![Top.tunnel] = @ \cup {e}]
        /\ last' = "ok"
     \/ /\ Top.tunnel = None
        /\ last' = IF ne THEN "terminated" ELSE "threw"
        /\ UNCHANGED <<exception, unchecked>>
  /\ UNCHANGED <<alive, state, ref, holds, madeFrom>>

-----------------------------------------------------------------------------
(* What the program does between calls, and a body during one. *)

CreateCallable(c) ==
  /\ c \in Callables \ alive
  /\ alive' = alive \cup {c}
  /\ last' = "ok"
  /\ UNCHANGED <<state, ref, holds, exception, stack, madeFrom, unchecked>>

(* The program calls or changes a callable without a reference. *)
UseDirectly(c, v) ==
  /\ c \in alive \cap Callables
  /\ state' = [state EXCEPT ![c] = v]
  /\ last' = "ok"
  /\ UNCHANGED <<alive, ref, holds, exception, stack, madeFrom, unchecked>>

(* make_exception_tunneling_callable: a copy of a small lvalue, or the     *)
(* rvalue it is given; for other lvalues it does not compile.              *)
MakeTunnel(t, c) ==
  /\ t \in Tunnels \ alive
  /\ c \in alive \cap Callables
  /\ alive' = alive \cup {t}
  /\ holds' = [holds EXCEPT ![t] = c]
  /\ state' = [state EXCEPT ![t] = state[c]]
  /\ exception' = [exception EXCEPT ![t] = None]
  /\ unchecked' = [unchecked EXCEPT ![t] = {}]
  /\ last' = "ok"
  /\ UNCHANGED <<ref, stack, madeFrom>>

(* check_failure *)
CheckFailure(t) ==
  /\ t \in alive \cap Tunnels
  /\ last' = IF exception[t] = None THEN "ok" ELSE exception[t]
  /\ unchecked' = [unchecked EXCEPT ![t] = {}]
  /\ UNCHANGED <<alive, state, ref, holds, exception, stack, madeFrom>>

DefaultConstruct(r) ==
  /\ r \in Refs \ alive
  /\ alive' = alive \cup {r}
  /\ ref' = [ref EXCEPT ![r] = Null]
  /\ madeFrom' = [madeFrom EXCEPT ![r] = None]
  /\ last' = "ok"
  /\ UNCHANGED <<state, holds, exception, stack, unchecked>>

(* function_ref( F && ); assigning a callable constructs a temporary, and  *)
(* copies its words.                                                       *)
Bind(r, o) ==
  /\ r \in Refs
  /\ o \in alive \ Refs
  /\ Invocable(o)
  /\ alive' = alive \cup {r}
  /\ ref' = [ref EXCEPT ![r] = make_c_callback(o)]
  /\ madeFrom' = [madeFrom EXCEPT ![r] = o]
  /\ last' = "ok"
  /\ UNCHANGED <<state, holds, exception, stack, unchecked>>

(* Copying a const reference, or moving one, copies its words.  A          *)
(* reference that is not const is a callable like any other to the         *)
(* constructor template, the better match: it is borrowed.  Mutant: every  *)
(* reference is.                                                           *)
mutant_Copied(s, source) == Borrow(s)
Copied(s, source) == IF source = "const" THEN ref[s] ELSE make_c_callback(s)

CopyConstruct(r, s, source) ==
  /\ r \in Refs \ alive
  /\ s \in alive \cap Refs
  /\ alive' = alive \cup {r}
  /\ ref' = [ref EXCEPT ![r] = Copied(s, source)]
  /\ madeFrom' = [madeFrom EXCEPT ![r] = madeFrom[s]]
  /\ last' = "ok"
  /\ UNCHANGED <<state, holds, exception, stack, unchecked>>

(* The implicit operator=, whatever the source. *)
CopyAssign(r, s) ==
  /\ {r, s} \subseteq alive \cap Refs
  /\ ref' = [ref EXCEPT ![r] = ref[s]]
  /\ madeFrom' = [madeFrom EXCEPT ![r] = madeFrom[s]]
  /\ last' = "ok"
  /\ UNCHANGED <<alive, state, holds, exception, stack, unchecked>>

(* The program does not destroy what it is running.  "documented": a       *)
(* callable or a tunnel lives as long as the references made of it, unless *)
(* it is embedded; "actual": an object lives as long as any data word is   *)
(* its address.                                                            *)
MayDestroy(o) ==
  /\ \A i \in DOMAIN stack : stack[i].at = o => stack[i].val # None
  /\ \A r \in alive \cap Refs :
       IF Lifetimes = "documented" THEN madeFrom[r] = o => o \in Trivial
       ELSE ref[r].data = o => ref[r].thunk # "borrowed"

Destroy(o) ==
  /\ o \in alive
  /\ MayDestroy(o)
  /\ alive' = alive \ {o}
  /\ state' = [p \in DOMAIN state |-> IF p = o THEN Initial ELSE state[p]]
  /\ holds' = [t \in Tunnels |-> IF t = o THEN None ELSE holds[t]]
  /\ ref' = [r \in Refs |-> IF r = o THEN Null ELSE ref[r]]
  /\ madeFrom' = [r \in Refs |-> IF r = o THEN None ELSE madeFrom[r]]
  /\ exception' = [t \in Tunnels |-> IF t = o THEN None ELSE exception[t]]
  /\ unchecked' = [t \in Tunnels |-> IF t = o THEN {} ELSE unchecked[t]]
  /\ last' = "ok"
  /\ UNCHANGED stack

(* make_c_callback called by the program: the pair is kept, and called, as *)
(* a reference is.                                                         *)
Export(r, c) ==
  /\ r \in Refs \ alive
  /\ c \in alive \cap Callables
  /\ alive' = alive \cup {r}
  /\ ref' = [ref EXCEPT ![r] = make_c_callback(c)]
  /\ madeFrom' = [madeFrom EXCEPT ![r] = c]
  /\ last' = "ok"
  /\ UNCHANGED <<state, holds, exception, stack, unchecked>>

-----------------------------------------------------------------------------
Init ==
  /\ alive = {}
  /\ state = [o \in Callables \cup Tunnels |-> Initial]
  /\ ref = [r \in Refs |-> Null]
  /\ holds = [t \in Tunnels |-> None]
  /\ exception = [t \in Tunnels |-> None]
  /\ stack = <<>>
  /\ last = "ok"
  /\ madeFrom = [r \in Refs |-> None]
  /\ unchecked = [t \in Tunnels |-> {}]

Program ==
  \/ \E c \in Callables : CreateCallable(c)
  \/ \E c \in Callables, v \in Values : UseDirectly(c, v)
  \/ \E t \in Tunnels, c \in Callables : MakeTunnel(t, c)
  \/ \E t \in Tunnels : CheckFailure(t)
  \/ \E r \in Refs : DefaultConstruct(r)
  \/ \E r \in Refs, o \in Objects : Bind(r, o)
  \/ \E r, s \in Refs, source \in Sources : CopyConstruct(r, s, source)
  \/ \E r, s \in Refs : CopyAssign(r, s)
  \/ \E o \in Objects : Destroy(o)
  \/ \E r \in Refs : Call(r)

Next ==
  /\ Live
  /\ \/ InControl /\ Program
     \/ Forward
     \/ Return
     \/ \E e \in Exceptions : Throw(e)

Spec == Init /\ [][Next]_vars

(* The thread is not suspended for ever in the middle of a call. *)
FairSpec == Spec /\ WF_vars(Live /\ Forward)

(* A program that also calls make_c_callback. *)
ExportNext ==
  \/ Next
  \/ Live /\ InControl /\ \E r \in Refs, c \in Callables : Export(r, c)

ExportSpec == Init /\ [][ExportNext]_vars

-----------------------------------------------------------------------------
(* Properties. *)

(* Every variable has its type; references are words a thunk can follow.   *)
TypeOK ==
  /\ alive \subseteq Objects
  /\ state \in [Callables \cup Tunnels -> Values]
  /\ ref \in [Refs -> Thunks]
  /\ holds \in [Tunnels -> Callables \cup {None}]
  /\ exception \in [Tunnels -> Exceptions \cup {None}]
  /\ stack \in Seq(Frames) /\ Len(stack) <= MaxDepth
  /\ madeFrom \in [Refs -> Callables \cup Tunnels \cup {None}]
  /\ unchecked \in [Tunnels -> SUBSET Exceptions]

(* No thunk follows the address of an object that died, and no object dies *)
(* while it runs, for programs that keep the lifetimes of MayDestroy: the  *)
(* callables that are embedded, and the references calls were made through,*)
(* may die before the call, or during it.                                  *)
CallsReachLiveObjects ==
  \A i \in DOMAIN stack : stack[i].val = None => stack[i].at \in alive

(* A call runs the callable the reference had been made of, directly or    *)
(* from another reference, when the call was made: copies refer to what    *)
(* their source referred to, and what is rebound during a call does not    *)
(* redirect it.                                                            *)
CallsReachTheirCallable ==
  \A i \in DOMAIN stack : stack[i].running => stack[i].at = stack[i].want

(* Through a noexcept signature no exception reaches the foreign caller:   *)
(* what may throw is rejected, or tunneled.                                *)
NoExceptionEscapes == last # "terminated"

(* If callbacks threw into a tunnel since it was last checked, the next    *)
(* check_failure() throws one of their exceptions, however many calls      *)
(* succeeded since: no failure goes unreported.                            *)
FailureReported ==
  [][\A t \in alive' \cap Tunnels :
       unchecked[t] # {} /\ unchecked'[t] = {} => last' \in unchecked[t]]_vars

(* A body that runs in a copy (an embedded callable, the target of a       *)
(* tunnel) does not touch the callable the program made the reference of,  *)
(* whatever is nested in it: only running or using the object changes it.  *)
CopiesAreIsolated ==
  [][\A c \in Callables : state'[c] # state[c] /\ Len(stack') < Len(stack)
       => Top.at = c /\ Top.want = c /\ c \notin Trivial]_vars

(* Where the words of the references lead, after at most as many thunks as *)
(* there are references: to an object with a body, or to an embedded one.  *)
Grounded(o) ==
  LET within[n \in 0..Cardinality(Refs)] ==
        IF n = 0 THEN alive \ Refs
        ELSE within[n - 1] \cup
               {r \in alive \cap Refs :
                  \/ ref[r].thunk = "embedded"
                  \/ ref[r].thunk = "borrowed" /\ ref[r].data \in within[n - 1]}
  IN  o \in within[Cardinality(Refs)]

(* A call that enters a chain of references to references arrives at the   *)
(* body of a callable, however the chain came about, unless it is broken   *)
(* or closed to a circle when the call is made.                            *)
CallsArrive ==
  InCall /\ ~Top.running /\ Grounded(Top.at) ~> InCall /\ Top.running

-----------------------------------------------------------------------------
(* What the documentation says, and the code does not keep.                *)

(* "Targets are invoked through a pointer to the caller's object; lifetime *)
(* stays external", the lifetime of that object: while the callable a call *)
(* was made for lives, the call follows no address of an object that died. *)
CallableAliveSuffices ==
  \A i \in DOMAIN stack :
    stack[i].val = None /\ stack[i].want \in alive => stack[i].at \in alive

(* "Non-owning type-erased reference to a callable": no sequence of copies *)
(* and assignments makes a reference that leads to itself; every call that *)
(* passes a reference arrives.                                             *)
EveryCallArrives == InCall /\ ~Top.running ~> InCall /\ Top.running

(* "Non-owning view": a call through a reference starts from the state its *)
(* callable is in.                                                         *)
CallsSeeTheCallable ==
  [][\A c \in alive \cap Callables :
       Len(stack') > Len(stack) /\ stack'[Len(stack')].at = c
         => stack'[Len(stack')].val \in {None, state[c]}]_vars

(* "the caller rethrows via check_failure() after the foreign call": what  *)
(* it throws was thrown by a callback since the last check.                *)
FailureIsFresh ==
  [][last' \in Exceptions => \E t \in Tunnels : last' \in unchecked[t]]_vars

=============================================================================
