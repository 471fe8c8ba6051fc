----------------------------- MODULE Functionoid -----------------------------
(***************************************************************************)
(* What callables promise their user, with no buffer, manager or heap: a   *)
(* callable has a target, a functor in some state, or none.  This is the   *)
(* contract of the special members as callable_base.hpp and functionoid.hpp*)
(* declare it: which call leaves which callable with which target, when it *)
(* returns, when it throws, and when it ends the program.                  *)
(***************************************************************************)
CONSTANTS
  Callables,  (* the callables of the program                              *)
  Targets,    (* the functors, each in one of its states: [type, val]      *)
  Values,     (* the states of a functor                                   *)
  IsNull(_),  (* whether a functor converts to false                       *)
  None,       (* the target of an empty callable                           *)
  Gone,       (* the target of a callable that does not exist              *)
  Forms,      (* how a functor is passed                                   *)
  StoringFails(_, _),       (* whether storing a functor so passed may fail,*)
  ConstructionThrows(_, _), (* whether its constructor may throw,          *)
  AssignedDirectly(_, _),   (* whether it replaces a target in place       *)
  CopyingFails(_),          (* whether copying a target may fail           *)
  MovingFails(_),           (* whether moving a target may fail            *)
  EmptyResult,              (* how the call of an empty callable ends,     *)
  Raised                    (* and that of a target that throws            *)

VARIABLES
  target,     (* the target of every callable                              *)
  last        (* the last call and how it ended                            *)

vars == <<target, last>>

Alive == {c \in Callables : target[c] # Gone}

(* How a call ends is the first conjunct of everything a call may do.      *)
Ends(op, result) == last' = [op |-> op, result |-> result]

(* An exception meets a noexcept specification: nothing is left to observe.*)
Terminates(op) == Ends(op, "terminated") /\ UNCHANGED target

Set(c, t) == target' = [target EXCEPT ![c] = t]

(* What a callable holds once a functor is put in it: a null functor       *)
(* stands for no target.                                                   *)
StoredTargets == {IF IsNull(x) THEN None ELSE x : x \in Targets}

Store(c) == Set(c, target'[c]) /\ target'[c] \in StoredTargets

DefaultConstruct(c) ==
  /\ Ends("construct", "ok")
  /\ c \notin Alive
  /\ Set(c, None)

(* Construction leaves the target, or, when it throws, no callable.  A     *)
(* failure passes where the functor's own constructor is not noexcept.     *)
ConstructFrom(c) ==
  \/ /\ Ends("construct_from", "ok")
     /\ c \notin Alive
     /\ Store(c)
  \/ /\ Ends("construct_from", "threw") /\ UNCHANGED target
     /\ c \notin Alive
     /\ \E x \in Targets, form \in Forms :
          ~IsNull(x) /\ ConstructionThrows(x, form) /\ StoringFails(x, form)
  \/ /\ Terminates("construct_from")
     /\ c \notin Alive
     /\ \E x \in Targets, form \in Forms :
          ~IsNull(x) /\ ~ConstructionThrows(x, form) /\ StoringFails(x, form)

CopyConstruct(c, s) ==
  \/ /\ Ends("copy_construct", "ok")
     /\ c \notin Alive /\ s \in Alive
     /\ Set(c, target[s])
  \/ /\ Ends("copy_construct", "threw") /\ UNCHANGED target
     /\ c \notin Alive /\ s \in Alive
     /\ CopyingFails(target[s])

(* A move leaves its source empty, or it ends the program. *)
MoveConstruct(c, s) ==
  \/ /\ Ends("move_construct", "ok")
     /\ c \notin Alive /\ s \in Alive
     /\ target' = [target EXCEPT ![c] = target[s], ![s] = None]
  \/ /\ Terminates("move_construct")
     /\ c \notin Alive /\ s \in Alive
     /\ MovingFails(target[s])

Destruct(c) ==
  /\ Ends("destruct", "ok")
  /\ c \in Alive
  /\ Set(c, Gone)

(* A functor that cannot be assigned in place is built elsewhere and       *)
(* swapped in: two more targets are moved, by code that is noexcept.       *)
SwappingInFails(c, x, form) ==
  ~AssignedDirectly(x, form) /\ (MovingFails(x) \/ MovingFails(target[c]))

(* The strong guarantee: assign() of a functor succeeds, changes nothing,  *)
(* or ends the program.                                                    *)
Assign(c) ==
  \/ /\ Ends("assign", "ok")
     /\ c \in Alive
     /\ Store(c)
  \/ /\ Ends("assign", "threw") /\ UNCHANGED target
     /\ c \in Alive
     /\ \E x \in Targets, form \in Forms :
          ~IsNull(x) /\ ~AssignedDirectly(x, form) /\ StoringFails(x, form)
  \/ /\ Terminates("assign")
     /\ c \in Alive
     /\ \E x \in Targets, form \in Forms :
          /\ ~IsNull(x)
          /\ \/ AssignedDirectly(x, form) /\ StoringFails(x, form)
             \/ SwappingInFails(c, x, form)

(* operator=( F && ) does not throw. *)
AssignOperator(c) ==
  \/ /\ Ends("operator=", "ok")
     /\ c \in Alive
     /\ Store(c)
  \/ /\ Terminates("operator=")
     /\ c \in Alive
     /\ \E x \in Targets, form \in Forms :
          /\ ~IsNull(x)
          /\ StoringFails(x, form) \/ SwappingInFails(c, x, form)

(* The basic guarantee: a copy assignment that throws empties its target.  *)
CopyAssign(c, s) ==
  \/ /\ Ends("copy_assign", "ok")
     /\ {c, s} \subseteq Alive
     /\ Set(c, target[s])
  \/ /\ Ends("copy_assign", "threw")
     /\ {c, s} \subseteq Alive
     /\ c # s /\ CopyingFails(target[s])
     /\ Set(c, None)

CopyAssignNonconst(c, s) ==
  \/ /\ Ends("copy_assign_nonconst", "ok")
     /\ {c, s} \subseteq Alive
     /\ Set(c, target[s])
  \/ /\ Terminates("copy_assign_nonconst")
     /\ {c, s} \subseteq Alive
     /\ c # s /\ CopyingFails(target[s])

(* A move assignment that throws leaves its source non-empty, in a state   *)
(* its functor's moving constructor chose.                                 *)
MoveAssign(c, s) ==
  \/ /\ Ends("move_assign", "ok")
     /\ {c, s} \subseteq Alive
     /\ IF c = s THEN UNCHANGED target
        ELSE target' = [target EXCEPT ![c] = target[s], ![s] = None]
  \/ /\ Ends("move_assign", "threw")
     /\ {c, s} \subseteq Alive
     /\ c # s /\ target[s] # None /\ MovingFails(target[s])
     /\ \E v \in Values :
          target' = [target EXCEPT ![c] = None, ![s].val = v]

Clear(c) ==
  /\ Ends("clear", "ok")
  /\ c \in Alive
  /\ Set(c, None)

Swap(a, b) ==
  \/ /\ Ends("swap", "ok")
     /\ {a, b} \subseteq Alive
     /\ target' = [target EXCEPT ![a] = target[b], ![b] = target[a]]
  \/ /\ Terminates("swap")
     /\ {a, b} \subseteq Alive
     /\ a # b /\ (MovingFails(target[a]) \/ MovingFails(target[b]))

(* A target may change its own state, and may throw; nothing else changes. *)
Invoke(c) ==
  /\ \E result \in {"ok", Raised, EmptyResult} : Ends("invoke", result)
  /\ c \in Alive
  /\ IF target[c] = None THEN Ends("invoke", EmptyResult) /\ UNCHANGED target
     ELSE /\ \E result \in {"ok", Raised} : Ends("invoke", result)
          /\ \E v \in Values : Set(c, [target[c] EXCEPT !.val = v])

Init ==
  /\ target = [c \in Callables |-> Gone]
  /\ last = [op |-> "start", result |-> "ok"]

Next ==
  \/ \E c \in Callables :
       \/ DefaultConstruct(c) \/ ConstructFrom(c) \/ Destruct(c) \/ Clear(c)
       \/ Assign(c) \/ AssignOperator(c) \/ Invoke(c)
  \/ \E c, s \in Callables :
       \/ CopyConstruct(c, s) \/ MoveConstruct(c, s) \/ Swap(c, s)
       \/ CopyAssign(c, s) \/ CopyAssignNonconst(c, s) \/ MoveAssign(c, s)

Spec == Init /\ [][Next]_vars
=============================================================================
