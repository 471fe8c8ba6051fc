---------------------------- MODULE SupportLevels ----------------------------
(***************************************************************************)
(* The support levels a traits class gives to the three special            *)
(* operations of a callable: copying, moving and destroying its target.    *)
(***************************************************************************)

(* enum struct support_level, in the order of its enumerators. *)
support_level == {"na", "supported", "nofail", "trivial"}

(* The levels that satisfy Traits::... >= support_level::nofail. *)
AtLeastNofail == {"nofail", "trivial"}

=============================================================================
