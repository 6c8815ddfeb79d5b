----------------------------- MODULE JavaValues -----------------------------
(***************************************************************************)
(* What a java.util.Map of expressions answers besides an expression: the  *)
(* null reference, and the absence of the key, which get(key) reports as   *)
(* null too.                                                               *)
(***************************************************************************)
CONSTANTS
    Null,       \* a null Expression
    Absent      \* the key is not in the map

ASSUME NullAssumption == Null # Absent

(* map.get(key) where v is the entry.                                      *)
Got(v) == IF v = Absent THEN Null ELSE v
=============================================================================
