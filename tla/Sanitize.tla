------------------------------- MODULE Sanitize -------------------------------
(***************************************************************************)
(* packages/limitabl-core/src/sanitize.ts: what every reported or          *)
(* estimated cost goes through before it is added to a total.              *)
(***************************************************************************)
EXTENDS Integers

CONSTANTS
  Undefined,    \* JavaScript's undefined: no cost given
  NaN,          \* what arithmetic on a missing field yields
  Infinity      \* an infinite cost

NonNumbers == {Undefined, NaN, Infinity}

ASSUME NonNumbersAssumption == NonNumbers \cap Int = {}

(* Slips: no lower clamp; no test for finiteness.                          *)
SanitizeFiniteOnly(v) == IF v \in NonNumbers THEN 0 ELSE v

SanitizeNegativeOnly(v) ==
  IF v = Undefined \/ (v \notin NonNumbers /\ v < 0) THEN 0 ELSE v

SanitizeCost(v) == IF v \in NonNumbers \/ v < 0 THEN 0 ELSE v
==============================================================================
