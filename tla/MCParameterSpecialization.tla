---------------------- MODULE MCParameterSpecialization ----------------------
(***************************************************************************)
(* Instances of ParameterSpecialization for TLC.  The defined values are   *)
(* interchangeable: the specification only tests them for equality.        *)
(***************************************************************************)
EXTENDS ParameterSpecialization, TLC

CONSTANTS argA, argB

Symmetry == Permutations({argA, argB})
=============================================================================
