------------------------- MODULE MCIonScriptLifetime -------------------------
(* Three scripts, two of them in the same compartment. *)
EXTENDS IonScriptLifetime, TLC

CONSTANTS s1, s2, s3, i1, i2, i3, c1, c2

MCScript == {s1, s2, s3}
MCIonScript == {i1, i2, i3}
MCCompartmentOf == (s1 :> c1) @@ (s2 :> c1) @@ (s3 :> c2)

Interchangeable == Permutations(MCIonScript)
==============================================================================
