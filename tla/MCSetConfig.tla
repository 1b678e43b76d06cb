----------------------------- MODULE MCSetConfig -----------------------------
(***************************************************************************)
(* SetConfig on a small instance: two keys, and one certificate for each.  *)
(***************************************************************************)
EXTENDS SetConfig, TLC

CONSTANTS oldKey, newKey, oldCert, newCert

MCKeys  == {oldKey, newKey}
MCCerts == {oldCert, newCert}
MCKeyOf == (oldCert :> oldKey) @@ (newCert :> newKey)

\* The requests are interchangeable.
RequestSymmetry == Permutations(Requests)

=============================================================================
