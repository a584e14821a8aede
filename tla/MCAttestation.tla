----------------------------- MODULE MCAttestation -----------------------------
(* Instances of Attestation for the model checker.                           *)
EXTENDS Attestation

(* The wall clock is set forward or back.                                    *)
ForthOrBack == {3, -1}
=============================================================================
