---------------------------- MODULE MCAndroidHost ----------------------------
(* Instances of AndroidHost for TLC.                                       *)
EXTENDS AndroidHost, TLC

\* Neither pointer identities nor metrics are compared but for equality.
HostSymmetry == Permutations(PointerIds) \cup Permutations(Metrics)
=============================================================================
