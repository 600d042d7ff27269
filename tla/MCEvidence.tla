----------------------------- MODULE MCEvidence -----------------------------
(***************************************************************************)
(* Evidence for TLC.  Neither routes nor calls are told apart.             *)
(***************************************************************************)
EXTENDS Evidence, TLC

\* A confidential class, with its human and basis or without: only the first is accepted.
Attested ==
  {[classes |-> {"confidential"}, domain |-> FALSE, author |-> named, basis |-> named] :
     named \in BOOLEAN}

Symmetry == Permutations(Keys) \cup Permutations(Probers)
=============================================================================
