---------------------------- MODULE MCNamespace ----------------------------
(***************************************************************************)
(* Small instances of Namespace for TLC: two names, each used repeatedly.  *)
(***************************************************************************)
EXTENDS NamespaceProperties, TLC

\* The names are interchangeable.
Symmetry == Permutations(Networks)
=============================================================================
