---------------------------- MODULE MCFlashFiles ----------------------------
(***************************************************************************)
(* Names and their symmetry for the model-checking runs.                       *)
(***************************************************************************)
EXTENDS FlashFiles

CONSTANTS dat, bin

FileNames == {dat, bin}

\* The names of files are only compared.
NameSymmetry == Permutations(FileNames)
=============================================================================
