---------------------------- MODULE MCFileOffset ---------------------------
\* A small instance of FileOffset for TLC.
EXTENDS FileOffset, TLC

Symmetry == Permutations(Proc)
=============================================================================
