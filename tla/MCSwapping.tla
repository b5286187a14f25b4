------------------------------ MODULE MCSwapping ------------------------------
\* Swapping on a small memory; the constants are given by the .cfg files.
EXTENDS Swapping
=============================================================================
