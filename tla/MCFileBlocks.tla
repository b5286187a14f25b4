------------------------------ MODULE MCFileBlocks ------------------------------
\* FileBlocks with small tables; the constants are given by the .cfg files.
EXTENDS FileBlocks
=============================================================================
