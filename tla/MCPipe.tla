-------------------------------- MODULE MCPipe --------------------------------
\* Pipe with few bytes and blocks; the constants are given by the .cfg files.
EXTENDS Pipe
=============================================================================
