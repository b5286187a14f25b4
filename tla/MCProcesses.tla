------------------------------ MODULE MCProcesses ------------------------------
\* Processes on small tables; the constants are given by the .cfg files.
EXTENDS Processes
=============================================================================
