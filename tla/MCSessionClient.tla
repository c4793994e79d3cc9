---------------------------- MODULE MCSessionClient ----------------------------
(* Small instances of SessionClient for TLC, and what comments and messages  *)
(* of the client say where the code does otherwise.                          *)
EXTENDS SessionClient, TLC

\* addresses, and server threads, are interchangeable
PtrThreadSymmetry == Permutations(Ptr) \cup Permutations(Threads)

\* opof_run_tests.c:520 "Clean up any exisitng data in cache": when the clean-up
\* returns OK the table is empty, also after a connection that broke for a moment
\* and the retry that is there for it.
CleanupSurvivesRetry == [][CleanupReturnsOK => sessions' = <<>>]_allVars
=============================================================================
