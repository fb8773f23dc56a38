----------------------------- MODULE MCSdlMutex -----------------------------
EXTENDS SdlMutex, TLC

Symmetry == Permutations(Threads)

\* The mutex starts in a block whose garbage happens to name no thread in owner, so that a
\* thread finds its own name there only after it has held the mutex.
CleanSpec == Init /\ owner = NoThread /\ [][Next]_vars
=============================================================================
