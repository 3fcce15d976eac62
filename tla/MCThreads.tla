----------------------------- MODULE MCThreads -----------------------------
(* The application and two workers.  A worker does not Send to the application, *)
(* which would wait for it in Join.                                            *)
EXTENDS Threads

CONSTANTS main, w1, w2, h1

AllThreads == {main, w1, w2}
OnlyMain == {main}
ToWorkers == AllThreads \X (AllThreads \ OnlyMain)
=============================================================================
