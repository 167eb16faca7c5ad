----------------------------- MODULE MCPlayground -----------------------------
(***************************************************************************)
(* The instance of Playground for TLC.                                     *)
(***************************************************************************)
EXTENDS Playground

\* Bound: behaviours are followed past a crossing only while nothing has
\* failed.  crossed never becomes false again, so what is cut off could only
\* break the part of AnswersSettle about isGenerating.
CrossingWithoutFaults == crossed => faults = 0

=============================================================================
