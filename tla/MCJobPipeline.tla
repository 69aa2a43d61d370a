--------------------------- MODULE MCJobPipeline ---------------------------
(***************************************************************************)
(* Small instances of JobPipeline for TLC.  The cfg files choose Env, the  *)
(* number of jobs and the number of message identities.                    *)
(***************************************************************************)
EXTENDS JobPipeline, TLC

\* Message and worker identities are interchangeable, and so are job ids:
\* no cfg that uses the symmetry seeds jobs or checks liveness.
Symmetry == Permutations(Msgs) \cup Permutations(Workers)
            \cup Permutations(Jobs)

=============================================================================
