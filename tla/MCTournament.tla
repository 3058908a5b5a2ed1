----------------------------- MODULE MCTournament -----------------------------
(* Model checking of Tournament and of its refinement of Knockout.  No        *)
(* symmetry: one of the properties is a liveness property.                    *)
EXTENDS Tournament

=============================================================================
