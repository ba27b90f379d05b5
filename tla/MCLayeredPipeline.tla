------------------------- MODULE MCLayeredPipeline -------------------------
(* Small instances of LayeredPipeline. *)
EXTENDS LayeredPipeline, MCProviders

CONSTANTS w1, w2, m1, m2

\* Two requests have the same content.
SharedContent == [m \in Messages |-> IF m = m2 THEN m1 ELSE m]

\* Of failed calls, overlaps and crashes no two come together, and nothing
\* overlaps while a request is served.
OneFailure == /\ Failures <= 1
              /\ overlaps = 1 => \A m \in Messages : ~InProgress(m)
=============================================================================
