------------------------ MODULE MCFeedbackPipeline --------------------------
(* Values for the constants of FeedbackPipeline.                           *)
EXTENDS FeedbackPipeline, TLC

CONSTANTS w1, w2, w3, m1, m2

TwoMeetings == (w1 :> m1) @@ (w2 :> m1) @@ (w3 :> m2)

Symmetric == Permutations(Calls) \cup Permutations(Joins)
=============================================================================
