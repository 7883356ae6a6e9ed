----------------------------- MODULE ReidRequest -----------------------------
(* What an appearance request is to the ledger that sends it and to the     *)
(* executor that runs it (AppearanceEmbeddingRequest).                      *)
EXTENDS Integers

\* track_key
Key(r) == <<r.frameGen, r.track, r.trackGen>>

\* source_order: first the image, named by its time of submission.
Newer(r, q) == r.submitted > q.submitted \/ (r.submitted = q.submitted /\ r.id > q.id)
=============================================================================
