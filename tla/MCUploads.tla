------------------------------ MODULE MCUploads ------------------------------
(* Values for model-checking Uploads.tla.                                    *)
EXTENDS Uploads, TLC

CONSTANTS u1, u2, c1, c2

\* Uploads are told apart by the request they finish only.
MCSymmetry == Permutations(Uploaders)

\* The first two connections are the first user's.
MCOwner == [c \in Conns |-> IF c \in {c1, c2} THEN u1 ELSE u2]
=============================================================================
