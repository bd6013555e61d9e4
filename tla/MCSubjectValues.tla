--------------------------- MODULE MCSubjectValues ---------------------------
(* Nothing tells citizens, consents or sources apart.                        *)
EXTENDS SubjectValues, TLC
MCSymmetry == Permutations(Citizen) \cup Permutations(Grant) \cup Permutations(Source)
==============================================================================
