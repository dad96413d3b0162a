--------------------------- MODULE MCSourceIntent ---------------------------
EXTENDS SourceIntent, TLC

\* Saves, kinds and importers are interchangeable in the safety run.
Symmetry == Permutations(Saves) \cup Permutations(Kinds)
              \cup Permutations(Importers)
=============================================================================
