------------------------- MODULE MCFigshareRemote -------------------------
EXTENDS FigshareRemote, TLC

\* Workers are interchangeable.
Symmetry == Permutations(Workers)
=============================================================================
