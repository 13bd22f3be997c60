------------------------ MODULE MCSessionDirectory ------------------------
\* SessionDirectory with fewer slots than sessions, so that the table fills.
\* Sessions are interchangeable.
EXTENDS SessionDirectory, TLC

Alike == Permutations(Keys)
=============================================================================
