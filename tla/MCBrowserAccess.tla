--------------------------- MODULE MCBrowserAccess ---------------------------
EXTENDS BrowserAccess, TLC

\* Launches are interchangeable, and so are environments and signals.
Symmetric ==
  Permutations(Launches) \cup Permutations(Environments) \cup Permutations(Signals)
==============================================================================
