---------------------------- MODULE MCCloudCommands ----------------------------
EXTENDS CloudCommands, TLC

\* Keys and payloads are only compared.
Symmetry == Permutations(Keys) \cup Permutations(Payloads)
===============================================================================
