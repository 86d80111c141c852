---------------------------- MODULE MCThreatMemory ----------------------------
\* The small instance of ThreatMemory: a chain that two addresses report to,
\* and one that the server names.
EXTENDS ThreatMemory

MCBodies ==
  {[chain |-> "c1", ip |-> "a1", attack |-> "PortScan", stage |-> ""],
   [chain |-> "c1", ip |-> "a2", attack |-> "Backdoor", stage |-> ""],
   [chain |-> NoChain, ip |-> "a1", attack |-> "Unheard", stage |-> "Impact"]}
MCAutoChains == [ip \in {"a1", "a2"} |-> IF ip = "a1" THEN {"c2"} ELSE {"c1"}]
\* The requests are the same before they arrive.
Identical == Permutations(Requests)
=============================================================================
