----------------------------- MODULE MCAutomation -----------------------------
(* Definitions for the run of Automation: what providers may observe of *)
(* the references for a bootstrap envelope, and recipes with limits that   *)
(* so few references exceed.                                               *)
EXTENDS Automation

MCCandidate(category, reference, key, standing, sequence, preview) ==
    [category |-> category, reference |-> reference, key |-> key, standing |-> standing,
     sequence |-> sequence, preview |-> preview]

\* Two names for one content, one name twice, one that is forbidden, and what a
\* predecessor left: two checkpoints and a piece of evidence.
MCCandidates ==
    {MCCandidate("DOCUMENT", "d1", "k1", "AUTHORIZED", 0, 2),
     MCCandidate("DOCUMENT", "d1", "k2", "AUTHORIZED", 0, 1),
     MCCandidate("DOCUMENT", "d2", "k1", "AUTHORIZED", 0, 1),
     MCCandidate("DOCUMENT", "d3", "k3", "AUTHORIZED", 0, 0),
     MCCandidate("DOCUMENT", "d4", "k4", "FORBIDDEN", 0, 1),
     MCCandidate("CHECKPOINT", "c1", "k5", "AUTHORIZED", 1, 1),
     MCCandidate("CHECKPOINT", "c2", "k6", "AUTHORIZED", 2, 1),
     MCCandidate("EVIDENCE", "e1", "k7", "AUTHORIZED", 0, 1)}

MCContext(documents, total, policy) ==
    [limit |-> [DOCUMENT |-> documents, CHECKPOINT |-> 1, EVIDENCE |-> 1],
     total |-> total, bytes |-> 2, policy |-> policy]
MCContexts ==
    {MCContext(documents, total, policy) :
        documents \in 0 .. 1, total \in 1 .. 2,
        policy \in {"NONE", "LATEST_CHECKPOINT", "VERIFIED_EVIDENCE"}}

\* All of the sources twice in a row, or not any of them.
MCPolicies ==
    {[count |-> 2, join |-> "ALL", negated |-> FALSE], [count |-> 1, join |-> "ANY", negated |-> TRUE]}

================================================================================
