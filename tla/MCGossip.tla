------------------------------ MODULE MCGossip ------------------------------
(* The network of the instance, a line, and what its hosts propose.        *)
EXTENDS Gossip

CONSTANTS h1, h2, h3

MCPeers == [h \in Host |-> IF h = h2 THEN {h1, h3} ELSE {h2}]

\* Host h3 proposes nothing: it carries what the admins may forget.
MCProposals ==
    {[id |-> 1, by |-> h1, kind |-> "note", subject |-> h1],
     [id |-> 2, by |-> h2, kind |-> "revoke", subject |-> h3]}
=============================================================================
