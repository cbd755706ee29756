----------------------------- MODULE MCGateways -----------------------------
EXTENDS Gateways

MCGatewayList == <<"g1", "g2">>
MCDbList == <<"d1", "d2">>
\* Nothing set but what old gateways know; encryption everywhere; certificates;
\* and what only new gateways know.
MCFlagSets ==
  {{"ssl", "cbsSsl", "xattrs", "redact"},
   {"x509", "views", "persistentOff", "ssl", "delta", "noConflicts", "hide"},
   {"skipVerify", "tlsOff", "adminOff", "revsLimit", "xattrs", "delta", "hide"}}
MCPushConfigs ==
  {[d \in {"d1"} |-> {"users", "oidc"}],
   [d \in {"d1", "d2"} |-> IF d = "d1" THEN {"users"} ELSE {"users", "roles", "oidc"}],
   [d \in {"d1", "d2"} |-> IF d = "d1" THEN {"users", "roles"} ELSE {}]}
=============================================================================
