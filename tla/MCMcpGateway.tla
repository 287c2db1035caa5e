---------------------------- MODULE MCMcpGateway ----------------------------
(* McpGateway for TLC: one registered tool, for the customer agent and the  *)
(* role agent.invoke, and one that is not registered.                       *)
EXTENDS McpGateway

CONSTANTS customer, invoke, get_customer

MCAllowedAgents == [tool \in Registered |-> {customer}]
MCRequiredRoles == [tool \in Registered |-> {invoke}]
=============================================================================
