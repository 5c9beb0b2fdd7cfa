----------------------------- MODULE MCPlanApply -----------------------------
EXTENDS PlanApply
==============================================================================
