-------------------------- MODULE MCAgentWorkflow --------------------------
EXTENDS AgentWorkflow
=============================================================================
