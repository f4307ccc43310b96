---- MODULE MCAgentRuntime ----
EXTENDS AgentRuntime
====
