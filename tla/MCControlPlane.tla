--------------------------- MODULE MCControlPlane ---------------------------
(* Small instances of ControlPlane for TLC. *)
EXTENDS ControlPlane

Declared == {"block_before_tool", "human_approval"}
\* RequiredCapabilities() as it is by default.
Default == {"block_before_tool"}
\* LANGGRAPH_CAPABILITIES.
LangGraph == {"block_before_tool", "human_approval", "modify_tool_arguments"}
=============================================================================
