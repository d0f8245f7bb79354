--------------------------- MODULE MCInterception ---------------------------
(* Small instances of Interception for TLC. *)
EXTENDS Interception

Shapes(decisions) ==
  [transport : {"answered", "timeout", "error"}, success : BOOLEAN,
   body : {"not_json", "not_object", "object"}, result : {"missing", "object"},
   decision : decisions, window : {1, None}]

\* Decisions of any JSON type.
AnyDecision == Shapes(Enforceable \cup {"unknown", "unhashable"})

\* LangGraph's manifest, one without approvals, and no adapter.
AnyManifest == {{"block_before_tool", "human_approval"}, {"block_before_tool"}, None}
=============================================================================
