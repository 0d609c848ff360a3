----------------------------- MODULE ToolAccess -----------------------------
(***************************************************************************)
(* How an agent's Claude tools become its Copilot tools or its OpenCode    *)
(* permissions.  Several Claude tools share one target (Write and Edit are *)
(* both editFiles), so neither an allowlist nor a denial carries over one  *)
(* to one; what must not happen is that a translation grants an access the *)
(* agent did not have.                                                     *)
(***************************************************************************)
CONSTANTS
  ClaudeTool,    \* tools by their names, known to the adapter or not
  Tool2Copilot,  \* the Copilot tools of each Claude tool, {} if unknown
  AllCopilot,    \* the full agentic set
  Known,         \* the Claude tools with an OpenCode permission
  Tool2Perm,     \* the key of each known tool
  AllAllow       \* the keys an agent without a list is allowed

(* No tools list, and an empty one: everything. *)
Available(tools, known) == IF tools = {} THEN known ELSE tools

CopilotOf(tools) == UNION {Tool2Copilot[t] : t \in tools}
Mapped == {t \in ClaudeTool : Tool2Copilot[t] # {}}
Needs(tools, denied, g) ==
  \E a \in Available(tools, Mapped) \ denied : g \in Tool2Copilot[a]

ToolsFor(tools, denied) ==
  {g \in IF tools = {} THEN AllCopilot ELSE CopilotOf(tools) :
     (\E t \in denied : g \in Tool2Copilot[t]) => Needs(tools, denied, g)}

Keys(tools) == {Tool2Perm[t] : t \in tools \cap Known}
NeedsKey(tools, denied, k) ==
  \E a \in (Available(tools, Known) \cap Known) \ denied : Tool2Perm[a] = k

PermsFor(tools, denied) ==
  {k \in IF tools = {} THEN AllAllow
         ELSE Keys(tools) \cup (IF "glob" \in Keys(tools) THEN {"list"} ELSE {}) :
     k \in Keys(denied) => NeedsKey(tools, denied, k)}
=============================================================================
