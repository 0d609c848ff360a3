-------------------------- MODULE Adapters_proofs --------------------------
(***************************************************************************)
(* What holds of the generators for every plugin, any number of releases,  *)
(* interruptions and edits of the user.                                    *)
(***************************************************************************)
EXTENDS Adapters, ToolAccess, TLAPS

----------------------------------------------------------------------------
(* What the proofs need of the types.                                      *)

\* A release is coherent, a generation is at one of its steps, and it is the
\* generation of one of the two adapters.
BaseInv ==
  /\ tool \in {"copilot", "opencode"}
  /\ plugin \in Plugin /\ Coherent(plugin)
  /\ DOMAIN tree = Files
  /\ pc \in 1..8
  /\ status \in {"due", "running", "done", "failed", "interrupted"}

\* The steps of the two generators, one by one.
LEMMA StepsAre ==
  /\ Steps["copilot"][1] = "prompts" /\ Steps["opencode"][1] = "rubric"
  /\ Steps["copilot"][2] = "chatmodes" /\ Steps["opencode"][2] = "deterministic"
  /\ Steps["copilot"][3] = "instructions" /\ Steps["opencode"][3] = "agents"
  /\ Steps["copilot"][4] = "rubric" /\ Steps["opencode"][4] = "commands"
  /\ Steps["copilot"][5] = "deterministic" /\ Steps["opencode"][5] = "skills"
  /\ Steps["copilot"][6] = "mcp" /\ Steps["opencode"][6] = "mcp"
  /\ Steps["copilot"][7] = "githooks" /\ Steps["opencode"][7] = "plugin"
  /\ Steps["copilot"][8] = "assert_nonempty" /\ Steps["opencode"][8] = "assert_nonempty"
BY DEF Steps, CopilotSteps, OpencodeSteps

\* A release is a release of the same kind as the one before.
LEMMA VariantsType ==
  ASSUME NEW p \in Plugin, p.rev < MaxRev, NEW q \in Variants(p)
  PROVE  q \in Plugin /\ [q EXCEPT !.rev = @ + 1] \in Plugin
<1>1. MaxRev \in Nat /\ "mid" \in Tier
  BY AdaptersAssumption
<1> DEFINE Good(r) == r \in Plugin /\ r.rev = p.rev
<1>2. Good(q)
  <2>1. \A c \in Command : Good([p EXCEPT !.commands = Toggle(p.commands, c)])
    BY DEF Plugin, Toggle
  <2>2. \A c \in p.commands : Good([p EXCEPT !.commands = p.commands \ {c},
                                          !.scripts = p.scripts \ Calls[c]])
    BY DEF Plugin
  <2>3. \A a \in Agent : Good([p EXCEPT !.agents = Toggle(p.agents, a)])
    BY DEF Plugin, Toggle
  <2>4. \A s \in Skill : Good([p EXCEPT !.skills = Toggle(p.skills, s)])
    BY DEF Plugin, Toggle
  <2>5. \A tier \in [Agent -> Routed] : Good([p EXCEPT !.tier = tier])
    BY DEF Plugin
  <2>6. \A c \in p.commands : Good([p EXCEPT !.garbled = Toggle(p.garbled, c)])
    BY DEF Plugin, Toggle
  <2>7. \A s \in Server : Good([p EXCEPT !.servers = Toggle(p.servers, s)])
    BY DEF Plugin, Toggle
  <2>8. Good(p)
    OBVIOUS
  <2> HIDE DEF Good
  <2>9. CASE q \in {[p EXCEPT !.commands = Toggle(p.commands, c)] : c \in Command}
    BY <2>1, <2>9, Zenon
  <2>10. CASE q \in {[p EXCEPT !.commands = p.commands \ {c},
                               !.scripts = p.scripts \ Calls[c]] : c \in p.commands}
    BY <2>2, <2>10, Zenon
  <2>11. CASE q \in {[p EXCEPT !.agents = Toggle(p.agents, a)] : a \in Agent}
    BY <2>3, <2>11, Zenon
  <2>12. CASE q \in {[p EXCEPT !.skills = Toggle(p.skills, s)] : s \in Skill}
    BY <2>4, <2>12, Zenon
  <2>13. CASE q \in {[p EXCEPT !.tier = tier] : tier \in [Agent -> Routed]}
    BY <2>5, <2>13, Zenon
  <2>14. CASE q \in {[p EXCEPT !.garbled = Toggle(p.garbled, c)] : c \in p.commands}
    BY <2>6, <2>14, Zenon
  <2>15. CASE q \in {[p EXCEPT !.servers = Toggle(p.servers, s)] : s \in Server}
    BY <2>7, <2>15, Zenon
  <2> QED
    BY <2>8, <2>9, <2>10, <2>11, <2>12, <2>13, <2>14, <2>15, Zenon DEF Variants
<1> QED BY <1>1, <1>2 DEF Plugin

\* Every step keeps that.
LEMMA BaseStep == BaseInv /\ [Next]_vars => BaseInv'
<1> SUFFICES ASSUME BaseInv, [Next]_vars PROVE BaseInv'
  OBVIOUS
<1> USE DEF BaseInv
<1>s. Running /\ Steps[tool][pc] # "assert_nonempty" => pc + 1 \in 1..8
  BY StepsAre
<1>1. CASE Generate
  BY <1>1 DEF Generate, Coherent
<1>2. CASE WriteFiles
  <2>1. /\ UNCHANGED <<tool, plugin>> /\ DOMAIN tree' = Files
        /\ Stop("failed") \/ Proceed
    BY <1>2 DEF WriteFiles, After
  <2>2. pc' \in 1..8 /\ status' \in {"running", "failed"}
    BY <1>2, <1>s, <2>1 DEF WriteFiles, Stop, Proceed, Running
  <2> QED BY <2>1, <2>2 DEF Coherent
<1>3. CASE GenMcp
  <2>1. pc' \in 1..8 /\ status' \in {"running", "failed"}
    BY <1>3, <1>s DEF GenMcp, At, Stop, Proceed, Running
  <2> QED BY <1>3, <2>1 DEF GenMcp, Coherent
<1>4. CASE GenGithooks
  <2>1. pc' \in 1..8 /\ status' = status
    BY <1>4, <1>s DEF GenGithooks, At, Proceed
  <2> QED BY <1>4, <2>1 DEF GenGithooks, Coherent
<1>5. CASE AssertNonempty
  BY <1>5 DEF AssertNonempty, Stop, Coherent
<1>6. CASE Interrupt
  BY <1>6 DEF Interrupt, Stop, Coherent
<1>7. CASE Release
  <2>1. PICK p \in Variants(plugin) : Coherent(p) /\ plugin' = [p EXCEPT !.rev = @ + 1]
    BY <1>7 DEF Release
  <2>2. plugin' \in Plugin
    BY <1>7, <2>1, VariantsType DEF Release
  <2>3. /\ plugin'.commands = p.commands /\ plugin'.scripts = p.scripts
        /\ plugin'.garbled = p.garbled
    <3>1. p \in Plugin
      BY <1>7, <2>1, VariantsType DEF Release, Plugin
    <3> QED BY <2>1, <3>1 DEF Plugin
  <2> QED BY <1>7, <2>1, <2>2, <2>3 DEF Release, Coherent
<1>8. CASE UserEdit \/ UNCHANGED vars
  BY <1>8 DEF UserEdit, vars, Coherent
<1> QED BY <1>1, <1>2, <1>3, <1>4, <1>5, <1>6, <1>7, <1>8 DEF Next, Step

\* At the start the plugin is whole and nothing is generated.
LEMMA BaseInit == Init => BaseInv
<1> SUFFICES ASSUME Init PROVE BaseInv
  OBVIOUS
<1>1. plugin \in Plugin /\ Coherent(plugin)
  <2>1. 1 \in 1..MaxRev
    BY AdaptersAssumption
  <2>2. [a \in Agent |-> "mid"] \in [Agent -> Routed]
    BY AdaptersAssumption DEF Routed
  <2> QED BY <2>1, <2>2, AdaptersAssumption DEF Init, Plugin, Coherent
<1> QED BY <1>1, AdaptersAssumption DEF Init, BaseInv

\* It holds in every behaviour.
LEMMA BaseInvariant == Spec => []BaseInv
BY BaseInit, BaseStep, PTL DEF Spec

----------------------------------------------------------------------------
(* What a step does to a file.                                             *)

\* A file that is written is there, whole or torn.
LEMMA WrittenIsThere ==
  /\ \A f : Rendered(f).is = "made" /\ Rendered(f) # None
  /\ \A scrap \in Torn : scrap.is \in {"empty", "partial"} /\ scrap # None
BY DEF Rendered, Made, None, Torn

\* What OpenCode's generator writes and wipes: scripts are shipped in its second
\* step and never wiped.
LEMMA OpencodeWritesScript ==
  ASSUME BaseInv, tool = "opencode", NEW s \in Script
  PROVE  /\ <<"script", s>> \in Files
         /\ <<"script", s>> \notin Wiped(Steps[tool][pc])
         /\ pc = 2 /\ s \in plugin.scripts => <<"script", s>> \in Written(Steps[tool][pc])
<1>1. <<"script", s>> \in Files
  BY DEF Files
<1>2. \A step : step # "instructions" => <<"script", s>> \notin Wiped(step)
  BY DEF Wiped, OpencodeSkills
<1>3. s \in plugin.scripts => <<"script", s>> \in Written("deterministic")
  BY DEF Written, Ship
<1>4. Steps[tool][pc] # "instructions" /\ (pc = 2 => Steps[tool][pc] = "deterministic")
  BY StepsAre DEF BaseInv
<1> QED BY <1>1, <1>2, <1>3, <1>4

\* Its commands are written in the fourth step, and never wiped.
LEMMA OpencodeWrites ==
  ASSUME BaseInv, tool = "opencode", NEW c \in Command
  PROVE  /\ <<"command", c>> \in Files
         /\ <<"command", c>> \notin Wiped(Steps[tool][pc])
         /\ <<"command", c>> \in Written(Steps[tool][pc]) => pc = 4 /\ c \in plugin.commands
<1>1. <<"command", c>> \in Files
  BY DEF Files
<1>2. \A step : step # "instructions" => <<"command", c>> \notin Wiped(step)
  BY DEF Wiped, OpencodeSkills
<1>3. \A step : step \notin {"prompts", "commands"} => <<"command", c>> \notin Written(step)
  BY DEF Written, GenChatmodes, GenInstructions, GenRubric, Ship, GenAgents, GenSkills, GenPlugin
<1>4. <<"command", c>> \in Written("commands") => c \in plugin.commands
  BY DEF Written, GenCommands, Repointed
<1>5. /\ Steps[tool][pc] \notin {"instructions", "prompts"}
      /\ Steps[tool][pc] = "commands" => pc = 4
  BY StepsAre DEF BaseInv
<1> QED BY <1>1, <1>2, <1>3, <1>4, <1>5

\* What a step, whole or interrupted, leaves of a file.
LEMMA StepEffect ==
  ASSUME BaseInv, WriteFiles \/ Interrupt, NEW f \in Files
  PROVE  \/ tree'[f] = tree[f]
         \/ f \in Wiped(Steps[tool][pc]) /\ tree'[f] = None
         \/ f \in Written(Steps[tool][pc]) /\ tree'[f] \in {Rendered(f)} \cup Torn
<1>1. CASE WriteFiles
  BY <1>1 DEF WriteFiles, After
<1>2. CASE Interrupt
  BY <1>2 DEF Interrupt
<1> QED BY <1>1, <1>2

----------------------------------------------------------------------------
(* OpenCode's commands and their scripts.                                  *)

\* Past its second step, a generation has shipped every script.
ShippedInv ==
  tool = "opencode" =>
    /\ Running /\ pc >= 3 => \A s \in plugin.scripts : tree[<<"script", s>>] # None
    /\ \A c \in Command :
         tree[<<"command", c>>].is = "made" =>
           \A s \in Calls[c] : tree[<<"script", s>>] # None

\* Every step keeps that: whatever a generation was interrupted in.
LEMMA ShippedStep == BaseInv /\ ShippedInv /\ [Next]_vars => ShippedInv'
<1> SUFFICES ASSUME BaseInv, ShippedInv, [Next]_vars, tool' = "opencode"
             PROVE  /\ (Running /\ pc >= 3)' =>
                         \A s \in plugin'.scripts : tree'[<<"script", s>>] # None
                    /\ \A c \in Command :
                         tree'[<<"command", c>>].is = "made" =>
                           \A s \in Calls[c] : tree'[<<"script", s>>] # None
  BY DEF ShippedInv
<1>0. tool = "opencode"
  BY DEF Next, Generate, Step, WriteFiles, GenMcp, GenGithooks, AssertNonempty, Interrupt,
         Release, UserEdit, vars
<1>s. /\ plugin.scripts \subseteq Script /\ \A c \in Command : Calls[c] \subseteq Script
      /\ \A c \in plugin.commands : Calls[c] \subseteq plugin.scripts
  BY AdaptersAssumption DEF BaseInv, Plugin, Coherent
<1>1. CASE WriteFiles \/ Interrupt
  <2>1. plugin' = plugin
    BY <1>1 DEF WriteFiles, Interrupt
  <2>2. ASSUME NEW s \in Script, tree[<<"script", s>>] # None
        PROVE  tree'[<<"script", s>>] # None
    <3>1. <<"script", s>> \in Files /\ <<"script", s>> \notin Wiped(Steps[tool][pc])
      BY <1>0, OpencodeWritesScript
    <3> QED BY <1>1, <2>2, <3>1, StepEffect, WrittenIsThere
  <2>3. ASSUME (Running /\ pc >= 3)', NEW s \in plugin'.scripts
        PROVE  tree'[<<"script", s>>] # None
    <3>1. WriteFiles /\ Running /\ pc' = pc + 1 /\ pc \in 1..8
      BY <1>1, <2>3 DEF WriteFiles, Interrupt, Stop, Proceed, Running, BaseInv
    <3>2. CASE pc >= 3
      BY <1>0, <1>s, <2>1, <2>2, <3>1, <3>2 DEF ShippedInv
    <3>3. CASE pc = 2
      <4>1. <<"script", s>> \in Files /\ <<"script", s>> \in Written(Steps[tool][pc])
        BY <1>0, <1>s, <2>1, <3>3, OpencodeWritesScript
      <4> QED BY <3>1, <4>1, WrittenIsThere DEF WriteFiles, After
    <3> QED BY <2>3, <3>1, <3>2, <3>3
  <2>4. ASSUME NEW c \in Command, tree'[<<"command", c>>].is = "made", NEW s \in Calls[c]
        PROVE  tree'[<<"script", s>>] # None
    <3>1. /\ <<"command", c>> \in Files /\ <<"command", c>> \notin Wiped(Steps[tool][pc])
          /\ <<"command", c>> \in Written(Steps[tool][pc]) => pc = 4 /\ c \in plugin.commands
      BY <1>0, <1>s, OpencodeWrites
    <3>2. CASE tree'[<<"command", c>>] = tree[<<"command", c>>]
      BY <1>0, <1>s, <2>2, <2>4, <3>2 DEF ShippedInv
    <3>3. CASE <<"command", c>> \in Written(Steps[tool][pc])
      <4>1. pc = 4 /\ c \in plugin.commands /\ Running
        BY <1>1, <3>1, <3>3 DEF WriteFiles, Interrupt
      <4>2. tree[<<"script", s>>] # None
        BY <1>0, <1>s, <4>1 DEF ShippedInv
      <4> QED BY <1>s, <2>2, <4>2
    <3> QED BY <1>1, <3>1, <3>2, <3>3, StepEffect
  <2> QED BY <2>3, <2>4
<1>2. CASE Generate
  BY <1>0, <1>2 DEF Generate, ShippedInv
<1>3. CASE GenMcp \/ GenGithooks \/ AssertNonempty
  <2>1. /\ UNCHANGED <<tree, plugin>> /\ Running
        /\ Running' /\ pc' >= 3 => pc >= 3
    BY <1>0, <1>3, StepsAre
    DEF GenMcp, GenGithooks, AssertNonempty, At, Stop, Proceed, Running, BaseInv
  <2> QED BY <1>0, <2>1 DEF ShippedInv
<1>4. CASE Release \/ UserEdit \/ UNCHANGED vars
  BY <1>0, <1>4 DEF Release, UserEdit, vars, Running, ShippedInv
<1> QED BY <1>1, <1>2, <1>3, <1>4 DEF Next, Step

\* adapters/opencode/generate.py: a command that is whole finds every script it
\* calls at any moment, during and after interrupted generations, and although
\* scripts of dropped commands are never looked at again.
THEOREM CommandsFindTheirScripts == Spec => []CommandFindsScripts
<1>1. Init => ShippedInv
  <2>1. Init => /\ ~Running
                /\ \A c \in Command : tree[<<"command", c>>].is # "made"
    BY DEF Init, Running, Files, None
  <2> QED BY <2>1 DEF ShippedInv
<1>2. ShippedInv => CommandFindsScripts
  BY DEF ShippedInv, CommandFindsScripts
<1> QED BY <1>1, <1>2, ShippedStep, BaseInvariant, PTL DEF Spec

----------------------------------------------------------------------------
(* Type correctness.                                                       *)

\* What a step writes is a file of the adapters, with a content of its kind.
LEMMA RenderedType ==
  ASSUME BaseInv, NEW f \in Files
  PROVE  Rendered(f) \in Content /\ None \in Content /\ Torn \subseteq Content
<1>1. plugin.rev \in 1..MaxRev
  BY DEF BaseInv, Plugin
<1>2. f[1] = "agent" => f[2] \in Agent
  BY DEF Files
<1>3. f[1] = "agent" => Pinned(f[2]) \in Tier
  BY <1>2, AdaptersAssumption DEF Pinned, BaseInv, Plugin, Routed
<1> QED BY <1>1, <1>3 DEF Rendered, Made, Content

\* Every step keeps the types.
LEMMA TypeStep == BaseInv /\ TypeOK /\ [Next]_vars => TypeOK'
<1> SUFFICES ASSUME BaseInv, TypeOK, [Next]_vars PROVE TypeOK'
  OBVIOUS
<1>1. BaseInv'
  BY BaseStep
<1>2. tree' \in [Files -> Content]
  <2>1. CASE WriteFiles \/ Interrupt
    <3>1. tree' = [f \in Files |-> tree'[f]]
      BY <2>1 DEF WriteFiles, Interrupt, After, TypeOK
    <3>2. \A f \in Files : tree'[f] \in Content
      BY <2>1, StepEffect, RenderedType DEF TypeOK
    <3> QED BY <3>1, <3>2
  <2>2. CASE tree' = tree
    BY <2>2 DEF TypeOK
  <2> QED BY <2>1, <2>2 DEF Next, Step, Generate, GenMcp, GenGithooks, AssertNonempty,
                        Release, UserEdit, vars
<1>3. tool' \in Tool
  BY DEF TypeOK, Next, Step, Generate, WriteFiles, GenMcp, GenGithooks, AssertNonempty,
         Interrupt, Release, UserEdit, vars
<1>4. mcp' \in [is: {"none", "made", "torn"}, servers: SUBSET (Server \cup UserServer)]
  <2>1. plugin.servers \subseteq Server
    BY DEF BaseInv, Plugin
  <2>2. CASE GenMcp
    BY <2>1, <2>2 DEF GenMcp, CopilotMcp, OpencodeMcp, TypeOK
  <2>3. CASE UserEdit
    BY <2>3 DEF UserEdit, TypeOK
  <2>4. CASE Interrupt
    BY <2>4 DEF Interrupt, TypeOK
  <2> QED BY <2>2, <2>3, <2>4 DEF TypeOK, Next, Step, Generate, WriteFiles, GenGithooks,
                                 AssertNonempty, Release, vars
<1>5. hook' \in [is: {"none", "made", "torn", "user"}]
  BY DEF TypeOK, Next, Step, Generate, WriteFiles, GenMcp, GenGithooks, AssertNonempty,
         Interrupt, Release, UserEdit, vars
<1>6. faults' \in 0..MaxFaults /\ edits' \in 0..MaxEdits
  BY AdaptersAssumption
  DEF TypeOK, Next, Step, Generate, WriteFiles, GenMcp, GenGithooks, AssertNonempty,
      Interrupt, Release, UserEdit, vars
<1> QED BY <1>1, <1>2, <1>3, <1>4, <1>5, <1>6 DEF TypeOK, BaseInv

\* adapters/<tool>/generate.py: the types hold through every generation, release
\* and interruption.
THEOREM AdaptersTypeCorrect == Spec => []TypeOK
<1>1. Init => TypeOK
  <2> SUFFICES ASSUME Init PROVE TypeOK
    OBVIOUS
  <2>1. BaseInv
    BY BaseInit
  <2>2. None \in Content
    BY DEF Content
  <2> QED BY <2>1, <2>2, AdaptersAssumption DEF Init, TypeOK, BaseInv
<1> QED BY <1>1, TypeStep, BaseInvariant, PTL DEF Spec

----------------------------------------------------------------------------
(* The user's files.                                                       *)

\* adapters/copilot/generate.py: no step that runs to its end takes a server or a
\* lefthook.yml from the user.
THEOREM UserKeepsFiles == Spec => UserFilesKept
<1> DEFINE Kept == tool = "copilot" /\ faults' = faults =>
                     /\ mcp.servers \cap UserServer \subseteq mcp'.servers
                     /\ hook.is = "user" => hook' = hook
<1>1. TypeOK /\ [Next]_vars => [Kept]_vars
  <2> SUFFICES ASSUME TypeOK, [Next]_vars PROVE [Kept]_vars
    OBVIOUS
  <2>1. CASE GenMcp
    BY <2>1 DEF GenMcp, CopilotMcp
  <2>2. CASE GenGithooks
    BY <2>2 DEF GenGithooks
  <2>3. CASE UserEdit
    BY <2>3 DEF UserEdit, TypeOK
  <2>4. CASE Interrupt
    BY <2>4, AdaptersAssumption DEF Interrupt, TypeOK
  <2>5. CASE Generate \/ WriteFiles \/ AssertNonempty \/ Release
    BY <2>5 DEF Generate, WriteFiles, AssertNonempty, Release
  <2> QED BY <2>1, <2>2, <2>3, <2>4, <2>5 DEF Next, Step, vars
<1> QED BY <1>1, AdaptersTypeCorrect, PTL DEF Spec, UserFilesKept

----------------------------------------------------------------------------
(* What is done is current.                                                *)

\* The step that writes a kind of file.
Place ==
  [copilot |-> [command |-> 1, agent |-> 2, skill |-> 3, pointer |-> 3, guide |-> 3,
                rubric |-> 4, script |-> 5, layer |-> 5],
   opencode |-> [rubric |-> 1, script |-> 2, layer |-> 2, agent |-> 3, command |-> 4,
                 skill |-> 5, guard |-> 7]]

\* What a running generation has written is current, and nothing it did since has
\* undone that; what was done stays so until the next release.
CurrentInv ==
  /\ Running => \A f \in Expected : Place[tool][f[1]] < pc => tree[f] = Rendered(f)
  /\ DoneIsCurrent

\* The files expected of a release, by kind.
LEMMA ExpectedFiles ==
  ASSUME BaseInv, NEW f \in Expected
  PROVE  /\ f \in Files /\ f = <<f[1], f[2]>>
         /\ f[1] \in {"command", "agent", "skill", "script", "rubric", "layer"}
              \cup (IF tool = "copilot" THEN {"guide", "pointer"} ELSE {"guard"})
         /\ f[1] = "command" => f[2] \in plugin.commands
         /\ f[1] = "agent" => f[2] \in plugin.agents
         /\ f[1] = "skill" => f[2] \in plugin.skills
         /\ f[1] = "script" => f[2] \in plugin.scripts
         /\ f[1] = "pointer" => f[2] \in Scoped \cap plugin.skills
         /\ f[1] \in {"rubric", "layer", "guide", "guard"} => f[2] = "-"
<1>1. /\ plugin.commands \subseteq Command /\ plugin.agents \subseteq Agent
      /\ plugin.skills \subseteq Skill /\ plugin.scripts \subseteq Script
  BY DEF BaseInv, Plugin
<1> QED BY <1>1 DEF Expected, Files

\* The step of its place writes every file of a kind, unless a command without the
\* preamble ends it.
LEMMA PlaceWrites ==
  ASSUME BaseInv, NEW f \in Expected, Place[tool][f[1]] = pc,
         Steps[tool][pc] \in {"prompts", "commands"} => plugin.garbled = {}
  PROVE  f \in Written(Steps[tool][pc])
<1>1. /\ f[1] = "command" /\ plugin.garbled = {} => f \in Written("prompts") \cap Written("commands")
      /\ f[1] = "agent" => f \in Written("chatmodes") \cap Written("agents")
      /\ f[1] = "skill" => f \in Written("instructions") \cap Written("skills")
      /\ f[1] \in {"pointer", "guide"} => f \in Written("instructions")
      /\ f[1] = "rubric" => f \in Written("rubric")
      /\ f[1] \in {"script", "layer"} => f \in Written("deterministic")
      /\ f[1] = "guard" => f \in Written("plugin")
  BY ExpectedFiles
  DEF Written, GenPrompts, GenCommands, Repointed, GenChatmodes, GenAgents, GenInstructions,
      GenSkills, GenRubric, Ship, GenPlugin
<1>2. CASE tool = "copilot"
  BY <1>1, <1>2, ExpectedFiles, StepsAre DEF Place
<1>3. CASE tool = "opencode"
  BY <1>1, <1>3, ExpectedFiles, StepsAre DEF Place
<1> QED BY <1>2, <1>3 DEF BaseInv

\* No step wipes what an earlier one wrote.
LEMMA NothingUndone ==
  ASSUME BaseInv, NEW f \in Expected, Place[tool][f[1]] < pc
  PROVE  f \notin Wiped(Steps[tool][pc])
<1>1. /\ \A step : step \notin {"instructions", "skills"} => f \notin Wiped(step)
      /\ f \in Wiped("instructions") => f[1] \in {"skill", "script", "rubric", "layer"}
      /\ f \in Wiped("skills") => f[1] = "skill"
  BY DEF Wiped, WfSkills, OpencodeSkills
<1>2. CASE tool = "copilot"
  <2>1. Steps[tool][pc] # "skills" /\ (Steps[tool][pc] = "instructions" => pc = 3)
    BY <1>2, StepsAre DEF BaseInv
  <2> QED BY <1>1, <1>2, <2>1 DEF Place
<1>3. CASE tool = "opencode"
  <2>1. Steps[tool][pc] # "instructions" /\ (Steps[tool][pc] = "skills" => pc = 5)
    BY <1>3, StepsAre DEF BaseInv
  <2> QED BY <1>1, <1>3, <2>1 DEF Place
<1> QED BY <1>2, <1>3 DEF BaseInv

\* A kind has a place from 1 to 7, and its step writes files.
LEMMA PlaceType ==
  ASSUME BaseInv, NEW f \in Expected
  PROVE  /\ Place[tool][f[1]] \in 1..7
         /\ Steps[tool][Place[tool][f[1]]] \notin {"mcp", "githooks", "assert_nonempty"}
<1>1. CASE tool = "copilot"
  BY <1>1, ExpectedFiles, StepsAre DEF Place
<1>2. CASE tool = "opencode"
  BY <1>2, ExpectedFiles, StepsAre DEF Place
<1> QED BY <1>1, <1>2 DEF BaseInv

\* What is expected changes with a release alone.
LEMMA ExpectedFrame ==
  ASSUME UNCHANGED <<tool, plugin>>
  PROVE  Expected' = Expected /\ \A f : Rendered(f)' = Rendered(f)
BY DEF Expected, Rendered, Pinned

\* Every step keeps that.
LEMMA CurrentStep == BaseInv /\ CurrentInv /\ [Next]_vars => CurrentInv'
<1> SUFFICES ASSUME BaseInv, CurrentInv, [Next]_vars PROVE CurrentInv'
  OBVIOUS
<1>1. CASE WriteFiles
  <2>1. /\ UNCHANGED <<tool, plugin>> /\ status' # "done"
        /\ Running' => /\ Running /\ pc' = pc + 1
                       /\ Steps[tool][pc] \in {"prompts", "commands"} => plugin.garbled = {}
    BY <1>1 DEF WriteFiles, Stop, Proceed, Running
  <2>2. ASSUME Running', NEW f \in Expected, Place[tool][f[1]] < pc'
        PROVE  tree'[f] = Rendered(f)
    <3>1. f \in Files /\ Place[tool][f[1]] \in 1..7 /\ pc \in 1..8
      BY ExpectedFiles, PlaceType DEF BaseInv
    <3>2. CASE Place[tool][f[1]] = pc
      BY <1>1, <2>1, <2>2, <3>1, <3>2, PlaceWrites DEF WriteFiles, After
    <3>3. CASE Place[tool][f[1]] < pc
      <4>1. f \notin Wiped(Steps[tool][pc]) /\ tree[f] = Rendered(f)
        BY <2>1, <2>2, <3>3, NothingUndone DEF CurrentInv
      <4> QED BY <1>1, <3>1, <4>1 DEF WriteFiles, After
    <3> QED BY <2>1, <2>2, <3>1, <3>2, <3>3
  <2> QED BY <2>1, <2>2, ExpectedFrame DEF CurrentInv, DoneIsCurrent
<1>2. CASE GenMcp \/ GenGithooks
  <2>1. /\ UNCHANGED <<tool, plugin, tree>> /\ status' # "done"
        /\ Running' => Running /\ pc' = pc + 1 /\ Steps[tool][pc] \in {"mcp", "githooks"}
    BY <1>2 DEF GenMcp, GenGithooks, At, Stop, Proceed, Running
  <2>2. ASSUME Running', NEW f \in Expected, Place[tool][f[1]] < pc'
        PROVE  tree'[f] = Rendered(f)
    <3>1. Place[tool][f[1]] \in 1..7 /\ pc \in 1..8 /\ Place[tool][f[1]] # pc
      BY <2>1, <2>2, PlaceType DEF BaseInv
    <3>2. Running /\ Place[tool][f[1]] < pc
      BY <2>1, <2>2, <3>1
    <3> QED BY <2>1, <3>2 DEF CurrentInv
  <2> QED BY <2>1, <2>2, ExpectedFrame DEF CurrentInv, DoneIsCurrent
<1>3. CASE AssertNonempty
  <2>1. /\ UNCHANGED <<tool, plugin, tree>> /\ ~Running' /\ Running
        /\ status' = "done" => Blank = {}
        /\ pc = 8
    BY <1>3, StepsAre DEF AssertNonempty, At, Stop, Running, BaseInv
  <2>2. \A f \in Expected : tree[f] = Rendered(f)
    BY <2>1, PlaceType DEF CurrentInv
  <2>3. Blank' = Blank
    BY <2>1 DEF Blank, Markdown
  <2> QED BY <2>1, <2>2, <2>3, ExpectedFrame DEF CurrentInv, DoneIsCurrent
<1>4. CASE Generate
  <2>1. \A f \in Expected : ~ (Place[tool][f[1]] < 1)
    BY PlaceType
  <2> QED BY <1>4, <2>1, ExpectedFrame DEF Generate, CurrentInv, DoneIsCurrent
<1>5. CASE Interrupt \/ Release
  BY <1>5 DEF Interrupt, Release, Stop, Running, CurrentInv, DoneIsCurrent
<1>6. CASE UserEdit \/ UNCHANGED vars
  <2>1. UNCHANGED <<tool, plugin, tree, status, pc>>
    BY <1>6 DEF UserEdit, vars
  <2>2. Blank' = Blank
    BY <2>1 DEF Blank, Markdown
  <2> QED BY <2>1, <2>2, ExpectedFrame DEF CurrentInv, DoneIsCurrent, Running
<1> QED BY <1>1, <1>2, <1>3, <1>4, <1>5, <1>6 DEF Next, Step

\* adapters/<tool>/generate.py: a generation that ends well leaves every file the
\* smoke test expects whole and of the current release, and no blank markdown,
\* whatever tree it found.
THEOREM DoneLeavesCurrent == Spec => []DoneIsCurrent
<1>1. Init => CurrentInv
  BY DEF Init, CurrentInv, DoneIsCurrent, Running
<1>2. CurrentInv => DoneIsCurrent
  BY DEF CurrentInv
<1> QED BY <1>1, <1>2, CurrentStep, BaseInvariant, PTL DEF Spec

----------------------------------------------------------------------------
(* What is done passes the smoke test.                                     *)

\* A whole tree of the current release, without leftovers and under a policy that
\* covers the shipped agents, gives none of the assertions a problem.
LEMMA CurrentPasses ==
  ASSUME BaseInv, \A f \in Expected : tree[f] = Rendered(f), Leftovers = {}, PolicyCovers
  PROVE  SmokeTestPasses
<1>1. \A f \in Expected : tree[f].is = "made" /\ tree[f] # None
  BY WrittenIsThere
<1>2. \A f \in Files : f \notin Expected => tree[f] = None
  BY DEF Leftovers
<1>3. /\ plugin.commands \subseteq Command /\ plugin.agents \subseteq Agent
      /\ plugin.skills \subseteq Skill /\ plugin.scripts \subseteq Script
  BY DEF BaseInv, Plugin
<1>4. EmptyFiles = {}
  BY <1>1, <1>2 DEF EmptyFiles, None
<1>5. Uncovered = {}
  BY <1>1, <1>3 DEF Uncovered, Present, Expected
<1>6. Misrouted = {}
  <2> SUFFICES ASSUME NEW a \in Agent
               PROVE  IF plugin.tier[a] = Unlisted THEN ModelOf(a) = "-"
                      ELSE ModelOf(a) = plugin.tier[a]
    BY DEF Misrouted
  <2>1. CASE plugin.tier[a] = Unlisted
    <3>1. <<"agent", a>> \in Files /\ <<"agent", a>> \notin Expected
      BY <2>1, ExpectedFiles DEF PolicyCovers, Files
    <3> QED BY <1>2, <2>1, <3>1 DEF ModelOf, None
  <2>2. CASE plugin.tier[a] # Unlisted
    <3>1. <<"agent", a>> \in Expected
      BY <2>2 DEF PolicyCovers, Expected
    <3>2. tree[<<"agent", a>>] = Made(plugin.rev, plugin.tier[a])
      BY <2>2, <3>1 DEF Rendered, Pinned
    <3> QED BY <2>2, <3>2 DEF ModelOf, Made
  <2> QED BY <2>1, <2>2
<1>7. Dangling = {}
  <2> SUFFICES ASSUME NEW c \in Command, tree[<<"command", c>>].is = "made"
               PROVE  Calls[c] \subseteq Present("script", Script)
    BY DEF Dangling
  <2>1. c \in plugin.commands
    <3>1. <<"command", c>> \in Files /\ tree[<<"command", c>>] # None
      BY DEF Files, None
    <3> QED BY <1>2, <3>1, ExpectedFiles
  <2>2. Calls[c] \subseteq plugin.scripts
    BY <2>1 DEF BaseInv, Coherent
  <2> QED BY <1>1, <1>3, <2>2 DEF Present, Expected
<1> QED BY <1>4, <1>5, <1>6, <1>7 DEF SmokeTestPasses

\* adapters/smoke-test.py and check-routing.py have nothing to report of a project
\* that was generated with success, wherever nothing is left over and the policy
\* lists the shipped agents.
THEOREM DoneSatisfiesSmokeTest == Spec => []DonePassesSmokeTest
<1>1. BaseInv /\ DoneIsCurrent => DonePassesSmokeTest
  BY CurrentPasses DEF DoneIsCurrent, DonePassesSmokeTest
<1> QED BY <1>1, DoneLeavesCurrent, BaseInvariant, PTL

----------------------------------------------------------------------------
(* What a generation fails for.                                            *)

\* Past the step that writes the skills, none is there that is not shipped.
SweptInv ==
  Running /\ Place[tool].skill < pc =>
    \A s \in Skill \ plugin.skills : tree[<<"skill", s>>] = None

\* The step of the skills wipes them all, and no other step writes any.
LEMMA SkillsAreSwept ==
  ASSUME BaseInv, NEW s \in Skill \ plugin.skills
  PROVE  /\ <<"skill", s>> \in Files
         /\ Place[tool].skill \in {3, 5}
         /\ <<"skill", s>> \notin Written(Steps[tool][pc])
         /\ pc = Place[tool].skill => /\ <<"skill", s>> \in Wiped(Steps[tool][pc])
                                      /\ Steps[tool][pc] \in {"instructions", "skills"}
<1>1. <<"skill", s>> \in Files
  BY DEF Files
<1>2. \A step : <<"skill", s>> \notin Written(step)
  BY DEF Written, GenPrompts, GenCommands, GenChatmodes, GenInstructions, GenRubric, Ship,
         GenAgents, GenSkills, GenPlugin
<1>3. <<"skill", s>> \in Wiped("instructions") /\ <<"skill", s>> \in Wiped("skills")
  BY DEF Wiped, WfSkills, OpencodeSkills
<1>4. CASE tool = "copilot"
  BY <1>1, <1>2, <1>3, <1>4, StepsAre DEF Place
<1>5. CASE tool = "opencode"
  BY <1>1, <1>2, <1>3, <1>5, StepsAre DEF Place
<1> QED BY <1>4, <1>5 DEF BaseInv

\* Every step keeps that.
LEMMA SweptStep == BaseInv /\ SweptInv /\ [Next]_vars => SweptInv'
<1> SUFFICES ASSUME BaseInv, SweptInv, [Next]_vars, (Running /\ Place[tool].skill < pc)',
                    NEW s \in Skill \ plugin'.skills
             PROVE  tree'[<<"skill", s>>] = None
  BY DEF SweptInv
<1>1. CASE WriteFiles
  <2>1. UNCHANGED <<tool, plugin>> /\ Running /\ pc' = pc + 1
    BY <1>1 DEF WriteFiles, Stop, Proceed, Running
  <2>2. /\ <<"skill", s>> \in Files /\ <<"skill", s>> \notin Written(Steps[tool][pc])
        /\ pc = Place[tool].skill => <<"skill", s>> \in Wiped(Steps[tool][pc])
        /\ Place[tool].skill \in {3, 5} /\ pc \in 1..8
    BY <2>1, SkillsAreSwept DEF BaseInv
  <2>3. tree' = After(Steps[tool][pc])
    BY <1>1 DEF WriteFiles
  <2>4. CASE pc = Place[tool].skill
    BY <2>2, <2>3, <2>4 DEF After
  <2>5. CASE Place[tool].skill < pc
    BY <2>1, <2>2, <2>3, <2>5 DEF After, SweptInv
  <2> QED BY <2>1, <2>2, <2>4, <2>5
<1>2. CASE GenMcp \/ GenGithooks
  <2>1. /\ UNCHANGED <<tool, plugin, tree>> /\ Running /\ pc' = pc + 1
        /\ Steps[tool][pc] \in {"mcp", "githooks"}
    BY <1>2 DEF GenMcp, GenGithooks, At, Stop, Proceed, Running
  <2>2. /\ pc # Place[tool].skill /\ Place[tool].skill \in {3, 5} /\ pc \in 1..8
    BY <2>1, SkillsAreSwept DEF BaseInv
  <2> QED BY <2>1, <2>2 DEF SweptInv
<1>3. CASE Generate
  <2>1. UNCHANGED <<tool, plugin>> /\ pc' = 1
    BY <1>3 DEF Generate
  <2>2. Place[tool].skill \in {3, 5}
    BY <2>1, SkillsAreSwept
  <2> QED BY <2>1, <2>2
<1>4. CASE AssertNonempty \/ Interrupt \/ Release
  BY <1>4 DEF AssertNonempty, Interrupt, Release, Stop, Running
<1>5. CASE UserEdit \/ UNCHANGED vars
  BY <1>5 DEF UserEdit, vars, Running, SweptInv
<1> QED BY <1>1, <1>2, <1>3, <1>4, <1>5 DEF Next, Step

\* At the last step, a blank file is one no step writes and none wipes.
LEMMA BlankIsBeyond ==
  ASSUME BaseInv, CurrentInv, SweptInv, Running, pc = 8
  PROVE  Blank \subseteq Beyond
<1> SUFFICES ASSUME NEW f \in Blank PROVE f \in Beyond
  OBVIOUS
<1>1. f \in Markdown /\ f \in Files /\ tree[f].is = "empty"
  BY DEF Blank, Markdown
<1>2. f \notin Expected
  <2>1. ASSUME f \in Expected PROVE FALSE
    <3>1. tree[f] = Rendered(f)
      BY <2>1, PlaceType DEF CurrentInv
    <3> QED BY <1>1, <3>1, WrittenIsThere
  <2> QED BY <2>1
<1>3. f[1] # "skill"
  <2>1. ASSUME f[1] = "skill" PROVE FALSE
    <3>1. PICK s \in Skill : f = <<"skill", s>>
      BY <1>1, <2>1 DEF Files
    <3>2. s \notin plugin.skills
      BY <1>2, <3>1 DEF Expected
    <3>3. Place[tool].skill \in {3, 5}
      BY <3>2, SkillsAreSwept
    <3>4. tree[f] = None
      BY <3>1, <3>2, <3>3 DEF SweptInv
    <3> QED BY <1>1, <3>4 DEF None
  <2> QED BY <2>1
<1> QED BY <1>1, <1>2, <1>3 DEF Beyond

\* adapters/<tool>/generate.py: a generation that ends as failed had before it a
\* server file it cannot read, a command it cannot rewrite, or a blank markdown
\* file of a release before; nothing else that was left stops it.
THEOREM FailureHasReason == Spec => FailsBeyondRepair
<1> DEFINE Reason == status' = "failed" /\ status # "failed" => ~Repairable
<1>1. BaseInv /\ CurrentInv /\ SweptInv /\ [Next]_vars => [Reason]_vars
  <2> SUFFICES ASSUME BaseInv, CurrentInv, SweptInv, Next, status' = "failed", status # "failed"
               PROVE  ~Repairable
    OBVIOUS
  <2>1. CASE WriteFiles
    BY <2>1 DEF WriteFiles, Proceed, Repairable
  <2>2. CASE GenMcp
    BY <2>2 DEF GenMcp, Proceed, Repairable
  <2>3. CASE AssertNonempty
    <3>1. Running /\ pc = 8
      BY <2>3, StepsAre DEF AssertNonempty, At, BaseInv
    <3>2. Blank # {}
      BY <2>3 DEF AssertNonempty, Stop
    <3> QED BY <3>1, <3>2, BlankIsBeyond DEF Repairable
  <2>4. CASE Generate \/ GenGithooks \/ Interrupt \/ Release \/ UserEdit
    BY <2>4 DEF Generate, GenGithooks, Proceed, Interrupt, Stop, Release, UserEdit
  <2> QED BY <2>1, <2>2, <2>3, <2>4 DEF Next, Step
<1>2. Init => CurrentInv /\ SweptInv
  BY DEF Init, CurrentInv, DoneIsCurrent, Running, SweptInv
<1> QED BY <1>1, <1>2, CurrentStep, SweptStep, BaseInvariant, PTL DEF Spec, FailsBeyondRepair

----------------------------------------------------------------------------
(* The tools of an agent, in either translation.                           *)

(* tools_for: every Copilot tool an agent with an allowlist gets stands    *)
(* for a Claude tool it lists and does not deny.                           *)
THEOREM CopilotNeverWidens ==
  ASSUME NEW tools \in SUBSET ClaudeTool, NEW denied \in SUBSET ClaudeTool,
         tools # {}
  PROVE  ToolsFor(tools, denied) \subseteq CopilotOf(tools \ denied)
<1> SUFFICES ASSUME NEW g \in ToolsFor(tools, denied)
             PROVE  g \in CopilotOf(tools \ denied)
  OBVIOUS
<1>1. PICK t \in tools : g \in Tool2Copilot[t]
  BY DEF ToolsFor, CopilotOf
<1>2. CASE t \in denied
  <2>1. PICK a \in tools \ denied : g \in Tool2Copilot[a]
    BY <1>1, <1>2 DEF ToolsFor, Needs, Available
  <2> QED BY <2>1 DEF CopilotOf
<1>3. CASE t \notin denied
  BY <1>1, <1>3 DEF CopilotOf
<1> QED BY <1>2, <1>3

(* tools_for: a denied tool keeps a Copilot tool only where another tool   *)
(* that is available and not denied shares it, without a list as well.     *)
THEOREM CopilotDenialHolds ==
  ASSUME NEW tools \in SUBSET ClaudeTool, NEW denied \in SUBSET ClaudeTool,
         NEW t \in denied, NEW g \in Tool2Copilot[t] \cap ToolsFor(tools, denied)
  PROVE  \E a \in Available(tools, Mapped) \ denied : g \in Tool2Copilot[a]
BY DEF ToolsFor, Needs

(* perms_for: every permission an agent with an allowlist gets is that of  *)
(* a tool it lists and does not deny, but for `list', which comes with     *)
(* Glob and stays when Glob is denied.                                     *)
THEOREM OpencodeNeverWidens ==
  ASSUME NEW tools \in SUBSET ClaudeTool, NEW denied \in SUBSET ClaudeTool,
         tools # {}
  PROVE  PermsFor(tools, denied) \subseteq Keys(tools \ denied) \cup {"list"}
<1> SUFFICES ASSUME NEW k \in PermsFor(tools, denied), k # "list"
             PROVE  k \in Keys(tools \ denied)
  OBVIOUS
<1>1. PICK t \in tools \cap Known : k = Tool2Perm[t]
  BY DEF PermsFor, Keys
<1>2. CASE t \in denied
  <2>1. k \in Keys(denied)
    BY <1>1, <1>2 DEF Keys
  <2>2. PICK a \in (tools \cap Known) \ denied : Tool2Perm[a] = k
    BY <2>1 DEF PermsFor, NeedsKey, Available
  <2> QED BY <2>2 DEF Keys
<1>3. CASE t \notin denied
  BY <1>1, <1>3 DEF Keys
<1> QED BY <1>2, <1>3
=============================================================================
