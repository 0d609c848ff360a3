------------------------------ MODULE Adapters ------------------------------
(***************************************************************************)
(* adapters/<tool>/generate.py writes the plugin into a project as files   *)
(* for Copilot or OpenCode, again after every release of the plugin.  A    *)
(* generation is a fixed row of steps over a tree it does not own: earlier *)
(* generations, interrupted ones and the user have written there too.      *)
(***************************************************************************)
EXTENDS Integers, Sequences, FiniteSets

CONSTANTS
  Tool,         \* the adapters: a subset of {"copilot", "opencode"}
  Command,      \* numbered in the order the generator sorts them
  Agent, Skill, Script,
  Scoped,       \* the skills _SKILL_APPLY maps to paths
  Calls,        \* Calls[c]: the scripts command c runs as $WF/scripts/...
  Tier,         \* routing tiers
  Server, UserServer,
  MaxRev,       \* bound: releases of the plugin
  MaxFaults,    \* bound: interruptions of a generation
  MaxEdits      \* bound: edits by the user

Unlisted == "unlisted"   \* the tier of an agent model-routing.yml omits
Routed == Tier \cup {Unlisted}

ASSUME AdaptersAssumption ==
  /\ Tool \subseteq {"copilot", "opencode"}
  /\ Command \subseteq Nat
  /\ "mid" \in Tier /\ Unlisted \notin Tier
  /\ Scoped \subseteq Skill
  /\ Calls \in [Command -> SUBSET Script]
  /\ Server \cap UserServer = {}
  /\ MaxRev \in Nat \ {0} /\ {MaxFaults, MaxEdits} \subseteq Nat

VARIABLES
  tool,      \* the adapter in use
  plugin,    \* the plugin of the current release
  tree,      \* tree[f]: what the project holds of generated file f
  mcp,       \* .vscode/mcp.json or opencode.json, as far as it lists servers
  hook,      \* lefthook.yml of the project root
  status,    \* how the generation stands, or how the last one ended
  pc,        \* the step a running generation is at
  faults, edits

vars == <<tool, plugin, tree, mcp, hook, status, pc, faults, edits>>

None == [is |-> "none"]
Made(rev, model) == [is |-> "made", rev |-> rev, model |-> model]
Torn == {[is |-> "empty"], [is |-> "partial"]}
Content == {None} \cup Torn
             \cup {Made(rev, model) : rev \in 1..MaxRev,
                                      model \in Tier \cup {"-"}}

Files == (({"command"} \X Command) \cup ({"agent"} \X Agent)
          \cup ({"skill"} \X Skill) \cup ({"pointer"} \X Scoped)
          \cup ({"script"} \X Script)
          \cup ({"rubric", "guide", "layer", "guard"} \X {"-"}))

(* A release: what it ships, the tier routing gives each listed agent, and *)
(* the commands that run $WF without the preamble deterministic.py knows.  *)
Plugin ==
  [rev: 1..MaxRev, commands: SUBSET Command, agents: SUBSET Agent,
   skills: SUBSET Skill, scripts: SUBSET Script,
   tier: [Agent -> Routed], garbled: SUBSET Command, servers: SUBSET Server]

Coherent(p) ==
  /\ \A c \in p.commands : Calls[c] \subseteq p.scripts
  /\ p.garbled \subseteq {c \in p.commands : Calls[c] # {}}

Running == status = "running"

TypeOK ==
  /\ tool \in Tool
  /\ plugin \in Plugin /\ Coherent(plugin)
  /\ tree \in [Files -> Content]
  /\ mcp \in [is: {"none", "made", "torn"}, servers: SUBSET (Server \cup UserServer)]
  /\ hook \in [is: {"none", "made", "torn", "user"}]
  /\ status \in {"due", "running", "done", "failed", "interrupted"}
  /\ pc \in 1..8
  /\ faults \in 0..MaxFaults /\ edits \in 0..MaxEdits
-----------------------------------------------------------------------------
(* Mutants: the rubric before the skills; the layer after the commands. *)
RubricFirst ==
  <<"prompts", "chatmodes", "rubric", "instructions", "deterministic",
    "mcp", "githooks", "assert_nonempty">>
LayerLate ==
  <<"rubric", "agents", "commands", "deterministic", "skills",
    "mcp", "plugin", "assert_nonempty">>

(* main() of each generator: its calls, in their order. *)
CopilotSteps ==
  <<"prompts", "chatmodes", "instructions", "rubric", "deterministic",
    "mcp", "githooks", "assert_nonempty">>
OpencodeSteps ==
  <<"rubric", "deterministic", "agents", "commands", "skills",
    "mcp", "plugin", "assert_nonempty">>

Steps == [copilot |-> CopilotSteps, opencode |-> OpencodeSteps]
At(step) == Running /\ Steps[tool][pc] = step
Proceed == pc' = pc + 1 /\ status' = status
Stop(how) == status' = how /\ pc' = 1

(* The files each generator writes.  Where repoint() finds no preamble to  *)
(* rewrite it exits, with the commands before that one written.            *)
Repointed == {c \in plugin.commands : \A g \in plugin.garbled : c < g}
GenPrompts == {"command"} \X Repointed
GenChatmodes == {"agent"} \X plugin.agents
GenInstructions ==
  ({"skill"} \X plugin.skills) \cup ({"pointer"} \X (Scoped \cap plugin.skills))
  \cup {<<"guide", "-">>}
GenRubric == {<<"rubric", "-">>}
Ship == ({"script"} \X plugin.scripts) \cup {<<"layer", "-">>}
GenCommands == {"command"} \X Repointed
GenAgents == {"agent"} \X plugin.agents
GenSkills == {"skill"} \X plugin.skills
GenPlugin == {<<"guard", "-">>}

Written(step) ==
  CASE step = "prompts" -> GenPrompts
    [] step = "chatmodes" -> GenChatmodes
    [] step = "instructions" -> GenInstructions
    [] step = "rubric" -> GenRubric
    [] step = "deterministic" -> Ship
    [] step = "commands" -> GenCommands
    [] step = "agents" -> GenAgents
    [] step = "skills" -> GenSkills
    [] step = "plugin" -> GenPlugin
    [] OTHER -> {}

(* Mutant: the new skills are copied over the old ones. *)
NothingWiped(step) == {}

(* shutil.rmtree: Copilot keeps the rubric and the scripts in the same     *)
(* directory as the skills, OpenCode beside it.                            *)
WfSkills == ({"skill", "script"} \X (Skill \cup Script))
              \cup {<<"rubric", "-">>, <<"layer", "-">>}
OpencodeSkills == {"skill"} \X Skill
Wiped(step) ==
  CASE step = "instructions" -> WfSkills
    [] step = "skills" -> OpencodeSkills
    [] OTHER -> {}

(* Mutants: the tier of an unlisted agent; one model for all. *)
PinnedAsListed(a) == plugin.tier[a]
PinnedMid(a) == "mid"

(* An agent file pins the model of its tier, mid when it is not listed. *)
Pinned(a) == IF plugin.tier[a] = Unlisted THEN "mid" ELSE plugin.tier[a]
Rendered(f) == Made(plugin.rev, IF f[1] = "agent" THEN Pinned(f[2]) ELSE "-")

After(step) ==
  [f \in Files |-> IF f \in Written(step) THEN Rendered(f)
                   ELSE IF f \in Wiped(step) THEN None ELSE tree[f]]

(* assert_nonempty globs every .md under the root: scripts, the rubric and *)
(* the guard plugin are none.                                              *)
Markdown == {f \in Files : f[1] \notin {"script", "rubric", "guard"}}
Blank == {f \in Markdown : tree[f].is = "empty"}

Generate ==
  /\ ~Running
  /\ status' = "running" /\ pc' = 1
  /\ UNCHANGED <<tool, plugin, tree, mcp, hook, faults, edits>>

WriteFiles ==
  /\ Running
  /\ LET step == Steps[tool][pc] IN
       /\ step \notin {"mcp", "githooks", "assert_nonempty"}
       /\ tree' = After(step)
       /\ IF step \in {"prompts", "commands"} /\ plugin.garbled # {}
          THEN Stop("failed") ELSE Proceed
  /\ UNCHANGED <<tool, plugin, mcp, hook, faults, edits>>

(* Mutant: Copilot's file is replaced as well. *)
CopilotMcpReplaced == plugin.servers

(* Copilot's gen_mcp adds to the servers of the file, OpenCode's replaces  *)
(* them; a file json.load cannot read stops either.                        *)
CopilotMcp == mcp.servers \cup plugin.servers
OpencodeMcp == plugin.servers

GenMcp ==
  /\ At("mcp")
  /\ IF mcp.is = "torn"
     THEN Stop("failed") /\ mcp' = mcp
     ELSE /\ Proceed
          /\ mcp' = [is |-> "made",
                     servers |-> IF tool = "copilot" THEN CopilotMcp
                                 ELSE OpencodeMcp]
  /\ UNCHANGED <<tool, plugin, tree, hook, faults, edits>>

(* gen_githooks leaves any lefthook.yml alone, its own included. *)
GenGithooks ==
  /\ At("githooks")
  /\ hook' = IF hook.is = "none" THEN [is |-> "made"] ELSE hook
  /\ Proceed
  /\ UNCHANGED <<tool, plugin, tree, mcp, faults, edits>>

AssertNonempty ==
  /\ At("assert_nonempty")
  /\ Stop(IF Blank = {} THEN "done" ELSE "failed")
  /\ UNCHANGED <<tool, plugin, tree, mcp, hook, faults, edits>>

Step == WriteFiles \/ GenMcp \/ GenGithooks \/ AssertNonempty

(* Ctrl-C, a full disk: some files of the step are whole, one may be torn, *)
(* and what the step wiped is gone.                                        *)
Interrupt ==
  /\ Running /\ faults < MaxFaults
  /\ faults' = faults + 1
  /\ Stop("interrupted")
  /\ LET step == Steps[tool][pc] IN
       \/ /\ \E whole \in SUBSET Written(step) :
             \E torn \in SUBSET (Written(step) \ whole), scrap \in Torn :
               /\ Cardinality(torn) <= 1
               /\ tree' = [f \in Files |->
                             IF f \in whole THEN Rendered(f)
                             ELSE IF f \in torn THEN scrap
                             ELSE IF f \in Wiped(step) THEN None ELSE tree[f]]
          /\ UNCHANGED <<mcp, hook>>
       \/ /\ step = "mcp" /\ mcp.is # "torn"
          /\ mcp' = [is |-> "torn", servers |-> {}]
          /\ UNCHANGED <<tree, hook>>
       \/ /\ step = "githooks" /\ hook.is = "none"
          /\ hook' = [is |-> "torn"]
          /\ UNCHANGED <<tree, mcp>>
  /\ UNCHANGED <<tool, plugin, edits>>
-----------------------------------------------------------------------------
(* The plugin is released anew: it adds or removes a command, an agent, a  *)
(* skill or a script, routes its agents anew, or only changes texts.       *)
Toggle(S, x) == IF x \in S THEN S \ {x} ELSE S \cup {x}

Variants(p) ==
  {p} \cup {[p EXCEPT !.commands = Toggle(p.commands, c)] : c \in Command}
      \cup {[p EXCEPT !.commands = p.commands \ {c},
                 !.scripts = p.scripts \ Calls[c]] :
              c \in p.commands}
      \cup {[p EXCEPT !.agents = Toggle(p.agents, a)] : a \in Agent}
      \cup {[p EXCEPT !.skills = Toggle(p.skills, s)] : s \in Skill}
      \cup {[p EXCEPT !.tier = tier] : tier \in [Agent -> Routed]}
      \cup {[p EXCEPT !.garbled = Toggle(p.garbled, c)] : c \in p.commands}
      \cup {[p EXCEPT !.servers = Toggle(p.servers, s)] : s \in Server}

Release ==
  /\ ~Running /\ plugin.rev < MaxRev
  /\ \E p \in Variants(plugin) :
       /\ Coherent(p)
       /\ plugin' = [p EXCEPT !.rev = @ + 1]
  /\ status' = "due" /\ pc' = pc
  /\ UNCHANGED <<tool, tree, mcp, hook, faults, edits>>

(* The user adds a server or a lefthook.yml, or repairs a torn file.       *)
UserEdit ==
  /\ ~Running /\ edits < MaxEdits
  /\ edits' = edits + 1
  /\ \/ /\ \E s \in UserServer :
             mcp' = [is |-> "made", servers |-> mcp.servers \cup {s}]
        /\ UNCHANGED hook
     \/ hook' = [is |-> "user"] /\ UNCHANGED mcp
  /\ UNCHANGED <<tool, plugin, tree, status, pc, faults>>

Init ==
  /\ tool \in Tool
  /\ plugin = [rev |-> 1, commands |-> Command, agents |-> Agent,
               skills |-> Skill, scripts |-> Script,
               tier |-> [a \in Agent |-> "mid"],
               garbled |-> {}, servers |-> Server]
  /\ tree = [f \in Files |-> None]
  /\ mcp = [is |-> "none", servers |-> {}]
  /\ hook = [is |-> "none"]
  /\ status = "due" /\ pc = 1
  /\ faults = 0 /\ edits = 0

Next == Generate \/ Step \/ Interrupt \/ Release \/ UserEdit

(* A generator runs its steps; a generation that did not end well is       *)
(* tried again.                                                            *)
Retry == status # "done" /\ Generate

Spec == Init /\ [][Next]_vars /\ WF_vars(Step) /\ WF_vars(Retry)
-----------------------------------------------------------------------------
(* adapters/smoke-test.py and check-routing.py, the problems of a tree.    *)
Present(kind, names) == {n \in names : tree[<<kind, n>>] # None}

EmptyFiles == {f \in Files : tree[f].is = "empty"}

Uncovered ==
  ({"command"} \X (plugin.commands \ Present("command", Command)))
  \cup ({"agent"} \X (plugin.agents \ Present("agent", Agent)))
  \cup ({"skill"} \X (plugin.skills \ Present("skill", Skill)))

(* An agent outside the policy may not pin a model, one inside it pins the *)
(* model of its tier and has a file.                                       *)
ModelOf(a) ==
  IF tree[<<"agent", a>>].is = "made" THEN tree[<<"agent", a>>].model ELSE "-"
Misrouted ==
  {a \in Agent :
     IF plugin.tier[a] = Unlisted THEN ModelOf(a) # "-"
     ELSE ModelOf(a) # plugin.tier[a]}

Dangling ==
  {c \in Command : /\ tree[<<"command", c>>].is = "made"
                   /\ ~ (Calls[c] \subseteq Present("script", Script))}

SmokeTestPasses ==
  EmptyFiles = {} /\ Uncovered = {} /\ Misrouted = {} /\ Dangling = {}
-----------------------------------------------------------------------------
(* What the smoke test expects of the tree of the current release. *)
Expected ==
  ({"command"} \X plugin.commands) \cup ({"agent"} \X plugin.agents)
  \cup ({"skill"} \X plugin.skills) \cup ({"script"} \X plugin.scripts)
  \cup ({"rubric", "layer"} \X {"-"})
  \cup (IF tool = "copilot"
        THEN {<<"guide", "-">>} \cup ({"pointer"} \X (Scoped \cap plugin.skills))
        ELSE {<<"guard", "-">>})

(* A generation that reports success leaves every command, agent, skill    *)
(* and script of the release whole and of that release, with the model its *)
(* tier routes to, and no blank markdown anywhere: whatever earlier and    *)
(* interrupted generations left, and although Copilot's skills step wipes  *)
(* the directory other steps write to.                                     *)
DoneIsCurrent ==
  status = "done" =>
    /\ \A f \in Expected : tree[f] = Rendered(f)
    /\ Blank = {}

(* What the generator reports as done passes the smoke test, wherever the  *)
(* tree holds nothing an earlier release left over, and the policy lists   *)
(* the agents that are shipped and no others.  The smoke test sees fresh   *)
(* directories alone; this is about a project that was generated before.   *)
Leftovers == {f \in Files : tree[f] # None} \ Expected
PolicyCovers == {a \in Agent : plugin.tier[a] # Unlisted} = plugin.agents
DonePassesSmokeTest ==
  status = "done" /\ Leftovers = {} /\ PolicyCovers => SmokeTestPasses

(* In OpenCode a command that is whole finds every script it calls at any  *)
(* moment: also while a generation runs, after it was interrupted, and for *)
(* a command the plugin has dropped together with its scripts.             *)
CommandFindsScripts ==
  tool = "opencode" =>
    \A c \in Command :
      tree[<<"command", c>>].is = "made" =>
        \A s \in Calls[c] : tree[<<"script", s>>] # None

(* No step of Copilot's generator that runs to its end removes a server    *)
(* the user added or replaces the user's lefthook.yml.                     *)
UserFilesKept ==
  [][tool = "copilot" /\ faults' = faults =>
       /\ mcp.servers \cap UserServer \subseteq mcp'.servers
       /\ hook.is = "user" => hook' = hook]_vars

(* Whatever a generation was interrupted in, trying again ends in success, *)
(* unless one of three things stays that no generation repairs: a server   *)
(* file json cannot read, a command without the preamble, a blank markdown *)
(* file the release no longer has.                                         *)
Beyond == {f \in Markdown : f \notin Expected /\ f[1] # "skill"}
Repairable ==
  mcp.is # "torn" /\ plugin.garbled = {} /\ Blank \cap Beyond = {}
RetryHeals == <>[]Repairable => []<>(status = "done")

(* A generation that fails, and was not interrupted, fails for one of      *)
(* those three reasons: whatever else an earlier one left torn or behind,  *)
(* a skill the release dropped for instance, it has repaired on the way.   *)
FailsBeyondRepair == [][status' = "failed" /\ status # "failed" => ~Repairable]_vars
=============================================================================
