---------------------------- MODULE MCCapabilities ----------------------------
(***************************************************************************)
(* What a Session may call, the MCP servers, the skills and the programs,  *)
(* the display of what it does, and the versions of the workspace it works *)
(* on.  `component` says which of them moves, and the others stay where    *)
(* they begin.                                                             *)
(***************************************************************************)
EXTENDS McpServers, SkillStore, CliStore, LiveDisplay, WorkspaceVersions, TLC

CONSTANTS t1, t2, k1, k2, h1, h2, s1, s2, s3

VARIABLE component

MCCapabilitiesInit ==
  /\ component \in {"servers", "skills", "programs", "display", "versions"}
  /\ McpInit
  /\ SkillInit
  /\ CliInit
  /\ LiveDisplayInit
  /\ WorkspaceVersionsInit

MCCapabilitiesNext ==
  /\ UNCHANGED component
  /\ \/ /\ component = "servers" /\ McpNext
        /\ UNCHANGED <<skillVars, cliVars, liveDisplayVars, versionVars>>
     \/ /\ component = "skills" /\ SkillNext
        /\ UNCHANGED <<mcpVars, cliVars, liveDisplayVars, versionVars>>
     \/ /\ component = "programs" /\ CliNext
        /\ UNCHANGED <<mcpVars, skillVars, liveDisplayVars, versionVars>>
     \/ /\ component = "display" /\ LiveDisplayNext
        /\ UNCHANGED <<mcpVars, skillVars, cliVars, versionVars>>
     \/ /\ component = "versions" /\ WorkspaceVersionsNext
        /\ UNCHANGED <<mcpVars, skillVars, cliVars, liveDisplayVars>>

MCCapabilitiesSpec ==
  MCCapabilitiesInit
  /\ [][MCCapabilitiesNext]_<<component, mcpVars, skillVars, cliVars,
                              liveDisplayVars, versionVars>>

CapabilitySymmetry ==
  Permutations(Tasks) \cup Permutations(Keepers) \cup Permutations(Contents)

===============================================================================
