--------------------------- MODULE SessionPolicy ---------------------------
(***************************************************************************)
(* What the session server decides about a profile and about a request     *)
(* for a session, and what it then builds: the pure part of                *)
(* packages/server/src/server.ts and of createEngineSession in             *)
(* packages/core/src/engine.ts.                                            *)
(*                                                                         *)
(* A profile is reduced to what these decisions read: its engine, where    *)
(* its config directory is, its default permission mode and the            *)
(* capabilities it grants. A request adds the profile names its principal  *)
(* is restricted to. The cwd check, which reads nothing that changes, and  *)
(* models, env and instructions, which decide nothing, are left out.       *)
(*                                                                         *)
(* A definition that directly precedes the one it resembles is a faulty    *)
(* variant of it that shows that a property can fail.                      *)
(***************************************************************************)
EXTENDS FiniteSets

CONSTANTS
  Unset,         \* undefined
  Name,          \* profile names
  Declared,      \* the profiles option: a function from some names to profiles
  Capability,    \* the capabilities the host wired a backend for
  RootDirs,      \* config directories under allowedConfigDirRoots
  ExistingDirs,  \* config directories that exist
  DisableBypass  \* disableBypassPermissions

Mode == {"default", "plan", "bypassPermissions"}

ProviderModes == {"default", "bypassPermissions"}

Profile == [engine : {"claude", "provider"},
            configDir : RootDirs \cup ExistingDirs \cup {Unset},
            permissionMode : Mode \cup {Unset},
            capabilities : SUBSET Capability \cup {Unset}]

Request == [profile : Name \cup {Unset},
            permissionMode : Mode \cup {Unset},
            capabilities : SUBSET Capability \cup {Unset},
            mcpServers : BOOLEAN,
            allowedProfiles : SUBSET Name \cup {Unset}]

IsProvider(profile) == profile.engine = "provider"

Supports(engine, mode) == engine = "provider" => mode \in ProviderModes

\* validateProfile: what the server can tell is wrong without running it. (A
\* provider profile has its provider and an engine factory here.)
InvalidButForBypass(profile) ==
  \/ ~IsProvider(profile) /\ profile.configDir \notin ExistingDirs
  \/ /\ profile.permissionMode # Unset
     /\ ~Supports(profile.engine, profile.permissionMode)

Invalid(profile) ==
  \/ ~IsProvider(profile) /\ profile.configDir \notin ExistingDirs
  \/ DisableBypass /\ profile.permissionMode = "bypassPermissions"
  \/ /\ profile.permissionMode # Unset
     /\ ~Supports(profile.engine, profile.permissionMode)

\* configDirGuard: a managed Claude profile stays under the operator's roots.
ConfigDirRefused(profile) ==
  ~IsProvider(profile) /\ profile.configDir \notin RootDirs

ASSUME PolicyAssumption ==
  /\ DOMAIN Declared \subseteq Name
  /\ \A n \in DOMAIN Declared : Declared[n] \in Profile /\ ~Invalid(Declared[n])
  /\ DisableBypass \in BOOLEAN

\* profileFor and allProfiles over the mirror of the store: the code wins.
Known(mirror) == DOMAIN Declared \cup DOMAIN mirror

ProfileFor(mirror, name) ==
  CASE name \in DOMAIN Declared -> Declared[name]
    [] name \in DOMAIN mirror \ DOMAIN Declared -> mirror[name]
    [] OTHER -> Unset

---------------------------------------------------------------------------
\* resolveProfile: the profiles a request may resolve to, none if refused.
Resolved(request, mirror) ==
  LET known == Known(mirror)
      named == IF request.profile # Unset THEN {request.profile}
               ELSE IF Cardinality(known) = 1 THEN known ELSE {}
  IN IF known = {} THEN {Unset} \cap {request.profile}
     ELSE {n \in named \cap known : \/ request.allowedProfiles = Unset
                                    \/ n \in request.allowedProfiles}

\* checkEngineGrants: a request narrows what its profile grants.
GrantsRefused(request, profile) ==
  /\ IsProvider(profile)
  /\ \/ request.mcpServers
     \/ /\ request.capabilities # Unset
        /\ profile.capabilities # Unset
        /\ ~(request.capabilities \subseteq profile.capabilities)

\* The request as it goes on, its profile resolved; nothing if refused.
Admitted(request, mirror) ==
  {[request EXCEPT !.profile = name] : name \in
    {n \in Resolved(request, mirror) :
       LET profile == ProfileFor(mirror, n)
       IN /\ ~(DisableBypass /\ request.permissionMode = "bypassPermissions")
          /\ profile # Unset =>
               /\ request.permissionMode # Unset =>
                    Supports(profile.engine, request.permissionMode)
               /\ ~GrantsRefused(request, profile)}}

\* buildRunnerConfig: the profile's default mode fills an unset one.
RunnerConfig(request, mirror) ==
  LET profile == ProfileFor(mirror, request.profile)
  IN IF profile # Unset /\ request.permissionMode = Unset
     THEN [request EXCEPT !.permissionMode = profile.permissionMode]
     ELSE request

\* buildRunner finds no profile for a config that names one, or the provider
\* engine refuses the mode it is to start in.
Unbuildable(config, mirror) ==
  LET profile == ProfileFor(mirror, config.profile)
  IN /\ config.profile # Unset
     /\ \/ profile = Unset
        \/ /\ IsProvider(profile) /\ config.permissionMode # Unset
           /\ ~Supports(profile.engine, config.permissionMode)

\* The engine and the tools a runner is built with: the request's
\* capabilities when it names some, else its profile's, else all that is wired.
Built(config, mirror) ==
  LET profile == ProfileFor(mirror, config.profile)
      granted == IF config.capabilities # Unset THEN config.capabilities
                 ELSE profile.capabilities
  IN IF profile # Unset /\ IsProvider(profile)
     THEN [engine |-> "provider",
           tools |-> IF granted = Unset THEN Capability ELSE Capability \cap granted]
     ELSE [engine |-> "claude", tools |-> {}]
============================================================================
