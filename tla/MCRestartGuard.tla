-------------------------- MODULE MCRestartGuard ---------------------------
(***************************************************************************)
(* A small instance of the server and its guard: one declared profile, one *)
(* name to be managed, requests of each kind.                              *)
(***************************************************************************)
EXTENDS RestartGuard, TLC

Claude(dir, mode) == [engine |-> "claude", configDir |-> dir,
                      permissionMode |-> mode, capabilities |-> Unset]
Provider(mode, caps) == [engine |-> "provider", configDir |-> Unset,
                         permissionMode |-> mode, capabilities |-> caps]

Base == "base" :> Claude("home", Unset)
Search == {"web_search"}

Bodies == {Claude("team", "plan"), Provider(Unset, Search)}
Changes == {[engine |-> "claude", configDir |-> "home"],
            [engine |-> "provider", permissionMode |-> "bypassPermissions"]}
Ask(profile, mode, caps, allowed) ==
  [profile |-> profile, permissionMode |-> mode, capabilities |-> caps,
   mcpServers |-> FALSE, allowedProfiles |-> allowed]
Asked == {Ask(Unset, Unset, Unset, {"extra"}), Ask("extra", Unset, Search, {"extra"}),
          Ask("extra", "plan", Unset, Unset), Ask("base", "bypassPermissions", Unset, Unset)}
Before == {Empty,
           "base" :> Claude("team", Unset) @@ "extra" :> Provider("bypassPermissions", Unset)}
Flags == {[parked |-> FALSE, queued |-> TRUE], [parked |-> TRUE, queued |-> FALSE]}
============================================================================
