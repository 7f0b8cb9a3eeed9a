--------------------------- MODULE ProfileServer ---------------------------
(***************************************************************************)
(* Profiles that are managed over HTTP while sessions and jobs are made    *)
(* from them (packages/server/src/server.ts and profile-store.ts).         *)
(*                                                                         *)
(* The server keeps a mirror of the profile store so that every lookup is  *)
(* synchronous. A management request reads its body, validates, writes the *)
(* store and then rebuilds the mirror: it empties it, awaits the listing   *)
(* and fills it in. Between these steps other requests are handled. The    *)
(* bundled stores answer at once, so what follows an await runs in the     *)
(* order in which the awaits began (ready); a store of the operator's own  *)
(* (remote) acts and answers in its own time, in any order.                *)
(*                                                                         *)
(* What a session is built from is settled in the step that admits it. A   *)
(* job is admitted when it is submitted, kept as its request, and built    *)
(* when the queue claims it; a parked session is built again from its      *)
(* config when it is woken. The engine's factory may take its time over a  *)
(* provider session. Every management request comes from a principal that  *)
(* may manage profiles.                                                    *)
(*                                                                         *)
(* A definition that directly precedes the one it resembles is a faulty    *)
(* variant of it that shows that a property can fail.                      *)
(***************************************************************************)
EXTENDS Naturals, SessionPolicy, Sequences

CONSTANTS
  Writer,       \* the management requests
  Session,      \* the sessions, each made directly or by a job
  NewProfiles,  \* bodies of POST /profiles
  Patches,      \* bodies of PATCH: functions from fields to values
  Requests,     \* what sessions and jobs ask for
  Stored,       \* what the store may hold at startup
  Remotes,      \* whether the store answers in its own time: the cases to consider
  MaxRestarts   \* bound on the restarts of the server

ASSUME ServerAssumption ==
  /\ NewProfiles \subseteq Profile
  /\ Requests \subseteq Request
  /\ Remotes \subseteq BOOLEAN
  /\ \A s \in Stored : DOMAIN s \subseteq Name /\ s \in [DOMAIN s -> Profile]

VARIABLES
  remote,    \* the store answers in its own time; never changed
  loaded,    \* the profiles the store held at first; never changed
  store,     \* the profiles the store holds, by name
  mirror,    \* `stored`: the server's copy of them
  writer,    \* where each management request is
  ready,     \* the requests whose next step is queued, for a store that answers at once
  session,   \* where each session or job is
  up,        \* the server is listening
  restarts   \* restarts so far (for the bound)

vars == <<remote, loaded, store, mirror, writer, ready, session, up, restarts>>

Empty == [n \in {} |-> Unset]

With(profiles, name, profile) ==
  [n \in DOMAIN profiles \cup {name} |->
     IF n = name THEN profile ELSE profiles[n]]

Without(profiles, name) == [n \in DOMAIN profiles \ {name} |-> profiles[n]]

\* A listing laid over the mirror, one profile at a time.
Over(listing, profiles) ==
  [n \in DOMAIN listing \cup DOMAIN profiles |->
     IF n \in DOMAIN listing THEN listing[n] ELSE profiles[n]]

\* `{ ...profile, ...patch }`
Patched(profile, patch) ==
  [f \in DOMAIN profile |-> IF f \in DOMAIN patch THEN patch[f] ELSE profile[f]]

Waiting == [at |-> "waiting", name |-> Unset, profile |-> Unset, listing |-> Empty]
Answered == [Waiting EXCEPT !.at = "answered"]
Absent == [at |-> "absent", request |-> Unset, mode |-> Unset,
           built |-> Unset, job |-> FALSE]

\* A session the registry holds. One at rest has the status 'parked' and waits
\* for a result, and is kept because a client is attached or its job vetoes.
Live == {"busy", "idle", "resting"}

\* Whether a management request has written, or is about to, and has not yet
\* brought the mirror up to date.
Outstanding(w) == writer[w].at \in {"saving", "saved", "listing", "listed"}

Init ==
  /\ remote \in Remotes
  /\ loaded \in Stored
  /\ store = loaded
  /\ mirror = store
  /\ writer = [w \in Writer |-> Waiting]
  /\ ready = <<>>
  /\ session = [s \in Session |-> Absent]
  /\ up = TRUE
  /\ restarts = 0

---------------------------------------------------------------------------
\* w writes to the store: at once, or when the store comes to it.
Writes(w, name, profile) ==
  /\ writer' = [writer EXCEPT ![w] =
                  [Waiting EXCEPT !.at = IF remote THEN "saving" ELSE "saved",
                                  !.name = name, !.profile = profile]]
  /\ IF remote THEN UNCHANGED <<store, ready>>
     ELSE /\ store' = IF profile = Unset THEN Without(store, name)
                      ELSE With(store, name, profile)
          /\ ready' = Append(ready, w)

Refuses(w) ==
  /\ writer' = [writer EXCEPT ![w] = Answered]
  /\ UNCHANGED <<store, ready>>

\* saveManagedProfile, up to the write
Saves(w, name, profile) ==
  IF ConfigDirRefused(profile) \/ Invalid(profile) THEN Refuses(w)
  ELSE Writes(w, name, profile)

\* POST /profiles, when its body has been read
Post(w, name, profile) ==
  /\ writer[w].at = "waiting"
  /\ IF ProfileFor(mirror, name) # Unset THEN Refuses(w)
     ELSE Saves(w, name, profile)
  /\ UNCHANGED <<remote, loaded, mirror, session, up, restarts>>

\* PATCH /profiles/:name holds the profile it found while its body is read.
PatchArrives(w, name) ==
  /\ writer[w].at = "waiting"
  /\ LET profile == ProfileFor(mirror, name)
     IN IF profile = Unset \/ name \in DOMAIN Declared THEN Refuses(w)
        ELSE /\ writer' = [writer EXCEPT ![w] =
                             [Waiting EXCEPT !.at = "body", !.name = name,
                                             !.profile = profile]]
             /\ UNCHANGED <<store, ready>>
  /\ UNCHANGED <<remote, loaded, mirror, session, up, restarts>>

PatchRead(w, patch) ==
  /\ writer[w].at = "body"
  /\ Saves(w, writer[w].name, Patched(writer[w].profile, patch))
  /\ UNCHANGED <<remote, loaded, mirror, session, up, restarts>>

\* DELETE /profiles/:name
Delete(w, name) ==
  /\ writer[w].at = "waiting"
  /\ IF ProfileFor(mirror, name) = Unset \/ name \in DOMAIN Declared THEN Refuses(w)
     ELSE Writes(w, name, Unset)
  /\ UNCHANGED <<remote, loaded, mirror, session, up, restarts>>

\* A remote store comes to what it was asked.
StoreActs(w) ==
  /\ \/ /\ writer[w].at = "saving"
        /\ store' = IF writer[w].profile = Unset THEN Without(store, writer[w].name)
                    ELSE With(store, writer[w].name, writer[w].profile)
        /\ writer' = [writer EXCEPT ![w].at = "saved"]
     \/ /\ writer[w].at = "listing"
        /\ writer' = [writer EXCEPT ![w].at = "listed", ![w].listing = store]
        /\ UNCHANGED store
  /\ UNCHANGED <<remote, loaded, mirror, ready, session, up, restarts>>

\* Whose turn it is: with a store that answers at once, the first in line.
GoesOn(w) == remote \/ (ready # <<>> /\ Head(ready) = w)

RefreshKeeping(w) ==
  /\ writer[w].at = "saved" /\ GoesOn(w)
  /\ IF remote
     THEN writer' = [writer EXCEPT ![w].at = "listing"] /\ UNCHANGED ready
     ELSE /\ writer' = [writer EXCEPT ![w].at = "listed", ![w].listing = store]
          /\ ready' = Append(Tail(ready), w)
  /\ UNCHANGED <<remote, loaded, store, mirror, session, up, restarts>>

Refresh(w) ==
  /\ writer[w].at = "saved" /\ GoesOn(w)
  /\ mirror' = Empty
  /\ IF remote
     THEN writer' = [writer EXCEPT ![w].at = "listing"] /\ UNCHANGED ready
     ELSE /\ writer' = [writer EXCEPT ![w].at = "listed", ![w].listing = store]
          /\ ready' = Append(Tail(ready), w)
  /\ UNCHANGED <<remote, loaded, store, session, up, restarts>>

\* The listing is in, and the request is answered.
Refreshed(w) ==
  /\ writer[w].at = "listed" /\ GoesOn(w)
  /\ mirror' = Over(writer[w].listing, mirror)
  /\ writer' = [writer EXCEPT ![w] = Answered]
  /\ ready' = IF remote THEN ready ELSE Tail(ready)
  /\ UNCHANGED <<remote, loaded, store, session, up, restarts>>

---------------------------------------------------------------------------
\* A runner for s is being built. The profile is read here; a Claude runner is
\* registered at once, a provider's when its factory is done.
Builds(s, request, mode, job, from) ==
  LET built == Built(request, mirror)
  IN session' = [session EXCEPT ![s] =
       [at |-> IF built.engine = "claude" THEN "busy" ELSE from,
        request |-> request, mode |-> mode, built |-> built, job |-> job]]

Ends(s) == session' = [session EXCEPT ![s] = [Absent EXCEPT !.at = "ended"]]

\* POST /sessions, when its body has been read. What is admitted can be built:
\* nothing changes in between.
CreateSession(s, request) ==
  /\ session[s].at = "absent"
  /\ \E admitted \in Admitted(request, mirror) :
       Builds(s, admitted, RunnerConfig(admitted, mirror).permissionMode, FALSE, "creating")
  /\ UNCHANGED <<remote, loaded, store, mirror, writer, ready, up, restarts>>

\* POST /jobs: the queue keeps the admitted request.
SubmitJob(s, request) ==
  /\ session[s].at = "absent"
  /\ \E admitted \in Admitted(request, mirror) :
       session' = [session EXCEPT ![s] =
         [Absent EXCEPT !.at = "queued", !.request = admitted, !.job = TRUE]]
  /\ UNCHANGED <<remote, loaded, store, mirror, writer, ready, up, restarts>>

\* The queue claims a job; one whose runner cannot be built ends failed.
ClaimJob(s) ==
  /\ session[s].at = "queued"
  /\ LET config == RunnerConfig(session[s].request, mirror)
     IN IF Unbuildable(config, mirror) THEN Ends(s)
        ELSE Builds(s, session[s].request, config.permissionMode, TRUE, "claimed")
  /\ UNCHANGED <<remote, loaded, store, mirror, writer, ready, up, restarts>>

\* createRunner registers the runner that was built and starts it.
Starts(s) ==
  /\ session[s].at \in {"creating", "claimed", "waking"}
  /\ session' = [session EXCEPT ![s].at = "busy"]
  /\ UNCHANGED <<remote, loaded, store, mirror, writer, ready, up, restarts>>

\* A turn ends and a message begins another.
Turns(s) ==
  /\ session[s].at \in {"busy", "idle"}
  /\ session' = [session EXCEPT ![s].at = IF @ = "busy" THEN "idle" ELSE "busy"]
  /\ UNCHANGED <<remote, loaded, store, mirror, writer, ready, up, restarts>>

SetMode(s, mode) ==
  /\ session[s].at \in Live
  /\ ~(DisableBypass /\ mode = "bypassPermissions")
  /\ Supports(session[s].built.engine, mode)
  /\ session' = [session EXCEPT ![s].mode = mode]
  /\ UNCHANGED <<remote, loaded, store, mirror, writer, ready, up, restarts>>

\* A provider session comes to rest on its deferred calls and is kept live:
\* somebody is attached, or its job is to go on (#park returns early).
Rests(s) ==
  /\ session[s].at = "busy" /\ session[s].built.engine = "provider"
  /\ session' = [session EXCEPT ![s].at = "resting"]
  /\ UNCHANGED <<remote, loaded, store, mirror, writer, ready, up, restarts>>

\* A result is delivered to the live runner, which goes on.
GoesOnLive(s) ==
  /\ session[s].at = "resting"
  /\ session' = [session EXCEPT ![s].at = "busy"]
  /\ UNCHANGED <<remote, loaded, store, mirror, writer, ready, up, restarts>>

\* A provider session parks, as it comes to rest or when the last client has
\* left; only its config and its snapshot remain.
Park(s) ==
  /\ session[s].at \in {"busy", "resting"} /\ session[s].built.engine = "provider"
  /\ session' = [session EXCEPT ![s].at = "parked", ![s].built = Unset]
  /\ UNCHANGED <<remote, loaded, store, mirror, writer, ready, up, restarts>>

\* A parked session is woken: it stays parked when it cannot be rebuilt.
Wake(s) ==
  /\ session[s].at = "parked"
  /\ LET request == session[s].request
         profile == ProfileFor(mirror, request.profile)
     IN /\ profile # Unset /\ IsProvider(profile)
        /\ Builds(s, request, session[s].mode, session[s].job, "waking")
  /\ UNCHANGED <<remote, loaded, store, mirror, writer, ready, up, restarts>>

\* A session is closed, or its job canceled.
EndSession(s) ==
  /\ session[s].at \in Live \cup {"queued", "parked"}
  /\ Ends(s)
  /\ UNCHANGED <<remote, loaded, store, mirror, writer, ready, up, restarts>>

\* A job's run fails and its job waits for another attempt.
Retry(s) ==
  /\ session[s].at \in {"busy", "resting"} /\ session[s].job
  /\ session' = [session EXCEPT ![s].at = "queued", ![s].mode = Unset,
                                        ![s].built = Unset]
  /\ UNCHANGED <<remote, loaded, store, mirror, writer, ready, up, restarts>>

\* The process stops. The file store writes by rename, so a write is there or
\* it is not. Parked sessions are taken to be durable, and one that was being
\* woken is still parked; everything else is gone.
Stop ==
  /\ up /\ restarts < MaxRestarts
  /\ up' = FALSE
  /\ restarts' = restarts + 1
  /\ mirror' = Empty
  /\ writer' = [w \in Writer |-> IF writer[w].at = "waiting" THEN Waiting ELSE Answered]
  /\ ready' = <<>>
  /\ session' = [s \in Session |->
       CASE session[s].at = "absent" -> Absent
         [] session[s].at \in {"parked", "waking"} ->
              [session[s] EXCEPT !.at = "parked", !.built = Unset, !.job = FALSE]
         [] OTHER -> [Absent EXCEPT !.at = "ended"]]
  /\ UNCHANGED <<remote, loaded, store>>

\* listen() fills the mirror before the first request.
Listen ==
  /\ ~up
  /\ up' = TRUE
  /\ mirror' = store
  /\ UNCHANGED <<remote, loaded, store, writer, ready, session, restarts>>

Manages(w) ==
  \/ \E n \in Name, p \in NewProfiles : Post(w, n, p)
  \/ \E n \in Name : PatchArrives(w, n)
  \/ \E p \in Patches : PatchRead(w, p)
  \/ \E n \in Name : Delete(w, n)
  \/ StoreActs(w)
  \/ Refresh(w)
  \/ Refreshed(w)

Uses(s) ==
  \/ \E r \in Requests : CreateSession(s, r)
  \/ \E r \in Requests : SubmitJob(s, r)
  \/ ClaimJob(s)
  \/ Starts(s)
  \/ Turns(s)
  \/ \E m \in Mode : SetMode(s, m)
  \/ Rests(s)
  \/ GoesOnLive(s)
  \/ Park(s)
  \/ Wake(s)
  \/ Retry(s)
  \/ EndSession(s)

Next ==
  \/ up /\ \E w \in Writer : Manages(w)
  \/ up /\ \E s \in Session : Uses(s)
  \/ Stop
  \/ Listen

Spec == Init /\ [][Next]_vars

---------------------------------------------------------------------------
(***************************************************************************)
(* Properties.                                                             *)
(***************************************************************************)

\* The names of profiles that bypass permissions and were in the store before
\* the server started: a listing is not validated (server.ts:519).
Unvetted ==
  {n \in DOMAIN loaded \ DOMAIN Declared : loaded[n].permissionMode = "bypassPermissions"}

\* With disableBypassPermissions a session only runs with permissions bypassed
\* under a profile that bypassed them in the store before the server started,
\* when nothing had validated it under this policy. It does not come to it by
\* request, by a profile that is created or patched while the body is read, by
\* a default filled in when its job starts, by a switch over the socket, or by
\* waking (server.ts:489, 607, 666, 1509).
NeverBypassed ==
  DisableBypass =>
    \A s \in Session :
      session[s].at \in Live /\ session[s].mode = "bypassPermissions" =>
        session[s].request.profile \in Unvetted

\* Once no management request is under way the mirror is the store, whichever
\* requests overlapped before, when the store answers at once as the bundled
\* ones do: each refresh empties the mirror before it awaits the listing, and
\* lays over it what was listed while others were written (refreshStored,
\* server.ts:515).
MirrorTells ==
  up /\ ~remote /\ (\A w \in Writer : ~Outstanding(w)) => mirror = store
============================================================================
