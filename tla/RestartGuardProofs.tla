------------------------- MODULE RestartGuardProofs -------------------------
(***************************************************************************)
(* Theorems about ProfileServer and about RestartGuard, which composes the *)
(* server with the guard that looks at it: for every set of profiles,      *)
(* requests and sessions, any number of management requests, restarts and  *)
(* looks, and both kinds of store.                                         *)
(***************************************************************************)
EXTENDS RestartGuard, TLAPS

-----------------------------------------------------------------------------
(* The inductive invariant of the server.                                  *)

(* What the server may come to run under: a profile that was validated, or *)
(* one of a name under which the store held another before the start.      *)
Allowed(profile) == ~(DisableBypass /\ profile.permissionMode = "bypassPermissions")

AllAllowed(profiles) ==
  \A n \in DOMAIN profiles \ DOMAIN Declared : Allowed(profiles[n]) \/ n \in Unvetted

(* A management request carries only what was validated: what it is about  *)
(* to write, and what the store listed. The profile a PATCH has found is   *)
(* of no account, since it is validated when it is patched.                *)
WriterShape == {"at", "name", "profile", "listing"}

WritersCarryAllowed ==
  /\ DOMAIN writer = Writer
  /\ \A w \in Writer :
       /\ DOMAIN writer[w] = WriterShape
       /\ writer[w].at = "saving" /\ writer[w].profile # Unset =>
            Allowed(writer[w].profile)
       /\ writer[w].at = "listed" => AllAllowed(writer[w].listing)

ProfilesAllowed == AllAllowed(store) /\ AllAllowed(mirror) /\ WritersCarryAllowed

(* A session's request was admitted, wherever the session is.              *)
SessionShape == {"at", "request", "mode", "built", "job"}

WasAdmitted(request) ==
  /\ "permissionMode" \in DOMAIN request
  /\ Allowed(request)

MayRunIn(mode, request) ==
  DisableBypass /\ mode = "bypassPermissions" => request.profile \in Unvetted

SessionsAdmitted ==
  /\ DOMAIN session = Session
  /\ \A s \in Session :
       /\ DOMAIN session[s] = SessionShape
       /\ session[s].at \notin {"absent", "ended"} => WasAdmitted(session[s].request)
       /\ session[s].at \notin {"absent", "ended", "queued"} =>
            MayRunIn(session[s].mode, session[s].request)

(* While the server is down, nothing but what is durable is left.          *)
DownIsDurable ==
  ~up => \A s \in Session : session[s].at \in {"absent", "parked", "ended"}

ServerInv == ProfilesAllowed /\ SessionsAdmitted /\ DownIsDurable

-----------------------------------------------------------------------------
(* The operators the server decides with.                                  *)

(* A profile that is found is a declared or a mirrored one.                *)
LEMMA ProfileForAllowed ==
  ASSUME NEW profiles, AllAllowed(profiles), NEW name, ProfileFor(profiles, name) # Unset
  PROVE  Allowed(ProfileFor(profiles, name)) \/ name \in Unvetted
<1>1. CASE name \in DOMAIN Declared
  BY <1>1, PolicyAssumption DEF ProfileFor, Allowed, Invalid
<1>2. CASE name \in DOMAIN profiles \ DOMAIN Declared
  BY <1>2 DEF ProfileFor, AllAllowed
<1> QED BY <1>1, <1>2 DEF ProfileFor

(* A saved or an overlaid set of profiles is as valid as its parts.        *)
LEMMA WithAllowed ==
  ASSUME NEW profiles, AllAllowed(profiles), NEW name, NEW profile, Allowed(profile)
  PROVE  AllAllowed(With(profiles, name, profile))
BY DEF With, AllAllowed

LEMMA WithoutAllowed ==
  ASSUME NEW profiles, AllAllowed(profiles), NEW name
  PROVE  AllAllowed(Without(profiles, name))
BY DEF Without, AllAllowed

LEMMA OverAllowed ==
  ASSUME NEW listing, AllAllowed(listing), NEW profiles, AllAllowed(profiles)
  PROVE  AllAllowed(Over(listing, profiles))
BY DEF Over, AllAllowed

LEMMA EmptyAllowed == AllAllowed(Empty)
BY DEF Empty, AllAllowed

(* What passes the policy and the profile checks of a create request.      *)
LEMMA AdmittedWasAdmitted ==
  ASSUME NEW request \in Request, NEW profiles, NEW admitted \in Admitted(request, profiles)
  PROVE  WasAdmitted(admitted)
<1>1. PICK name \in Resolved(request, profiles) :
        /\ admitted = [request EXCEPT !.profile = name]
        /\ ~(DisableBypass /\ request.permissionMode = "bypassPermissions")
  BY DEF Admitted
<1>2. admitted.permissionMode = request.permissionMode
  BY <1>1 DEF Request
<1>3. DOMAIN admitted = DOMAIN request
  BY <1>1
<1> QED BY <1>1, <1>2, <1>3 DEF WasAdmitted, Allowed, Request

(* The mode an admitted request starts in: its own or its profile's.       *)
LEMMA RunnerConfigMode ==
  ASSUME NEW profiles, AllAllowed(profiles), NEW request, Allowed(request),
         "permissionMode" \in DOMAIN request
  PROVE  MayRunIn(RunnerConfig(request, profiles).permissionMode, request)
BY ProfileForAllowed DEF RunnerConfig, Allowed, MayRunIn

-----------------------------------------------------------------------------
(* The steps of the server.                                                *)

LEMMA ServerInit == Init => ServerInv
<1> SUFFICES ASSUME Init PROVE ServerInv
  OBVIOUS
<1>1. AllAllowed(store)
  BY DEF Init, AllAllowed, Allowed, Unvetted
<1>2. ProfilesAllowed
  BY <1>1 DEF Init, ProfilesAllowed, WritersCarryAllowed, WriterShape, Waiting
<1>3. SessionsAdmitted
  BY DEF Init, SessionsAdmitted, SessionShape, Absent
<1> QED BY <1>2, <1>3 DEF Init, ServerInv, DownIsDurable

(* What one request does to where the others are: nothing.                 *)
LEMMA WriterStep ==
  ASSUME WritersCarryAllowed, NEW w \in Writer, NEW entry,
         UNCHANGED loaded, writer' = [writer EXCEPT ![w] = entry],
         DOMAIN entry = WriterShape,
         entry.at = "saving" /\ entry.profile # Unset => Allowed(entry.profile),
         entry.at = "listed" => AllAllowed(entry.listing)
  PROVE  WritersCarryAllowed'
<1>1. DOMAIN writer' = Writer
  BY DEF WritersCarryAllowed
<1>2. ASSUME NEW x \in Writer
      PROVE  writer'[x] = IF x = w THEN entry ELSE writer[x]
  BY DEF WritersCarryAllowed
<1>3. ASSUME NEW x \in Writer
      PROVE  /\ DOMAIN writer'[x] = WriterShape
             /\ writer'[x].at = "saving" /\ writer'[x].profile # Unset =>
                  Allowed(writer'[x].profile)
             /\ writer'[x].at = "listed" => AllAllowed(writer'[x].listing)
  BY <1>2 DEF WritersCarryAllowed
<1> QED BY <1>1, <1>3 DEF WritersCarryAllowed, Allowed, AllAllowed, Unvetted

LEMMA RefusesStep ==
  ASSUME ProfilesAllowed, NEW w \in Writer, Refuses(w), UNCHANGED <<loaded, mirror>>
  PROVE  ProfilesAllowed'
<1>1. /\ DOMAIN Answered = WriterShape /\ Answered.at = "answered"
  BY DEF Answered, Waiting, WriterShape
<1>2. WritersCarryAllowed'
  BY <1>1, WriterStep DEF Refuses, ProfilesAllowed
<1> QED BY <1>2 DEF Refuses, ProfilesAllowed, AllAllowed, Allowed, Unvetted

LEMMA WritesStep ==
  ASSUME ProfilesAllowed, NEW w \in Writer, NEW name, NEW profile,
         profile # Unset => Allowed(profile),
         Writes(w, name, profile), UNCHANGED <<loaded, mirror>>
  PROVE  ProfilesAllowed'
<1> DEFINE entry == [Waiting EXCEPT !.at = IF remote THEN "saving" ELSE "saved",
                                    !.name = name, !.profile = profile]
<1>1. /\ DOMAIN entry = WriterShape
      /\ entry.profile = profile
      /\ entry.at \in {"saving", "saved"}
  BY DEF Waiting, WriterShape
<1>2. writer' = [writer EXCEPT ![w] = entry]
  BY DEF Writes
<1> HIDE DEF entry
<1>3. WritersCarryAllowed'
  BY <1>1, <1>2, WriterStep DEF ProfilesAllowed
<1>4. AllAllowed(store) => AllAllowed(store')
  BY WithAllowed, WithoutAllowed DEF Writes
<1> QED BY <1>3, <1>4 DEF ProfilesAllowed, AllAllowed, Allowed, Unvetted

(* Nothing is written that was not validated.                              *)
LEMMA SavesStep ==
  ASSUME ProfilesAllowed, NEW w \in Writer, NEW name, NEW profile,
         Saves(w, name, profile), UNCHANGED <<loaded, mirror>>
  PROVE  ProfilesAllowed'
<1>1. CASE Refuses(w)
  BY <1>1, RefusesStep
<1>2. CASE ~Invalid(profile) /\ Writes(w, name, profile)
  BY <1>2, WritesStep DEF Invalid, Allowed
<1> QED BY <1>1, <1>2 DEF Saves

LEMMA ManagesStep ==
  ASSUME ProfilesAllowed, NEW w \in Writer, Manages(w)
  PROVE  ProfilesAllowed'
<1>w. WritersCarryAllowed /\ AllAllowed(store) /\ AllAllowed(mirror)
  BY DEF ProfilesAllowed
<1>d. DOMAIN writer = Writer /\ DOMAIN writer[w] = WriterShape
  BY <1>w DEF WritersCarryAllowed
<1>l. UNCHANGED loaded
  BY DEF Manages, Post, PatchArrives, PatchRead, Delete, StoreActs, Refresh, Refreshed
<1>1. ASSUME NEW n \in Name, NEW p \in NewProfiles, Post(w, n, p) PROVE ProfilesAllowed'
  BY <1>1, RefusesStep, SavesStep DEF Post
<1>2. ASSUME NEW n \in Name, PatchArrives(w, n) PROVE ProfilesAllowed'
  <2>1. CASE Refuses(w)
    BY <1>2, <2>1, RefusesStep DEF PatchArrives
  <2> DEFINE entry == [Waiting EXCEPT !.at = "body", !.name = n,
                                      !.profile = ProfileFor(mirror, n)]
  <2>2. DOMAIN entry = WriterShape /\ entry.at = "body"
    BY DEF Waiting, WriterShape
  <2>3. CASE writer' = [writer EXCEPT ![w] = entry] /\ UNCHANGED store
    <3> HIDE DEF entry
    <3>1. WritersCarryAllowed'
      BY <1>w, <1>l, <2>2, <2>3, WriterStep
    <3> QED BY <1>2, <1>w, <2>3, <3>1 DEF PatchArrives, ProfilesAllowed, AllAllowed, Allowed, Unvetted
  <2> QED BY <1>2, <2>1, <2>3 DEF PatchArrives
<1>3. ASSUME NEW p \in Patches, PatchRead(w, p) PROVE ProfilesAllowed'
  BY <1>3, SavesStep DEF PatchRead
<1>4. ASSUME NEW n \in Name, Delete(w, n) PROVE ProfilesAllowed'
  BY <1>4, RefusesStep, WritesStep DEF Delete
<1>5. ASSUME StoreActs(w) PROVE ProfilesAllowed'
  <2> DEFINE saved == [writer[w] EXCEPT !.at = "saved"]
             listed == [writer[w] EXCEPT !.at = "listed", !.listing = store]
  <2>1. /\ DOMAIN saved = WriterShape /\ saved.at = "saved"
        /\ DOMAIN listed = WriterShape /\ listed.at = "listed" /\ listed.listing = store
    BY <1>d DEF WriterShape
  <2>2. CASE writer[w].at = "saving" /\ writer' = [writer EXCEPT ![w] = saved]
    <3> HIDE DEF saved
    <3>1. WritersCarryAllowed'
      BY <1>w, <1>l, <2>1, <2>2, WriterStep
    <3>2. writer[w].profile = Unset \/ Allowed(writer[w].profile)
      BY <1>w, <2>2 DEF WritersCarryAllowed
    <3>3. AllAllowed(store')
      BY <1>5, <1>w, <2>2, <3>2, WithAllowed, WithoutAllowed DEF StoreActs
    <3> QED BY <1>5, <1>w, <3>1, <3>3 DEF StoreActs, ProfilesAllowed, AllAllowed, Allowed, Unvetted
  <2>3. CASE writer' = [writer EXCEPT ![w] = listed] /\ UNCHANGED store
    <3> HIDE DEF listed
    <3>1. WritersCarryAllowed'
      BY <1>w, <1>l, <2>1, <2>3, WriterStep
    <3> QED BY <1>5, <1>w, <2>3, <3>1 DEF StoreActs, ProfilesAllowed, AllAllowed, Allowed, Unvetted
  <2> QED BY <1>5, <2>2, <2>3 DEF StoreActs
<1>6. ASSUME Refresh(w) PROVE ProfilesAllowed'
  <2> DEFINE listing == [writer[w] EXCEPT !.at = "listing"]
             listed == [writer[w] EXCEPT !.at = "listed", !.listing = store]
  <2>1. /\ DOMAIN listing = WriterShape /\ listing.at = "listing"
        /\ DOMAIN listed = WriterShape /\ listed.at = "listed" /\ listed.listing = store
    BY <1>d DEF WriterShape
  <2>2. \/ writer' = [writer EXCEPT ![w] = listing]
        \/ writer' = [writer EXCEPT ![w] = listed]
    BY <1>6 DEF Refresh
  <2> HIDE DEF listing, listed
  <2>3. WritersCarryAllowed'
    BY <1>w, <1>l, <2>1, <2>2, WriterStep
  <2> QED BY <1>6, <1>w, <2>3, EmptyAllowed DEF Refresh, ProfilesAllowed, AllAllowed, Allowed, Unvetted
<1>7. ASSUME Refreshed(w) PROVE ProfilesAllowed'
  <2>1. DOMAIN Answered = WriterShape /\ Answered.at = "answered"
    BY DEF Answered, Waiting, WriterShape
  <2>2. WritersCarryAllowed'
    BY <1>7, <1>w, <2>1, WriterStep DEF Refreshed
  <2>3. AllAllowed(writer[w].listing)
    BY <1>7, <1>w DEF Refreshed, WritersCarryAllowed
  <2>4. AllAllowed(mirror')
    BY <1>7, <1>w, <2>3, OverAllowed DEF Refreshed
  <2> QED BY <1>7, <1>w, <2>2, <2>4 DEF Refreshed, ProfilesAllowed, AllAllowed, Allowed, Unvetted
<1> QED BY <1>1, <1>2, <1>3, <1>4, <1>5, <1>6, <1>7 DEF Manages

(* What one session does to the others: nothing.                           *)
LEMMA SessionStep ==
  ASSUME SessionsAdmitted, NEW s \in Session, NEW entry,
         UNCHANGED loaded, session' = [session EXCEPT ![s] = entry],
         DOMAIN entry = SessionShape,
         entry.at \notin {"absent", "ended"} => WasAdmitted(entry.request),
         entry.at \notin {"absent", "ended", "queued"} => MayRunIn(entry.mode, entry.request)
  PROVE  SessionsAdmitted'
<1>1. DOMAIN session' = Session
  BY DEF SessionsAdmitted
<1>2. ASSUME NEW x \in Session
      PROVE  session'[x] = IF x = s THEN entry ELSE session[x]
  BY DEF SessionsAdmitted
<1> QED BY <1>1, <1>2 DEF SessionsAdmitted, WasAdmitted, Allowed, MayRunIn, Unvetted

(* A session that is where it may run was admitted, and so is what it is   *)
(* when only its place changes.                                            *)
LEMMA MovesStep ==
  ASSUME SessionsAdmitted, NEW s \in Session, NEW to, NEW entry,
         UNCHANGED loaded, session' = [session EXCEPT ![s] = entry],
         session[s].at \notin {"absent", "ended", "queued"},
         DOMAIN entry = SessionShape, entry.at = to,
         entry.request = session[s].request,
         \/ entry.mode = session[s].mode
         \/ ~(DisableBypass /\ entry.mode = "bypassPermissions")
         \/ to = "queued"
  PROVE  SessionsAdmitted'
<1>1. /\ WasAdmitted(session[s].request)
      /\ MayRunIn(session[s].mode, session[s].request)
  BY DEF SessionsAdmitted
<1>2. to # "queued" => MayRunIn(entry.mode, entry.request)
  BY <1>1 DEF MayRunIn
<1> QED BY <1>1, <1>2, SessionStep

LEMMA EndsStep ==
  ASSUME SessionsAdmitted, NEW s \in Session, Ends(s), UNCHANGED loaded
  PROVE  SessionsAdmitted'
<1> DEFINE entry == [Absent EXCEPT !.at = "ended"]
<1>1. DOMAIN entry = SessionShape /\ entry.at = "ended"
  BY DEF Absent, SessionShape
<1>2. session' = [session EXCEPT ![s] = entry]
  BY DEF Ends
<1> HIDE DEF entry
<1> QED BY <1>1, <1>2, SessionStep

LEMMA BuildsStep ==
  ASSUME SessionsAdmitted, NEW s \in Session, NEW request, WasAdmitted(request),
         NEW mode, MayRunIn(mode, request), UNCHANGED loaded,
         NEW job, NEW from, Builds(s, request, mode, job, from)
  PROVE  SessionsAdmitted'
<1> DEFINE entry == [at |-> IF Built(request, mirror).engine = "claude" THEN "busy" ELSE from,
                     request |-> request, mode |-> mode,
                     built |-> Built(request, mirror), job |-> job]
<1>1. DOMAIN entry = SessionShape /\ entry.request = request /\ entry.mode = mode
  BY DEF SessionShape
<1>2. session' = [session EXCEPT ![s] = entry]
  BY DEF Builds
<1> HIDE DEF entry
<1> QED BY <1>1, <1>2, SessionStep

LEMMA UsesStep ==
  ASSUME ProfilesAllowed, SessionsAdmitted, NEW s \in Session, Uses(s)
  PROVE  SessionsAdmitted'
<1>d. DOMAIN session = Session /\ DOMAIN session[s] = SessionShape
  BY DEF SessionsAdmitted
<1>m. AllAllowed(mirror)
  BY DEF ProfilesAllowed
<1>l. UNCHANGED loaded
  BY DEF Uses, CreateSession, SubmitJob, ClaimJob, Starts, Turns, SetMode, Rests, GoesOnLive,
         Park, Wake, Retry, EndSession
<1>1. ASSUME NEW r \in Requests, CreateSession(s, r) PROVE SessionsAdmitted'
  <2>1. PICK admitted \in Admitted(r, mirror) :
          Builds(s, admitted, RunnerConfig(admitted, mirror).permissionMode, FALSE, "creating")
    BY <1>1 DEF CreateSession
  <2>2. r \in Request
    BY ServerAssumption
  <2>3. WasAdmitted(admitted)
    BY <2>2, AdmittedWasAdmitted
  <2>4. MayRunIn(RunnerConfig(admitted, mirror).permissionMode, admitted)
    BY <1>m, <2>3, RunnerConfigMode DEF WasAdmitted
  <2> QED BY <1>l, <2>1, <2>3, <2>4, BuildsStep
<1>2. ASSUME NEW r \in Requests, SubmitJob(s, r) PROVE SessionsAdmitted'
  <2>1. PICK admitted \in Admitted(r, mirror) :
          session' = [session EXCEPT ![s] =
            [Absent EXCEPT !.at = "queued", !.request = admitted, !.job = TRUE]]
    BY <1>2 DEF SubmitJob
  <2> DEFINE entry == [Absent EXCEPT !.at = "queued", !.request = admitted, !.job = TRUE]
  <2>2. WasAdmitted(admitted)
    BY ServerAssumption, AdmittedWasAdmitted
  <2>3. DOMAIN entry = SessionShape /\ entry.at = "queued" /\ entry.request = admitted
    BY DEF Absent, SessionShape
  <2> HIDE DEF entry
  <2> QED BY <1>l, <2>1, <2>2, <2>3, SessionStep DEF entry
<1>3. ASSUME ClaimJob(s) PROVE SessionsAdmitted'
  <2> DEFINE request == session[s].request
             config == RunnerConfig(request, mirror)
  <2>1. CASE Ends(s)
    BY <1>l, <2>1, EndsStep
  <2>2. CASE Builds(s, request, config.permissionMode, TRUE, "claimed")
    <3>1. WasAdmitted(request)
      BY <1>3 DEF ClaimJob, SessionsAdmitted
    <3>2. MayRunIn(config.permissionMode, request)
      BY <1>m, <3>1, RunnerConfigMode DEF WasAdmitted
    <3> QED BY <1>l, <2>2, <3>1, <3>2, BuildsStep
  <2> QED BY <1>3, <2>1, <2>2 DEF ClaimJob
<1>4. ASSUME Starts(s) PROVE SessionsAdmitted'
  <2> DEFINE entry == [session[s] EXCEPT !.at = "busy"]
  <2>1. /\ DOMAIN entry = SessionShape /\ entry.at = "busy"
        /\ entry.request = session[s].request /\ entry.mode = session[s].mode
    BY <1>d DEF SessionShape
  <2>2. session' = [session EXCEPT ![s] = entry]
    BY <1>4 DEF Starts
  <2>3. session[s].at \notin {"absent", "ended", "queued"}
    BY <1>4 DEF Starts
  <2> HIDE DEF entry
  <2> QED BY <1>l, <2>1, <2>2, <2>3, MovesStep
<1>5. ASSUME Turns(s) PROVE SessionsAdmitted'
  <2> DEFINE entry == [session[s] EXCEPT !.at = IF @ = "busy" THEN "idle" ELSE "busy"]
  <2>1. /\ DOMAIN entry = SessionShape
        /\ entry.request = session[s].request /\ entry.mode = session[s].mode
    BY <1>d DEF SessionShape
  <2>2. session' = [session EXCEPT ![s] = entry]
    BY <1>5 DEF Turns
  <2>3. session[s].at \notin {"absent", "ended", "queued"}
    BY <1>5 DEF Turns
  <2> HIDE DEF entry
  <2> QED BY <1>l, <2>1, <2>2, <2>3, MovesStep
<1>6. ASSUME NEW m \in Mode, SetMode(s, m) PROVE SessionsAdmitted'
  <2> DEFINE entry == [session[s] EXCEPT !.mode = m]
  <2>1. /\ DOMAIN entry = SessionShape
        /\ entry.request = session[s].request /\ entry.mode = m
    BY <1>d DEF SessionShape
  <2>2. session' = [session EXCEPT ![s] = entry]
    BY <1>6 DEF SetMode
  <2>3. /\ session[s].at \notin {"absent", "ended", "queued"}
        /\ ~(DisableBypass /\ m = "bypassPermissions")
    BY <1>6 DEF SetMode, Live
  <2> HIDE DEF entry
  <2> QED BY <1>l, <2>1, <2>2, <2>3, MovesStep
<1>7. ASSUME Park(s) PROVE SessionsAdmitted'
  <2> DEFINE entry == [session[s] EXCEPT !.at = "parked", !.built = Unset]
  <2>1. /\ DOMAIN entry = SessionShape
        /\ entry.request = session[s].request /\ entry.mode = session[s].mode
    BY <1>d DEF SessionShape
  <2>2. session' = [session EXCEPT ![s] = entry]
    BY <1>7 DEF Park
  <2>3. session[s].at \notin {"absent", "ended", "queued"}
    BY <1>7 DEF Park
  <2> HIDE DEF entry
  <2> QED BY <1>l, <2>1, <2>2, <2>3, MovesStep
<1>8. ASSUME Wake(s) PROVE SessionsAdmitted'
  <2>1. /\ WasAdmitted(session[s].request)
        /\ MayRunIn(session[s].mode, session[s].request)
    BY <1>8 DEF Wake, SessionsAdmitted
  <2>2. Builds(s, session[s].request, session[s].mode, session[s].job, "waking")
    BY <1>8 DEF Wake
  <2> QED BY <1>l, <2>1, <2>2, BuildsStep
<1>9. ASSUME Retry(s) PROVE SessionsAdmitted'
  <2> DEFINE entry == [session[s] EXCEPT !.at = "queued", !.mode = Unset, !.built = Unset]
  <2>1. /\ DOMAIN entry = SessionShape /\ entry.at = "queued"
        /\ entry.request = session[s].request
    BY <1>d DEF SessionShape
  <2>2. session' = [session EXCEPT ![s] = entry]
    BY <1>9 DEF Retry
  <2>3. session[s].at \notin {"absent", "ended", "queued"}
    BY <1>9 DEF Retry
  <2> HIDE DEF entry
  <2> QED BY <1>l, <2>1, <2>2, <2>3, MovesStep
<1>10. ASSUME EndSession(s) PROVE SessionsAdmitted'
  BY <1>l, <1>10, EndsStep DEF EndSession
<1>11. ASSUME Rests(s) PROVE SessionsAdmitted'
  <2> DEFINE entry == [session[s] EXCEPT !.at = "resting"]
  <2>1. /\ DOMAIN entry = SessionShape
        /\ entry.request = session[s].request /\ entry.mode = session[s].mode
    BY <1>d DEF SessionShape
  <2>2. session' = [session EXCEPT ![s] = entry]
    BY <1>11 DEF Rests
  <2>3. session[s].at \notin {"absent", "ended", "queued"}
    BY <1>11 DEF Rests
  <2> HIDE DEF entry
  <2> QED BY <1>l, <2>1, <2>2, <2>3, MovesStep
<1>12. ASSUME GoesOnLive(s) PROVE SessionsAdmitted'
  <2> DEFINE entry == [session[s] EXCEPT !.at = "busy"]
  <2>1. /\ DOMAIN entry = SessionShape
        /\ entry.request = session[s].request /\ entry.mode = session[s].mode
    BY <1>d DEF SessionShape
  <2>2. session' = [session EXCEPT ![s] = entry]
    BY <1>12 DEF GoesOnLive
  <2>3. session[s].at \notin {"absent", "ended", "queued"}
    BY <1>12 DEF GoesOnLive
  <2> HIDE DEF entry
  <2> QED BY <1>l, <2>1, <2>2, <2>3, MovesStep
<1> QED BY <1>1, <1>2, <1>3, <1>4, <1>5, <1>6, <1>7, <1>8, <1>9, <1>10,
         <1>11, <1>12 DEF Uses

(* A restart loses what is not durable; what it keeps is as it was.        *)
LEMMA StopStep ==
  ASSUME ServerInv, Stop
  PROVE  ServerInv'
<1>1. WritersCarryAllowed'
  BY DEF Stop, WritersCarryAllowed, WriterShape, Waiting, Answered
<1>2. ProfilesAllowed'
  BY <1>1, EmptyAllowed DEF Stop, ServerInv, ProfilesAllowed, AllAllowed, Allowed, Unvetted
<1> DEFINE After(s) ==
      CASE session[s].at = "absent" -> Absent
        [] session[s].at \in {"parked", "waking"} ->
             [session[s] EXCEPT !.at = "parked", !.built = Unset, !.job = FALSE]
        [] OTHER -> [Absent EXCEPT !.at = "ended"]
<1>3. session' = [s \in Session |-> After(s)]
  BY DEF Stop
<1>4. ASSUME NEW s \in Session
      PROVE  /\ DOMAIN After(s) = SessionShape
             /\ \/ After(s).at \in {"absent", "ended"}
                \/ /\ session[s].at \in {"parked", "waking"}
                   /\ After(s).at = "parked"
                   /\ After(s).request = session[s].request
                   /\ After(s).mode = session[s].mode
  <2>1. DOMAIN session[s] = SessionShape
    BY DEF ServerInv, SessionsAdmitted
  <2>2. CASE session[s].at = "absent"
    BY <2>2 DEF Absent, SessionShape
  <2>3. CASE session[s].at \in {"parked", "waking"}
    BY <2>1, <2>3 DEF SessionShape
  <2>4. CASE session[s].at \notin {"absent", "parked", "waking"}
    BY <2>4 DEF Absent, SessionShape
  <2> QED BY <2>2, <2>3, <2>4
<1> HIDE DEF After
<1>5. SessionsAdmitted'
  <2>1. UNCHANGED loaded /\ DOMAIN session' = Session
    BY <1>3 DEF Stop
  <2>2. ASSUME NEW s \in Session
        PROVE  /\ DOMAIN session'[s] = SessionShape
               /\ session'[s].at \notin {"absent", "ended"} =>
                    /\ WasAdmitted(session[s].request)
                    /\ MayRunIn(session[s].mode, session[s].request)
                    /\ session'[s].request = session[s].request
                    /\ session'[s].mode = session[s].mode
    BY <1>3, <1>4 DEF ServerInv, SessionsAdmitted
  <2>3. ASSUME NEW request PROVE WasAdmitted(request)' <=> WasAdmitted(request)
    BY DEF WasAdmitted, Allowed
  <2>4. ASSUME NEW mode, NEW request
        PROVE  MayRunIn(mode, request)' <=> MayRunIn(mode, request)
    BY <2>1 DEF MayRunIn, Unvetted
  <2> QED BY <2>1, <2>2, <2>3, <2>4 DEF SessionsAdmitted, WasAdmitted, Allowed, MayRunIn, Unvetted
<1>6. DownIsDurable'
  BY <1>3, <1>4 DEF DownIsDurable
<1> QED BY <1>2, <1>5, <1>6 DEF ServerInv

LEMMA ServerStepKeeps == ServerInv /\ [Next]_vars => ServerInv'
<1> SUFFICES ASSUME ServerInv, [Next]_vars PROVE ServerInv'
  OBVIOUS
<1>i. ProfilesAllowed /\ SessionsAdmitted
  BY DEF ServerInv
<1>1. ASSUME up, NEW w \in Writer, Manages(w) PROVE ServerInv'
  <2>1. UNCHANGED <<loaded, session, up>>
    BY <1>1 DEF Manages, Post, PatchArrives, PatchRead, Delete, StoreActs, Refresh, Refreshed
  <2>2. ProfilesAllowed'
    BY <1>1, <1>i, ManagesStep
  <2> QED BY <1>1, <1>i, <2>1, <2>2
      DEF ServerInv, SessionsAdmitted, WasAdmitted, Allowed, MayRunIn, Unvetted, DownIsDurable
<1>2. ASSUME up, NEW s \in Session, Uses(s) PROVE ServerInv'
  <2>1. UNCHANGED <<loaded, store, mirror, writer, up>>
    BY <1>2 DEF Uses, CreateSession, SubmitJob, ClaimJob, Starts, Turns, SetMode, Rests,
                GoesOnLive, Park, Wake, Retry, EndSession
  <2>2. SessionsAdmitted'
    BY <1>2, <1>i, UsesStep
  <2> QED BY <1>2, <1>i, <2>1, <2>2
      DEF ServerInv, ProfilesAllowed, WritersCarryAllowed, AllAllowed, Allowed, Unvetted,
          DownIsDurable
<1>3. CASE Stop
  BY <1>3, StopStep
<1>4. CASE Listen
  BY <1>4, <1>i DEF Listen, ServerInv, ProfilesAllowed, WritersCarryAllowed, AllAllowed,
                    Allowed, SessionsAdmitted, WasAdmitted, MayRunIn, Unvetted, DownIsDurable
<1>5. CASE UNCHANGED vars
  BY <1>5, <1>i DEF vars, ServerInv, ProfilesAllowed, WritersCarryAllowed, AllAllowed,
                    Allowed, SessionsAdmitted, WasAdmitted, MayRunIn, Unvetted, DownIsDurable
<1> QED BY <1>1, <1>2, <1>3, <1>4, <1>5 DEF Next

(* Whatever is managed, restarted and woken, the server holds, writes and  *)
(* carries only profiles that the policy allows or that it was started     *)
(* with, and sessions it admitted.                                         *)
THEOREM ServerInvHolds == Spec => []ServerInv
BY ServerInit, ServerStepKeeps, PTL DEF Spec

(* With disableBypassPermissions no session runs with permissions bypassed *)
(* but under a profile that bypassed them in the store before the server   *)
(* started, whatever that store held, whatever a PATCH changed while its   *)
(* body was read, a job waited in the queue, or a session was parked       *)
(* (server.ts:489, 607, 666, 1509): refreshStored alone takes profiles in   *)
(* that were not validated (:519).                                          *)
THEOREM NeverBypassedHolds == Spec => []NeverBypassed
<1>1. ServerInv => NeverBypassed
  BY DEF ServerInv, SessionsAdmitted, NeverBypassed, MayRunIn, Live
<1> QED BY <1>1, ServerInvHolds, PTL

-----------------------------------------------------------------------------
(* The mirror, with a store that answers at once.                          *)

(* Who is in line has written and has yet to list, or has listed and has    *)
(* yet to lay its listing over the mirror, and is in line once.            *)
InLine(i) == writer[ready[i]].at

LineInv ==
  /\ ready \in Seq(Writer)
  /\ \A i, j \in 1..Len(ready) : ready[i] = ready[j] => i = j
  /\ \A i \in 1..Len(ready) : InLine(i) \in {"saved", "listed"}
  /\ \A w \in Writer :
       /\ writer[w].at \notin {"saving", "listing"}
       /\ writer[w].at \in {"saved", "listed"} => \E i \in 1..Len(ready) : ready[i] = w

(* A listing is out of date only while one that wrote later is in line      *)
(* behind it: that one will empty the mirror again. With none left, what is *)
(* in the mirror is in the store.                                          *)
Within(profiles, others) ==
  DOMAIN profiles \subseteq DOMAIN others /\ \A n \in DOMAIN profiles : profiles[n] = others[n]

ListedFrom(i) == \A j \in i..Len(ready) : InLine(j) = "listed"

MirrorInv ==
  /\ \A i \in 1..Len(ready) : ListedFrom(i) => writer[ready[i]].listing = store
  /\ up /\ ListedFrom(1) => Within(mirror, store)
  /\ up /\ ready = <<>> => mirror = store

IsStore(profiles) == profiles = [n \in DOMAIN profiles |-> profiles[n]]

PromptInv == ~remote => LineInv /\ MirrorInv /\ IsStore(store)

LEMMA PromptStarts == Init => PromptInv
<1> SUFFICES ASSUME Init PROVE PromptInv
  OBVIOUS
<1>1. LineInv
  BY DEF Init, LineInv, InLine, Waiting
<1>2. MirrorInv
  BY DEF Init, MirrorInv, Within
<1>3. IsStore(store)
  BY ServerAssumption DEF Init, IsStore
<1> QED BY <1>1, <1>2, <1>3 DEF PromptInv

(* A request that is not in line, and does not join it, changes nothing.   *)
LEMMA OffTheLine ==
  ASSUME LineInv, MirrorInv, NEW w \in Writer, NEW entry, DOMAIN writer = Writer,
         writer[w].at \notin {"saved", "listed"},
         entry.at \notin {"saving", "saved", "listing", "listed"},
         writer' = [writer EXCEPT ![w] = entry], UNCHANGED <<store, mirror, ready, up>>
  PROVE  LineInv' /\ MirrorInv'
<1>1. \A i \in 1..Len(ready) : ready[i] \in Writer /\ ready[i] # w
  BY DEF LineInv, InLine
<1>2. \A i \in 1..Len(ready) : writer'[ready[i]] = writer[ready[i]]
  BY <1>1
<1>3. LineInv'
  BY <1>1, <1>2 DEF LineInv, InLine
<1>4. MirrorInv'
  BY <1>1, <1>2 DEF MirrorInv, ListedFrom, InLine, Within
<1> QED BY <1>3, <1>4

(* A write joins the line at its end: every listing is out of date now.    *)
LEMMA JoinsTheLine ==
  ASSUME LineInv, MirrorInv, NEW w \in Writer, NEW entry, DOMAIN writer = Writer,
         writer[w].at \notin {"saved", "listed"}, entry.at = "saved",
         writer' = [writer EXCEPT ![w] = entry],
         ready' = Append(ready, w), UNCHANGED <<mirror, up>>
  PROVE  LineInv' /\ MirrorInv'
<1> DEFINE n == Len(ready)
<1>1. /\ n \in Nat /\ Len(ready') = n + 1 /\ ready' \in Seq(Writer)
      /\ \A i \in 1..n : ready'[i] = ready[i] /\ ready[i] \in Writer /\ ready[i] # w
      /\ ready'[n + 1] = w
  BY DEF LineInv, InLine
<1>2. /\ \A i \in 1..n : writer'[ready'[i]] = writer[ready[i]]
      /\ writer'[ready'[n + 1]] = entry
  BY <1>1
<1>3. LineInv'
  <2>1. \A i, j \in 1..Len(ready') : ready'[i] = ready'[j] => i = j
    BY <1>1 DEF LineInv
  <2>2. \A i \in 1..Len(ready') : InLine(i)' \in {"saved", "listed"}
    BY <1>1, <1>2 DEF LineInv, InLine
  <2>3. ASSUME NEW x \in Writer
        PROVE  /\ writer'[x].at \notin {"saving", "listing"}
               /\ writer'[x].at \in {"saved", "listed"} =>
                    \E i \in 1..Len(ready') : ready'[i] = x
    <3>1. CASE x = w
      BY <1>1, <3>1
    <3>2. CASE x # w
      BY <1>1, <3>2 DEF LineInv
    <3> QED BY <3>1, <3>2
  <2> QED BY <1>1, <2>1, <2>2, <2>3 DEF LineInv
<1>4. \A i \in 1..Len(ready') : ~ListedFrom(i)'
  BY <1>1, <1>2 DEF ListedFrom, InLine
<1>5. ready' # <<>>
  BY <1>1
<1> QED BY <1>1, <1>3, <1>4, <1>5 DEF MirrorInv

(* The first in line lists, and goes to the end of the line with the store *)
(* as it is; the mirror is empty.                                          *)
LEMMA RefreshKeepsLine ==
  ASSUME LineInv, MirrorInv, ~remote, WritersCarryAllowed, NEW w \in Writer, Refresh(w)
  PROVE  LineInv' /\ MirrorInv'
<1> DEFINE n == Len(ready)
           entry == [writer[w] EXCEPT !.at = "listed", !.listing = store]
<1>1. /\ n \in Nat \ {0} /\ ready[1] = w
      /\ ready' \in Seq(Writer) /\ Len(ready') = n
      /\ \A i \in 1..n - 1 : ready'[i] = ready[i + 1] /\ ready[i + 1] \in Writer
      /\ ready'[n] = w
  <2>1. /\ ready \in Seq(Writer) /\ ready # <<>> /\ ready[1] = w
        /\ ready' = Append(Tail(ready), w)
    BY DEF Refresh, GoesOn, LineInv
  <2>2. /\ n \in Nat \ {0} /\ Tail(ready) \in Seq(Writer) /\ Len(Tail(ready)) = n - 1
        /\ \A i \in 1..n - 1 : Tail(ready)[i] = ready[i + 1] /\ ready[i + 1] \in Writer
    BY <2>1
  <2> QED BY <2>1, <2>2
<1>2. \A i \in 1..n - 1 : ready[i + 1] # w
  <2>1. \A i, j \in 1..n : ready[i] = ready[j] => i = j
    BY DEF LineInv
  <2>2. n \in Nat /\ 1 \in 1..n /\ ready[1] = w
    BY <1>1
  <2> HIDE DEF n
  <2>3. \A i \in 1..n - 1 : i + 1 \in 1..n /\ i + 1 # 1
    BY <2>2
  <2> QED BY <2>1, <2>2, <2>3
<1>3. /\ writer' = [writer EXCEPT ![w] = entry] /\ DOMAIN writer = Writer
      /\ entry.at = "listed" /\ entry.listing = store
  BY DEF Refresh, WritersCarryAllowed, WriterShape
<1> HIDE DEF entry
<1>4. /\ \A i \in 1..n - 1 : writer'[ready'[i]] = writer[ready[i + 1]]
      /\ writer'[ready'[n]] = entry
  BY <1>1, <1>2, <1>3
<1>5. LineInv'
  <2>1. \A i, j \in 1..n : ready'[i] = ready'[j] => i = j
    <3> SUFFICES ASSUME NEW i \in 1..n, NEW j \in 1..n, ready'[i] = ready'[j] PROVE i = j
      OBVIOUS
    <3>1. CASE i = n \/ j = n
      BY <1>1, <1>2, <3>1
    <3>2. CASE i # n /\ j # n
      <4>1. ready[i + 1] = ready[j + 1] /\ i + 1 \in 1..n /\ j + 1 \in 1..n
        BY <1>1, <3>2
      <4> QED BY <4>1 DEF LineInv
    <3> QED BY <3>1, <3>2
  <2>2. \A i \in 1..n : InLine(i)' \in {"saved", "listed"}
    <3> SUFFICES ASSUME NEW i \in 1..n PROVE InLine(i)' \in {"saved", "listed"}
      OBVIOUS
    <3>1. CASE i = n
      BY <1>3, <1>4, <3>1 DEF InLine
    <3>2. CASE i # n
      BY <1>1, <1>4, <3>2 DEF InLine, LineInv
    <3> QED BY <3>1, <3>2
  <2>3. ASSUME NEW x \in Writer
        PROVE  /\ writer'[x].at \notin {"saving", "listing"}
               /\ writer'[x].at \in {"saved", "listed"} => \E i \in 1..n : ready'[i] = x
    <3>1. CASE x = w
      BY <1>1, <1>3, <3>1
    <3>2. CASE x # w
      <4>1. writer'[x] = writer[x]
        BY <1>3, <3>2
      <4>2. ASSUME writer[x].at \in {"saved", "listed"} PROVE \E i \in 1..n : ready'[i] = x
        <5>1. PICK i \in 1..n : ready[i] = x
          BY <4>2 DEF LineInv
        <5>2. i - 1 \in 1..n - 1 /\ ready'[i - 1] = x
          BY <1>1, <3>2, <5>1
        <5> QED BY <1>1, <5>2
      <4> QED BY <4>1, <4>2 DEF LineInv
    <3> QED BY <3>1, <3>2
  <2> QED BY <1>1, <2>1, <2>2, <2>3 DEF LineInv
<1>6. ASSUME NEW i \in 1..n, ListedFrom(i)'
      PROVE  writer'[ready'[i]].listing = store
  <2>1. CASE i = n
    BY <1>3, <1>4, <2>1
  <2>2. CASE i # n
    <3>1. i + 1 \in 1..n /\ writer'[ready'[i]] = writer[ready[i + 1]]
      BY <1>1, <1>4, <2>2
    <3>2. ASSUME NEW j \in i + 1..n PROVE writer[ready[j]].at = "listed"
      <4>1. j - 1 \in 1..n - 1 /\ j - 1 \in i..n
        BY <1>1, <3>2
      <4>2. writer'[ready'[j - 1]].at = "listed"
        BY <1>1, <1>6, <4>1 DEF ListedFrom, InLine
      <4> QED BY <1>1, <1>4, <4>1, <4>2
    <3> QED BY <3>1, <3>2 DEF MirrorInv, ListedFrom, InLine
  <2> QED BY <2>1, <2>2
<1>7. UNCHANGED store /\ Within(mirror', store) /\ ready' # <<>>
  BY <1>1 DEF Refresh, Within, Empty
<1> QED BY <1>1, <1>5, <1>6, <1>7 DEF MirrorInv, Within

(* The first in line lays its listing over the mirror and leaves: when none *)
(* behind it is to empty the mirror again, both were parts of the store.   *)
LEMMA OverStore ==
  ASSUME NEW profiles, NEW others, IsStore(others), Within(profiles, others)
  PROVE  Over(others, profiles) = others
BY DEF IsStore, Within, Over

LEMMA RefreshedKeepsLine ==
  ASSUME LineInv, MirrorInv, IsStore(store), ~remote, WritersCarryAllowed,
         NEW w \in Writer, Refreshed(w)
  PROVE  LineInv' /\ MirrorInv'
<1> DEFINE n == Len(ready)
<1>1. /\ n \in Nat \ {0} /\ ready[1] = w
      /\ ready' \in Seq(Writer) /\ Len(ready') = n - 1
      /\ \A i \in 1..n - 1 : ready'[i] = ready[i + 1] /\ ready[i + 1] \in Writer
  BY DEF Refreshed, GoesOn, LineInv
<1>2. \A i \in 1..n - 1 : ready[i + 1] # w
  <2>1. \A i, j \in 1..n : ready[i] = ready[j] => i = j
    BY DEF LineInv
  <2>2. n \in Nat /\ 1 \in 1..n /\ ready[1] = w
    BY <1>1
  <2> HIDE DEF n
  <2>3. \A i \in 1..n - 1 : i + 1 \in 1..n /\ i + 1 # 1
    BY <2>2
  <2> QED BY <2>1, <2>2, <2>3
<1>3. /\ writer' = [writer EXCEPT ![w] = Answered] /\ DOMAIN writer = Writer
      /\ Answered.at = "answered" /\ UNCHANGED <<store, up>>
  BY DEF Refreshed, WritersCarryAllowed, Answered, Waiting
<1>4. \A i \in 1..n - 1 : writer'[ready'[i]] = writer[ready[i + 1]]
  BY <1>1, <1>2, <1>3
<1>5. LineInv'
  <2>1. \A i, j \in 1..n - 1 : ready'[i] = ready'[j] => i = j
    <3> SUFFICES ASSUME NEW i \in 1..n - 1, NEW j \in 1..n - 1, ready'[i] = ready'[j]
                 PROVE  i = j
      OBVIOUS
    <3>1. ready[i + 1] = ready[j + 1] /\ i + 1 \in 1..n /\ j + 1 \in 1..n
      BY <1>1
    <3> QED BY <3>1 DEF LineInv
  <2>2. \A i \in 1..n - 1 : InLine(i)' \in {"saved", "listed"}
    BY <1>1, <1>4 DEF InLine, LineInv
  <2>3. ASSUME NEW x \in Writer
        PROVE  /\ writer'[x].at \notin {"saving", "listing"}
               /\ writer'[x].at \in {"saved", "listed"} => \E i \in 1..n - 1 : ready'[i] = x
    <3>1. CASE x = w
      BY <1>3, <3>1
    <3>2. CASE x # w
      <4>1. writer'[x] = writer[x]
        BY <1>3, <3>2
      <4>2. ASSUME writer[x].at \in {"saved", "listed"} PROVE \E i \in 1..n - 1 : ready'[i] = x
        <5>1. PICK i \in 1..n : ready[i] = x
          BY <4>2 DEF LineInv
        <5>2. i - 1 \in 1..n - 1 /\ ready'[i - 1] = x
          BY <1>1, <3>2, <5>1
        <5> QED BY <5>2
      <4> QED BY <4>1, <4>2 DEF LineInv
    <3> QED BY <3>1, <3>2
  <2> QED BY <1>1, <2>1, <2>2, <2>3 DEF LineInv
<1>6. ASSUME NEW i \in 1..n - 1, ListedFrom(i)'
      PROVE  writer'[ready'[i]].listing = store /\ ListedFrom(i + 1)
  <2>1. i + 1 \in 1..n /\ writer'[ready'[i]] = writer[ready[i + 1]]
    BY <1>1, <1>4, <1>6
  <2>2. ASSUME NEW j \in i + 1..n PROVE writer[ready[j]].at = "listed"
    <3>1. j - 1 \in 1..n - 1 /\ j - 1 \in i..n - 1
      BY <1>1, <2>2
    <3>2. writer'[ready'[j - 1]].at = "listed"
      BY <1>1, <1>6, <3>1 DEF ListedFrom, InLine
    <3>3. writer'[ready'[j - 1]] = writer[ready[(j - 1) + 1]] /\ (j - 1) + 1 = j
      BY <1>1, <1>4, <2>2, <3>1
    <3> QED BY <3>2, <3>3
  <2> QED BY <2>1, <2>2 DEF MirrorInv, ListedFrom, InLine
<1>7. ASSUME up, ListedFrom(1)' PROVE mirror' = store
  <2>1. ListedFrom(2)
    BY <1>1, <1>6, <1>7 DEF ListedFrom
  <2>2. writer[ready[1]].at = "listed"
    BY <1>1 DEF Refreshed
  <2>3. ListedFrom(1)
    BY <1>1, <2>1, <2>2 DEF ListedFrom, InLine
  <2>4. writer[w].listing = store /\ Within(mirror, store)
    BY <1>1, <1>7, <2>3 DEF MirrorInv
  <2>5. mirror' = Over(writer[w].listing, mirror)
    BY DEF Refreshed
  <2> QED BY <2>4, <2>5, OverStore
<1>8. ready' = <<>> => ListedFrom(1)'
  <2>1. ready' = <<>> => Len(ready') = 0
    OBVIOUS
  <2> QED BY <2>1 DEF ListedFrom
<1> QED BY <1>1, <1>3, <1>5, <1>6, <1>7, <1>8 DEF MirrorInv, Within

LEMMA ManagesKeepsLine ==
  ASSUME LineInv, MirrorInv, IsStore(store), ~remote, WritersCarryAllowed,
         NEW w \in Writer, Manages(w)
  PROVE  LineInv' /\ MirrorInv' /\ IsStore(store')
<1>d. DOMAIN writer = Writer
  BY DEF WritersCarryAllowed
<1>1. ASSUME Refuses(w), writer[w].at \notin {"saved", "listed"}, UNCHANGED <<mirror, up>>
      PROVE  LineInv' /\ MirrorInv' /\ IsStore(store')
  <2>1. Answered.at = "answered"
    BY DEF Answered, Waiting
  <2> QED BY <1>d, <1>1, <2>1, OffTheLine DEF Refuses
<1>2. ASSUME NEW name, NEW profile, Writes(w, name, profile),
             writer[w].at \notin {"saved", "listed"}, UNCHANGED <<mirror, up>>
      PROVE  LineInv' /\ MirrorInv' /\ IsStore(store')
  <2> DEFINE entry == [Waiting EXCEPT !.at = "saved", !.name = name, !.profile = profile]
  <2>1. entry.at = "saved"
    BY DEF Waiting
  <2>2. writer' = [writer EXCEPT ![w] = entry] /\ ready' = Append(ready, w)
    BY <1>2 DEF Writes
  <2>3. IsStore(store')
    BY <1>2 DEF Writes, IsStore, With, Without
  <2> HIDE DEF entry
  <2> QED BY <1>d, <1>2, <2>1, <2>2, <2>3, JoinsTheLine
<1>3. ASSUME NEW name, NEW profile, Saves(w, name, profile),
             writer[w].at \notin {"saved", "listed"}, UNCHANGED <<mirror, up>>
      PROVE  LineInv' /\ MirrorInv' /\ IsStore(store')
  BY <1>1, <1>2, <1>3 DEF Saves
<1>4. ASSUME NEW n \in Name, NEW p \in NewProfiles, Post(w, n, p)
      PROVE  LineInv' /\ MirrorInv' /\ IsStore(store')
  BY <1>1, <1>3, <1>4 DEF Post
<1>5. ASSUME NEW n \in Name, PatchArrives(w, n)
      PROVE  LineInv' /\ MirrorInv' /\ IsStore(store')
  <2> DEFINE entry == [Waiting EXCEPT !.at = "body", !.name = n,
                                      !.profile = ProfileFor(mirror, n)]
  <2>1. entry.at = "body"
    BY DEF Waiting
  <2>2. \/ Refuses(w)
        \/ writer' = [writer EXCEPT ![w] = entry] /\ UNCHANGED <<store, ready>>
    BY <1>5 DEF PatchArrives
  <2>3. writer[w].at = "waiting" /\ UNCHANGED <<mirror, up>>
    BY <1>5 DEF PatchArrives
  <2> HIDE DEF entry
  <2> QED BY <1>d, <1>1, <2>1, <2>2, <2>3, OffTheLine
<1>6. ASSUME NEW p \in Patches, PatchRead(w, p)
      PROVE  LineInv' /\ MirrorInv' /\ IsStore(store')
  BY <1>3, <1>6 DEF PatchRead
<1>7. ASSUME NEW n \in Name, Delete(w, n)
      PROVE  LineInv' /\ MirrorInv' /\ IsStore(store')
  BY <1>1, <1>2, <1>7 DEF Delete
<1>8. ~StoreActs(w)
  BY DEF StoreActs, LineInv
<1>9. CASE Refresh(w)
  BY <1>9, RefreshKeepsLine DEF Refresh
<1>10. CASE Refreshed(w)
  BY <1>10, RefreshedKeepsLine DEF Refreshed
<1> QED BY <1>4, <1>5, <1>6, <1>7, <1>8, <1>9, <1>10 DEF Manages

LEMMA PromptStep == ServerInv /\ PromptInv /\ [Next]_vars => PromptInv'
<1> SUFFICES ASSUME ServerInv, PromptInv, [Next]_vars, ~remote' PROVE PromptInv'
  BY DEF PromptInv
<1>0. UNCHANGED remote
  BY DEF Next, vars, Stop, Listen, Manages, Post, PatchArrives, PatchRead, Delete, StoreActs,
         Refresh, Refreshed, Uses, CreateSession, SubmitJob, ClaimJob, Starts, Turns, SetMode,
         Rests, GoesOnLive, Park, Wake, Retry, EndSession
<1>i. LineInv /\ MirrorInv /\ IsStore(store) /\ ~remote /\ WritersCarryAllowed
  BY <1>0 DEF PromptInv, ServerInv, ProfilesAllowed
<1>1. ASSUME NEW w \in Writer, Manages(w) PROVE PromptInv'
  BY <1>i, <1>1, ManagesKeepsLine DEF PromptInv, IsStore
<1>2. CASE UNCHANGED <<store, mirror, writer, ready, up>>
  BY <1>i, <1>2 DEF PromptInv, LineInv, MirrorInv, ListedFrom, InLine, Within, IsStore
<1>3. ASSUME NEW s \in Session, Uses(s) PROVE PromptInv'
  <2>1. UNCHANGED <<store, mirror, writer, ready, up>>
    BY <1>3 DEF Uses, CreateSession, SubmitJob, ClaimJob, Starts, Turns, SetMode, Rests,
                GoesOnLive, Park, Wake, Retry, EndSession
  <2> QED BY <1>2, <2>1
<1>4. CASE Stop
  <2>1. \A w \in Writer : writer'[w].at \in {"waiting", "answered"}
    BY <1>4 DEF Stop, Waiting, Answered
  <2>2. << >> \in Seq(Writer) /\ Len(<< >>) = 0 /\ 1..0 = {}
    OBVIOUS
  <2>3. ready' = << >> /\ ~up'
    BY <1>4 DEF Stop
  <2>4. LineInv'
    BY <2>1, <2>2, <2>3 DEF LineInv
  <2>5. MirrorInv'
    BY <2>2, <2>3 DEF MirrorInv
  <2> QED BY <1>4, <1>i, <2>4, <2>5 DEF Stop, PromptInv, IsStore
<1>5. CASE Listen
  <2>1. LineInv'
    BY <1>5, <1>i DEF Listen, LineInv, InLine
  <2>2. MirrorInv'
    BY <1>5, <1>i DEF Listen, MirrorInv, ListedFrom, InLine, Within
  <2> QED BY <1>5, <1>i, <2>1, <2>2 DEF Listen, PromptInv, IsStore
<1> QED BY <1>1, <1>2, <1>3, <1>4, <1>5 DEF Next, vars

(* Over any number of management requests that overlap and over restarts:   *)
(* when the store answers at once, the mirror is the store again whenever   *)
(* no request is under way, although every refresh empties it before it     *)
(* awaits the listing (server.ts:515).                                      *)
THEOREM MirrorTellsHolds == Spec => []MirrorTells
<1>1. PromptInv => MirrorTells
  <2> SUFFICES ASSUME PromptInv, up, ~remote, \A w \in Writer : ~Outstanding(w)
               PROVE  mirror = store
    BY DEF MirrorTells
  <2>1. LineInv /\ MirrorInv
    BY DEF PromptInv
  <2>2. ~(1 \in 1..Len(ready))
    BY <2>1 DEF LineInv, InLine, Outstanding
  <2>3. ready = <<>>
    BY <2>1, <2>2 DEF LineInv
  <2> QED BY <2>1, <2>3 DEF MirrorInv
<1> QED BY <1>1, PromptStarts, PromptStep, ServerInvHolds, PTL DEF Spec

-----------------------------------------------------------------------------
(* The guard.                                                              *)

(* What has stayed in one state since the look began is something that a   *)
(* restart would lose, and is found by the reading that covers its state:  *)
(* the registry when the look begins, the parked records when it is listed, *)
(* the queue when it is counted.                                           *)
SteadyCosts ==
  Looking => \A s \in steady : s \in Session /\ Costs(s) /\ ~PassedOver(s)

FoundByNow ==
  ~reasons =>
    /\ Looking => \A s \in steady :
         session[s].at # "busy" /\ (s \in Resting => session[s].job)
    /\ guard \in {"listed", "counting"} => \A s \in steady : s \notin Parked
    /\ guard = "counting" => \A s \in steady : s \notin Queued

GuardInv == reasons \in BOOLEAN /\ SteadyCosts /\ FoundByNow /\ SafeSeesTheSteady

LEMMA GuardStarts == GuardInit => GuardInv
BY DEF GuardInit, GuardInv, SteadyCosts, FoundByNow, SafeSeesTheSteady, Looking, Answering

(* A look that finds nothing has nothing steady left.                      *)
LEMMA FoundAll ==
  ASSUME SteadyCosts, FoundByNow, ~reasons, Runs = {}, guard = "counting"
  PROVE  steady = {}
BY DEF SteadyCosts, FoundByNow, Looking, Answering, Costs, PassedOver, Resting, Runs, Live

(* Neither has one whose server is gone when the queue is to be counted.   *)
LEMMA FoundAllDown ==
  ASSUME DownIsDurable, SteadyCosts, FoundByNow, ~reasons, guard = "listed", ~up
  PROVE  steady = {}
BY DEF DownIsDurable, SteadyCosts, FoundByNow, Looking, Answering, Costs, PassedOver, Resting,
       Parked, Queued

LEMMA ConcludesStep ==
  ASSUME reasons \in BOOLEAN, NEW found \in BOOLEAN, ~found => steady = {}, Concludes(found)
  PROVE  GuardInv'
BY DEF Concludes, Forgets, GuardInv, SteadyCosts, FoundByNow, SafeSeesTheSteady, Looking,
       Answering

LEMMA GuardStepKeeps ==
  ASSUME GuardInv, DownIsDurable, GuardStep
  PROVE  GuardInv'
<1>i. reasons \in BOOLEAN /\ SteadyCosts /\ FoundByNow
  BY DEF GuardInv
<1>1. CASE Look
  BY <1>1 DEF Look, vars, GuardInv, SteadyCosts, FoundByNow, SafeSeesTheSteady, Looking,
              Answering, Costs, PassedOver, Resting, Parked, Queued
<1>2. CASE Listed
  BY <1>2, <1>i DEF Listed, vars, GuardInv, SteadyCosts, FoundByNow, SafeSeesTheSteady,
                    Looking, Answering, Costs, PassedOver, Resting, Parked, Queued
<1>3. CASE Count
  <2>1. CASE up
    BY <1>3, <1>i, <2>1 DEF Count, vars, GuardInv, SteadyCosts, FoundByNow,
                            SafeSeesTheSteady, Looking, Answering, Costs, PassedOver,
                            Resting, Parked, Queued
  <2>2. CASE ~up
    BY <1>3, <1>i, <2>2, FoundAllDown, ConcludesStep DEF Count
  <2> QED BY <2>1, <2>2
<1>4. CASE Counted
  BY <1>4, <1>i, FoundAll, ConcludesStep DEF Counted
<1>5. CASE RequestFails
  BY <1>5 DEF RequestFails, Forgets, GuardInv, SteadyCosts, FoundByNow, SafeSeesTheSteady,
              Looking, Answering
<1> QED BY <1>1, <1>2, <1>3, <1>4, <1>5 DEF GuardStep

(* A session that stays at rest stays what it is, a job's or not.          *)
LEMMA RestKeepsJob ==
  ASSUME SessionsAdmitted, Next, NEW s \in Session,
         session[s].at = "resting", session'[s].at = "resting"
  PROVE  session'[s].job = session[s].job
<1>d. DOMAIN session = Session /\ DOMAIN session[s] = SessionShape
  BY DEF SessionsAdmitted
<1>1. CASE UNCHANGED session
  BY <1>1
<1>2. ASSUME NEW t \in Session, Uses(t) PROVE session'[s].job = session[s].job
  <2>1. CASE t # s
    <3>1. \E entry : session' = [session EXCEPT ![t] = entry]
      BY <1>2 DEF Uses, CreateSession, SubmitJob, ClaimJob, Builds, Ends, Starts, Turns, SetMode,
                  Rests, GoesOnLive, Park, Wake, Retry, EndSession
    <3> QED BY <1>d, <2>1, <3>1
  <2>2. CASE t = s
    <3>1. \/ \E m \in Mode : SetMode(s, m)
          \/ GoesOnLive(s) \/ Park(s) \/ Retry(s) \/ EndSession(s)
      BY <1>2, <2>2 DEF Uses, CreateSession, SubmitJob, ClaimJob, Starts, Turns, Rests, Wake
    <3>2. ~(GoesOnLive(s) \/ Park(s) \/ Retry(s) \/ EndSession(s))
      BY <1>d DEF GoesOnLive, Park, Retry, EndSession, Ends, Absent, SessionShape
    <3>3. PICK m \in Mode : SetMode(s, m)
      BY <3>1, <3>2
    <3> QED BY <1>d, <3>3 DEF SetMode, SessionShape
  <2> QED BY <2>1, <2>2
<1>3. CASE Stop
  BY <1>3 DEF Stop, Absent
<1>4. Next => UNCHANGED session \/ (\E t \in Session : Uses(t)) \/ Stop
  BY DEF Next, Manages, Post, PatchArrives, PatchRead, Delete, StoreActs, Refresh, Refreshed,
         Listen
<1> QED BY <1>1, <1>2, <1>3, <1>4

(* The server may do what it likes: what is steady has not moved.          *)
LEMMA ServerStepKeepsGuard ==
  ASSUME GuardInv, SessionsAdmitted, ServerStep
  PROVE  GuardInv'
<1>1. CASE guard' = "unknown" /\ Forgets
  BY <1>1 DEF Forgets, GuardInv, SteadyCosts, FoundByNow, SafeSeesTheSteady, Looking,
              Answering
<1>2. CASE Looking /\ UNCHANGED <<guard, reasons>>
  <2>1. /\ steady' \subseteq steady
        /\ \A s \in steady' : Costs(s)' /\ session'[s].at = session[s].at
    BY <1>2 DEF ServerStep, Looking, Answering
  <2>2. ASSUME NEW s \in steady'
        PROVE  /\ s \in Session /\ Costs(s)' /\ session'[s].at = session[s].at
               /\ session[s].at = "resting" => session'[s].job = session[s].job
    BY <1>2, <2>1, RestKeepsJob DEF ServerStep, GuardInv, SteadyCosts
  <2>3. SteadyCosts'
    BY <1>2, <2>1, <2>2 DEF ServerStep, GuardInv, SteadyCosts, Looking, Answering, PassedOver,
                            Resting
  <2>4. FoundByNow'
    BY <1>2, <2>1, <2>2 DEF GuardInv, FoundByNow, Looking, Answering, Resting, Parked, Queued
  <2>5. SafeSeesTheSteady'
    BY <1>2 DEF Looking, Answering, SafeSeesTheSteady
  <2> QED BY <1>2, <2>3, <2>4, <2>5 DEF GuardInv
<1>3. CASE ~Looking /\ UNCHANGED <<guard, reasons, steady>>
  BY <1>3 DEF GuardInv, SteadyCosts, FoundByNow, SafeSeesTheSteady, Looking, Answering
<1> QED BY <1>1, <1>2, <1>3 DEF ServerStep

LEMMA GuardNextKeeps ==
  GuardInv /\ ServerInv /\ [GuardNext]_<<vars, guardVars>> => GuardInv'
<1>1. GuardInv /\ UNCHANGED <<vars, guardVars>> => GuardInv'
  BY DEF vars, guardVars, GuardInv, SteadyCosts, FoundByNow, SafeSeesTheSteady, Looking,
         Answering, Costs, PassedOver, Resting, Parked, Queued
<1> QED BY <1>1, GuardStepKeeps, ServerStepKeepsGuard DEF GuardNext, ServerInv

(* Looking disturbs nothing: beside a guard the server is a server.        *)
THEOREM GuardedServer == GuardSpec => Spec
<1>1. GuardInit => Init
  BY DEF GuardInit
<1>2. [GuardNext]_<<vars, guardVars>> => [Next]_vars
  <2>1. GuardStep => UNCHANGED vars
    BY DEF GuardStep, Look, Listed, Count, Counted, RequestFails
  <2>2. ServerStep => Next
    BY DEF ServerStep
  <2> QED BY <2>1, <2>2 DEF GuardNext
<1> QED BY <1>1, <1>2, PTL DEF GuardSpec, Spec

(* Safe is never said while something a restart would lose stayed in one   *)
(* and the same state from before the look to its end, however the four    *)
(* readings of the look fall among what the server does, also when it      *)
(* stops and listens again in between (inspect, guard.ts:141): with        *)
(* --allow-parked, all but a session at rest that a client keeps live, and  *)
(* that is no job's.                                                        *)
THEOREM SafeSeesTheSteadyHolds == GuardSpec => []SafeSeesTheSteady
<1>1. GuardInv => SafeSeesTheSteady
  BY DEF GuardInv
<1> QED BY <1>1, GuardStarts, GuardNextKeeps, GuardedServer, ServerInvHolds, PTL
    DEF GuardSpec

(* What holds of the server holds beside its guard as well, which is what  *)
(* the run of the two together checks.                                     *)
COROLLARY NeverBypassedGuarded == GuardSpec => []NeverBypassed
BY GuardedServer, NeverBypassedHolds, PTL

COROLLARY MirrorTellsGuarded == GuardSpec => []MirrorTells
BY GuardedServer, MirrorTellsHolds, PTL
=============================================================================
