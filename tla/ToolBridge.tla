----------------------------- MODULE ToolBridge -----------------------------
(***************************************************************************)
(* Tool calls of one session executed in the browser tabs attached to it:  *)
(* the runner that waits for them (core/src/ai-sdk-runner.ts), the         *)
(* executor with its table of pending requests (browser-bridge-executor.ts *)
(* and pending-registry.ts), the hub that knows the attached tabs          *)
(* (server/src/bridge.ts) and the host that runs a call in a tab           *)
(* (react/src/tool-host.ts, sandbox/src/run-script.ts).                    *)
(*                                                                         *)
(* A connection that breaks loses what is on the wire; the server keeps it *)
(* among the session's sockets until it notices, and what it sends there   *)
(* is lost too.  An answer a tab gives while it is not connected waits in  *)
(* its handle's outbox.                                                    *)
(*                                                                         *)
(* A definition that directly precedes the one it resembles is a faulty    *)
(* variant of it, used to show that a check can fail.                      *)
(***************************************************************************)
EXTENDS Naturals, SequencesExt, FiniteSetsExt

CONSTANTS
  Call,      \* the tool calls the session's model may make, each once
  Tab,       \* clients that may attach
  Executes,  \* pairs <<tab, call>> of a tab whose page runs the call's tool
  MaxBreaks, \* bound: connections that break
  MaxMounts  \* bound: times a page sets its host up again

ASSUME BridgeAssumption ==
  /\ IsFiniteSet(Call) /\ IsFiniteSet(Tab)
  /\ Executes \subseteq Tab \X Call
  /\ MaxBreaks \in Nat /\ MaxMounts \in Nat

VARIABLES
  life,     \* the session: "open", "closed" by a client, "deleted"
  awaited,  \* #pendingToolCalls of the runner
  outcome,  \* what each call came to, "none" before
  waiting,  \* #slots of the registry, each with its timer
  early,    \* #early: answers to calls the registry does not know
  sockets,  \* the hub's sockets in the order they attached
  linked,   \* tabs with a connection
  down,     \* frames on their way to each tab
  up,       \* answers on their way from each tab
  outbox,   \* answers of a tab that is not connected
  hosts,    \* tabs whose page has a tool host
  inFlight, \* the calls each host runs
  ran,      \* the tabs that began to run a call, one entry for each time
  missed,   \* pairs <<tab, call>>: the cancellation of the call did not reach the tab
  breaks, mounts

session == <<life, awaited, outcome>>
registry == <<waiting, early>>
wire == <<sockets, linked, down, up, outbox>>
pages == <<hosts, inFlight, ran>>
vars == <<session, registry, wire, pages, missed, breaks, mounts>>

Outcome == {"none", "client", "timeout", "no_client", "interrupted"}
Used == {c \in Call : outcome[c] # "none"} \cup awaited

Frame == [type : {"request", "cancel"}, id : Call]
Request(c) == [type |-> "request", id |-> c]
Cancel(c) == [type |-> "cancel", id |-> c]

Init ==
  /\ life = "open" /\ awaited = {} /\ outcome = [c \in Call |-> "none"]
  /\ waiting = {} /\ early = {}
  /\ sockets = <<>> /\ linked = {}
  /\ down = [t \in Tab |-> <<>>] /\ up = [t \in Tab |-> <<>>] /\ outbox = [t \in Tab |-> <<>>]
  /\ hosts = {} /\ inFlight = [t \in Tab |-> {}] /\ ran = [c \in Call |-> <<>>]
  /\ missed = {} /\ breaks = 0 /\ mounts = 0

-----------------------------------------------------------------------------
(* The server.                                                             *)

\* Tabs a frame to every socket reaches; a dead socket swallows it.
Reached == {s.tab : s \in {x \in ToSet(sockets) : x.alive}}

\* The registry settles calls: each leaves the table, and the runner, if it still
\* waits, is told.  resolve and the runner ignore an id they do not know.
Settle(calls, how) ==
  /\ waiting' = waiting \ calls
  /\ awaited' = awaited \ calls
  /\ outcome' = [c \in Call |-> IF c \in calls \cap awaited THEN how ELSE outcome[c]]

\* A call that was not settled by a tab is cancelled in all of them.
CancelEverywhere(calls) ==
  /\ down' = [t \in Tab |-> IF t \in Reached
                            THEN down[t] \o [i \in 1..Cardinality(calls) |-> Cancel(SetToSeq(calls)[i])]
                            ELSE down[t]]
  /\ missed' = missed \cup ((Tab \ Reached) \X calls)

\* The model's turn comes to rest on calls it makes in one batch: #dispatchPending
\* hands each to the bridge, which enters it in the registry and asks the tab that
\* attached first.  With no socket it fails at once; an answer held early settles it.
Dispatch(calls) ==
  /\ life = "open" /\ awaited = {} /\ calls # {} /\ calls \subseteq Call \ Used
  /\ IF sockets = <<>>
     THEN /\ outcome' = [c \in Call |-> IF c \in calls THEN "no_client" ELSE outcome[c]]
          /\ UNCHANGED <<awaited, registry, down>>
     ELSE /\ awaited' = calls \ early
          /\ waiting' = waiting \cup (calls \ early)
          /\ outcome' = [c \in Call |-> IF c \in calls \cap early THEN "client" ELSE outcome[c]]
          /\ early' = early \ calls
          /\ down' = IF Head(sockets).alive
                     THEN [down EXCEPT ![Head(sockets).tab] =
                             @ \o [i \in 1..Cardinality(calls) |-> Request(SetToSeq(calls)[i])]]
                     ELSE down
  /\ UNCHANGED <<life, sockets, linked, up, outbox, pages, missed, breaks, mounts>>

\* tool_call_result or tool_call_error arrives: handleCommand, BridgeHub.resolve,
\* BrowserBridgeExecutor.resolve.  The bridge of a deleted session is gone; an answer
\* to an unknown call is held for a while.
AnswerArrives(t) ==
  /\ up[t] # <<>>
  /\ up' = [up EXCEPT ![t] = Tail(@)]
  /\ LET c == Head(up[t]) IN
       IF life = "deleted" THEN UNCHANGED <<session, registry>>
       ELSE IF c \in waiting THEN Settle({c}, "client") /\ UNCHANGED <<life, early>>
       ELSE early' = early \cup {c} /\ UNCHANGED <<session, waiting>>
  /\ UNCHANGED <<sockets, linked, down, outbox, pages, missed, breaks, mounts>>

EarlyExpires(c) ==
  /\ c \in early
  /\ early' = early \ {c}
  /\ UNCHANGED <<session, waiting, wire, pages, missed, breaks, mounts>>

TimeoutTellsTabsOnly(c) ==
  /\ c \in waiting
  /\ waiting' = waiting \ {c}
  /\ CancelEverywhere({c})
  /\ UNCHANGED <<session, early, sockets, linked, up, outbox, pages, breaks, mounts>>
\* The slot's timer: the call fails, the tabs are told to abandon it.
Timeout(c) ==
  /\ c \in waiting
  /\ Settle({c}, "timeout")
  /\ CancelEverywhere({c})
  /\ UNCHANGED <<life, early, sockets, linked, up, outbox, pages, breaks, mounts>>

\* interrupt of a turn at rest: the calls are failed in the runner's history.  The
\* turn's abort controller is gone by now, so the registry does not hear of it.
Interrupt ==
  /\ life = "open" /\ awaited # {}
  /\ awaited' = {}
  /\ outcome' = [c \in Call |-> IF c \in awaited THEN "interrupted" ELSE outcome[c]]
  /\ UNCHANGED <<life, registry, wire, pages, missed, breaks, mounts>>

\* The close frame: the runner drops its calls, again without the registry.
Close ==
  /\ life = "open"
  /\ life' = "closed" /\ awaited' = {}
  /\ outcome' = [c \in Call |-> IF c \in awaited THEN "interrupted" ELSE outcome[c]]
  /\ UNCHANGED <<registry, wire, pages, missed, breaks, mounts>>

\* DELETE: the runner goes first, then the hub drops the session's bridge and fails
\* what is in flight.
Delete ==
  /\ life # "deleted"
  /\ life' = "deleted" /\ awaited' = {} /\ waiting' = {} /\ sockets' = <<>>
  /\ outcome' = [c \in Call |-> IF c \in awaited THEN "interrupted" ELSE outcome[c]]
  /\ CancelEverywhere(waiting)
  /\ UNCHANGED <<early, linked, up, outbox, pages, breaks, mounts>>

-----------------------------------------------------------------------------
(* Connections and tabs.                                                   *)

AttachAskingAgain(t) ==
  /\ t \notin linked /\ life # "deleted"
  /\ linked' = linked \cup {t}
  /\ sockets' = Append(sockets, [tab |-> t, alive |-> TRUE])
  /\ down' = [down EXCEPT ![t] =
                @ \o [i \in 1..Cardinality(waiting) |-> Request(SetToSeq(waiting)[i])]]
  /\ up' = [up EXCEPT ![t] = outbox[t]]
  /\ outbox' = [outbox EXCEPT ![t] = <<>>]
  /\ UNCHANGED <<session, registry, pages, missed, breaks, mounts>>
Attach(t) ==
  /\ t \notin linked /\ life # "deleted"
  /\ linked' = linked \cup {t}
  /\ sockets' = Append(sockets, [tab |-> t, alive |-> TRUE])
  /\ up' = [up EXCEPT ![t] = outbox[t]]
  /\ outbox' = [outbox EXCEPT ![t] = <<>>]
  /\ UNCHANGED <<session, registry, down, pages, missed, breaks, mounts>>

Break(t) ==
  /\ t \in linked /\ breaks < MaxBreaks
  /\ breaks' = breaks + 1
  /\ linked' = linked \ {t}
  /\ sockets' = [i \in DOMAIN sockets |->
                   IF sockets[i].tab = t THEN [sockets[i] EXCEPT !.alive = FALSE] ELSE sockets[i]]
  /\ missed' = missed \cup {<<t, f.id>> : f \in {x \in ToSet(down[t]) : x.type = "cancel"}}
  /\ down' = [down EXCEPT ![t] = <<>>] /\ up' = [up EXCEPT ![t] = <<>>]
  /\ UNCHANGED <<session, registry, outbox, pages, mounts>>

\* 'close' of a dead socket.
Notice ==
  /\ \E s \in ToSet(sockets) : ~s.alive
  /\ sockets' = SelectSeq(sockets, LAMBDA s : s.alive)
  /\ UNCHANGED <<session, registry, linked, down, up, outbox, pages, missed, breaks, mounts>>

\* createToolCallHost, and its dispose: what it runs is abandoned, unanswered.
SetUp(t) ==
  /\ t \notin hosts /\ mounts < MaxMounts
  /\ hosts' = hosts \cup {t} /\ mounts' = mounts + 1
  /\ UNCHANGED <<session, registry, wire, inFlight, ran, missed, breaks>>

Dispose(t) ==
  /\ t \in hosts
  /\ hosts' = hosts \ {t} /\ inFlight' = [inFlight EXCEPT ![t] = {}]
  /\ UNCHANGED <<session, registry, wire, ran, missed, breaks, mounts>>

\* sendToolCallResult and sendToolCallError of the handle.
Answer(t, c) ==
  IF t \in linked THEN up' = [up EXCEPT ![t] = Append(@, c)] /\ UNCHANGED outbox
  ELSE outbox' = [outbox EXCEPT ![t] = Append(@, c)] /\ UNCHANGED up

\* A frame reaches the tab.  A request is run, or refused when the page does not
\* run such a tool; without a host nobody answers.  A cancellation aborts the run.
FrameArrives(t) ==
  /\ down[t] # <<>>
  /\ down' = [down EXCEPT ![t] = Tail(@)]
  /\ LET f == Head(down[t]) IN
       CASE f.type = "request" /\ t \in hosts /\ <<t, f.id>> \in Executes ->
              /\ inFlight' = [inFlight EXCEPT ![t] = @ \cup {f.id}]
              /\ ran' = [ran EXCEPT ![f.id] = Append(@, t)]
              /\ UNCHANGED <<up, outbox>>
         [] f.type = "request" /\ t \in hosts /\ <<t, f.id>> \notin Executes ->
              Answer(t, f.id) /\ UNCHANGED <<inFlight, ran>>
         [] f.type = "cancel" ->
              /\ inFlight' = [inFlight EXCEPT ![t] = @ \ {f.id}]
              /\ UNCHANGED <<up, outbox, ran>>
         [] OTHER -> UNCHANGED <<up, outbox, inFlight, ran>>
  /\ UNCHANGED <<session, registry, sockets, linked, hosts, missed, breaks, mounts>>

\* The script ends, or fails, and the host answers.
Finishes(t, c) ==
  /\ c \in inFlight[t]
  /\ inFlight' = [inFlight EXCEPT ![t] = @ \ {c}]
  /\ Answer(t, c)
  /\ UNCHANGED <<session, registry, sockets, linked, down, hosts, ran, missed, breaks, mounts>>

Next ==
  \/ \E calls \in SUBSET Call : Dispatch(calls)
  \/ \E c \in Call : EarlyExpires(c) \/ Timeout(c)
  \/ Interrupt \/ Close \/ Delete \/ Notice
  \/ \E t \in Tab : AnswerArrives(t) \/ Attach(t) \/ Break(t) \/ SetUp(t) \/ Dispose(t)
  \/ \E t \in Tab : FrameArrives(t)
  \/ \E t \in Tab, c \in Call : Finishes(t, c)

\* The timer of every slot fires, unless the call is settled before.
Fairness == \A c \in Call : WF_vars(Timeout(c))

Spec == Init /\ [][Next]_vars /\ Fairness

-----------------------------------------------------------------------------
\* The sides agree on the calls in flight.  The registry holds, with its timer,
\* every call the runner waits for, and no answer to it lies unused among the
\* early ones (register, #early); and a host runs only calls the registry holds,
\* or whose cancellation is on its way or was lost with a connection.
AwaitedIsHeld ==
  /\ awaited \subseteq waiting \ early
  /\ \A t \in Tab : \A c \in inFlight[t] :
       c \in waiting \/ Cancel(c) \in ToSet(down[t]) \/ <<t, c>> \in missed

\* A call is run at most once, by one tab or by several: whoever attaches again, and
\* whatever is late or lost, no second request for it reaches a host (bridge.ts
\* dispatch asks the tab that attached first, once).
RunOnce == \A c \in Call : Len(ran[c]) <= 1

\* The loop is never stranded: every call comes to an end, whatever the tabs,
\* the connections and the hosts do.
LoopGoesOn == \A c \in Call : c \in awaited ~> c \notin awaited

\* "A bridged call no longer needs an answer (turn interrupted, timed out, or the
\* session closed)" (client/src/index.ts): a host runs only what the runner waits
\* for, or is being told.
InterruptedIsCanceled ==
  \A t \in Tab : \A c \in inFlight[t] :
    c \in awaited \/ Cancel(c) \in ToSet(down[t]) \/ <<t, c>> \in missed
=============================================================================
