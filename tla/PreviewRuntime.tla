--------------------------- MODULE PreviewRuntime ---------------------------
(***************************************************************************)
(* The previews of one workspace (runtime/core): the manager's records and *)
(* the executor that hosts the previews.                                   *)
(*                                                                         *)
(* Every operation awaits the executor, the workspace gateway or the       *)
(* evidence provider and goes on from the record as it is then.  Nothing   *)
(* is locked: a start that waits for a build meets stops, cancels, expiry, *)
(* the cleanup of its record and a restart of the workspace.               *)
(*                                                                         *)
(* Simplifications:                                                        *)
(*  - the executor is the one of runtime/mock, the only one there is: it   *)
(*    acts when it is called, and the caller learns of it later;           *)
(*  - a runtime may be due to expire at any time, and a sweep that opens   *)
(*    another operation is a call of its own;                              *)
(*  - an evidence read sees one revision; files, logs and views are left   *)
(*    out, and preparing and stopping, which no await separates from the   *)
(*    next status.                                                         *)
(***************************************************************************)
EXTENDS Naturals, FiniteSets

CONSTANTS
  Calls,            \* slots of calls in flight
  BuildRevisions,   \* revisions whose plan has a build command
  MaxPerWorkspace,  \* MAX_RUNTIMES_PER_WORKSPACE
  MaxActive,        \* MAX_ACTIVE_RUNTIMES
  MaxChecks,        \* healthCheck.maxChecks
  MaxRuntimes,      \* bound: runtimes ever created
  MaxRevision       \* bound: edits of the workspace

ASSUME PreviewConstants ==
  /\ {MaxPerWorkspace, MaxActive, MaxChecks, MaxRuntimes} \subseteq Nat \ {0}
  /\ MaxRevision \in Nat
  /\ BuildRevisions \subseteq 0 .. MaxRevision

VARIABLES
  revision,  \* of the workspace
  rt,        \* rt[r]: the record of runtime r, in the order of creation
  hosted,    \* the runtimes that the executor hosts
  call       \* call[c]: where the call in slot c stands

vars == <<revision, rt, hosted, call>>

Runtime == 1 .. MaxRuntimes
Live == {"building", "starting", "running"}
Ended == {"stopped", "failed", "expired", "cancelled"}
Statuses == {"none", "created", "gone"} \cup Live \cup Ended

Unmade == [status |-> "none", revision |-> 0, evidence |-> 0, cancelled |-> FALSE,
           held |-> FALSE,    \* in the manager's map
           \* History, read by the properties only: a race about it happened.
           raced |-> FALSE]

Free == [at |-> "free", runtime |-> 0, revision |-> 0, evidence |-> 0, ok |-> FALSE,
         checks |-> 0, to |-> "none", restart |-> FALSE, target |-> 0,
         visited |-> 0,    \* where a restart's pass over the map stands
         known |-> {}]     \* history: live when the restart began, not started since

Held == {r \in Runtime : rt[r].held}
IsLive(r) == rt[r].status \in Live
LiveHeld == {r \in Held : IsLive(r)}
Busy(r) == \E c \in Calls : call[c].runtime = r
Opened(c, r) == call[c].at = "opened" /\ call[c].runtime = r
HasBuild(r) == rt[r].evidence \in BuildRevisions

\* Mutant of Allowed: a transition is not asserted.
AllowAll(from, to) == TRUE

\* What assertRuntimeTransition allows, with preparing and stopping passed over.
Allowed(from, to) ==
  <<from, to>> \in
    ({"building", "starting", "running"} \X {"failed", "cancelled"}) \cup
    {<<"building", "starting">>, <<"starting", "running">>,
     <<"running", "stopped">>, <<"running", "expired">>, <<"created", "cancelled">>}

Init ==
  /\ revision = 0
  /\ rt = [r \in Runtime |-> Unmade]
  /\ hosted = {}
  /\ call = [c \in Calls |-> Free]

End(c) == call' = [call EXCEPT ![c] = Free]

-----------------------------------------------------------------------------
\* create: count, read the evidence, insert.

Create(c) ==
  /\ call[c].at \in {"free", "creating"}
  /\ Cardinality(Held) < MaxPerWorkspace /\ Cardinality(LiveHeld) < MaxActive
  /\ call' = [call EXCEPT ![c].at = "detecting", ![c].revision = revision]
  /\ UNCHANGED <<revision, rt, hosted>>

RefuseRestart(c) ==
  /\ call[c].at = "creating"
  /\ Cardinality(Held) >= MaxPerWorkspace \/ Cardinality(LiveHeld) >= MaxActive
  /\ End(c)
  /\ UNCHANGED <<revision, rt, hosted>>

Detect(c) ==
  /\ call[c].at = "detecting"
  /\ call' = [call EXCEPT ![c].at = "listing", ![c].evidence = revision]
  /\ UNCHANGED <<revision, rt, hosted>>

\* Mutant of Insert: the record is bound to the revision found at the end.
InsertLatest(c) ==
  /\ call[c].at = "listing"
  /\ \E r \in Runtime :
       /\ rt[r].status = "none" /\ \A s \in Runtime : s < r => rt[s].status # "none"
       /\ rt' = [rt EXCEPT ![r] = [Unmade EXCEPT
                   !.status = "created", !.revision = revision,
                   !.evidence = call[c].evidence, !.held = TRUE]]
       /\ IF call[c].restart
            THEN call' = [call EXCEPT ![c].at = "opened", ![c].runtime = r,
                                      ![c].revision = revision, ![c].evidence = 0]
            ELSE End(c)
  /\ UNCHANGED <<revision, hosted>>

\* A restart goes on to start what it created, from a new look at the workspace.
Insert(c) ==
  /\ call[c].at = "listing"
  /\ \E r \in Runtime :
       /\ rt[r].status = "none" /\ \A s \in Runtime : s < r => rt[s].status # "none"
       /\ rt' = [rt EXCEPT ![r] = [Unmade EXCEPT
                   !.status = "created", !.revision = call[c].revision,
                   !.evidence = call[c].evidence, !.held = TRUE]]
       /\ IF call[c].restart
            THEN call' = [call EXCEPT ![c].at = "opened", ![c].runtime = r,
                                      ![c].revision = revision, ![c].evidence = 0]
            ELSE End(c)
  /\ UNCHANGED <<revision, hosted>>

\* Not of the code: the bound on runtimes ends a creation.
OutOfRuntimes(c) ==
  /\ call[c].at = "listing"
  /\ \A r \in Runtime : rt[r].status # "none"
  /\ End(c)
  /\ UNCHANGED <<revision, rt, hosted>>

-----------------------------------------------------------------------------
\* start

Start(c, r) ==
  /\ call[c].at = "free" /\ rt[r].held
  /\ call' = [call EXCEPT ![c] = [Free EXCEPT !.at = "opened", !.runtime = r,
                                              !.revision = revision]]
  /\ UNCHANGED <<revision, rt, hosted>>

Ending(d, r) ==
  call[d].runtime = r /\ call[d].at \in {"stopping", "cancelling", "expiring"}

\* The executor is told to launch runtime r, and does or fails; call c waits.
Launch(c, r, next) ==
  \E ok \in BOOLEAN :
    /\ hosted' = IF ok THEN hosted \cup {r} ELSE hosted
    /\ call' = [next EXCEPT ![c] = [Free EXCEPT
                  !.at = "launching", !.runtime = r, !.ok = ok]]

Startable(c) ==
  LET r == call[c].runtime IN
  /\ rt[r].status \in {"created", "stopped"}
  /\ call[c].revision = rt[r].revision
  /\ Cardinality(LiveHeld) < MaxActive

\* A stopped runtime starts again; the record may have left the map meanwhile.
Begin(c) ==
  LET r == call[c].runtime
      others == [d \in Calls |-> [call[d] EXCEPT !.known = @ \ {r}]]
      begun(status) == [rt EXCEPT ![r].status = status, ![r].cancelled = FALSE,
                                  ![r].raced = @ \/ \E d \in Calls : Ending(d, r)]
  IN
  /\ call[c].at = "opened" /\ Startable(c)
  /\ IF HasBuild(r)
       THEN /\ rt' = begun("building")
            /\ \E ok \in BOOLEAN :
                 call' = [others EXCEPT ![c] = [Free EXCEPT
                            !.at = "building", !.runtime = r, !.ok = ok]]
            /\ UNCHANGED hosted
       ELSE rt' = begun("starting") /\ Launch(c, r, others)
  /\ UNCHANGED revision

\* A restart looks its new record up when it starts it: it may be gone.
RefuseStart(c) ==
  /\ call[c].at = "opened"
  /\ \/ ~Startable(c)
     \/ call[c].restart /\ ~rt[call[c].runtime].held
  /\ End(c)
  /\ UNCHANGED <<revision, rt, hosted>>

\* The start gives up: the executor stops the preview before the status changes.
Withdraw(c, to) ==
  /\ hosted' = hosted \ {call[c].runtime}
  /\ call' = [call EXCEPT ![c].at = "withdrawing", ![c].to = to,
                          ![c].checks = 0, ![c].ok = FALSE]
  /\ UNCHANGED <<revision, rt>>

\* What is wrong with a runtime whose build or launch came back.
Verdict(c) ==
  IF rt[call[c].runtime].cancelled THEN "cancelled"
  ELSE IF ~call[c].ok THEN "failed" ELSE "none"

GiveUp(c) ==
  /\ call[c].at \in {"building", "launching"} /\ Verdict(c) # "none"
  /\ Withdraw(c, Verdict(c))

Built(c) ==
  LET r == call[c].runtime IN
  /\ call[c].at = "building" /\ Verdict(c) = "none"
  /\ IF Allowed(rt[r].status, "starting")
       THEN rt' = [rt EXCEPT ![r].status = "starting"] /\ Launch(c, r, call)
       ELSE End(c) /\ UNCHANGED <<rt, hosted>>
  /\ UNCHANGED revision

\* The next health probe: healthy only what is hosted.
Probe(c, checks) ==
  /\ \E ok \in BOOLEAN :
       /\ ok => call[c].runtime \in hosted
       /\ call' = [call EXCEPT ![c].at = "probing", ![c].ok = ok, ![c].checks = checks]
  /\ UNCHANGED <<revision, rt, hosted>>

Launched(c) ==
  /\ call[c].at = "launching" /\ Verdict(c) = "none"
  /\ Probe(c, 1)

\* A healthy probe is not asked whether the runtime was cancelled meanwhile.
Healthy(c) ==
  LET r == call[c].runtime IN
  /\ call[c].at = "probing" /\ call[c].ok
  /\ IF Allowed(rt[r].status, "running")
       THEN rt' = [rt EXCEPT ![r].status = "running"] ELSE UNCHANGED rt
  /\ End(c)
  /\ UNCHANGED <<revision, hosted>>

Unhealthy(c) ==
  /\ call[c].at = "probing" /\ ~call[c].ok
  /\ IF rt[call[c].runtime].cancelled THEN Withdraw(c, "cancelled")
     ELSE IF call[c].checks >= MaxChecks THEN Withdraw(c, "failed")
     ELSE Probe(c, call[c].checks + 1)

Withdrawn(c) ==
  LET r == call[c].runtime IN
  /\ call[c].at = "withdrawing"
  /\ IF Allowed(rt[r].status, call[c].to)
       THEN rt' = [rt EXCEPT ![r].status = call[c].to] ELSE UNCHANGED rt
  /\ End(c)
  /\ UNCHANGED <<revision, hosted>>

-----------------------------------------------------------------------------
\* stop, cancel, expire: the executor first, the status when it answered.

Interrupt(c, r, at) ==
  /\ hosted' = hosted \ {r}
  /\ call' = [call EXCEPT ![c].at = at, ![c].runtime = r]

\* Only a running runtime is stopped or expires: another one loses its preview,
\* and the call throws when it comes to the status.
Undercut(r) == [rt EXCEPT ![r].raced = @ \/ rt[r].status # "running"]

Stop(c, r) ==
  /\ call[c].at = "free" /\ rt[r].held /\ IsLive(r)
  /\ Interrupt(c, r, "stopping")
  /\ rt' = Undercut(r)
  /\ UNCHANGED revision

Expire(c, r) ==
  /\ call[c].at = "free" /\ rt[r].held /\ IsLive(r)
  /\ Interrupt(c, r, "expiring")
  /\ rt' = Undercut(r)
  /\ UNCHANGED revision

\* Mutant of Cancel: a start in flight is not told.
CancelUntold(c, r) ==
  /\ call[c].at = "free" /\ rt[r].held /\ IsLive(r)
  /\ Interrupt(c, r, "cancelling")
  /\ UNCHANGED <<revision, rt>>

Cancel(c, r) ==
  /\ call[c].at = "free" /\ rt[r].held /\ IsLive(r)
  /\ Interrupt(c, r, "cancelling")
  /\ rt' = [rt EXCEPT ![r].cancelled = TRUE]
  /\ UNCHANGED revision

Stopped(c) ==
  LET r == call[c].runtime IN
  /\ call[c].at = "stopping"
  /\ IF Allowed(rt[r].status, "stopped")
       THEN /\ rt' = [rt EXCEPT ![r].status = "stopped"]
            /\ IF call[c].restart
                 THEN call' = [call EXCEPT ![c].at = "retiring", ![c].runtime = 0]
                 ELSE End(c)
       ELSE End(c) /\ UNCHANGED rt
  /\ UNCHANGED <<revision, hosted>>

Expired(c) ==
  LET r == call[c].runtime IN
  /\ call[c].at = "expiring"
  /\ IF Allowed(rt[r].status, "expired")
       THEN rt' = [rt EXCEPT ![r].status = "expired"] ELSE UNCHANGED rt
  /\ End(c)
  /\ UNCHANGED <<revision, hosted>>

Cancelled(c) ==
  LET r == call[c].runtime IN
  /\ call[c].at = "cancelling"
  /\ IF IsLive(r) THEN rt' = [rt EXCEPT ![r].status = "cancelled"] ELSE UNCHANGED rt
  /\ End(c)
  /\ UNCHANGED <<revision, hosted>>

-----------------------------------------------------------------------------
\* restart: stop the runtime, then every other live one, then create and start.

Restart(c, r) ==
  /\ call[c].at = "free" /\ rt[r].held
  /\ call' = [call EXCEPT ![c] = [Free EXCEPT
                !.at = IF IsLive(r) THEN "asked" ELSE "retiring",
                !.runtime = IF IsLive(r) THEN r ELSE 0,
                !.restart = TRUE, !.target = r, !.known = LiveHeld]]
  /\ UNCHANGED <<revision, rt, hosted>>

\* The stop that a restart asked for, with its own look at the status.
StopForRestart(c) ==
  LET r == call[c].runtime IN
  /\ call[c].at = "asked"
  /\ IF rt[r].held /\ IsLive(r)
       THEN Interrupt(c, r, "stopping") /\ rt' = Undercut(r)
       ELSE End(c) /\ UNCHANGED <<rt, hosted>>
  /\ UNCHANGED revision

OtherLive(c) == {r \in LiveHeld : r > call[c].visited /\ r # call[c].target}

\* Mutant of Retire: only the runtime that was named is stopped.
RetireNone(c) ==
  /\ call[c].at = "retiring"
  /\ call' = [call EXCEPT ![c].at = "creating"]
  /\ UNCHANGED <<revision, rt, hosted>>

Retire(c) ==
  /\ call[c].at = "retiring"
  /\ IF OtherLive(c) = {}
       THEN call' = [call EXCEPT ![c].at = "creating", ![c].target = 0,
                                 ![c].visited = 0]
       ELSE \E r \in OtherLive(c) :
              /\ \A s \in OtherLive(c) : r <= s
              /\ call' = [call EXCEPT ![c].at = "asked", ![c].runtime = r,
                                      ![c].visited = r]
  /\ UNCHANGED <<revision, rt, hosted>>

-----------------------------------------------------------------------------
\* Every record that is not live leaves the map, also one that is about to start.
\* What no call knows is gone then.
Cleanup ==
  /\ Held \ LiveHeld # {}
  /\ rt' = [r \in Runtime |->
       IF r \notin Held \ LiveHeld THEN rt[r]
       ELSE IF Busy(r)
         THEN [rt[r] EXCEPT !.held = FALSE, !.raced = @ \/ \E c \in Calls : Opened(c, r)]
         ELSE [Unmade EXCEPT !.status = "gone", !.raced = rt[r].raced]]
  /\ UNCHANGED <<revision, hosted, call>>

\* The user or an agent edits the workspace.
Edit ==
  /\ revision < MaxRevision
  /\ revision' = revision + 1
  /\ UNCHANGED <<rt, hosted, call>>

Proceed(c) ==
  \/ call[c].at = "creating" /\ Create(c)
  \/ RefuseRestart(c) \/ Detect(c) \/ Insert(c) \/ OutOfRuntimes(c)
  \/ Begin(c) \/ RefuseStart(c) \/ GiveUp(c) \/ Built(c) \/ Launched(c)
  \/ Healthy(c) \/ Unhealthy(c) \/ Withdrawn(c)
  \/ Stopped(c) \/ Expired(c) \/ Cancelled(c) \/ StopForRestart(c) \/ Retire(c)

Next ==
  \/ \E c \in Calls :
       \/ Create(c) \/ Proceed(c)
       \/ \E r \in Runtime :
            Start(c, r) \/ Stop(c, r) \/ Cancel(c, r) \/ Expire(c, r) \/ Restart(c, r)
  \/ Cleanup \/ Edit

Spec == Init /\ [][Next]_vars

-----------------------------------------------------------------------------
\* The executor hosts exactly the running runtimes of the map, once the calls
\* about a runtime are over, and none of them leaves it building or starting:
\* unless the runtime was started while an earlier call waited to end it, was
\* cleaned up while its start waited, or was told to stop before it ran.
QuietRuntimesMatchTheExecutor ==
  \A r \in Runtime :
    ~Busy(r) /\ ~rt[r].raced =>
      /\ r \in hosted <=> rt[r].held /\ rt[r].status = "running"
      /\ rt[r].status \notin {"building", "starting"}

\* What is built, started or shown was planned from the revision it claims to
\* show, although create reads the revision, the evidence and the files at
\* three times (manager: "revision binding").
PlansFitTheirRevision ==
  \A r \in Runtime : IsLive(r) => rt[r].evidence = rt[r].revision

\* Once a restart creates the new runtime, every preview that lived when it
\* began has ended, unless a call started it since ("must never leave two
\* concurrent previews").
RestartRetires ==
  \A c \in Calls :
    call[c].restart /\ call[c].at \in {"creating", "detecting", "listing", "opened"} =>
      \A r \in call[c].known : ~IsLive(r)

\* Failed, expired and cancelled runtimes stay so, whatever the calls in flight
\* about them go on to do.
EndedStaysEnded ==
  [][\A r \in Runtime :
       rt[r].status \in {"failed", "expired", "cancelled"} =>
         rt'[r].status \in {rt[r].status, "gone"}]_vars
=============================================================================
