------------------------------- MODULE GitHubSync -------------------------------
(***************************************************************************)
(* GitHub sync (sync/core/src/manager.ts, planner.ts, diff.ts) of one      *)
(* project with one branch, over the project's tree                        *)
(* (apps/api/src/sync-service.ts) and the branch on GitHub, which others   *)
(* change too.  A plan compares the two sides with what they last agreed   *)
(* on (the base); applying it publishes one commit, then writes into the   *)
(* project file by file, then moves the base.                              *)
(*                                                                         *)
(* Calls interleave at their awaits.  Reading the project's row, the list  *)
(* of repositories and the list of branches are not steps: they only       *)
(* decide whether the call is refused.  Files are texts that the planner   *)
(* can compare, or withheld ones (a credential, a file that is too large). *)
(* Renames are inferred for display and published as the deletion and      *)
(* addition they are.  The history is left out.                            *)
(***************************************************************************)
EXTENDS Naturals, FiniteSets

CONSTANTS
    Paths, Texts,   \* paths and texts of files
    Absent,         \* in place of a text: no such file
    Withheld,       \* texts that the screening leaves out
    Merged,         \* text of a manual resolution
    NoBase,         \* nothing was agreed yet
    Jobs,           \* slots for calls that wait for something
    LocalEdits, RemoteEdits,   \* texts that people write on either side
    Starts,         \* initial [local, remote, base]
    DefaultBranch,  \* is the branch the default one of its repository?
    MaxEdits, MaxPlans, MaxApplies, MaxLinks,
    MaxMishaps      \* bounds; a mishap is an expiry, a cancellation, a disconnection
                    \* or a failing call

ASSUME SyncAssumption ==
    /\ Absent \notin Texts /\ Withheld \subseteq Texts
    /\ Merged \in Texts \ Withheld
    /\ LocalEdits \cup RemoteEdits \subseteq Texts \cup {Absent}
    /\ Starts \subseteq [local: [Paths -> Texts \cup {Absent}],
                        remote: [Paths -> Texts \cup {Absent}],
                        base: [Paths -> Texts \cup {Absent}] \cup {NoBase}]
    /\ DefaultBranch \in BOOLEAN

VARIABLES
    local, revision,    \* the project's files and its revision
    remote, head,       \* the branch's files and its head commit
    base,               \* what both sides agreed on, or NoBase
    connection,         \* number of the link, 0 when there is none
    plans,              \* plan records, by id
    job,                \* calls between two of their awaits
    used                \* numbers of edits, plans, applies, links, mishaps

\* History, read by the properties only: files that were ever in the project or on
\* the branch.
VARIABLES everLocal, everRemote

sides == <<local, revision, remote, head>>
history == <<everLocal, everRemote>>
vars == <<sides, base, connection, plans, job, used, history>>

Text == Texts \cup {Absent}
Tree == [Paths -> Text]
Empty == [p \in Paths |-> Absent]

FilesIn(t) == {<<p, t[p]>> : p \in {q \in Paths : t[q] # Absent}}

-----------------------------------------------------------------------------
\* The planner

\* A path that one side withholds does not take part: it is taken out of that side
\* and out of the base.
Participating(t) == [p \in Paths |-> IF t[p] \in Withheld THEN Absent ELSE t[p]]

EffectiveBase(b, t) ==
    [p \in Paths |-> IF b = NoBase \/ t[p] \in Withheld THEN Absent ELSE b[p]]

\* threeWay: which side of a path moved since the base.
Outcome(b, l, r) ==
    CASE l = r -> "same"
      [] l # r /\ l = b -> "pull"
      [] l # r /\ r = b -> "push"
      [] OTHER -> "conflict"

OutcomeOf(p, b, l, r) ==
    Outcome(EffectiveBase(b, l)[p], Participating(l)[p], r[p])

With(outcome, b, l, r) == {p \in Paths : OutcomeOf(p, b, l, r) = outcome}

\* Mutant of NeedsApproval: deletions need no approval.
NeedsApprovalAtFirst(push, conflicts, b, l) ==
    /\ push \cup conflicts # {}
    /\ b = NoBase \/ DefaultBranch

\* Reasons why a person must approve: a first sync, a deletion, the default branch.
NeedsApproval(push, conflicts, b, l) ==
    /\ push \cup conflicts # {}
    /\ b = NoBase \/ DefaultBranch \/ \E p \in push : l[p] = Absent

-----------------------------------------------------------------------------
\* Plans

Resolutions == {"keep-local", "keep-remote", "manual"}
Statuses == {"in-sync", "conflicts", "needs-approval", "ready",
             "applied", "cancelled", "expired", "failed"}
Over == {"applied", "cancelled", "expired", "failed"}

PlanRecords == [status: Statuses, link: Nat, localRevision: Nat, remoteHead: Nat,
                push: SUBSET Paths, pull: SUBSET Paths,
                resolution: [Paths -> Resolutions \cup {"open", "none"}],
                mine: Tree, theirs: Tree,   \* texts of both sides, until dropped
                needs: BOOLEAN, approved: BOOLEAN, cancelled: BOOLEAN,
                listed: BOOLEAN,            \* can the store still find it?
                \* history: its commits, and did its time run out?
                commits: Nat, expired: BOOLEAN]

Ids == DOMAIN plans
Unresolved(plan) == \E p \in Paths : plan.resolution[p] = "open"

\* openPlans
Open(k) == plans[k].listed /\ plans[k].status \notin Over

\* approvalReasonsNow
NeedsNow(plan) ==
    plan.needs \/ \E p \in Paths : plan.resolution[p] \in {"keep-local", "manual"}

Dropped(plan) == [plan EXCEPT !.mine = Empty, !.theirs = Empty]

\* refresh: an approval that was given stays.
Refreshed(plan) ==
    LET needs == NeedsNow(plan) IN
    [plan EXCEPT
        !.needs = needs,
        !.status = CASE Unresolved(plan) -> "conflicts"
                     [] plan.push \cup plan.pull = {}
                          /\ \A p \in Paths : plan.resolution[p] = "none" -> "in-sync"
                     [] ~Unresolved(plan) /\ needs /\ ~plan.approved -> "needs-approval"
                     [] OTHER -> "ready"]

-----------------------------------------------------------------------------
\* Calls.  A call that plans is reading, then fetching; one that applies is checked,
\* publishing, answered, writing, rebasing, closing.

Applying == {"checked", "publishing", "answered", "writing", "rebasing", "closing"}

Idle == [at |-> "idle", link |-> 0, plan |-> 0,
         approved |-> FALSE, needs |-> FALSE,   \* of the plan as it was captured
         gotLocal |-> FALSE, gotRemote |-> FALSE,
         local |-> Empty, rev |-> 0, remote |-> Empty, head |-> 0, \* snapshots
         todo |-> {},                           \* texts to fetch
         push |-> {}, pull |-> {}, conflicts |-> {},
         changes |-> Empty, incoming |-> Empty, \* texts to publish and to write
         publish |-> {}, pulled |-> {},         \* and for which paths
         write |-> {},                          \* of which still to write
         base |-> NoBase,
         \* history: paths changed since the revision was compared, resolutions as
         \* they were checked and then collected, did the plan change in between?
         late |-> {}, agreed |-> [p \in Paths |-> "none"], swayed |-> FALSE]

Init ==
    /\ \E s \in Starts : local = s.local /\ remote = s.remote /\ base = s.base
    /\ revision = 0 /\ head = 0
    /\ connection = 1
    /\ plans = <<>>
    /\ job = [j \in Jobs |-> Idle]
    /\ used = [edits |-> 0, plans |-> 0, applies |-> 0, links |-> 1, mishaps |-> 0]
    /\ LET agreed == IF base = NoBase THEN {} ELSE FilesIn(base) IN
       everLocal = FilesIn(local) \cup agreed /\ everRemote = FilesIn(remote) \cup agreed

Use(what) == used' = [used EXCEPT ![what] = @ + 1]

Mishap == used.mishaps < MaxMishaps /\ Use("mishaps")

\* A call that is applying learns too late of a change of the project's files at ps.
TooLate(c, ps) == IF c.at \in Applying THEN [c EXCEPT !.late = @ \cup ps] ELSE c

\* A job steps and changes the project's files at ps.
Steps(j, next, ps) ==
    job' = [k \in Jobs |-> IF k = j THEN next ELSE TooLate(job[k], ps)]

Local(p, text) ==
    /\ local' = [local EXCEPT ![p] = text]
    /\ revision' = revision + 1
    /\ everLocal' = everLocal \cup FilesIn(local')
    /\ UNCHANGED <<remote, head, everRemote>>

Remote(t) ==
    /\ remote' = t
    /\ head' = head + 1
    /\ everRemote' = everRemote \cup FilesIn(remote')
    /\ UNCHANGED <<local, revision, everLocal>>

-----------------------------------------------------------------------------
\* People

EditProject(p, text) ==
    /\ used.edits < MaxEdits /\ local[p] # text
    /\ Use("edits")
    /\ Local(p, text)
    /\ job' = [j \in Jobs |-> TooLate(job[j], {p})]
    /\ UNCHANGED <<base, connection, plans>>

PushToBranch(p, text) ==
    /\ used.edits < MaxEdits /\ remote[p] # text
    /\ Use("edits")
    /\ Remote([remote EXCEPT ![p] = text])
    /\ UNCHANGED <<base, connection, plans, job>>

-----------------------------------------------------------------------------
\* connect and disconnect

\* connect refuses a project that is connected, then asks GitHub.
Connect(j) ==
    /\ job[j].at = "idle" /\ connection = 0 /\ used.links < MaxLinks
    /\ Use("links")
    /\ job' = [job EXCEPT ![j].at = "connecting", ![j].link = used.links + 1]
    /\ UNCHANGED <<sides, base, connection, plans, history>>

\* It stores the link, and a fresh connection has agreed nothing.
Connected(j) ==
    /\ job[j].at = "connecting"
    /\ connection' = job[j].link
    /\ base' = NoBase
    /\ job' = [job EXCEPT ![j] = Idle]
    /\ UNCHANGED <<sides, plans, used, everLocal, everRemote>>

Disconnect ==
    /\ connection # 0
    /\ Mishap
    /\ connection' = 0
    /\ base' = NoBase
    /\ plans' = [k \in Ids |-> [plans[k] EXCEPT !.listed = FALSE]]
    /\ UNCHANGED <<sides, job, everLocal, everRemote>>

-----------------------------------------------------------------------------
\* plan

\* A snapshot of the project and the branch's tree, read at once.
WithLocal(c) == [c EXCEPT !.gotLocal = TRUE, !.local = local, !.rev = revision]
WithRemote(c) == [c EXCEPT !.gotRemote = TRUE, !.remote = remote, !.head = head]

\* The link is captured and one side is read first.
Compare(j) ==
    /\ job[j].at = "idle" /\ connection # 0 /\ used.plans < MaxPlans
    /\ Use("plans")
    /\ LET next == [job[j] EXCEPT !.at = "reading", !.link = connection] IN
       \E first \in {WithLocal(next), WithRemote(next)} : job' = [job EXCEPT ![j] = first]
    /\ UNCHANGED <<sides, base, connection, plans, history>>

ReadOther(j) ==
    /\ job[j].at = "reading" /\ ~(job[j].gotLocal /\ job[j].gotRemote)
    /\ job' = [job EXCEPT ![j] = IF job[j].gotLocal THEN WithRemote(@) ELSE WithLocal(@)]
    /\ UNCHANGED <<sides, base, connection, plans, used, history>>

\* The plan is stored once the texts are there; the open ones give way to it.
Proposal(c) ==
    LET conflict(p) == p \in c.conflicts IN
    [link |-> c.link, localRevision |-> c.rev, remoteHead |-> c.head,
     push |-> c.push, pull |-> c.pull,
     resolution |-> [p \in Paths |-> IF conflict(p) THEN "open" ELSE "none"],
     mine |-> c.local, theirs |-> c.remote,
     needs |-> c.needs, approved |-> FALSE, cancelled |-> FALSE,
     listed |-> TRUE, commits |-> 0, expired |-> FALSE,
     status |-> CASE c.conflicts # {} -> "conflicts"
                  [] c.conflicts = {} /\ c.push \cup c.pull = {} -> "in-sync"
                  [] c.conflicts = {} /\ c.push \cup c.pull # {} /\ c.needs ->
                       "needs-approval"
                  [] OTHER -> "ready"]

Proceed(j, next) ==
    IF next.todo # {}
    THEN job' = [job EXCEPT ![j] = next] /\ UNCHANGED plans
    ELSE LET id == Cardinality(Ids) + 1 IN
         /\ plans' = [k \in Ids \cup {id} |->
                        IF k = id THEN Proposal(next)
                        ELSE IF Open(k) THEN [plans[k] EXCEPT !.listed = FALSE]
                        ELSE plans[k]]
         /\ job' = [job EXCEPT ![j] = Idle]

\* buildPlan on the snapshots and the base as it is now.
BuildPlan(j) ==
    /\ job[j].at = "reading" /\ job[j].gotLocal /\ job[j].gotRemote
    /\ LET l == job[j].local
           r == job[j].remote
           of(outcome) == With(outcome, base, l, r)
       IN Proceed(j, [job[j] EXCEPT
            !.at = "fetching", !.gotLocal = FALSE, !.gotRemote = FALSE,
            !.push = of("push"), !.pull = of("pull"), !.conflicts = of("conflict"),
            !.needs = NeedsApproval(of("push"), of("conflict"), base, Participating(l)),
            !.todo = {p \in of("pull") \cup of("conflict") : r[p] # Absent}])
    /\ UNCHANGED <<sides, base, connection, used, history>>

\* A text is read from the branch as it is now; a pulled one is screened.
Fetch(j, p) ==
    /\ job[j].at = "fetching" /\ p \in job[j].todo
    /\ IF remote[p] = Absent
       THEN job' = [job EXCEPT ![j] = Idle] /\ UNCHANGED plans
       ELSE Proceed(j, [job[j] EXCEPT
              !.todo = @ \ {p}, !.remote[p] = remote[p],
              !.pull = IF remote[p] \in Withheld THEN @ \ {p} ELSE @])
    /\ UNCHANGED <<sides, base, connection, used, history>>

-----------------------------------------------------------------------------
\* Decisions about a plan

Change(k, next) ==
    /\ plans' = [plans EXCEPT ![k] = next]
    /\ UNCHANGED <<sides, base, connection, job, history>>

\* Any call on the project finds that the plan's 15 minutes are over, and drops its
\* texts.
Expire(k) ==
    /\ Open(k)
    /\ Mishap
    /\ Change(k, Dropped([plans[k] EXCEPT !.status = "expired", !.expired = TRUE]))

ResolveConflict(k, p, resolution) ==
    /\ Open(k) /\ plans[k].resolution[p] # "none"
    /\ UNCHANGED used
    /\ Change(k, Refreshed([plans[k] EXCEPT !.resolution[p] = resolution]))

Approve(k) ==
    /\ Open(k) /\ ~Unresolved(plans[k])
    /\ UNCHANGED used
    /\ Change(k, Refreshed([plans[k] EXCEPT !.approved = TRUE]))

Cancel(k) ==
    /\ plans[k].listed /\ plans[k].status # "applied"
    /\ Mishap
    /\ Change(k, [plans[k] EXCEPT !.cancelled = TRUE, !.status = "cancelled"])

-----------------------------------------------------------------------------
\* apply

\* The checks on the plan, which is captured; then the project's revision is read.
Apply(j, k) ==
    /\ job[j].at = "idle" /\ connection # 0 /\ used.applies < MaxApplies
    /\ Open(k) /\ ~Unresolved(plans[k])
    /\ NeedsNow(plans[k]) => plans[k].approved
    /\ Use("applies")
    /\ job' = [job EXCEPT ![j] = [Idle EXCEPT
                 !.at = "checked", !.plan = k, !.link = connection,
                 !.approved = plans[k].approved, !.needs = plans[k].needs,
                 !.agreed = plans[k].resolution]]
    /\ UNCHANGED <<sides, base, connection, plans, history>>

\* record.plan = {...plan, status}: the captured plan, with a new status.
Settled(c, status) ==
    [plans[c.plan] EXCEPT !.status = status, !.approved = c.approved, !.needs = c.needs]

Fails(j) ==
    /\ plans' = [plans EXCEPT ![job[j].plan] = Settled(job[j], "failed")]
    /\ Steps(j, Idle, {})

\* After the last write the base is read.
Onward(c) == IF c.write = {} THEN [c EXCEPT !.at = "rebasing", !.base = base] ELSE c

\* What to publish and what to write, from the texts that the plan still holds and
\* the resolutions as they are now.  A text that was dropped reads as a deletion.
Collected(c) ==
    LET plan == plans[c.plan]
        resolved(rs) == {p \in Paths : plan.resolution[p] \in rs}
        out == plan.push \cup resolved({"keep-local", "manual"})
        in == plan.pull \cup resolved({"keep-remote", "manual"})
        chosen(ps, t) == [p \in Paths |->
            IF p \notin ps THEN Absent
            ELSE IF plan.resolution[p] = "manual" THEN Merged ELSE t[p]]
    IN [c EXCEPT
          !.publish = out, !.changes = chosen(out, plan.mine),
          !.pulled = in, !.incoming = chosen(in, plan.theirs), !.write = in,
          !.swayed = plan.expired \/ plan.resolution # c.agreed,
          !.agreed = plan.resolution, !.late = {}]

\* Mutant of Collect: the revision is not compared.
CollectAnyRevision(j) ==
    /\ job[j].at = "checked"
    /\ LET next == Collected(job[j]) IN
       IF plans[job[j].plan].cancelled THEN Fails(j)
       ELSE /\ Steps(j, IF next.publish # {} THEN [next EXCEPT !.at = "publishing"]
                        ELSE Onward([next EXCEPT !.at = "writing"]), {})
            /\ UNCHANGED plans
    /\ UNCHANGED <<sides, base, connection, used, history>>

\* The revision is compared, everything is collected, a cancelled plan fails.
Collect(j) ==
    /\ job[j].at = "checked"
    /\ LET next == Collected(job[j]) IN
       IF revision # plans[job[j].plan].localRevision
       THEN Steps(j, Idle, {}) /\ UNCHANGED plans
       ELSE IF plans[job[j].plan].cancelled THEN Fails(j)
       ELSE /\ Steps(j, IF next.publish # {} THEN [next EXCEPT !.at = "publishing"]
                        ELSE Onward([next EXCEPT !.at = "writing"]), {})
            /\ UNCHANGED plans
    /\ UNCHANGED <<sides, base, connection, used, history>>

\* Mutant of Publish: the head of the branch is not compared.
PublishAnyway(j) ==
    /\ job[j].at = "publishing"
    /\ Remote([p \in Paths |-> IF p \in job[j].publish THEN job[j].changes[p]
                               ELSE remote[p]])
    /\ plans' = [plans EXCEPT ![job[j].plan].commits = @ + 1]
    /\ Steps(j, [job[j] EXCEPT !.at = "answered"], {})
    /\ UNCHANGED <<base, connection, used>>

\* One commit, if the branch's head is the one the plan was made against.
Publish(j) ==
    /\ job[j].at = "publishing"
    /\ head = plans[job[j].plan].remoteHead
    /\ Remote([p \in Paths |-> IF p \in job[j].publish THEN job[j].changes[p]
                               ELSE remote[p]])
    /\ plans' = [plans EXCEPT ![job[j].plan].commits = @ + 1]
    /\ Steps(j, [job[j] EXCEPT !.at = "answered"], {})
    /\ UNCHANGED <<base, connection, used>>

PublishRefused(j) ==
    /\ job[j].at = "publishing"
    /\ head # plans[job[j].plan].remoteHead
    /\ Fails(j)
    /\ UNCHANGED <<sides, base, connection, used, history>>

\* GitHub cannot be reached, or its answer is lost.
CallFails(j) ==
    /\ job[j].at \in {"publishing", "answered"}
    /\ Mishap
    /\ Fails(j)
    /\ UNCHANGED <<sides, base, connection, history>>

\* A cancellation is seen once more.
Answered(j) ==
    /\ job[j].at = "answered"
    /\ IF plans[job[j].plan].cancelled THEN Fails(j)
       ELSE Steps(j, Onward([job[j] EXCEPT !.at = "writing"]), {}) /\ UNCHANGED plans
    /\ UNCHANGED <<sides, base, connection, used, history>>

\* One file of the project is written or deleted, whatever it holds.
WriteFile(j, p) ==
    /\ job[j].at = "writing" /\ p \in job[j].write
    /\ Local(p, job[j].incoming[p])
    /\ Steps(j, Onward([job[j] EXCEPT !.write = @ \ {p}]), {p})
    /\ UNCHANGED <<base, connection, plans, used>>

WriteFails(j) ==
    /\ job[j].at = "writing"
    /\ Mishap
    /\ Fails(j)
    /\ UNCHANGED <<sides, base, connection, history>>

\* newBase: both sides are read again.
RereadLocal(j) ==
    /\ job[j].at = "rebasing"
    /\ Steps(j, [job[j] EXCEPT !.at = "closing", !.local = local], {})
    /\ UNCHANGED <<sides, base, connection, plans, used, history>>

\* One of the reads fails: the call throws and the plan stays as it was.
RereadFails(j) ==
    /\ job[j].at \in {"rebasing", "closing"}
    /\ Mishap
    /\ Steps(j, Idle, {})
    /\ UNCHANGED <<sides, base, connection, plans, history>>

\* What was published or written, and what both sides are found to hold.
NewBase(c) ==
    [p \in Paths |->
       CASE c.local[p] = remote[p] /\ remote[p] # Absent -> remote[p]
         [] ~(c.local[p] = remote[p] /\ remote[p] # Absent) /\ p \in c.pulled ->
              c.incoming[p]
         [] ~(c.local[p] = remote[p] /\ remote[p] # Absent)
              /\ p \in c.publish \ c.pulled -> c.changes[p]
         [] OTHER -> IF c.base = NoBase THEN Absent ELSE c.base[p]]

\* The base, the link and the plan are stored, and the texts dropped.
Finish(j) ==
    /\ job[j].at = "closing"
    /\ base' = NewBase(job[j])
    /\ connection' = job[j].link
    /\ plans' = [plans EXCEPT ![job[j].plan] =
                   Dropped(Settled(job[j], "applied"))]
    /\ Steps(j, Idle, {})
    /\ UNCHANGED <<sides, used, everLocal, everRemote>>

-----------------------------------------------------------------------------
Next ==
    \/ \E p \in Paths : \E text \in LocalEdits : EditProject(p, text)
    \/ \E p \in Paths : \E text \in RemoteEdits : PushToBranch(p, text)
    \/ Disconnect
    \/ \E j \in Jobs :
         \/ Connect(j) \/ Connected(j)
         \/ Compare(j) \/ ReadOther(j) \/ BuildPlan(j)
         \/ \E p \in Paths : Fetch(j, p) \/ WriteFile(j, p)
         \/ \E k \in Ids : Apply(j, k)
         \/ Collect(j) \/ Publish(j) \/ PublishRefused(j) \/ CallFails(j) \/ Answered(j)
         \/ WriteFails(j) \/ RereadLocal(j) \/ RereadFails(j) \/ Finish(j)
    \/ \E k \in Ids :
         \/ Expire(k) \/ Approve(k) \/ Cancel(k)
         \/ \E p \in Paths : \E resolution \in Resolutions :
              ResolveConflict(k, p, resolution)

Spec == Init /\ [][Next]_vars
-----------------------------------------------------------------------------
\* Properties

\* planner.ts:22, "each a place a sync can lose data": what a sync writes over in the
\* project was on the branch at some time, was decided by a person, is a withheld
\* text, or came after the revision was compared.
ProjectEditsSurvive ==
    [][\A j \in Jobs, p \in Paths :
         /\ job[j].at = "writing" /\ p \in job[j].write /\ p \notin job'[j].write
         /\ local'[p] # local[p] /\ local[p] # Absent
         => \/ <<p, local[p]>> \in everRemote
            \/ job[j].agreed[p] \in {"keep-remote", "manual"}
            \/ p \in job[j].late
            \/ local[p] \in Withheld]_vars

\* "Nothing was overwritten" (manager.ts:747), "no force push": what a commit replaces
\* on the branch was in the project at some time or was decided by a person.
BranchEditsSurvive ==
    [][\A j \in Jobs, p \in Paths :
         /\ job[j].at = "publishing" /\ job'[j].at = "answered"
         /\ remote'[p] # remote[p] /\ remote[p] # Absent
         => \/ <<p, remote[p]>> \in everLocal
            \/ job[j].agreed[p] \in {"keep-local", "manual"}]_vars

\* A plan that is applied twice at once, or again after a failure, publishes one
\* commit: the head it was made against is gone.
PublishedOnce == \A k \in Ids : plans[k].commits <= 1

\* github-sync.md, "deletes-remote-files": a person approved the plan that deletes a
\* file of the branch.  Two calls defeat this while apply waits for the project's
\* revision: one that finds the plan expired, and one that resolves a conflict anew.
DeletionsAreApproved ==
    [][\A j \in Jobs, p \in Paths :
         /\ job[j].at = "publishing" /\ job'[j].at = "answered"
         /\ remote[p] # Absent /\ remote'[p] = Absent
         => job[j].approved \/ job[j].swayed]_vars

=============================================================================
