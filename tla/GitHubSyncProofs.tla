--------------------------- MODULE GitHubSyncProofs ---------------------------
(***************************************************************************)
(* For every set of paths and texts and any number of calls: a plan        *)
(* publishes one commit at most, however often and by however many calls   *)
(* at once it is applied.  The head of the branch only moves forward, and  *)
(* a plan that published was made against a head that is gone (IInv).      *)
(* And no sync loses work: what it writes over on one side was on the      *)
(* other, and what it deletes was approved, but for the exceptions that    *)
(* the properties name (LossInv).                                          *)
(***************************************************************************)
EXTENDS GitHubSync, FiniteSetTheorems, TLAPS

Stages == {"idle", "connecting", "reading", "fetching"} \cup Applying

Choices == [Paths -> Resolutions \cup {"open", "none"}]
Bases == Tree \cup {NoBase}

JobRecords ==
    [at: Stages, link: Nat, plan: Nat, approved: BOOLEAN, needs: BOOLEAN,
     gotLocal: BOOLEAN, gotRemote: BOOLEAN,
     local: Tree, rev: Nat, remote: Tree, head: Nat,
     todo: SUBSET Paths,
     push: SUBSET Paths, pull: SUBSET Paths, conflicts: SUBSET Paths,
     changes: Tree, incoming: Tree, publish: SUBSET Paths, pulled: SUBSET Paths,
     write: SUBSET Paths, base: Bases,
     late: SUBSET Paths, agreed: Choices, swayed: BOOLEAN]

Counters == [edits: Nat, plans: Nat, applies: Nat, links: Nat, mishaps: Nat]

SideTypes ==
    /\ local \in Tree /\ remote \in Tree /\ base \in Bases
    /\ revision \in Nat /\ head \in Nat /\ connection \in Nat
    /\ used \in Counters

\* plans are numbered from one
Numbered(ids) == \E n \in Nat : ids = 1..n

PlanTypes ==
    /\ Numbered(Ids)
    /\ plans \in [Ids -> PlanRecords]

JobTypes == job \in [Jobs -> JobRecords]

\* a plan was made against a head of the past, an older one if it has published
PlanFits(plan, now) ==
    /\ plan.remoteHead <= now
    /\ plan.commits = 0 \/ (plan.commits = 1 /\ plan.remoteHead < now)

\* so was the snapshot of a call; one that applies has a plan
JobFits(c, ids, now) ==
    /\ c.head <= now
    /\ c.at \in Applying => c.plan \in ids

IInv ==
    /\ SideTypes /\ PlanTypes /\ JobTypes
    /\ \A k \in Ids : PlanFits(plans[k], head)
    /\ \A j \in Jobs : JobFits(job[j], Ids, head)

-----------------------------------------------------------------------------
LEMMA EmptyTree == Empty \in Tree
BY DEF Empty, Tree, Text

LEMMA IdleJob == Idle \in JobRecords /\ Idle.at = "idle" /\ Idle.head = 0
<1>1. [p \in Paths |-> "none"] \in Choices
  BY DEF Choices
<1>2. QED BY <1>1, EmptyTree DEF Idle, JobRecords, Stages, Bases

LEMMA LateJobs ==
    ASSUME NEW c \in JobRecords, NEW ps \in SUBSET Paths, NEW ids, NEW now,
           JobFits(c, ids, now)
    PROVE  TooLate(c, ps) \in JobRecords /\ JobFits(TooLate(c, ps), ids, now)
BY DEF TooLate, JobRecords, JobFits

\* a call steps: the other calls may only learn of a change
LEMMA JobsStep ==
    ASSUME JobTypes, NEW j \in Jobs, NEW next \in JobRecords,
           NEW ps \in SUBSET Paths, Steps(j, next, ps),
           NEW ids, Ids \subseteq ids, NEW now \in Nat, head \in Nat, head <= now,
           \A i \in Jobs : JobFits(job[i], Ids, head),
           JobFits(next, ids, now)
    PROVE  JobTypes' /\ \A i \in Jobs : JobFits(job'[i], ids, now)
<1>1. \A i \in Jobs : JobFits(job[i], ids, now)
  BY DEF JobFits, JobTypes, JobRecords
<1>2. \A i \in Jobs : TooLate(job[i], ps) \in JobRecords /\ JobFits(TooLate(job[i], ps), ids, now)
  BY <1>1, LateJobs DEF JobTypes
<1>3. QED BY <1>2 DEF Steps, JobTypes

LEMMA JobGoes ==
    ASSUME JobTypes, NEW j \in Jobs, NEW next \in JobRecords,
           job' = [job EXCEPT ![j] = next],
           NEW ids, Ids \subseteq ids, NEW now \in Nat, head \in Nat, head <= now,
           \A i \in Jobs : JobFits(job[i], Ids, head),
           JobFits(next, ids, now)
    PROVE  JobTypes' /\ \A i \in Jobs : JobFits(job'[i], ids, now)
<1>1. \A i \in Jobs : JobFits(job[i], ids, now)
  BY DEF JobFits, JobTypes, JobRecords
<1>2. QED BY <1>1 DEF JobTypes

\* a plan changes, not what it was made against or what it published
LEMMA PlanChanges ==
    ASSUME PlanTypes, NEW k \in Ids, NEW next \in PlanRecords,
           plans' = [plans EXCEPT ![k] = next],
           NEW now, \A i \in Ids \ {k} : PlanFits(plans[i], now),
           PlanFits(next, now)
    PROVE  /\ PlanTypes' /\ Ids' = Ids
           /\ \A i \in Ids : PlanFits(plans'[i], now)
<1>1. plans \in [Ids -> PlanRecords]
  BY DEF PlanTypes
<1>2. /\ plans' \in [Ids -> PlanRecords] /\ plans'[k] = next
      /\ \A i \in Ids \ {k} : plans'[i] = plans[i]
  BY <1>1
<1>3. Ids' = Ids
  BY <1>2 DEF Ids
<1>4. PlanTypes'
  BY <1>2, <1>3 DEF PlanTypes
<1>5. QED BY <1>2, <1>3, <1>4

LEMMA SettledPlans ==
    ASSUME PlanTypes, NEW c \in JobRecords, c.plan \in Ids, NEW status \in Statuses
    PROVE  /\ Settled(c, status) \in PlanRecords
           /\ Settled(c, status).commits = plans[c.plan].commits
           /\ Settled(c, status).remoteHead = plans[c.plan].remoteHead
<1> DEFINE plan == plans[c.plan]
<1>1. plan \in PlanRecords /\ c.approved \in BOOLEAN /\ c.needs \in BOOLEAN
  BY DEF PlanTypes, JobRecords
<1>2. Settled(c, status) =
        [plan EXCEPT !.status = status, !.approved = c.approved, !.needs = c.needs]
  BY DEF Settled
<1> HIDE DEF plan
<1>3. LET next == [plan EXCEPT !.status = status, !.approved = c.approved,
                               !.needs = c.needs] IN
      /\ next \in PlanRecords
      /\ next.commits = plan.commits /\ next.remoteHead = plan.remoteHead
  BY <1>1 DEF PlanRecords
<1>4. QED BY <1>2, <1>3 DEF plan

LEMMA DroppedPlans ==
    ASSUME NEW plan \in PlanRecords
    PROVE  /\ Dropped(plan) \in PlanRecords
           /\ Dropped(plan).commits = plan.commits
           /\ Dropped(plan).remoteHead = plan.remoteHead
BY EmptyTree DEF PlanRecords, Dropped

LEMMA RefreshedPlans ==
    ASSUME NEW plan \in PlanRecords
    PROVE  /\ Refreshed(plan) \in PlanRecords
           /\ Refreshed(plan).commits = plan.commits
           /\ Refreshed(plan).remoteHead = plan.remoteHead
<1> DEFINE needs == NeedsNow(plan)
           status == CASE Unresolved(plan) -> "conflicts"
                       [] plan.push \cup plan.pull = {}
                            /\ \A p \in Paths : plan.resolution[p] = "none" -> "in-sync"
                       [] ~Unresolved(plan) /\ needs /\ ~plan.approved -> "needs-approval"
                       [] OTHER -> "ready"
<1>1. needs \in BOOLEAN
  BY DEF NeedsNow, PlanRecords
<1>2. status \in Statuses
  BY DEF Statuses
<1>3. Refreshed(plan) = [plan EXCEPT !.needs = needs, !.status = status]
  BY DEF Refreshed
<1> HIDE DEF needs, status
<1>4. QED BY <1>1, <1>2, <1>3 DEF PlanRecords

-----------------------------------------------------------------------------
(* The invariant, by what a step leaves alone.                             *)

\* a step of j that publishes nothing and leaves the plans alone
LEMMA OnlyTheJob ==
    ASSUME IInv, NEW j \in Jobs, NEW next \in JobRecords, NEW ps \in SUBSET Paths,
           Steps(j, next, ps) \/ job' = [job EXCEPT ![j] = next],
           UNCHANGED <<plans, head>>, SideTypes',
           JobFits(next, Ids, head)
    PROVE  IInv'
<1> USE DEF IInv
<1>1. head \in Nat /\ head <= head
  BY DEF SideTypes
<1>2. JobTypes' /\ \A i \in Jobs : JobFits(job'[i], Ids, head)
  BY <1>1, JobsStep, JobGoes
<1>3. PlanTypes' /\ Ids' = Ids
  BY DEF PlanTypes, Ids
<1>4. QED BY <1>2, <1>3

\* a step that publishes nothing and gives plan k another state
LEMMA OnlyThePlan ==
    ASSUME IInv, NEW k \in Ids, NEW next \in PlanRecords,
           plans' = [plans EXCEPT ![k] = next],
           next.commits = plans[k].commits, next.remoteHead = plans[k].remoteHead,
           UNCHANGED head, SideTypes',
           JobTypes', \A j \in Jobs : JobFits(job'[j], Ids, head)
    PROVE  IInv'
<1> USE DEF IInv
<1>1. PlanFits(next, head)
  BY DEF PlanFits
<1>2. PlanTypes' /\ Ids' = Ids /\ \A i \in Ids : PlanFits(plans'[i], head)
  BY <1>1, PlanChanges
<1>3. QED BY <1>2

LEMMA CallsOfApplying ==
    ASSUME IInv, NEW j \in Jobs
    PROVE  /\ job[j] \in JobRecords
           /\ JobFits(job[j], Ids, head)
           /\ job[j].at \in Applying => job[j].plan \in Ids
           /\ JobFits(Idle, Ids, head)
<1>1. Idle.at \notin Applying
  BY IdleJob DEF Applying
<1>2. QED BY <1>1, IdleJob DEF IInv, JobTypes, JobFits, SideTypes

LEMMA FailsKeeps ==
    ASSUME IInv, NEW j \in Jobs, job[j].at \in Applying, Fails(j),
           UNCHANGED head, SideTypes'
    PROVE  IInv'
<1>1. /\ job[j].plan \in Ids /\ job[j] \in JobRecords /\ JobFits(Idle, Ids, head)
  BY CallsOfApplying
<1>2. "failed" \in Statuses
  BY DEF Statuses
<1> DEFINE next == Settled(job[j], "failed")
<1>3. /\ next \in PlanRecords
      /\ next.commits = plans[job[j].plan].commits
      /\ next.remoteHead = plans[job[j].plan].remoteHead
  BY <1>1, <1>2, SettledPlans DEF IInv
<1>4. plans' = [plans EXCEPT ![job[j].plan] = next] /\ Steps(j, Idle, {})
  BY DEF Fails
<1> HIDE DEF next
<1>5. JobTypes' /\ \A i \in Jobs : JobFits(job'[i], Ids, head)
  BY <1>1, <1>4, IdleJob, JobsStep DEF IInv, SideTypes
<1>6. QED BY <1>1, <1>3, <1>4, <1>5, OnlyThePlan

\* the files change, and perhaps the branch's head
LEMMA SidesChange ==
    ASSUME SideTypes, NEW p \in Paths, NEW text \in Text, Local(p, text),
           UNCHANGED <<base, connection>>, used' \in Counters
    PROVE  SideTypes' /\ UNCHANGED head
BY DEF SideTypes, Local, Tree

LEMMA CountersUsed ==
    ASSUME used \in Counters
    PROVE  /\ Use("edits") => used' \in Counters
           /\ Use("plans") => used' \in Counters
           /\ Use("applies") => used' \in Counters
           /\ Use("links") => used' \in Counters
           /\ Mishap => used' \in Counters
BY DEF Use, Mishap, Counters

\* a step that leaves the two sides alone
LEMMA SidesStay ==
    ASSUME SideTypes, UNCHANGED sides, base' \in Bases, connection' \in Nat,
           used' \in Counters
    PROVE  SideTypes' /\ UNCHANGED head
BY DEF SideTypes, sides

-----------------------------------------------------------------------------
(* One lemma for each action.                                              *)

LEMMA PeopleKeep ==
    ASSUME IInv, NEW p \in Paths, NEW text,
           \/ text \in LocalEdits /\ EditProject(p, text)
           \/ text \in RemoteEdits /\ PushToBranch(p, text)
    PROVE  IInv'
<1> USE DEF IInv
<1>1. text \in Text /\ used' \in Counters
  BY SyncAssumption, CountersUsed DEF SideTypes, EditProject, PushToBranch, Text
<1>2. CASE EditProject(p, text)
  <2>1. SideTypes' /\ UNCHANGED head
    BY <1>1, <1>2, SidesChange DEF EditProject
  <2>2. \A j \in Jobs : TooLate(job[j], {p}) \in JobRecords /\ JobFits(TooLate(job[j], {p}), Ids, head)
    BY LateJobs DEF JobTypes
  <2>3. UNCHANGED plans /\ job' = [j \in Jobs |-> TooLate(job[j], {p})]
    BY <1>2 DEF EditProject
  <2>4. QED BY <2>1, <2>2, <2>3 DEF JobTypes, PlanTypes, Ids
<1>3. CASE PushToBranch(p, text)
  <2>1. /\ UNCHANGED <<base, connection, plans, job, local, revision>>
        /\ remote' = [remote EXCEPT ![p] = text] /\ head' = head + 1
    BY <1>3 DEF PushToBranch, Remote
  <2>2. SideTypes'
    BY <1>1, <2>1 DEF SideTypes, Tree
  <2>3. \A k \in Ids : PlanFits(plans[k], head + 1)
    BY DEF PlanFits, PlanTypes, PlanRecords, SideTypes
  <2>4. \A j \in Jobs : JobFits(job[j], Ids, head + 1)
    BY DEF JobFits, JobTypes, JobRecords, SideTypes
  <2>5. QED BY <2>1, <2>2, <2>3, <2>4 DEF JobTypes, PlanTypes, Ids
<1>4. QED BY <1>2, <1>3

LEMMA ConnectKeeps ==
    ASSUME IInv, NEW j \in Jobs, Connect(j) PROVE IInv'
<1> DEFINE next == [job[j] EXCEPT !.at = "connecting", !.link = used.links + 1]
<1>1. SideTypes'
  BY CountersUsed, SidesStay DEF Connect, IInv, SideTypes
<1>2. next \in JobRecords /\ next.at = "connecting" /\ next.head = job[j].head
  <2> DEFINE link == used.links + 1
  <2>1. link \in Nat /\ job[j] \in JobRecords
    BY CallsOfApplying DEF IInv, SideTypes, Counters
  <2> HIDE DEF link
  <2>2. LET start == [job[j] EXCEPT !.at = "connecting", !.link = link] IN
        start \in JobRecords /\ start.at = "connecting" /\ start.head = job[j].head
    BY <2>1 DEF JobRecords, Stages
  <2>3. QED BY <2>2 DEF link
<1>3. job' = [job EXCEPT ![j] = next] /\ UNCHANGED <<plans, head>>
  BY CallsOfApplying DEF Connect, sides, IInv, JobTypes
<1> HIDE DEF next
<1>4. JobFits(next, Ids, head)
  BY <1>2, CallsOfApplying DEF JobFits, Applying
<1>5. {} \in SUBSET Paths
  OBVIOUS
<1>6. QED BY <1>1, <1>2, <1>3, <1>4, <1>5, OnlyTheJob

LEMMA ConnectedKeeps ==
    ASSUME IInv, NEW j \in Jobs, Connected(j) PROVE IInv'
<1>1. SideTypes'
  BY CallsOfApplying, SidesStay DEF Connected, IInv, SideTypes, JobRecords, Bases
<1>2. job' = [job EXCEPT ![j] = Idle] /\ UNCHANGED <<plans, head>>
  BY DEF Connected, sides
<1>3. {} \in SUBSET Paths
  OBVIOUS
<1>4. QED BY <1>1, <1>2, <1>3, IdleJob, CallsOfApplying, OnlyTheJob

LEMMA DisconnectKeeps ==
    ASSUME IInv, Disconnect PROVE IInv'
<1> USE DEF IInv
<1>1. SideTypes'
  BY CountersUsed, SidesStay DEF Disconnect, SideTypes, Bases
<1>2. /\ UNCHANGED <<job, head>>
      /\ plans' = [k \in Ids |-> [plans[k] EXCEPT !.listed = FALSE]]
  BY DEF Disconnect, sides
<1>3. \A k \in Ids :
        /\ [plans[k] EXCEPT !.listed = FALSE] \in PlanRecords
        /\ PlanFits([plans[k] EXCEPT !.listed = FALSE], head)
  BY DEF PlanTypes, PlanRecords, PlanFits
<1>4. Ids' = Ids /\ PlanTypes' /\ \A k \in Ids : PlanFits(plans'[k], head)
  <2>1. Ids' = Ids
    BY <1>2 DEF Ids
  <2>2. QED BY <1>2, <1>3, <2>1 DEF PlanTypes
<1>5. QED BY <1>1, <1>2, <1>4 DEF JobTypes

\* reading one side keeps a call that plans a call that plans
LEMMA SnapshotsFit ==
    ASSUME SideTypes, NEW c \in JobRecords, c.at = "reading", c.head <= head, NEW ids
    PROVE  /\ WithLocal(c) \in JobRecords /\ JobFits(WithLocal(c), ids, head)
           /\ WithRemote(c) \in JobRecords /\ JobFits(WithRemote(c), ids, head)
<1>1. local \in Tree /\ remote \in Tree /\ revision \in Nat /\ head \in Nat
  BY DEF SideTypes
<1>2. WithLocal(c) \in JobRecords /\ WithLocal(c).at = c.at /\ WithLocal(c).head = c.head
  BY <1>1 DEF JobRecords, WithLocal
<1>3. WithRemote(c) \in JobRecords /\ WithRemote(c).at = c.at /\ WithRemote(c).head = head
  BY <1>1 DEF JobRecords, WithRemote
<1>4. QED BY <1>1, <1>2, <1>3 DEF JobFits, Applying

LEMMA CompareKeeps ==
    ASSUME IInv, NEW j \in Jobs, Compare(j) PROVE IInv'
<1> DEFINE next == [job[j] EXCEPT !.at = "reading", !.link = connection]
<1>1. SideTypes'
  BY CountersUsed, SidesStay DEF Compare, IInv, SideTypes
<1>2. next \in JobRecords /\ next.at = "reading" /\ next.head <= head
  <2>1. connection \in Nat /\ job[j] \in JobRecords /\ job[j].head <= head
    BY CallsOfApplying DEF IInv, SideTypes, JobFits
  <2>2. QED BY <2>1 DEF JobRecords, Stages
<1>3. /\ \/ job' = [job EXCEPT ![j] = WithLocal(next)]
         \/ job' = [job EXCEPT ![j] = WithRemote(next)]
      /\ UNCHANGED <<plans, head>>
  BY DEF Compare, sides
<1> HIDE DEF next
<1>4. {} \in SUBSET Paths
  OBVIOUS
<1>5. QED BY <1>1, <1>2, <1>3, <1>4, SnapshotsFit, OnlyTheJob DEF IInv

LEMMA ReadOtherKeeps ==
    ASSUME IInv, NEW j \in Jobs, ReadOther(j) PROVE IInv'
<1>1. SideTypes'
  BY SidesStay DEF ReadOther, IInv, SideTypes
<1>2. job[j] \in JobRecords /\ job[j].at = "reading" /\ job[j].head <= head
  BY CallsOfApplying DEF ReadOther, JobFits
<1>3. /\ \/ job' = [job EXCEPT ![j] = WithLocal(job[j])]
         \/ job' = [job EXCEPT ![j] = WithRemote(job[j])]
      /\ UNCHANGED <<plans, head>>
  BY DEF ReadOther, sides
<1>4. {} \in SUBSET Paths
  OBVIOUS
<1>5. QED BY <1>1, <1>2, <1>3, <1>4, SnapshotsFit, OnlyTheJob DEF IInv

LEMMA Proposals ==
    ASSUME NEW c \in JobRecords, NEW now, c.head <= now
    PROVE  Proposal(c) \in PlanRecords /\ PlanFits(Proposal(c), now)
<1> DEFINE status == Proposal(c).status
           resolution == [p \in Paths |-> IF p \in c.conflicts THEN "open" ELSE "none"]
<1>1. resolution \in [Paths -> Resolutions \cup {"open", "none"}]
  OBVIOUS
<1>2. (CASE c.conflicts # {} -> "conflicts"
         [] c.conflicts = {} /\ c.push \cup c.pull = {} -> "in-sync"
         [] c.conflicts = {} /\ c.push \cup c.pull # {} /\ c.needs -> "needs-approval"
         [] OTHER -> "ready") \in Statuses
  BY DEF Statuses
<1>3. QED BY <1>1, <1>2 DEF Proposal, PlanRecords, JobRecords, PlanFits

LEMMA NextId ==
    ASSUME PlanTypes
    PROVE  \E n \in Nat : Ids = 1..n /\ Cardinality(Ids) + 1 = n + 1
<1>1. PICK n \in Nat : Ids = 1..n
  BY DEF PlanTypes, Numbered
<1>2. Cardinality(1..n) = n
  BY FS_Interval
<1>3. QED BY <1>1, <1>2

\* the plan is stored, or there are texts to fetch
LEMMA ProceedKeeps ==
    ASSUME IInv, NEW j \in Jobs, NEW next \in JobRecords, Proceed(j, next),
           next.at = "fetching", next.head <= head,
           UNCHANGED head, SideTypes'
    PROVE  IInv'
<1> USE DEF IInv
<1>1. JobFits(next, Ids, head)
  BY DEF JobFits, Applying
<1>2. CASE job' = [job EXCEPT ![j] = next] /\ UNCHANGED plans
  <2>1. {} \in SUBSET Paths
    OBVIOUS
  <2>2. QED BY <1>1, <1>2, <2>1, OnlyTheJob
<1>3. CASE next.todo = {}
  <2> DEFINE id == Cardinality(Ids) + 1
             old(k) == IF Open(k) THEN [plans[k] EXCEPT !.listed = FALSE] ELSE plans[k]
             plan(k) == IF k = id THEN Proposal(next) ELSE old(k)
  <2>1. PICK n \in Nat : Ids = 1..n /\ id = n + 1
    BY NextId
  <2>2. plans' = [k \in Ids \cup {id} |-> plan(k)] /\ job' = [job EXCEPT ![j] = Idle]
    BY <1>3 DEF Proceed
  <2>3. \A k \in Ids : old(k) \in PlanRecords /\ PlanFits(old(k), head)
    BY DEF PlanTypes, PlanRecords, PlanFits
  <2>4. Proposal(next) \in PlanRecords /\ PlanFits(Proposal(next), head)
    BY Proposals
  <2> HIDE DEF id, old
  <2>5. \A k \in Ids \cup {id} : plan(k) \in PlanRecords /\ PlanFits(plan(k), head)
    BY <2>3, <2>4
  <2> HIDE DEF plan
  <2>6. Ids' = Ids \cup {id}
    BY <2>2 DEF Ids
  <2>7. Numbered(Ids \cup {id})
    BY <2>1 DEF Numbered
  <2>8. PlanTypes' /\ \A k \in Ids' : PlanFits(plans'[k], head)
    BY <2>1, <2>2, <2>5, <2>6, <2>7 DEF PlanTypes
  <2>9. JobTypes' /\ \A i \in Jobs : JobFits(job'[i], Ids', head)
    BY <2>2, <2>6, IdleJob, CallsOfApplying DEF JobTypes, JobFits
  <2>10. QED BY <2>8, <2>9
<1>4. QED BY <1>2, <1>3 DEF Proceed

LEMMA BuildPlanKeeps ==
    ASSUME IInv, NEW j \in Jobs, BuildPlan(j) PROVE IInv'
<1> DEFINE c == job[j]
           of(outcome) == With(outcome, base, c.local, c.remote)
           needs == NeedsApproval(of("push"), of("conflict"), base, Participating(c.local))
           todo == {p \in of("pull") \cup of("conflict") : c.remote[p] # Absent}
           next == [c EXCEPT
                      !.at = "fetching", !.gotLocal = FALSE, !.gotRemote = FALSE,
                      !.push = of("push"), !.pull = of("pull"), !.conflicts = of("conflict"),
                      !.needs = needs, !.todo = todo]
<1>1. c \in JobRecords /\ c.head <= head
  BY CallsOfApplying DEF JobFits
<1>2. SideTypes' /\ UNCHANGED head
  BY SidesStay DEF BuildPlan, IInv, SideTypes
<1>3. \A outcome : of(outcome) \in SUBSET Paths
  BY DEF With
<1>4. needs \in BOOLEAN
  BY DEF NeedsApproval
<1>5. todo \in SUBSET Paths
  BY <1>3
<1>6. Proceed(j, next)
  BY DEF BuildPlan
<1> HIDE DEF of, needs, todo
<1>7. next \in JobRecords /\ next.at = "fetching" /\ next.head = c.head
  BY <1>1, <1>3, <1>4, <1>5 DEF JobRecords, Stages
<1> HIDE DEF next
<1>8. QED BY <1>1, <1>2, <1>6, <1>7, ProceedKeeps

LEMMA FetchKeeps ==
    ASSUME IInv, NEW j \in Jobs, NEW p \in Paths, Fetch(j, p) PROVE IInv'
<1> DEFINE c == job[j]
           text == [c.remote EXCEPT ![p] = remote[p]]
           pull == IF remote[p] \in Withheld THEN c.pull \ {p} ELSE c.pull
           next == [c EXCEPT !.todo = @ \ {p}, !.remote = text, !.pull = pull]
<1>1. c \in JobRecords /\ c.at = "fetching" /\ c.head <= head
  BY CallsOfApplying DEF JobFits, Fetch
<1>2. SideTypes' /\ UNCHANGED head
  BY SidesStay DEF Fetch, IInv, SideTypes
<1>3. CASE job' = [job EXCEPT ![j] = Idle] /\ UNCHANGED plans
  <2>1. {} \in SUBSET Paths
    OBVIOUS
  <2>2. QED BY <1>2, <1>3, <2>1, IdleJob, CallsOfApplying, OnlyTheJob
<1>4. CASE remote[p] # Absent
  <2>1. Proceed(j, next)
    BY <1>4 DEF Fetch
  <2>2. text \in Tree
    BY <1>1 DEF JobRecords, IInv, SideTypes, Tree
  <2>3. pull \in SUBSET Paths
    BY <1>1 DEF JobRecords
  <2> HIDE DEF text, pull
  <2>4. next \in JobRecords /\ next.at = "fetching" /\ next.head = c.head
    BY <1>1, <2>2, <2>3 DEF JobRecords, Stages
  <2> HIDE DEF next
  <2>5. QED BY <1>1, <1>2, <2>1, <2>4, ProceedKeeps
<1>5. QED BY <1>3, <1>4 DEF Fetch

(***************************************************************************)
(* Decisions about a plan.                                                 *)
(***************************************************************************)
LEMMA ChangeKeeps ==
    ASSUME IInv, NEW k \in Ids, NEW next \in PlanRecords, Change(k, next),
           next.commits = plans[k].commits, next.remoteHead = plans[k].remoteHead,
           used' \in Counters
    PROVE  IInv'
<1>1. SideTypes' /\ UNCHANGED <<head, job>>
  BY SidesStay DEF Change, IInv, SideTypes
<1>2. JobTypes' /\ \A j \in Jobs : JobFits(job'[j], Ids, head)
  BY <1>1 DEF IInv, JobTypes
<1>3. plans' = [plans EXCEPT ![k] = next]
  BY DEF Change
<1>4. QED BY <1>1, <1>2, <1>3, OnlyThePlan

LEMMA DecisionsKeep ==
    ASSUME IInv, NEW k \in Ids,
           \/ Expire(k) \/ Approve(k) \/ Cancel(k)
           \/ \E p \in Paths : \E resolution \in Resolutions :
                ResolveConflict(k, p, resolution)
    PROVE  IInv'
<1> DEFINE plan == plans[k]
<1>1. plan \in PlanRecords /\ used \in Counters
  BY DEF IInv, PlanTypes, SideTypes
<1>2. CASE Expire(k)
  <2> DEFINE over == [plan EXCEPT !.status = "expired", !.expired = TRUE]
  <2>1. over \in PlanRecords /\ over.commits = plan.commits
        /\ over.remoteHead = plan.remoteHead
    BY <1>1 DEF PlanRecords, Statuses
  <2>2. Change(k, Dropped(over)) /\ Mishap
    BY <1>2 DEF Expire
  <2> HIDE DEF over
  <2>3. QED BY <1>1, <2>1, <2>2, DroppedPlans, CountersUsed, ChangeKeeps
<1>3. CASE Approve(k)
  <2> DEFINE next == [plan EXCEPT !.approved = TRUE]
  <2>1. next \in PlanRecords /\ next.commits = plan.commits
        /\ next.remoteHead = plan.remoteHead
    BY <1>1 DEF PlanRecords
  <2>2. Change(k, Refreshed(next)) /\ UNCHANGED used
    BY <1>3 DEF Approve
  <2> HIDE DEF next
  <2>3. QED BY <1>1, <2>1, <2>2, RefreshedPlans, ChangeKeeps
<1>4. CASE Cancel(k)
  <2> DEFINE next == [plan EXCEPT !.cancelled = TRUE, !.status = "cancelled"]
  <2>1. next \in PlanRecords /\ next.commits = plan.commits
        /\ next.remoteHead = plan.remoteHead
    BY <1>1 DEF PlanRecords, Statuses
  <2>2. Change(k, next) /\ Mishap
    BY <1>4 DEF Cancel
  <2> HIDE DEF next
  <2>3. QED BY <1>1, <2>1, <2>2, CountersUsed, ChangeKeeps
<1>5. ASSUME NEW p \in Paths, NEW resolution \in Resolutions,
             ResolveConflict(k, p, resolution)
      PROVE  IInv'
  <2> DEFINE resolutions == [plan.resolution EXCEPT ![p] = resolution]
             next == [plan EXCEPT !.resolution = resolutions]
  <2>1. resolutions \in [Paths -> Resolutions \cup {"open", "none"}]
    BY <1>1 DEF PlanRecords
  <2>2. [plan EXCEPT !.resolution[p] = resolution] = next
    OBVIOUS
  <2> HIDE DEF resolutions
  <2>3. next \in PlanRecords /\ next.commits = plan.commits
        /\ next.remoteHead = plan.remoteHead
    BY <1>1, <2>1 DEF PlanRecords
  <2>4. Change(k, Refreshed(next)) /\ UNCHANGED used
    BY <1>5, <2>2 DEF ResolveConflict
  <2> HIDE DEF next
  <2>5. QED BY <1>1, <2>3, <2>4, RefreshedPlans, ChangeKeeps
<1>6. QED BY <1>2, <1>3, <1>4, <1>5

(***************************************************************************)
(* Applying a plan.                                                        *)
(***************************************************************************)
LEMMA ApplyKeeps ==
    ASSUME IInv, NEW j \in Jobs, NEW k \in Ids, Apply(j, k) PROVE IInv'
<1> DEFINE next == [Idle EXCEPT
              !.at = "checked", !.plan = k, !.link = connection,
              !.approved = plans[k].approved, !.needs = plans[k].needs,
              !.agreed = plans[k].resolution]
<1>1. SideTypes'
  BY CountersUsed, SidesStay DEF Apply, IInv, SideTypes
<1>2. job' = [job EXCEPT ![j] = next] /\ UNCHANGED <<plans, head>>
  BY DEF Apply, sides
<1>3. k \in Nat /\ plans[k] \in PlanRecords /\ connection \in Nat /\ head \in Nat
  <2>1. k \in Nat
    BY NextId DEF IInv
  <2>2. QED BY <2>1 DEF IInv, PlanTypes, SideTypes
<1>4. plans[k].approved \in BOOLEAN /\ plans[k].needs \in BOOLEAN
      /\ plans[k].resolution \in Choices
  BY <1>3 DEF PlanRecords, Choices
<1>5. next \in JobRecords /\ next.plan = k /\ next.head = 0
  BY <1>3, <1>4, IdleJob DEF JobRecords, Stages, Applying
<1> HIDE DEF next
<1>6. JobFits(next, Ids, head)
  BY <1>3, <1>5 DEF JobFits
<1>7. {} \in SUBSET Paths
  OBVIOUS
<1>8. QED BY <1>1, <1>2, <1>5, <1>6, <1>7, OnlyTheJob

LEMMA CollectedJobs ==
    ASSUME IInv, NEW c \in JobRecords, c.plan \in Ids
    PROVE  /\ Collected(c) \in JobRecords
           /\ Collected(c).plan = c.plan /\ Collected(c).head = c.head
<1> DEFINE plan == plans[c.plan]
           resolved(rs) == {p \in Paths : plan.resolution[p] \in rs}
           out == plan.push \cup resolved({"keep-local", "manual"})
           in == plan.pull \cup resolved({"keep-remote", "manual"})
           chosen(ps, t) == [p \in Paths |->
               IF p \notin ps THEN Absent
               ELSE IF plan.resolution[p] = "manual" THEN Merged ELSE t[p]]
           mine == chosen(out, plan.mine)
           theirs == chosen(in, plan.theirs)
           agreed == plan.resolution
           swayed == plan.expired \/ plan.resolution # c.agreed
           got == [c EXCEPT
                     !.publish = out, !.changes = mine,
                     !.pulled = in, !.incoming = theirs, !.write = in,
                     !.swayed = swayed, !.agreed = agreed, !.late = {}]
<1>1. plan \in PlanRecords
  BY DEF IInv, PlanTypes
<1>2. out \in SUBSET Paths /\ in \in SUBSET Paths
  BY <1>1 DEF PlanRecords
<1>3. plan.mine \in Tree /\ plan.theirs \in Tree
  BY <1>1 DEF PlanRecords
<1>4. mine \in Tree /\ theirs \in Tree
  BY <1>3, SyncAssumption DEF Tree, Text
<1>5. agreed \in Choices /\ swayed \in BOOLEAN
  BY <1>1 DEF PlanRecords, Choices
<1>6. Collected(c) = got
  BY DEF Collected
<1> HIDE DEF plan, out, in, mine, theirs, swayed, agreed
<1>7. got \in JobRecords /\ got.plan = c.plan /\ got.head = c.head
  BY <1>2, <1>4, <1>5 DEF JobRecords
<1>8. QED BY <1>6, <1>7

LEMMA OnwardJobs ==
    ASSUME SideTypes, NEW c \in JobRecords
    PROVE  /\ Onward(c) \in JobRecords
           /\ Onward(c).plan = c.plan /\ Onward(c).head = c.head
BY DEF Onward, JobRecords, SideTypes, Stages, Applying

\* a call that applies and keeps its plan fits at every stage
LEMMA AppliesOn ==
    ASSUME IInv, NEW j \in Jobs, job[j].at \in Applying,
           NEW next \in JobRecords, NEW ps \in SUBSET Paths, Steps(j, next, ps),
           next.plan = job[j].plan, next.head = job[j].head,
           UNCHANGED <<plans, head>>, SideTypes'
    PROVE  IInv'
<1>1. JobFits(next, Ids, head)
  BY CallsOfApplying DEF JobFits
<1>2. QED BY <1>1, OnlyTheJob

LEMMA LeavesOff ==
    ASSUME IInv, NEW j \in Jobs, Steps(j, Idle, {}), UNCHANGED <<plans, head>>, SideTypes'
    PROVE  IInv'
<1>1. {} \in SUBSET Paths
  OBVIOUS
<1>2. QED BY <1>1, IdleJob, CallsOfApplying, OnlyTheJob

LEMMA CollectKeeps ==
    ASSUME IInv, NEW j \in Jobs, Collect(j) PROVE IInv'
<1> DEFINE next == Collected(job[j])
           publishes == [next EXCEPT !.at = "publishing"]
           writes == Onward([next EXCEPT !.at = "writing"])
<1>1. job[j] \in JobRecords /\ job[j].at \in Applying /\ job[j].plan \in Ids
  BY CallsOfApplying DEF Collect, Applying
<1>2. SideTypes' /\ UNCHANGED head
  BY SidesStay DEF Collect, IInv, SideTypes
<1>3. \/ Steps(j, Idle, {}) /\ UNCHANGED plans
      \/ Fails(j)
      \/ Steps(j, publishes, {}) /\ UNCHANGED plans
      \/ Steps(j, writes, {}) /\ UNCHANGED plans
  BY DEF Collect
<1>4. next \in JobRecords /\ next.plan = job[j].plan /\ next.head = job[j].head
  BY <1>1, CollectedJobs
<1> HIDE DEF next
<1>5. publishes \in JobRecords /\ publishes.plan = next.plan /\ publishes.head = next.head
  BY <1>4 DEF JobRecords, Stages, Applying
<1> HIDE DEF publishes
<1>6. writes \in JobRecords /\ writes.plan = next.plan /\ writes.head = next.head
  <2> DEFINE ready == [next EXCEPT !.at = "writing"]
  <2>1. ready \in JobRecords /\ ready.plan = next.plan /\ ready.head = next.head
    BY <1>4 DEF JobRecords, Stages, Applying
  <2> HIDE DEF ready
  <2>2. Onward(ready) \in JobRecords /\ Onward(ready).plan = next.plan
        /\ Onward(ready).head = next.head
    BY <2>1, OnwardJobs DEF IInv
  <2>3. QED BY <2>2 DEF ready
<1> HIDE DEF writes
<1>7. {} \in SUBSET Paths
  OBVIOUS
<1>8. QED BY <1>1, <1>2, <1>3, <1>4, <1>5, <1>6, <1>7, LeavesOff, FailsKeeps, AppliesOn

LEMMA RefusalsKeep ==
    ASSUME IInv, NEW j \in Jobs, PublishRefused(j) \/ CallFails(j) \/ WriteFails(j)
    PROVE  IInv'
<1>1. job[j].at \in Applying
  BY DEF PublishRefused, CallFails, WriteFails, Applying
<1>2. SideTypes' /\ UNCHANGED head
  BY CountersUsed, SidesStay DEF PublishRefused, CallFails, WriteFails, IInv, SideTypes
<1>3. Fails(j)
  BY DEF PublishRefused, CallFails, WriteFails
<1>4. QED BY <1>1, <1>2, <1>3, FailsKeeps

LEMMA AnsweredKeeps ==
    ASSUME IInv, NEW j \in Jobs, Answered(j) PROVE IInv'
<1> DEFINE ready == [job[j] EXCEPT !.at = "writing"]
<1>1. job[j] \in JobRecords /\ job[j].at \in Applying
  BY CallsOfApplying DEF Answered, Applying
<1>2. SideTypes' /\ UNCHANGED head
  BY SidesStay DEF Answered, IInv, SideTypes
<1>3. \/ Fails(j)
      \/ Steps(j, Onward(ready), {}) /\ UNCHANGED plans
  BY DEF Answered
<1>4. ready \in JobRecords /\ ready.plan = job[j].plan /\ ready.head = job[j].head
  BY <1>1 DEF JobRecords, Stages, Applying
<1> HIDE DEF ready
<1>5. Onward(ready) \in JobRecords /\ Onward(ready).plan = job[j].plan
      /\ Onward(ready).head = job[j].head
  BY <1>4, OnwardJobs DEF IInv
<1>6. {} \in SUBSET Paths
  OBVIOUS
<1>7. QED BY <1>1, <1>2, <1>3, <1>5, <1>6, FailsKeeps, AppliesOn

LEMMA WriteFileKeeps ==
    ASSUME IInv, NEW j \in Jobs, NEW p \in Paths, WriteFile(j, p) PROVE IInv'
<1> DEFINE done == [job[j] EXCEPT !.write = @ \ {p}]
<1>1. job[j] \in JobRecords /\ job[j].at \in Applying
  BY CallsOfApplying DEF WriteFile, Applying
<1>2. job[j].incoming[p] \in Text
  BY <1>1 DEF JobRecords, Tree
<1>3. SideTypes' /\ UNCHANGED <<plans, head>>
  BY <1>2, SidesChange DEF WriteFile, IInv, SideTypes
<1>4. Steps(j, Onward(done), {p})
  BY DEF WriteFile
<1>5. done \in JobRecords /\ done.plan = job[j].plan /\ done.head = job[j].head
  BY <1>1 DEF JobRecords
<1> HIDE DEF done
<1>6. Onward(done) \in JobRecords /\ Onward(done).plan = job[j].plan
      /\ Onward(done).head = job[j].head
  BY <1>5, OnwardJobs DEF IInv
<1>7. QED BY <1>1, <1>3, <1>4, <1>6, AppliesOn

LEMMA RereadsKeep ==
    ASSUME IInv, NEW j \in Jobs, RereadLocal(j) \/ RereadFails(j) PROVE IInv'
<1>1. SideTypes' /\ UNCHANGED <<plans, head>>
  BY CountersUsed, SidesStay DEF RereadLocal, RereadFails, sides, IInv, SideTypes
<1>2. CASE RereadLocal(j)
  <2> DEFINE next == [job[j] EXCEPT !.at = "closing", !.local = local]
  <2>1. job[j] \in JobRecords /\ job[j].at \in Applying
    BY <1>2, CallsOfApplying DEF RereadLocal, Applying
  <2>2. next \in JobRecords /\ next.plan = job[j].plan /\ next.head = job[j].head
    BY <2>1 DEF JobRecords, Stages, Applying, IInv, SideTypes
  <2>3. Steps(j, next, {})
    BY <1>2 DEF RereadLocal
  <2> HIDE DEF next
  <2>4. {} \in SUBSET Paths
    OBVIOUS
  <2>5. QED BY <1>1, <2>1, <2>2, <2>3, <2>4, AppliesOn
<1>3. CASE RereadFails(j)
  BY <1>1, <1>3, LeavesOff DEF RereadFails
<1>4. QED BY <1>2, <1>3

LEMMA FinishKeeps ==
    ASSUME IInv, NEW j \in Jobs, Finish(j) PROVE IInv'
<1> DEFINE k == job[j].plan
           next == Settled(job[j], "applied")
<1>1. job[j] \in JobRecords /\ k \in Ids /\ JobFits(Idle, Ids, head)
  BY CallsOfApplying DEF Finish, Applying
<1>2. NewBase(job[j]) \in Bases
  BY <1>1, SyncAssumption DEF NewBase, Bases, Tree, Text, JobRecords, IInv, SideTypes
<1>3. SideTypes' /\ UNCHANGED head
  BY <1>1, <1>2 DEF Finish, sides, IInv, SideTypes, JobRecords
<1>4. /\ next \in PlanRecords
      /\ next.commits = plans[k].commits /\ next.remoteHead = plans[k].remoteHead
  BY <1>1, SettledPlans DEF IInv, Statuses
<1>5. plans' = [plans EXCEPT ![k] = Dropped(next)] /\ Steps(j, Idle, {})
  BY DEF Finish
<1> HIDE DEF k, next
<1>6. JobTypes' /\ \A i \in Jobs : JobFits(job'[i], Ids, head)
  BY <1>1, <1>5, IdleJob, JobsStep DEF IInv, SideTypes
<1>7. QED BY <1>1, <1>3, <1>4, <1>5, <1>6, DroppedPlans, OnlyThePlan

\* the plan was made against the head that the commit moves
LEMMA PublishKeeps ==
    ASSUME IInv, NEW j \in Jobs, Publish(j) PROVE IInv'
<1> DEFINE k == job[j].plan
           files == [p \in Paths |-> IF p \in job[j].publish THEN job[j].changes[p]
                                     ELSE remote[p]]
           commits == plans[k].commits + 1
           plan == [plans[k] EXCEPT !.commits = commits]
           next == [job[j] EXCEPT !.at = "answered"]
<1>1. /\ job[j] \in JobRecords /\ job[j].at \in Applying /\ k \in Ids
      /\ JobFits(job[j], Ids, head)
      /\ head = plans[k].remoteHead /\ plans[k] \in PlanRecords /\ head \in Nat
      /\ PlanFits(plans[k], head)
  BY CallsOfApplying DEF Publish, Applying, IInv, PlanTypes, SideTypes
<1>2. files \in Tree
  BY <1>1 DEF IInv, SideTypes, JobRecords, Tree
<1>3. head' = head + 1 /\ SideTypes'
  BY <1>2 DEF Publish, Remote, IInv, SideTypes
<1>4. commits = 1
  BY <1>1 DEF PlanFits
<1>5. plans' = [plans EXCEPT ![k] = plan] /\ Steps(j, next, {})
  BY DEF Publish, IInv, PlanTypes
<1> HIDE DEF files, commits
<1>6. plan \in PlanRecords /\ plan.commits = 1 /\ plan.remoteHead = head
  BY <1>1, <1>4 DEF PlanRecords
<1>7. next \in JobRecords /\ next.plan = k /\ next.head = job[j].head
  BY <1>1 DEF JobRecords, Stages, Applying
<1> HIDE DEF k, plan, next
<1>8. PlanFits(plan, head + 1) /\ \A i \in Ids : PlanFits(plans[i], head + 1)
  BY <1>1, <1>6 DEF PlanFits, IInv, PlanTypes, PlanRecords
<1>9. PlanTypes' /\ Ids' = Ids /\ \A i \in Ids : PlanFits(plans'[i], head + 1)
  BY <1>1, <1>5, <1>6, <1>8, PlanChanges DEF IInv
<1>10. JobFits(next, Ids, head + 1)
  BY <1>1, <1>7 DEF JobFits, JobRecords
<1>11. JobTypes' /\ \A i \in Jobs : JobFits(job'[i], Ids, head + 1)
  BY <1>1, <1>5, <1>7, <1>10, JobsStep DEF IInv
<1>12. QED BY <1>3, <1>9, <1>11 DEF IInv

-----------------------------------------------------------------------------
LEMMA InitInvariant == Init => IInv
<1> SUFFICES ASSUME Init PROVE IInv
  OBVIOUS
<1>1. SideTypes
  <2>1. used \in Counters /\ revision \in Nat /\ head \in Nat /\ connection \in Nat
    BY DEF Init, Counters
  <2>2. local \in Tree /\ remote \in Tree /\ base \in Bases
    <3>1. PICK start \in Starts : local = start.local /\ remote = start.remote
                                 /\ base = start.base
      BY DEF Init
    <3>2. QED BY <3>1, SyncAssumption DEF Tree, Text, Bases
  <2>3. QED BY <2>1, <2>2 DEF SideTypes
<1>2. Ids = {}
  BY DEF Init, Ids
<1>3. PlanTypes
  <2>1. plans \in [{} -> PlanRecords]
    BY DEF Init
  <2>2. Numbered(Ids)
    BY <1>2 DEF Numbered
  <2>3. QED BY <1>2, <2>1, <2>2 DEF PlanTypes
<1>4. JobTypes /\ \A j \in Jobs : JobFits(job[j], Ids, head)
  BY IdleJob DEF Init, JobTypes, JobFits, Applying
<1>5. QED BY <1>1, <1>2, <1>3, <1>4 DEF IInv

LEMMA StepInvariant == IInv /\ [Next]_vars => IInv'
<1> SUFFICES ASSUME IInv, [Next]_vars PROVE IInv'
  OBVIOUS
<1>1. CASE \/ \E p \in Paths : \E text \in LocalEdits : EditProject(p, text)
           \/ \E p \in Paths : \E text \in RemoteEdits : PushToBranch(p, text)
  BY <1>1, PeopleKeep
<1>2. CASE Disconnect
  BY <1>2, DisconnectKeeps
<1>3. ASSUME NEW j \in Jobs,
             \/ Connect(j) \/ Connected(j)
             \/ Compare(j) \/ ReadOther(j) \/ BuildPlan(j)
             \/ \E p \in Paths : Fetch(j, p) \/ WriteFile(j, p)
             \/ \E k \in Ids : Apply(j, k)
             \/ Collect(j) \/ Publish(j) \/ PublishRefused(j) \/ CallFails(j) \/ Answered(j)
             \/ WriteFails(j) \/ RereadLocal(j) \/ RereadFails(j) \/ Finish(j)
      PROVE  IInv'
  BY <1>3, ConnectKeeps, ConnectedKeeps, CompareKeeps, ReadOtherKeeps, BuildPlanKeeps,
     FetchKeeps, WriteFileKeeps, ApplyKeeps, CollectKeeps, PublishKeeps, RefusalsKeep,
     AnsweredKeeps, RereadsKeep, FinishKeeps
<1>4. ASSUME NEW k \in Ids,
             \/ Expire(k) \/ Approve(k) \/ Cancel(k)
             \/ \E p \in Paths : \E resolution \in Resolutions :
                  ResolveConflict(k, p, resolution)
      PROVE  IInv'
  BY <1>4, DecisionsKeep
<1>5. CASE UNCHANGED vars
  BY <1>5 DEF vars, sides, IInv, SideTypes, PlanTypes, JobTypes, Ids
<1>6. QED BY <1>1, <1>2, <1>3, <1>4, <1>5 DEF Next

(* A plan publishes one commit at most, for any number of calls that apply *)
(* it, at once or again after a failure, and whatever others push: it was  *)
(* made against one head of the branch, and its commit moves the head.     *)
THEOREM PlansPublishOnce == Spec => []PublishedOnce
<1>1. IInv => PublishedOnce
  BY DEF IInv, PlanFits, PublishedOnce
<1>2. QED BY <1>1, InitInvariant, StepInvariant, PTL DEF Spec

-----------------------------------------------------------------------------
(* What a sync may write over, and delete.  The state of both sides, and   *)
(* every file that was ever on them:                                       *)
World == [local |-> local, revision |-> revision, remote |-> remote, head |-> head,
          everLocal |-> everLocal, everRemote |-> everRemote]

\* The text of path p was seen on a side.
Held(p, text, ever) == text = Absent \/ <<p, text>> \in ever
Seen(t, ever) == \A p \in Paths : Held(p, t[p], ever)

\* A pull may write over the project's file, a push may replace the branch's.
MayWrite(p, w) == Held(p, w.local[p], w.everRemote) \/ w.local[p] \in Withheld
MayReplace(p, w) == Held(p, w.remote[p], w.everLocal)

\* What was agreed on was on both sides.
Agreed(b, w) == b # NoBase => Seen(b, w.everLocal) /\ Seen(b, w.everRemote)

SidesAreSeen(b, w) ==
    Seen(w.local, w.everLocal) /\ Seen(w.remote, w.everRemote) /\ Agreed(b, w)

\* A plan that deletes from the branch asks for approval, while it holds its texts
\* and could still be published.
DeletionAsks(plan, needs, w) ==
    \/ plan.expired \/ plan.remoteHead < w.head
    \/ needs \/ \A p \in plan.push : plan.mine[p] # Absent

PlanIsSafe(plan, w) ==
    /\ Seen(plan.mine, w.everLocal) /\ Seen(plan.theirs, w.everRemote)
    /\ plan.localRevision <= w.revision
    /\ plan.localRevision = w.revision => \A p \in plan.pull : MayWrite(p, w)
    /\ plan.remoteHead = w.head => \A p \in plan.push : MayReplace(p, w)
    /\ DeletionAsks(plan, plan.needs, w)

\* What a call found when it compared the two sides.
ComparesSafely(c, w) ==
    /\ c.rev <= w.revision
    /\ c.at = "idle" => c = Idle
    /\ c.at = "reading" /\ c.gotLocal /\ c.rev = w.revision => c.local = w.local
    /\ c.at = "reading" /\ c.gotRemote /\ c.head = w.head => c.remote = w.remote
    /\ c.at = "fetching" =>
         /\ c.rev = w.revision => \A p \in c.pull : MayWrite(p, w)
         /\ c.head = w.head => \A p \in c.push : MayReplace(p, w)
         /\ c.needs \/ \A p \in c.push : c.local[p] # Absent

\* The texts that a call brings from one side to the other.
TextsAreSeen(c, w) ==
    /\ Seen(c.local, w.everLocal) /\ Seen(c.remote, w.everRemote) /\ Agreed(c.base, w)
    /\ \A p \in c.publish \ c.pulled : Held(p, c.changes[p], w.everLocal)
    /\ \A p \in c.pulled :
         \/ Held(p, c.incoming[p], w.everRemote)
         \/ p \in c.publish /\ c.changes[p] = c.incoming[p]
    /\ \A p \in c.pulled \ c.write : Held(p, c.incoming[p], w.everLocal)
    /\ c.at \in {"answered", "writing", "rebasing", "closing"} =>
         \A p \in c.publish : Held(p, c.changes[p], w.everRemote)
    /\ c.at \in {"rebasing", "closing"} => c.write = {}

WritesSafely(c, w) ==
    c.at \in {"publishing", "answered", "writing"} =>
        \A p \in c.write \ c.late :
            MayWrite(p, w) \/ c.agreed[p] \in {"keep-remote", "manual"}

JobIsSafe(c, w) == ComparesSafely(c, w) /\ TextsAreSeen(c, w) /\ WritesSafely(c, w)

Asks(c) == c.needs \/ \E p \in Paths : c.agreed[p] \in {"keep-local", "manual"}

\* What a call that applies the plan has collected.
CollectedSafely(c, plan, w) ==
    /\ DeletionAsks(plan, c.needs, w)
    /\ ~c.swayed /\ Asks(c) => c.approved
    /\ c.at = "checked" => ~c.swayed
    /\ c.at \in {"publishing", "answered", "writing", "rebasing", "closing"} =>
         plan.push \subseteq c.publish
    /\ c.at = "publishing" =>
         /\ \A p \in c.publish : p \in plan.push \/ c.agreed[p] \in {"keep-local", "manual"}
         /\ \/ c.approved \/ c.swayed \/ plan.remoteHead < w.head
            \/ \A p \in c.publish : c.changes[p] # Absent
    /\ c.at \in {"answered", "writing", "rebasing", "closing"} =>
         c.publish = {} \/ plan.remoteHead < w.head

LossInv ==
    /\ SidesAreSeen(base, World)
    /\ \A k \in Ids : PlanIsSafe(plans[k], World)
    /\ \A j \in Jobs :
         /\ JobIsSafe(job[j], World)
         /\ job[j].at \in Applying => CollectedSafely(job[j], plans[job[j].plan], World)

\* What a step may do to the two sides when it changes the project's files at ps only.
Grows(w, v, ps) ==
    /\ w.revision \in Nat /\ v.revision \in Nat /\ w.head \in Nat /\ v.head \in Nat
    /\ w.revision <= v.revision /\ w.head <= v.head
    /\ v.revision = w.revision => v.local = w.local
    /\ v.head = w.head => v.remote = w.remote
    /\ \A p \in Paths \ ps : v.local[p] = w.local[p]
    /\ w.everLocal \subseteq v.everLocal /\ w.everRemote \subseteq v.everRemote

\* What a step may do to a plan.
PlanMoves(plan, next, w) ==
    /\ next.push = plan.push /\ next.pull = plan.pull
    /\ next.localRevision = plan.localRevision /\ next.remoteHead = plan.remoteHead
    /\ plan.expired => next.expired
    /\ \/ next.mine = plan.mine
       \/ /\ next.mine = Empty
          /\ next.expired \/ plan.push = {} \/ plan.remoteHead < w.head
    /\ next.theirs \in {plan.theirs, Empty}
    /\ DeletionAsks(plan, next.needs, w)

LEMMA SeenStays ==
    ASSUME NEW t, NEW ever, NEW more, ever \subseteq more, Seen(t, ever)
    PROVE  Seen(t, more)
BY DEF Seen, Held

LEMMA EmptySeen == ASSUME NEW ever PROVE Seen(Empty, ever)
BY DEF Seen, Held, Empty

LEMMA FilesSeen ==
    ASSUME NEW t \in Tree, NEW ever, FilesIn(t) \subseteq ever
    PROVE  Seen(t, ever)
BY DEF Seen, Held, FilesIn

LEMMA AgreedStays ==
    ASSUME NEW b, NEW w, NEW v, NEW ps, Grows(w, v, ps), Agreed(b, w)
    PROVE  Agreed(b, v)
BY SeenStays DEF Agreed, Grows

LEMMA WorldTypes ==
    /\ World.local = local /\ World.revision = revision
    /\ World.remote = remote /\ World.head = head
    /\ World.everLocal = everLocal /\ World.everRemote = everRemote
BY DEF World

LEMMA PlanStaysSafe ==
    ASSUME NEW plan \in PlanRecords, NEW next \in PlanRecords,
           NEW w, NEW v, NEW ps, Grows(w, v, ps), plan.remoteHead <= w.head,
           PlanIsSafe(plan, w), PlanMoves(plan, next, w)
    PROVE  PlanIsSafe(next, v)
<1>1. /\ plan.remoteHead \in Nat /\ plan.localRevision \in Nat
      /\ plan.expired \in BOOLEAN /\ next.expired \in BOOLEAN
  BY DEF PlanRecords
<1>2. Seen(next.mine, v.everLocal) /\ Seen(next.theirs, v.everRemote)
  BY SeenStays, EmptySeen DEF PlanIsSafe, PlanMoves, Grows
<1>3. next.localRevision <= v.revision
  BY <1>1 DEF PlanIsSafe, PlanMoves, Grows
<1>4. ASSUME next.localRevision = v.revision, NEW p \in next.pull
      PROVE  MayWrite(p, v)
  <2>1. plan.localRevision = w.revision /\ v.local = w.local /\ p \in plan.pull
    BY <1>1, <1>4 DEF PlanIsSafe, PlanMoves, Grows
  <2>2. MayWrite(p, w)
    BY <2>1 DEF PlanIsSafe
  <2>3. QED BY <2>1, <2>2 DEF MayWrite, Held, Grows
<1>5. ASSUME next.remoteHead = v.head, NEW p \in next.push
      PROVE  MayReplace(p, v)
  <2>1. plan.remoteHead = w.head /\ v.remote = w.remote /\ p \in plan.push
    BY <1>1, <1>5 DEF PlanMoves, Grows
  <2>2. MayReplace(p, w)
    BY <2>1 DEF PlanIsSafe
  <2>3. QED BY <2>1, <2>2 DEF MayReplace, Held, Grows
<1>6. DeletionAsks(next, next.needs, v)
  BY <1>1 DEF PlanMoves, Grows, DeletionAsks
<1>7. QED BY <1>2, <1>3, <1>4, <1>5, <1>6 DEF PlanIsSafe

LEMMA UntouchedPlan ==
    ASSUME NEW plan, NEW w, PlanIsSafe(plan, w)
    PROVE  PlanMoves(plan, plan, w)
BY DEF PlanIsSafe, PlanMoves

LEMMA LateFields ==
    ASSUME NEW c \in JobRecords, NEW ps \in SUBSET Paths
    PROVE  LET d == TooLate(c, ps) IN
           /\ d = c \/ (c.at # "idle" /\ d = [c EXCEPT !.late = d.late])
           /\ d.at = c.at /\ d.plan = c.plan /\ d.approved = c.approved /\ d.needs = c.needs
           /\ d.gotLocal = c.gotLocal /\ d.gotRemote = c.gotRemote
           /\ d.local = c.local /\ d.rev = c.rev /\ d.remote = c.remote /\ d.head = c.head
           /\ d.push = c.push /\ d.pull = c.pull /\ d.changes = c.changes
           /\ d.incoming = c.incoming /\ d.publish = c.publish /\ d.pulled = c.pulled
           /\ d.write = c.write /\ d.base = c.base
           /\ d.agreed = c.agreed /\ d.swayed = c.swayed
           /\ c.late \subseteq d.late
           /\ c.at \in Applying => ps \subseteq d.late
BY DEF TooLate, JobRecords, Applying

LEMMA NobodyLate ==
    ASSUME NEW c \in JobRecords
    PROVE  TooLate(c, {}) = c
BY DEF TooLate, JobRecords

LEMMA JobStaysSafe ==
    ASSUME NEW c \in JobRecords, NEW w, NEW v, NEW ps \in SUBSET Paths,
           Grows(w, v, ps), c.head <= w.head, JobIsSafe(c, w)
    PROVE  JobIsSafe(TooLate(c, ps), v)
<1> DEFINE d == TooLate(c, ps)
<1>1. /\ d = c \/ c.at # "idle"
      /\ d.at = c.at /\ d.needs = c.needs
      /\ d.gotLocal = c.gotLocal /\ d.gotRemote = c.gotRemote
      /\ d.local = c.local /\ d.rev = c.rev /\ d.remote = c.remote /\ d.head = c.head
      /\ d.push = c.push /\ d.pull = c.pull /\ d.changes = c.changes
      /\ d.incoming = c.incoming /\ d.publish = c.publish /\ d.pulled = c.pulled
      /\ d.write = c.write /\ d.base = c.base /\ d.agreed = c.agreed
      /\ c.late \subseteq d.late
      /\ c.at \in Applying => ps \subseteq d.late
  BY LateFields
<1>2. c.rev \in Nat /\ c.head \in Nat /\ c.write \in SUBSET Paths
      /\ c.pull \in SUBSET Paths /\ c.push \in SUBSET Paths
  BY DEF JobRecords
<1> HIDE DEF d
<1>3. ComparesSafely(d, v)
  <2>1. d.rev <= v.revision /\ (d.at = "idle" => d = Idle)
    BY <1>1, <1>2 DEF JobIsSafe, ComparesSafely, Grows
  <2>2. /\ c.rev = v.revision => c.rev = w.revision /\ v.local = w.local
        /\ c.head = v.head => c.head = w.head /\ v.remote = w.remote
    BY <1>2 DEF JobIsSafe, ComparesSafely, Grows
  <2>3. \A p \in Paths : /\ MayWrite(p, w) /\ v.local = w.local => MayWrite(p, v)
                         /\ MayReplace(p, w) /\ v.remote = w.remote => MayReplace(p, v)
    BY DEF MayWrite, MayReplace, Held, Grows
  <2>4. QED BY <1>1, <1>2, <2>1, <2>2, <2>3 DEF JobIsSafe, ComparesSafely
<1>4. TextsAreSeen(d, v)
  <2>1. \A p, text : /\ Held(p, text, w.everLocal) => Held(p, text, v.everLocal)
                     /\ Held(p, text, w.everRemote) => Held(p, text, v.everRemote)
    BY DEF Held, Grows
  <2>2. Seen(d.local, v.everLocal) /\ Seen(d.remote, v.everRemote) /\ Agreed(d.base, v)
    BY <1>1, SeenStays, AgreedStays DEF JobIsSafe, TextsAreSeen, Grows
  <2>3. QED BY <1>1, <2>1, <2>2 DEF JobIsSafe, TextsAreSeen
<1>5. WritesSafely(d, v)
  <2> SUFFICES ASSUME c.at \in {"publishing", "answered", "writing"},
                      NEW p \in c.write \ d.late
               PROVE  MayWrite(p, v) \/ c.agreed[p] \in {"keep-remote", "manual"}
    BY <1>1 DEF WritesSafely
  <2>1. p \in c.write \ c.late /\ p \in Paths \ ps
    BY <1>1, <1>2 DEF Applying
  <2>2. v.local[p] = w.local[p] /\ w.everRemote \subseteq v.everRemote
    BY <2>1 DEF Grows
  <2>3. QED BY <2>1, <2>2 DEF JobIsSafe, WritesSafely, MayWrite, Held
<1>6. JobIsSafe(d, v)
  BY <1>3, <1>4, <1>5 DEF JobIsSafe
<1>7. QED BY <1>6 DEF d

LEMMA CollectedStaysSafe ==
    ASSUME NEW c \in JobRecords, NEW w, NEW v, NEW ps \in SUBSET Paths, Grows(w, v, ps),
           NEW plan \in PlanRecords, NEW next \in PlanRecords, PlanMoves(plan, next, w),
           CollectedSafely(c, plan, w)
    PROVE  CollectedSafely(TooLate(c, ps), next, v)
<1> DEFINE d == TooLate(c, ps)
<1>1. /\ d.at = c.at /\ d.approved = c.approved /\ d.needs = c.needs
      /\ d.changes = c.changes /\ d.publish = c.publish
      /\ d.agreed = c.agreed /\ d.swayed = c.swayed
  BY LateFields
<1> HIDE DEF d
<1>2. /\ plan.remoteHead \in Nat /\ plan.remoteHead = next.remoteHead
      /\ plan.push = next.push
      /\ plan.remoteHead < w.head => next.remoteHead < v.head
  BY DEF PlanRecords, Grows, PlanMoves
<1>3. DeletionAsks(next, c.needs, v)
  BY <1>2 DEF PlanMoves, DeletionAsks, CollectedSafely
<1>4. CollectedSafely(d, next, v)
  BY <1>1, <1>2, <1>3 DEF CollectedSafely, Asks
<1>5. QED BY <1>4 DEF d

\* The calls named by moved step; the others may learn of a change.
LEMMA LossKeeps ==
    ASSUME IInv, IInv', LossInv, NEW ps \in SUBSET Paths, NEW moved \in SUBSET Jobs,
           Grows(World, World', ps), SidesAreSeen(base', World'),
           Ids \subseteq Ids',
           \A k \in Ids : plans'[k] = plans[k] \/ PlanMoves(plans[k], plans'[k], World),
           \A k \in Ids' \ Ids : PlanIsSafe(plans'[k], World'),
           \A i \in Jobs \ moved : job'[i] = TooLate(job[i], ps),
           \A i \in moved :
             /\ JobIsSafe(job'[i], World')
             /\ job'[i].at \in Applying =>
                  CollectedSafely(job'[i], plans'[job'[i].plan], World')
    PROVE  LossInv'
<1>1. /\ \A k \in Ids : plans[k] \in PlanRecords /\ plans[k].remoteHead <= World.head
      /\ \A k \in Ids : plans'[k] \in PlanRecords
      /\ \A i \in Jobs : job[i] \in JobRecords /\ JobFits(job[i], Ids, World.head)
  BY WorldTypes DEF IInv, PlanTypes, PlanFits, JobTypes
<1>2. /\ \A k \in Ids : PlanIsSafe(plans[k], World)
      /\ \A i \in Jobs :
           /\ JobIsSafe(job[i], World)
           /\ job[i].at \in Applying => CollectedSafely(job[i], plans[job[i].plan], World)
  BY DEF LossInv
<1>3. \A k \in Ids : PlanMoves(plans[k], plans'[k], World)
  BY <1>2, UntouchedPlan
<1>4. PICK w : w = World
  OBVIOUS
<1>5. PICK v : v = World'
  OBVIOUS
<1>6. \A k \in Ids : PlanIsSafe(plans'[k], v)
  BY <1>1, <1>2, <1>3, <1>4, <1>5, PlanStaysSafe
<1>7. \A k \in Ids' : PlanIsSafe(plans'[k], v)
  BY <1>5, <1>6
<1>8. \A i \in Jobs : JobIsSafe(job'[i], v)
  <2>1. \A i \in Jobs \ moved : JobIsSafe(TooLate(job[i], ps), v)
    BY <1>1, <1>2, <1>4, <1>5, JobStaysSafe DEF JobFits
  <2>2. QED BY <1>5, <2>1
<1>9. \A i \in Jobs : job'[i].at \in Applying =>
                        CollectedSafely(job'[i], plans'[job'[i].plan], v)
  <2>1. ASSUME NEW i \in Jobs \ moved, job'[i].at \in Applying
        PROVE  CollectedSafely(job'[i], plans'[job'[i].plan], v)
    <3>1. job'[i].at = job[i].at /\ job'[i].plan = job[i].plan
      BY <1>1, LateFields
    <3>2. job[i].plan \in Ids
      BY <1>1, <2>1, <3>1 DEF JobFits
    <3>3. CollectedSafely(job[i], plans[job[i].plan], w)
      BY <1>2, <1>4, <2>1, <3>1
    <3>4. CollectedSafely(TooLate(job[i], ps), plans'[job[i].plan], v)
      BY <1>1, <1>3, <1>4, <1>5, <3>2, <3>3, CollectedStaysSafe
    <3>5. QED BY <3>1, <3>4
  <2>2. QED BY <1>5, <2>1
<1>10. QED BY <1>5, <1>7, <1>8, <1>9 DEF LossInv

LEMMA IdleIsSafe ==
    ASSUME NEW w, w.revision \in Nat
    PROVE  JobIsSafe(Idle, w) /\ Idle.at \notin Applying
<1>1. Seen(Empty, w.everLocal) /\ Seen(Empty, w.everRemote)
  BY EmptySeen
<1>2. /\ Idle.at = "idle" /\ Idle.rev = 0 /\ Idle.local = Empty /\ Idle.remote = Empty
      /\ Idle.publish = {} /\ Idle.pulled = {} /\ Idle.write = {} /\ Idle.base = NoBase
  BY DEF Idle
<1>3. QED BY <1>1, <1>2 DEF JobIsSafe, ComparesSafely, TextsAreSeen, WritesSafely,
                            Agreed, Applying

\* A step that leaves both sides alone.
LEMMA NothingGrows ==
    ASSUME IInv, UNCHANGED <<sides, everLocal, everRemote>>
    PROVE  World' = World /\ \A ps : Grows(World, World', ps)
<1>1. World' = World
  BY DEF World, sides
<1>2. World.revision \in Nat /\ World.head \in Nat
  BY WorldTypes DEF IInv, SideTypes
<1>3. QED BY <1>1, <1>2 DEF Grows

\* Such a step of one call, which leaves the base alone.
LEMMA LossKeptBy ==
    ASSUME IInv, IInv', LossInv, UNCHANGED <<sides, everLocal, everRemote, base>>,
           NEW j \in Jobs,
           \A i \in Jobs \ {j} : job'[i] = job[i],
           Ids \subseteq Ids',
           \A k \in Ids : plans'[k] = plans[k] \/ PlanMoves(plans[k], plans'[k], World),
           \A k \in Ids' \ Ids : PlanIsSafe(plans'[k], World),
           JobIsSafe(job'[j], World),
           job'[j].at \in Applying => CollectedSafely(job'[j], plans'[job'[j].plan], World)
    PROVE  LossInv'
<1>1. World' = World /\ Grows(World, World', {})
  BY NothingGrows
<1>2. SidesAreSeen(base', World')
  BY <1>1 DEF LossInv
<1>3. \A i \in Jobs \ {j} : job'[i] = TooLate(job[i], {})
  BY NobodyLate DEF IInv, JobTypes
<1>4. {} \in SUBSET Paths /\ {j} \in SUBSET Jobs
  OBVIOUS
<1>5. QED BY <1>1, <1>2, <1>3, <1>4, LossKeeps

LEMMA OthersStay ==
    ASSUME JobTypes, NEW j \in Jobs, NEW next,
           Steps(j, next, {}) \/ job' = [job EXCEPT ![j] = next]
    PROVE  job'[j] = next /\ \A i \in Jobs \ {j} : job'[i] = job[i]
BY NobodyLate DEF Steps, JobTypes

\* A step that turns one call to the given state and leaves the rest alone.
LEMMA LossKeptByJob ==
    ASSUME IInv, IInv', LossInv, UNCHANGED <<sides, everLocal, everRemote, base, plans>>,
           NEW j \in Jobs, NEW next,
           Steps(j, next, {}) \/ job' = [job EXCEPT ![j] = next],
           JobIsSafe(next, World),
           next.at \in Applying => CollectedSafely(next, plans[next.plan], World)
    PROVE  LossInv'
<1>1. Ids' = Ids
  BY DEF Ids
<1>2. job'[j] = next /\ \A i \in Jobs \ {j} : job'[i] = job[i]
  BY OthersStay DEF IInv
<1>3. /\ \A k \in Ids : plans'[k] = plans[k] \/ PlanMoves(plans[k], plans'[k], World)
      /\ \A k \in Ids' \ Ids : PlanIsSafe(plans'[k], World)
      /\ JobIsSafe(job'[j], World)
      /\ job'[j].at \in Applying => CollectedSafely(job'[j], plans'[job'[j].plan], World)
  BY <1>1, <1>2
<1>4. QED BY <1>1, <1>2, <1>3, LossKeptBy

LEMMA IdleKept ==
    ASSUME IInv
    PROVE  JobIsSafe(Idle, World) /\ Idle.at \notin Applying
<1>1. World.revision \in Nat
  BY WorldTypes DEF IInv, SideTypes
<1>2. PICK w : w = World
  OBVIOUS
<1>3. QED BY <1>1, <1>2, IdleIsSafe

LEMMA SafeCalls ==
    ASSUME IInv, LossInv, NEW j \in Jobs
    PROVE  /\ job[j] \in JobRecords /\ JobIsSafe(job[j], World) /\ job[j].head <= head
           /\ job[j].at \in Applying =>
                /\ job[j].plan \in Ids /\ plans[job[j].plan] \in PlanRecords
                /\ PlanIsSafe(plans[job[j].plan], World)
                /\ CollectedSafely(job[j], plans[job[j].plan], World)
BY DEF IInv, LossInv, JobTypes, JobFits, PlanTypes

-----------------------------------------------------------------------------
(* One lemma for each action.                                              *)

LEMMA LocalGrows ==
    ASSUME SideTypes, LossInv, NEW p \in Paths, NEW text \in Text, Local(p, text),
           UNCHANGED base
    PROVE  Grows(World, World', {p}) /\ SidesAreSeen(base', World')
<1> DEFINE files == [local EXCEPT ![p] = text]
<1>1. /\ local' = files /\ revision' = revision + 1
      /\ everLocal' = everLocal \cup FilesIn(local')
      /\ remote' = remote /\ head' = head /\ everRemote' = everRemote
  BY DEF Local
<1>2. files \in Tree /\ \A q \in Paths \ {p} : files[q] = local[q]
  BY DEF SideTypes, Tree
<1> HIDE DEF files
<1>3. /\ World'.local = files /\ World'.revision = revision + 1
      /\ World'.everLocal = everLocal \cup FilesIn(files)
      /\ World'.remote = remote /\ World'.head = head /\ World'.everRemote = everRemote
  BY <1>1 DEF World
<1>4. revision \in Nat /\ head \in Nat
  BY DEF SideTypes
<1>5. Grows(World, World', {p})
  BY <1>2, <1>3, <1>4, WorldTypes DEF Grows
<1>6. Seen(files, World'.everLocal)
  BY <1>2, <1>3, FilesSeen
<1>7. Seen(remote, World'.everRemote)
  BY <1>3, WorldTypes DEF LossInv, SidesAreSeen
<1>8. Agreed(base, World')
  <2>1. PICK w : w = World
    OBVIOUS
  <2>2. PICK v : v = World'
    OBVIOUS
  <2>3. Grows(w, v, {p}) /\ Agreed(base, w)
    BY <1>5, <2>1, <2>2 DEF LossInv, SidesAreSeen
  <2>4. QED BY <2>2, <2>3, AgreedStays
<1>9. QED BY <1>3, <1>5, <1>6, <1>7, <1>8 DEF SidesAreSeen

LEMMA RemoteGrows ==
    ASSUME SideTypes, LossInv, NEW t \in Tree, Remote(t), UNCHANGED base
    PROVE  Grows(World, World', {}) /\ SidesAreSeen(base', World')
<1>1. /\ World'.local = local /\ World'.revision = revision
      /\ World'.everLocal = everLocal
      /\ World'.remote = t /\ World'.head = head + 1
      /\ World'.everRemote = everRemote \cup FilesIn(t)
  BY DEF World, Remote
<1>2. revision \in Nat /\ head \in Nat
  BY DEF SideTypes
<1>3. Grows(World, World', {})
  BY <1>1, <1>2, WorldTypes DEF Grows
<1>4. Seen(t, World'.everRemote)
  BY <1>1, FilesSeen
<1>5. Seen(local, World'.everLocal)
  BY <1>1, WorldTypes DEF LossInv, SidesAreSeen
<1>6. Agreed(base, World')
  <2>1. PICK w : w = World
    OBVIOUS
  <2>2. PICK v : v = World'
    OBVIOUS
  <2>3. Grows(w, v, {}) /\ Agreed(base, w)
    BY <1>3, <2>1, <2>2 DEF LossInv, SidesAreSeen
  <2>4. QED BY <2>2, <2>3, AgreedStays
<1>7. QED BY <1>1, <1>3, <1>4, <1>5, <1>6 DEF SidesAreSeen

LEMMA PeopleLose ==
    ASSUME IInv, IInv', LossInv, NEW p \in Paths, NEW text,
           \/ text \in LocalEdits /\ EditProject(p, text)
           \/ text \in RemoteEdits /\ PushToBranch(p, text)
    PROVE  LossInv'
<1>1. text \in Text /\ {p} \in SUBSET Paths /\ {} \in SUBSET Paths /\ {} \in SUBSET Jobs
  BY SyncAssumption DEF Text
<1>2. UNCHANGED <<base, plans>> /\ Ids' = Ids
  BY DEF EditProject, PushToBranch, Ids
<1>3. CASE EditProject(p, text)
  <2>1. Grows(World, World', {p}) /\ SidesAreSeen(base', World')
    BY <1>1, <1>3, LocalGrows DEF EditProject, IInv
  <2>2. \A i \in Jobs : job'[i] = TooLate(job[i], {p})
    BY <1>3 DEF EditProject
  <2>3. QED BY <1>1, <1>2, <2>1, <2>2, LossKeeps
<1>4. CASE PushToBranch(p, text)
  <2>1. PICK t \in Tree : t = [remote EXCEPT ![p] = text]
    BY <1>1 DEF IInv, SideTypes, Tree
  <2>2. Grows(World, World', {}) /\ SidesAreSeen(base', World')
    BY <1>4, <2>1, RemoteGrows DEF PushToBranch, IInv
  <2>3. \A i \in Jobs : job'[i] = TooLate(job[i], {})
    BY <1>4, NobodyLate DEF PushToBranch, IInv, JobTypes
  <2>4. QED BY <1>1, <1>2, <2>2, <2>3, LossKeeps
<1>5. QED BY <1>3, <1>4

LEMMA LinksLose ==
    ASSUME IInv, IInv', LossInv, NEW j \in Jobs, Connect(j) \/ Connected(j)
    PROVE  LossInv'
<1>1. CASE Connect(j)
  <2> DEFINE next == [job[j] EXCEPT !.at = "connecting", !.link = used.links + 1]
  <2>1. /\ job[j] \in JobRecords /\ JobIsSafe(job[j], World) /\ job[j].at = "idle"
        /\ job[j] = Idle
    BY <1>1, SafeCalls DEF Connect, JobIsSafe, ComparesSafely
  <2>3. JobIsSafe(next, World) /\ next.at \notin Applying
    <3>1. /\ next.at = "connecting" /\ next.rev = Idle.rev /\ next.local = Idle.local
          /\ next.remote = Idle.remote /\ next.base = Idle.base
          /\ next.publish = Idle.publish /\ next.pulled = Idle.pulled
          /\ next.changes = Idle.changes /\ next.incoming = Idle.incoming
          /\ next.write = Idle.write
      BY <2>1 DEF JobRecords
    <3>2. JobIsSafe(Idle, World)
      BY IdleKept
    <3> HIDE DEF next
    <3>3. QED BY <3>1, <3>2 DEF JobIsSafe, ComparesSafely, TextsAreSeen, WritesSafely, Applying
  <2>4. /\ job' = [job EXCEPT ![j] = next]
        /\ UNCHANGED <<sides, everLocal, everRemote, base, plans>>
    BY <1>1, <2>1 DEF Connect, history, IInv, JobTypes
  <2> HIDE DEF next
  <2>5. QED BY <2>3, <2>4, LossKeptByJob
<1>2. CASE Connected(j)
  <2>1. World' = World /\ Grows(World, World', {})
    BY <1>2, NothingGrows DEF Connected
  <2>2. SidesAreSeen(base', World')
    BY <1>2, <2>1 DEF Connected, LossInv, SidesAreSeen, Agreed
  <2>3. job'[j] = Idle /\ \A i \in Jobs \ {j} : job'[i] = job[i]
    BY <1>2, OthersStay DEF Connected, IInv
  <2>4. \A i \in Jobs \ {j} : job'[i] = TooLate(job[i], {})
    BY <2>3, NobodyLate DEF IInv, JobTypes
  <2>5. JobIsSafe(job'[j], World') /\ job'[j].at \notin Applying
    BY <2>1, <2>3, IdleKept
  <2>6. UNCHANGED plans /\ Ids' = Ids
    BY <1>2 DEF Connected, Ids
  <2>7. {} \in SUBSET Paths /\ {j} \in SUBSET Jobs
    OBVIOUS
  <2>8. QED BY <2>1, <2>2, <2>4, <2>5, <2>6, <2>7, LossKeeps
<1>3. QED BY <1>1, <1>2

LEMMA DisconnectLoses ==
    ASSUME IInv, IInv', LossInv, Disconnect PROVE LossInv'
<1>1. World' = World /\ Grows(World, World', {})
  BY NothingGrows DEF Disconnect
<1>2. SidesAreSeen(base', World')
  BY <1>1 DEF Disconnect, LossInv, SidesAreSeen, Agreed
<1>3. \A i \in Jobs : job'[i] = TooLate(job[i], {})
  BY NobodyLate DEF Disconnect, IInv, JobTypes
<1>4. plans' = [k \in Ids |-> [plans[k] EXCEPT !.listed = FALSE]] /\ Ids' = Ids
  BY DEF Disconnect, Ids
<1>5. ASSUME NEW k \in Ids PROVE PlanMoves(plans[k], plans'[k], World)
  <2>1. plans'[k] = [plans[k] EXCEPT !.listed = FALSE] /\ plans[k] \in PlanRecords
        /\ DeletionAsks(plans[k], plans[k].needs, World)
    BY <1>4 DEF IInv, PlanTypes, LossInv, PlanIsSafe
  <2>2. /\ plans'[k].push = plans[k].push /\ plans'[k].pull = plans[k].pull
        /\ plans'[k].localRevision = plans[k].localRevision
        /\ plans'[k].remoteHead = plans[k].remoteHead
        /\ plans'[k].expired = plans[k].expired
        /\ plans'[k].mine = plans[k].mine /\ plans'[k].theirs = plans[k].theirs
        /\ plans'[k].needs = plans[k].needs
    BY <2>1 DEF PlanRecords
  <2>3. QED BY <2>1, <2>2 DEF PlanMoves
<1>6. {} \in SUBSET Paths /\ {} \in SUBSET Jobs
  OBVIOUS
<1>7. QED BY <1>1, <1>2, <1>3, <1>4, <1>5, <1>6, LossKeeps

LEMMA SnapshotsSafe ==
    ASSUME IInv, LossInv, NEW c \in JobRecords, c.at = "reading", JobIsSafe(c, World)
    PROVE  /\ JobIsSafe(WithLocal(c), World) /\ WithLocal(c).at \notin Applying
           /\ JobIsSafe(WithRemote(c), World) /\ WithRemote(c).at \notin Applying
<1>1. revision \in Nat /\ Seen(local, everLocal) /\ Seen(remote, everRemote)
  BY WorldTypes DEF IInv, SideTypes, LossInv, SidesAreSeen
<1>2. ASSUME NEW d, d \in {WithLocal(c), WithRemote(c)}
      PROVE  /\ d.at = "reading" /\ d.base = c.base
             /\ d.publish = c.publish /\ d.pulled = c.pulled /\ d.changes = c.changes
             /\ d.incoming = c.incoming /\ d.write = c.write
             /\ \/ d.local = local /\ d.rev = revision
                \/ d.local = c.local /\ d.rev = c.rev /\ d.gotLocal = c.gotLocal
             /\ \/ d.remote = remote /\ d.head = head
                \/ d.remote = c.remote /\ d.head = c.head /\ d.gotRemote = c.gotRemote
  BY <1>2 DEF WithLocal, WithRemote, JobRecords
<1>3. ASSUME NEW d, d \in {WithLocal(c), WithRemote(c)}
      PROVE  JobIsSafe(d, World) /\ d.at \notin Applying
  <2>1. ComparesSafely(d, World)
    BY <1>1, <1>2, <1>3, WorldTypes DEF JobIsSafe, ComparesSafely
  <2>2. TextsAreSeen(d, World)
    BY <1>1, <1>2, <1>3, WorldTypes DEF JobIsSafe, TextsAreSeen
  <2>3. QED BY <1>2, <1>3, <2>1, <2>2 DEF JobIsSafe, WritesSafely, Applying
<1>4. QED BY <1>3

LEMMA ReadsLose ==
    ASSUME IInv, IInv', LossInv, NEW j \in Jobs, Compare(j) \/ ReadOther(j)
    PROVE  LossInv'
<1>1. UNCHANGED <<sides, everLocal, everRemote, base, plans>>
  BY DEF Compare, ReadOther, history
<1>2. CASE Compare(j)
  <2> DEFINE next == [job[j] EXCEPT !.at = "reading", !.link = connection]
  <2>1. job[j] \in JobRecords /\ connection \in Nat /\ job[j] = Idle
    BY <1>2, SafeCalls DEF IInv, SideTypes, Compare, JobIsSafe, ComparesSafely
  <2>3. next \in JobRecords /\ next.at = "reading"
    BY <2>1 DEF JobRecords, Stages
  <2>4. JobIsSafe(next, World)
    <3>1. /\ next.at = "reading" /\ next.rev = Idle.rev /\ next.local = Idle.local
          /\ next.gotLocal = Idle.gotLocal /\ next.gotRemote = Idle.gotRemote
          /\ next.remote = Idle.remote /\ next.base = Idle.base
          /\ next.publish = Idle.publish /\ next.pulled = Idle.pulled
          /\ next.changes = Idle.changes /\ next.incoming = Idle.incoming
          /\ next.write = Idle.write
      BY <2>1 DEF JobRecords
    <3>2. JobIsSafe(Idle, World) /\ ~Idle.gotLocal /\ ~Idle.gotRemote
      BY IdleKept DEF Idle
    <3> HIDE DEF next
    <3>3. QED BY <3>1, <3>2 DEF JobIsSafe, ComparesSafely, TextsAreSeen, WritesSafely
  <2>5. \/ job' = [job EXCEPT ![j] = WithLocal(next)]
        \/ job' = [job EXCEPT ![j] = WithRemote(next)]
    BY <1>2 DEF Compare
  <2> HIDE DEF next
  <2>6. /\ JobIsSafe(WithLocal(next), World) /\ WithLocal(next).at \notin Applying
        /\ JobIsSafe(WithRemote(next), World) /\ WithRemote(next).at \notin Applying
    BY <2>3, <2>4, SnapshotsSafe
  <2>7. QED BY <1>1, <2>5, <2>6, LossKeptByJob
<1>3. CASE ReadOther(j)
  <2>1. job[j] \in JobRecords /\ job[j].at = "reading" /\ JobIsSafe(job[j], World)
    BY <1>3, SafeCalls DEF ReadOther
  <2>2. \/ job' = [job EXCEPT ![j] = WithLocal(job[j])]
        \/ job' = [job EXCEPT ![j] = WithRemote(job[j])]
    BY <1>3 DEF ReadOther
  <2>3. /\ JobIsSafe(WithLocal(job[j]), World) /\ WithLocal(job[j]).at \notin Applying
        /\ JobIsSafe(WithRemote(job[j]), World) /\ WithRemote(job[j]).at \notin Applying
    BY <2>1, SnapshotsSafe
  <2>4. QED BY <1>1, <2>2, <2>3, LossKeptByJob
<1>4. QED BY <1>2, <1>3

\* What a pull would write over, and a push replace, is what was agreed on.
LEMMA Outcomes ==
    ASSUME NEW p \in Paths, NEW b, NEW l, NEW r
    PROVE  /\ p \in With("pull", b, l, r) => Participating(l)[p] = EffectiveBase(b, l)[p]
           /\ p \in With("push", b, l, r) => r[p] = EffectiveBase(b, l)[p]
<1> DEFINE x == EffectiveBase(b, l)[p]
           y == Participating(l)[p]
           z == r[p]
<1>1. /\ Outcome(x, y, z) = "pull" => y = x
      /\ Outcome(x, y, z) = "push" => z = x
  <2> HIDE DEF x, y, z
  <2>1. CASE y = z
    BY <2>1 DEF Outcome
  <2>2. CASE y # z /\ y = x
    BY <2>2 DEF Outcome
  <2>3. CASE y # z /\ y # x
    BY <2>3 DEF Outcome
  <2>4. QED BY <2>1, <2>2, <2>3
<1>2. QED BY <1>1 DEF With, OutcomeOf

LEMMA ComparedSafely ==
    ASSUME NEW b, NEW w, Agreed(b, w), NEW l, NEW r
    PROVE  /\ l = w.local => \A p \in With("pull", b, l, r) : MayWrite(p, w)
           /\ r = w.remote => \A p \in With("push", b, l, r) : MayReplace(p, w)
           /\ \/ NeedsApproval(With("push", b, l, r), With("conflict", b, l, r), b,
                               Participating(l))
              \/ \A p \in With("push", b, l, r) : l[p] # Absent
<1>1. \A p \in Paths : \/ EffectiveBase(b, l)[p] = Absent
                       \/ /\ Held(p, EffectiveBase(b, l)[p], w.everLocal)
                          /\ Held(p, EffectiveBase(b, l)[p], w.everRemote)
  BY DEF EffectiveBase, Agreed, Seen
<1>2. \A o : With(o, b, l, r) \subseteq Paths
  BY DEF With
<1>3. ASSUME l = w.local, NEW p \in With("pull", b, l, r)
      PROVE  MayWrite(p, w)
  <2>1. p \in Paths /\ Participating(l)[p] = EffectiveBase(b, l)[p]
    BY <1>2, Outcomes
  <2>2. l[p] \in Withheld \/ l[p] = EffectiveBase(b, l)[p]
    BY <2>1 DEF Participating
  <2>3. QED BY <1>1, <1>3, <2>1, <2>2 DEF MayWrite, Held
<1>4. ASSUME r = w.remote, NEW p \in With("push", b, l, r)
      PROVE  MayReplace(p, w)
  <2>1. p \in Paths /\ r[p] = EffectiveBase(b, l)[p]
    BY <1>2, Outcomes
  <2>2. QED BY <1>1, <1>4, <2>1 DEF MayReplace, Held
<1>5. ASSUME NEW p \in With("push", b, l, r), l[p] = Absent
      PROVE  NeedsApproval(With("push", b, l, r), With("conflict", b, l, r), b,
                           Participating(l))
  <2>1. p \in Paths /\ Participating(l)[p] = Absent
    BY <1>2, <1>5 DEF Participating
  <2>2. QED BY <1>5, <2>1 DEF NeedsApproval
<1>6. QED BY <1>3, <1>4, <1>5

LEMMA ProposalsAreSafe ==
    ASSUME NEW c \in JobRecords, c.at = "fetching", NEW w, JobIsSafe(c, w)
    PROVE  PlanIsSafe(Proposal(c), w)
<1>1. /\ Proposal(c).localRevision = c.rev /\ Proposal(c).remoteHead = c.head
      /\ Proposal(c).push = c.push /\ Proposal(c).pull = c.pull
      /\ Proposal(c).mine = c.local /\ Proposal(c).theirs = c.remote
      /\ Proposal(c).needs = c.needs
  BY DEF Proposal
<1>2. QED BY <1>1 DEF JobIsSafe, ComparesSafely, TextsAreSeen, PlanIsSafe, DeletionAsks

LEMMA ProceedLoses ==
    ASSUME IInv, IInv', LossInv, NEW j \in Jobs, NEW next \in JobRecords,
           Proceed(j, next), next.at = "fetching", JobIsSafe(next, World),
           UNCHANGED <<sides, everLocal, everRemote, base>>
    PROVE  LossInv'
<1>1. next.at \notin Applying
  BY DEF Applying
<1>2. CASE job' = [job EXCEPT ![j] = next] /\ UNCHANGED plans
  BY <1>1, <1>2, LossKeptByJob
<1>3. CASE next.todo = {}
  <2> DEFINE id == Cardinality(Ids) + 1
             old(k) == IF Open(k) THEN [plans[k] EXCEPT !.listed = FALSE] ELSE plans[k]
             plan(k) == IF k = id THEN Proposal(next) ELSE old(k)
  <2>1. id \notin Ids
    BY NextId DEF IInv
  <2>2. plans' = [k \in Ids \cup {id} |-> plan(k)] /\ job' = [job EXCEPT ![j] = Idle]
    BY <1>3 DEF Proceed
  <2>3. PlanIsSafe(Proposal(next), World)
    <3>1. PICK w : w = World
      OBVIOUS
    <3>2. QED BY <3>1, ProposalsAreSafe
  <2>4. ASSUME NEW k \in Ids
        PROVE  old(k) = plans[k] \/ PlanMoves(plans[k], old(k), World)
    <3> DEFINE away == [plans[k] EXCEPT !.listed = FALSE]
    <3>1. plans[k] \in PlanRecords /\ DeletionAsks(plans[k], plans[k].needs, World)
      BY DEF IInv, PlanTypes, LossInv, PlanIsSafe
    <3>2. /\ away.push = plans[k].push /\ away.pull = plans[k].pull
          /\ away.localRevision = plans[k].localRevision
          /\ away.remoteHead = plans[k].remoteHead /\ away.expired = plans[k].expired
          /\ away.mine = plans[k].mine /\ away.theirs = plans[k].theirs
          /\ away.needs = plans[k].needs
      BY <3>1 DEF PlanRecords
    <3>3. old(k) = away \/ old(k) = plans[k]
      OBVIOUS
    <3> HIDE DEF away, old
    <3>4. QED BY <3>1, <3>2, <3>3 DEF PlanMoves
  <2> HIDE DEF id, old
  <2>5. /\ \A k \in Ids : plan(k) = plans[k] \/ PlanMoves(plans[k], plan(k), World)
        /\ PlanIsSafe(plan(id), World)
    BY <2>1, <2>3, <2>4
  <2> HIDE DEF plan
  <2>6. /\ Ids' = Ids \cup {id} /\ \A k \in Ids : plans'[k] = plan(k)
        /\ plans'[id] = plan(id)
    BY <2>2 DEF Ids
  <2>7. job'[j] = Idle /\ \A i \in Jobs \ {j} : job'[i] = job[i]
    BY <2>2, OthersStay DEF IInv
  <2>8. /\ Ids \subseteq Ids'
        /\ \A k \in Ids : plans'[k] = plans[k] \/ PlanMoves(plans[k], plans'[k], World)
        /\ \A k \in Ids' \ Ids : PlanIsSafe(plans'[k], World)
        /\ JobIsSafe(job'[j], World)
        /\ job'[j].at \in Applying => CollectedSafely(job'[j], plans'[job'[j].plan], World)
    BY <2>5, <2>6, <2>7, IdleKept
  <2>9. QED BY <2>7, <2>8, LossKeptBy
<1>4. QED BY <1>2, <1>3 DEF Proceed

LEMMA BuildPlanLoses ==
    ASSUME IInv, IInv', LossInv, NEW j \in Jobs, BuildPlan(j) PROVE LossInv'
<1> DEFINE c == job[j]
           of(outcome) == With(outcome, base, c.local, c.remote)
           needs == NeedsApproval(of("push"), of("conflict"), base, Participating(c.local))
           todo == {p \in of("pull") \cup of("conflict") : c.remote[p] # Absent}
           next == [c EXCEPT
                      !.at = "fetching", !.gotLocal = FALSE, !.gotRemote = FALSE,
                      !.push = of("push"), !.pull = of("pull"), !.conflicts = of("conflict"),
                      !.needs = needs, !.todo = todo]
<1>1. /\ c \in JobRecords /\ JobIsSafe(c, World)
      /\ c.at = "reading" /\ c.gotLocal /\ c.gotRemote
  BY SafeCalls DEF BuildPlan
<1>2. \A outcome : of(outcome) \in SUBSET Paths
  BY DEF With
<1>3. needs \in BOOLEAN /\ todo \in SUBSET Paths
  BY <1>2 DEF NeedsApproval
<1>4. Proceed(j, next) /\ UNCHANGED <<sides, everLocal, everRemote, base>>
  BY DEF BuildPlan, history
<1>5. /\ c.local = World.local => \A p \in of("pull") : MayWrite(p, World)
      /\ c.remote = World.remote => \A p \in of("push") : MayReplace(p, World)
      /\ needs \/ \A p \in of("push") : c.local[p] # Absent
  <2>1. PICK w : w = World
    OBVIOUS
  <2>2. PICK b : b = base
    OBVIOUS
  <2>3. Agreed(b, w)
    BY <2>1, <2>2 DEF LossInv, SidesAreSeen
  <2>4. QED BY <2>1, <2>2, <2>3, ComparedSafely
<1> HIDE DEF of, needs, todo
<1>6. /\ next \in JobRecords /\ next.at = "fetching"
      /\ next.push = of("push") /\ next.pull = of("pull") /\ next.needs = needs
      /\ next.local = c.local /\ next.rev = c.rev
      /\ next.remote = c.remote /\ next.head = c.head /\ next.base = c.base
      /\ next.publish = c.publish /\ next.pulled = c.pulled /\ next.changes = c.changes
      /\ next.incoming = c.incoming /\ next.write = c.write
  BY <1>1, <1>2, <1>3 DEF JobRecords, Stages
<1> HIDE DEF c, next
<1>7. ComparesSafely(next, World)
  BY <1>1, <1>5, <1>6 DEF JobIsSafe, ComparesSafely
<1>8. TextsAreSeen(next, World)
  BY <1>1, <1>6 DEF JobIsSafe, TextsAreSeen
<1>9. JobIsSafe(next, World)
  BY <1>6, <1>7, <1>8 DEF JobIsSafe, WritesSafely
<1>10. QED BY <1>4, <1>6, <1>9, ProceedLoses

LEMMA FetchLoses ==
    ASSUME IInv, IInv', LossInv, NEW j \in Jobs, NEW p \in Paths, Fetch(j, p)
    PROVE  LossInv'
<1> DEFINE c == job[j]
           text == [c.remote EXCEPT ![p] = remote[p]]
           pull == IF remote[p] \in Withheld THEN c.pull \ {p} ELSE c.pull
           next == [c EXCEPT !.todo = @ \ {p}, !.remote = text, !.pull = pull]
<1>1. c \in JobRecords /\ c.at = "fetching" /\ JobIsSafe(c, World)
  BY SafeCalls DEF Fetch
<1>2. UNCHANGED <<sides, everLocal, everRemote, base>>
  BY DEF Fetch, history
<1>3. CASE job' = [job EXCEPT ![j] = Idle] /\ UNCHANGED plans
  BY <1>2, <1>3, IdleKept, LossKeptByJob
<1>4. CASE remote[p] # Absent
  <2>1. Proceed(j, next)
    BY <1>4 DEF Fetch
  <2>2. text \in Tree
    BY <1>1 DEF JobRecords, IInv, SideTypes, Tree
  <2>3. pull \in SUBSET Paths /\ pull \subseteq c.pull
    BY <1>1 DEF JobRecords
  <2>4. Seen(text, World.everRemote)
    <3>1. Seen(c.remote, World.everRemote) /\ Seen(remote, World.everRemote)
      BY <1>1, WorldTypes DEF JobIsSafe, TextsAreSeen, LossInv, SidesAreSeen
    <3>2. c.remote \in Tree
      BY <1>1 DEF JobRecords
    <3>3. \A q \in Paths : text[q] = c.remote[q] \/ text[q] = remote[q]
      BY <3>2 DEF Tree
    <3>4. QED BY <3>1, <3>3 DEF Seen, Held
  <2> HIDE DEF text, pull
  <2>5. /\ next \in JobRecords /\ next.at = "fetching"
        /\ next.push = c.push /\ next.pull = pull /\ next.needs = c.needs
        /\ next.local = c.local /\ next.rev = c.rev
        /\ next.remote = text /\ next.head = c.head /\ next.base = c.base
        /\ next.publish = c.publish /\ next.pulled = c.pulled /\ next.changes = c.changes
        /\ next.incoming = c.incoming /\ next.write = c.write
    BY <1>1, <2>2, <2>3 DEF JobRecords, Stages
  <2> HIDE DEF c, next
  <2>6. ComparesSafely(next, World)
    BY <1>1, <2>3, <2>5 DEF JobIsSafe, ComparesSafely
  <2>7. TextsAreSeen(next, World)
    BY <1>1, <2>4, <2>5 DEF JobIsSafe, TextsAreSeen
  <2>8. JobIsSafe(next, World)
    BY <2>5, <2>6, <2>7 DEF JobIsSafe, WritesSafely
  <2>9. QED BY <1>2, <2>1, <2>5, <2>8, ProceedLoses
<1>5. QED BY <1>3, <1>4 DEF Fetch

\* A decision changes one plan.
LEMMA ChangeLoses ==
    ASSUME IInv, IInv', LossInv, NEW k \in Ids, NEW next, Change(k, next),
           PlanMoves(plans[k], next, World)
    PROVE  LossInv'
<1>1. World' = World /\ Grows(World, World', {})
  BY NothingGrows DEF Change, history
<1>2. SidesAreSeen(base', World')
  BY <1>1 DEF Change, LossInv
<1>3. \A i \in Jobs : job'[i] = TooLate(job[i], {})
  BY NobodyLate DEF Change, IInv, JobTypes
<1>4. /\ Ids' = Ids /\ plans'[k] = next
      /\ \A i \in Ids \ {k} : plans'[i] = plans[i]
  BY DEF Change, IInv, PlanTypes, Ids
<1>5. {} \in SUBSET Paths /\ {} \in SUBSET Jobs
  OBVIOUS
<1>6. QED BY <1>1, <1>2, <1>3, <1>4, <1>5, LossKeeps

\* What an untouched field means for the properties of a plan.
SamePlan(plan, next) ==
    /\ next.push = plan.push /\ next.pull = plan.pull
    /\ next.localRevision = plan.localRevision /\ next.remoteHead = plan.remoteHead
    /\ next.mine = plan.mine /\ next.theirs = plan.theirs

LEMMA RefreshedMoves ==
    ASSUME NEW plan, NEW next \in PlanRecords, SamePlan(plan, next),
           next.needs = plan.needs, next.expired = plan.expired,
           NEW w, DeletionAsks(plan, plan.needs, w)
    PROVE  PlanMoves(plan, next, w) /\ PlanMoves(plan, Refreshed(next), w)
<1> DEFINE needs == NeedsNow(next)
           status == CASE Unresolved(next) -> "conflicts"
                       [] next.push \cup next.pull = {}
                            /\ \A p \in Paths : next.resolution[p] = "none" -> "in-sync"
                       [] ~Unresolved(next) /\ needs /\ ~next.approved -> "needs-approval"
                       [] OTHER -> "ready"
           new == [next EXCEPT !.needs = needs, !.status = status]
<1>1. Refreshed(next) = new
  BY DEF Refreshed
<1>2. next.needs => needs
  BY DEF NeedsNow
<1> HIDE DEF needs, status
<1>3. SamePlan(next, new) /\ new.needs = needs /\ new.expired = next.expired
  BY DEF PlanRecords, SamePlan
<1> HIDE DEF new
<1>4. QED BY <1>1, <1>2, <1>3 DEF SamePlan, PlanMoves, DeletionAsks

LEMMA DecisionsLose ==
    ASSUME IInv, IInv', LossInv, NEW k \in Ids,
           \/ Expire(k) \/ Approve(k) \/ Cancel(k)
           \/ \E p \in Paths : \E resolution \in Resolutions :
                ResolveConflict(k, p, resolution)
    PROVE  LossInv'
<1> DEFINE plan == plans[k]
<1>1. plan \in PlanRecords /\ DeletionAsks(plan, plan.needs, World)
  BY DEF IInv, PlanTypes, LossInv, PlanIsSafe
<1>2. CASE Expire(k)
  <2> DEFINE over == [plan EXCEPT !.status = "expired", !.expired = TRUE]
             next == Dropped(over)
  <2>1. over \in PlanRecords /\ SamePlan(plan, over) /\ over.needs = plan.needs
        /\ over.expired
    BY <1>1 DEF PlanRecords, Statuses, SamePlan
  <2> HIDE DEF over, plan
  <2>2. /\ next.push = over.push /\ next.pull = over.pull
        /\ next.localRevision = over.localRevision /\ next.remoteHead = over.remoteHead
        /\ next.mine = Empty /\ next.theirs = Empty /\ next.needs = over.needs
        /\ next.expired = over.expired
    BY <2>1 DEF Dropped, PlanRecords
  <2> HIDE DEF next
  <2>3. PlanMoves(plan, next, World)
    BY <1>1, <2>1, <2>2 DEF PlanMoves, SamePlan
  <2>4. Change(k, next)
    BY <1>2 DEF Expire, plan, over, next
  <2>5. QED BY <2>3, <2>4, ChangeLoses DEF plan
<1>3. CASE Approve(k)
  <2> DEFINE next == [plan EXCEPT !.approved = TRUE]
  <2>1. next \in PlanRecords /\ SamePlan(plan, next) /\ next.needs = plan.needs
        /\ next.expired = plan.expired
    BY <1>1 DEF PlanRecords, SamePlan
  <2>2. Change(k, Refreshed(next))
    BY <1>3 DEF Approve
  <2> HIDE DEF next
  <2>3. PICK x : x = plan
    OBVIOUS
  <2>4. PICK y : y = next
    OBVIOUS
  <2>5. PICK w : w = World
    OBVIOUS
  <2>6. PlanMoves(x, Refreshed(y), w)
    BY <1>1, <2>1, <2>3, <2>4, <2>5, RefreshedMoves
  <2>7. QED BY <2>2, <2>3, <2>4, <2>5, <2>6, ChangeLoses
<1>4. CASE Cancel(k)
  <2> DEFINE next == [plan EXCEPT !.cancelled = TRUE, !.status = "cancelled"]
  <2>1. SamePlan(plan, next) /\ next.needs = plan.needs /\ next.expired = plan.expired
    BY <1>1 DEF PlanRecords, SamePlan
  <2>2. Change(k, next)
    BY <1>4 DEF Cancel
  <2> HIDE DEF next
  <2>3. PlanMoves(plan, next, World)
    BY <1>1, <2>1 DEF SamePlan, PlanMoves
  <2>4. QED BY <2>2, <2>3, ChangeLoses
<1>5. ASSUME NEW p \in Paths, NEW resolution \in Resolutions,
             ResolveConflict(k, p, resolution)
      PROVE  LossInv'
  <2> DEFINE resolutions == [plan.resolution EXCEPT ![p] = resolution]
             next == [plan EXCEPT !.resolution = resolutions]
  <2>1. resolutions \in [Paths -> Resolutions \cup {"open", "none"}]
    BY <1>1 DEF PlanRecords
  <2>2. [plan EXCEPT !.resolution[p] = resolution] = next
    OBVIOUS
  <2> HIDE DEF resolutions
  <2>3. next \in PlanRecords /\ SamePlan(plan, next) /\ next.needs = plan.needs
        /\ next.expired = plan.expired
    BY <1>1, <2>1 DEF PlanRecords, SamePlan
  <2>4. Change(k, Refreshed(next))
    BY <1>5, <2>2 DEF ResolveConflict
  <2> HIDE DEF next
  <2>5. PICK x : x = plan
    OBVIOUS
  <2>6. PICK y : y = next
    OBVIOUS
  <2>7. PICK w : w = World
    OBVIOUS
  <2>8. PlanMoves(x, Refreshed(y), w)
    BY <1>1, <2>3, <2>5, <2>6, <2>7, RefreshedMoves
  <2>9. QED BY <2>4, <2>5, <2>6, <2>7, <2>8, ChangeLoses
<1>6. QED BY <1>2, <1>3, <1>4, <1>5

\* A call that fails gives its plan the fields it captured.
LEMMA SettledMoves ==
    ASSUME IInv, LossInv, NEW j \in Jobs, job[j].at \in Applying, NEW status \in Statuses
    PROVE  LET plan == plans[job[j].plan]
               next == Settled(job[j], status) IN
           /\ plan \in PlanRecords /\ SamePlan(plan, next) /\ next.expired = plan.expired
           /\ DeletionAsks(plan, next.needs, World) /\ next \in PlanRecords
<1> DEFINE c == job[j]
           plan == plans[c.plan]
           next == [plan EXCEPT !.status = status, !.approved = c.approved,
                                !.needs = c.needs]
<1>1. plan \in PlanRecords /\ DeletionAsks(plan, c.needs, World) /\ c \in JobRecords
      /\ c.plan \in Ids
  BY SafeCalls DEF CollectedSafely
<1>2. Settled(c, status) = next
  BY DEF Settled
<1>3. Settled(c, status) \in PlanRecords
  BY <1>1, SettledPlans DEF IInv
<1> HIDE DEF plan, c
<1>4. SamePlan(plan, next) /\ next.expired = plan.expired /\ next.needs = c.needs
  BY <1>1 DEF PlanRecords, SamePlan
<1> HIDE DEF next
<1>5. SamePlan(plan, Settled(c, status)) /\ Settled(c, status).expired = plan.expired
      /\ Settled(c, status).needs = c.needs
  BY <1>2, <1>4
<1>6. QED BY <1>1, <1>3, <1>5 DEF c, plan

\* A call that applies gives its plan another state and ends.
LEMMA ClosesLose ==
    ASSUME IInv, IInv', LossInv, NEW j \in Jobs, NEW k \in Ids, NEW next,
           plans' = [plans EXCEPT ![k] = next],
           PlanMoves(plans[k], next, World), Steps(j, Idle, {}),
           UNCHANGED <<sides, everLocal, everRemote>>, SidesAreSeen(base', World)
    PROVE  LossInv'
<1>1. World' = World /\ Grows(World, World', {})
  BY NothingGrows
<1>2. /\ Ids' = Ids /\ plans'[k] = next
      /\ \A i \in Ids \ {k} : plans'[i] = plans[i]
  BY DEF IInv, PlanTypes, Ids
<1>3. job'[j] = Idle /\ \A i \in Jobs \ {j} : job'[i] = job[i]
  BY OthersStay DEF IInv
<1>4. \A i \in Jobs \ {j} : job'[i] = TooLate(job[i], {})
  BY <1>3, NobodyLate DEF IInv, JobTypes
<1>5. /\ {} \in SUBSET Paths /\ {j} \in SUBSET Jobs /\ Ids \subseteq Ids'
      /\ \A i \in Ids : plans'[i] = plans[i] \/ PlanMoves(plans[i], plans'[i], World)
      /\ \A i \in Ids' \ Ids : PlanIsSafe(plans'[i], World')
      /\ \A i \in {j} : /\ JobIsSafe(job'[i], World')
                        /\ job'[i].at \in Applying =>
                             CollectedSafely(job'[i], plans'[job'[i].plan], World')
  BY <1>1, <1>2, <1>3, IdleKept
<1>6. QED BY <1>1, <1>4, <1>5, LossKeeps

LEMMA FailsLoses ==
    ASSUME IInv, IInv', LossInv, NEW j \in Jobs, job[j].at \in Applying, Fails(j),
           UNCHANGED <<sides, everLocal, everRemote, base>>
    PROVE  LossInv'
<1> DEFINE k == job[j].plan
           next == Settled(job[j], "failed")
<1>1. k \in Ids
  BY SafeCalls
<1>2. /\ SamePlan(plans[k], next) /\ next.expired = plans[k].expired
      /\ DeletionAsks(plans[k], next.needs, World)
  BY SettledMoves DEF Statuses
<1>3. plans' = [plans EXCEPT ![k] = next] /\ Steps(j, Idle, {})
  BY DEF Fails
<1> HIDE DEF k, next
<1>4. PlanMoves(plans[k], next, World)
  BY <1>2 DEF SamePlan, PlanMoves
<1>5. SidesAreSeen(base', World)
  BY DEF LossInv
<1>6. QED BY <1>1, <1>3, <1>4, <1>5, ClosesLose

SameTexts(c, d) ==
    /\ d.local = c.local /\ d.rev = c.rev /\ d.remote = c.remote /\ d.base = c.base
    /\ d.publish = c.publish /\ d.pulled = c.pulled /\ d.changes = c.changes
    /\ d.incoming = c.incoming /\ d.write = c.write
    /\ d.late = c.late /\ d.agreed = c.agreed

SameAnswers(c, d) ==
    /\ d.plan = c.plan /\ d.needs = c.needs /\ d.approved = c.approved
    /\ d.swayed = c.swayed

LEMMA ApplyLoses ==
    ASSUME IInv, IInv', LossInv, NEW j \in Jobs, NEW k \in Ids, Apply(j, k)
    PROVE  LossInv'
<1> DEFINE plan == plans[k]
           next == [Idle EXCEPT
              !.at = "checked", !.plan = k, !.link = connection,
              !.approved = plan.approved, !.needs = plan.needs, !.agreed = plan.resolution]
<1>1. job' = [job EXCEPT ![j] = next]
      /\ UNCHANGED <<sides, everLocal, everRemote, base, plans>>
  BY DEF Apply, history
<1>2. PlanIsSafe(plan, World)
  BY DEF LossInv
<1>3. NeedsNow(plan) => plan.approved
  BY DEF Apply
<1> HIDE DEF plan
<1>4. /\ next.at = "checked" /\ next.plan = k /\ next.approved = plan.approved
      /\ next.needs = plan.needs /\ next.agreed = plan.resolution
      /\ next.local = Idle.local /\ next.rev = Idle.rev /\ next.remote = Idle.remote
      /\ next.base = Idle.base /\ next.publish = Idle.publish
      /\ next.pulled = Idle.pulled /\ next.changes = Idle.changes
      /\ next.incoming = Idle.incoming /\ next.write = Idle.write
      /\ next.swayed = Idle.swayed
  BY IdleJob DEF JobRecords
<1>5. ~Idle.swayed /\ Idle.write = {} /\ JobIsSafe(Idle, World)
  BY IdleKept DEF Idle
<1> HIDE DEF next
<1>6. JobIsSafe(next, World)
  BY <1>4, <1>5 DEF JobIsSafe, ComparesSafely, TextsAreSeen, WritesSafely
<1>7. CollectedSafely(next, plan, World)
  BY <1>2, <1>3, <1>4, <1>5 DEF CollectedSafely, PlanIsSafe, Asks, NeedsNow
<1>8. CollectedSafely(next, plans[next.plan], World)
  BY <1>4, <1>7 DEF plan
<1>9. QED BY <1>1, <1>6, <1>8, LossKeptByJob

\* After its last write a call reads the base.
LEMMA OnwardSafe ==
    ASSUME NEW c \in JobRecords, c.at = "writing", NEW w, JobIsSafe(c, w),
           Agreed(base, w), NEW plan, CollectedSafely(c, plan, w)
    PROVE  JobIsSafe(Onward(c), w) /\ CollectedSafely(Onward(c), plan, w)
           /\ Onward(c).plan = c.plan
<1>1. CASE c.write # {}
  BY <1>1 DEF Onward
<1>2. CASE c.write = {}
  <2> DEFINE d == [c EXCEPT !.at = "rebasing", !.base = base]
  <2>1. Onward(c) = d
    BY <1>2 DEF Onward
  <2>2. /\ d.at = "rebasing" /\ d.base = base
        /\ d.local = c.local /\ d.rev = c.rev /\ d.remote = c.remote
        /\ d.publish = c.publish /\ d.pulled = c.pulled /\ d.changes = c.changes
        /\ d.incoming = c.incoming /\ d.write = c.write /\ d.agreed = c.agreed
        /\ SameAnswers(c, d)
    BY DEF JobRecords, SameAnswers
  <2> HIDE DEF d
  <2>3. JobIsSafe(d, w)
    BY <1>2, <2>2 DEF JobIsSafe, ComparesSafely, TextsAreSeen, WritesSafely
  <2>4. CollectedSafely(d, plan, w)
    BY <2>2 DEF CollectedSafely, SameAnswers, Asks
  <2>5. QED BY <2>1, <2>2, <2>3, <2>4 DEF SameAnswers
<1>3. QED BY <1>1, <1>2

\* What apply publishes and writes: the plan's paths, and those that were resolved.
Resolved(plan, rs) == {p \in Paths : plan.resolution[p] \in rs}
Out(plan) == plan.push \cup Resolved(plan, {"keep-local", "manual"})
In(plan) == plan.pull \cup Resolved(plan, {"keep-remote", "manual"})
Chosen(plan, ps, t) ==
    [p \in Paths |-> IF p \notin ps THEN Absent
                     ELSE IF plan.resolution[p] = "manual" THEN Merged ELSE t[p]]

LEMMA CollectedFields ==
    ASSUME IInv, NEW c \in JobRecords, c.plan \in Ids
    PROVE  LET plan == plans[c.plan]
               d == Collected(c)
           IN /\ d.publish = Out(plan) /\ d.changes = Chosen(plan, Out(plan), plan.mine)
              /\ d.pulled = In(plan) /\ d.incoming = Chosen(plan, In(plan), plan.theirs)
              /\ d.write = In(plan) /\ d.agreed = plan.resolution /\ d.late = {}
              /\ d.swayed = (plan.expired \/ plan.resolution # c.agreed)
              /\ d.local = c.local /\ d.rev = c.rev /\ d.remote = c.remote
              /\ d.base = c.base /\ d.plan = c.plan /\ d.needs = c.needs
              /\ d.approved = c.approved /\ d.at = c.at
<1> DEFINE plan == plans[c.plan]
           out == Out(plan)
           in == In(plan)
           mine == Chosen(plan, out, plan.mine)
           theirs == Chosen(plan, in, plan.theirs)
           agreed == plan.resolution
           swayed == plan.expired \/ plan.resolution # c.agreed
           d == [c EXCEPT !.publish = out, !.changes = mine, !.pulled = in,
                          !.incoming = theirs, !.write = in, !.swayed = swayed,
                          !.agreed = agreed, !.late = {}]
<1>1. Collected(c) = d
  BY DEF Collected, Out, In, Chosen, Resolved
<1> HIDE DEF out, in, mine, theirs, agreed, swayed
<1>2. /\ d.publish = out /\ d.changes = mine /\ d.pulled = in /\ d.incoming = theirs
      /\ d.write = in /\ d.agreed = agreed /\ d.late = {} /\ d.swayed = swayed
      /\ d.local = c.local /\ d.rev = c.rev /\ d.remote = c.remote
      /\ d.base = c.base /\ d.plan = c.plan /\ d.needs = c.needs
      /\ d.approved = c.approved /\ d.at = c.at
  BY DEF JobRecords
<1> HIDE DEF d
<1>3. QED BY <1>1, <1>2 DEF plan, out, in, mine, theirs, agreed, swayed

\* The revision is still the plan's: so are the files, and the branch that a commit
\* would find.
LEMMA CollectsSafely ==
    ASSUME NEW plan \in PlanRecords, NEW w, PlanIsSafe(plan, w),
           plan.localRevision = w.revision,
           NEW c \in JobRecords, c.at = "checked", JobIsSafe(c, w), CollectedSafely(c, plan, w),
           NEW d, d.at \in {"publishing", "writing"},
           d.publish = Out(plan), d.changes = Chosen(plan, Out(plan), plan.mine),
           d.pulled = In(plan), d.incoming = Chosen(plan, In(plan), plan.theirs),
           d.write = In(plan), d.agreed = plan.resolution, d.late = {},
           d.swayed = (plan.expired \/ plan.resolution # c.agreed),
           d.local = c.local, d.rev = c.rev, d.remote = c.remote, d.base = c.base,
           d.needs = c.needs, d.approved = c.approved,
           d.at = "writing" => d.publish = {}
    PROVE  JobIsSafe(d, w) /\ CollectedSafely(d, plan, w)
<1>1. /\ plan.push \subseteq Paths /\ plan.pull \subseteq Paths
      /\ Out(plan) \subseteq Paths /\ In(plan) \subseteq Paths
      /\ plan.expired \in BOOLEAN /\ c.swayed \in BOOLEAN /\ plan.mine \in Tree
  BY DEF PlanRecords, JobRecords, Out, In, Resolved
<1>2. ComparesSafely(d, w)
  BY DEF JobIsSafe, ComparesSafely
<1>3. TextsAreSeen(d, w)
  <2>1. ASSUME NEW p \in d.publish \ d.pulled
        PROVE  Held(p, d.changes[p], w.everLocal)
    <3>1. p \in Paths /\ plan.resolution[p] # "manual"
      BY <1>1, <2>1 DEF In, Resolved
    <3>2. d.changes[p] = plan.mine[p]
      BY <2>1, <3>1 DEF Chosen
    <3>3. QED BY <3>1, <3>2 DEF PlanIsSafe, Seen
  <2>2. ASSUME NEW p \in d.pulled
        PROVE  \/ Held(p, d.incoming[p], w.everRemote)
               \/ p \in d.publish /\ d.changes[p] = d.incoming[p]
    <3>1. p \in Paths
      BY <1>1
    <3>2. CASE plan.resolution[p] = "manual"
      <4>1. p \in Out(plan)
        BY <3>1, <3>2 DEF Out, Resolved
      <4>2. QED BY <3>1, <3>2, <4>1 DEF Chosen
    <3>3. CASE plan.resolution[p] # "manual"
      <4>1. d.incoming[p] = plan.theirs[p]
        BY <3>1, <3>3 DEF Chosen
      <4>2. QED BY <3>1, <4>1 DEF PlanIsSafe, Seen
    <3>4. QED BY <3>2, <3>3
  <2>3. /\ \A p \in d.pulled \ d.write : Held(p, d.incoming[p], w.everLocal)
        /\ d.at \in {"answered", "writing", "rebasing", "closing"} => d.publish = {}
        /\ d.at \notin {"rebasing", "closing"}
    OBVIOUS
  <2>4. Seen(d.local, w.everLocal) /\ Seen(d.remote, w.everRemote) /\ Agreed(d.base, w)
    BY DEF JobIsSafe, TextsAreSeen
  <2> HIDE DEF Out
  <2>5. QED BY <2>1, <2>2, <2>3, <2>4 DEF TextsAreSeen
<1>4. WritesSafely(d, w)
  <2>1. ASSUME NEW p \in d.write
        PROVE  MayWrite(p, w) \/ d.agreed[p] \in {"keep-remote", "manual"}
    BY <2>1 DEF In, Resolved, PlanIsSafe
  <2>2. QED BY <2>1 DEF WritesSafely
<1>5. CollectedSafely(d, plan, w)
  <2>1. DeletionAsks(plan, d.needs, w) /\ d.at # "checked"
    BY DEF CollectedSafely
  <2>2. ASSUME ~d.swayed
        PROVE  ~plan.expired /\ (Asks(d) <=> Asks(c)) /\ (Asks(c) => d.approved)
    BY <1>1, <2>2 DEF CollectedSafely, Asks
  <2>3. plan.push \subseteq d.publish
    BY DEF Out
  <2>4. \A p \in d.publish : p \in plan.push \/ d.agreed[p] \in {"keep-local", "manual"}
    BY DEF Out, Resolved
  <2>5. \/ d.approved \/ d.swayed \/ plan.remoteHead < w.head
        \/ \A p \in d.publish : d.changes[p] # Absent
    <3> SUFFICES ASSUME ~d.approved, ~d.swayed, ~(plan.remoteHead < w.head),
                        NEW p \in d.publish
                 PROVE  d.changes[p] # Absent
      OBVIOUS
    <3>1. ~Asks(d)
      BY <2>2
    <3>2. p \in Paths /\ p \in plan.push /\ plan.resolution[p] # "manual"
      BY <1>1, <2>4, <3>1 DEF Asks
    <3>3. plan.mine[p] # Absent
      BY <2>1, <2>2, <3>1, <3>2 DEF DeletionAsks, Asks
    <3>4. QED BY <3>2, <3>3 DEF Chosen
  <2>6. QED BY <2>1, <2>2, <2>3, <2>4, <2>5 DEF CollectedSafely
<1>6. QED BY <1>2, <1>3, <1>4, <1>5 DEF JobIsSafe

LEMMA CollectLoses ==
    ASSUME IInv, IInv', LossInv, NEW j \in Jobs, Collect(j) PROVE LossInv'
<1> DEFINE c == job[j]
           plan == plans[c.plan]
           next == Collected(c)
           publishes == [next EXCEPT !.at = "publishing"]
           ready == [next EXCEPT !.at = "writing"]
<1>1. /\ c \in JobRecords /\ c.at = "checked" /\ c.at \in Applying /\ c.plan \in Ids
      /\ JobIsSafe(c, World) /\ CollectedSafely(c, plan, World)
      /\ plan \in PlanRecords /\ PlanIsSafe(plan, World)
  BY SafeCalls DEF Collect, Applying
<1>2. UNCHANGED <<sides, everLocal, everRemote, base>>
  BY DEF Collect, history
<1>3. CASE Fails(j)
  BY <1>1, <1>2, <1>3, FailsLoses
<1>4. CASE Steps(j, Idle, {}) /\ UNCHANGED plans
  BY <1>2, <1>4, IdleKept, LossKeptByJob
<1>5. CASE /\ plan.localRevision = World.revision /\ UNCHANGED plans
           /\ \/ next.publish # {} /\ Steps(j, publishes, {})
              \/ next.publish = {} /\ Steps(j, Onward(ready), {})
  <2>1. next \in JobRecords
    BY <1>1, CollectedJobs
  <2>2. /\ next.publish = Out(plan) /\ next.changes = Chosen(plan, Out(plan), plan.mine)
        /\ next.pulled = In(plan) /\ next.incoming = Chosen(plan, In(plan), plan.theirs)
        /\ next.write = In(plan) /\ next.agreed = plan.resolution /\ next.late = {}
        /\ next.swayed = (plan.expired \/ plan.resolution # c.agreed)
        /\ next.local = c.local /\ next.rev = c.rev /\ next.remote = c.remote
        /\ next.base = c.base /\ next.plan = c.plan /\ next.needs = c.needs
        /\ next.approved = c.approved
    BY <1>1, CollectedFields
  <2> HIDE DEF next
  <2>3. publishes \in JobRecords /\ publishes.at = "publishing"
        /\ SameTexts(next, publishes) /\ SameAnswers(next, publishes)
    BY <2>1 DEF JobRecords, Stages, Applying, SameTexts, SameAnswers
  <2>4. ready \in JobRecords /\ ready.at = "writing"
        /\ SameTexts(next, ready) /\ SameAnswers(next, ready)
    BY <2>1 DEF JobRecords, Stages, Applying, SameTexts, SameAnswers
  <2>5. PICK w : w = World
    OBVIOUS
  <2>6. PICK x \in PlanRecords : x = plan
    BY <1>1
  <2>7. PICK e \in JobRecords : e = c
    BY <1>1
  <2> HIDE DEF c, plan, publishes, ready
  <2>8. CASE Steps(j, publishes, {})
    <3>1. PICK d : d = publishes
      OBVIOUS
    <3>2. JobIsSafe(d, w) /\ CollectedSafely(d, x, w)
      <4>1. /\ PlanIsSafe(x, w) /\ x.localRevision = w.revision
            /\ e.at = "checked" /\ JobIsSafe(e, w) /\ CollectedSafely(e, x, w)
        BY <1>1, <1>5, <2>5, <2>6, <2>7
      <4>2. /\ d.at = "publishing" /\ d.publish = Out(x)
            /\ d.changes = Chosen(x, Out(x), x.mine)
            /\ d.pulled = In(x) /\ d.incoming = Chosen(x, In(x), x.theirs)
            /\ d.write = In(x) /\ d.agreed = x.resolution /\ d.late = {}
            /\ d.swayed = (x.expired \/ x.resolution # e.agreed)
            /\ d.local = e.local /\ d.rev = e.rev /\ d.remote = e.remote
            /\ d.base = e.base /\ d.needs = e.needs /\ d.approved = e.approved
        BY <2>2, <2>3, <2>6, <2>7, <3>1 DEF SameTexts, SameAnswers
      <4>3. QED BY <4>1, <4>2, CollectsSafely
    <3>3. publishes.plan = c.plan
      BY <2>2, <2>3 DEF SameAnswers
    <3>4. /\ JobIsSafe(publishes, World)
          /\ CollectedSafely(publishes, plans[publishes.plan], World)
      BY <2>5, <2>6, <3>1, <3>2, <3>3 DEF plan
    <3>5. QED BY <1>2, <1>5, <2>8, <3>4, LossKeptByJob
  <2>9. CASE next.publish = {} /\ Steps(j, Onward(ready), {})
    <3>1. PICK d : d = ready
      OBVIOUS
    <3>2. JobIsSafe(d, w) /\ CollectedSafely(d, x, w)
      <4>1. /\ PlanIsSafe(x, w) /\ x.localRevision = w.revision
            /\ e.at = "checked" /\ JobIsSafe(e, w) /\ CollectedSafely(e, x, w)
        BY <1>1, <1>5, <2>5, <2>6, <2>7
      <4>2. /\ d.at = "writing" /\ d.publish = Out(x)
            /\ d.changes = Chosen(x, Out(x), x.mine)
            /\ d.pulled = In(x) /\ d.incoming = Chosen(x, In(x), x.theirs)
            /\ d.write = In(x) /\ d.agreed = x.resolution /\ d.late = {}
            /\ d.swayed = (x.expired \/ x.resolution # e.agreed)
            /\ d.local = e.local /\ d.rev = e.rev /\ d.remote = e.remote
            /\ d.base = e.base /\ d.needs = e.needs /\ d.approved = e.approved
        BY <2>2, <2>4, <2>6, <2>7, <2>9, <3>1 DEF SameTexts, SameAnswers
      <4>3. d.at \in {"publishing", "writing"} /\ (d.at = "writing" => d.publish = {})
        BY <2>4, <2>9, <3>1 DEF SameTexts
      <4>4. QED BY <4>1, <4>2, <4>3, CollectsSafely
    <3>3. d \in JobRecords /\ d.plan = c.plan /\ d.at = "writing"
      BY <2>2, <2>4, <3>1 DEF SameAnswers
    <3>4. Agreed(base, w)
      BY <2>5 DEF LossInv, SidesAreSeen
    <3>5. JobIsSafe(Onward(d), w) /\ CollectedSafely(Onward(d), x, w)
          /\ Onward(d).plan = d.plan
      BY <3>2, <3>3, <3>4, OnwardSafe
    <3>6. /\ JobIsSafe(Onward(ready), World)
          /\ CollectedSafely(Onward(ready), plans[Onward(ready).plan], World)
      BY <2>5, <2>6, <3>1, <3>3, <3>5 DEF plan
    <3>7. QED BY <1>2, <1>5, <2>9, <3>6, LossKeptByJob
  <2>10. QED BY <1>5, <2>8, <2>9
<1>6. QED BY <1>3, <1>4, <1>5, WorldTypes DEF Collect

LEMMA RefusalsLose ==
    ASSUME IInv, IInv', LossInv, NEW j \in Jobs,
           PublishRefused(j) \/ CallFails(j) \/ WriteFails(j)
    PROVE  LossInv'
<1>1. job[j].at \in Applying /\ Fails(j)
      /\ UNCHANGED <<sides, everLocal, everRemote, base>>
  BY DEF PublishRefused, CallFails, WriteFails, Applying, history
<1>2. QED BY <1>1, FailsLoses

LEMMA AnsweredLoses ==
    ASSUME IInv, IInv', LossInv, NEW j \in Jobs, Answered(j) PROVE LossInv'
<1> DEFINE c == job[j]
           ready == [c EXCEPT !.at = "writing"]
<1>1. /\ c \in JobRecords /\ c.at = "answered" /\ c.at \in Applying
      /\ JobIsSafe(c, World) /\ CollectedSafely(c, plans[c.plan], World)
  BY SafeCalls DEF Answered, Applying
<1>2. UNCHANGED <<sides, everLocal, everRemote, base>>
  BY DEF Answered, history
<1>3. CASE Fails(j)
  BY <1>1, <1>2, <1>3, FailsLoses
<1>4. CASE Steps(j, Onward(ready), {}) /\ UNCHANGED plans
  <2>1. /\ ready \in JobRecords /\ ready.at = "writing"
        /\ SameTexts(c, ready) /\ SameAnswers(c, ready)
    BY <1>1 DEF JobRecords, Stages, Applying, SameTexts, SameAnswers
  <2> HIDE DEF ready, c
  <2>2. JobIsSafe(ready, World)
    BY <1>1, <2>1 DEF SameTexts, JobIsSafe, ComparesSafely, TextsAreSeen, WritesSafely
  <2>3. CollectedSafely(ready, plans[c.plan], World)
    BY <1>1, <2>1 DEF SameTexts, SameAnswers, CollectedSafely, Asks
  <2>4. PICK d \in JobRecords : d = ready
    BY <2>1
  <2>5. PICK w : w = World
    OBVIOUS
  <2>6. PICK x : x = plans[c.plan]
    OBVIOUS
  <2>7. Agreed(base, w)
    BY <2>5 DEF LossInv, SidesAreSeen
  <2>8. JobIsSafe(Onward(d), w) /\ CollectedSafely(Onward(d), x, w)
        /\ Onward(d).plan = d.plan
    BY <2>1, <2>2, <2>3, <2>4, <2>5, <2>6, <2>7, OnwardSafe
  <2>9. /\ JobIsSafe(Onward(ready), World)
        /\ CollectedSafely(Onward(ready), plans[Onward(ready).plan], World)
    BY <2>1, <2>4, <2>5, <2>6, <2>8 DEF SameAnswers
  <2>10. QED BY <1>2, <1>4, <2>9, LossKeptByJob
<1>5. QED BY <1>3, <1>4 DEF Answered

LEMMA WriteFileLoses ==
    ASSUME IInv, IInv', LossInv, NEW j \in Jobs, NEW p \in Paths, WriteFile(j, p)
    PROVE  LossInv'
<1> DEFINE c == job[j]
           done == [c EXCEPT !.write = @ \ {p}]
<1>1. /\ c \in JobRecords /\ c.at = "writing" /\ c.at \in Applying
      /\ c.head <= World.head /\ c.plan \in Ids /\ plans[c.plan] \in PlanRecords
      /\ PlanIsSafe(plans[c.plan], World)
      /\ JobIsSafe(c, World) /\ CollectedSafely(c, plans[c.plan], World)
  BY SafeCalls, WorldTypes DEF WriteFile, Applying
<1>2. /\ UNCHANGED <<base, plans>> /\ Ids' = Ids
      /\ Steps(j, Onward(done), {p}) /\ Local(p, c.incoming[p]) /\ p \in c.write
  BY DEF WriteFile, Ids
<1>3. c.incoming[p] \in Text
  BY <1>1 DEF JobRecords, Tree
<1>4. Grows(World, World', {p}) /\ SidesAreSeen(base', World')
  BY <1>2, <1>3, LocalGrows DEF IInv
<1>5. Held(p, c.incoming[p], World'.everLocal)
  <2>1. local'[p] = c.incoming[p]
    BY <1>2 DEF Local, IInv, SideTypes, Tree
  <2>2. Seen(local', everLocal')
    BY <1>4 DEF SidesAreSeen, World
  <2>3. QED BY <2>1, <2>2 DEF Seen, World
<1>6. /\ done \in JobRecords /\ done.at = "writing" /\ done.write = c.write \ {p}
      /\ done.local = c.local /\ done.rev = c.rev /\ done.remote = c.remote
      /\ done.base = c.base /\ done.publish = c.publish /\ done.pulled = c.pulled
      /\ done.changes = c.changes /\ done.incoming = c.incoming
      /\ done.late = c.late /\ done.agreed = c.agreed /\ SameAnswers(c, done)
  BY <1>1 DEF JobRecords, SameAnswers
<1>7. PICK w : w = World
  OBVIOUS
<1>8. PICK v : v = World'
  OBVIOUS
<1>9. PICK e \in JobRecords : e = c
  BY <1>1
<1>10. PICK d \in JobRecords : d = done
  BY <1>6
<1>11. PICK x \in PlanRecords : x = plans[c.plan]
  BY <1>1
<1>12. /\ Grows(w, v, {p}) /\ JobIsSafe(e, w) /\ CollectedSafely(e, x, w)
       /\ PlanIsSafe(x, w) /\ e.head <= w.head
       /\ Held(p, e.incoming[p], v.everLocal) /\ Agreed(base, v) /\ e.at = "writing"
       /\ d.at = "writing" /\ d.write = e.write \ {p}
       /\ d.local = e.local /\ d.rev = e.rev /\ d.remote = e.remote
       /\ d.base = e.base /\ d.publish = e.publish /\ d.pulled = e.pulled
       /\ d.changes = e.changes /\ d.incoming = e.incoming
       /\ d.late = e.late /\ d.agreed = e.agreed /\ SameAnswers(e, d)
  BY <1>1, <1>2, <1>4, <1>5, <1>6, <1>7, <1>8, <1>9, <1>10, <1>11 DEF SidesAreSeen
<1> HIDE DEF c, done
<1>13. JobIsSafe(TooLate(e, {p}), v) /\ CollectedSafely(TooLate(e, {p}), x, v)
  <2>1. {p} \in SUBSET Paths /\ PlanMoves(x, x, w)
    BY <1>12, UntouchedPlan
  <2>2. QED BY <1>12, <2>1, JobStaysSafe, CollectedStaysSafe
<1>14. /\ TooLate(e, {p}).at = e.at /\ SameAnswers(e, TooLate(e, {p}))
       /\ TooLate(e, {p}).local = e.local /\ TooLate(e, {p}).rev = e.rev
       /\ TooLate(e, {p}).remote = e.remote /\ TooLate(e, {p}).base = e.base
       /\ TooLate(e, {p}).publish = e.publish /\ TooLate(e, {p}).pulled = e.pulled
       /\ TooLate(e, {p}).changes = e.changes
       /\ TooLate(e, {p}).incoming = e.incoming
       /\ TooLate(e, {p}).write = e.write /\ TooLate(e, {p}).agreed = e.agreed
  <2>1. {p} \in SUBSET Paths
    OBVIOUS
  <2>2. QED BY <2>1, LateFields DEF SameAnswers
<1>15. PICK l : l = TooLate(e, {p})
  OBVIOUS
<1>16. ComparesSafely(d, v)
  BY <1>12, <1>13, <1>14 DEF JobIsSafe, ComparesSafely
<1>17. TextsAreSeen(d, v)
  <2>1. TextsAreSeen(l, v)
    BY <1>13, <1>15 DEF JobIsSafe
  <2>2. /\ l.at = e.at /\ l.local = e.local /\ l.remote = e.remote /\ l.base = e.base
        /\ l.publish = e.publish /\ l.pulled = e.pulled /\ l.changes = e.changes
        /\ l.incoming = e.incoming /\ l.write = e.write
    BY <1>14, <1>15
  <2>3. \A q \in d.pulled \ d.write : Held(q, d.incoming[q], v.everLocal)
    BY <1>12, <2>1, <2>2 DEF TextsAreSeen
  <2>4. \A q \in d.publish : Held(q, d.changes[q], v.everRemote)
    BY <1>12, <2>1, <2>2 DEF TextsAreSeen
  <2>5. QED BY <1>12, <2>1, <2>2, <2>3, <2>4 DEF TextsAreSeen
<1>18. WritesSafely(d, v)
  <2>1. ASSUME NEW q \in d.write \ d.late
        PROVE  MayWrite(q, v) \/ d.agreed[q] \in {"keep-remote", "manual"}
    <3>1. q \in e.write \ e.late /\ q \in Paths \ {p}
      BY <1>12, <2>1 DEF JobRecords
    <3>2. MayWrite(q, w) \/ e.agreed[q] \in {"keep-remote", "manual"}
      BY <1>12, <3>1 DEF JobIsSafe, WritesSafely
    <3>3. v.local[q] = w.local[q] /\ w.everRemote \subseteq v.everRemote
      BY <1>12, <3>1 DEF Grows
    <3>4. QED BY <1>12, <3>2, <3>3 DEF MayWrite, Held
  <2>2. QED BY <2>1 DEF WritesSafely
<1>19. CollectedSafely(d, x, v)
  BY <1>12, <1>13, <1>14 DEF CollectedSafely, SameAnswers, Asks
<1>20. JobIsSafe(d, v)
  BY <1>16, <1>17, <1>18 DEF JobIsSafe
<1>21. /\ JobIsSafe(Onward(d), v) /\ CollectedSafely(Onward(d), x, v)
       /\ Onward(d).plan = d.plan
  BY <1>12, <1>19, <1>20, OnwardSafe
<1>22. job'[j] = Onward(done) /\ \A i \in Jobs \ {j} : job'[i] = TooLate(job[i], {p})
  BY <1>2 DEF Steps
<1>23. done.plan = c.plan
  BY <1>6 DEF SameAnswers
<1>24. \A i \in {j} :
         /\ JobIsSafe(job'[i], World')
         /\ CollectedSafely(job'[i], plans'[job'[i].plan], World')
  BY <1>2, <1>8, <1>10, <1>11, <1>21, <1>22, <1>23
<1>25. {p} \in SUBSET Paths /\ {j} \in SUBSET Jobs
  OBVIOUS
<1>26. QED BY <1>2, <1>4, <1>22, <1>24, <1>25, LossKeeps

\* What a commit puts on the branch was seen there from then on.
LEMMA PublishLoses ==
    ASSUME IInv, IInv', LossInv, NEW j \in Jobs, Publish(j) PROVE LossInv'
<1> DEFINE c == job[j]
           k == c.plan
           files == [p \in Paths |-> IF p \in c.publish THEN c.changes[p] ELSE remote[p]]
           plan == [plans[k] EXCEPT !.commits = @ + 1]
           next == [c EXCEPT !.at = "answered"]
<1>1. /\ c \in JobRecords /\ c.at = "publishing" /\ c.at \in Applying
      /\ c.head <= World.head /\ k \in Ids /\ plans[k] \in PlanRecords
      /\ PlanIsSafe(plans[k], World)
      /\ JobIsSafe(c, World) /\ CollectedSafely(c, plans[k], World)
      /\ head = plans[k].remoteHead /\ head \in Nat
  BY SafeCalls, WorldTypes DEF Publish, Applying, IInv, SideTypes
<1>2. files \in Tree
  BY <1>1 DEF IInv, SideTypes, JobRecords, Tree
<1>3. /\ UNCHANGED base /\ Remote(files)
      /\ plans' = [plans EXCEPT ![k] = plan] /\ Steps(j, next, {})
  BY DEF Publish
<1>4. Grows(World, World', {}) /\ SidesAreSeen(base', World')
  BY <1>2, <1>3, RemoteGrows DEF IInv
<1>5. /\ World'.head = head + 1 /\ Seen(files, World'.everRemote)
  BY <1>3, <1>4 DEF Remote, World, SidesAreSeen
<1>6. \A p \in c.publish : Held(p, c.changes[p], World'.everRemote)
  BY <1>1, <1>5 DEF Seen, JobRecords
<1>7. SamePlan(plans[k], plan) /\ plan.needs = plans[k].needs
      /\ plan.expired = plans[k].expired
  BY <1>1 DEF PlanRecords, SamePlan
<1> HIDE DEF files
<1>8. /\ next.at = "answered" /\ SameTexts(c, next) /\ SameAnswers(c, next)
  BY <1>1 DEF JobRecords, SameTexts, SameAnswers
<1>9. /\ Ids' = Ids /\ plans'[k] = plan
      /\ \A i \in Ids \ {k} : plans'[i] = plans[i]
  BY <1>1, <1>3 DEF IInv, PlanTypes, Ids
<1>10. plan \in PlanRecords
  BY <1>1, <1>9 DEF IInv, PlanTypes
<1> HIDE DEF plan, next
<1>11. PlanMoves(plans[k], plan, World)
  BY <1>1, <1>7 DEF SamePlan, PlanMoves, PlanIsSafe
<1> HIDE DEF k
<1>12. PICK w : w = World
  OBVIOUS
<1>13. PICK v : v = World'
  OBVIOUS
<1>14. PICK e \in JobRecords : e = c
  BY <1>1
<1>15. PICK x \in PlanRecords : x = plans[k]
  BY <1>1
<1>16. PICK y \in PlanRecords : y = plan
  BY <1>10
<1>17. PICK d : d = next
  OBVIOUS
<1>18. /\ Grows(w, v, {}) /\ JobIsSafe(e, w) /\ CollectedSafely(e, x, w)
       /\ PlanMoves(x, y, w) /\ e.head <= w.head /\ e.at = "publishing"
       /\ \A p \in e.publish : Held(p, e.changes[p], v.everRemote)
       /\ y.remoteHead < v.head
       /\ d.at = "answered" /\ SameTexts(e, d) /\ SameAnswers(e, d)
  BY <1>1, <1>4, <1>5, <1>6, <1>7, <1>8, <1>11, <1>12, <1>13, <1>14, <1>15, <1>16, <1>17
     DEF SamePlan
<1>19. JobIsSafe(e, v) /\ CollectedSafely(e, y, v)
  <2>1. {} \in SUBSET Paths /\ TooLate(e, {}) = e
    BY NobodyLate
  <2>2. JobIsSafe(TooLate(e, {}), v) /\ CollectedSafely(TooLate(e, {}), y, v)
    BY <1>18, <2>1, JobStaysSafe, CollectedStaysSafe
  <2>3. QED BY <2>1, <2>2
<1>20. JobIsSafe(d, v)
  BY <1>18, <1>19 DEF SameTexts, JobIsSafe, ComparesSafely, TextsAreSeen, WritesSafely
<1>21. CollectedSafely(d, y, v)
  BY <1>18, <1>19 DEF SameTexts, SameAnswers, CollectedSafely, Asks
<1>22. next.plan = k
  BY <1>8 DEF SameAnswers, k
<1>23. job'[j] = next /\ \A i \in Jobs \ {j} : job'[i] = job[i]
  BY <1>3, OthersStay DEF IInv
<1>24. \A i \in Jobs \ {j} : job'[i] = TooLate(job[i], {})
  BY <1>23, NobodyLate DEF IInv, JobTypes
<1>25. \A i \in {j} : /\ JobIsSafe(job'[i], World')
                      /\ CollectedSafely(job'[i], plans'[job'[i].plan], World')
  BY <1>9, <1>13, <1>16, <1>17, <1>20, <1>21, <1>22, <1>23
<1>26. /\ {} \in SUBSET Paths /\ {j} \in SUBSET Jobs /\ Ids \subseteq Ids'
       /\ \A i \in Ids : plans'[i] = plans[i] \/ PlanMoves(plans[i], plans'[i], World)
       /\ \A i \in Ids' \ Ids : PlanIsSafe(plans'[i], World')
  BY <1>9, <1>11
<1>27. QED BY <1>4, <1>24, <1>25, <1>26, LossKeeps

LEMMA RereadsLose ==
    ASSUME IInv, IInv', LossInv, NEW j \in Jobs, RereadLocal(j) \/ RereadFails(j)
    PROVE  LossInv'
<1>1. UNCHANGED <<sides, everLocal, everRemote, base, plans>>
  BY DEF RereadLocal, RereadFails, history
<1>2. CASE RereadLocal(j)
  <2> DEFINE c == job[j]
             next == [c EXCEPT !.at = "closing", !.local = local]
  <2>1. /\ c \in JobRecords /\ c.at = "rebasing" /\ c.at \in Applying
        /\ JobIsSafe(c, World) /\ CollectedSafely(c, plans[c.plan], World)
    BY <1>2, SafeCalls DEF RereadLocal, Applying
  <2>2. Seen(local, World.everLocal)
    BY WorldTypes DEF LossInv, SidesAreSeen
  <2>3. /\ next.at = "closing" /\ next.local = local /\ SameAnswers(c, next)
        /\ next.rev = c.rev /\ next.remote = c.remote /\ next.base = c.base
        /\ next.publish = c.publish /\ next.pulled = c.pulled
        /\ next.changes = c.changes /\ next.incoming = c.incoming
        /\ next.write = c.write /\ next.agreed = c.agreed
    BY <2>1 DEF JobRecords, SameAnswers
  <2>4. Steps(j, next, {})
    BY <1>2 DEF RereadLocal
  <2> HIDE DEF c, next
  <2>5. JobIsSafe(next, World)
    BY <2>1, <2>2, <2>3 DEF JobIsSafe, ComparesSafely, TextsAreSeen, WritesSafely
  <2>6. CollectedSafely(next, plans[c.plan], World)
    BY <2>1, <2>3 DEF SameAnswers, CollectedSafely, Asks
  <2>7. CollectedSafely(next, plans[next.plan], World)
    BY <2>3, <2>6 DEF SameAnswers
  <2>8. QED BY <1>1, <2>4, <2>5, <2>7, LossKeptByJob
<1>3. CASE RereadFails(j)
  BY <1>1, <1>3, IdleKept, LossKeptByJob DEF RereadFails
<1>4. QED BY <1>2, <1>3

\* The new base holds what both sides held.
LEMMA NewBaseSeen ==
    ASSUME IInv, LossInv, NEW c \in JobRecords, c.at = "closing", JobIsSafe(c, World)
    PROVE  Seen(NewBase(c), everLocal) /\ Seen(NewBase(c), everRemote)
<1>1. /\ TextsAreSeen(c, World) /\ Seen(remote, everRemote)
  BY WorldTypes DEF JobIsSafe, LossInv, SidesAreSeen
<1>2. SUFFICES ASSUME NEW p \in Paths
               PROVE  /\ Held(p, NewBase(c)[p], everLocal)
                      /\ Held(p, NewBase(c)[p], everRemote)
  BY DEF Seen
<1>3. CASE c.local[p] = remote[p] /\ remote[p] # Absent
  <2>1. NewBase(c)[p] = remote[p]
    BY <1>3 DEF NewBase
  <2>2. Held(p, c.local[p], everLocal) /\ Held(p, remote[p], everRemote)
    BY <1>1, WorldTypes DEF TextsAreSeen, Seen
  <2>3. QED BY <1>3, <2>1, <2>2
<1>4. CASE ~(c.local[p] = remote[p] /\ remote[p] # Absent) /\ p \in c.pulled
  <2>1. NewBase(c)[p] = c.incoming[p]
    BY <1>4 DEF NewBase
  <2>2. Held(p, c.incoming[p], everLocal)
    BY <1>1, <1>4, WorldTypes DEF TextsAreSeen
  <2>3. Held(p, c.incoming[p], everRemote)
    BY <1>1, <1>4, WorldTypes DEF TextsAreSeen
  <2>4. QED BY <2>1, <2>2, <2>3
<1>5. CASE ~(c.local[p] = remote[p] /\ remote[p] # Absent) /\ p \in c.publish \ c.pulled
  <2>1. NewBase(c)[p] = c.changes[p]
    BY <1>5 DEF NewBase
  <2>2. Held(p, c.changes[p], everLocal) /\ Held(p, c.changes[p], everRemote)
    BY <1>1, <1>5, WorldTypes DEF TextsAreSeen
  <2>3. QED BY <2>1, <2>2
<1>6. CASE /\ ~(c.local[p] = remote[p] /\ remote[p] # Absent)
           /\ p \notin c.pulled /\ p \notin c.publish \ c.pulled
  <2>1. NewBase(c)[p] = IF c.base = NoBase THEN Absent ELSE c.base[p]
    BY <1>6 DEF NewBase
  <2>2. Agreed(c.base, World)
    BY <1>1 DEF TextsAreSeen
  <2>3. QED BY <2>1, <2>2, WorldTypes DEF Agreed, Seen, Held
<1>7. QED BY <1>3, <1>4, <1>5, <1>6

LEMMA FinishLoses ==
    ASSUME IInv, IInv', LossInv, NEW j \in Jobs, Finish(j) PROVE LossInv'
<1> DEFINE c == job[j]
           k == c.plan
           settled == Settled(c, "applied")
           next == Dropped(settled)
<1>1. /\ c \in JobRecords /\ c.at = "closing" /\ c.at \in Applying
      /\ k \in Ids /\ plans[k] \in PlanRecords
      /\ JobIsSafe(c, World) /\ CollectedSafely(c, plans[k], World)
  BY SafeCalls DEF Finish, Applying
<1>2. /\ UNCHANGED <<sides, everLocal, everRemote>> /\ base' = NewBase(c)
      /\ plans' = [plans EXCEPT ![k] = next] /\ Steps(j, Idle, {})
  BY DEF Finish
<1>3. /\ SamePlan(plans[k], settled) /\ settled.expired = plans[k].expired
      /\ DeletionAsks(plans[k], settled.needs, World) /\ settled \in PlanRecords
  BY <1>1, SettledMoves DEF Statuses
<1> HIDE DEF settled
<1>4. /\ next.push = settled.push /\ next.pull = settled.pull
      /\ next.localRevision = settled.localRevision
      /\ next.remoteHead = settled.remoteHead
      /\ next.mine = Empty /\ next.theirs = Empty /\ next.needs = settled.needs
      /\ next.expired = settled.expired
  BY <1>3 DEF Dropped, PlanRecords
<1> HIDE DEF next
<1>5. plans[k].push = {} \/ plans[k].remoteHead < World.head
  BY <1>1 DEF CollectedSafely
<1>6. PlanMoves(plans[k], next, World)
  BY <1>3, <1>4, <1>5 DEF SamePlan, PlanMoves
<1>7. SidesAreSeen(base', World)
  BY <1>1, <1>2, NewBaseSeen, WorldTypes DEF LossInv, SidesAreSeen, Agreed
<1>8. QED BY <1>1, <1>2, <1>6, <1>7, ClosesLose

-----------------------------------------------------------------------------
LEMMA InitLossInvariant == Init => LossInv
<1> SUFFICES ASSUME Init PROVE LossInv
  OBVIOUS
<1>1. SidesAreSeen(base, World)
  <2>1. IInv
    BY InitInvariant
  <2>2. /\ Seen(local, everLocal) /\ Seen(remote, everRemote)
    BY <2>1, FilesSeen DEF Init, IInv, SideTypes
  <2>3. base # NoBase => Seen(base, everLocal) /\ Seen(base, everRemote)
    BY <2>1, FilesSeen DEF Init, IInv, SideTypes, Bases
  <2>4. QED BY <2>2, <2>3, WorldTypes DEF SidesAreSeen, Agreed
<1>2. Ids = {}
  BY DEF Init, Ids
<1>3. \A j \in Jobs : job[j] = Idle
  BY DEF Init
<1>4. QED BY <1>1, <1>2, <1>3, IdleKept, InitInvariant DEF LossInv

LEMMA LossStepInvariant == IInv /\ LossInv /\ [Next]_vars => LossInv'
<1> SUFFICES ASSUME IInv, LossInv, [Next]_vars PROVE LossInv'
  OBVIOUS
<1>0. IInv'
  BY StepInvariant
<1>1. CASE \/ \E p \in Paths : \E text \in LocalEdits : EditProject(p, text)
           \/ \E p \in Paths : \E text \in RemoteEdits : PushToBranch(p, text)
  BY <1>0, <1>1, PeopleLose
<1>2. CASE Disconnect
  BY <1>0, <1>2, DisconnectLoses
<1>3. ASSUME NEW j \in Jobs,
             \/ Connect(j) \/ Connected(j)
             \/ Compare(j) \/ ReadOther(j) \/ BuildPlan(j)
             \/ \E p \in Paths : Fetch(j, p) \/ WriteFile(j, p)
             \/ \E k \in Ids : Apply(j, k)
             \/ Collect(j) \/ Publish(j) \/ PublishRefused(j) \/ CallFails(j) \/ Answered(j)
             \/ WriteFails(j) \/ RereadLocal(j) \/ RereadFails(j) \/ Finish(j)
      PROVE  LossInv'
  BY <1>0, <1>3, LinksLose, ReadsLose, BuildPlanLoses, FetchLoses, WriteFileLoses,
     ApplyLoses, CollectLoses, PublishLoses, RefusalsLose, AnsweredLoses, RereadsLose,
     FinishLoses
<1>4. ASSUME NEW k \in Ids,
             \/ Expire(k) \/ Approve(k) \/ Cancel(k)
             \/ \E p \in Paths : \E resolution \in Resolutions :
                  ResolveConflict(k, p, resolution)
      PROVE  LossInv'
  BY <1>0, <1>4, DecisionsLose
<1>5. CASE UNCHANGED vars
  <2>1. UNCHANGED World
    BY <1>5 DEF vars, sides, history, World
  <2>2. QED BY <1>5, <2>1 DEF vars, LossInv, Ids
<1>6. QED BY <1>1, <1>2, <1>3, <1>4, <1>5 DEF Next

-----------------------------------------------------------------------------
(* What a step may do to a call.                                           *)

OwnStep(j) ==
    \/ Connect(j) \/ Connected(j)
    \/ Compare(j) \/ ReadOther(j) \/ BuildPlan(j)
    \/ \E p \in Paths : Fetch(j, p) \/ WriteFile(j, p)
    \/ \E k \in Ids : Apply(j, k)
    \/ Collect(j) \/ Publish(j) \/ PublishRefused(j) \/ CallFails(j) \/ Answered(j)
    \/ WriteFails(j) \/ RereadLocal(j) \/ RereadFails(j) \/ Finish(j)

Untouched(j) == job'[j].at = job[j].at

LEMMA OthersUntouched ==
    ASSUME JobTypes, NEW i \in Jobs, NEW j \in Jobs, i # j, OwnStep(i)
    PROVE  Untouched(j)
<1>1. job[j] \in JobRecords
  BY DEF JobTypes
<1>2. \A ps : TooLate(job[j], ps).at = job[j].at
  BY <1>1 DEF TooLate, JobRecords
<1>3. ASSUME NEW next, NEW ps, Steps(i, next, ps)
      PROVE  Untouched(j)
  BY <1>2, <1>3 DEF Steps, Untouched
<1>4. ASSUME NEW next, job' = [job EXCEPT ![i] = next]
      PROVE  Untouched(j)
  BY <1>4 DEF Untouched, JobTypes
<1>5. Fails(i) => Untouched(j)
  BY <1>3 DEF Fails
<1>6. ASSUME NEW next, Proceed(i, next)
      PROVE  Untouched(j)
  BY <1>4, <1>6 DEF Proceed
<1>7. CASE Connect(i)
  BY <1>7 DEF Connect, Untouched, JobTypes
<1>8. CASE Connected(i) \/ Compare(i) \/ ReadOther(i) \/ \E k \in Ids : Apply(i, k)
  BY <1>4, <1>8 DEF Connected, Compare, ReadOther, Apply
<1>9. CASE BuildPlan(i)
  BY <1>6, <1>9 DEF BuildPlan
<1>10. ASSUME NEW p \in Paths, Fetch(i, p)
       PROVE  Untouched(j)
  BY <1>4, <1>6, <1>10 DEF Fetch
<1>11. ASSUME NEW p \in Paths, WriteFile(i, p)
       PROVE  Untouched(j)
  BY <1>3, <1>11 DEF WriteFile
<1>12. CASE Collect(i)
  BY <1>3, <1>5, <1>12 DEF Collect
<1>13. CASE Publish(i)
  BY <1>3, <1>13 DEF Publish
<1>14. CASE PublishRefused(i) \/ CallFails(i) \/ WriteFails(i)
  BY <1>5, <1>14 DEF PublishRefused, CallFails, WriteFails
<1>15. CASE Answered(i)
  BY <1>3, <1>5, <1>15 DEF Answered
<1>16. CASE RereadLocal(i) \/ RereadFails(i) \/ Finish(i)
  BY <1>3, <1>16 DEF RereadLocal, RereadFails, Finish
<1>17. QED BY <1>7, <1>8, <1>9, <1>10, <1>11, <1>12, <1>13, <1>14, <1>15, <1>16 DEF OwnStep

LEMMA StepsOfACall ==
    ASSUME JobTypes, [Next]_vars, NEW j \in Jobs
    PROVE  OwnStep(j) \/ Untouched(j)
<1>1. job[j] \in JobRecords
  BY DEF JobTypes
<1>2. ASSUME NEW p \in Paths, NEW text,
             EditProject(p, text) \/ PushToBranch(p, text)
      PROVE  Untouched(j)
  BY <1>1, <1>2 DEF EditProject, PushToBranch, TooLate, JobRecords, Untouched
<1>3. CASE Disconnect \/ UNCHANGED vars
  BY <1>3 DEF Disconnect, vars, Untouched
<1>4. ASSUME NEW i \in Jobs, OwnStep(i)
      PROVE  OwnStep(j) \/ Untouched(j)
  BY <1>4, OthersUntouched
<1>5. ASSUME NEW k \in Ids,
             \/ Expire(k) \/ Approve(k) \/ Cancel(k)
             \/ \E p \in Paths : \E resolution \in Resolutions :
                  ResolveConflict(k, p, resolution)
      PROVE  Untouched(j)
  BY <1>5 DEF Expire, Approve, Cancel, ResolveConflict, Change, Untouched
<1>6. QED BY <1>2, <1>3, <1>4, <1>5 DEF Next, OwnStep

LEMMA OnlyPublishAnswers ==
    ASSUME JobTypes, [Next]_vars, NEW j \in Jobs,
           job[j].at = "publishing", job'[j].at = "answered"
    PROVE  Publish(j)
<1>1. OwnStep(j)
  BY StepsOfACall DEF Untouched
<1>2. Publish(j) \/ PublishRefused(j) \/ CallFails(j)
  BY <1>1 DEF OwnStep, Connect, Connected, Compare, ReadOther, BuildPlan, Fetch, WriteFile,
              Apply, Collect, Answered, WriteFails, RereadLocal, RereadFails, Finish
<1>3. Fails(j) => job'[j] = Idle
  BY DEF Fails, Steps
<1>4. QED BY <1>2, <1>3, IdleJob DEF PublishRefused, CallFails

(* What a sync writes over in the project is no work that only the project *)
(* held when the revision was compared: it was on the branch, a person     *)
(* decided, or the screening withholds it.  The rest came too late.        *)
THEOREM SyncsSpareTheProject == Spec => ProjectEditsSurvive
<1> DEFINE Stay ==
      \A j \in Jobs, p \in Paths :
         /\ job[j].at = "writing" /\ p \in job[j].write /\ p \notin job'[j].write
         /\ local'[p] # local[p] /\ local[p] # Absent
         => \/ <<p, local[p]>> \in everRemote
            \/ job[j].agreed[p] \in {"keep-remote", "manual"}
            \/ p \in job[j].late
            \/ local[p] \in Withheld
<1>1. IInv /\ LossInv /\ [Next]_vars => Stay
  <2> SUFFICES ASSUME IInv, LossInv, [Next]_vars, NEW j \in Jobs, NEW p \in Paths,
                      job[j].at = "writing", p \in job[j].write, local[p] # Absent
               PROVE  \/ <<p, local[p]>> \in everRemote
                      \/ job[j].agreed[p] \in {"keep-remote", "manual"}
                      \/ p \in job[j].late
                      \/ local[p] \in Withheld
    OBVIOUS
  <2>1. WritesSafely(job[j], World)
    BY DEF LossInv, JobIsSafe
  <2>2. QED BY <2>1, WorldTypes DEF WritesSafely, MayWrite, Held
<1>2. IInv /\ LossInv /\ [Next]_vars => [Stay]_vars
  BY <1>1
<1> HIDE DEF Stay
<1>3. Spec => [][Stay]_vars
  BY <1>2, InitInvariant, StepInvariant, InitLossInvariant, LossStepInvariant, PTL DEF Spec
<1>4. QED BY <1>3 DEF Stay, ProjectEditsSurvive

\* The commit of a call, and what is known of it.
LEMMA Commits ==
    ASSUME IInv, LossInv, [Next]_vars, NEW j \in Jobs, NEW p \in Paths,
           job[j].at = "publishing", job'[j].at = "answered", remote'[p] # remote[p]
    PROVE  /\ p \in job[j].publish /\ remote'[p] = job[j].changes[p]
           /\ head = plans[job[j].plan].remoteHead
           /\ PlanIsSafe(plans[job[j].plan], World)
           /\ CollectedSafely(job[j], plans[job[j].plan], World)
<1>1. Publish(j)
  BY OnlyPublishAnswers DEF IInv
<1>2. /\ head = plans[job[j].plan].remoteHead
      /\ remote' = [q \in Paths |-> IF q \in job[j].publish THEN job[j].changes[q]
                                    ELSE remote[q]]
  BY <1>1 DEF Publish, Remote
<1>3. p \in job[j].publish /\ remote'[p] = job[j].changes[p]
  BY <1>2
<1>4. QED BY <1>2, <1>3, SafeCalls DEF Applying

(* What a commit replaces on the branch was in the project at some time,   *)
(* or a person decided: no work that only the branch held is lost, however *)
(* many calls apply plans and whatever others push in between.             *)
THEOREM SyncsSpareTheBranch == Spec => BranchEditsSurvive
<1> DEFINE Stay ==
      \A j \in Jobs, p \in Paths :
         /\ job[j].at = "publishing" /\ job'[j].at = "answered"
         /\ remote'[p] # remote[p] /\ remote[p] # Absent
         => \/ <<p, remote[p]>> \in everLocal
            \/ job[j].agreed[p] \in {"keep-local", "manual"}
<1>1. IInv /\ LossInv /\ [Next]_vars => Stay
  <2> SUFFICES ASSUME IInv, LossInv, [Next]_vars, NEW j \in Jobs, NEW p \in Paths,
                      job[j].at = "publishing", job'[j].at = "answered",
                      remote'[p] # remote[p], remote[p] # Absent
               PROVE  \/ <<p, remote[p]>> \in everLocal
                      \/ job[j].agreed[p] \in {"keep-local", "manual"}
    OBVIOUS
  <2> DEFINE plan == plans[job[j].plan]
  <2>1. /\ p \in job[j].publish /\ head = plan.remoteHead
        /\ PlanIsSafe(plan, World) /\ CollectedSafely(job[j], plan, World)
    BY Commits
  <2>2. p \in plan.push \/ job[j].agreed[p] \in {"keep-local", "manual"}
    BY <2>1 DEF CollectedSafely
  <2>3. p \in plan.push => MayReplace(p, World)
    BY <2>1, WorldTypes DEF PlanIsSafe
  <2>4. QED BY <2>2, <2>3, WorldTypes DEF MayReplace, Held
<1>2. IInv /\ LossInv /\ [Next]_vars => [Stay]_vars
  BY <1>1
<1> HIDE DEF Stay
<1>3. Spec => [][Stay]_vars
  BY <1>2, InitInvariant, StepInvariant, InitLossInvariant, LossStepInvariant, PTL DEF Spec
<1>4. QED BY <1>3 DEF Stay, BranchEditsSurvive

(* A commit that deletes a file of the branch was approved by a person,    *)
(* but for the plan that expires or is resolved anew while apply waits for *)
(* the project's revision: its deletions were not there to be approved.    *)
THEOREM DeletionsNeedAPerson == Spec => DeletionsAreApproved
<1> DEFINE Stay ==
      \A j \in Jobs, p \in Paths :
         /\ job[j].at = "publishing" /\ job'[j].at = "answered"
         /\ remote[p] # Absent /\ remote'[p] = Absent
         => job[j].approved \/ job[j].swayed
<1>1. IInv /\ LossInv /\ [Next]_vars => Stay
  <2> SUFFICES ASSUME IInv, LossInv, [Next]_vars, NEW j \in Jobs, NEW p \in Paths,
                      job[j].at = "publishing", job'[j].at = "answered",
                      remote[p] # Absent, remote'[p] = Absent
               PROVE  job[j].approved \/ job[j].swayed
    OBVIOUS
  <2> DEFINE plan == plans[job[j].plan]
  <2>1. /\ p \in job[j].publish /\ remote'[p] = job[j].changes[p]
        /\ head = plan.remoteHead /\ CollectedSafely(job[j], plan, World)
    BY Commits
  <2>2. ~(plan.remoteHead < World.head)
    BY <2>1, WorldTypes DEF IInv, SideTypes
  <2>3. QED BY <2>1, <2>2 DEF CollectedSafely
<1>2. IInv /\ LossInv /\ [Next]_vars => [Stay]_vars
  BY <1>1
<1> HIDE DEF Stay
<1>3. Spec => [][Stay]_vars
  BY <1>2, InitInvariant, StepInvariant, InitLossInvariant, LossStepInvariant, PTL DEF Spec
<1>4. QED BY <1>3 DEF Stay, DeletionsAreApproved
===============================================================================
