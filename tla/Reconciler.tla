----------------------------- MODULE Reconciler -----------------------------
(***************************************************************************)
(* The reconciler of one FabricNetwork (controllers/), with everything it  *)
(* runs between: the API server holding the resource, the informer cache   *)
(* its reads are served from, the work queue with its delayed requeues,    *)
(* the local chart directory, the Helm release and the Argo workflows.     *)
(*                                                                         *)
(* One call of Reconcile is a walk of the single worker through `pc'; each *)
(* external effect of the code is a step of its own, so the user, the      *)
(* cluster and a crash of the operator may come between any two of them.   *)
(***************************************************************************)
EXTENDS FabricNetwork

CONSTANTS Specs,          \* the specs (compared fields) the user may write
          Edits,          \* pairs of Specs: the edits the user may make
          Initial,        \* the specs a network may be created with
          WaitsForReady,  \* whether the user edits only a settled network
          Forceable,      \* the states the user may force
          Outcomes,       \* the phases a workflow may end in
          OthersAnswers,  \* what the check for other networks may answer
          ResyncAnytime,  \* whether the periodic resync may find work in progress
          ServicesLag,    \* whether the cache of the services may lag behind Helm
          MaxWorkflows,   \* bound: workflows that matter at one time
          MaxEdits,       \* bound: edits and forced states
          MaxCrashes,     \* bound: operator restarts
          MaxFaults       \* bound: failing API, Helm and Argo calls

ASSUME ReconcilerAssumption ==
    /\ \A d \in Specs : Stored(d) \in Specs /\ d.topology.useActualDomains \in BOOLEAN
    /\ Edits \subseteq Specs \X Specs
    /\ Initial \subseteq Specs
    /\ {WaitsForReady, ResyncAnytime, ServicesLag} \subseteq BOOLEAN
    /\ Forceable \subseteq ForceStates
    /\ Outcomes \subseteq {"Succeeded", "Failed", "Error"}
    /\ OthersAnswers \subseteq {"alone", "others"}
    /\ {MaxWorkflows, MaxEdits, MaxCrashes, MaxFaults} \subseteq Nat

VARIABLES
    spec, status,     \* the resource in the API server
    watch, cache,     \* its undelivered versions, and the one the informer holds
    queued, delayed,  \* the work queue: ready to run, waiting for a requeue
    pc,               \* where the worker is in Reconcile
    net,              \* the resource as read, and updated, by the worker
    fresh,            \* net has the resource version of the server
    pending,          \* the status the worker is about to save
    dir,              \* the chart directory of the network
    secret,           \* the certificates are stored in the cluster
    release,          \* the Helm release hlf-kube
    workflows,        \* the Argo workflows created for the network
    fabric,           \* what the workflows have established in the network
    edits, crashes, faults  \* budgets left

resource == <<spec, status>>
informer == <<watch, cache>>
worker   == <<pc, net, fresh, pending>>
cluster  == <<secret, release, workflows, fabric>>
budgets  == <<edits, crashes, faults>>
vars == <<resource, informer, queued, delayed, worker, dir, cluster, budgets>>

-----------------------------------------------------------------------------
\* Data the worker and the cluster hold.

Names == 1..MaxWorkflows                \* workflow names; 0 is the empty name
SpecsOrUnset == Specs \union {Unset}
Statuses == [state : States, workflow : Names \union {0}, nextFlow : NextFlows,
             observed : SpecsOrUnset]
Resources == [spec : [desired : SpecsOrUnset, force : Forceable \union {""}],
              status : Statuses]

FirstStatus == [state |-> "", workflow |-> 0, nextFlow |-> "", observed |-> Unset]

\* What the worker holds between two calls of Reconcile.
Blank == [spec |-> [desired |-> Unset, force |-> ""], status |-> FirstStatus]

\* The chart directory: absent; the chart copied without values files; with the
\* values of a spec but certificates or genesis block missing; complete.
Stages == {"absent", "chart", "values", "complete"}
Dirs == [stage : Stages, values : SpecsOrUnset]
NoDir == [stage |-> "absent", values |-> Unset]

NoRelease == [installed |-> FALSE, topology |-> Unset.topology, launched |-> FALSE,
              listed |-> {}, aliases |-> {}, misled |-> FALSE, certificates |-> FALSE,
              ready |-> FALSE, reported |-> FALSE]
NoWorkflow == [flow |-> "", values |-> Unset, chaincode |-> Unset.chaincode,
               include |-> {}, phase |-> "Absent"]
NothingYet == [members |-> {}, joined |-> {}, installed |-> {}]

NoDraft == [status |-> FirstStatus, checked |-> FALSE, then |-> "idle"]

Init ==
    /\ \E d \in Initial : spec = [desired |-> d, force |-> ""]
    /\ status = FirstStatus
    /\ watch = <<>> /\ cache = [spec |-> spec, status |-> status]
    /\ queued = TRUE /\ delayed = FALSE
    /\ pc = "idle" /\ net = Blank /\ fresh = FALSE /\ pending = NoDraft
    /\ dir = NoDir /\ secret = FALSE /\ release = NoRelease
    /\ workflows = [n \in Names |-> NoWorkflow] /\ fabric = NothingYet
    /\ edits = MaxEdits /\ crashes = MaxCrashes /\ faults = MaxFaults

-----------------------------------------------------------------------------
\* API server, informer and work queue (controller-runtime).

\* An accepted write makes a new version and sends it to the informer.
Write(newSpec, newStatus) ==
    /\ spec' = newSpec /\ status' = newStatus
    /\ watch' = Append(watch, [spec |-> newSpec, status |-> newStatus])
    /\ UNCHANGED cache

AcceptedAtAnyVersion == TRUE

\* The server accepts a write only at the version the writer has read.
Accepted == fresh

Deliver ==
    /\ watch # <<>>
    /\ cache' = Head(watch) /\ watch' = Tail(watch)
    /\ queued' = TRUE
    /\ UNCHANGED <<resource, delayed, worker, dir, cluster, budgets>>

TimerFires ==
    /\ delayed
    /\ delayed' = FALSE /\ queued' = TRUE
    /\ UNCHANGED <<resource, informer, worker, dir, cluster, budgets>>

\* The informer's periodic resync, ten hours apart, enqueues every known resource.
Quiet == pc = "idle" /\ watch = <<>> /\ ~queued /\ ~delayed

Resync ==
    /\ ResyncAnytime \/ Quiet
    /\ queued' = TRUE
    /\ UNCHANGED <<resource, informer, delayed, worker, dir, cluster, budgets>>

-----------------------------------------------------------------------------
\* The worker's control flow.

\* Reconcile returns, with or without asking to be called again.
Return(requeue) ==
    /\ pc' = "idle" /\ fresh' = FALSE /\ pending' = NoDraft /\ net' = Blank
    /\ delayed' = (delayed \/ requeue)
    /\ UNCHANGED queued

\* The worker goes on to save `draft'; `checked' says whether the code looks at
\* the error of saveStatus, `then' where it goes after a successful save.
Save(draft, checked, then) ==
    /\ pc' = "save" /\ pending' = [status |-> draft, checked |-> checked, then |-> then]
    /\ UNCHANGED <<queued, delayed, net, fresh>>

Goto(label) == pc' = label /\ UNCHANGED <<queued, delayed, net, fresh, pending>>

\* saveStatus sets these two fields and keeps the rest of the status in memory.
With(state, workflow) == [net.status EXCEPT !.state = state, !.workflow = workflow]

ObservingNothing(draft) == draft
Observing(draft) == [draft EXCEPT !.observed = net.spec.desired]

Changes == GetChanges(net.spec.desired, net.status.observed)

Fault == faults > 0 /\ faults' = faults - 1

\* The worker takes the key and reads the resource from the cache.
Begin ==
    /\ pc = "idle" /\ queued
    /\ queued' = FALSE /\ pc' = "handle"
    /\ net' = cache /\ fresh' = (watch = <<>>)
    /\ UNCHANGED <<resource, informer, delayed, pending, dir, cluster, budgets>>

ForceAndKeep ==
    /\ pc = "handle" /\ net.spec.force # ""
    /\ Save(With(net.spec.force, 0), TRUE, "idle")
    /\ UNCHANGED <<resource, informer, dir, cluster, budgets>>

\* A forced state is saved first and cleared from the spec afterwards, by a write
\* of the whole spec as it was read.
HandleForce ==
    /\ pc = "handle" /\ net.spec.force # ""
    /\ Save(With(net.spec.force, 0), TRUE, "clearForce")
    /\ UNCHANGED <<resource, informer, dir, cluster, budgets>>

ClearForce ==
    /\ pc = "clearForce"
    /\ \/ /\ Accepted
          /\ Write([desired |-> Stored(net.spec.desired), force |-> ""], status)
          /\ UNCHANGED budgets
       \/ ~Accepted /\ UNCHANGED <<resource, informer, budgets>>
       \/ Fault /\ UNCHANGED <<resource, informer, edits, crashes>>
    /\ Return(TRUE)
    /\ UNCHANGED <<dir, cluster>>

NeverToReconstruct == TRUE

\* maybeReconstructHelmChart returns before doing anything.
NothingToReconstruct == dir.stage # "absent" \/ net.status.state = "Failed"

\* The network directory was lost: copy the chart, write the values files and
\* download certificates and genesis block, which exist once a release does.
\* Any failure leaves the partial directory behind.
Reconstruct ==
    /\ pc = "handle" /\ net.spec.force = ""
    /\ ~NothingToReconstruct
    /\ \/ /\ secret /\ release.installed
          /\ dir' = [stage |-> "complete", values |-> net.spec.desired]
          /\ Goto("handle")
          /\ UNCHANGED faults
       \/ /\ ~(secret /\ release.installed)
          /\ dir' = [stage |-> "values", values |-> net.spec.desired]
          /\ Return(TRUE)
          /\ UNCHANGED faults
       \/ /\ Fault
          /\ dir' \in { [stage |-> "chart", values |-> Unset],
                        [stage |-> "values", values |-> net.spec.desired] }
          /\ Return(TRUE)
    /\ UNCHANGED <<resource, informer, cluster, edits, crashes>>

\* The switch on Status.State is reached.
Handling(state) ==
    /\ pc = "handle" /\ net.spec.force = ""
    /\ NothingToReconstruct
    /\ net.status.state = state

\* A call that fails without any effect; the error is returned.  The states left
\* out call nothing, or nothing but saveStatus.
CallFails ==
    /\ \/ /\ pc = "handle" /\ net.spec.force = ""
          /\ net.status.state \notin {"Failed", "Rejected", "HelmChartReady",
                                     "ChaincodeFlowCompleted"}
          /\ net.status.state = "Ready" => AreThereAnyChanges(Changes)
       \/ pc \in {"prepare", "install", "secondUpdate", "nextFlow"}
    /\ Fault /\ Return(TRUE)
    /\ UNCHANGED <<resource, informer, dir, cluster, edits, crashes>>

-----------------------------------------------------------------------------
\* Calls of the worker on Argo and Helm.

\* An unused name.  Argo invents a new one each time; a finished workflow that
\* no version of the resource names any more is forgotten, its name free again.
Unused(n) ==
    /\ workflows[n].phase # "Running"
    /\ n # status.workflow /\ n # net.status.workflow /\ n # cache.status.workflow
    /\ \A i \in DOMAIN watch : n # watch[i].status.workflow
NewName(n) == Unused(n) /\ \A m \in 1..(n - 1) : ~Unused(m)

TrackingNothing(draft, flow, n) == [draft EXCEPT !.state = Submitted[flow], !.workflow = 0]
Tracking(draft, flow, n) == [draft EXCEPT !.state = Submitted[flow], !.workflow = n]

\* getWorkflowStatus: every phase but these two counts as still running.
CompletedOnceSubmitted(phase) == IF phase = "Failed" THEN "Failed" ELSE "Completed"
DeafToFailure(phase) == IF phase = "Succeeded" THEN "Completed" ELSE "Submitted"
WorkflowStatus(phase) ==
    CASE phase = "Succeeded" -> "Completed"
      [] phase = "Failed" -> "Failed"
      [] OTHER -> "Submitted"

\* Render the workflow from the values files, with the global chaincode
\* configuration of the resource, and submit it, then save that it was.  An
\* error may hide that Argo has accepted it.
StartFlow(flow, values, include, draft) ==
    \/ /\ values.stage # "chart"
       /\ \E n \in Names :
            /\ NewName(n)
            /\ workflows' = [workflows EXCEPT ![n] =
                    [flow |-> flow, values |-> values.values,
                     chaincode |-> net.spec.desired.chaincode, include |-> include,
                     phase |-> "Running"]]
            /\ \/ /\ Save(Tracking(draft, flow, n), FALSE, "idle")
                  /\ UNCHANGED faults
               \/ Fault /\ Return(TRUE)
    \/ values.stage = "chart" /\ Return(TRUE) /\ UNCHANGED <<workflows, faults>>

\* Helm sees the organizations of the values files, but version and domain
\* option of the resource.
ChartOf(t, u) == [t EXCEPT !.version = u.version, !.useActualDomains = u.useActualDomains]
Charted == ChartOf(dir.values.topology, net.spec.desired.topology)

\* The services of the release the operator's cache lists: those of before Helm
\* has run, until it has caught up.
Listed == IF ServicesLag THEN release.listed ELSE Peers(Charted)

\* updateHelmChart: host aliases are made of the services listed before the
\* upgrade, which restarts the pods; the replica counts the operator sees of
\* them are the old ones for a while.  `misled' is a history variable: the list
\* did not show the services the release had.
Upgraded ==
    [release EXCEPT
        !.topology = Charted, !.launched = TRUE, !.ready = FALSE,
        !.listed = Listed,
        !.aliases = IF net.spec.desired.topology.useActualDomains
                    THEN release.listed ELSE {},
        !.misled = release.listed # Peers(release.topology),
        !.certificates = (dir.stage = "complete")]

CanUpgrade == release.installed /\ dir.stage # "chart"

-----------------------------------------------------------------------------
\* The switch on Status.State.

\* "": a network that finds another one in its namespace is rejected.
HandleNone ==
    /\ Handling("")
    /\ \/ /\ "alone" \in OthersAnswers
          /\ Save(Observing(With("New", 0)), FALSE, "idle")
       \/ /\ "others" \in OthersAnswers
          /\ Save(With("Rejected", 0), TRUE, "idle")
    /\ UNCHANGED <<resource, informer, dir, cluster, budgets>>

RetriesFailed ==
    \/ Handling("Failed") /\ StartFlow("channel", dir, {}, net.status)
       /\ UNCHANGED <<resource, informer, dir, secret, release, fabric, edits, crashes>>
    \/ Handling("Rejected") /\ Return(FALSE)
       /\ UNCHANGED <<resource, informer, dir, cluster, budgets>>

HandleTerminal ==
    /\ Handling("Rejected") \/ Handling("Failed")
    /\ Return(FALSE)
    /\ UNCHANGED <<resource, informer, dir, cluster, budgets>>

\* New, first part: uninstall the release and delete the workflows, one by one;
\* a failure to delete one, which leaves the rest, is only logged.  (One that the
\* cached list does not show yet is left too; it counts as such a failure.)
Teardown ==
    /\ Handling("New")
    /\ release' = NoRelease /\ fabric' = NothingYet
    /\ \E left \in SUBSET Names :
        /\ workflows' = [n \in Names |-> IF n \in left THEN workflows[n] ELSE NoWorkflow]
        /\ IF left = {} THEN UNCHANGED faults ELSE Fault
    /\ Goto("prepare")
    /\ UNCHANGED <<resource, informer, dir, secret, edits, crashes>>

\* Second part, prepareHelmChart: the directory is rebuilt from nothing, with
\* new certificates, which are stored in the cluster.
Prepare ==
    /\ pc = "prepare"
    /\ \/ /\ dir' = [stage |-> "complete", values |-> net.spec.desired]
          /\ secret' = TRUE
          /\ Goto("install")
          /\ UNCHANGED faults
       \/ /\ Fault
          /\ dir' \in { NoDir, [stage |-> "chart", values |-> Unset],
                        [stage |-> "values", values |-> net.spec.desired] }
          /\ Return(TRUE)
          /\ UNCHANGED secret
    /\ UNCHANGED <<resource, informer, release, workflows, fabric, edits, crashes>>

\* Third part, installHelmChart: with actual domains the pods are not launched,
\* and the chart is updated next, with the host aliases of the new services.
Install ==
    /\ pc = "install"
    /\ LET domains == net.spec.desired.topology.useActualDomains IN
        /\ release' = [installed |-> TRUE, topology |-> Charted, launched |-> ~domains,
                       listed |-> IF ServicesLag THEN {} ELSE Peers(Charted), aliases |-> {},
                       misled |-> FALSE, certificates |-> dir.stage = "complete",
                       ready |-> FALSE, reported |-> FALSE]
        /\ \/ /\ Save(With(IF domains THEN "HelmChartNeedsUpdate" ELSE "HelmChartInstalled", 0),
                      FALSE, "idle")
              /\ UNCHANGED faults
           \/ Fault /\ Return(TRUE)
    /\ UNCHANGED <<resource, informer, dir, secret, workflows, fabric, edits, crashes>>

HandleHelmChartNeedsUpdate ==
    /\ Handling("HelmChartNeedsUpdate")
    /\ \/ /\ CanUpgrade
          /\ release' = Upgraded
          /\ Save(With("HelmChartInstalled", 0), FALSE, "idle")
       \/ ~CanUpgrade /\ Return(TRUE) /\ UNCHANGED release
    /\ UNCHANGED <<resource, informer, dir, secret, workflows, fabric, budgets>>

NeverSecondUpdate == FALSE
NeedsSecondUpdate == net.spec.desired.topology.useActualDomains

\* The second of two upgrades gives the pods the aliases of the services the
\* first one has added.
HandleHelmChartNeedsDoubleUpdate ==
    /\ Handling("HelmChartNeedsDoubleUpdate")
    /\ \/ /\ CanUpgrade
          /\ release' = Upgraded
          /\ IF NeedsSecondUpdate
             THEN Goto("secondUpdate")
             ELSE Save(With("HelmChartInstalled", 0), FALSE, "idle")
       \/ ~CanUpgrade /\ Return(TRUE) /\ UNCHANGED release
    /\ UNCHANGED <<resource, informer, dir, secret, workflows, fabric, budgets>>

SecondUpdate ==
    /\ pc = "secondUpdate"
    /\ release' = Upgraded
    /\ Save(With("HelmChartInstalled", 0), FALSE, "idle")
    /\ UNCHANGED <<resource, informer, dir, secret, workflows, fabric, budgets>>

\* isHelmChartReady looks at the reported replica counts, of which there are
\* none without a release.
IsHelmChartReady == release.installed => release.reported

HandleHelmChartInstalled ==
    /\ Handling("HelmChartInstalled")
    /\ IF IsHelmChartReady
       THEN Save(With("HelmChartReady", 0), FALSE, "idle")
       ELSE Return(TRUE)
    /\ UNCHANGED <<resource, informer, dir, cluster, budgets>>

\* HelmChartReady: after a change of the topology the network starts from
\* scratch.  The code saves New and then goes on to the next flow all the same.
HandleHelmChartReady ==
    /\ Handling("HelmChartReady")
    /\ IF Changes.topology
       THEN Save(Observing(With("New", 0)), TRUE, "nextFlow")
       ELSE Goto("nextFlow")
    /\ UNCHANGED <<resource, informer, dir, cluster, budgets>>

NextFlow ==
    /\ pc = "nextFlow"
    /\ \/ /\ net.status.nextFlow = ""
          /\ StartFlow("channel", dir, {}, net.status)
       \/ /\ net.status.nextFlow = "None"
          /\ Save([With("Ready", 0) EXCEPT !.nextFlow = ""], FALSE, "idle")
          /\ UNCHANGED <<workflows, faults>>
       \/ /\ net.status.nextFlow = "PeerOrgFlow"
          /\ StartFlow("peerOrg", dir, {}, net.status)
    /\ UNCHANGED <<resource, informer, dir, secret, release, fabric, edits, crashes>>

\* Poll the tracked workflow; an unknown name is an error.
HandleFlowSubmitted(flow) ==
    /\ Handling(Submitted[flow])
    /\ LET known == net.status.workflow # 0 /\ workflows[net.status.workflow].phase # "Absent"
           result == IF known THEN WorkflowStatus(workflows[net.status.workflow].phase)
                     ELSE "Unknown"
       IN  \/ result = "Completed" /\ Save(With(Completed[flow], 0), FALSE, "idle")
           \/ result = "Failed" /\ Save(With("Failed", 0), FALSE, "idle")
           \/ result \in {"Submitted", "Unknown"} /\ Return(TRUE)
    /\ UNCHANGED <<resource, informer, dir, cluster, budgets>>

\* The chaincodes follow the channels, the channels follow new organizations.
HandleFlowCompleted(flow, next) ==
    /\ Handling(Completed[flow])
    /\ StartFlow(next, dir, {}, net.status)
    /\ UNCHANGED <<resource, informer, dir, secret, release, fabric, edits, crashes>>

HandleChaincodeFlowCompleted ==
    /\ Handling("ChaincodeFlowCompleted")
    /\ Save(With("Ready", 0), FALSE, "idle")
    /\ UNCHANGED <<resource, informer, dir, cluster, budgets>>

-----------------------------------------------------------------------------
\* Ready: the operator reacts to the difference of spec and status.

\* The Helm path: state and next flow a topology change leads to, {} if none.
HelmPath(c) ==
    CASE c.peerOrgs -> { <<"HelmChartNeedsDoubleUpdate", "PeerOrgFlow">> }
      [] c.ordererOrgs /\ ~c.peerOrgs -> { <<"HelmChartNeedsDoubleUpdate", "None">> }
      [] ~c.ordererOrgs /\ ~c.peerOrgs /\ c.peerCountIncrease ->
            { <<"HelmChartNeedsUpdate", net.status.nextFlow>> }
      [] ~c.ordererOrgs /\ ~c.peerOrgs /\ ~c.peerCountIncrease
            /\ (c.peerCountDecrease \/ c.version) -> { <<"HelmChartNeedsUpdate", "None">> }
      [] OTHER -> {}

OnlyCertificates == dir

\* createValuesFiles, then extendOrDownloadCertificates when organizations or
\* peers are new; neither provides a missing genesis block.
Rewritten ==
    [stage |-> IF dir.stage = "chart" THEN "values" ELSE dir.stage, values |-> net.spec.desired]

HandleReady ==
    /\ Handling("Ready")
    /\ LET c == Changes
           path == HelmPath(c)
       IN  \/ ~AreThereAnyChanges(c) /\ Return(FALSE) /\ UNCHANGED <<dir, secret, workflows, faults>>
           \/ /\ AreThereAnyChanges(c)
              /\ dir' = Rewritten
              /\ secret' = (secret \/ NeedsCertificateUpdate(c))
              /\ \/ /\ path # {}
                    /\ \E p \in path :
                        Save([Observing(With(p[1], 0)) EXCEPT !.nextFlow = p[2]], TRUE, "idle")
                    /\ UNCHANGED <<workflows, faults>>
                 \/ /\ path = {} /\ c.channel
                    /\ StartFlow("channel", dir', {}, Observing(net.status))
                 \/ /\ path = {} /\ ~c.channel /\ c.chaincode
                    /\ StartFlow("chaincode", dir', c.chaincodes, Observing(net.status))
                 \/ /\ path = {} /\ ~c.channel /\ ~c.chaincode
                    /\ Return(FALSE)
                    /\ UNCHANGED <<workflows, faults>>
           \/ /\ AreThereAnyChanges(c)     \* a later call fails, the files are rewritten
              /\ Fault /\ Return(TRUE)
              /\ dir' = Rewritten
              /\ UNCHANGED <<secret, workflows>>
    /\ UNCHANGED <<resource, informer, release, fabric, edits, crashes>>

-----------------------------------------------------------------------------
\* saveStatus: optimistic concurrency.  An error the caller does not look at
\* ends the call of Reconcile as if all were well.
Continue(saved) ==
    IF pending.then = "idle"
    THEN Return(FALSE)
    ELSE /\ pc' = pending.then /\ pending' = NoDraft
         /\ net' = [net EXCEPT !.status = saved]
         /\ UNCHANGED <<queued, delayed, fresh>>

SaveStatus ==
    /\ pc = "save"
    /\ LET saved == [pending.status EXCEPT !.observed = Stored(pending.status.observed)]
       IN  \/ /\ Accepted
              /\ Write(spec, saved)
              /\ \/ Continue(saved) /\ UNCHANGED faults
                 \/ Fault /\ Return(pending.checked)      \* the reply is lost
           \/ /\ ~Accepted
              /\ Return(pending.checked)
              /\ UNCHANGED <<resource, informer, faults>>
           \/ /\ Fault
              /\ Return(pending.checked)
              /\ UNCHANGED <<resource, informer>>
    /\ UNCHANGED <<dir, cluster, edits, crashes>>

\* The operator's pod is replaced: memory, work queue, cache and the network
\* directory go; the new informer lists the resource afresh.
Crash ==
    /\ crashes > 0 /\ crashes' = crashes - 1
    /\ pc' = "idle" /\ net' = Blank /\ fresh' = FALSE /\ pending' = NoDraft
    /\ watch' = <<>> /\ cache' = [spec |-> spec, status |-> status]
    /\ queued' = TRUE /\ delayed' = FALSE
    /\ dir' = NoDir
    /\ UNCHANGED <<resource, cluster, edits, faults>>

-----------------------------------------------------------------------------
\* The cluster and the user.

\* The controllers of the stateful sets report old replica counts until they
\* have noticed the upgrade.
PodsRestarting ==
    /\ release.installed /\ ~release.ready /\ release.reported
    /\ release' = [release EXCEPT !.reported = FALSE]
    /\ UNCHANGED <<resource, informer, queued, delayed, worker, dir, secret, workflows,
                   fabric, budgets>>

PodsReady ==
    /\ release.installed /\ ~release.ready
    /\ release' = [release EXCEPT !.ready = TRUE, !.reported = TRUE]
    /\ UNCHANGED <<resource, informer, queued, delayed, worker, dir, secret, workflows,
                   fabric, budgets>>

\* The chaincodes with the versions they are installed in.
Effective(d, chaincode) ==
    { [name |-> c.name, version |-> IF c.version = "" THEN chaincode ELSE c.version]
      : c \in Elements(d.chaincodes) }

\* What a workflow has established when it succeeds.  channel-flow creates the
\* missing channels, with every organization of the topology as a member, and
\* joins the peers of the members; peer-org-flow admits the organizations to
\* the existing channels; chaincode-flow installs chaincodes on every peer.
Established(w) ==
    LET channels == Elements(w.values.channels)
        orgs     == OrgNames(w.values.topology.peerOrgs)
        peers    == Peers(w.values.topology)
        existing == { m[1] : m \in fabric.members }
        members  == fabric.members \union
                    (IF w.flow = "peerOrg" THEN existing ELSE channels \ existing) \X orgs
        included == { c \in Effective(w.values, w.chaincode) :
                        w.include = {} \/ c.name \in w.include }
    IN  CASE w.flow = "chaincode" -> [fabric EXCEPT !.installed = @ \union (included \X peers)]
          [] w.flow = "peerOrg" -> [fabric EXCEPT !.members = members]
          [] OTHER ->
               [fabric EXCEPT !.members = members, !.joined = @ \union
                    { j \in channels \X peers : <<j[1], j[2][1]>> \in members }]

\* The operator's cache learns of the services the release has now.
ServicesListed ==
    /\ release.listed # Peers(release.topology)
    /\ release' = [release EXCEPT !.listed = Peers(release.topology)]
    /\ UNCHANGED <<resource, informer, queued, delayed, worker, dir, secret, workflows,
                   fabric, budgets>>

WorkflowEnds(n) ==
    /\ workflows[n].phase = "Running"
    /\ \E phase \in Outcomes :
        /\ workflows' = [workflows EXCEPT ![n].phase = phase]
        /\ fabric' = IF phase = "Succeeded" THEN Established(workflows[n]) ELSE fabric
    /\ UNCHANGED <<resource, informer, queued, delayed, worker, dir, secret, release, budgets>>

Settled == status.state = "Ready" /\ status.observed = Stored(spec.desired) /\ spec.force = ""

UserWrites(newSpec) ==
    /\ edits > 0 /\ edits' = edits - 1
    /\ WaitsForReady => Settled
    /\ Write(newSpec, status)
    /\ fresh' = FALSE
    /\ UNCHANGED <<queued, delayed, pc, net, pending, dir, cluster, crashes, faults>>

\* An update replaces the whole spec: it may also force a state, or withdraw or
\* change one that is still requested.
UserEdits ==
    \E d \in Specs, state \in Forceable \union {""} :
        /\ <<spec.desired, d>> \in Edits
        /\ UserWrites([desired |-> d, force |-> state])

UserForces ==
    \E state \in Forceable \union {""} :
        /\ state # spec.force
        /\ UserWrites([spec EXCEPT !.force = state])

-----------------------------------------------------------------------------
Handle ==
    \/ HandleForce \/ HandleNone \/ HandleTerminal
    \/ HandleHelmChartNeedsUpdate \/ HandleHelmChartNeedsDoubleUpdate
    \/ HandleHelmChartInstalled \/ HandleHelmChartReady
    \/ \E flow \in Flows : HandleFlowSubmitted(flow)
    \/ HandleFlowCompleted("channel", "chaincode")
    \/ HandleFlowCompleted("peerOrg", "channel")
    \/ HandleChaincodeFlowCompleted \/ HandleReady

Worker ==
    \/ Begin \/ Reconstruct \/ Handle \/ CallFails
    \/ Teardown \/ Prepare \/ Install \/ SecondUpdate \/ NextFlow
    \/ SaveStatus \/ ClearForce

Environment ==
    \/ PodsRestarting \/ PodsReady \/ ServicesListed
    \/ \E n \in Names : WorkflowEnds(n)
    \/ UserEdits \/ UserForces

Next == Worker \/ Environment \/ Deliver \/ TimerFires \/ Resync \/ Crash

Spec == Init /\ [][Next]_vars

\* The worker, its queue and its informer run; pods start and workflows end.
\* Nothing obliges the user, a crash or a fault to happen.
Fairness ==
    /\ WF_vars(Worker)
    /\ WF_vars(Deliver) /\ WF_vars(TimerFires) /\ WF_vars(Resync)
    /\ WF_vars(PodsReady)
    /\ \A n \in Names : WF_vars(WorkflowEnds(n))

FairSpec == Spec /\ Fairness
=============================================================================
