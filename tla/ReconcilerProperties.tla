------------------------ MODULE ReconcilerProperties ------------------------
(***************************************************************************)
(* What the reconciler must guarantee, and where its documentation says    *)
(* something else than what it does.                                       *)
(***************************************************************************)
EXTENDS Reconciler

\* Type invariant.  A chart's topology mixes the organizations of the values
\* files with the version and domain option of the resource.
Topologies ==
    { d.topology : d \in SpecsOrUnset } \union
    { ChartOf(d.topology, e.topology) : d \in SpecsOrUnset, e \in SpecsOrUnset }
AllPeers == UNION { Peers(t) : t \in Topologies }
AllOrgs == UNION { OrgNames(t.peerOrgs) : t \in Topologies }
AllChannels == UNION { Elements(d.channels) : d \in SpecsOrUnset }
ChaincodeNames == UNION { OrgNames(Items(d.chaincodes)) : d \in SpecsOrUnset }
ChaincodeConfigs == { d.chaincode : d \in SpecsOrUnset }
AllChaincodes == UNION { Effective(d, c) : d \in SpecsOrUnset, c \in ChaincodeConfigs }

Releases == [installed : BOOLEAN, topology : Topologies, launched : BOOLEAN,
             listed : SUBSET AllPeers, aliases : SUBSET AllPeers, misled : BOOLEAN,
             certificates : BOOLEAN, ready : BOOLEAN, reported : BOOLEAN]
Workflows == [flow : Flows \union {""}, values : SpecsOrUnset,
              chaincode : ChaincodeConfigs, include : SUBSET ChaincodeNames,
              phase : {"Absent", "Running"} \union Outcomes]
Fabrics == [members : SUBSET (AllChannels \X AllOrgs),
            joined : SUBSET (AllChannels \X AllPeers),
            installed : SUBSET (AllChaincodes \X AllPeers)]

ResourceOK ==
    /\ spec \in [desired : SpecsOrUnset, force : Forceable \union {""}]
    /\ status \in Statuses
    /\ watch \in Seq(Resources) /\ cache \in Resources
WorkerOK ==
    /\ queued \in BOOLEAN /\ delayed \in BOOLEAN
    /\ pc \in { "idle", "handle", "prepare", "install", "secondUpdate", "nextFlow",
                "save", "clearForce" }
    /\ net \in Resources /\ fresh \in BOOLEAN
    /\ pending \in [status : Statuses, checked : BOOLEAN,
                    then : {"idle", "nextFlow", "clearForce"}]
    /\ dir \in Dirs
ClusterOK ==
    /\ secret \in BOOLEAN /\ release \in Releases
    /\ workflows \in [Names -> Workflows] /\ fabric \in Fabrics
BudgetsOK == edits \in 0..MaxEdits /\ crashes \in 0..MaxCrashes /\ faults \in 0..MaxFaults

\* Type invariant: the resource in every version, the worker and the cluster
\* hold only what the API and the handlers can put there.
TypeOK == ResourceOK /\ WorkerOK /\ ClusterOK /\ BudgetsOK

-----------------------------------------------------------------------------
\* The edges of the state machine the handlers implement.  Those from New to
\* the next flow come from HelmChartReady going on after it has saved New.
Edges ==
    { <<"", "New">>, <<"", "Rejected">>,
      <<"New", "HelmChartInstalled">>, <<"New", "HelmChartNeedsUpdate">>,
      <<"HelmChartNeedsUpdate", "HelmChartInstalled">>,
      <<"HelmChartNeedsDoubleUpdate", "HelmChartInstalled">>,
      <<"HelmChartInstalled", "HelmChartReady">>, <<"HelmChartReady", "New">>,
      <<"PeerOrgFlowSubmitted", "PeerOrgFlowCompleted">>,
      <<"PeerOrgFlowCompleted", "ChannelFlowSubmitted">>,
      <<"ChannelFlowSubmitted", "ChannelFlowCompleted">>,
      <<"ChannelFlowCompleted", "ChaincodeFlowSubmitted">>,
      <<"ChaincodeFlowSubmitted", "ChaincodeFlowCompleted">>,
      <<"ChaincodeFlowCompleted", "Ready">> }
    \union {"HelmChartReady", "New"} \X {"ChannelFlowSubmitted", "PeerOrgFlowSubmitted", "Ready"}
    \union {"ChannelFlowSubmitted", "ChaincodeFlowSubmitted", "PeerOrgFlowSubmitted"}
            \X {"Failed"}
    \union {"Ready"} \X { "HelmChartNeedsUpdate", "HelmChartNeedsDoubleUpdate",
                          "ChannelFlowSubmitted", "ChaincodeFlowSubmitted" }

Promise == INSTANCE Lifecycle WITH Advances <- Edges, state <- status.state,
                                   force <- spec.force, writes <- edits

\* Whatever the cache lags behind, whatever fails or crashes, the state in the
\* API server follows the life cycle: the operator enters a forced state before
\* it clears the request, no other transition overtakes a pending request, also
\* one that has just replaced or withdrawn another, and no stale reconciliation
\* makes the state jump.
LifecyclePromise == Promise!Spec

\* A status whose state is a Submitted one names a workflow of that flow, if the
\* workflow still exists.
Tracks(st) ==
    \A flow \in Flows :
        st.state = Submitted[flow] =>
            /\ st.workflow \in Names
            /\ workflows[st.workflow].phase # "Absent" => workflows[st.workflow].flow = flow

\* The workflow a Submitted state names is a workflow of that state's flow
\* (unless it was deleted): the operator never waits on someone else's result.
TrackedWorkflow == Tracks(status)

\* Unless the user forces it, a flow is declared completed only when the
\* workflow tracked for it has succeeded.
CompletedFlowRan ==
    [][\A flow \in Flows :
        status.state = Submitted[flow] /\ status'.state = Completed[flow] /\ spec.force = ""
            => workflows[status.workflow].phase = "Succeeded"]_vars

\* What the status records as applied is what the user wants at that moment: an
\* edit made while the operator works on an older spec is not taken as applied.
AppliedIsDesired ==
    [][status'.observed # status.observed => status'.observed = Stored(spec.desired)]_vars

\* Only the user changes the compared fields of the spec: clearing a forced
\* state, which rewrites the whole spec, never undoes an edit.
OperatorKeepsEdits == [][edits' = edits => Stored(spec'.desired) = Stored(spec.desired)]_vars

\* The inductive invariant behind the safety properties: what the worker relies
\* on between two of its steps, however stale its reading is.
Current == [spec |-> spec, status |-> status]

\* The informer lags behind by the undelivered versions, and by no more.
CacheCatchesUp == IF watch = <<>> THEN cache = Current ELSE watch[Len(watch)] = Current

\* At the server's version the worker's copy is the server's resource.
CopyIsCurrent == pc # "idle" /\ fresh => net = Current

\* What the status says is applied is in its stored form, in every version.
Normal(st) == st.observed = Stored(st.observed)
ObservedNormal ==
    /\ Normal(status) /\ Normal(net.status) /\ Normal(cache.status)
    /\ \A i \in DOMAIN watch : Normal(watch[i].status)

\* Past the switch, the worker is where the state it has read has led it.
Whereabouts ==
    /\ pc \in {"prepare", "install"} => net.spec.force = "" /\ net.status.state = "New"
    /\ pc = "secondUpdate" =>
            net.spec.force = "" /\ net.status.state = "HelmChartNeedsDoubleUpdate"
    /\ pc = "nextFlow" => net.spec.force = "" /\ net.status.state \in {"New", "HelmChartReady"}
    /\ pc = "clearForce" => net.spec.force # "" /\ net.status.state = net.spec.force

\* The status about to be saved is the forced state, or a step of the life cycle
\* whose tracked workflow exists, or has succeeded, as the step demands.
DraftLegal ==
    LET from == net.status
        to   == pending.status
    IN  /\ to.observed \in {from.observed, net.spec.desired}
        /\ IF net.spec.force # ""
           THEN to.state = net.spec.force /\ pending.then = "clearForce"
           ELSE /\ <<from.state, to.state>> \in Edges
                /\ pending.then \in {"idle", "nextFlow"}
                /\ pending.then = "nextFlow" => to.state = "New"
                /\ Tracks(to)
                /\ \A flow \in Flows :
                    from.state = Submitted[flow] /\ to.state = Completed[flow] =>
                        /\ from.workflow \in Names
                        /\ workflows[from.workflow].phase = "Succeeded"

Copies == CacheCatchesUp /\ CopyIsCurrent /\ ObservedNormal
Intentions == Whereabouts /\ (pc = "save" => DraftLegal)

\* Every copy of the resource is explained by the server's; the worker's next
\* steps by its copy.  Together with the tracking of workflows this is inductive.
Consistent == Copies /\ Intentions /\ Tracks(status)

\* A release is uninstalled only while the network is New or has just been
\* installed (a stale repetition of New), never once it has been seen ready.
TeardownOnlyFresh ==
    [][release.installed /\ ~release'.installed =>
        status.state \in {"New", "HelmChartInstalled", "HelmChartNeedsUpdate"}]_vars

\* Once the network has failed no workflow is submitted, by whichever stale
\* reconciliation, until the user forces a state.
FailedIsFinal ==
    [][status.state = "Failed" /\ spec.force = "" =>
        \A n \in Names : workflows'[n].phase = "Running" => workflows[n].phase = "Running"]_vars

-----------------------------------------------------------------------------
\* What holds as long as not too much goes wrong; the budgets left tell what has.
NeverCrashed == crashes = MaxCrashes
NeverFailed == faults = MaxFaults

\* When the operator reports Ready and nothing is left to apply, the network is
\* the one the user asked for: the release has its topology, its pods are
\* launched, every peer has joined every channel and has every chaincode.
Converged ==
    Settled =>
        LET d == spec.desired
            peers == Peers(d.topology)
        IN  /\ release.topology = d.topology /\ release.launched
            /\ Elements(d.channels) \X peers \subseteq fabric.joined
            /\ Effective(d, d.chaincode) \X peers \subseteq fabric.installed

\* Without restarts and failing calls at most one workflow of the network runs
\* at any time: channels, chaincodes and organizations are never worked on
\* concurrently, and chaincodes follow the channels.
OneWorkflowAtATime ==
    NeverCrashed /\ NeverFailed =>
        \A m, n \in Names :
            workflows[m].phase = "Running" /\ workflows[n].phase = "Running" => m = n

\* However often the chart directory is lost, as long as no call fails a release
\* is never deployed from a directory without certificates and genesis block.
DeployedWithCertificates == NeverFailed /\ release.installed => release.certificates

\* With actual domains, a settled network's pods know every peer by its name
\* (README.md:77, the internal hostAliases), unless the last upgrade was misled by
\* a cache that did not list the services of the upgrade before it yet.
PeerAliases ==
    Settled /\ spec.desired.topology.useActualDomains /\ ~release.misled =>
        Peers(spec.desired.topology) \subseteq release.aliases

\* An orderer with another number of hosts is a change the code does not react to.
OrdererNames(topology) == [i \in DOMAIN topology.ordererOrgs |-> topology.ordererOrgs[i].name]
OnlyHostsDiffer ==
    LET wanted == spec.desired.topology
        applied == status.observed.topology
    IN wanted.ordererOrgs # applied.ordererOrgs /\ OrdererNames(wanted) = OrdererNames(applied)

\* Left alone after a restart or a failing call, the operator brings the network
\* to rest: Ready with everything applied, or in a state that waits for the user.
AtRest ==
    \/ Settled \/ status.state \in {"Failed", "Rejected"}
    \/ status.state = "Ready" /\ spec.force = "" /\ OnlyHostsDiffer
Settles == <>[](AtRest \/ (~NeverCrashed /\ ~NeverFailed))

\* A pending forced state is dealt with, however the user's edits interfere.
ForceHonoured == spec.force # "" ~> spec.force = ""

-----------------------------------------------------------------------------
\* The users of whom the theorems speak: conditions on the constants alone.

\* The user changes a network only when it is settled, and forces no state; no
\* list of a spec is empty but not nil (the status would not record it as it is).
Waiting == WaitsForReady /\ Forceable = {} /\ \A d \in Specs : Stored(d) = d

\* Nor does the informer's resync find work in progress.
Patience == Waiting /\ ~ResyncAnytime

\* What an edit changes is applied in one go: by the workflows, which start with
\* those for new organizations or new peers; or by the workflows of channels and
\* chaincodes alone; or by Helm alone.
AtOnce(new, old) ==
    LET c == GetChanges(new, old)
    IN  \/ c.peerOrgs \/ (c.peerCountIncrease /\ ~c.ordererOrgs)
        \/ ~c.topology /\ ~c.peerCountDecrease
        \/ ~c.channel /\ ~c.chaincode /\ ~c.peerCountIncrease

\* A spec has the fields and lists of the Go types.
Sequential(list) == Len(list) \in Nat /\ DOMAIN list = 1..Len(list)
WellFormed(d) ==
    LET t == d.topology
    IN  /\ t = [version |-> t.version, useActualDomains |-> t.useActualDomains,
                ordererOrgs |-> t.ordererOrgs, peerOrgs |-> t.peerOrgs]
        /\ Sequential(t.peerOrgs) /\ Sequential(Items(d.chaincodes))
        /\ \A i \in DOMAIN t.peerOrgs : t.peerOrgs[i].peerCount \in Int

Careful ==
    /\ Patience
    /\ \A e \in Edits : AtOnce(e[2], e[1])
    /\ \A d \in Specs : WellFormed(d)

\* With actual domains, peers come with an organization, which takes two upgrades:
\* one gives them services, the other tells the pods their names.
Announced(new, old) ==
    LET c == GetChanges(new, old)
    IN new.topology.useActualDomains => c.peerOrgs \/ c.ordererOrgs \/ ~c.peerCountIncrease
Announcing == \A e \in Edits : Announced(e[2], e[1])

-----------------------------------------------------------------------------
\* What the documentation says, where the code does otherwise.

\* docs/state-diagram.txt:32-38: a network whose topology changes goes from
\* HelmChartReady to New, and from New to an installed Helm chart.
StartsFromScratch ==
    [][status.state = "New" /\ status'.state # "New" /\ spec.force = "" =>
        status'.state \in {"HelmChartInstalled", "HelmChartNeedsUpdate"}]_vars

\* README.md:430: the operator creates a channel added to a ready network and
\* has all peers join it.
ChannelsCreated ==
    Settled => Elements(spec.desired.channels) \X Peers(spec.desired.topology) \subseteq fabric.joined

\* docs/state-diagram.txt:51-52: a ready network runs flows when channels or
\* chaincodes have changed.
FlowsOnlyOnChange ==
    [][status.state = "Ready" /\ spec.force = "" /\
       status'.state \in {"ChannelFlowSubmitted", "ChaincodeFlowSubmitted"} =>
        \/ Elements(spec.desired.channels) # Elements(status.observed.channels)
        \/ Effective(spec.desired, spec.desired.chaincode)
             # Effective(status.observed, status.observed.chaincode)]_vars
=============================================================================
