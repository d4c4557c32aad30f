------------------------------ MODULE Namespace ------------------------------
(***************************************************************************)
(* The networks of one namespace: admission, what they share, and cleanup. *)
(* All networks install their release under the same name, and store their *)
(* certificates in the same secret; the operator keeps them apart by       *)
(* rejecting all networks but one, from a cache that lags behind, and      *)
(* cleans up after a network when it finds the resource gone.  The states  *)
(* of a network are those that matter to the others, with all ways between *)
(* them, a topology changed at HelmChartReady and forced states included;  *)
(* Reconciler models what happens in them.                                 *)
(***************************************************************************)
EXTENDS Integers, Sequences, FiniteSets

CONSTANTS Networks,       \* names of networks
          None,           \* no name
          ActualDomains,  \* the topologies ask for actual domains
          ForcedStates,   \* the states users force
          MaxCreations,   \* bound: networks created
          MaxEdits,       \* bound: updates of networks by users
          MaxCrashes,     \* bound: operator restarts
          MaxFaults       \* bound: failing API, Helm and Argo calls

ASSUME NamespaceAssumption ==
    /\ IsFiniteSet(Networks) /\ None \notin Networks
    /\ ActualDomains \in BOOLEAN
    /\ ForcedStates \subseteq {"New", "Rejected", "NeedsUpdate", "Installed", "ChartReady", "Running"}
    /\ {MaxCreations, MaxEdits, MaxCrashes, MaxFaults} \subseteq Nat

VARIABLES
    nets,             \* the resources in the API server, by name
    created, edits,   \* how many there have been, and how many updates of users
    alone, unforced,  \* never two at once so far; no user has forced a state so far
    restarted,        \* those that have gone back from HelmChartReady to New
    watch, cache,     \* undelivered versions of resources, the informer's copies
    queue, delayed,   \* the work queue, and the keys waiting for a requeue
    pc, name, copy,   \* the worker: step, key, and resource as read
    draft,            \* the state it is about to save
    dir,              \* the chart directories of the networks
    secret,           \* hlf-crypto-config: the uid of the network owning it, or 0
    release,          \* the Helm release hlf-kube
    workflows,        \* the networks with workflows labelled for them
    crashes, faults   \* budgets left

history  == <<created, edits, alone, unforced>>
users    == <<nets, history, restarted>>
informer == <<watch, cache>>
worker   == <<pc, name, copy, draft>>
shared   == <<secret, release, dir>>
vars == <<users, informer, queue, delayed, worker, shared, workflows, crashes, faults>>

-----------------------------------------------------------------------------
\* A resource has a new uid each time it is created, and its spec a new number each
\* time a user updates it: two versions with the same contents are the same version.
\* edited: the topology of the spec is not the one the status has recorded.
\* NeedsUpdate stands for the double update too, ChartReady for HelmChartReady, and
\* Running for the states from the submission of the next flow on, up to Ready or Failed.
Uids == 0..MaxCreations
States == {"", "New", "Rejected", "NeedsUpdate", "Installed", "ChartReady", "Running"}
Resources == [uid : Uids, spec : 0..MaxEdits, edited : BOOLEAN, force : States, state : States]
Absent == [uid |-> 0, spec |-> 0, edited |-> FALSE, force |-> "", state |-> ""]
Exists(n) == nets[n].uid # 0

\* A directory may be missing or incomplete; a complete one, like the release,
\* holds the certificates that are stored in the secret, or others.
Dirs == {"absent", "partial", "stored", "other"}
Releases == [owner : Networks \union {None}, current : BOOLEAN]
NoRelease == [owner |-> None, current |-> FALSE]

Init ==
    /\ nets = [n \in Networks |-> Absent] /\ created = 0 /\ edits = 0
    /\ alone = TRUE /\ unforced = TRUE /\ restarted = {}
    /\ watch = <<>> /\ cache = nets
    /\ queue = <<>> /\ delayed = {}
    /\ pc = "idle" /\ name = None /\ copy = Absent /\ draft = ""
    /\ dir = [n \in Networks |-> "absent"]
    /\ secret = 0 /\ release = NoRelease /\ workflows = {}
    /\ crashes = MaxCrashes /\ faults = MaxFaults

-----------------------------------------------------------------------------
\* The user, the API server and the informer.
Written(n, resource) ==
    /\ nets' = [nets EXCEPT ![n] = resource]
    /\ watch' = Append(watch, [name |-> n, resource |-> resource])
    /\ UNCHANGED cache

\* The command line tool refuses to create a second network; kubectl does not,
\* and the tool checks first and creates later.
Create(n) ==
    /\ ~Exists(n) /\ created < MaxCreations
    /\ created' = created + 1
    /\ alone' = (alone /\ \A m \in Networks : ~Exists(m))
    /\ Written(n, [Absent EXCEPT !.uid = created + 1, !.edited = TRUE])
    /\ UNCHANGED <<edits, unforced, restarted, queue, delayed, worker, shared, workflows, crashes,
                   faults>>

\* A user replaces the spec as a whole: changes the topology or puts it back, forces
\* a state, or takes back one that is still to be set.
Update(n) ==
    /\ Exists(n) /\ edits < MaxEdits
    /\ edits' = edits + 1
    /\ \E edited \in BOOLEAN, force \in ForcedStates \union {""} :
          /\ Written(n, [nets[n] EXCEPT !.spec = edits + 1, !.edited = edited, !.force = force])
          /\ unforced' = (unforced /\ force = "")
    /\ UNCHANGED <<created, alone, restarted, queue, delayed, worker, shared, workflows, crashes,
                   faults>>

Delete(n) ==
    /\ Exists(n)
    /\ Written(n, Absent)
    /\ restarted' = restarted \ {n}
    /\ UNCHANGED <<history, queue, delayed, worker, shared, workflows, crashes, faults>>

\* The work queue is first in, first out and holds a key once.
Queued(q, n) == IF \E i \in DOMAIN q : q[i] = n THEN q ELSE Append(q, n)

Deliver ==
    /\ watch # <<>>
    /\ cache' = [cache EXCEPT ![Head(watch).name] = Head(watch).resource]
    /\ watch' = Tail(watch)
    /\ queue' = Queued(queue, Head(watch).name)
    /\ UNCHANGED <<users, delayed, worker, shared, workflows, crashes, faults>>

TimerFires(n) ==
    /\ n \in delayed
    /\ delayed' = delayed \ {n} /\ queue' = Queued(queue, n)
    /\ UNCHANGED <<users, informer, worker, shared, workflows, crashes, faults>>

MislabelsLost(d) == IF d = "stored" THEN "lost" ELSE d

\* The secret goes with the network that owns it.
LosingStored(d) == IF d = "stored" THEN "other" ELSE d

CollectGarbage ==
    /\ secret # 0 /\ \A n \in Networks : nets[n].uid # secret
    /\ secret' = 0
    /\ dir' = [n \in Networks |-> LosingStored(dir[n])]
    /\ release' = [release EXCEPT !.current = FALSE]
    /\ UNCHANGED <<users, informer, queue, delayed, worker, workflows, crashes, faults>>

-----------------------------------------------------------------------------
\* The worker's control flow.  Among the failures are cached lists of workflows
\* that do not show one yet.
Fault == faults > 0 /\ faults' = faults - 1

\* An error puts the key back into the queue, after a while.
Return(retry) ==
    /\ pc' = "idle" /\ name' = None /\ copy' = Absent /\ draft' = ""
    /\ delayed' = IF retry THEN delayed \union {name} ELSE delayed

Goto(step) == pc' = step /\ UNCHANGED <<name, copy, draft, delayed>>

Save(state) == pc' = "save" /\ draft' = state /\ UNCHANGED <<name, copy, delayed>>

\* A write in the middle of a call: what the server answers is the version the worker
\* goes on with, and an error, a conflict or a lost reply, ends the call.
WriteAndGoto(resource, step) ==
    \/ /\ nets[name] = copy
       /\ Written(name, resource)
       /\ \/ /\ pc' = step /\ copy' = resource
             /\ UNCHANGED <<name, draft, delayed, faults>>
          \/ Fault /\ Return(TRUE)
    \/ /\ nets[name] # copy
       /\ Return(TRUE)
       /\ UNCHANGED <<nets, informer, faults>>

Begin ==
    /\ pc = "idle" /\ queue # <<>>
    /\ name' = Head(queue) /\ queue' = Tail(queue)
    /\ copy' = cache[Head(queue)]
    /\ pc' = "handle"
    /\ UNCHANGED <<users, informer, delayed, draft, shared, workflows, crashes, faults>>

\* A forced state is saved, then taken out of the spec, whatever the state before.
HandleForced ==
    /\ pc = "handle" /\ copy.uid # 0 /\ copy.force # ""
    /\ WriteAndGoto([copy EXCEPT !.state = copy.force], "clear")
    /\ UNCHANGED <<history, restarted, queue, shared, workflows, crashes>>

ClearForce ==
    /\ pc = "clear"
    /\ \/ nets[name] = copy /\ Written(name, [copy EXCEPT !.force = ""])
       \/ nets[name] # copy /\ UNCHANGED <<nets, informer>>
    /\ Return(TRUE)
    /\ UNCHANGED <<history, restarted, queue, shared, workflows, crashes, faults>>

\* A directory that does not exist is reconstructed from the stored certificates
\* and the genesis block of the release, whosoever they are.
Unforced == pc = "handle" /\ copy.uid # 0 /\ copy.force = ""
Reconstructing == Unforced /\ dir[name] = "absent"

Reconstruct ==
    /\ Reconstructing
    /\ \/ /\ secret # 0 /\ release.owner # None
          /\ dir' = [dir EXCEPT ![name] = "stored"]
          /\ Goto("handle")
          /\ UNCHANGED faults
       \/ /\ \/ (secret = 0 \/ release.owner = None) /\ UNCHANGED faults
             \/ Fault
          /\ dir' = [dir EXCEPT ![name] = "partial"]
          /\ Return(TRUE)
    /\ UNCHANGED <<users, informer, queue, secret, release, workflows, crashes>>

Handling(state) ==
    /\ Unforced /\ ~Reconstructing
    /\ copy.state = state

\* checkOthersInNamespace, on what the cache lists now.
Listed == { n \in Networks : cache[n].uid # 0 }
Rejecting == Cardinality(Listed) # 1 /\ \E n \in Listed : cache[n].state # ""

HandleNone ==
    /\ Handling("")
    /\ Save(IF Rejecting THEN "Rejected" ELSE "New")
    /\ UNCHANGED <<users, informer, queue, shared, workflows, crashes, faults>>

HandleRejected ==
    /\ Handling("Rejected")
    /\ Return(FALSE)
    /\ UNCHANGED <<users, informer, queue, shared, workflows, crashes, faults>>

OwnedByAnyone == release.owner # None

\* The release is annotated with the name of the network it was made for.
Owned == release.owner = name

Uninstalled == IF Owned THEN NoRelease ELSE release

\* New: remove what a network of that name has left, then build the directory,
\* store the certificates and install the release.
Teardown ==
    /\ Handling("New")
    /\ release' = Uninstalled
    /\ \/ workflows' = workflows \ {name} /\ UNCHANGED faults
       \/ UNCHANGED workflows /\ Fault
    /\ Goto("prepare")
    /\ UNCHANGED <<users, informer, queue, secret, dir, crashes>>

KeepsCertificates(complete) ==
    /\ secret' = IF secret = 0 THEN copy.uid ELSE secret
    /\ dir' = [dir EXCEPT ![name] = IF secret = 0 THEN complete ELSE "other"]
    /\ UNCHANGED release

\* The secret is created, or updated and with it its owner.
NewCertificates(complete) ==
    /\ secret' = copy.uid
    /\ dir' = [n \in Networks |-> IF n = name THEN complete ELSE LosingStored(dir[n])]
    /\ release' = [release EXCEPT !.current = FALSE]

Prepare ==
    /\ pc = "prepare"
    /\ \/ NewCertificates("stored") /\ Goto("install") /\ UNCHANGED faults
       \/ /\ Fault /\ Return(TRUE)
          /\ \/ NewCertificates("partial")
             \/ dir' = [dir EXCEPT ![name] = "partial"] /\ UNCHANGED <<secret, release>>
    /\ UNCHANGED <<users, informer, queue, workflows, crashes>>

\* Helm does not install a release under a name in use.
Install ==
    /\ pc = "install"
    /\ \/ /\ release.owner = None
          /\ release' = [owner |-> name, current |-> dir[name] = "stored"]
          /\ \/ Save(IF ActualDomains THEN "NeedsUpdate" ELSE "Installed") /\ UNCHANGED faults
             \/ Fault /\ Return(TRUE)
       \/ /\ release.owner # None
          /\ Return(TRUE)
          /\ UNCHANGED <<release, faults>>
    /\ UNCHANGED <<users, informer, queue, secret, dir, workflows, crashes>>

\* An upgrade annotates the release anew, whosesoever it was.
Upgrade ==
    /\ Handling("NeedsUpdate")
    /\ \/ /\ release.owner # None
          /\ release' = [owner |-> name, current |-> dir[name] = "stored"]
          /\ \/ Save("Installed") /\ UNCHANGED faults
             \/ Fault /\ Return(TRUE)
       \/ /\ release.owner = None
          /\ Return(TRUE)
          /\ UNCHANGED <<release, faults>>
    /\ UNCHANGED <<users, informer, queue, secret, dir, workflows, crashes>>

\* Reconciled until the pods are ready.  A release that does not exist has none that
\* is not.
HandleInstalled ==
    /\ Handling("Installed")
    /\ Save("ChartReady") \/ Return(TRUE)
    /\ UNCHANGED <<users, informer, queue, shared, workflows, crashes, faults>>

\* A topology changed by now sends the network back to New, but the call goes on to
\* submit the next flow.
HandleChartReady ==
    /\ Handling("ChartReady") /\ copy.edited
    /\ WriteAndGoto([copy EXCEPT !.state = "New", !.edited = FALSE], "submit")
    /\ restarted' = IF nets[name] = copy THEN restarted \union {name} ELSE restarted
    /\ UNCHANGED <<history, queue, shared, workflows, crashes>>

\* The next flow, if there is one, is submitted and labelled for the network.
Submits == workflows' \in {workflows, workflows \union {name}}

Submit ==
    /\ \/ Handling("ChartReady") /\ ~copy.edited
       \/ pc = "submit"
    /\ Submits
    /\ \/ Save("Running") /\ UNCHANGED faults
       \/ Fault /\ Return(TRUE)
    /\ UNCHANGED <<users, informer, queue, shared, crashes>>

\* Further flows are submitted, one after the other, and reconciled until they end.
HandleRunning ==
    /\ Handling("Running")
    /\ Submits
    /\ \E running \in BOOLEAN : Return(running)
    /\ UNCHANGED <<users, informer, queue, shared, crashes, faults>>

\* Certificates in the directory are kept when new ones are added.
MoreCertificates ==
    IF dir[name] = "stored" THEN secret' = copy.uid /\ UNCHANGED <<dir, release>>
                            ELSE NewCertificates("stored")

\* Ready, and the topology has changed.
ApplyEdit ==
    /\ Handling("Running") /\ copy.edited
    /\ \/ /\ \/ MoreCertificates
             \/ UNCHANGED shared
          /\ Save("NeedsUpdate") /\ UNCHANGED faults
       \/ /\ \/ MoreCertificates
             \/ dir' = [dir EXCEPT ![name] = "other"] /\ UNCHANGED <<secret, release>>
          /\ Fault /\ Return(TRUE)
    /\ UNCHANGED <<users, informer, queue, workflows, crashes>>

\* A call that fails without effect; the error is returned.
CallFails ==
    /\ \/ \E state \in States \ {"Rejected"} : Handling(state)
       \/ pc = "handle" /\ copy.uid # 0 /\ copy.force # ""
       \/ pc \in {"prepare", "install", "submit", "clear"}
    /\ Fault /\ Return(TRUE)
    /\ UNCHANGED <<users, informer, queue, shared, workflows, crashes>>

\* With New and for an update the status takes over the topology.
Recorded == [copy EXCEPT !.state = draft,
                         !.edited = IF draft = "New" \/ copy.state = "Running" THEN FALSE ELSE @]

\* The server accepts the status only for the version that was read.  Whether
\* the error is looked at depends on the state.
Checked == draft = "Rejected" \/ copy.state = "Running"

SaveStatus ==
    /\ pc = "save"
    /\ \/ /\ nets[name] = copy
          /\ Written(name, Recorded)
          /\ \/ Return(FALSE) /\ UNCHANGED faults
             \/ Fault /\ Return(Checked)      \* the reply is lost
       \/ /\ nets[name] # copy
          /\ Return(Checked)
          /\ UNCHANGED <<nets, informer, faults>>
       \/ /\ Fault /\ Return(Checked)
          /\ UNCHANGED <<nets, informer>>
    /\ UNCHANGED <<history, restarted, queue, shared, workflows, crashes>>

IgnoresGone ==
    /\ pc = "handle" /\ copy.uid = 0
    /\ Return(FALSE)
    /\ UNCHANGED <<users, informer, queue, shared, workflows, crashes, faults>>

\* The resource is gone: uninstall its release, then delete its workflows.
\* Failures are logged and nothing is tried again.
HandleGone ==
    /\ pc = "handle" /\ copy.uid = 0
    /\ \/ release' = Uninstalled /\ UNCHANGED faults
       \/ UNCHANGED release /\ Fault
    /\ Goto("gone")
    /\ UNCHANGED <<users, informer, queue, secret, dir, workflows, crashes>>

LeavesWorkflows ==
    /\ pc = "gone"
    /\ Return(FALSE)
    /\ UNCHANGED <<users, informer, queue, shared, workflows, crashes, faults>>

DeleteWorkflows ==
    /\ pc = "gone"
    /\ \/ workflows' = workflows \ {name} /\ UNCHANGED faults
       \/ UNCHANGED workflows /\ Fault
    /\ Return(FALSE)
    /\ UNCHANGED <<users, informer, queue, shared, crashes>>

\* The operator's pod is replaced; the new informer lists what exists.
Crash ==
    /\ crashes > 0 /\ crashes' = crashes - 1
    /\ pc' = "idle" /\ name' = None /\ copy' = Absent /\ draft' = ""
    /\ watch' = <<>> /\ cache' = nets /\ delayed' = {}
    /\ \E q \in [1..Cardinality({ n \in Networks : Exists(n) }) -> Networks] :
        /\ { q[i] : i \in DOMAIN q } = { n \in Networks : Exists(n) }
        /\ queue' = q
    /\ dir' = [n \in Networks |-> "absent"]
    /\ UNCHANGED <<users, secret, release, workflows, faults>>

-----------------------------------------------------------------------------
Worker ==
    \/ Begin \/ HandleForced \/ ClearForce \/ Reconstruct \/ HandleNone \/ HandleRejected
    \/ Teardown \/ Prepare \/ Install \/ Upgrade \/ HandleInstalled
    \/ HandleChartReady \/ Submit \/ HandleRunning \/ ApplyEdit \/ SaveStatus
    \/ HandleGone \/ DeleteWorkflows \/ CallFails

Timers == \E n \in Networks : TimerFires(n)

Next ==
    \/ \E n \in Networks : Create(n) \/ Update(n) \/ Delete(n)
    \/ Worker \/ Timers \/ Deliver \/ CollectGarbage \/ Crash

Spec == Init /\ [][Next]_vars

\* Worker, timers, informer and garbage collector run, and pods looked at again and
\* again become ready; a user need not do anything, and nothing need fail.
Fairness ==
    /\ SF_vars(HandleInstalled /\ pc' = "save")
    /\ WF_vars(Worker) /\ WF_vars(Deliver) /\ WF_vars(CollectGarbage)
    /\ \A n \in Networks : WF_vars(TimerFires(n))

FairSpec == Spec /\ Fairness
=============================================================================
