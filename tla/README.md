# A verification project for the Hyperledger Fabric Operator

The operator keeps one Hyperledger Fabric network per Kubernetes namespace in the shape a
`FabricNetwork` resource asks for. It installs and upgrades a Helm chart (`hlf-kube` of PIVT), runs
three Argo workflows that create channels, admit organizations and install chaincodes, and records
in the status of the resource where it is. This directory holds TLA+ models of it, the TLC runs
that check them and proofs for TLAPS. Paths below are relative to the repository.

## 1. The system

| Part | Source | State it keeps | Operations |
|---|---|---|---|
| Reconciler | `controllers/fabricnetwork_controller.go` | none of its own between two calls | `Reconcile`, a switch on `Status.State`; `saveStatus`; `checkOthersInNamespace` |
| Change detection | same file, `api/v1alpha1/fabricnetwork_types.go` | – | `getChanges`: spec against the fields the status says are applied |
| Chart directory, Helm release | `controllers/helm_util.go`, `file_util.go` | directory in the operator's pod, release in the cluster | prepare, reconstruct, install, upgrade, uninstall, `isHelmChartReady`, host aliases |
| Workflows | `controllers/argo_util.go` | Argo workflows in the cluster | submit, poll, delete |
| Certificates, genesis block | `controllers/fabric_util.go` | directory, secret `hlf-crypto-config` | generate, extend, store, download |
| Archives | `controllers/tar_util.go` | – | `compress`, `uncompress` |
| Command line tool | `cli/cmd/*.go` | none; secrets, config maps and networks in the cluster | `create`, `update`, `delete`, `list`, `download` |
| Manager | `main.go`, `config/manager/manager.yaml` | informer cache, work queue | one replica, one worker |

How they interact:

- The user writes the spec (directly or with the command line tool); only the operator writes the
  status. Both go through the API server, which refuses a write made at an older version.
- The operator reads the resource, the stateful sets and the services from informer caches, which
  lag behind the server, each on its own. Argo is called directly.
- An event of the informer, a delayed requeue or the periodic resync makes the single worker run
  `Reconcile`. Each call does one state of the switch: some external effects, then `saveStatus`.
- The error of `saveStatus` is mostly not looked at; the next event continues the work.
- The chart directory is lost with the operator's pod and reconstructed from the cluster's secrets.

What is hard about it: stale reads; edits and forced states that arrive while the operator is at
work; a restart or a failure between an external effect and the save that records it; errors that
are ignored; changes that are combined in one edit; a phase, a list or a directory that is neither
one thing nor the other. `PROJECT.json` lists each hazard at its line.

What makes each part correct:

- *Reconciler*: the state in the API server follows the life cycle, no result of someone else's
  workflow is taken, nothing is recorded as applied that the user does not want at that moment, no
  edit and no forced state is lost; left alone, it comes to rest, and then the network is the one
  asked for.
- *Release*: never uninstalled once in use, never deployed from an incomplete directory; the pods
  know each other's names when actual domains are used.
- *Workflows*: one at a time, chaincodes after channels, none after a failure.
- *Certificates*: those of an installed network are only ever extended by those of new
  organizations; what is deployed is stored, the genesis block was made of it, a provider's
  certificates stay as provided, and every organization gets some.
- *Namespace*: at most one network is set up at a time; it keeps its release and its certificates, or
  is given new ones when it starts over; what it made goes when it goes.
- *Command line tool*: a network in the cluster has all its file refers to, whichever call failed;
  nothing is overwritten unasked, nothing is left after a deletion, and trying again succeeds.

## 2. The modules

| Module | Content |
|---|---|
| `FabricNetwork` | The resource and the pure functions on it: states, topology, `GetChanges`, what the API server stores |
| `Reconciler` | The operator and everything it runs between, as one state machine |
| `Lifecycle` | What a user is promised about state and forced state: the abstract specification |
| `ReconcilerProperties` | Type invariant, safety, action and liveness properties, the refinement of `Lifecycle`, and the statements of the documentation the code departs from |
| `MCReconciler` | Values of the constants for TLC |
| `MCPatient` | The instance of it whose user meets the conditions of the theorems, which TLC evaluates |
| `Namespace` | Several networks in one namespace: admission, edits and forced states, the release, secret and workflows, cleanup |
| `Tenancy` | What the users of a namespace are promised: the abstract specification |
| `NamespaceProperties` | Its type invariant, safety and liveness properties, the refinement of `Tenancy`, the documentation it departs from |
| `MCNamespace` | The module TLC runs for `Namespace` |
| `Certificates` | The certificates and the genesis block of a network, file by file, in every place they are copied to |
| `CertificatesProperties` | Its type invariant, safety and liveness properties, the documentation it departs from |
| `MCCertificates` | The module TLC runs for `Certificates` |
| `Cli` | The command line tool's create, update and delete, call by call, with users, operator and garbage collector around it |
| `CliProperties` | Its type invariant, safety and liveness properties |
| `MCCli` | Network files and names for TLC |
| `ReconcilerTypes` | Proof of type correctness |
| `ReconcilerSafety` | Proof of the inductive invariant `Consistent` and of what follows from it: life cycle, tracking, edits; finality of failure, one workflow at a time, complete directories |
| `ReconcilerConvergence` | For users who wait: the release stays up, a settled network is the one asked for, its pods know each other |
| `NamespaceProofs` | Proof of type correctness of `Namespace` |
| `NamespaceSafety` | Proofs of the release, the certificates and the cleanup in a namespace, and of the refinement of `Tenancy` |
| `CertificatesProofs` | Proofs of type correctness and of the integrity of a provider's certificates |
| `CertificatesSafety` | Proofs that what is deployed fits, is stored, is only extended, and covers every organization |
| `CliProofs` | Proofs of type correctness, that nothing is overwritten unasked, and that what commands leave is complete and coherent, or gone |

### Correspondence

- `spec`, `status`: the resource in the API server. `desired` groups the four parts of the spec the
  code compares with the status, `observed` the four fields of the status it always copies together.
- `watch`, `cache`: versions on their way to the informer, and the version it holds. `Deliver` moves
  one on and enqueues the key. `fresh` stands for the resource version: the worker's copy is at the
  version of the server. It is lost when the user writes, and when the worker reads a cache that
  lags behind; `Accepted` is the server's comparison.
- `queued`, `delayed`: the key is in the work queue, or waits for a requeue. The work queue holds a
  key once and gives it to one worker at a time.
- `pc`, `net`, `pending`: where the worker is in `Reconcile`, the resource as it read and changed it,
  the status it is about to save. One action is one external effect of the code with the control flow
  up to it; `save` is the call of `Status().Update`. `checked` says whether the code looks at the
  error.
- `dir`: the directory of the network, by what it holds: nothing, the chart alone, the values files
  too, or also certificates and genesis block. `values` is the spec the files were written from.
- `UserEdits` is an update with another network file, which replaces the spec as a whole, the forced
  state included; `UserForces` one that only requests a state, withdraws it or asks for another.
- `release.listed` are the services the operator's cache shows, which `ServicesListed` brings up to
  date; with `ServicesLag` it lags behind Helm. `release.misled` is a history variable: the last
  upgrade was given a list that did not show the services the release had.
- `release`, `secret`, `workflows`, `fabric`: the Helm release, the stored certificates, the Argo
  workflows, and what workflows that succeeded have established (channels with their members, peers
  joined, chaincodes installed). The last stands for PIVT's workflows, which are not part of the
  repository; it is modelled from what the README says they do and the values they are given.
- A state of the switch is an action `Handle<State>`. `New` takes three (`Teardown`, `Prepare`,
  `Install`), the double update two, `HelmChartReady` is followed by `NextFlow`, a forced state by
  `ClearForce`.
- `CallFails` is a call that fails without effect, the `Fault` disjuncts of the other actions are the
  failures that leave something behind; an answer that is lost after its effect is among them.
- `Crash` is the replacement of the operator's pod: memory, queue, cache and directory are lost, the
  new informer lists the resource afresh.

`Lifecycle` sees the state, the forced state, and by `writes` (the edits left) whether a step is one of
the user's; only such a step may request, change or withdraw a state.

`Namespace` looks at the same code from the side of what networks share:

- `nets`: the resources by name. Each creation has a new `uid`, each update of a user a new number
  `spec`, so no version is equal to an earlier one, and a write is accepted when the copy is what the
  server has. `edited` says that the topology of the spec is not the recorded one. `watch` and `cache`
  as above, for all networks in one stream.
- `Update` is any update of a user: the topology changes or is put back, a state is forced, or a
  request is withdrawn.
- The states are those that matter to other networks. `NeedsUpdate` stands for the double update too,
  `ChartReady` for HelmChartReady, `Running` for the submission of the next flow and all after it,
  Ready and Failed included; the workflows themselves are in `Reconciler`. No way between the states is left out:
  from `ChartReady` an edited network is saved as New and goes on to `Submit` in the same call, from
  `Running` it goes to `NeedsUpdate`, and `HandleForced` leads from any state, Rejected too, to any in
  `ForcedStates`.
- History variables: `alone` (never two networks at once so far), `unforced` (no user has forced a state so
  far), `restarted` (networks that have gone back from HelmChartReady to New).
- `queue`, `delayed`: the work queue, first in first out, and the keys waiting for a requeue.
- `pc`, `name`, `copy`, `draft`: the worker, as above. `WriteAndGoto` is a write in the middle of a call
  (the forced state, New from HelmChartReady), `save` the last one of a call.
- `secret`, `release`, `workflows`: `hlf-crypto-config` by the uid owning it, `hlf-kube` by the name it
  is annotated with, the names with labelled workflows. `dir[n]` and `release.current` say whether
  directory and release hold the certificates that are stored at present, or older ones.
- `Reconstruct` comes before the switch and for every state, as in the code: a new network first
  fails to reconstruct its directory, and its key is in `delayed` from then on.
- `HandleGone` and `DeleteWorkflows` are the branch for a resource that is not found.

`Certificates` follows what `fabric_util.go` and `helm_util.go` do to files:

- A file is the set of *generations* it holds bytes of: `{g}` is a file made in generation g, the
  union of two one that was overwritten without being truncated (`tar_util.go:106`). `NewGeneration`
  takes the least that no file anywhere is of, as only sameness matters.
- `secret`, `secretWatch`, `secretCache`: `hlf-crypto-config`, its undelivered versions and the one the
  secret informer holds; they lag behind independently of `watch` and `cache`, the network's.
- `dir`: `members` are the organizations of the values files, `certs` and `genesis` what `crypto-config`
  and the genesis block hold. A directory without them exists too (`Bare`), and passes for complete.
- `provided`: the user provides the secret; `Supply` is the provider adding or replacing a file.
- `NeedsUpdate` stands for the double update too, `Installed` for HelmChartReady too, `Ready` for the
  workflows before it, which leave certificates alone.
- `patient` and `careful` remember whether every edit so far met a settled network, and whether the
  provider has replaced no file.

`Cli` follows `create.go`, `update.go` and `delete.go`:

- `networks`: the file of each network in the API server. `res`: the secrets and config maps by key,
  each with the edition of the file it came from, the label `create` gives it and its owner.
- `cmd[u]`: the command user u runs. `look` and `write` are the Get and the Create or Update of one
  upload, two steps as in the code; `submit` is the Create or Update of the network; the reads of one
  validation are taken together, as nothing is written between them.
- `current`: the users who still hold the server's version of the network they update.
- `hand`: the network the operator makes certificates for. `OperatorStores` stores them, with the network as
  owner, even if it was deleted meanwhile; then the owner is `Gone` and the garbage collector collects.
- `calm`: no command met another one, certificates about to be stored, or things about to be collected
  that its file refers to.
- `None` as owner and label is what was made by hand. The deletion order of what was listed is open.
- `Valid` has all checks of the cluster: the secrets of configtx, certificates and genesis block and
  the config maps a file refers to, and those `--overwrite` is asked for. Checks of the file alone
  (names, language of chaincodes, TLS) are left out: files in `Files` have passed them.

Abstractions: status messages, and fields of the spec the reconciler passes on unread, are left out.
Argo invents a new name for each workflow; the model takes the first of `MaxWorkflows` names that no
version of the resource uses and that is not running, so a finished workflow nobody refers to is
forgotten. A failure inside `createValuesFiles` leaves the old or the new files, not a mixture. The
periodic resync, ten hours apart, comes only when nothing else is to do, unless `ResyncAnytime`. In
`Reconciler` and `Namespace` the certificates are the operator's own. A chart knows the
peers by organization and number, and host aliases by peer; orderers have aliases by the same code.
`Invalid` is never written, as `validate` always succeeds, and is no state of the model.

## 3. The runs

A user is *patient* (`WaitsForReady`) when an edit is made only once the network has settled: the
state is Ready, the spec is what the status says is applied, nothing is forced.

| Run | Question | Instance |
|---|---|---|
| `ReconcilerPatient` | types, tracking of workflows, convergence, one workflow at a time, complete directories, host aliases, and that the network comes to rest | patient; 10 edits, each of one aspect, up to 2 of them made; with and without actual domains; lagging cache of services, 1 restart, 1 failing call |
| `ReconcilerImpatient` | inductive invariant, life cycle, applied = desired, no edit lost, a forced state is dealt with | 2 updates at any time, each an edit (version or channels), a request of HelmChartReady or its withdrawal, or both |
| `ReconcilerStale` | completed flows, finality of failure, a release in use is not uninstalled | a channel comes and goes, two states forced or withdrawn, resync at any time, any outcome of workflows and of admission |
| `NamespaceShared` | one network at a time, which keeps place and release and has the stored certificates | two names, 2 creations, deletions at any time, 1 edit, 1 restart, 1 failing call, actual domains |
| `NamespaceSettles` | deleted networks leave nothing, the last network is set up | the same in calm, without actual domains, New forced or withdrawn by the edit |
| `CertificatesExtended` | certificates only extended, stored, matching the genesis block, the provider's own; every organization gets some | a founder and a second organization, 2 edits at any time, own or provided with 2 supplies, 1 restart, 1 failing call |
| `CliCommands` | complete and coherent networks, nothing overwritten, nothing left, a retry succeeds | two users, two names, four files with local parts or references, 2 commands and any number of retries, 2 faults |

The bounds. Two organizations, up to two peers, two channels and two chaincodes give every branch of
`getChanges` and of the Ready state; two edits let one change meet what an earlier one left behind
(`NextFlow`, values files, aliases). One restart and one failing call at every point reach each
window between an effect and its record; what the budgets still hold tells a property whether
anything has gone wrong so far (`NeverCrashed`, `NeverFailed`). Four workflow names suffice for one
running in each of the cache, the server, the worker's copy and an orphan; with two or three names
runs are restricted to schedules in which no more are needed.

Two creations in `Namespace` are two networks at once, one after the other, or the same name twice. One
edit is enough to send a network back to New, or to have a state forced, at any moment of the other's
life; the edit may also come before its network is admitted, or be of the one rejected. A restart and a
failing call are part of the run of the safety properties to show that their premises hide no type error and
no wrong step; the other run is about calm behaviours. Names are interchangeable in the run without
liveness (`SYMMETRY`). These runs do not check for deadlock: when no network is left to create or delete and everything is done, nothing happens.

Two edits of organizations in `Certificates` remove and re-add one, or add one after the other was
removed; two supplies add a file and replace it. `MaxGenerations` is the number of generations that
files are of *at one time*; five leaves out only schedules in which the server, the cache, the
undelivered versions, the directory and the release are of more. Two commands in `Cli`, each with up to two local files, and two faults let a command fail half way, the next one work on what is
left, and a third, the retry, clean up; retries are not counted, so that they can go on. These two runs
do not check for deadlock: with all budgets used up, nothing need happen.

Fairness (`FairSpec`). The worker, informer, work queue and resync are weakly fair: goroutines of
controller-runtime and client-go run, and a delayed key is added when its time has come. Pods of a
release become ready and workflows end; the code waits for both and cannot do without. No fairness
is assumed of users, restarts, failing calls, or the replica counts. Weak fairness
of the worker as a whole is enough, as it is one goroutine with one thing to do next. In `Namespace` pods
that are looked at again and again are found ready at last (strong fairness of that outcome alone);
the work queue is a sequence, so a key that fails again and again does not keep the worker from
others, and the garbage collector of Kubernetes is fair. In `Certificates` the worker, both informers
and the timer are. In `Cli` a command that was entered goes on (it is a process that runs to its end), the
operator stores what it has made, the garbage collector collects, and `RetrySucceeds`
speaks of a user who goes on trying; no one is fair who enters other commands.

What holds only in part, and where the border is:

- `Converged` and `PeerAliases` hold for patient users who change one aspect at a time. Both fail for
  combined edits (`CombinedEdit`), `PeerAliases` also for a higher peer count with actual domains, which is
  upgraded only once (TLC finds it; section 4). A lagging cache of services is part of the run, but an
  upgrade that was misled by it is excluded by the premise `~release.misled`: such an upgrade does leave
  peers out, for good (section 4).
- `OneWorkflowAtATime` fails after a restart or a lost answer, which submit a workflow again;
  `DeployedWithCertificates` fails when reconstruction stops half way (`PartialDirectory` shows the
  same directory). The properties say so in their premises.
- `TeardownOnlyFresh` holds as long as no topology change is noticed at HelmChartReady: after the fall
  through of `FromScratch`, which a forced HelmChartReady can bring about too, a stale reading of New
  uninstalls the release under the running workflow. The run therefore leaves the topology alone and
  does not force HelmChartReady; `TeardownOnlyFreshAlways` shows that this is all there is to avoid.
- The promises of `Namespace` hold in calm (no restart, no failing call); all but `CleansUp` also only
  as long as no state was forced, `CertificatesMatch` and `LastOneRuns` only for users who never have two
  networks at once. Why: a key left in the delayed queue can find New in a lagging cache right after the installation
  and tear the release down again; if the operator stops or a call fails before the release is back, a network is
  declared ready without one (no stateful set means none that is not ready). A state forced on a
  rejected network, or New forced on one whose chart is ready, takes release and certificates from whoever
  has them. Two networks admitted together overwrite each other's certificates while the
  installation of the second fails. A cleanup that fails once is never repeated, and the release left
  behind blocks every network of another name.
- A network whose topology is changed before HelmChartReady is handled goes back to New while its next flow
  is submitted (`FromScratch`). That New, if it is read late, does uninstall the release under the
  running flow, in calm. `RunningHasRelease` and `CertificatesMatch` say so in their conclusion: such a
  network, and only such a one (`restarted`), may be without, and only while the worker is at
  `prepare` or `install` for it (`Redoing`), so that no other step of the operator comes in between. `TenancyPromise`
  counts a network in that New as one that keeps its place.
- Two networks that are both new in the cache are both admitted (`checkOthersInNamespace` rejects only
  beside one that has a state already, `fabricnetwork_controller.go:463`): the second is set up only if
  the first goes.
- `Settles` needs a restart and a failing call not to come together (a directory reconstructed half
  way never lets flows render again, and the network never comes to rest), workflows
  that succeed or fail, and an edit other than of the hosts of an orderer, which the code never applies
  (`OnlyHostsDiffer`).
- The properties of `Certificates` need the same (`Steady`); `PartialDirectory` shows what happens
  otherwise. `Equipped` and `Equips` hold for the operator's own certificates and patient users; the
  others need a provider who does not replace files (`careful`). Each premise is necessary: TLC finds a
  counterexample without it, the most telling ones are in section 4.
- The properties of `Cli` but the type invariant hold in `calm`, and again TLC refutes each of them
  without. `KeepsExisting` holds for config maps in any case.

## 4. Where the code departs from its documentation

Five departures are runs whose one property states what the documentation says and which TLC finds
violated; `PROJECT.json` quotes the lines.

| Run | What happens |
|---|---|
| `FromScratch` | A topology change noticed at HelmChartReady saves New, falls through and submits the old next flow: nothing starts from scratch |
| `CombinedEdit` | Version and channels changed together: the channels count as applied and are never created |
| `EmptyList` | An emptied list is never equal to the stored nil: flows run in a loop |
| `Orphaned` | A network deleted while the operator restarts leaves release and workflows behind |
| `PartialDirectory` | A half reconstructed directory passes for complete; when an organization is added, cryptogen finds nothing to extend and makes all certificates anew, over the stored ones and into the running network |

The model behaves as the code does in these places too; no run is kept for them:

- `fabricnetwork_controller.go:371`: `NextFlow` stays PeerOrgFlow once an organization was added, so
  forcing HelmChartReady runs peer-org-flow and not channel-flow, as `README.md:487` has it.
- `fabricnetwork_controller.go:232`: a restart between submitting a workflow and saving its name
  submits another one; chaincodes may be installed while the first still works on the channels.
- `fabricnetwork_controller.go:379`: a higher peer count takes one upgrade, with host aliases made of the
  services before it: the pods never learn the names of the new peers.
- `helm_util.go:494`: the services of new organizations are listed from a cache at once after the upgrade
  that makes them, and may be missing from the aliases for good.
- `argo_util.go:115`: a workflow that ends in phase Error counts as submitted and is polled for ever.
- `helm_util.go:315`: replica counts of before an upgrade pass for readiness (a TODO in the code).
- `fabricnetwork_controller.go:393`: a topology change the code does not expect (hosts of an orderer,
  domains) rewrites the values files and is never applied or recorded.
- `fabricnetwork_controller.go:463`: of networks that are all new in the cache, all are admitted.
- `fabric_util.go:257`: an impatient user's edit lets New be read late; the release is torn down, the
  secret cache does not show the secret just made, its Create is refused, and the key then sees Ready: the
  network stays Ready without a release.
- `fabric_util.go:139`: with provided certificates, an edit that overtakes the secret in the caches is
  applied without the new organization's certificates, and nothing repeats it.
- `tar_util.go:106`: a provided file that replaces a longer one keeps the tail of the old one.
- `create.go:131`: a genesis block given as a file is validated but never uploaded, and ignored by the
  operator (`fabric_util.go:98`), although `README.md:94` and `fabricnetwork_types.go:118` offer it.
- `create.go:251`: a secret made by another user after the validation is overwritten without `--overwrite`.
- `create.go:279`: a config map is made under the lower-case name of its chaincode and looked up (line 153)
  under the name as written, so names with capitals cannot be referred to.
- `create.go:179`: a secret passes validation that is about to be collected with the network that owned it.
- `update.go:77`: an update refused for a conflict has replaced secrets and config maps already.
- `delete.go:64`: what is listed after the deletion of the network may by then belong to a new network
  of that name; a deletion that fails there leaves the rest, which only the next `create` finds.

## 5. The proofs

Every invariant and every action property the runs check, and both refinements, are theorems: TLC shows
them on an instance, TLAPS for all values of the constants. The last column says what the user must be
like; where it is empty, specs, edits, forced states, outcomes of workflows, resyncs and all bounds
are arbitrary, patience is not assumed, and premises such as `Calm` or `Steady` are part of the property.

| Theorem | Property | Rests on | Condition |
|---|---|---|---|
| `TypeCorrect` | `TypeOK` | inductive by itself | |
| `ConsistentAlways` | `Consistent` | inductive with the types | |
| `TrackedWorkflowAlways` | `TrackedWorkflow` | a conjunct of `Consistent` | |
| `CompletedFlowRanAlways` | `CompletedFlowRan` | `Consistent` | |
| `AppliedIsDesiredAlways` | `AppliedIsDesired` | `Consistent` | |
| `OperatorKeepsEditsAlways` | `OperatorKeepsEdits` | `Consistent` | |
| `LifecycleImplemented` | `LifecyclePromise` | `Consistent` | |
| `DeployedWithCertificatesAlways` | `DeployedWithCertificates` | `ChartsComplete` | |
| `FailedIsFinalAlways` | `FailedIsFinal` | `OneVersion`, `FailedLast` | |
| `OneWorkflowAtATimeAlways` | `OneWorkflowAtATime` | `InTurns` | `Patience` |
| `TeardownOnlyFreshAlways` | `TeardownOnlyFresh` | `OneVersion`, `NewLast` | `[][StaysUp]_vars` |
| `WaitingStaysUp` | `TeardownOnlyFresh` | `Level` and the theorem before | `Waiting` |
| `ConvergedAlways` | `Converged` | `Convergent` | `Careful` |
| `PeerAliasesAlways` | `PeerAliases` | `Convergent`, `AliasesRight` | `Careful`, `Announcing` |
| `NamespaceTypeCorrect` | `NamespaceOK` | types, and that a busy worker has a key | |
| `RunningHasReleaseAlways` | `RunningHasRelease` | `PipeInv`, `Held` | |
| `TenancyPromised` | `TenancyPromise` | the same | |
| `CleansUpAlways` | `CleansUp` | the same, and `Remembered` | |
| `CertificatesMatchAlways` | `CertificatesMatch` | the same, and `OneAtATime` | |
| `TypeCorrect` (of `CertificatesProofs`) | `CertificatesOK` | inductive by itself | |
| `ProvidersOwnAlways` | `ProvidersOwn` | inductive with the types | |
| `GenesisMatchesAlways` | `GenesisMatches` | `Sound` | |
| `RestorableAlways` | `Restorable` | `Sound` | |
| `OnlyExtendedAlways` | `OnlyExtended` | `Sound` | |
| `EquippedAlways` | `Equipped` | `Fitted` | |
| `CliTypeCorrect` | `CliOK` | types, and that a command at work on a file has one | |
| `KeepsExistingAlways` | `KeepsExisting` | `KeepInv` | |
| `CompleteAlways` | `Complete` | `SafeInv` | |
| `CoherentAlways` | `Coherent` | `SafeInv` | |
| `DeleteCleansAlways` | `DeleteCleans` | `SafeInv`, `Kinds` | |

### Assumptions

Each model has one (`ReconcilerAssumption`, `NamespaceAssumption`, `CertificatesAssumption`,
`CliAssumption`) that gives its constants types and bounds. Sets of networks, organizations, users and
files are arbitrary (networks finite); `Specs` contains the stored form of its members.

The conditions on the user of a network are definitions of `ReconcilerProperties` about the constants
alone, and `MCPatient` makes TLC evaluate them, so they can be met:

- `Waiting`: an edit is made of a settled network only, no state is forced, and no spec has an empty
  list that is not nil (such a network never settles, see `EmptyList`).
- `Patience`: also, no resync finds work in progress. It comes every ten hours.
- `Careful`: also, what one edit changes the operator applies in one go (`AtOnce`). An edit with a new
  version and a new channel it does not; `CombinedEdit` shows what becomes of it. Any number of
  organizations, channels and chaincodes may change at once if an organization is among them.
- `Announcing`: with actual domains no edit raises a peer count unless organizations come or go with it,
  since a higher count alone is upgraded once (section 4). Nothing is assumed of the cache of
  services; that the last upgrade was not misled by it is a premise of `PeerAliases` about the state.

Crashes and failing calls are without bound in all of these but `OneWorkflowAtATime`, which says in its
premise that there were none.

### The arguments

*`Consistent`.* None of the safety properties is inductive: a save is right only if the draft in the
worker's hand is, and the draft is right only if the copy it was made from was. `Consistent` says so
in three parts. *Copies*: the last undelivered version (or the cache) is the server's, a fresh
copy of the worker is the server's, and what is observed is in stored form in every version.
*Intentions*: past the switch, the worker's copy has the state that led there (`Whereabouts`); a draft
about to be saved is the forced state, or an edge of the life cycle whose tracked workflow exists, or
has succeeded, as the edge demands, and records either what was recorded or the spec as read
(`DraftLegal`). *Tracks*: the workflow a Submitted state names is of that flow. Then the version
check does the rest: only `SaveStatus`, `ClearForce` and the user write the resource (`Writers`), and an
accepted save turns a legal draft of the *current* resource into the next one. Names of
workflows matter to the proof: a new workflow takes a name no version of the resource refers to, so
submitting it disturbs no one else's tracking.

*Versions.* What follows is about stale reading, and speaks of `Seen`: every version of the resource in
the server, on its way, in the cache or in the worker's hand. `OneVersion` is the fact all rest on: a
worker at the server's version that has written nothing began with an informer that had caught up, so a
save that is accepted leaves two versions, the old and the new. For `FailedIsFinal` this gives
`FailedLast`: unless a state is forced in a version still to be seen, whoever reads something older than Failed
reads a state in which a workflow is polled, not submitted. For `TeardownOnlyFresh` it gives `NewLast`: whoever still reads New reads it while the
network is installed.

*Directories.* `ChartsComplete`: as long as no call fails, once there is a release the certificates are
stored and the directory is absent or complete, and whoever prepares a directory has no release.

*One workflow.* `InTurns` is a token argument: without crashes and failures one requeue, one call or one
undelivered version is under way, and only it leads to a submission; a workflow that runs is the one
tracked (`RunsTracked`).

*Convergence.* `Convergent` has nine parts, each kept with the help of those before it:
`Level` (what is being applied is what this version asks for), `Behind` (a version is one step
behind the server's, at most), `InSync` (and asks for the same, or there is nothing left to do for it),
`SetUpOnce` (New is read once), `DirRight` (the values files in the directory are those of what is being
applied, however often the directory was lost), `Explained` and `OneEdit` (what the worker saves is
explained by what it has read, and a ready network is one edit away from what is asked for),
`ReleaseRight` (past the upgrades the release has the topology), and `Flowing`: what states and next
flows promise is established in the network or is the task of the workflow that is tracked, and no
workflow, tracked or lost in a crash, creates a channel before the organizations are what the spec says.
The last is what a resubmitted workflow could break. It needs that workflows only add (`FabricGrows`), and
that the difference `getChanges` has found is all there is to do: without new organizations or higher
counts there are no new peers (`PeersShrink`), and a chaincode not among the changed ones is
installed already (`UnchangedChaincodes`). `AliasesRight` adds that before the last upgrade the release has
the services of all peers the pods are to know (`Offering`), and that after it the pods know them, if the list
that upgrade was given showed the services of the release (`Named`).

*Namespace.* `PipeInv` has no premise. `Pipe` orders the versions of all networks: the informer is late
but loses nothing, versions of a uid stay with it, and, as long as no state is forced, a network that is set up
and was not restarted is read as nothing else. `Known` says what the worker has seen of the network that is
set up, `Free` that without forced states none is under way and that what was restarted is a tenant still,
`Holding` what the worker holds in its steps, above all that New with a flow to submit is of a restarted network.
In calm and without forced states, `Held` says that whoever is set up in whatever version (`Placed`: as
read, cached, under way, or restarted) has the release, unless the worker has just taken it away to install it
once more (`Redone`); so two networks are never placed. The refinement of `Tenancy` and
`RunningHasRelease` follow from it. `Remembered` is the cleanup and holds in calm whatever is forced: of a
network that is gone and has left something, the operator has still to hear, or is cleaning up, and whoever
acts on an old version will hear of the present one. `OneAtATime` adds for users who take turns
that the informer hears of a network after the end of the former ones, and that secret, directory and release
of the one set up belong together, also in the course of an update.

*Certificates.* `ProvidersOwn` is inductive because certificates move only from one place it speaks of to
another: each way of copying (part of them, over others, half way, with the genesis block made of them) is a
lemma, and the one step that makes new ones, `Supply`, adds where there was nothing as long as the
provider is careful. `Sound` relates directory, secret, release and their versions under way (`Kept`,
`Suits`, `Lost`, `Making`, `Saved`), as long as a crash and a failing call do not come together.
`Fitted` adds for patient users that every version of an unsettled network wants the same, and that what
an update needs is stored.

*Commands.* `KeepInv`: in calm at most one command runs, and nobody's certificates are about to be
stored (`Alone`, `HandEmpty`); so what a cautious create has found absent stays absent until its turn, and a
secret is uploaded once only (`Once`). For config maps it looks again, and the server's refusal
of a Create of what exists does the rest (`MapsNew`). `SafeInv` adds what is in the server in calm, and
what a command on its way still brings or removes (`OnItsWay`), whichever of its calls fails.

### Only model-checked

Liveness under fairness is out of the prover's reach: `Settles`, `ForceHonoured`, `LastOneRuns`,
`Equips`, `RetrySucceeds`. They are checked on the instances of section 3. What `GetChanges`,
`Peers` or `Effective` return is not computed by recursion, so facts about them could be proved; where the
code's loops are summarised by a quantifier, the summary itself is a matter of reading.


## 6. Not modelled

- In `Reconciler`, the computation of the check for other networks (its answer is an input,
  `OthersAnswers`); it is in `Namespace`, which in turn leaves out what workflows do and takes their states together.
- The chart itself and the values files but for the organizations in them; a genesis block the user
  provides as a secret, which is passed to Helm unread.
- Of the command line tool `list`, `download` and `version`, which change nothing in the cluster, and the
  checks of a file by itself.
- The bytes of tar and gzip streams; modelled is what unpacking does to files that are there, and what
  a failure leaves.
- Start-up: flags, leader election (one replica), health probes.
- Generated code, manifests, metrics, probes, logging.

## 7. Plan

What the runs check of safety is proved. Left, in this order:

1. `GetChanges` on its own: every difference of two specs is in one of its fields, or in those the code
   does not react to; which edits are applied at once, as a theorem instead of the condition `AtOnce`.
2. Convergence for a user who also forces states of a settled network, and for one who does not wait but
   edits channels and chaincodes only.
3. Weaker conditions: `OneWorkflowAtATime` after a failing call that submits nothing, `CertificatesMatch`
   for users who have two networks at once but delete the one that was rejected.
