------------------------- MODULE NamespaceProperties -------------------------
(***************************************************************************)
(* What the operator must guarantee to the networks of a namespace, and    *)
(* what it does not.                                                       *)
(***************************************************************************)
EXTENDS Namespace

\* Type invariant of the namespace: resources in every version, the worker and
\* what the networks share.
NamespaceOK ==
    /\ nets \in [Networks -> Resources] /\ created \in Uids /\ edits \in 0..MaxEdits
    /\ alone \in BOOLEAN /\ unforced \in BOOLEAN /\ restarted \subseteq Networks
    /\ watch \in Seq([name : Networks, resource : Resources])
    /\ cache \in [Networks -> Resources]
    /\ queue \in Seq(Networks) /\ delayed \subseteq Networks
    /\ pc \in {"idle", "handle", "clear", "prepare", "install", "submit", "save", "gone"}
    /\ name \in Networks \union {None} /\ copy \in Resources /\ draft \in States
    /\ dir \in [Networks -> Dirs] /\ secret \in Uids /\ release \in Releases
    /\ workflows \subseteq Networks
    /\ crashes \in 0..MaxCrashes /\ faults \in 0..MaxFaults

\* No restart and no failing call so far.
Calm == crashes = MaxCrashes /\ faults = MaxFaults

\* The network has been installed: it is set up, or being set up once more.
Tenant(n) ==
    /\ Exists(n)
    /\ \/ nets[n].state \in {"NeedsUpdate", "Installed", "ChartReady", "Running"}
       \/ n \in restarted /\ nets[n].state = "New"

Tenants == INSTANCE Tenancy WITH present <- { n \in Networks : Exists(n) },
                                 tenants <- { n \in Networks : Tenant(n) },
                                 calm <- Calm /\ unforced

\* Whatever comes and goes at the same time, whatever the cache does not know yet and
\* users edit: one network at most is set up, and keeps its place until it is deleted,
\* even when a changed topology sends it back to New.  Nothing is promised once the
\* operator was restarted, a call has failed or a user has forced a state.
TenancyPromise == Tenants!Spec

\* The chart has been ready.
Running(n) == Exists(n) /\ nets[n].state \in {"ChartReady", "Running"}

\* The worker does for a restarted network what New demands, with the release down.
Redoing(n) == n \in restarted /\ name = n /\ pc \in {"prepare", "install"}

\* In calm and as long as users force no state, a network whose chart is ready has the
\* release: no cleanup or admission of another network, and no late one of a former
\* network of that name, takes it away.  Nor does New read late by its own, unless a
\* topology was changed before HelmChartReady was handled; then New, read while the
\* submitted flow runs, takes the release away and installs it again in the same call.
RunningHasRelease ==
    Calm /\ unforced => \A n \in Networks : Running(n) => release.owner = n \/ Redoing(n)

\* In calm, as long as users never have two networks at once and force no state, the
\* stored certificates are those of the network whose chart is ready, and go when it
\* goes: what is left of its predecessor, still being cleaned up, does not replace them.
\* A network sent back to New has new ones made, and never runs on with a release of
\* others, but for the moment in which the worker does that.
CertificatesMatch ==
    Calm /\ unforced /\ alone =>
        \A n \in Networks : Running(n) => (secret = nets[n].uid /\ release.current) \/ Redoing(n)

\* Nothing is left to do for the operator and the garbage collector.
AtRest ==
    /\ pc = "idle" /\ queue = <<>> /\ delayed = {} /\ watch = <<>>
    /\ \A n \in Networks : ~Exists(n)
    /\ secret = 0

CleanedUp == AtRest => release = NoRelease /\ workflows = {}

\* Unless the operator stops or a call fails, deleted networks leave no release
\* and no workflow, even if they are deleted while they are being installed, are
\* created again before the deletion is noticed, or had states forced on them.
CleansUp == Calm => CleanedUp

\* As long as users never have two networks at once and force no state, the last one is
\* set up eventually, even if it comes before its predecessor is cleaned up.
LastOneRuns ==
    <>[]( alone /\ Calm /\ unforced =>
            \A n \in Networks : Exists(n) => nets[n].state = "Running" )

\* README.md:296: deleting the FabricNetwork deletes all its resources.
DeletesAll == CleanedUp
==============================================================================
