---------------------------- MODULE Certificates ----------------------------
(***************************************************************************)
(* The certificates and the genesis block of one network, file by file:    *)
(* where they are made, stored, downloaded, extended and deployed, while   *)
(* its organizations change.  The operator makes them with cryptogen and   *)
(* stores them in the secret hlf-crypto-config, or the user provides that  *)
(* secret; Helm deploys what the chart directory holds.  Like all secrets  *)
(* it is read from a cache of its own, which lags behind the server        *)
(* independently of the network's.                                         *)
(*                                                                         *)
(* The life cycle is that of Reconciler, of which the steps that touch     *)
(* certificates are kept.                                                  *)
(***************************************************************************)
EXTENDS Integers, Sequences

CONSTANTS Members,         \* organizations with certificates
          Founders,        \* those a network is created with
          MaxGenerations,  \* bound: generations of certificates that matter at one time
          MaxEdits,        \* bound: edits of the organizations
          MaxSupplies,     \* bound: changes of a provided secret by its provider
          MaxCrashes,      \* bound: operator restarts
          MaxFaults        \* bound: failing API, Helm, cryptogen and file system calls

ASSUME CertificatesAssumption ==
    /\ Founders \subseteq Members /\ Founders # {}
    /\ MaxGenerations \in Nat \ {0}
    /\ {MaxEdits, MaxSupplies, MaxCrashes, MaxFaults} \subseteq Nat

VARIABLES
    provided,         \* CryptoConfig.Secret is set: the certificates are the user's
    net,              \* the network in the API server
    watch, cache,     \* its undelivered versions, and the one the informer holds
    secret,           \* hlf-crypto-config in the API server
    secretWatch, secretCache, \* the same for it
    queued, delayed,  \* the work queue: ready to run, waiting for a requeue
    pc, copy, fresh,  \* the worker: step, network as read, whether that is the server's
    draft,            \* what it is about to save
    dir,              \* the chart directory
    release,          \* the Helm release
    patient, careful, \* no edit of an unsettled network, no file replaced so far
    edits, supplies, crashes, faults  \* budgets left

resource == <<net, watch, cache>>
secrets   == <<secret, secretWatch, secretCache>>
worker   == <<pc, copy, fresh, draft>>
user     == <<provided, patient, careful, edits, supplies>>
vars == <<user, resource, secrets, queued, delayed, worker, dir, release, crashes, faults>>

-----------------------------------------------------------------------------
\* The certificates of a member are a file, known by the generations it holds
\* bytes of: {} is no file, {g} the file made in generation g.
Generations == 1..MaxGenerations
Files == SUBSET Generations
Certificates == [Members -> Files]
NoCertificates == [m \in Members |-> {}]
Having(certs) == { m \in Members : certs[m] # {} }
Only(members, certs) == [m \in Members |-> IF m \in members THEN certs[m] ELSE {}]

\* `members' are those of the values files, {} while these are not written.  A
\* genesis block contains the certificates of the members it was made for.
Dirs == [present : BOOLEAN, members : SUBSET Members, certs : Certificates,
         genesis : Certificates]
NoDir == [present |-> FALSE, members |-> {}, certs |-> NoCertificates,
          genesis |-> NoCertificates]
Releases == [installed : BOOLEAN, certs : Certificates, genesis : Certificates]
NoRelease == [installed |-> FALSE, certs |-> NoCertificates, genesis |-> NoCertificates]

\* NeedsUpdate stands for the double update too, Installed for HelmChartReady
\* too, Ready also for the workflows before it, which leave certificates alone.
States == {"New", "NeedsUpdate", "Installed", "Ready"}
Networks == [wanted : SUBSET Members, state : States, observed : SUBSET Members]
Drafts == [state : States, observed : SUBSET Members, checked : BOOLEAN,
           then : {"idle", "next"}]
Blank == [wanted |-> {}, state |-> "New", observed |-> {}]
NoDraft == [state |-> "New", observed |-> {}, checked |-> FALSE, then |-> "idle"]

Init ==
    /\ provided \in BOOLEAN
    /\ net = [wanted |-> Founders, state |-> "New", observed |-> Founders]
    /\ watch = <<>> /\ cache = net
    /\ secret = IF provided THEN [m \in Members |-> IF m \in Founders THEN {1} ELSE {}]
                ELSE NoCertificates
    /\ secretWatch = <<>> /\ secretCache = secret
    /\ queued = TRUE /\ delayed = FALSE
    /\ pc = "idle" /\ copy = Blank /\ fresh = FALSE /\ draft = NoDraft
    /\ dir = NoDir /\ release = NoRelease
    /\ patient = TRUE /\ careful = TRUE
    /\ edits = MaxEdits /\ supplies = MaxSupplies
    /\ crashes = MaxCrashes /\ faults = MaxFaults

-----------------------------------------------------------------------------
\* The generation of new files.  Only whether two files are of one generation
\* matters, so the least is taken that no file is of any more.
Held(certs) == UNION { certs[m] : m \in Members }
InUse == Held(dir.certs) \union Held(dir.genesis) \union Held(release.certs)
         \union Held(release.genesis) \union Held(secret) \union Held(secretCache)
         \union UNION { Held(secretWatch[i]) : i \in DOMAIN secretWatch }
NewGeneration(g) ==
    /\ g \in Generations \ InUse
    /\ \A h \in Generations \ InUse : g <= h

\* cryptogen generate, and extend: what is there stays, what is missing is made.
Generated(g) == [m \in Members |-> IF m \in copy.wanted THEN {g} ELSE {}]
MadeAnew(certs, g) == [m \in Members |-> IF m \in copy.wanted THEN {g} ELSE certs[m]]
Extended(certs, g) ==
    [m \in Members |-> IF m \in copy.wanted /\ certs[m] = {} THEN {g} ELSE certs[m]]

\* uncompress: files of the archive are written over those of the directory
\* without truncating them, so of a `longer' one the tail is left.
Unpacked(certs, archive, longer) ==
    [m \in Members |-> CASE archive[m] = {} -> certs[m]
                         [] archive[m] # {} /\ m \in longer -> certs[m] \union archive[m]
                         [] OTHER -> archive[m]]

-----------------------------------------------------------------------------
\* The user and the provider of the secret (often the same), who supplies the
\* certificates of a new organization before adding it.
Written(network) ==
    /\ net' = network /\ watch' = Append(watch, network)
    /\ UNCHANGED cache

Settled == net.state = "Ready" /\ net.observed = net.wanted

Edit ==
    /\ edits > 0 /\ edits' = edits - 1
    /\ \E members \in (SUBSET Members) \ {{}, net.wanted} :
        /\ provided => members \subseteq Having(secret)
        /\ Written([net EXCEPT !.wanted = members])
    /\ patient' = (patient /\ Settled) /\ fresh' = FALSE
    /\ UNCHANGED <<provided, careful, supplies, secrets, queued, delayed, pc, copy, draft,
                   dir, release, crashes, faults>>

NeverStored(certs) == UNCHANGED secrets

\* An update that changes nothing makes no new version.
Stored(certs) ==
    /\ secret' = certs
    /\ secretWatch' = IF certs = secret THEN secretWatch ELSE Append(secretWatch, certs)
    /\ UNCHANGED secretCache

Supply(m) ==
    /\ provided /\ supplies > 0 /\ supplies' = supplies - 1
    /\ \E g \in Generations : NewGeneration(g) /\ Stored([secret EXCEPT ![m] = {g}])
    /\ careful' = (careful /\ secret[m] = {})
    /\ UNCHANGED <<provided, patient, edits, resource, queued, delayed, worker, dir, release,
                   crashes, faults>>

-----------------------------------------------------------------------------
\* Informers, work queue and the worker's control flow, as in Reconciler.
Deliver ==
    /\ watch # <<>>
    /\ cache' = Head(watch) /\ watch' = Tail(watch) /\ queued' = TRUE
    /\ UNCHANGED <<user, net, secrets, delayed, worker, dir, release, crashes, faults>>

DeliverSecret ==
    /\ secretWatch # <<>>
    /\ secretCache' = Head(secretWatch) /\ secretWatch' = Tail(secretWatch)
    /\ UNCHANGED <<user, resource, secret, queued, delayed, worker, dir, release, crashes, faults>>

TimerFires ==
    /\ delayed
    /\ delayed' = FALSE /\ queued' = TRUE
    /\ UNCHANGED <<user, resource, secrets, worker, dir, release, crashes, faults>>

Fault == faults > 0 /\ faults' = faults - 1

Return(retry) ==
    /\ pc' = "idle" /\ copy' = Blank /\ fresh' = FALSE /\ draft' = NoDraft
    /\ delayed' = (delayed \/ retry)

Goto(step) == pc' = step /\ UNCHANGED <<copy, fresh, draft, delayed>>

Save(state, observed, checked, then) ==
    /\ pc' = "save"
    /\ draft' = [state |-> state, observed |-> observed, checked |-> checked, then |-> then]
    /\ UNCHANGED <<copy, fresh, delayed>>

Begin ==
    /\ pc = "idle" /\ queued
    /\ queued' = FALSE /\ pc' = "handle"
    /\ copy' = cache /\ fresh' = (watch = <<>>)
    /\ UNCHANGED <<user, resource, secrets, delayed, draft, dir, release, crashes, faults>>

-----------------------------------------------------------------------------
\* The chart directory with values files written, certificates and genesis block.
Built(certs, genesis) ==
    [present |-> TRUE, members |-> copy.wanted, certs |-> certs, genesis |-> genesis]
Bare == [NoDir EXCEPT !.present = TRUE]

\* What an unpacking that fails has written so far.
PartlyUnpacked(certs, archive) ==
    { Unpacked(certs, Only(done, archive), longer) :
        done \in SUBSET Members, longer \in SUBSET Having(certs) }

WithoutGenesis == Built(secretCache, NoCertificates)
Downloaded == Built(secretCache, release.genesis)

\* A lost directory is reconstructed from the stored certificates and from the
\* genesis block of the release.  What a failure leaves passes for a directory.
Reconstruct ==
    /\ pc = "handle" /\ ~dir.present
    /\ \/ /\ secretCache # NoCertificates /\ release.installed
          /\ dir' = Downloaded
          /\ Goto("handle")
          /\ UNCHANGED faults
       \/ /\ secretCache = NoCertificates \/ ~release.installed
          /\ dir' = Built(secretCache, NoCertificates)
          /\ Return(TRUE)
          /\ UNCHANGED faults
       \/ /\ Fault
          /\ \/ dir' = Bare
             \/ \E some \in PartlyUnpacked(NoCertificates, secretCache) :
                    dir' = Built(some, NoCertificates)
          /\ Return(TRUE)
    /\ UNCHANGED <<user, resource, secrets, queued, release, crashes>>

Handling(state) == pc = "handle" /\ dir.present /\ copy.state = state

\* New, first part: the release of the network is uninstalled.
Teardown ==
    /\ Handling("New")
    /\ release' = NoRelease
    /\ Goto("prepare")
    /\ UNCHANGED <<user, resource, secrets, queued, dir, crashes, faults>>

CreatesAlways == secret = NoCertificates

\* storeCryptoConfig asks the cache whether the secret exists, and then creates
\* it or updates it, which the server refuses if it knows better.
CanStore == (secretCache = NoCertificates) <=> (secret = NoCertificates)

\* Second part: build the directory, generate and store certificates or unpack
\* the provided ones, and make the genesis block of them.
PrepareOwn ==
    /\ ~provided
    /\ \E g \in Generations :
        /\ NewGeneration(g)
        /\ \/ /\ CanStore
              /\ Stored(Generated(g))
              /\ dir' = Built(Generated(g), Generated(g))
              /\ Goto("install")
              /\ UNCHANGED faults
           \/ /\ ~CanStore
              /\ dir' = Built(Generated(g), NoCertificates)
              /\ Return(TRUE)
              /\ UNCHANGED <<secrets, faults>>
           \/ /\ Fault
              /\ dir' = Built(Generated(g), NoCertificates)
              /\ (CanStore /\ Stored(Generated(g))) \/ UNCHANGED secrets
              /\ Return(TRUE)

\* configtxgen fails if certificates of a member are missing.
PrepareProvided ==
    /\ provided
    /\ \/ /\ copy.wanted \subseteq Having(secretCache)
          /\ dir' = Built(secretCache, Only(copy.wanted, secretCache))
          /\ Goto("install")
          /\ UNCHANGED faults
       \/ /\ ~(copy.wanted \subseteq Having(secretCache)) /\ UNCHANGED faults
          /\ dir' = Built(secretCache, NoCertificates)
          /\ Return(TRUE)
       \/ /\ Fault
          /\ \E some \in PartlyUnpacked(NoCertificates, secretCache) :
                dir' = Built(some, NoCertificates)
          /\ Return(TRUE)
    /\ UNCHANGED secrets

Prepare ==
    /\ pc = "prepare"
    /\ \/ PrepareOwn
       \/ PrepareProvided
       \/ Fault /\ dir' \in {NoDir, Bare} /\ Return(TRUE) /\ UNCHANGED secrets
    /\ UNCHANGED <<user, resource, queued, release, crashes>>

\* Helm deploys the files of the members in the values files.
Deployed == [installed |-> TRUE, certs |-> Only(dir.members, dir.certs),
             genesis |-> dir.genesis]

Install ==
    /\ pc = "install"
    /\ release' = Deployed
    /\ \/ Save("Installed", copy.observed, FALSE, "idle") /\ UNCHANGED faults
       \/ Fault /\ Return(TRUE)
    /\ UNCHANGED <<user, resource, secrets, queued, dir, crashes>>

HandleNeedsUpdate ==
    /\ Handling("NeedsUpdate")
    /\ \/ /\ release.installed /\ dir.members # {}
          /\ release' = Deployed
          /\ \/ Save("Installed", copy.observed, FALSE, "idle") /\ UNCHANGED faults
             \/ Fault /\ Return(TRUE)
       \/ /\ ~release.installed \/ dir.members = {}
          /\ Return(TRUE)
          /\ UNCHANGED <<release, faults>>
    /\ UNCHANGED <<user, resource, secrets, queued, dir, crashes>>

\* The pods are ready.  A change of organizations makes the network new again,
\* and the code goes on to the workflows all the same.
HandleInstalled ==
    /\ Handling("Installed")
    /\ IF copy.wanted # copy.observed
       THEN Save("New", copy.wanted, TRUE, "next")
       ELSE Goto("next")
    /\ UNCHANGED <<user, resource, secrets, queued, dir, release, crashes, faults>>

Misspelt ==
    /\ pc = "next"
    /\ Save("Redy", copy.observed, FALSE, "idle")
    /\ UNCHANGED <<user, resource, secrets, queued, dir, release, crashes, faults>>

NextFlow ==
    /\ pc = "next"
    /\ Save("Ready", copy.observed, FALSE, "idle")
    /\ UNCHANGED <<user, resource, secrets, queued, dir, release, crashes, faults>>

KeepsMembers(certs) == [dir EXCEPT !.certs = certs]

\* extendOrDownloadCertificates, after the values files are rewritten.  An error
\* is returned with whatever has been written, unpacked or stored by then.
Rebuilt(certs) == [dir EXCEPT !.members = copy.wanted, !.certs = certs]

ExtendOwn ==
    /\ ~provided
    /\ \E g \in Generations :
        LET certs == Extended(dir.certs, g) IN
        /\ NewGeneration(g)
        /\ dir' = Rebuilt(certs)
        /\ \/ /\ CanStore
              /\ Stored(certs)
              /\ Save("NeedsUpdate", copy.wanted, TRUE, "idle")
              /\ UNCHANGED faults
           \/ ~CanStore /\ Return(TRUE) /\ UNCHANGED <<secrets, faults>>
           \/ /\ Fault /\ Return(TRUE)
              /\ (CanStore /\ Stored(certs)) \/ UNCHANGED secrets

ExtendsProvided ==
    /\ provided
    /\ \E g \in Generations : NewGeneration(g) /\ dir' = Rebuilt(Extended(dir.certs, g))
    /\ Save("NeedsUpdate", copy.wanted, TRUE, "idle")
    /\ UNCHANGED <<secrets, faults>>

DownloadProvided ==
    /\ provided /\ UNCHANGED secrets
    /\ \/ /\ secretCache # NoCertificates
          /\ \E longer \in SUBSET Having(dir.certs) :
                dir' = Rebuilt(Unpacked(dir.certs, secretCache, longer))
          /\ Save("NeedsUpdate", copy.wanted, TRUE, "idle")
          /\ UNCHANGED faults
       \/ /\ Fault /\ Return(TRUE)
          /\ \E some \in PartlyUnpacked(dir.certs, secretCache) : dir' = Rebuilt(some)

HandleReady ==
    /\ Handling("Ready")
    /\ \/ /\ copy.wanted = copy.observed
          /\ Return(FALSE)
          /\ UNCHANGED <<secrets, dir, faults>>
       \/ copy.wanted # copy.observed /\ (ExtendOwn \/ DownloadProvided)
       \/ /\ copy.wanted # copy.observed
          /\ Fault /\ Return(TRUE)
          /\ dir' = Rebuilt(dir.certs)
          /\ UNCHANGED secrets
    /\ UNCHANGED <<user, resource, queued, release, crashes>>

SaveStatus ==
    /\ pc = "save"
    /\ \/ /\ fresh
          /\ LET saved == [net EXCEPT !.state = draft.state, !.observed = draft.observed] IN
             /\ Written(saved)
             /\ \/ draft.then = "idle" /\ Return(FALSE) /\ UNCHANGED faults
                \/ /\ draft.then = "next" /\ UNCHANGED faults
                   /\ pc' = "next" /\ copy' = saved /\ draft' = NoDraft
                   /\ UNCHANGED <<fresh, delayed>>
                \/ Fault /\ Return(draft.checked)      \* the reply is lost
       \/ ~fresh /\ Return(draft.checked) /\ UNCHANGED <<resource, faults>>
       \/ Fault /\ Return(draft.checked) /\ UNCHANGED resource
    /\ UNCHANGED <<user, secrets, queued, dir, release, crashes>>

\* A call that fails without effect; the error is returned.
CallFails ==
    /\ \/ \E state \in States \ {"Ready"} : Handling(state)
       \/ Handling("Ready") /\ copy.wanted # copy.observed
       \/ pc \in {"prepare", "install", "next"}
    /\ Fault /\ Return(TRUE)
    /\ UNCHANGED <<user, resource, secrets, queued, dir, release, crashes>>

\* The operator's pod is replaced, its directory with it; informers list anew.
Crash ==
    /\ crashes > 0 /\ crashes' = crashes - 1
    /\ pc' = "idle" /\ copy' = Blank /\ fresh' = FALSE /\ draft' = NoDraft
    /\ watch' = <<>> /\ cache' = net
    /\ secretWatch' = <<>> /\ secretCache' = secret
    /\ queued' = TRUE /\ delayed' = FALSE
    /\ dir' = NoDir
    /\ UNCHANGED <<user, net, secret, release, faults>>

-----------------------------------------------------------------------------
Worker ==
    \/ Begin \/ Reconstruct \/ Teardown \/ Prepare \/ Install \/ HandleNeedsUpdate
    \/ HandleInstalled \/ NextFlow \/ HandleReady \/ SaveStatus \/ CallFails

Next ==
    \/ Worker \/ Deliver \/ DeliverSecret \/ TimerFires \/ Crash
    \/ Edit \/ \E m \in Members : Supply(m)

Spec == Init /\ [][Next]_vars

\* The worker, the informers and the queue run.
Fairness ==
    WF_vars(Worker) /\ WF_vars(Deliver) /\ WF_vars(DeliverSecret) /\ WF_vars(TimerFires)

FairSpec == Spec /\ Fairness
=============================================================================
