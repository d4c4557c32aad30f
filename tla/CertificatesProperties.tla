----------------------- MODULE CertificatesProperties -----------------------
(***************************************************************************)
(* What the organizations of a network may rely on as to their             *)
(* certificates, and what the documentation says of them.                  *)
(***************************************************************************)
EXTENDS Certificates

\* Type invariant of the certificates in every place they are kept, and of the
\* worker that carries them.
PlacesOK ==
    /\ secret \in Certificates /\ secretCache \in Certificates
    /\ secretWatch \in Seq(Certificates)
    /\ dir \in Dirs /\ release \in Releases
NetworksOK == net \in Networks /\ cache \in Networks /\ watch \in Seq(Networks)
WorkerOK ==
    /\ queued \in BOOLEAN /\ delayed \in BOOLEAN
    /\ pc \in {"idle", "handle", "prepare", "install", "next", "save"}
    /\ copy \in Networks /\ fresh \in BOOLEAN /\ draft \in Drafts
UserOK ==
    /\ provided \in BOOLEAN /\ patient \in BOOLEAN /\ careful \in BOOLEAN
    /\ edits \in 0..MaxEdits /\ supplies \in 0..MaxSupplies
FailuresOK == crashes \in 0..MaxCrashes /\ faults \in 0..MaxFaults
CertificatesOK == PlacesOK /\ NetworksOK /\ WorkerOK /\ UserOK /\ FailuresOK

NeverCrashed == crashes = MaxCrashes
NeverFailed == faults = MaxFaults

\* A restart and a failing call have not come together.
Steady == NeverCrashed \/ NeverFailed

\* Members that stay deployed keep their certificates.
Keeping ==
    release.installed /\ release'.installed =>
        \A m \in Having(release.certs) \intersect dir.members :
            release'.certs[m] = release.certs[m]

\* While a network is installed the certificates of its members are only ever
\* extended by those of new ones: neither a lost directory nor a failing call, a
\* stale secret or an edit at an awkward moment replaces or drops any.
OnlyExtended == [][Steady' /\ careful => Keeping]_vars

\* The genesis block the network is deployed with was made of the certificates
\* it is deployed with, also after it was downloaded into a new directory.
GenesisMatches ==
    release.installed /\ Steady /\ careful =>
        /\ release.genesis # NoCertificates
        /\ \A m \in Having(release.genesis) \intersect Having(release.certs) :
                release.genesis[m] = release.certs[m]

\* What is deployed has been stored before and stays stored: a restarted operator
\* finds it.
Restorable ==
    release.installed /\ Steady /\ careful =>
        \A m \in Having(release.certs) : secret[m] = release.certs[m]

\* Certificates of a provider who adds and never replaces files are never made
\* up, mixed or altered, in whatever place they are copied to.
FromProvider(certs) == \A m \in Having(certs) : certs[m] = secret[m]
ProvidersOwn ==
    provided /\ careful =>
        /\ FromProvider(secretCache)
        /\ \A i \in DOMAIN secretWatch : FromProvider(secretWatch[i])
        /\ FromProvider(dir.certs) /\ FromProvider(dir.genesis)
        /\ FromProvider(release.certs) /\ FromProvider(release.genesis)

\* A network reported Ready with nothing left to apply has certificates of all
\* its organizations deployed.
Equipped ==
    ~provided /\ patient /\ Steady /\ Settled => net.wanted \subseteq Having(release.certs)

\* Unless a call fails, the organizations a patient user wants last get their
\* certificates, also if the operator is restarted while they are made.
Equips ==
    <>[](~provided /\ patient /\ NeverFailed => net.wanted \subseteq Having(release.certs))

\* docs/state-diagram.txt:55: when organizations change in a Ready network,
\* "Download or extend certificates".
ExtendsOnly == [][~provided => Keeping]_vars
=============================================================================
