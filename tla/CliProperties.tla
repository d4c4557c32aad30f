---------------------------- MODULE CliProperties ---------------------------
(***************************************************************************)
(* What users of the command line tool may rely on when commands fail half *)
(* way, and where they may rely on it only while nobody interferes.        *)
(***************************************************************************)
EXTENDS Cli

\* Type invariant of the resources in the API server and of the commands.
CliOK ==
    /\ networks \in [Names -> Files \union {NoFile}]
    /\ res \in [Keys -> Resources]
    /\ cmd \in [Users -> Commands]
    /\ current \in SUBSET Users
    /\ last \in {"none", "ok", "failed"}
    /\ hand \in Names \union {None, Gone}
    /\ calm \in BOOLEAN
    /\ commands \in 0..MaxCommands /\ faults \in 0..MaxFaults

Needs(file) ==
    {"configtx"} \union (IF file.crypto = "" THEN {} ELSE {"crypto"})
    \union (IF file.genesis THEN {"genesis"} ELSE {})
    \union { LowerCase[file.chaincodes[i]] : i \in DOMAIN file.chaincodes }
HasAll(n) == networks[n] # NoFile /\ \A k \in Needs(networks[n]) : Present(k)

\* A network in the API server has all it refers to, whichever call of whichever
\* command failed or seemed to fail: parts are uploaded before the network is
\* submitted, and removed after it.  True as long as commands do not overlap.
Complete == calm => \A n \in Names : networks[n] # NoFile => HasAll(n)

\* After a command has succeeded, the parts its network's file uploads are those of
\* that file, also where an earlier command had left others or had failed.
Coherent ==
    calm /\ last = "ok" /\ NobodyBusy =>
        \A n \in Names : networks[n] # NoFile =>
            \A i \in DOMAIN Uploads(networks[n]) :
                res[Key(Uploads(networks[n])[i])].edition = networks[n].edition

\* Without --overwrite, create replaces no config map that exists, not even one that
\* was made after it looked, and no secret unless somebody else made it meanwhile.
Replaces(u, k) == cmd[u].pc = "write" /\ cmd'[u] # cmd[u] /\ Present(k) /\ res'[k] # res[k]
KeepsExisting ==
    [][\A u \in Users, k \in Keys :
        Replaces(u, k) /\ cmd[u].kind = "create" /\ ~cmd[u].flag => k \in Secrets /\ ~calm]_vars

\* When delete without --keep-resources succeeds, nothing of the network is left but
\* what the garbage collector takes: what the tool uploaded is labelled, what the
\* operator made is owned, and nothing is neither.
DeleteCleans ==
    [][\A u \in Users :
        calm /\ cmd[u].kind = "delete" /\ ~cmd[u].flag /\ ~Idle(u) /\ cmd'[u].pc = "idle"
             /\ last' = "ok" =>
          \A k \in Keys :
            Present(k)' => res'[k].label # cmd[u].name /\ res'[k].owner # cmd[u].name
                           /\ (res'[k].edition # 0 => res'[k].label # None)]_vars

\* A user who goes on trying ends with a network that has all it needs, whatever
\* earlier commands have left behind half way.
RetrySucceeds == <>[](calm => \E n \in Names : HasAll(n))
=============================================================================
