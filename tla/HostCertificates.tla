-------------------------- MODULE HostCertificates --------------------------
(***************************************************************************)
(* The TLS certificates of a validator's or a seed's host: one for the     *)
(* RPC port of the daemon, which reads a copy in ~/cert, and one for the   *)
(* API behind nginx.  Two scripts of deploy/upload, lines of the inline    *)
(* script of configure_client, ask certbot for them; certbot's timer       *)
(* renews them by itself.  Terraform sees neither script's exit status.    *)
(***************************************************************************)
EXTENDS Integers

CONSTANTS
    Life,        \* how long a certificate is valid; it is due for renewal one before
    MaxTime, MaxConfigs, MaxFaults

ASSUME CertificateAssumption ==
    /\ Life \in Nat /\ Life > 1
    /\ MaxTime \in Nat /\ MaxConfigs \in Nat /\ MaxFaults \in Nat

VARIABLES
    now,
    cfg,         \* configure_client: "absent", "tainted" or "created"
    step,        \* the next command of the two scripts, or "idle"
    rpc, api,    \* certbot's two lineages: number and time of the last issue
    dir,         \* is there a ~/cert?
    chain, key,  \* the issue its two files are copies of, or 0
    readable,    \* do they belong to the user the daemon runs as?
    nginx,       \* "absent", "down" or "up"
    site,        \* the default site: nginx's own, the template, or with TLS
    first,       \* history: the issue that was first copied
    failed,      \* history: did the last run of the nginx script fail?
    configs, faults

cert == <<rpc, api>>
copy == <<dir, chain, key, readable, first>>
web  == <<nginx, site, failed>>
vars == <<now, cfg, step, cert, copy, web, configs, faults>>

Steps == {"idle", "issue", "mkdir", "chain", "key", "chown",
          "install", "kill", "site", "deploy", "restart", "rest"}
NotIssued == [no |-> 0, at |-> 0]

Init ==
    /\ now = 0 /\ cfg = "absent" /\ step = "idle"
    /\ rpc = NotIssued /\ api = NotIssued
    /\ dir = FALSE /\ chain = 0 /\ key = 0 /\ readable = FALSE /\ first = 0
    /\ nginx = "absent" /\ site = "none" /\ failed = FALSE
    /\ configs = 0 /\ faults = 0

Fault     == faults < MaxFaults /\ faults' = faults + 1
Go(s, t)  == step = s /\ step' = t
Due(c)    == c.no = 0 \/ now >= c.at + Life - 1
Issued(c) == [no |-> c.no + 1, at |-> now]

---------------------------------------------------------------------------
(* install-generic-cert.sh, under set -e: what fails ends it, and the inline *)
(* script goes on with install-nginx-cert.sh.                                *)

Configure ==
    /\ Go("idle", "issue") /\ configs < MaxConfigs
    /\ configs' = configs + 1 /\ cfg' = "tainted"
    /\ UNCHANGED <<now, cert, copy, web, faults>>

\* certbot keeps a certificate that is not due; otherwise its own web server needs port 80.
Issue ==
    /\ Go("issue", "mkdir") /\ (Due(rpc) => nginx # "up")
    /\ rpc' = IF Due(rpc) THEN Issued(rpc) ELSE rpc
    /\ UNCHANGED <<now, cfg, api, copy, web, configs, faults>>

IssueFails ==
    /\ Go("issue", "install")
    /\ IF Due(rpc) /\ nginx = "up" THEN UNCHANGED faults ELSE Fault
    /\ UNCHANGED <<now, cfg, cert, copy, web, configs>>

\* Defect: mkdir -p, so that a later configuration copies again.
Mkdir_Parents ==
    /\ Go("mkdir", "chain") /\ dir' = TRUE
    /\ UNCHANGED <<now, cfg, cert, chain, key, readable, first, web, configs, faults>>

\* mkdir without -p fails when there is a directory.
Mkdir ==
    /\ step = "mkdir"
    /\ step' = IF dir THEN "install" ELSE "chain"
    /\ dir' = TRUE
    /\ UNCHANGED <<now, cfg, cert, chain, key, readable, first, web, configs, faults>>

CopyChain ==
    /\ Go("chain", "key") /\ chain' = rpc.no
    /\ first' = IF first = 0 THEN rpc.no ELSE first
    /\ UNCHANGED <<now, cfg, cert, dir, key, readable, web, configs, faults>>

\* The copy belongs to root until the next command.
CopyKey ==
    /\ Go("key", "chown") /\ key' = rpc.no /\ readable' = FALSE
    /\ UNCHANGED <<now, cfg, cert, dir, chain, first, web, configs, faults>>

Chown ==
    /\ Go("chown", "install") /\ readable' = TRUE
    /\ UNCHANGED <<now, cfg, cert, dir, chain, key, first, web, configs, faults>>

---------------------------------------------------------------------------
(* install-nginx-cert.sh, and the rest of configure_client. *)

\* The package starts nginx on its own site.
InstallNginx ==
    /\ Go("install", "kill")
    /\ IF nginx = "absent" THEN nginx' = "up" /\ site' = "own" ELSE UNCHANGED <<nginx, site>>
    /\ UNCHANGED <<now, cfg, cert, copy, failed, configs, faults>>

\* apt fails: nothing of this script is done.
InstallFails ==
    /\ Go("install", "rest") /\ Fault
    /\ failed' = TRUE
    /\ UNCHANGED <<now, cfg, cert, copy, nginx, site, configs>>

KillNginx ==
    /\ Go("kill", "site") /\ nginx' = "down"
    /\ UNCHANGED <<now, cfg, cert, copy, site, failed, configs, faults>>

PlainSite ==
    /\ Go("site", "deploy") /\ site' = "plain"
    /\ UNCHANGED <<now, cfg, cert, copy, nginx, failed, configs, faults>>

\* Defect: certonly, which leaves the site as it is.
Deploy_CertOnly ==
    /\ Go("deploy", "restart")
    /\ api' = IF Due(api) THEN Issued(api) ELSE api
    /\ failed' = FALSE
    /\ UNCHANGED <<now, cfg, rpc, copy, nginx, site, configs, faults>>

\* certbot --nginx starts nginx, takes or keeps the certificate and puts it in the site.
Deploy ==
    /\ Go("deploy", "restart")
    /\ api' = IF Due(api) THEN Issued(api) ELSE api
    /\ nginx' = "up" /\ site' = "tls" /\ failed' = FALSE
    /\ UNCHANGED <<now, cfg, rpc, copy, configs, faults>>

\* It fails, before or after it has started nginx, and the script ends there.
DeployFails(state) ==
    /\ Go("deploy", "rest") /\ Fault
    /\ nginx' = state /\ failed' = TRUE
    /\ UNCHANGED <<now, cfg, cert, copy, site, configs>>

\* If systemd cannot start it because the one certbot started is there, that one stays.
RestartNginx ==
    /\ Go("restart", "rest") /\ nginx' = "up"
    /\ UNCHANGED <<now, cfg, cert, copy, site, failed, configs, faults>>

\* The scripts that follow succeed: Terraform holds the host for configured.
Finish ==
    /\ Go("rest", "idle") /\ cfg' = "created"
    /\ UNCHANGED <<now, cert, copy, web, configs, faults>>

---------------------------------------------------------------------------
(* The world around. *)

\* The connection breaks and the command that would have come next never runs.
Drop ==
    /\ step # "idle" /\ step' = "idle" /\ Fault
    /\ UNCHANGED <<now, cfg, cert, copy, web, configs>>

\* nginx is enabled; a script under way is gone.
Reboot ==
    /\ Fault /\ step' = "idle"
    /\ nginx' = IF nginx = "absent" THEN "absent" ELSE "up"
    /\ UNCHANGED <<now, cfg, cert, copy, site, failed, configs>>

\* Scripts take minutes and certificates last for months.
Tick ==
    /\ step = "idle" /\ now < MaxTime /\ now' = now + 1
    /\ UNCHANGED <<cfg, step, cert, copy, web, configs, faults>>

\* certbot's timer renews each lineage in the way it was issued.
RenewRpc ==
    /\ rpc.no # 0 /\ Due(rpc) /\ nginx # "up"
    /\ rpc' = Issued(rpc)
    /\ UNCHANGED <<now, cfg, step, api, copy, web, configs, faults>>

RenewApi ==
    /\ api.no # 0 /\ Due(api) /\ nginx = "up"
    /\ api' = Issued(api)
    /\ UNCHANGED <<now, cfg, step, rpc, copy, web, configs, faults>>

Next ==
    \/ Configure \/ Issue \/ IssueFails \/ Mkdir \/ CopyChain \/ CopyKey \/ Chown
    \/ InstallNginx \/ InstallFails \/ KillNginx \/ PlainSite \/ Deploy
    \/ \E state \in {"up", "down"} : DeployFails(state)
    \/ RestartNginx \/ Finish
    \/ Drop \/ Reboot \/ Tick \/ RenewRpc \/ RenewApi

Spec == Init /\ [][Next]_vars

---------------------------------------------------------------------------
(* Properties. *)

CertTypeOK ==
    /\ cfg \in {"absent", "tainted", "created"} /\ step \in Steps
    /\ rpc \in [no : Nat, at : Nat] /\ api \in [no : Nat, at : Nat]
    /\ now \in Nat /\ chain \in Nat /\ key \in Nat /\ first \in Nat
    /\ dir \in BOOLEAN /\ readable \in BOOLEAN /\ failed \in BOOLEAN
    /\ nginx \in {"absent", "down", "up"} /\ site \in {"none", "own", "plain", "tls"}
    /\ configs \in 0 .. MaxConfigs /\ faults \in 0 .. MaxFaults

\* The daemon's key is that of its chain, however configurations break off and repeat and
\* certbot renews meanwhile: both are of the first issue ever copied, and stay it, also
\* when that has expired.
CopyIsFirst == key # 0 => key = chain /\ chain = first

\* On a configured host the API is served with TLS by a certificate of its own, unless
\* the nginx script failed in the last configuration: no half-way state of a configuration that
\* broke off survives the one that stands.
ApiServesTls == cfg = "created" /\ ~failed => nginx = "up" /\ site = "tls" /\ api.no # 0
=============================================================================
