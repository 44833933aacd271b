----------------------- MODULE HostCertificatesProofs -----------------------
(***************************************************************************)
(* What HostCertificates promises for certificates of any life and every   *)
(* number of configurations and faults.                                    *)
(***************************************************************************)
EXTENDS HostCertificates, TLAPS

\* How far install-generic-cert.sh has come shows in the copy.  A certificate that
\* certbot has just issued or kept is not due while it is being copied, so that the
\* timer does not come between the copies of its two files.
CopyInv ==
    /\ chain = first
    /\ key # 0 => key = chain
    /\ ~dir => chain = 0 /\ key = 0
    /\ step \in {"mkdir", "chain", "key"} => ~Due(rpc)
    /\ step \in {"chain", "key"} => dir /\ key = 0
    /\ step = "chain" => chain = 0
    /\ step = "key" => chain = rpc.no

\* A configuration under way has tainted its resource; past the restart of nginx the
\* site is served, or this configuration has failed to install it.
WebInv ==
    /\ step # "idle" => cfg = "tainted"
    /\ step = "restart" => site = "tls" /\ api.no # 0 /\ ~failed
    /\ step = "rest" /\ ~failed => nginx = "up" /\ site = "tls" /\ api.no # 0
    /\ ApiServesTls

IInv == CertTypeOK /\ CopyInv /\ WebInv

---------------------------------------------------------------------------
\* The invariant holds of a host that is not configured.
LEMMA InitInv == Init => IInv
<1> SUFFICES ASSUME Init PROVE IInv
    OBVIOUS
<1>1. dir \in BOOLEAN /\ readable \in BOOLEAN /\ failed \in BOOLEAN
    BY Zenon DEF Init
<1>2. CertTypeOK
    BY <1>1, CertificateAssumption DEF Init, CertTypeOK, Steps, NotIssued
<1>3. CopyInv /\ WebInv
    BY DEF Init, CopyInv, WebInv, ApiServesTls
<1> QED
    BY <1>2, <1>3 DEF IInv

\* A new issue is one of its kind, and is not due.
LEMMA IssuedFresh ==
    ASSUME CertTypeOK, NEW c \in [no : Nat, at : Nat]
    PROVE  /\ Issued(c) \in [no : Nat, at : Nat] /\ Issued(c).no = c.no + 1
           /\ ~Due(Issued(c))
    BY CertificateAssumption DEF CertTypeOK, Issued, Due

\* install-generic-cert.sh keeps it.
LEMMA GenericStep ==
    ASSUME IInv, Configure \/ Issue \/ IssueFails \/ Mkdir \/ CopyChain \/ CopyKey \/ Chown
    PROVE  IInv'
<1> USE DEF IInv, copy, web, cert
<1>1. CASE Configure
    BY <1>1, CertificateAssumption
       DEF Configure, Go, CertTypeOK, CopyInv, WebInv, ApiServesTls, Steps
<1>2. CASE Issue
  <2>1. /\ rpc' \in [no : Nat, at : Nat] /\ ~Due(rpc')
        /\ step = "issue" /\ step' = "mkdir"
        /\ UNCHANGED <<now, cfg, api, copy, web, configs, faults>>
    BY <1>2, IssuedFresh DEF Issue, Go, CertTypeOK
  <2>2. ~Due(rpc)'
    BY <2>1 DEF Due
  <2> QED
    BY <2>1, <2>2 DEF CertTypeOK, CopyInv, WebInv, ApiServesTls, Steps
<1>3. CASE IssueFails
    BY <1>3, CertificateAssumption
       DEF IssueFails, Go, Fault, CertTypeOK, CopyInv, WebInv, ApiServesTls, Steps
<1>4. CASE Mkdir
    BY <1>4 DEF Mkdir, CertTypeOK, CopyInv, WebInv, ApiServesTls, Steps, Due
<1>5. CASE CopyChain
    BY <1>5 DEF CopyChain, Go, CertTypeOK, CopyInv, WebInv, ApiServesTls, Steps, Due
<1>6. CASE CopyKey
    BY <1>6 DEF CopyKey, Go, CertTypeOK, CopyInv, WebInv, ApiServesTls, Steps
<1>7. CASE Chown
    BY <1>7 DEF Chown, Go, CertTypeOK, CopyInv, WebInv, ApiServesTls, Steps
<1> QED
    BY <1>1, <1>2, <1>3, <1>4, <1>5, <1>6, <1>7

\* install-nginx-cert.sh and what follows it keep it: none of them touches the copy.
LEMMA NginxStep ==
    ASSUME IInv,
           \/ InstallNginx \/ InstallFails \/ KillNginx \/ PlainSite \/ Deploy
           \/ \E state \in {"up", "down"} : DeployFails(state)
           \/ RestartNginx \/ Finish
    PROVE  IInv'
<1> USE DEF IInv, copy, web, cert
<1>1. CopyInv'
    BY DEF InstallNginx, InstallFails, KillNginx, PlainSite, Deploy, DeployFails,
           RestartNginx, Finish, Go, CopyInv
<1>2. CertTypeOK' /\ WebInv'
  <2>1. CASE InstallNginx \/ KillNginx \/ PlainSite \/ RestartNginx \/ Finish
      BY <2>1 DEF InstallNginx, KillNginx, PlainSite, RestartNginx, Finish, Go,
                  CertTypeOK, WebInv, ApiServesTls, Steps
  <2>2. CASE InstallFails
      BY <2>2, CertificateAssumption
         DEF InstallFails, Go, Fault, CertTypeOK, WebInv, ApiServesTls, Steps
  <2>3. CASE Deploy
    <3>1. api' \in [no : Nat, at : Nat] /\ api'.no # 0
      BY <2>3, IssuedFresh DEF Deploy, CertTypeOK, Due
    <3> QED
      BY <2>3, <3>1 DEF Deploy, Go, CertTypeOK, WebInv, ApiServesTls, Steps
  <2>4. CASE \E state \in {"up", "down"} : DeployFails(state)
      BY <2>4, CertificateAssumption
         DEF DeployFails, Go, Fault, CertTypeOK, WebInv, ApiServesTls, Steps
  <2> QED
      BY <2>1, <2>2, <2>3, <2>4
<1> QED
    BY <1>1, <1>2

\* So does what happens around the scripts.
LEMMA WorldStep ==
    ASSUME IInv, Drop \/ Reboot \/ Tick \/ RenewRpc \/ RenewApi
    PROVE  IInv'
<1> USE DEF IInv, copy, web, cert
<1>1. CASE Drop
    BY <1>1, CertificateAssumption
       DEF Drop, Fault, CertTypeOK, CopyInv, WebInv, ApiServesTls, Steps
<1>2. CASE Reboot
    BY <1>2, CertificateAssumption
       DEF Reboot, Fault, CertTypeOK, CopyInv, WebInv, ApiServesTls, Steps
<1>3. CASE Tick
    BY <1>3 DEF Tick, CertTypeOK, CopyInv, WebInv, ApiServesTls, Steps
<1>4. CASE RenewRpc
  <2>1. rpc' \in [no : Nat, at : Nat] /\ step \notin {"mkdir", "chain", "key"}
    BY <1>4, IssuedFresh DEF RenewRpc, CertTypeOK, CopyInv
  <2> QED
    BY <1>4, <2>1 DEF RenewRpc, CertTypeOK, CopyInv, WebInv, ApiServesTls
<1>5. CASE RenewApi
  <2>1. api' \in [no : Nat, at : Nat] /\ api'.no # 0
    BY <1>5, IssuedFresh DEF RenewApi, CertTypeOK
  <2> QED
    BY <1>5, <2>1 DEF RenewApi, CertTypeOK, CopyInv, WebInv, ApiServesTls, Due
<1> QED
    BY <1>1, <1>2, <1>3, <1>4, <1>5

\* The invariant is inductive.
LEMMA NextInv == IInv /\ [Next]_vars => IInv'
<1>1. IInv /\ UNCHANGED vars => IInv'
    BY DEF vars, cert, copy, web, IInv, CertTypeOK, CopyInv, WebInv, ApiServesTls, Due
<1> QED
    BY <1>1, GenericStep, NginxStep, WorldStep DEF Next

LEMMA Invariance == Spec => []IInv
<1> QED
    BY InitInv, NextInv, PTL DEF Spec

---------------------------------------------------------------------------
\* The variables keep their types.
THEOREM TypeCorrect == Spec => []CertTypeOK
<1>1. IInv => CertTypeOK
    BY DEF IInv
<1> QED
    BY <1>1, Invariance, PTL

\* The daemon's key and chain are never of two issues, and both stay the first one that
\* was copied (install-generic-cert.sh:11).
THEOREM FirstCopyStays == Spec => []CopyIsFirst
<1>1. IInv => CopyIsFirst
    BY DEF IInv, CopyInv, CopyIsFirst
<1> QED
    BY <1>1, Invariance, PTL

\* A configured host whose nginx script went through serves the API with TLS.
THEOREM ServesTls == Spec => []ApiServesTls
<1>1. IInv => ApiServesTls
    BY DEF IInv, WebInv
<1> QED
    BY <1>1, Invariance, PTL
=============================================================================
