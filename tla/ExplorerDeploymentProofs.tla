--------------------- MODULE ExplorerDeploymentProofs ---------------------
(***************************************************************************)
(* What ExplorerDeployment promises for every number of edits, pulls and   *)
(* faults.                                                                  *)
(***************************************************************************)
EXTENDS ExplorerDeployment, TLAPS

\* How far the script has come shows in the checkout.
ScriptInv ==
    /\ cfg \in Steps \ {"clone"} => cloned
    /\ cfg = "upper" => "lower" \notin text
    /\ cfg = "title" => "lower" \notin text /\ "upper" \notin text
    /\ cfg \in {"rename", "build", "unit", "created"} => text = {}
    /\ cfg \in {"build", "unit"} => renamed /\ configured = 0
    /\ cfg = "unit" => built
    /\ cfg = "created" => configured = 1

\* A host has a unit if and only if the script was completed once, and keeps
\* what was completed until the instance goes.
HostInv ==
    /\ configured \in {0, 1}
    /\ configured = 0 <=> unit = "none"
    /\ configured = 1 => cloned /\ renamed /\ built /\ (text = {} \/ pulled)
    /\ ~wanted => cfg = "absent"

IInv == ExplorerTypeOK /\ ScriptInv /\ HostInv

---------------------------------------------------------------------------
\* The invariant holds of an empty Terraform state.
LEMMA InitInv == Init => IInv
<1> SUFFICES ASSUME Init PROVE IInv
    OBVIOUS
<1>1. ExplorerTypeOK
  <2>1. /\ wanted \in BOOLEAN /\ applying \in BOOLEAN /\ cloned \in BOOLEAN
        /\ renamed \in BOOLEAN /\ built \in BOOLEAN /\ enabled \in BOOLEAN
        /\ faulted \in BOOLEAN /\ pulled \in BOOLEAN
    BY Zenon DEF Init
  <2> QED
    BY <2>1, ExplorerAssumption DEF Init, ExplorerTypeOK
<1>2. ScriptInv
    BY DEF Init, ScriptInv, Steps, Spellings
<1>3. HostInv
    BY DEF Init, HostInv
<1> QED
    BY <1>1, <1>2, <1>3 DEF IInv

\* What Terraform and the operator do keeps it.
LEMMA TerraformStep ==
    ASSUME IInv, Operator \/ Terminate \/ EndApply
    PROVE  IInv'
<1> USE DEF IInv
<1>1. CASE Operator
  <2>1. PICK create \in BOOLEAN, v \in {version, version + 1} :
            v <= MaxEdits /\ Apply(create, v)
    BY <1>1 DEF Operator
  <2>2. /\ wanted' = create /\ version' = v
        /\ cfg' \in {"absent", cfg} /\ (~create => cfg' = "absent")
        /\ start' \in {"absent", start} /\ applying' = TRUE /\ faulted' = FALSE
        /\ UNCHANGED <<cfgVersion, treeVars, unitVars, pulls, faults, pulled, configured>>
    BY <2>1 DEF Apply
  <2>3. ExplorerTypeOK'
    <3>1. wanted' \in BOOLEAN /\ applying' \in BOOLEAN /\ faulted' \in BOOLEAN
      BY <2>1, <2>2, Zenon
    <3> QED
      BY <2>1, <2>2, <3>1, ExplorerAssumption
         DEF ExplorerTypeOK, Steps, Spellings, treeVars, unitVars
  <2>4. ScriptInv'
    BY <2>2 DEF ScriptInv, Steps, Spellings, treeVars, unitVars
  <2>5. HostInv'
    BY <2>2 DEF HostInv, treeVars, unitVars
  <2> QED
    BY <2>3, <2>4, <2>5
<1>2. CASE Terminate
  <2>1. ExplorerTypeOK'
    BY <1>2 DEF Terminate, tfVars, ExplorerTypeOK
  <2>2. cfg' = "absent" /\ ~wanted
    BY <1>2 DEF Terminate, tfVars, HostInv
  <2>3. ScriptInv'
    BY <2>2 DEF ScriptInv, Steps, Spellings
  <2>4. HostInv'
    BY <1>2, <2>2 DEF Terminate, tfVars, HostInv
  <2> QED
    BY <2>1, <2>3, <2>4
<1>3. CASE EndApply
  <2>1. UNCHANGED <<wanted, version, cfg, cfgVersion, start, treeVars, unitVars, pulls,
                    faults, faulted, pulled, configured>> /\ applying' = FALSE
    BY <1>3 DEF EndApply
  <2>2. ExplorerTypeOK'
    <3>1. applying' \in BOOLEAN
      BY <2>1, Zenon
    <3> QED
      BY <2>1, <3>1 DEF ExplorerTypeOK, Steps, treeVars, unitVars
  <2>3. ScriptInv' /\ HostInv'
    BY <2>1 DEF ScriptInv, HostInv, treeVars, unitVars
  <2> QED
    BY <2>2, <2>3
<1> QED
  BY <1>1, <1>2, <1>3

\* So does every step of the configuration.
LEMMA ConfigureStep ==
    ASSUME IInv, Configure
    PROVE  IInv'
<1> USE DEF IInv, ExplorerTypeOK, ScriptInv, HostInv, Steps, Spellings,
            treeVars, ConfigStep
<1>1. CASE Upload
  BY <1>1 DEF Upload
<1>2. CASE Clone
  BY <1>2 DEF Clone
<1>3. ASSUME NEW news \in SUBSET Spellings, Pull(news) PROVE IInv'
  BY <1>3, ExplorerAssumption DEF Pull
<1>4. ASSUME NEW spelling \in Spellings, Replace(spelling) PROVE IInv'
  <2>1. CASE spelling = "lower"
    BY <1>4, <2>1 DEF Replace, After
  <2>2. CASE spelling = "upper"
    BY <1>4, <2>2 DEF Replace, After
  <2>3. CASE spelling = "title"
    BY <1>4, <2>3 DEF Replace, After
  <2> QED
    BY <2>1, <2>2, <2>3
<1>5. CASE Rename
  BY <1>5 DEF Rename
<1>6. CASE Build
  BY <1>6 DEF Build
<1>7. CASE InstallUnit
  BY <1>7 DEF InstallUnit
<1> QED
  BY <1>1, <1>2, <1>3, <1>4, <1>5, <1>6, <1>7 DEF Configure

\* So do the service and what goes wrong.
LEMMA HostStep ==
    ASSUME IInv, StartExplorer \/ RestartAfterFailure \/ Mishap
    PROVE  IInv'
<1> USE ExplorerAssumption
    DEF IInv, ExplorerTypeOK, ScriptInv, HostInv, Steps, Spellings,
        treeVars, unitVars, tfVars, Fault
<1>1. CASE StartExplorer
  BY <1>1 DEF StartExplorer
<1>2. CASE RestartAfterFailure
  BY <1>2 DEF RestartAfterFailure
<1>3. CASE FailConfigure
  BY <1>3 DEF FailConfigure
<1>4. CASE DropStart
  BY <1>4 DEF DropStart
<1>5. CASE Crash
  BY <1>5 DEF Crash
<1>6. CASE Reboot
  BY <1>6 DEF Reboot
<1> QED
  BY <1>1, <1>2, <1>3, <1>4, <1>5, <1>6 DEF Mishap

\* The invariant is inductive.
LEMMA Invariance == Spec => []IInv
<1>1. IInv /\ [Next]_vars => IInv'
  <2> SUFFICES ASSUME IInv, [Next]_vars PROVE IInv'
    OBVIOUS
  <2>1. CASE Next
    BY <2>1, TerraformStep, ConfigureStep, HostStep DEF Next
  <2>2. CASE UNCHANGED vars
    BY <2>2 DEF vars, tfVars, treeVars, unitVars, IInv, ExplorerTypeOK, ScriptInv, HostInv
  <2> QED
    BY <2>1, <2>2
<1> QED
  BY InitInv, <1>1, PTL DEF Spec

\* Every variable keeps its type.
THEOREM TypeCorrect == Spec => []ExplorerTypeOK
<1>1. IInv => ExplorerTypeOK
  BY DEF IInv
<1> QED
  BY Invariance, <1>1, PTL

\* However often configure-explorer.sh is interrupted and begun again, a
\* configuration that stands is a complete one.
THEOREM StandsComplete == Spec => []CreatedComplete
<1>1. IInv => CreatedComplete
  BY DEF IInv, ScriptInv, HostInv, CreatedComplete
<1> QED
  BY Invariance, <1>1, PTL

\* The script completes at most once on a host, whatever is pulled meanwhile.
THEOREM CompletesOnce == Spec => []ConfiguredOnce
<1>1. IInv => ConfiguredOnce
  BY DEF IInv, HostInv, ConfiguredOnce
<1> QED
  BY Invariance, <1>1, PTL

\* What is up serves mandelbot's checkout, but for what a pull brought.
THEOREM UpServesMandelbot == Spec => []ServesMandelbot
<1>1. IInv => ServesMandelbot
  BY DEF IInv, HostInv, ServesMandelbot
<1> QED
  BY Invariance, <1>1, PTL
===========================================================================
