------------------------ MODULE ExplorerDeployment ------------------------
(***************************************************************************)
(* The block explorer's host.  configure-explorer.sh keeps one git checkout *)
(* over configurations: it pulls, replaces the name of the template chain   *)
(* in all its spellings by mandelbot's and renames the files of that name.  *)
(* It runs under `set -e`, where a replacement that finds nothing and a     *)
(* renaming that was done before are failures.                             *)
(***************************************************************************)
EXTENDS Naturals

CONSTANTS
    MaxEdits,    \* bound: edits of the uploaded files
    MaxPulls,    \* bound: pulls that bring new files with the template's name
    MaxFaults    \* bound: failed downloads, dropped connections, crashes, reboots

ASSUME ExplorerAssumption == MaxEdits \in Nat /\ MaxPulls \in Nat /\ MaxFaults \in Nat

\* newchain, NEWCHAIN, Newchain: the order in which they are replaced.
Spellings   == {"lower", "upper", "title"}
Steps       == {"clone", "pull", "rename", "build", "unit"} \cup Spellings
After(step) == CASE step = "lower" -> "upper" [] step = "upper" -> "title"
                 [] step = "title" -> "rename"

VARIABLES
    wanted,    \* create_explorer
    version,   \* edit of the files Terraform last applied
    applying,  \* a `terraform apply` is running
    cfg,       \* null_resource.configure_client
    cfgVersion,
    start,     \* null_resource.start_explorer
    cloned,    \* ~/explorer is there
    text,      \* spellings of the template's name in it
    renamed,   \* its files carry mandelbot's name
    built,     \* its packages are installed
    unit,      \* explorer.service
    enabled,   \* it starts at boot
    pulls, faults,
    faulted,   \* history: a fault since the last apply began
    pulled,    \* history: a pull brought the template's name to an installed unit
    configured \* history: configurations this host has completed

tfVars   == <<wanted, version, applying, cfg, cfgVersion, start>>
treeVars == <<cloned, text, renamed, built>>
unitVars == <<unit, enabled>>
vars     == <<tfVars, treeVars, unitVars, pulls, faults, faulted, pulled, configured>>

Init ==
    /\ wanted = FALSE /\ version = 0 /\ applying = FALSE
    /\ cfg = "absent" /\ cfgVersion = 0 /\ start = "absent"
    /\ cloned = FALSE /\ text = {} /\ renamed = FALSE /\ built = FALSE
    /\ unit = "none" /\ enabled = FALSE
    /\ pulls = 0 /\ faults = 0 /\ faulted = FALSE /\ pulled = FALSE /\ configured = 0

Fault == faults < MaxFaults /\ faults' = faults + 1 /\ faulted' = TRUE

---------------------------------------------------------------------------
(* Terraform. *)

Apply(create, v) ==
    LET stale == cfg # "created" \/ cfgVersion # v
        again == stale \/ start # "created"
    IN  /\ ~applying /\ applying' = TRUE
        /\ create # wanted \/ (create /\ again)
        /\ wanted' = create /\ version' = v
        /\ cfg' = IF ~create \/ stale THEN "absent" ELSE cfg
        /\ start' = IF ~create \/ again THEN "absent" ELSE start
        /\ faulted' = FALSE
        /\ UNCHANGED <<cfgVersion, treeVars, unitVars, pulls, faults, pulled, configured>>

\* Without create_explorer the instance goes, and all that is on it.
Terminate ==
    /\ applying /\ ~wanted /\ (cloned \/ unit # "none")
    /\ cloned' = FALSE /\ text' = {} /\ renamed' = FALSE /\ built' = FALSE
    /\ unit' = "none" /\ enabled' = FALSE
    /\ pulled' = FALSE /\ configured' = 0
    /\ UNCHANGED <<tfVars, pulls, faults, faulted>>

EndApply ==
    /\ applying /\ applying' = FALSE
    /\ IF wanted THEN /\ cfg \in {"tainted", "created"}
                      /\ cfg = "created" => start \in {"tainted", "created"}
                 ELSE ~cloned /\ unit = "none"
    /\ UNCHANGED <<wanted, version, cfg, cfgVersion, start, treeVars, unitVars, pulls,
                   faults, faulted, pulled, configured>>

---------------------------------------------------------------------------
(* configure_client, and configure-explorer.sh in it. *)

ConfigStep(from, to) ==
    /\ applying /\ cfg = from /\ cfg' = to
    /\ UNCHANGED <<wanted, version, applying, start, enabled, faults, faulted>>

\* The scripts before configure-explorer.sh may fail: only the last one counts.
Upload ==
    /\ wanted /\ ConfigStep("absent", "clone")
    /\ cfgVersion' = version
    /\ UNCHANGED <<treeVars, unit, pulls, pulled, configured>>

\* Defect: every configuration clones anew, under the running explorer.
Clone_Always ==
    /\ ConfigStep("clone", "pull")
    /\ cloned' = TRUE /\ text' = Spellings /\ renamed' = FALSE /\ built' = FALSE
    /\ UNCHANGED <<cfgVersion, unit, pulls, pulled, configured>>

\* `if [[ ! -d "explorer" ]]`
Clone ==
    /\ ConfigStep("clone", "pull")
    /\ cloned' = TRUE
    /\ text' = IF cloned THEN text ELSE Spellings
    /\ UNCHANGED <<cfgVersion, renamed, built, unit, pulls, pulled, configured>>

\* `git checkout`, `git pull`: perhaps with new files of the template's name.
Pull(news) ==
    /\ ConfigStep("pull", "lower")
    /\ news # {} => pulls < MaxPulls
    /\ pulls' = IF news = {} THEN pulls ELSE pulls + 1
    /\ text' = text \cup news
    /\ pulled' = (pulled \/ (news # {} /\ unit # "none"))
    /\ UNCHANGED <<cfgVersion, cloned, renamed, built, unit, configured>>

\* `git grep -l $NAME | xargs sed -i ...`: without a file sed fails, and so
\* does the script.
Replace(spelling) ==
    /\ ConfigStep(spelling, IF spelling \in text THEN After(spelling) ELSE "tainted")
    /\ text' = text \ {spelling}
    /\ UNCHANGED <<cfgVersion, cloned, renamed, built, unit, pulls, pulled, configured>>

\* Defect: what was renamed before is skipped.
Rename_Skips ==
    /\ ConfigStep("rename", "build")
    /\ renamed' = TRUE
    /\ UNCHANGED <<cfgVersion, cloned, text, built, unit, pulls, pulled, configured>>

\* `git mv`, four times.
Rename ==
    /\ ConfigStep("rename", IF renamed THEN "tainted" ELSE "build")
    /\ renamed' = TRUE
    /\ UNCHANGED <<cfgVersion, cloned, text, built, unit, pulls, pulled, configured>>

\* Defect: the status of yarn is lost.
Build_StatusLost ==
    /\ ConfigStep("build", "unit")
    /\ built' \in {built, TRUE}
    /\ UNCHANGED <<cfgVersion, cloned, text, renamed, unit, pulls, pulled, configured>>

\* `yarn`
Build ==
    /\ ConfigStep("build", "unit")
    /\ built' = TRUE
    /\ UNCHANGED <<cfgVersion, cloned, text, renamed, unit, pulls, pulled, configured>>

InstallUnit ==
    /\ ConfigStep("unit", "created")
    /\ unit' = IF unit = "none" THEN "inactive" ELSE unit
    /\ configured' = configured + 1
    /\ UNCHANGED <<cfgVersion, treeVars, pulls, pulled>>

\* A download fails or the connection drops.
FailConfigure ==
    /\ Fault
    /\ applying /\ cfg \in Steps /\ cfg' = "tainted"
    /\ UNCHANGED <<wanted, version, applying, cfgVersion, start, treeVars, unitVars, pulls,
                   pulled, configured>>

---------------------------------------------------------------------------
(* start_explorer, and explorer.service. *)

\* Defect: the service is left to the next boot.
StartExplorer_EnableOnly ==
    /\ applying /\ cfg = "created" /\ start = "absent" /\ start' = "created"
    /\ enabled' = TRUE
    /\ UNCHANGED <<wanted, version, applying, cfg, cfgVersion, treeVars, unit, pulls, faults,
                   faulted, pulled, configured>>

\* `systemctl enable`, `systemctl start`
StartExplorer ==
    /\ applying /\ cfg = "created" /\ start = "absent" /\ start' = "created"
    /\ enabled' = TRUE /\ unit' = "active"
    /\ UNCHANGED <<wanted, version, applying, cfg, cfgVersion, treeVars, pulls, faults,
                   faulted, pulled, configured>>

DropStart ==
    /\ Fault
    /\ applying /\ cfg = "created" /\ start = "absent" /\ start' = "tainted"
    /\ UNCHANGED <<wanted, version, applying, cfg, cfgVersion, treeVars, unitVars, pulls,
                   pulled, configured>>

\* Defect: a unit that systemd gives up on.
Crash_GivesUp ==
    /\ Fault
    /\ unit = "active" /\ unit' = "failed"
    /\ UNCHANGED <<tfVars, treeVars, enabled, pulls, pulled, configured>>

\* yarn serve exits with a failure.
Crash ==
    /\ Fault
    /\ unit = "active" /\ unit' = "backoff"
    /\ UNCHANGED <<tfVars, treeVars, enabled, pulls, pulled, configured>>

\* Restart=on-failure, RestartSec=10.
RestartAfterFailure ==
    /\ unit = "backoff" /\ unit' = "active"
    /\ UNCHANGED <<tfVars, treeVars, enabled, pulls, faults, faulted, pulled, configured>>

Reboot ==
    /\ Fault
    /\ unit # "none"
    /\ unit' = IF enabled THEN "active" ELSE "inactive"
    /\ cfg' = IF cfg \in Steps THEN "tainted" ELSE cfg
    /\ UNCHANGED <<wanted, version, applying, cfgVersion, start, treeVars, enabled, pulls,
                   pulled, configured>>

---------------------------------------------------------------------------
Configure ==
    \/ Upload \/ Clone
    \/ \E news \in SUBSET Spellings : Pull(news)
    \/ \E spelling \in Spellings : Replace(spelling)
    \/ Rename \/ Build \/ InstallUnit

Mishap == FailConfigure \/ DropStart \/ Crash \/ Reboot

Operator ==
    \E create \in BOOLEAN, v \in {version, version + 1} :
        v <= MaxEdits /\ Apply(create, v)

Next ==
    \/ Operator \/ Terminate \/ EndApply \/ Configure \/ StartExplorer
    \/ RestartAfterFailure \/ Mishap

Spec     == Init /\ [][Next]_vars
FairSpec == Spec /\ WF_vars(Terminate) /\ WF_vars(EndApply) /\ WF_vars(Configure)
                 /\ WF_vars(StartExplorer) /\ WF_vars(RestartAfterFailure)

---------------------------------------------------------------------------
(* Properties. *)

\* Every variable has its type.
ExplorerTypeOK ==
    /\ wanted \in BOOLEAN /\ version \in 0 .. MaxEdits /\ applying \in BOOLEAN
    /\ cfg \in {"absent", "tainted", "created"} \cup Steps
    /\ cfgVersion \in 0 .. version /\ start \in {"absent", "tainted", "created"}
    /\ cloned \in BOOLEAN /\ text \subseteq Spellings
    /\ renamed \in BOOLEAN /\ built \in BOOLEAN
    /\ unit \in {"none", "inactive", "active", "backoff"} /\ enabled \in BOOLEAN
    /\ pulls \in 0 .. MaxPulls /\ faults \in 0 .. MaxFaults
    /\ faulted \in BOOLEAN /\ pulled \in BOOLEAN /\ configured \in Nat

\* While configure_client stands, the checkout is one of mandelbot's: however
\* often the script was interrupted and begun again, none of its steps was
\* skipped (configure-explorer.sh:4, 15-31).
CreatedComplete ==
    cfg = "created" =>
        cloned /\ text = {} /\ renamed /\ built /\ unit # "none"

\* An explorer that is up serves a checkout that is all mandelbot's, also while
\* its host is configured again - unless a pull brings the template's name back
\* under it (configure-explorer.sh:15, 23).
ServesMandelbot ==
    unit \in {"active", "backoff"} => renamed /\ built /\ (text = {} \/ pulled)

\* The script completes at most once on a host.  So no later edit of its files
\* ever reaches a running explorer's unit, short of a new instance
\* (configure-explorer.sh:24-30).
ConfiguredOnce == configured <= 1

\* The explorer of a new host, or of one whose configuration failed before the
\* first replacement, comes up with the apply - unless something fails.
FirstApplyServes ==
    applying /\ wanted /\ ~faulted /\ (cloned => text = Spellings /\ ~renamed)
        ~> unit = "active" \/ faulted
===========================================================================
