---------------------------- MODULE SeedNetwork ----------------------------
(***************************************************************************)
(* The seed nodes of a testnet, on top of the validators' genesis file     *)
(* (GenesisSource).  Terraform configures every seed in parallel, each     *)
(* through the one ./upload/genesis.json of the operator's machine, and    *)
(* starts it.  Unlike a validator's, a seed's service is not stopped for   *)
(* its configuration, and start_seed only starts what does not run.        *)
(***************************************************************************)
EXTENDS GenesisSource, Naturals

CONSTANTS
    Seed,        \* the seed nodes
    Own,         \* the genesis `mandelbotd init` writes on a seed
    Torn,        \* a genesis.json read while it was being written
    MaxEdits,    \* bound: edits of the seeds' files
    MaxFaults    \* bound: dropped connections, crashes and reboots

ASSUME SeedAssumption ==
    /\ {Own, Torn} \cap Doc = {} /\ Own # Torn
    /\ MaxEdits \in Nat /\ MaxFaults \in Nat

File        == Doc \cup {Own, Torn}
ConfigSteps == {"copying", "upload", "kill", "wipe", "init", "place", "unit"}
UnitStates  == {"none", "inactive", "starting", "active", "backoff"}

VARIABLES
    cfg,       \* null_resource.configure_client of each seed
    trigger,   \* the genesis_file_available it was created with
    start,     \* null_resource.start_seed of each seed
    local,     \* ./upload/genesis.json on the operator's machine
    upload,    \* ~/upload/genesis.json of each seed
    file,      \* ~/.mandelbot/config/genesis.json of each seed
    pinned,    \* the genesis its daemon's database keeps
    unit,      \* mandelbot.service of each seed
    enabled,   \* seeds whose service starts at boot
    daemon,    \* the genesis its mandelbotd runs, NoDoc if none
    edits, faults,
    published, \* history: every genesis file that was ready
    behind,    \* history: seeds configured before the file was last withdrawn
    raced      \* history: seeds whose unit was up when configuration ended

seedVars == <<cfg, trigger, start, local, upload, file, pinned, unit, enabled,
              daemon, edits, faults, published, behind, raced>>
vars     == <<sourceVars, seedVars>>

Init ==
    /\ SourceInit
    /\ cfg = [s \in Seed |-> "absent"] /\ start = [s \in Seed |-> "absent"]
    /\ trigger = [s \in Seed |-> FALSE]
    /\ local = NoDoc
    /\ upload = [s \in Seed |-> NoDoc]
    /\ file = [s \in Seed |-> NoDoc] /\ pinned = [s \in Seed |-> NoDoc]
    /\ unit = [s \in Seed |-> "none"] /\ enabled = {}
    /\ daemon = [s \in Seed |-> NoDoc]
    /\ edits = 0 /\ faults = 0
    /\ published = {} /\ behind = {} /\ raced = {}

Fault == faults < MaxFaults /\ faults' = faults + 1

---------------------------------------------------------------------------
(* Terraform. *)

\* A seed is configured anew when its files or instances were edited, or when
\* genesis_file_available changed - not when the genesis file did.
Apply(edited) ==
    LET stale == {s \in Seed : edited \/ cfg[s] # "created" \/ trigger[s] # wanted'}
        again == {s \in Seed : stale # {} \/ start[s] # "created"}
    IN  /\ Begin
        /\ edited => edits < MaxEdits
        /\ edits' = IF edited THEN edits + 1 ELSE edits
        /\ cfg' = [s \in Seed |-> IF s \in stale THEN "absent" ELSE cfg[s]]
        /\ start' = [s \in Seed |-> IF s \in again THEN "absent" ELSE start[s]]
        /\ behind' = IF ready /\ ~ready' THEN Seed ELSE behind
        /\ UNCHANGED <<trigger, local, upload, file, pinned, unit, enabled, daemon,
                       faults, published, raced>>

\* What the validators' part of the apply does meanwhile.
Validators ==
    \/ Rewrite /\ UNCHANGED seedVars
    \/ /\ Publish
       /\ published' = published \cup {doc'}
       /\ UNCHANGED <<cfg, trigger, start, local, upload, file, pinned, unit, enabled,
                      daemon, edits, faults, behind, raced>>

\* The seeds' resources wait for the validators' outputs.
OutputsKnown == ready \/ ~wanted

AllConfigured == \A s \in Seed : cfg[s] = "created"

EndApply ==
    /\ OutputsKnown => \A s \in Seed : cfg[s] \in {"tainted", "created"}
    /\ OutputsKnown /\ AllConfigured => \A s \in Seed : start[s] \in {"tainted", "created"}
    /\ End
    /\ UNCHANGED seedVars

---------------------------------------------------------------------------
(* configure_client: the provisioners of one seed, in order. *)

ConfigStep(s, from, to) ==
    /\ applying /\ cfg[s] = from
    /\ cfg' = [cfg EXCEPT ![s] = to]
    /\ UNCHANGED <<sourceVars, start, enabled, edits, faults, published>>

\* Defect: seeds do not wait for the validators' outputs.
BeginCopy_NoDependency(s) ==
    /\ ConfigStep(s, "absent", IF wanted THEN "copying" ELSE "tainted")
    /\ trigger' = [trigger EXCEPT ![s] = wanted]
    /\ local' = IF wanted THEN Torn ELSE local
    /\ UNCHANGED <<upload, file, pinned, unit, daemon, behind, raced>>

\* Defect: a local genesis.json of an earlier apply is used again.
BeginCopy_Cached(s) ==
    /\ OutputsKnown
    /\ ConfigStep(s, "absent", IF ~wanted THEN "tainted"
                               ELSE IF local \in Complete THEN "upload" ELSE "copying")
    /\ trigger' = [trigger EXCEPT ![s] = wanted]
    /\ local' = IF wanted /\ local \notin Complete THEN Torn ELSE local
    /\ behind' = IF local \in Complete THEN behind \ {s} ELSE behind
    /\ UNCHANGED <<upload, file, pinned, unit, daemon, raced>>

\* Defect: without a genesis file the provisioner waits for one.
BeginCopy_Waits(s) ==
    /\ wanted /\ ready
    /\ ConfigStep(s, "absent", "copying")
    /\ trigger' = [trigger EXCEPT ![s] = wanted]
    /\ local' = Torn
    /\ UNCHANGED <<upload, file, pinned, unit, daemon, behind, raced>>

\* Without a genesis file the first provisioner fails; else its scp begins by
\* truncating the shared local file.
BeginCopy(s) ==
    /\ OutputsKnown
    /\ ConfigStep(s, "absent", IF wanted THEN "copying" ELSE "tainted")
    /\ trigger' = [trigger EXCEPT ![s] = wanted]
    /\ local' = IF wanted THEN Torn ELSE local
    /\ UNCHANGED <<upload, file, pinned, unit, daemon, behind, raced>>

\* The copy is complete, unless another seed's is still writing the same file.
EndCopy(s) ==
    LET others == \E t \in Seed \ {s} : cfg[t] = "copying"
    IN  /\ ConfigStep(s, "copying", "upload")
        /\ local' \in (IF others THEN {doc, Torn} ELSE {doc})
        /\ behind' = behind \ {s}
        /\ UNCHANGED <<trigger, upload, file, pinned, unit, daemon, raced>>

\* The upload directory, the local genesis.json in it, replaces the seed's.
Upload(s) ==
    /\ ConfigStep(s, "upload", "kill")
    /\ upload' = [upload EXCEPT ![s] = local]
    /\ UNCHANGED <<trigger, local, file, pinned, unit, daemon, behind, raced>>

\* configure-generic-client.sh: `pkill mandelbotd || :`.  The script of an
\* active unit fails with it, and systemd will start it again.
KillDaemon(s) ==
    /\ ConfigStep(s, "kill", "wipe")
    /\ daemon' = [daemon EXCEPT ![s] = NoDoc]
    /\ unit' = [unit EXCEPT ![s] = IF @ = "active" THEN "backoff" ELSE @]
    /\ UNCHANGED <<trigger, local, upload, file, pinned, behind, raced>>

\* One of the downloads before the pkill fails and `set -e` ends the script.  The
\* inline script goes on all the same, with the daemon alive.
SkipKill(s) ==
    /\ Fault
    /\ applying /\ cfg[s] = "kill"
    /\ cfg' = [cfg EXCEPT ![s] = "wipe"]
    /\ UNCHANGED <<sourceVars, trigger, start, local, upload, file, pinned, unit, enabled,
                   daemon, edits, published, behind, raced>>

\* configure-seed.sh: `rm -rf ~/.mandelbot`, from under a daemon that may have
\* been started again, or was never killed.
Wipe(s) ==
    /\ ConfigStep(s, "wipe", "init")
    /\ file' = [file EXCEPT ![s] = NoDoc]
    /\ pinned' = [pinned EXCEPT ![s] = NoDoc]
    /\ UNCHANGED <<trigger, local, upload, unit, daemon, behind, raced>>

\* configure-seed.sh: `mandelbotd init`.
InitHome(s) ==
    /\ ConfigStep(s, "init", "place")
    /\ file' = [file EXCEPT ![s] = Own]
    /\ UNCHANGED <<trigger, local, upload, pinned, unit, daemon, behind, raced>>

\* configure-seed.sh: the node key and the uploaded genesis file are placed.
PlaceGenesis(s) ==
    /\ ConfigStep(s, "place", "unit")
    /\ file' = [file EXCEPT ![s] = upload[s]]
    /\ UNCHANGED <<trigger, local, upload, pinned, unit, daemon, behind, raced>>

\* configure-seed.sh: the unit is installed.
InstallUnit(s) ==
    /\ ConfigStep(s, "unit", "created")
    /\ unit' = [unit EXCEPT ![s] = IF @ = "none" THEN "inactive" ELSE @]
    /\ raced' = IF unit[s] \in {"none", "inactive"} THEN raced \ {s} ELSE raced \cup {s}
    /\ UNCHANGED <<trigger, local, upload, file, pinned, daemon, behind>>

DropConfigure(s) ==
    /\ Fault
    /\ applying /\ cfg[s] \in ConfigSteps
    /\ cfg' = [cfg EXCEPT ![s] = "tainted"]
    /\ UNCHANGED <<sourceVars, trigger, start, local, upload, file, pinned, unit, enabled,
                   daemon, edits, published, behind, raced>>

---------------------------------------------------------------------------
\* Defect: the service is enabled only, to start at the next boot.
StartSeed_EnableOnly(s) ==
    /\ applying /\ OutputsKnown /\ AllConfigured /\ start[s] = "absent"
    /\ start' = [start EXCEPT ![s] = "created"]
    /\ enabled' = enabled \cup {s}
    /\ UNCHANGED <<sourceVars, cfg, trigger, local, upload, file, pinned, unit, daemon,
                   edits, faults, published, behind, raced>>

\* start_seed: `systemctl enable`, `systemctl start`.  A unit that is up is
\* left alone.
StartSeed(s) ==
    /\ applying /\ OutputsKnown /\ AllConfigured /\ start[s] = "absent"
    /\ start' = [start EXCEPT ![s] = "created"]
    /\ enabled' = enabled \cup {s}
    /\ unit' = [unit EXCEPT ![s] = IF @ \in {"inactive", "backoff"} THEN "starting" ELSE @]
    /\ UNCHANGED <<sourceVars, cfg, trigger, local, upload, file, pinned, daemon, edits,
                   faults, published, behind, raced>>

\* The connection is lost before, between or after the two commands.
DropStart(s) ==
    /\ Fault
    /\ applying /\ OutputsKnown /\ AllConfigured /\ start[s] = "absent"
    /\ start' = [start EXCEPT ![s] = "tainted"]
    /\ enabled' \in {enabled, enabled \cup {s}}
    /\ \/ UNCHANGED unit
       \/ /\ s \in enabled' /\ unit[s] \in {"inactive", "backoff"}
          /\ unit' = [unit EXCEPT ![s] = "starting"]
    /\ UNCHANGED <<sourceVars, cfg, trigger, local, upload, file, pinned, daemon, edits,
                   published, behind, raced>>

---------------------------------------------------------------------------
(* systemd and the daemon of one seed. *)

Readable(s) == IF pinned[s] # NoDoc THEN pinned[s] ELSE file[s]

\* Defect: a genesis file is kept before it could be read.
Launch_KeepsUnread(s) ==
    LET g == Readable(s)
    IN  /\ unit[s] = "starting"
        /\ pinned' = [pinned EXCEPT ![s] = g]
        /\ daemon' = [daemon EXCEPT ![s] = IF g \in Complete THEN g ELSE NoDoc]
        /\ unit' = [unit EXCEPT ![s] = IF g \in Complete THEN "active" ELSE "backoff"]
        /\ UNCHANGED <<sourceVars, cfg, trigger, start, local, upload, file, enabled,
                       edits, faults, published, behind, raced>>

\* start-seed.sh.  The daemon keeps the genesis document it could read before
\* it looks for validators in it.
Launch(s) ==
    LET g == Readable(s)
    IN  /\ unit[s] = "starting"
        /\ pinned' = [pinned EXCEPT ![s] = IF g = Torn THEN NoDoc ELSE g]
        /\ daemon' = [daemon EXCEPT ![s] = IF g \in Complete THEN g ELSE NoDoc]
        /\ unit' = [unit EXCEPT ![s] = IF g \in Complete THEN "active" ELSE "backoff"]
        /\ UNCHANGED <<sourceVars, cfg, trigger, start, local, upload, file, enabled,
                       edits, faults, published, behind, raced>>

\* Restart=on-failure, RestartSec=10.
RestartAfterFailure(s) ==
    /\ unit[s] = "backoff"
    /\ unit' = [unit EXCEPT ![s] = "starting"]
    /\ UNCHANGED <<sourceVars, cfg, trigger, start, local, upload, file, pinned, enabled,
                   daemon, edits, faults, published, behind, raced>>

Crash(s) ==
    /\ Fault
    /\ daemon[s] # NoDoc
    /\ daemon' = [daemon EXCEPT ![s] = NoDoc]
    /\ unit' = [unit EXCEPT ![s] = "backoff"]
    /\ UNCHANGED <<sourceVars, cfg, trigger, start, local, upload, file, pinned, enabled,
                   edits, published, behind, raced>>

\* The host reboots, and a remote step that runs on it fails.
Reboot(s) ==
    /\ Fault
    /\ unit[s] # "none"
    /\ daemon' = [daemon EXCEPT ![s] = NoDoc]
    /\ unit' = [unit EXCEPT ![s] = IF s \in enabled THEN "starting" ELSE "inactive"]
    /\ cfg' = [cfg EXCEPT ![s] = IF @ \in ConfigSteps \ {"copying"} THEN "tainted" ELSE @]
    /\ UNCHANGED <<sourceVars, trigger, start, local, upload, file, pinned, enabled,
                   edits, published, behind, raced>>

---------------------------------------------------------------------------
Configure(s) ==
    \/ BeginCopy(s) \/ EndCopy(s) \/ Upload(s) \/ KillDaemon(s) \/ Wipe(s)
    \/ InitHome(s) \/ PlaceGenesis(s) \/ InstallUnit(s)

Systemd(s) == Launch(s) \/ RestartAfterFailure(s)

Mishap(s) == SkipKill(s) \/ DropConfigure(s) \/ DropStart(s) \/ Crash(s) \/ Reboot(s)

Next ==
    \/ \E edited \in BOOLEAN : Apply(edited)
    \/ Validators \/ EndApply
    \/ \E s \in Seed : Configure(s) \/ StartSeed(s) \/ Systemd(s) \/ Mishap(s)

Fairness ==
    /\ WF_vars(EndApply)
    /\ \A s \in Seed : WF_vars(Configure(s)) /\ WF_vars(StartSeed(s)) /\ WF_vars(Systemd(s))

Spec     == Init /\ [][Next]_vars
FairSpec == Spec /\ Fairness

---------------------------------------------------------------------------
(* Properties. *)

\* Every variable has its type.
SeedTypeOK ==
    /\ doc \in Doc /\ local \in Doc \cup {Torn}
    /\ cfg \in [Seed -> {"absent", "tainted", "created"} \cup ConfigSteps]
    /\ trigger \in [Seed -> BOOLEAN]
    /\ start \in [Seed -> {"absent", "tainted", "created"}]
    /\ upload \in [Seed -> Doc \cup {Torn}]
    /\ file \in [Seed -> File] /\ pinned \in [Seed -> Doc \cup {Own}]
    /\ unit \in [Seed -> UnitStates] /\ enabled \subseteq Seed
    /\ daemon \in [Seed -> Complete \cup {NoDoc}]
    /\ published \subseteq Complete /\ behind \subseteq Seed /\ raced \subseteq Seed

\* A seed only ever runs a genesis file that a ceremony had finished, whatever
\* the primary's file was while one was under way (seed/instance.tf:61-66,
\* deploy/main.tf:56-57).
RunsPublished == \A s \in Seed : daemon[s] \in published \cup {NoDoc}

\* A seed that runs is on the validators' genesis file, but for the two known
\* ways to fall off it: the file was withdrawn after the seed was configured, or
\* its unit was up at the end of its configuration, restarted by systemd or never
\* killed (seed/instance.tf:119-123, 134; configure-seed.sh:43-45).
OnNetwork ==
    \A s \in Seed \ (behind \cup raced) :
        start[s] = "created" /\ daemon[s] # NoDoc => daemon[s] = doc

\* An apply ends although the copy of the genesis file is retried for ever.
ApplyEnds == applying ~> ~applying

\* A seed that was started on a whole genesis file comes up, unless its unit
\* was up during its configuration or a new apply begins.
SeedComesUp ==
    \A s \in Seed :
        start[s] = "created" /\ file[s] # Torn /\ s \notin raced
            ~> applying \/ s \in raced \/ daemon[s] # NoDoc
============================================================================
