------------------------- MODULE ValidatorNetwork -------------------------
(***************************************************************************)
(* The validators of a mandelbot testnet, as deploy/ brings them up.       *)
(*                                                                         *)
(* Three parties act.  Terraform, on the operator's machine, walks its     *)
(* resources: configure_client for every validator in parallel, then the   *)
(* genesis ceremony (generate_genesis_file), then start_validator for every *)
(* validator.  systemd, on every host, runs mandelbot.service.  The        *)
(* environment drops connections, loses copies, crashes daemons and        *)
(* reboots hosts.  The operator applies, edits and applies again.          *)
(*                                                                         *)
(* Terraform, systemd and the daemon are external: what they do is taken   *)
(* from how deploy/ uses them (see README.md).                             *)
(***************************************************************************)
EXTENDS Naturals

CONSTANTS
    MaxValidators,   \* the most validators the operator asks for
    Counts,          \* the values of num_validator_instances the operator uses
    NodeKeyFiles,    \* the indices i that have a node_key_validator_<i>.json
    MaxVersion,      \* bound: edits of the uploaded files or of the node count
    MaxFaults        \* bound: dropped connections, lost copies, crashes, reboots

ASSUME ValidatorAssumption ==
    /\ MaxValidators \in Nat \ {0}
    /\ Counts \subseteq 0 .. MaxValidators
    /\ NodeKeyFiles \subseteq Nat
    /\ MaxVersion \in Nat
    /\ MaxFaults \in Nat

Node    == 0 .. MaxValidators - 1
Primary == 0

\* A consensus key is named by the order in which `mandelbotd init` drew it;
\* 0 is no key.  A genesis is the init of one home (base) and the genesis
\* transactions collected into it; base 0 is no genesis at all.
Gentx     == [node : Node, key : Nat]
Genesis   == [base : Nat, txs : SUBSET Gentx]
NoGenesis == [base |-> 0, txs |-> {}]

\* ~/.mandelbot: the consensus key, config/genesis.json, config/gentx/ and the
\* genesis document the daemon's state database keeps from its first start.
Home      == [key : Nat, genesis : Genesis, gentx : SUBSET Gentx, pinned : Genesis]
EmptyHome == [key |-> 0, genesis |-> NoGenesis, gentx |-> {}, pinned |-> NoGenesis]

\* A Terraform resource is absent, tainted by a failed provisioner, created, or
\* at one of the steps of its provisioners.
Settled      == {"absent", "tainted", "created"}
ConfigSteps  == {"stop", "kill", "wipe", "init", "unit", "gentx"}
CeremonySteps == {"gather", "push", "collect", "fetch", "distribute"}
StartSteps   == {"enable"}

\* mandelbot.service: not installed, stopped, running its script up to the start
\* of the daemon, running the daemon, or waiting RestartSec after a failure.
UnitStates   == {"none", "inactive", "starting", "active", "backoff"}

VARIABLES
    size,        \* num_validator_instances of the current configuration
    version,     \* edit of the configuration Terraform last applied
    applying,    \* a `terraform apply` is running
    cfg,         \* null_resource.configure_client of each validator
    cfgVersion,  \* the triggers it was created with
    gen,         \* null_resource.generate_genesis_file
    start,       \* null_resource.start_validator of each validator
    next,        \* the secondary the ceremony's copy loop is at
    gathered,    \* /tmp/mandelbot/validator/gentx on the operator's machine
    staged,      \* /tmp/mandelbot/validator/genesis/genesis.json there
    home,        \* ~/.mandelbot of each host
    unit,        \* mandelbot.service of each host
    enabled,     \* hosts whose mandelbot.service starts at boot
    daemon,      \* the genesis the mandelbotd of a host runs, NoGenesis if none
    lastKey,     \* the last consensus key drawn
    faults,      \* faults so far
    lost,        \* history: gentxs the last ceremony failed to copy, unnoticed
    undelivered, \* history: genesis files the last ceremony failed to deliver
    booted,      \* history: hosts whose boot started the unit on this home
    survivors,   \* history: hosts whose daemon a failed script did not kill
    ran          \* history: <<key, genesis>> a daemon has run with

tfVars   == <<size, version, applying, cfg, cfgVersion, gen, start>>
copyVars == <<next, gathered, staged, lost, undelivered>>
hostVars == <<home, unit, enabled, daemon, lastKey, booted, survivors, ran>>
vars     == <<tfVars, copyVars, hostVars, faults>>

Members     == 0 .. size - 1
Secondaries == 1 .. size - 1

\* `[[ "${var.num_instances}" < "2" ]]` compares strings: it holds for every
\* count whose first digit is 0 or 1.
SkipsExchange(k) == k < 2 \/ \E e \in 1 .. k : 10^e <= k /\ k < 2 * 10^e

Live(n) == daemon[n] # NoGenesis

Init ==
    /\ size = 0 /\ version = 0 /\ applying = FALSE
    /\ cfg = [n \in Node |-> "absent"]
    /\ cfgVersion = [n \in Node |-> 0]
    /\ gen = "absent"
    /\ start = [n \in Node |-> "absent"]
    /\ next = 1 /\ gathered = {} /\ staged = NoGenesis
    /\ home = [n \in Node |-> EmptyHome]
    /\ unit = [n \in Node |-> "none"]
    /\ enabled = {}
    /\ daemon = [n \in Node |-> NoGenesis]
    /\ lastKey = 0 /\ faults = 0
    /\ lost = {} /\ undelivered = {} /\ booted = {} /\ survivors = {} /\ ran = {}

Fault == faults < MaxFaults /\ faults' = faults + 1

---------------------------------------------------------------------------
(* Terraform: plan, walk and end of an apply. *)

\* Defect: generate_genesis_file without its trigger on the configurations.
Apply_NoTrigger(k, v) ==
    LET stale == {n \in 0 .. k - 1 : cfg[n] # "created" \/ cfgVersion[n] # v}
        regen == gen # "created"
        again == {n \in 0 .. k - 1 : regen \/ start[n] # "created"}
    IN  /\ ~applying
        /\ v = version => k = size
        /\ k # size \/ stale # {} \/ again # {}
        /\ size' = k /\ version' = v /\ applying' = TRUE
        /\ cfg' = [n \in Node |-> IF n >= k \/ n \in stale THEN "absent" ELSE cfg[n]]
        /\ gen' = IF k = 0 \/ regen THEN "absent" ELSE gen
        /\ start' = [n \in Node |-> IF n >= k \/ n \in again THEN "absent" ELSE start[n]]
        /\ UNCHANGED <<cfgVersion, copyVars, hostVars, faults>>

\* The operator applies a configuration of k validators, edited since the last
\* apply if v is new.  Every configure_client is triggered by all instance ids
\* and all file hashes; replacing one replaces generate_genesis_file, which
\* replaces every start_validator.  A replaced resource is destroyed at once.
Apply(k, v) ==
    LET stale == {n \in 0 .. k - 1 : cfg[n] # "created" \/ cfgVersion[n] # v}
        regen == stale # {} \/ gen # "created"
        again == {n \in 0 .. k - 1 : regen \/ start[n] # "created"}
    IN  /\ ~applying
        /\ v = version => k = size
        /\ k # size \/ again # {}
        /\ size' = k /\ version' = v /\ applying' = TRUE
        /\ cfg' = [n \in Node |-> IF n >= k \/ n \in stale THEN "absent" ELSE cfg[n]]
        /\ gen' = IF k = 0 \/ regen THEN "absent" ELSE gen
        /\ start' = [n \in Node |-> IF n >= k \/ n \in again THEN "absent" ELSE start[n]]
        /\ UNCHANGED <<cfgVersion, copyVars, hostVars, faults>>

AllConfigured == \A n \in Members : cfg[n] = "created"

\* An instance beyond the wanted count is destroyed with all it holds.
Doomed(n) == n \in Node \ Members /\ (unit[n] # "none" \/ home[n] # EmptyHome)

Terminate(n) ==
    /\ applying /\ Doomed(n)
    /\ home' = [home EXCEPT ![n] = EmptyHome]
    /\ unit' = [unit EXCEPT ![n] = "none"]
    /\ enabled' = enabled \ {n}
    /\ daemon' = [daemon EXCEPT ![n] = NoGenesis]
    /\ booted' = booted \ {n} /\ survivors' = survivors \ {n}
    /\ UNCHANGED <<tfVars, copyVars, lastKey, ran, faults>>

\* A failed resource does not stop the ones that do not depend on it; the apply
\* ends when nothing runs and nothing more can start.
EndApply ==
    /\ applying
    /\ \A n \in Node : ~Doomed(n)
    /\ \A n \in Members : cfg[n] \in {"tainted", "created"}
    /\ AllConfigured /\ size > 0 => gen \in {"tainted", "created"}
    /\ gen = "created" => \A n \in Members : start[n] \in {"tainted", "created"}
    /\ applying' = FALSE
    /\ UNCHANGED <<size, version, cfg, cfgVersion, gen, start, copyVars, hostVars, faults>>

---------------------------------------------------------------------------
(* configure_client: the provisioners of one validator, in order. *)

ConfigStep(n, from, to) ==
    /\ applying /\ cfg[n] = from
    /\ cfg' = [cfg EXCEPT ![n] = to]
    /\ UNCHANGED <<size, version, applying, gen, start, copyVars, faults>>

\* The resource is created with the triggers of this apply, `rm -rf upload` and
\* the uploads run first.  A daemon that runs keeps its executable.
Upload(n) ==
    /\ n \in Members
    /\ ConfigStep(n, "absent", "stop")
    /\ cfgVersion' = [cfgVersion EXCEPT ![n] = version]
    /\ UNCHANGED hostVars

\* Defect: the service is not stopped first, as for a seed.
StopService_Omitted(n) ==
    /\ ConfigStep(n, "stop", "kill")
    /\ UNCHANGED <<cfgVersion, hostVars>>

\* `systemctl stop mandelbot.service || :`.  KillMode=process: the daemon the
\* script started is left running.
StopService(n) ==
    /\ ConfigStep(n, "stop", "kill")
    /\ unit' = [unit EXCEPT ![n] = IF @ = "none" THEN @ ELSE "inactive"]
    /\ UNCHANGED <<cfgVersion, home, enabled, daemon, lastKey, booted, survivors, ran>>

\* Defect: a unit without Restart=on-failure.
UnitWithoutDaemon_NoRestart(u) == IF u = "active" THEN "inactive" ELSE u

\* Defect: a unit that systemd gives up on.
UnitWithoutDaemon_Failed(u) == IF u = "active" THEN "failed" ELSE u

\* The script of an active unit exits with the daemon's failure.
UnitWithoutDaemon(u) == IF u = "active" THEN "backoff" ELSE u

\* Defect: stopping the service is taken to stop the daemon.
KillDaemon_Omitted(n) ==
    /\ ConfigStep(n, "kill", "wipe")
    /\ UNCHANGED <<cfgVersion, hostVars>>

\* configure-generic-client.sh: `pkill mandelbotd || :`.
KillDaemon(n) ==
    /\ ConfigStep(n, "kill", "wipe")
    /\ daemon' = [daemon EXCEPT ![n] = NoGenesis]
    /\ unit' = [unit EXCEPT ![n] = UnitWithoutDaemon(@)]
    /\ survivors' = survivors \ {n}
    /\ UNCHANGED <<cfgVersion, home, enabled, lastKey, booted, ran>>

\* One of the downloads before the pkill fails and `set -e` ends the script.  The
\* inline script goes on all the same, with the old daemon alive.
SkipKill(n) ==
    /\ Fault
    /\ applying /\ cfg[n] = "kill"
    /\ cfg' = [cfg EXCEPT ![n] = "wipe"]
    /\ survivors' = IF Live(n) THEN survivors \cup {n} ELSE survivors
    /\ UNCHANGED <<size, version, applying, cfgVersion, gen, start, copyVars, home, unit,
                   enabled, daemon, lastKey, booted, ran>>

\* configure-validator.sh: `rm -rf ~/.mandelbot`.
Wipe(n) ==
    /\ ConfigStep(n, "wipe", "init")
    /\ home' = [home EXCEPT ![n] = EmptyHome]
    /\ booted' = booted \ {n}
    /\ UNCHANGED <<cfgVersion, unit, enabled, daemon, lastKey, survivors, ran>>

\* Defect: the consensus key is a file of the repository, as the node key is.
InitHome_FixedKey(n) ==
    /\ ConfigStep(n, "init", "unit")
    /\ lastKey' = lastKey + 1
    /\ home' = [home EXCEPT ![n] =
                   [@ EXCEPT !.key = n + 1,
                             !.genesis = [base |-> lastKey + 1, txs |-> {}]]]
    /\ UNCHANGED <<cfgVersion, unit, enabled, daemon, booted, survivors, ran>>

\* configure-validator.sh: `mandelbotd init` draws a consensus key and writes a
\* genesis of the node's own, without genesis transactions.
InitHome(n) ==
    /\ ConfigStep(n, "init", "unit")
    /\ lastKey' = lastKey + 1
    /\ home' = [home EXCEPT ![n] =
                   [@ EXCEPT !.key = lastKey + 1,
                             !.genesis = [base |-> lastKey + 1, txs |-> {}]]]
    /\ UNCHANGED <<cfgVersion, unit, enabled, daemon, booted, survivors, ran>>

\* configure-validator.sh: the node key is copied and the unit installed.  With
\* no key file `set -e` ends the script before the unit, and the inline script
\* goes on to generate-gentx.sh all the same.
InstallUnit(n) ==
    /\ ConfigStep(n, "unit", "gentx")
    /\ unit' = [unit EXCEPT ![n] =
                   IF @ = "none" /\ n \in NodeKeyFiles THEN "inactive" ELSE @]
    /\ UNCHANGED <<cfgVersion, home, enabled, daemon, lastKey, booted, survivors, ran>>

\* generate-gentx.sh: a genesis transaction for the key of this home.
GenerateGentx(n) ==
    /\ ConfigStep(n, "gentx", "created")
    /\ home' = [home EXCEPT ![n].gentx = {[node |-> n, key |-> home[n].key]}]
    /\ UNCHANGED <<cfgVersion, unit, enabled, daemon, lastKey, booted, survivors, ran>>

\* The connection of a remote step is lost and the resource tainted.
DropConfigure(n) ==
    /\ Fault
    /\ applying /\ cfg[n] \in ConfigSteps
    /\ cfg' = [cfg EXCEPT ![n] = "tainted"]
    /\ UNCHANGED <<size, version, applying, cfgVersion, gen, start, copyVars, hostVars>>

---------------------------------------------------------------------------
(* generate_genesis_file: the genesis ceremony. *)

CeremonyAt(from, to) ==
    /\ applying /\ gen = from /\ gen' = to
    /\ UNCHANGED <<size, version, applying, cfg, cfgVersion, start>>

BeginCeremony ==
    /\ size > 0 /\ AllConfigured
    /\ CeremonyAt("absent", IF SkipsExchange(size) THEN "collect" ELSE "gather")
    /\ next' = 1 /\ gathered' = {} /\ lost' = {} /\ undelivered' = {}
    /\ UNCHANGED <<staged, hostVars, faults>>

\* One turn of the loop that copies the gentxs of the secondaries here.  The
\* status of the copy is not looked at.
Gather(ok) ==
    /\ next \in Secondaries
    /\ CeremonyAt("gather", IF next + 1 \in Secondaries THEN "gather" ELSE "push")
    /\ next' = next + 1
    /\ IF ok THEN /\ gathered' = gathered \cup home[next].gentx
                  /\ UNCHANGED <<lost, faults>>
             ELSE /\ Fault
                  /\ lost' = lost \cup {next}
                  /\ UNCHANGED gathered
    /\ UNCHANGED <<staged, undelivered, hostVars>>

\* A gentx file is named after its node: a copy replaces an earlier one.
Overlay(old, new) == {t \in old : \A u \in new : u.node # t.node} \cup new

SetPrimary(h) ==
    /\ home' = [home EXCEPT ![Primary] = h]
    /\ UNCHANGED <<unit, enabled, daemon, lastKey, booted, survivors, ran>>

\* Copy what was gathered to the primary.  The copy fails when nothing was
\* gathered, and may break off after some of the files.
Push(arrived) ==
    LET ok == gathered # {} /\ arrived = gathered
    IN  /\ CeremonyAt("push", IF ok THEN "collect" ELSE "tainted")
        /\ arrived \subseteq gathered
        /\ SetPrimary([home[Primary] EXCEPT !.gentx = Overlay(@, arrived)])
        /\ IF arrived = gathered THEN UNCHANGED faults ELSE Fault
        /\ UNCHANGED copyVars

\* Defect: the resource stands before the genesis is collected.
Collect_Early ==
    /\ CeremonyAt("collect", "created")
    /\ UNCHANGED <<copyVars, hostVars, faults>>

\* generate-genesis-file.sh: collect-gentxs writes all gentxs of the primary
\* into its genesis.
Collect ==
    /\ CeremonyAt("collect", IF SkipsExchange(size) THEN "created" ELSE "fetch")
    /\ SetPrimary([home[Primary] EXCEPT !.genesis.txs = home[Primary].gentx])
    /\ UNCHANGED <<copyVars, faults>>

\* The connection to the primary drops before or after the collection.
DropCollect(done) ==
    /\ Fault
    /\ CeremonyAt("collect", "tainted")
    /\ IF done THEN SetPrimary([home[Primary] EXCEPT !.genesis.txs = home[Primary].gentx])
               ELSE UNCHANGED hostVars
    /\ UNCHANGED copyVars

\* Defect: a genesis file of an earlier ceremony is taken for this one's.
Fetch_Once ==
    /\ CeremonyAt("fetch", "distribute")
    /\ staged' = IF staged = NoGenesis THEN home[Primary].genesis ELSE staged
    /\ next' = 1
    /\ UNCHANGED <<gathered, lost, undelivered, hostVars, faults>>

\* Defect: the loop waits for the primary's daemon instead of its file.
Fetch_WaitsForDaemon ==
    /\ daemon[Primary] # NoGenesis
    /\ CeremonyAt("fetch", "distribute")
    /\ staged' = home[Primary].genesis
    /\ next' = 1
    /\ UNCHANGED <<gathered, lost, undelivered, hostVars, faults>>

\* `until scp ...`: fetch the primary's genesis, as often as it takes.
Fetch ==
    /\ CeremonyAt("fetch", "distribute")
    /\ staged' = home[Primary].genesis
    /\ next' = 1
    /\ UNCHANGED <<gathered, lost, undelivered, hostVars, faults>>

\* One turn of the loop that copies the genesis to the secondaries.  Only the
\* status of the last copy is that of the provisioner.
Distribute(ok) ==
    LET more == next + 1 \in Secondaries
    IN  /\ next \in Secondaries
        /\ CeremonyAt("distribute", IF more THEN "distribute"
                                    ELSE IF ok THEN "created" ELSE "tainted")
        /\ next' = next + 1
        /\ IF ok THEN /\ home' = [home EXCEPT ![next].genesis = staged]
                      /\ UNCHANGED <<undelivered, faults>>
                 ELSE /\ Fault
                      /\ undelivered' = undelivered \cup {next}
                      /\ UNCHANGED home
        /\ UNCHANGED <<gathered, staged, lost, unit, enabled, daemon, lastKey, booted,
                       survivors, ran>>

---------------------------------------------------------------------------
(* start_validator. *)

StartStep(n, from, to) ==
    /\ applying /\ gen = "created" /\ n \in Members
    /\ start[n] = from
    /\ start' = [start EXCEPT ![n] = to]
    /\ UNCHANGED <<size, version, applying, cfg, cfgVersion, gen, copyVars>>

\* `systemctl restart mandelbot.service`, of which a daemon outlives the stop.
RestartService(n) ==
    /\ StartStep(n, "absent", "enable")
    /\ unit' = [unit EXCEPT ![n] = IF @ = "none" THEN @ ELSE "starting"]
    /\ UNCHANGED <<home, enabled, daemon, lastKey, booted, survivors, ran, faults>>

\* `systemctl enable mandelbot.service`, the one status that counts.
EnableService(n) ==
    /\ StartStep(n, "enable", IF unit[n] = "none" THEN "tainted" ELSE "created")
    /\ enabled' = IF unit[n] = "none" THEN enabled ELSE enabled \cup {n}
    /\ UNCHANGED <<home, unit, daemon, lastKey, booted, survivors, ran, faults>>

\* The connection is lost before the restart or after it.
DropStart(n) ==
    /\ Fault
    /\ \E s \in StartSteps \cup {"absent"} : StartStep(n, s, "tainted")
    /\ UNCHANGED hostVars

---------------------------------------------------------------------------
(* systemd and the daemon, on one host. *)

\* The genesis a daemon runs: the one its database kept, else the file.
Effective(h) == IF h.pinned # NoGenesis THEN h.pinned ELSE h.genesis

\* start-validator.sh: kill what still runs, then start the daemon.  It keeps
\* its genesis document before it looks for validators in it, and fails when
\* there is none.
Launch(n) ==
    LET h == home[n]
        g == Effective(h)
        alive == g.txs # {}
    IN  /\ unit[n] = "starting"
        /\ home' = [home EXCEPT ![n].pinned = g]
        /\ unit' = [unit EXCEPT ![n] = IF alive THEN "active" ELSE "backoff"]
        /\ daemon' = [daemon EXCEPT ![n] = IF alive THEN g ELSE NoGenesis]
        /\ survivors' = survivors \ {n}
        /\ ran' = IF alive THEN ran \cup {<<h.key, g>>} ELSE ran
        /\ UNCHANGED <<tfVars, copyVars, enabled, lastKey, booted, faults>>

\* Restart=on-failure, RestartSec=10.
RestartAfterFailure(n) ==
    /\ unit[n] = "backoff"
    /\ unit' = [unit EXCEPT ![n] = "starting"]
    /\ UNCHANGED <<tfVars, copyVars, home, enabled, daemon, lastKey, booted, survivors,
                   ran, faults>>

Crash(n) ==
    /\ Fault
    /\ Live(n)
    /\ daemon' = [daemon EXCEPT ![n] = NoGenesis]
    /\ unit' = [unit EXCEPT ![n] = UnitWithoutDaemon(@)]
    /\ survivors' = survivors \ {n}
    /\ UNCHANGED <<tfVars, copyVars, home, enabled, lastKey, booted, ran>>

\* A host reboots.  A remote step that runs on it loses its connection.
Reboot(n) ==
    /\ Fault
    /\ unit[n] # "none"
    /\ daemon' = [daemon EXCEPT ![n] = NoGenesis]
    /\ unit' = [unit EXCEPT ![n] = IF n \in enabled THEN "starting" ELSE "inactive"]
    /\ cfg' = [cfg EXCEPT ![n] = IF @ \in ConfigSteps THEN "tainted" ELSE @]
    /\ start' = [start EXCEPT ![n] = IF @ \in StartSteps THEN "tainted" ELSE @]
    /\ gen' = IF n = Primary /\ gen \in {"push", "collect"} THEN "tainted" ELSE gen
    /\ booted' = IF n \in enabled THEN booted \cup {n} ELSE booted
    /\ survivors' = survivors \ {n}
    /\ UNCHANGED <<size, version, applying, cfgVersion, copyVars, home, enabled, lastKey, ran>>

---------------------------------------------------------------------------
Configure(n) ==
    \/ Upload(n) \/ StopService(n) \/ KillDaemon(n)
    \/ Wipe(n) \/ InitHome(n) \/ InstallUnit(n) \/ GenerateGentx(n)

Ceremony ==
    \/ BeginCeremony \/ Gather(TRUE) \/ Push(gathered) \/ Collect
    \/ Fetch \/ Distribute(TRUE)

StartValidator(n) == RestartService(n) \/ EnableService(n)

Systemd(n) == Launch(n) \/ RestartAfterFailure(n)

Mishap ==
    \/ Gather(FALSE) \/ Distribute(FALSE)
    \/ \E arrived \in SUBSET gathered : arrived # gathered /\ Push(arrived)
    \/ \E done \in BOOLEAN : DropCollect(done)
    \/ \E n \in Node : SkipKill(n) \/ DropConfigure(n) \/ DropStart(n)
                      \/ Crash(n) \/ Reboot(n)

Operator ==
    \E k \in Counts \cup {size}, v \in {version, version + 1} :
        v <= MaxVersion /\ Apply(k, v)

Next ==
    \/ Operator \/ EndApply \/ Ceremony \/ Mishap
    \/ \E n \in Node : \/ Terminate(n) \/ Configure(n)
                       \/ StartValidator(n) \/ Systemd(n)

Fairness ==
    /\ WF_vars(EndApply) /\ WF_vars(Ceremony)
    /\ \A n \in Node : /\ WF_vars(Terminate(n)) /\ WF_vars(Configure(n))
                       /\ WF_vars(StartValidator(n)) /\ WF_vars(Systemd(n))

Spec     == Init /\ [][Next]_vars
FairSpec == Spec /\ Fairness

---------------------------------------------------------------------------
(* Properties. *)

\* Every variable has its type; in particular a genesis only ever holds
\* genesis transactions of possible nodes.
TypeOK ==
    /\ size \in 0 .. MaxValidators /\ version \in 0 .. MaxVersion
    /\ applying \in BOOLEAN
    /\ cfg \in [Node -> Settled \cup ConfigSteps]
    /\ cfgVersion \in [Node -> Nat]
    /\ gen \in Settled \cup CeremonySteps
    /\ start \in [Node -> Settled \cup StartSteps]
    /\ next \in Nat /\ gathered \in SUBSET Gentx /\ staged \in Genesis
    /\ home \in [Node -> Home] /\ unit \in [Node -> UnitStates]
    /\ enabled \in SUBSET Node /\ daemon \in [Node -> Genesis]
    /\ lastKey \in Nat /\ faults \in Nat
    /\ lost \in SUBSET Node /\ undelivered \in SUBSET Node
    /\ booted \in SUBSET Node /\ survivors \in SUBSET Node
    /\ ran \in SUBSET (Nat \X Genesis)

\* The ceremony exchanges files whenever there is somebody to exchange them
\* with, which the string comparison of SkipsExchange denies to ten validators, say.
Exchanges == size < 2 \/ ~SkipsExchange(size)

\* While generate_genesis_file stands, the primary's genesis holds only the
\* consensus keys the validators have now, and, if there was an exchange, the
\* key of every validator whose gentx was not lost, and is the genesis of every
\* validator it reached: no order of edits, failures and re-applies leaves a
\* stale key in it (deploy/modules/validator/instance.tf:111-114, 124, 163-165).
GenesisCurrent ==
    gen = "created" =>
        LET g == home[Primary].genesis
        IN  /\ \A t \in g.txs : t.node \in Members /\ t.key = home[t.node].key
            /\ Exchanges =>
                 /\ \A n \in Members \ lost : [node |-> n, key |-> home[n].key] \in g.txs
                 /\ \A n \in Members \ undelivered : home[n].genesis = g

\* The daemons of the validators are never of two networks: an old network is
\* dead everywhere before a new one lives anywhere, though each validator is
\* stopped, killed and started on its own (instance.tf:96, 175).  The one way
\* out is a configure-generic-client.sh that ends in its downloads, before its
\* pkill (lines 11-37): that host's old daemon lives on until start-validator.sh
\* kills it (line 23), beside the new network of those that start first.
SameNetwork ==
    \A m, n \in Members \ survivors :
        Live(m) /\ Live(n) => daemon[m].base = daemon[n].base

\* Nor do they run different genesis files of one network, unless a boot
\* started one of them before the ceremony was through, or an unnoticed failure
\* of the copy (instance.tf:158) left it with the file of an earlier ceremony,
\* or a skipped pkill left it with its old daemon.
SameGenesis ==
    \A m, n \in Members \ (booted \cup undelivered \cup survivors) :
        Live(m) /\ Live(n) => daemon[m] = daemon[n]

\* A consensus key never runs under two genesis documents, which carry one
\* chain id (mandelbot-test-1) and would make it sign twice for a height:
\* every init draws a new key and a database keeps its genesis
\* (configure-validator.sh:30-31).
KeyOneGenesis ==
    \A p, q \in ran : p[1] = q[1] => p[2] = q[2]

\* A home is wiped only when systemd will not start a daemon behind the
\* configuration's back and none runs on it, but for one the skipped pkill of a
\* failed configure-generic-client.sh left alive in this very apply
\* (instance.tf:96-100, configure-generic-client.sh:37).
WipeQuiescent ==
    [][\A n \in Node : cfg[n] = "wipe" /\ cfg'[n] = "init" =>
          /\ Live(n) => n \in survivors
          /\ unit[n] \in {"none", "inactive"}]_vars

\* An apply ends, whatever fails on the way.
ApplyEnds == applying ~> ~applying

\* A validator that was started and got the genesis comes up, or the operator
\* applies again, unless a boot had started it too early.
StartedComesUp ==
    \A n \in Node :
        (start[n] = "created" /\ n \notin booted \cup undelivered)
            ~> (applying \/ (Live(n) /\ daemon[n] = home[Primary].genesis) \/ n \in booted)

---------------------------------------------------------------------------
\* The validators implement the source of the genesis file the seeds rely on
\* (deploy/modules/validator/outputs.tf:5-7, deploy/main.tf:57).
Source == INSTANCE GenesisSource WITH
    Doc      <- Genesis,
    Complete <- {g \in Genesis : g.txs # {}},
    NoDoc    <- NoGenesis,
    wanted   <- size > 0,
    ready    <- gen = "created",
    doc      <- home[Primary].genesis

ImplementsGenesisSource == Source!SourceSpec
===========================================================================
