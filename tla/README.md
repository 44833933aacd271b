# A TLA+ model of mandelbot

mandelbot is a Cosmos SDK blockchain scaffolded with Ignite, with Terraform and
shell scripts that bring up a testnet of validators, seeds and a block explorer,
and a generated Vue client. This directory holds TLA+ modules of the parts of it
that have behaviour of their own, the TLC configurations that check them, and
TLAPS proofs about seven of them. `PROJECT.json` lists components, runs, seeded
defects, the source lines of every definition, findings, hazards and theorems.

## 1. The system

| Part | State it keeps | Operations | Talks to |
|---|---|---|---|
| Validator deployment (`deploy/modules/validator`, `deploy/upload/configure-generic-client.sh`) | Terraform's resources; files on the operator's machine; per host `~/.mandelbot`, `mandelbot.service`, the daemon | configure a host, gather gentxs, collect and distribute the genesis file, start; stop, crash, reboot | ssh/scp to every host; systemd; Tendermint |
| Seed deployment (`deploy/modules/seed`) | the same, and one local `upload/genesis.json` for all seeds | copy the primary's genesis, configure a host, start it | the validators' outputs `ips`, `genesis_file_available` |
| Explorer deployment (`deploy/modules/explorer`) | a git checkout, `explorer.service` | configure, start | its host only |
| Operator scripts (`deploy/*.sh`) | none | apply with other counts, destroy, show, ssh | Terraform |
| TLS certificates (`deploy/upload/install-*-cert.sh`) | certbot's lineages, `~/cert`, nginx and its site | issue, copy, deploy with every configuration; renewed by a timer | certbot, systemd; the daemon reads `~/cert` |
| Network, DNS (`deploy/**/network.tf`) | cloud resources | declared once | AWS |
| Application (`app/app.go`) | the stores of the SDK's modules: persistent, in memory, of the block under way | InitGenesis, BeginBlock, DeliverTx, EndBlock, Commit, restart | Tendermint |
| Zero-height export (`app/export.go`) | the stores of distribution, staking, slashing | settle, rebuild, reset | the SDK's keepers |
| `x/mandelbot` | an empty parameter set | none that changes state | the application |
| Web client store (`vue/src/store/generated`) | a cache and subscriptions per module | query, page, subscribe, refresh, reset | the node's REST endpoint and web socket |
| Sending from the client (`sendMsgTransfer`, `txClient`, the codecs) | calls under way; the wallet's signer | connect, make and sign a message, broadcast, wait | cosmjs, a node's RPC endpoint |
| Web client pages (`vue/src`) | none | dispatch to the store | the store |
| Generated code, API document, test helpers, release files | none | - | - |

What is hard, and what makes each part correct:

* **Validators.** Hosts are configured in parallel, each wiped on its own
  schedule while the others still run; scp results in a loop are ignored; an
  apply may break off anywhere and the next one re-creates only what failed;
  systemd restarts and boots act by themselves; `KillMode=process` lets a daemon
  outlive its unit. Correct means: a standing ceremony's genesis holds the keys
  the hosts have *now*; daemons never belong to two networks; one consensus key
  never runs under two genesis documents; nobody wipes a home in use; applies
  end and started validators come up.
* **Seeds.** Their copies share one local file, their service is *not* stopped
  before a configuration, and nothing configures them again when the genesis
  changes. Correct means: they only run finished genesis files, and leave the
  validators' network only in ways that can be named.
* **Explorer.** Its script alters one checkout in place under `set -e`, is begun again
  after any failure, and may do so under an explorer that runs. Correct means: a
  configuration that stands is a complete one, and what is up serves mandelbot's
  checkout and not the template's.
* **Export.** A chain of loops over three keepers in which order matters.
  Correct means: money is conserved, everyone is settled, the rebuilt reference
  counts are exact, no height of the old chain is left, and it fails only for
  reasons that can be named.
* **Client store.** Any number of awaits are open at once while blocks are made,
  refreshes are fired, entries reset. Correct means: pages are never mixed up,
  subscriptions belong to callers, and a stale entry has a cause that can be named.
* **Application.** Twenty modules share one block in four hand-written orders, and a
  process that may stop anywhere replays from what it committed, without what it
  kept in memory. Correct means: fees are distributed before anyone is slashed,
  capabilities are known after every restart, a chain begins and goes on, and what is
  committed is a function of the decided blocks alone.
* **Sending.** Between the click and the chain lie four awaits, a form that may be edited
  meanwhile, a wallet that may be switched, and answers that get lost. Correct means: what
  executes is what was asked for, at most once, and nobody is told a falsehood.
* **Certificates.** Two scripts under `set -e` whose failure nobody sees, run again with
  every configuration, on files that certbot's timer changes too. Correct means: the
  chain and the key the daemon reads belong together, and no half-way site of nginx is
  left behind a configuration that stands.

## 2. Modules

| Module | Models |
|---|---|
| `ValidatorNetwork` | validator deployment; INSTANCEs `GenesisSource` |
| `GenesisSource` | what the validators promise to whoever copies the genesis file |
| `SeedNetwork` | seed deployment; EXTENDS `GenesisSource` |
| `ExplorerDeployment` | explorer deployment |
| `ZeroHeightExport` | `prepForZeroHeightGenesis` |
| `QueryStore` | one generated store module and its loader |
| `BlockMachine` | what the network expects of a node's application |
| `AppLifecycle` | the ABCI life of `app/app.go`; INSTANCEs `BlockMachine` |
| `TransferCodec` | the generated encoder and decoder of `MsgTransfer` |
| `Payments` | what the caller of a send may rely on |
| `TxClient` | `sendMsgTransfer`; EXTENDS `TransferCodec`, INSTANCEs `Payments` |
| `HostCertificates` | the certificates and nginx of a host |
| `ValidatorNetworkProofs`, `SeedNetworkProofs`, `ZeroHeightExportProofs`, `ExplorerDeploymentProofs`, `QueryStoreProofs`, `AppLifecycleProofs`, `TxClientProofs`, `HostCertificatesProofs` | theorems |
| `MC*` | instances for TLC |

`SeedNetwork` does not contain the validators: it runs on `GenesisSource`, and
`ImplementsGenesisSource` says that every behaviour of `ValidatorNetwork` is
one of it (`ready` is `gen = "created"`, `doc` the primary's genesis file); it is checked and proved. That
keeps both state spaces small, and says exactly what the seeds rely on:
after `genesis_file_available` is known the file is complete, and it does not
change until an apply withdraws the resource.

Definitions named `X_Something` under a comment that begins with "Defect" are
plausible bugs of `X`. Nothing uses them, save that each is put in the place of
`X` to see that a property fails with it.

### ValidatorNetwork

`cfg`, `gen` and `start` are the resources `configure_client`,
`generate_genesis_file` and `start_validator`, each absent, tainted, created or
at one of its provisioner steps. `home` is `~/.mandelbot`: the consensus key, the
genesis file, the gentx directory, and the genesis document Tendermint keeps in
its database from the first start (`pinned`). `unit`, `enabled` and `daemon` are
systemd and the process. A key is named by the number of the `mandelbotd init`
that drew it; a genesis by the init of its primary (`base`) and the gentxs
collected into it.

`Apply(k, v)` is the plan of `terraform apply`: it destroys what the triggers
(`instance.tf:111-114, 163-165, 187-189`) replace. `Upload` to `GenerateGentx` are
one host's configuration; `BeginCeremony`, `Gather`, `Push`, `Collect`, `Fetch` and
`Distribute` the ceremony; `RestartService` and `EnableService` the start; `Launch`,
`RestartAfterFailure`, `Crash` and `Reboot` the host. Arguments such as `Gather(ok)`
or `Push(arrived)` say how much of a copy arrived. `SkipKill` is a
`configure-generic-client.sh` that `set -e` ends in one of its downloads (lines 11-34), before
its `pkill` (line 37): the inline script of `instance.tf:93-103` has no `set -e` and goes on to wipe the home
under the daemon that still runs. The history variables `lost`,
`undelivered`, `booted` and `survivors` name what the code ignores: a gentx or genesis file
that an unnoticed failure of scp left behind, a boot that started the daemon
before the ceremony was through, and a daemon whose kill was skipped, until something ends it.

### SeedNetwork

The same for a seed, with `local`, the one `./upload/genesis.json`: `BeginCopy`
truncates it, `EndCopy` completes it (unless another copy is still writing), and
`Upload` takes whatever it holds. `trigger` is the value of `genesis_file_available`
the resource was created with: it does not change with the *contents* of the file. Nothing stops the
service first, and `SkipKill` is the same as the validators': the old daemon stays, and its unit with it, so that
the seed counts as `raced`.

### ExplorerDeployment

`cfg` and `start` are the resources `configure_client` and `start_explorer`; while it is
being configured `cfg` is the next step of `configure-explorer.sh`. Of the checkout the
model keeps what decides whether a step of the script succeeds: which `Spellings` of the
template's name are left in its text, whether its files are `renamed`, whether `yarn` has
installed its packages. `Replace` is one line `git grep -l ... | xargs sed -i`: without a
match xargs runs sed without a file, which fails, and so does the script. `Rename` is the four
`git mv`, which fail when they were done before. `Pull(news)` may bring new files
with the template's name. `FailConfigure` breaks the script off between any two steps; the steps themselves are
whole. For `Clone` that is git's doing, which removes the directory of a clone that fails or is interrupted; a host that loses
its power in mid-clone, or a clone that fails at its checkout, would leave one that the next run takes for cloned, and is not modelled.
`InstallUnit` writes, copies and reloads in one step: a unit file that a broken script left behind is
neither enabled nor started, since `start_explorer` waits for the configuration. `configured` counts
the completions on one host, `pulled` says that a pull brought something after the first.

### ZeroHeightExport

One action per visit of each loop of `app/export.go`, on the stores those calls
touch. `Incremented` and `InitializeDelegation` are the SDK keeper's; the order of
iteration over validators and delegations is left open where it is the store's
(the bond loop's reverse iteration is kept, since line 146 speaks of it), and a coin is `Unit` sub-units so that truncation leaves
scraps. `Init` is built as a chain would: delegations one after the other, then
at most one slash per validator. `LengthPrefixed` is the layout of the staking
store's keys: TRUE is the pinned SDK v0.45.5, with which the export stops at the
bond loop (`export_pinned_keys`); `export_books` uses FALSE in order to check the rest.

`ApplyUpdates` is the keeper's loop over the power index: `Ahead` is its order, and `Reached(v)` says that fewer
than `MaxValidators` validators, none without power, come before `v`. A jailed validator that is reached panics; one further
down stays in the index unseen. `power` is constant, since no call of the export changes tokens.
The error of line 170 (`panic(err)`) has no action: the keeper returns one only from a change of status or for an
unreadable record, and no status changes. Line 73, `AssertInvariants`, is left out too: the
modules' invariants are taken to hold of the running chain, as `Init` makes them hold of the stores modelled.

### QueryStore

`flight` is the bag of queries whose `await` is open, each with the pages it has.
A page is its number and the height of the state it shows, which is all the
properties need. `Serve` is the node, `NextPage` a turn of the `while` loop,
`Commit` the two commits after it, `Fail` the `catch`. `Deliver` is a newblock event
at every listener: `load` registers `init` on every INITIALIZE_WS_COMPLETE, so
there may be several, and each one dispatches `StoreUpdate`. `late`, `lost` and `mixed` are
histories that name the three ways an entry becomes stale. The 20 store modules are
generated from one template; `cosmos.bank.v1beta1`, `QueryAllBalances`, is the one mapped.

### AppLifecycle

`committed` is the multistore of the last Commit, `work` the state of the block under way
(baseapp's `deliverState`), `mem` the capability module's memory store. `phase` and `pos` say whose
turn it is: `InitGenesis`, `BeginBlock` and `EndBlock` give one module its turn, in the
orders of lines 449-526 as they stand there. A module's work is cut down to what the
comments of `app.go` say others need of it: mint and distribution move coins, slashing and
evidence slash, capability fills its memory store (`Remembered`), the modules of `Routes` bind
their ports, genutil delivers the genesis transactions, gov hands a proposal to the upgrade
keeper, and upgrade panics when one is `Due`. `Decide` is Tendermint's consensus and `NextBlock`
its handshake and block executor, which hand over whatever is decided and not committed. `Crash` may
come between any two turns, and takes `mem` and `work` with it.

`BlockMachine` has no modules and no process: a block is executed at once. `Machine` maps
`committed` to its `app`, and `ImplementsBlockMachine` says that every `Commit` is one `Execute` and
everything else, crashes included, is a stutter.

### TxClient and TransferCodec

`call[c].pc` is the await a call of `sendMsgTransfer` stands at. `SendMsg` takes the signer at
once (`initTxClient` destructures it), and `Connect` makes the message of what the caller's object holds
*then*. `Sign` and `Reject` are the user, `Broadcast` is `CheckTx` at a node, `BroadcastLost` a request or an
answer that did not arrive, `Found` and `Timeout` the end of cosmjs's polling. `Edit`,
`SwitchWallet`, `Execute` and `Drop` are the page, the wallet, the chain and the mempool. What the caller
is told is "sent", "refused" (before or at CheckTx) or "unknown"; the source throws the same
error for the last two. `edited` is a history: the object changed between the call
and the making of the message. A message is a function of its fields, with `FromPartial`,
`Encode` and `Decode` doing what the generated ones do to defaults, undefined fields and 64-bit
numbers: `Written` keeps 64 bits of any integer. The messages of the other modules come from the same generator.

A wallet has one account here. `module/index.ts:40` asks `getAccounts` only after it has connected, which
is the same for an HD wallet, and not for a browser extension whose user switches
accounts meanwhile; nor is the array of fees modelled, which is read late like the message's object.

`Payments` keeps the calls executed and what each caller was told.

### HostCertificates

`step` is the next command of `install-generic-cert.sh` and `install-nginx-cert.sh`, one action each, with
a failing twin where the command talks to the world. `rpc` and `api` are certbot's two lineages (number and
time of the last issue), `chain` and `key` the issues whose copies lie in `~/cert`. `RenewRpc` and `RenewApi` are
the timer, `Tick` the months between configurations. `DeployFails` leaves `site` and `api` as they
were, where the script may have altered the site before it failed; `ApiServesTls` promises nothing once the script failed. The daemon is not here: it reads the files when it starts.

## 3. External facts

Code that is not in the repository is modelled from how the repository uses it:

* `remote-exec` with `inline` runs its commands as one shell script without
  `set -e`; only the last status, or a lost connection, fails it. The same holds for
  `local-exec` with several lines.
* Terraform destroys what depends on a replaced resource before it creates
  anything, goes on with what does not depend on a failed resource, and re-creates
  tainted resources at the next apply. A module's outputs are known when the resources
  they mention stand.
* GNU xargs runs its command once when its input is empty, and fails when that does. `git
  mv` of a file that is not there fails. A fast-forward pull keeps local changes.
* With `KillMode=process` systemd signals the script only, so the daemon survives
  `systemctl stop`. `pkill` makes `mandelbotd` exit with a failure, so that
  `Restart=on-failure` starts the unit again after `RestartSec`.
* Tendermint 0.34 stores the genesis document at first start, before `InitChain`;
  later starts use the stored one. The SDK fails on a genesis without validators.
* SDK v0.45.5: `WithdrawValidatorCommission` returns an error when there is none;
  withdrawing rewards increments the validator's period, moves reference counts and
  starts the delegation again; `AfterValidatorCreated` sets period 1 and one
  reference to period 0; `ApplyAndReturnValidatorSetUpdates` goes down the
  power index until it has bonded `MaxValidators` or has met one without power, and panics if it meets a jailed one; keys of the staking store are length-prefixed.
* A fetch of the browser settles, with an answer or an error. Events of the web socket
  arrive in order.
* Tendermint's handshake calls InitChain as long as the application is at height 0, and replays
  what the block store has and the application has not. Of a block only Commit is persistent.
* `InitMemStore` fills the capability module's memory store once per process, from the persistent one;
  `InitializeIndex` refuses a store that has an index. Delivering genesis transactions needs the
  accounts, the balances and staking's parameters; an empty validator set after InitGenesis panics, and so does an
  upgrade without a handler, unless its height is skipped.
* Minting adds to the fee pool in BeginBlock; distribution empties it from the second block on.
* cosmjs 0.27: `signAndBroadcast` queries the sequence number, asks the wallet, calls
  `broadcastTxSync`, throws on a non-zero code of CheckTx, then polls until `TimeoutError`. A result may carry the code
  of a failed execution; the generated code does not look at it.
* protobufjs writes the lowest 64 bits of a whole number, a negative one in two's complement, and never refuses one.
* certbot keeps a certificate that is not due. The standalone authenticator binds port 80; the nginx one
  starts nginx if it has to. Its timer renews each lineage in the way it was issued.

## 4. Runs

| Run | Bounds | Shows |
|---|---|---|
| `validators_reapply` | 2 validators, any count from 0, 2 edits, 2 faults | `TypeOK`, `GenesisCurrent`, `SameNetwork`, `KeyOneGenesis`, `WipeQuiescent`, `StartedComesUp`, refinement of `GenesisSource` |
| `validators_three` | 3 validators, 1 edit, 2 faults | `SameGenesis` when a copy of the loops fails unnoticed; `ApplyEnds` |
| `seeds_share_file` | 2 seeds, 2 finished files, 2 edits, 1 fault, seeds and files symmetric | `SeedTypeOK`, `RunsPublished`, `OnNetwork` |
| `seeds_live` | 2 seeds, 1 finished file, no edit, 1 fault | `ApplyEnds`, `SeedComesUp` |
| `explorer_reconfigured` | 2 edits, 2 pulls with news, 2 faults | `ExplorerTypeOK`, `CreatedComplete`, `ServesMandelbot`, `ConfiguredOnce`, `FirstApplyServes` |
| `export_books` | 2 validators with or without power, `MaxValidators` 1, 2 delegators, debts 0 or 3 of 2 sub-units, every jail list | the six properties of the export |
| `export_no_commission` | the same | finding 1 |
| `export_pinned_keys` | the same, debts of 3, length-prefixed keys | finding 2 |
| `store_race` | 1 key, 3 pages, 2 blocks, 2 calls, 3 in flight, 2 listeners | the four safety properties of the store, and `QueriesEnd` |
| `app_restarts` | 3 blocks, an upgrade one block after its proposal, 2 crashes | `NothingLeftOver`, `CapabilitiesKnown`, refinement of `BlockMachine`, `KeepsUp` |
| `sends_overlap` | 2 calls, 2 wallets, 3 forms, 3 edits, 1 fault, numbers up to 3 of a 16-valued word | `ExecutedAsAsked`, `ReadsBack`, refinement of `Payments`, `SendsEnd` |
| `certificates_renewed` | 3 configurations, 2 faults, 3 ticks, certificates valid for 2 | `CopyIsFirst`, `ApiServesTls` |

Why the bounds are enough:

* *Validators.* Two hosts make every disagreement between a host that was
  re-created and one that was not; the loops' ignored statuses need a loop of two
  turns, hence three hosts in `validators_three`. Two edits allow a first network, its
  replacement and a replacement that fails. Two faults are a failure and one while
  it is repaired. There are node keys for three validators only.
* *Seeds.* The shared file needs two writers; a change of genesis needs two
  finished files. `partial` stands for every genesis that is not finished. Symmetry is
  used only in a run without liveness.
* *Explorer.* Two edits configure a host again and once more; two pulls are one before the
  first completion and one after; two faults are an interrupted script and an
  interrupted retry.
* *Export.* Two validators and two delegators per validator: a second
  validator is reached by the update or not, a second
  delegation meets a period that a first one moved. 3 of 2 sub-units is one coin and a scrap.
* *Store.* Two pages fetched at different heights are the least list that can mix, three make
  the loop turn twice; three queries in flight let one be overtaken while another refreshes, and two
  listeners refresh an entry twice. Keys do not interact, so one is enough.
* *Application.* What is special about the first block (InitChain's state, no distribution) is
  over at the second; a channel opened in one block is used in the next, and a proposal's upgrade comes one later. Two
  crashes are one, and one while its block is replayed.
* *Sending.* Two calls share an account's sequence number or not (two wallets). Three edits are a wallet opened, a
  wallet switched or a form edited, and back. The forms hold a complete message with the greatest readable
  number, one with the least unreadable number and a negative one, and one with the least number beyond a word and missing fields. The
  codec's theorem covers all others.
* *Certificates.* The first configuration copies, the second finds the directory, the third comes after a renewal
  that the second did not pick up.

`CHECK_DEADLOCK FALSE` is set where the system may rest: an operator who applies no
more, a client that asks nothing more, with the bounded environment used up. The export's
runs check deadlock; a finished export stutters (`Terminated`).

## 5. Fairness

* `ValidatorNetwork`: weak fairness of Terraform's own steps and of systemd on every
  host. Terraform retries nothing but goes on while it can, and systemd's restart timer fires.
  None for the operator, and none for a fault. The success of a
  copy is not fair by itself: `Ceremony` is, so each step of it eventually either
  succeeds or fails.
* `SeedNetwork`: the same; the validators' part is not assumed fair, so `ApplyEnds`
  covers an apply whose ceremony fails.
* `ExplorerDeployment`: weak fairness of Terraform's steps, of the script's and of systemd's
  restart. None for faults, and none for the operator.
* `AppLifecycle`: weak fairness of `Start(0)`, for systemd restarts what died (`Restart=on-failure`), and of the turns
  of the application. None for consensus, for crashes, or for the operator who skips an upgrade.
* `TxClient`: weak fairness of each call's requests and timers. None for the user, who may leave the wallet's question
  open (`SendsEnd` says so), none for the chain, which may never execute.
* `HostCertificates` claims no liveness: nothing in the scripts is repeated.
* `QueryStore`: events are delivered and fetches settle. Calls and blocks are
  bounded, as they must be: the refreshes of a chain that makes blocks for ever never stop.

## 6. What the checks show

The validators' deployment keeps its promises in every order of edits, failures and
re-applies, given that one accepts the losses the scripts cannot see:
a secondary whose gentx or genesis copy fails unnoticed is left out, while
the apply succeeds. The other loss is a `pkill` that is skipped because a download failed before it: the old daemon
lives on beside the new network, on a home that was wiped under it, until `start-validator.sh` kills it (line 23).
`SameNetwork`, `SameGenesis` and `WipeQuiescent` except the hosts in `survivors` and no others; without that
exception TLC finds the old daemon beside the new ones in `validators_reapply`. `StartedComesUp` does not
except them: once such a validator is started, its daemon is one of the new network. With three faults it need not even hold its own file: a ceremony that reached it and then
failed leaves that ceremony's file, the next one's copy fails unnoticed, and it starts on the older genesis of the same
base while the others run the newer (`SameGenesis` therefore speaks of those that no copy missed; the
runs have two faults at most, the theorem any number). With a count that begins with the digit 1 (10 to 19, 100 to 199 and so on) nothing is
exchanged at all, since `instance.tf:124` compares strings: `Exchanges` is the condition under which `GenesisCurrent` says more than that
the file holds no stale key. A seed falls off the network in two ways. Its unit was up while it was
configured again, so that the old daemon, which a failed download spared, or one restarted in the middle, goes on (`raced`);
or the validators held a new ceremony and nothing told the seed (`behind`). `OnNetwork`
says that there is no third. A torn copy of the genesis file keeps a seed down but never
moves it to another network.

The explorer's configuration can be completed once on a host and never again: any later edit of
an uploaded script, of `deploy/upload` or of the explorer's own, makes Terraform run it again, the
first replacement finds nothing, and the resource stays tainted until the instance is
destroyed (or a pull brings all spellings back, and then the renaming fails). The same
holds for every failure after the first replacement. The explorer that was up goes on, with its
files under the script's hands; `ServesMandelbot` says that this does no harm other
than what a pull brings. `FirstApplyServes` is restricted to checkouts that are not altered yet for
this reason.

In the store an entry that no query is refreshing shows the last block the client
heard of, unless an answer was overtaken, a refresh failed, or the same key is queried
both with and without `all`: those share one cache entry.

The orders of `app.go` fit together: with any one of the listed defects (slashing before distribution, no turn for
capability, minting late, genesis transactions early) a property fails, and as they stand a node that stopped anywhere
commits what one that never stopped does. The one panic is an upgrade that is due: a restart comes back to
it until the operator skips it, as the SDK intends.

A transfer executes at most once per call. The caller's object is read only after two awaits, so
what executes is what was asked unless the object was edited in that window, and the wallet is the one of the time of the
call, even if it was switched. "Could not broadcast Tx" does not mean that nothing was broadcast: after a timeout or a lost
answer the transfer may be executed, and a caller who sends again pays again. A number beyond 2^53-1 is
sent and executed but cannot be read back. From 2^64 on it is worse: the greatest uint64, written as a literal, is 2^64 in
JavaScript, protobufjs writes 0, and the transfer executes and is read back with 0, which nobody is told;
likewise for a number below 2^53 - 2^64. `ReadsBack` names this edge (`Fits`), and says what is read back beyond it (`Modulo`).

The RPC's certificate is copied once: `mkdir` fails on every later configuration, so the daemon keeps the
first issue after it was renewed and after it expired. `CopyIsFirst` states exactly that, as no document says otherwise; what is
good about it is that chain and key never belong to two issues. A failure of the nginx script is not seen by
Terraform; it is the one way to a configured host without TLS.

Findings, each a run that ends in a violation:

1. `app/export.go:82`: one validator without commission makes every zero-height
   export panic, where line 77 only says that commissions are withdrawn.
2. `app/export.go:153` cuts the address one byte short of the pinned SDK's key layout,
   so that the assertion at line 156 fails for the first validator.

The bond loop goes by key (line 149) where its comment (line 146) says "by power descending"; nothing depends on that
order. `FailsOnlyFor` also documents that a jail list that leaves out a validator who is not in jail
makes the export panic if the update of the validator set reaches it: the validator is marked jailed but stays in the power index.
Further down it stays there, jailed, and the export succeeds; `SameBonded` shows that this does no harm, since the new
chain bonds the same validators without it. Its third reason, that the
bond loop finds no validator, is that of finding 2 and needs length-prefixed keys.

## 7. Proofs

`ValidatorNetworkProofs`, for every number of validators, every set of counts and
node keys, and every bound, from `ValidatorAssumption`:

* `TypeCorrect`: `Spec => []TypeOK`.
* `WipesAreQuiescent`: `Spec => WipeQuiescent`. A step from "wipe" to "init" is `Wipe`, and
  what is needed before it is `PhaseInv`: from "kill" on the unit of a host
  that is being configured is stopped, from "wipe" on no daemon lives there but one in `survivors`, and while a
  ceremony is under way or stands, every member is configured, so that no unit is
  restarted under a configuration. Every step of systemd must be shown not to disturb it,
  and so must a reboot, which taints the resource.
* `KeyRunsOneGenesis`: `Spec => []KeyOneGenesis`. Not inductive: one must know that what ran
  with the key of a home is what the database of that home keeps, that no two homes share a
  key, and that none is ever drawn twice. That is `KeyInv`.

* `OneNetwork`: `Spec => []SameNetwork`. By `LiveInv` whoever lives, and is no survivor, runs what its database keeps, which names
  validators. `DocInv` follows documents instead of daemons: one that names validators, on a configured member, is of the primary's
  present `init` and was made when every member was configured, so that no two members hold documents of two networks,
  whatever they run. `VersionInv`, that the resources that stand are of the configuration applied last, is what keeps
  this through an apply that replaces them.
* `OneGenesis`: `Spec => []SameGenesis`. `StartInv`: unless a boot did it, no daemon is started on a configured member
  before the ceremony has ended; those that are started keep the file they have, one file for all it was delivered to.
* `GenesisHoldsKeys`: `Spec => []GenesisCurrent`. `GentxInv` says whose keys the gentx directories hold, and that the
  homes still have those keys; `CeremonyInv` says at each step of the ceremony what was gathered, collected and
  distributed so far, for the members that no failed copy left out.
* `Refinement`: `Spec => ImplementsGenesisSource`. `SourceStep` takes each action to a step of `GenesisSource` or a stutter. What it
  publishes names validators by `GentxInv` and `CeremonyInv`; while it is published only an apply may change it: by
  `PhaseInv` the primary is neither configured nor terminated before the plan has withdrawn the ceremony.

The inductive invariant is `IInv == TypeOK /\ PhaseInv /\ KeyInv /\ LiveInv /\ VersionInv /\ DocInv /\ GentxInv /\
CeremonyInv /\ StartInv`; TLC checked it on small instances of two and three validators before it was proved. Each part has a
lemma with one step per action, and a frame lemma (`KeyFrame`, `LiveFrame`, ...) that covers
the actions which only touch what the part does not mention. `ShapeConfigure`, `ShapePrimary` and `ShapeOthers` say once
what an action of one host changes, so that the steps need not expand it again.

`ZeroHeightExportProofs`, for any validators, powers, delegators, amounts and sub-units, any `MaxValidators`, and either layout of keys, from
`ExportAssumption` (which asks for finitely many delegators): one theorem for each property of `export_books`. Their parts of `IInv`:

* `Conservation` (`MoneyConserved`) and `Settlement` (`SettledUp`): `OwedInv` says that until its scraps are donated a
  validator's outstanding rewards are its commission and what its delegations are owed, so that withdrawing leaves
  less than a coin; `PaidInv` counts the visits that put less than a coin into the pool.
* `CountsAreExact` (`ReferencesExact`): `PastInv` says that what refers to a period refers to one before the current.
  `InitializeCounts` is the argument: the period a delegation starts anew at is one that nothing referred to, where the keeper
  sets the count to one and adds one, and the period it leaves loses exactly its reference.
  `PeriodsInRange` shows that the model's bound `Period` is never left.
* `HeightsAreZero` (`StartsAtZero`), `FailureCauses` (`FailsOnlyFor`): `ZeroInv` and `JailInv` say
  what each loop has established for what it has visited.
* `BondedStaysBonded` (`SameBonded`): `JailInv` adds that past the update no jailed validator was reached. If one were ahead of a
  validator that the new chain bonds, the first such (`FirstOf`, by the number ahead of it) would have only unjailed ones before it,
  fewer than `MaxValidators`, and would have been reached (`JailedBehind`).

Sums over sets are folds of the community modules, that is, a CHOOSE of a recursive function. The library's induction
theorems take a predicate and cannot be instantiated here, so induction is stated over sets: `NatSteps` follows from the well-foundedness of
`Nat`, `FoldExists` builds the function, and `SumUpdate` says that changing one entry changes the sum by as much.

`ExplorerDeploymentProofs`, for every number of edits, pulls and faults, from
`ExplorerAssumption`: `TypeCorrect`, `StandsComplete`, `CompletesOnce` and `UpServesMandelbot`, one
for each invariant of `explorer_reconfigured`. The inductive invariant adds two parts.
`ScriptInv` says what the script has achieved at each of its steps, and that past the
renaming this is the host's first completion. `HostInv` says that a unit is there if and only if the
script was completed once, and that the checkout stays complete from then on: this is what a
script begun again under a running explorer must not disturb, and does not, since it only clones where
nothing is.

`QueryStoreProofs`, for all keys, page counts and bounds, from `StoreAssumption`:

* `ListsInOrder`: `Spec => []PagesInOrder`. The cached list is what some query
  collected, so `FlightOK` says the same of every query in flight, and that the pages it has
  are no newer than the answer under way, itself no newer than the chain.
* `SubscriptionsCached`: `Spec => []SubscribedCached`.
* `CallersSubscribe`: `Spec => OnlyCallersSubscribe`. `FlightOK` adds that a query of
  `StoreUpdate` never has `subscribe` set.
* `FreshWhenQuiet`: `Spec => []SubscribedFresh`. `FreshInv` drops the condition that nothing is under way: a subscribed key is
  late or lost, or shows the last block, or a query for it is in flight. An event moves `told` only together with a query for every
  subscription, and a query leaves the bag only by `Commit` or `Fail`, which settle the key.

The lemmas `BagDomains` and `BagAdds` say which queries may be in a bag after one leaves and another
joins, `BagKeeps` and `FlightBag` which still are; no recursive definition is needed.

`SeedNetworkProofs`, for any number of seeds, files and bounds, from `SeedAssumption` and `DocAssumption`: `TypeCorrect`,
`Published`, `SeedsOnNetwork`. `CopyInv` follows the primary's file through `local`, `upload`, `file` and `pinned`: a seed that is not in
`behind` holds, at each step it has reached, the ready file or a torn one. `UnitInv` says why a unit that was not up
cannot keep an older one. The part of the invariant about one seed is `Sane(s)`, and the lemma `OneSeed`
covers all steps that touch one seed and `local`.

`AppLifecycleProofs`, for any number of blocks, crashes and any notice, from `AppAssumption`: `DistributedFirst`,
`CapabilitiesFound`, `NoOtherPanic`, and `Refinement`, that `AppLifecycle` implements `BlockMachine`. For the last, one must know
what `work` is at every turn: `Begun(p)` and `Ended(p)` give it as a function of `committed`, of the block and of the
modules that had their turn, so that `Ended(21)` is `Execute`. The orders are tuples of constants, so
each turn that matters is a lemma and all others are one.

`TxClientProofs`, for any calls, wallets, forms and widths, from `ClientAssumption` and `CodecAssumption`: `RoundTrip` about the codec
alone and any integers (`ReadModulo`, and `FitKept` for those that fit 64 bits), then `AskedFor`, `ReadAsSent` and `Refinement`, that `TxClient` implements `Payments`. `OnItsWay` is what a call has
fixed at each await, `Sound` ties a transaction to the call that signed it, and `OnceInv` says that a call
has one transaction, in the mempool or in the ledger, never in both.

`HostCertificatesProofs`, from `CertificateAssumption`: `FirstCopyStays` and `ServesTls`. What is needed is that a
certificate is not due between its issue and the copy of its key, so that certbot's timer cannot renew it
in between, and that the directory of the copies, once made, bars every later one.

Every invariant, action property and refinement that a run checks is thus a theorem. Only model-checked: all
liveness (`ApplyEnds`, `StartedComesUp`, `SeedComesUp`, `FirstApplyServes`, `QueriesEnd`, `KeepsUp`,
`SendsEnd`), which is beyond this prover, since it needs ENABLED.

## 8. Not modelled, and the plan

Not modelled: consensus and the SDK's modules themselves (external); the REST clients and the API document (no
state); a genesis file that does not parse, the module versions that `InitChainer` records and the crisis module's
panic when an invariant is broken (`app.go:611`, `613`, EndBlock); what a daemon that survived the wipe of its home still writes into the new one, and an `rm -rf` that
such writes make fail; what else of a configuration the failed downloads leave undone on a new host; pages of the client (layout); cloud resources and DNS (declared once); `x/mandelbot` (a
scaffold that changes no state); release and test files.

Of the repository's code, some 240 000 lines, all but about 4 400 are generated: protobuf types, one copy of the
same imports per module, and REST clients under `vue/src/store/generated`. The codecs are one template over and over, of which
`MsgTransfer`'s is modelled; repeating it for each message would say nothing new. Hence the lines that definitions
map to, some 1 300, are a small share of the whole; of the hand-written rest they are most of what has behaviour.

Order of the work, the most important behaviour first; all are done.

1. `ValidatorNetwork`, its runs, and the proofs of `TypeOK`, `KeyOneGenesis`, `WipeQuiescent`.
2. `GenesisSource` and the refinement; `SeedNetwork`.
3. `ZeroHeightExport`.
4. `QueryStore` and its proofs.
5. `ExplorerDeployment` and its proofs.
6. `BlockMachine`, `AppLifecycle` and its proofs, refinement included.
7. `SeedNetwork` proofs.
8. `TransferCodec`, `Payments`, `TxClient` and its proofs, refinement included.
9. `HostCertificates` and its proofs.
10. `ValidatorNetwork` proofs: `SameNetwork`, `SameGenesis`, `GenesisCurrent`, and the refinement of `GenesisSource` step by step.
11. `ZeroHeightExport` proofs, sums over sets included.
12. `SubscribedFresh`, by way of an invariant on which in-flight queries will refresh a key.
