# A TLA+ model of sn-testnet-deploy

`sn-testnet-deploy` is a command line tool that deploys Autonomi test networks:
terraform creates the VMs, ansible provisions them, S3 holds what has to be
remembered between commands, an EVM network holds the money of the uploaders.
The Rust program coordinates these and keeps no state of its own between two
commands. What can go wrong is therefore rarely in one function; it is in what
one command leaves behind for the next.

Paths below are relative to the repository's root; `src/x.rs` is its Rust crate.

## Parts of the system

| Part | State it keeps | Operations | What is hard |
|---|---|---|---|
| Lifecycle commands (`deploy.rs`, `bootstrap.rs`, `upscale.rs`, `lib.rs`, `cmd/deployments.rs`) | none of their own: terraform state and workspace, S3 details, VMs, inventory files | deploy, bootstrap, upscale, clean | no transaction; any step may fail, the next command starts from the rest |
| Terraform and infrastructure (`terraform.rs`, `infra.rs`) | workspaces, counts and sizes of VMs | init, select, apply, plan, show, destroy, delete | counts are read back from the state and written again; a count that is wrong once destroys VMs |
| Environment details (`lib.rs`, `s3.rs`) | one JSON object per environment | read with retries, write, delete | written twice by deploy, before the VMs by bootstrap; read errors are tolerated by clean |
| Inventory service (`inventory.rs`, `ansible/inventory.rs`) | a cached JSON inventory, dynamic and static ansible inventory files | generate or retrieve, set up, upload contacts, clean up | listings taken at several moments; lists that are empty by accident; stale static files |
| Provisioning (`ansible/provisioning.rs`, `ansible/mod.rs`, `ansible/extra_vars.rs`) | services on the VMs | one playbook per kind of VM | partial failure, order, new VMs against existing ones |
| NAT private nodes and SSH routing (`ssh.rs`, `inventory.rs`, `ansible/provisioning.rs`) | which private VM is reached through which gateway | match, provision gateway, provision nodes, route | names matched between two listings, gateways that were provisioned already |
| Funding (`funding.rs`, `cmd/funds.rs`) | wallet balances, keys in the service files on client VMs | deposit, drain, pre-funded wallets | keys exist in memory before they exist on a VM; balance read, then transferred |
| Clients deployer (`clients.rs`, `cmd/clients.rs`) | as the lifecycle, for client-only environments | seven kinds of deploy, clean | its own clean, stricter than the other; the type on record decides how many VMs the next deploy makes |
| Node operations (`lib.rs`, `cmd/nodes.rs`, `cmd/upgrade.rs`, `cmd/telegraf.rs`) | services on the VMs | start, stop, reset, upgrade, telegraf, status | order of kinds, abort or continue on failure |
| Churn (`cmd/network.rs`) | peer ids listed and not restarted yet | fixed interval and random churn | lists that get stale, partial groups and batches |
| Logs and S3 repository (`logs.rs`, `s3.rs`) | log folders in S3 | copy, reassemble, get, rm | list and delete, no pagination |
| DigitalOcean client (`digital_ocean.rs`) | none | list droplets by page | page loop |
| Safe and RPC clients, reserved IPs, setup, Slack (`safe.rs`, `rpc_client.rs`, `reserved_ip.rs`, `setup.rs`) | none, an `.env` file | wrappers of external programs | pure I/O |
| CLI (`main.rs`, `cmd/mod.rs`, ...) | none | argument parsing and checks | |
| `resources/` (ansible roles, terraform, packer) | | run by the tools above | not Rust; seen through the calls the program makes |

Interaction is by sequential calls of one process. Inside a command only
listings run in parallel (the inventory's node registries, the daemons a churn
asks); around it the uploaders, the nodes and other operators go on. Two
operators may run two processes against the same environment; nothing locks it
but terraform's own state lock.


What makes each part correct, in a sentence:

- Lifecycle: whatever fails, VMs stay known to terraform and money to its
  record; an upscale only grows; a clean loses no funds it did not have to.
- Draining: a wallet the drain has moved on from is empty, and running it again
  gets the rest.
- Uploaders: a service spends from a paid wallet of its own, and no paid key is
  lost.
- Private nodes: no command cuts a VM off for good, and success means that
  every private node is served through its gateway.
- Churn: each node once per cycle, and no more of a VM at a time than asked for.
- Clients deployer: it keeps what every environment promises; success means
  served; a deploy that asks for nothing new removes nothing.
- Node operations: after an operation that reports success every kind of node
  it names has had it; after one that fails the operator can repeat it.

## Modules

Every component module declares its state, `Init`, one action per step of the
code, `Next` and `Spec`, and ends with its properties. Definitions that are
preceded by a comment "Mutant:" are not part of any specification: they are
what a plausible bug would make of the definition that follows them, kept to
see that a property notices it. `...Proofs` modules hold the proofs.

### `Lifecycle`

The commands `deploy`, `bootstrap`, `upscale`, `clean`, `funds deposit` and
`funds drain` as chains of steps over what outlives them: terraform's
workspace, the VMs of each kind, the details object in S3, the uploaders'
wallets, the inventory files. `pc` is the next step of the running command, and
`target`, `seen`, `drain`, `opts` are what it holds in memory.

| Actions | Code |
|---|---|
| `StartDeploy` ... `DeployRest` | `cmd/deployments.rs` `handle_deploy`, `deploy.rs` |
| `StartBootstrap` ... `BootstrapNodes` | `cmd/deployments.rs` `handle_bootstrap`, `bootstrap.rs` |
| `StartUpscale` ... `UpscaleClients` | `upscale.rs`, with the counts `infra.rs` reads from the terraform state |
| `StartClean` ... `CleanRecord` | `lib.rs` `clean`, `do_clean` |
| `StartFunds`, `FundsInventory`, `FundsDeposit`, `FundsDrain` | `cmd/funds.rs` |
| `Apply`, `ApplyFails`, `SetVms` | `terraform.rs`; a failing apply stops at any counts in between |
| `Abort` | any step that returns an error, or an interrupt |

The order matters and is kept: `deploy` writes the details after the VMs exist
and twice, `bootstrap` before; `clean` reads them with errors tolerated, drains,
destroys, deletes the workspace, the files and then the record.

Assumptions, as constants: `FlakyListing` (one listing of droplets may come back
empty while VMs exist, which is what the retries of the client listing are for)
and `EmptyStateReadable` (whether `terraform show` on an empty state can be
parsed). The EVM network of an environment is fixed by `Anvil`. The many kinds
of node VM are represented by one for each way they are treated: the genesis,
which is never changed, the clients, a kind of node that an upscale changes
(`Scalable`), and one whose resource the program looks for by a name that
terraform does not use (`Misnamed`, in fact the port restricted private nodes;
`infra.rs:30` against `main.tf:99`). `Shown` is what the program reads of a kind
from the terraform state.

### `Environment`

The abstract specification of both kinds of environment, in seven actions over
four variables: a workspace is opened, VMs come and go in it, the environment is
recorded, wallets are paid and drained while it is, the workspace is closed when
no VM is left and the record forgotten when the workspace is. `Lifecycle` and
`ClientEnv` instantiate it as `Env` and check and prove `ImplementsEnvironment`.
What the two count as a wallet differs: money in `Lifecycle`, keys in
`ClientEnv`.

### `ClientEnv`

Client-only environments (`clients.rs`, `cmd/clients.rs`): the seven deploy
commands, which share their steps and differ in what they provision (`PartsOf`)
and in the keys they take, and `clients clean`.

| Actions | Code |
|---|---|
| `StartDeploy`, `DeployCommands` ... `StaticUploaderCommands` | the handlers in `cmd/clients.rs`, with their checks of the keys |
| `DeployInit` | `clients.rs` `init` |
| `DeployInventoryNew`, `...Known`, `...Misread`, `...Empty` | `inventory.rs` `generate_or_retrieve_client_inventory`, `lib.rs` `get_environment_details` |
| `DeployApply`, `DeployApplyFails`, `TargetCount` | `clients.rs` `create_or_update_infra`, with the tfvars of the inventory's type |
| `DeployWrite` | `write_environment_details` |
| `DeployPart`, `...Refused`, `...Short`, `...Fails` | the deposits and playbooks, in the order of each command |
| `StartClean` ... `CleanRecord` | `clients.rs` `clean`, `destroy_infra` |
| `Abort` | any call that fails, or an interrupt |

A command ends with success, with an error of the code's own (`Finish`) or
because a call failed (`Break`); `calm` tells the last two apart. `first` and
`steady` record what the operator asked for, for the properties. The keys
themselves are in `Uploaders`; here a VM has a number of uploaders (`uploaders`)
or a service of another kind with a key (`keyed`).

### `FundsDrain`

One `funds drain`, or the drain inside `clean`, call by call: for each VM and
wallet read the tokens, send them, read the gas, send all of it but the
reserve (`funding.rs`). `TransferRejected` is a transfer the wallet cannot pay,
`CallFails` one that fails for another reason, carried out or not; both end the
command. `Spend` is an uploader that pays for an upload in between. `Sub` is
the 256-bit subtraction, which wraps around (that `ruint` does so in release
builds is an assumption about a library).

### `Uploaders`

How the wallets of uploader services come to be: read the keys there are, make
up the missing ones, pay every key, run the playbook that writes service files
and enables services (`funding.rs`, `ansible/provisioning.rs`,
`ansible/extra_vars.rs`, the role `uploaders`). `Operators` run commands
concurrently; the playbook advances on each VM by itself. `GivenLists` are the lists
of keys that a command may be given (`--wallet-secret-key`): they may have keys in
common, as when a deploy is repeated with more uploaders and a longer list, and each
is dealt to the VMs in any order (`DealGivenKeys`). Systemd lists a service only once
it is enabled; a loop of the playbook in which an item fails goes on with the later
ones, so that files and services may have gaps. `MCUploaders` has the lists of the
run.

### `NatGateways`

Private nodes of one `kind` behind their NAT gateways, chosen at the start:
terraform makes and destroys gateways and node VMs one by one, and
`PrepareGateways`, `ConfigureNodes`, `CompleteGateways` and `ProvisionNodes` are
the parts of provisioning, each of which may fail on any VM. The VMs a failure
leaves half done are the state of the next command. `routes` is the SSH client's
map, set from the inventory taken when the command began (`ssh.rs`,
`inventory.rs`). A gateway is reached on port 22 whatever its state, and a node
VM that is private behind a gateway which does not translate cannot be
provisioned. The kinds differ in this:

| | full cone | port restricted | symmetric |
|---|---|---|---|
| code in `ansible/provisioning.rs` | `provision_full_cone` | `provision_port_restricted_cone` | `provision_symmetric_nat_gateway`, `provision_symmetric_private_nodes` |
| a gateway is complete after | step 2 (`Completed`) | step 2 | step 1 (`Prepared`), one rule |
| routes for the configuration | those of the command's start | those of the command's start | set anew, with the gateways there are (`Reachable`) |
| `upscale` | leaves out the gateways it knew (`LeavesOut`) | removes all VMs of the kind (`Targets`) | prepares all gateways |
| a step 2 that stopped half-way | never repeated: its check finds the node VM's address in the first rules | never repeated: the rules forward port 22 too, so later playbooks for the gateway run on the node VM | |

The last row is `unfinished`, the gateways of which only some rules were set, and
`open`, those among them through which a node VM can download nonetheless. No
command repairs them; only a gateway that is made anew does.

### `Churn`

Both handlers of `cmd/network.rs`: at fixed intervals VM after VM, with a
counter and a pause after each full group; at random intervals all VMs listed
first, cut into batches, each batch with sorted random cuts of its time frame.
`Meanwhile` is an operator or antctl stopping, starting or resetting a node;
`peer` counts the generations of a node's peer id, by which the daemon finds it.
`burst`, `restarts` and `listed` only record what happened, for the properties.

### `NodeCommands`

The commands that act on the nodes of a network: `start`, `stop`, `reset`,
`reset-to-n-nodes`, `upgrade`, `upgrade-antctl`, `extend-volume-size`, `status`
and the rest of `AllOps`. One operator gives them on his machine while others
deploy, provision, upscale, clean, stop and reset from theirs. What is there is
`svc`, the node services on each VM; what the command acts on is what the
inventory files of the machine say (`files` for the dynamic ones, which list
what is there, and `static` for those with addresses in them, which stay as they
were written). `todo` is the playbooks to come, `due` the VMs the operator asked for
and the command has not reached, `calm` that nothing went wrong and nobody else
did anything.

What a command runs over (`Plan`) and what the operator asked for (`Asked`, from the
help of the commands) are not the same. Without a node type `upgrade` says that the
services on all the node VMs will be upgraded (`cmd/mod.rs:1061`), and runs over peer
caches, generic, symmetric and genesis nodes only (`provisioning.rs:1993-2033`);
`telegraf upgrade-node-config` leaves out three kinds as well, and
`configure-swapfile`, "on all nodes in the environment" (`cmd/mod.rs:295`), does the
generic ones and, with a flag, the peer caches. `LeftOut` lists these kinds: they are
an exception that `OkMeansReached` makes by name, and the three commands succeed
without them.

| Actions | Code |
|---|---|
| `Begin`, `Inventory`, `InventoryRefused`, `GoOn`, `Return` | the handlers in `cmd/nodes.rs`, `cmd/upgrade.rs`, `cmd/telegraf.rs`, `cmd/nginx.rs` |
| `Inventory`, `InventoryUnreadable`, `InventoryFails`, `Probed`, `Fresh` | `inventory.rs` `generate_or_retrieve_inventory`, `get_antnode_version`; the static files of `ansible/inventory.rs` |
| `ApplyVolumes` | `cmd/misc.rs` `handle_extend_volume_size`, which generates no inventory |
| `Playbook`, `Run`, `PlaybookMissing` | one `run_playbook` of the loops in `ansible/provisioning.rs`; `ansible/mod.rs` |
| `Plan`, `Targets`, `Strict`, `Lenient`, `Tolerant` | which kinds, in which order, and what an error does |
| `AskedKinds`, `LeftOut` | which kinds the help of a command names, and which of them it does not do |
| `Status` | the status at the end of `upgrade`, `cmd/upgrade.rs` |
| `Deploy`, `Provision`, `Upscale`, `Clean`, `OthersCommand` | what the commands of the other modules do to services and files |

A playbook runs over the hosts of a file. Those it cannot reach (`down`) and those
on which a task fails (`broken`) make it fail, except in the two playbooks that
ignore unreachable hosts. What a command does to a VM (`Effect`) is taken from the
playbooks and from the script of `reset-to-n-nodes`. An `extend-volume-size` and an
upscale apply terraform with the counts read from its state; the port restricted
VMs, which are not found there, are destroyed (`Losses`, `Destroyed`), while the
static files still list them (`Outdated`). The gateway of a private
node is only in the static file of its kind, so a private node is reached through
that file and no other.

## What the runs show

Runs marked "violated" check one statement of the repository that the code does
not keep; the entry in `PROJECT.json` "findings" quotes it.

| Run | Property | |
|---|---|---|
| `lifecycle` | `NoVmWithoutWorkspace` | no VM outlives the workspace that could destroy it |
| | `WalletHasDetails` | money on a client VM is always on record |
| | `UpscaleKeepsVms` | an upscale removes no VM of a kind that it finds by name (reliable listings) |
| | `CleanLosesFundsOnlyUndrained` | only a clean that skipped the drain destroys funds |
| | `ImplementsEnvironment` | a testnet keeps what every environment promises: paid only when on record, forgotten from the VMs up |
| `upscale_restricted` | `UpscaleRemovesNothing` violated | an upscale destroys the port restricted private nodes, whose count it reads as zero |
| `clean_anvil` | `CleaningFreesVms` | cleaning again and again gets rid of the VMs, also where an upscale was misled by an empty listing |
| `drain` | `VisitedIsEmpty` | nothing but dust stays in a wallet the drain left |
| | `DustBlocksDrain`, `CalmDrainsAll` | dust ends every later drain; without failures all is drained |
| | `OnlyFailuresStopDrains` | wallets that can all pay are drained of their tokens, or a call failed for a reason of its own |
| `drain_stuck` | `AllTokensDrained` violated | one failure, and repeating the drain never reaches the other wallet |
| `uploaders` | `ServicesArePaid` | services run on wallets paid in full |
| | `NoSharedKey` | no two services spend from one wallet, but for given keys after a failure or that two lists have |
| | `NoKeyLost`, `FilesAreKept` | paid keys reach a file and stay there |
| | `CalmServicesGetTheirKeys` | until something fails a service uses the key made for it |
| `uploaders_retry` | `ServicesGetTheirKeys` violated | files without services: the next command pays keys nobody uses |
| `nat_gateways` | `NoneUnreachable` | a command can reach every VM it cut off |
| | `OkMeansServed` | success means all private nodes are served |
| | `CalmRunRepairs` | a run without failures repairs what failed before, but for unfinished gateways and, with the cones, VMs that lost theirs |
| | `NodesAreBehindNat` | no nodes on a VM that is not behind its gateway |
| `nat_gateways_upscale` | `LeftOutIsDeployed` violated | an upscale leaves out gateways that were never prepared |
| `churn` | `CalmChurnCompletes` | restarts that change peer ids do not break later cycles |
| | `EachListedNodeOnce` | partial groups and batches included |
| | `GroupsAreLimited`, `SleepsForward` | within a cycle the limit holds, and each cycle before adds one node less than it; no sleep is negative |
| `client_env` | `ImplementsEnvironment` | a client environment keeps the same promise |
| | `OkMeansServed` | success means that what was asked for is there, or gone |
| | `CalmCommandSucceeds` | a command fails without a failing call for the listed reasons only |
| | `SteadyDeployKeepsVms` | deploys that ask for nothing new remove no VM |
| | `StrandedUntilMisread` | details without VMs stop every deploy and clean, until a deploy cannot read them |
| | `CleaningFreesVms` | cleaning again and again gets rid of recorded VMs |
| `node_commands` | `OkMeansReached` | success means that every VM which the help names, and which is listed and still there, was acted on, whatever others did meanwhile; but for the kinds of `LeftOut`, and for what a command overlooks |
| | `CalmCommandSucceeds` | a command fails without a failing call for the listed reasons only |
| | `LockedOutUntilDeploy` | once no VM has services, no command but a deploy changes that |
| | `StartingStartsAll` | provisioning and starting again and again gets every node running |

Each component module has one `TypeOK` besides.

Some consequences of the modelled code are visible in these state spaces but
have no run of their own: with `FlakyListing = TRUE` in `LifecycleSmall.cfg`, a
listing that comes back empty once passes the shrink checks of an upscale, which
then destroys the VMs of that kind (`UpscaleKeepsVms` fails); after a deploy that
was given up before its playbooks, or after a `reset`, no command that reads the
binary versions gets an inventory (`InventoryUnreadable`), which is what
`LockedOutUntilDeploy` is about; `upgrade` without a node type leaves out the full cone, port
restricted and UPnP kinds and reports success, although its help says that all the
node VMs will be upgraded (`cmd/mod.rs:1061` against `provisioning.rs:1993-2033`;
without the exception `LeftOut`, `OkMeansReached` fails after one deploy and one undisturbed upgrade); the last group of a churn's cycle runs into the next
cycle, so that with several cycles more nodes of a VM than asked for restart
without a pause (the bound of `GroupsAreLimited` is reached); a clean of a network with real funds that was
interrupted after draining some wallets is blocked by their dust as in
`drain_stuck`; a deploy over an existing environment forgets the funding address
between its two writes of the details; an upscale of an environment that was
bootstrapped over one with clients removes the clients, whose inventory is empty
(the exception in `UpscaleKeepsVms`); keys given on the command line are dealt in
a random order, so two services may share one after a failure, and a deploy that is
repeated with more uploaders per VM and a longer list, which keeps the old keys, gives
a VM a key that serves another one although nothing failed (`funding.rs:139`; both are
exceptions of `NoSharedKey`, in `MayBeShared`); a step 2 of a cone gateway that was interrupted between its rules
leaves a gateway which no repetition completes (`unfinished`, the exception in
`CalmRunRepairs`), although each playbook is written to be repeated; `provision`
goes by the options of whichever deploy stopped at the genesis node last, also
one of an environment that was cleaned since, and then says that nothing was
requested (`Requested`). A first deploy of a staging client environment makes the VMs of
a development one, although the help of `--client-vm-count` names the
environment type of the command line (`cmd/clients.rs:76`): the counts are those
of the type on record (`TargetCount`), which a new environment does not have.

### Bounds

- `Lifecycle`: `MaxVms` 2 lets a terraform apply stop in between and an upscale
  change a count that is neither zero nor the largest; four kinds are the
  genesis, the clients, a node kind an upscale changes and the misnamed one.
  Every step may fail any number of times. `upscale_restricted` needs one VM.
- `FundsDrain`: two VMs with two wallets are the least with an "other wallet" and
  an "other VM". `MaxGas` 4 against a reserve of 2 and a fee of 1 has wallets
  below, at and above the reserve; one failure is all a stuck drain needs.
  `Wrap` only has to exceed every balance.
- `Uploaders`: two VMs and two services for keys out of order within and across
  VMs; `MaxGenerated` 4 or 5 keys allow three commands to generate. Of the given lists,
  `<<1, 2>>` has a key for each VM, `<<3, 4, 1, 2>>` the same keys after two more, for
  a second uploader on each, and `<<5>>` does not divide by the VMs. The runs have one
  operator; `PaidServices`, `GeneratedKeysHaveOnePlace` and
  `GeneratedKeysAreNotShared` are proved for any number.
- `NatGateways`: each of the three kinds; three pairs give an upscale gateways to leave out, to add and
  to lose; two failing commands are one that leaves something half done and
  another that fails on it.
- `ClientEnv`: development and staging have one and two VMs, so that a change of
  type grows or shrinks; two uploaders per VM tell fewer from as many and more.
  Four of the seven commands: one with uploaders, one without keys, one with a key
  for each VM and one with a single key; the others take the path of one of them.
- `Churn`: two VMs with two nodes and limits up to 3 have groups that are full,
  partial and larger than a VM, and batches across VMs; two cycles meet stale
  peer ids and the counter's reset; a time frame of 3 has cuts that are unsorted
  before they are sorted, one of 1 has none.
- `NodeCommands`: three VMs, one for each way a kind is listed and reached: genesis,
  whose address the others join by; a generic one from a dynamic file, which the
  versions are read from; a private one from a static file, of the kind that others
  may destroy by mistake. Five commands are one
  for each way to go through the kinds: stop at an error (`start`), not repeatable
  (`reset_to_n`), go on after an error and leave kinds out (`upgrade`), ignore the
  unreachable (`upgrade_antctl`), and without an inventory (`extend_volume`). The
  theorems are about all fifteen.

Where a theorem covers a property, the bound is a parameter of the theorem: it
holds for any number of VMs, pairs, wallets, services, operators and failures.

### Fairness

`Lifecycle!FairSpec`: an operator who wants to clean starts it again, and each
of its steps, tried again and again, is not refused for ever (strong fairness
per step, because a failure of an earlier step disables the later ones). Without
it an operator may simply stop; with it the run asks whether what was left
*can* be cleaned. `ClientEnv!FairSpec` is the same for `clients clean`.
`FundsDrain!FairSpec`: the drain is run again when it ended,
its calls are answered, and the order of VMs, drawn from a map with a random
seed in each run, does not avoid one VM for ever. Uploaders need not spend.
`NodeCommands!FairSpec`: a command that has begun goes on and ends; the operator
starts the nodes, and provisions their kinds, again and again, and a call that is
made again and again does not fail for ever (strong fairness, because an earlier
failure disables the later calls). Nothing is assumed of the others: that they
stop doing damage is the premise of `StartingStartsAll`.
`Uploaders`, `NatGateways` and `Churn` have safety properties only.

Deadlock is checked except in `Churn`, which ends, and in `NodeCommands`, where
every state has a step of the others or of the operator anyway.

## What is proved

With TLAPS, for all values of the constants that satisfy the modules' named
assumptions.

- `LifecycleProofs`. `TypeCorrect`. `RecordInv` strengthens
  `NoVmWithoutWorkspace` and `WalletHasDetails`, which are not inductive by
  themselves: that wallets sit on existing client VMs (`WalletOnVm`), which steps
  run only after the details were written (`RecordedPcs`), and which only when no
  VM is left (`ClearedPcs`) is what makes `clean`'s last steps safe.
  `UpscaleOnlyGrows` follows from `GrowthInv`: the counts an upscale saw, and then
  the counts it will apply, cover the VMs there are; it assumes
  `FlakyListing = FALSE`, without which TLC refutes it. `RightNamesRemoveNothing`
  adds that the wrong name is all there is to the finding of `upscale_restricted`:
  where `Misnamed` is empty, `UpscaleRemovesNothing` holds.
  `CleanKeepsDrainedFunds` follows from `DrainInv`: after a drain that ended no
  wallet is funded until the VMs are gone. `Implements` follows from `RecordInv`
  and `HeldInv`, which says when a command knows that the workspace exists or is
  gone; each action maps to one abstract action or to none (`StepMaps`).
- `ClientEnvProofs`. `TypeCorrect`; `Implements`, by the same argument from
  `EnvInv`; `SteadyDeploysOnlyGrow` from `SteadyInv`: while all deploys were
  steady there are no more VMs than the type on record has, which is what the
  next deploy applies, or one before there is a record. It rests on the smallest
  default being that of a development environment. `SuccessMeansServed` and
  `CalmFailureIsExcused` follow from `RunInv`, which ties a command's name and
  outcome to its steps, and `ServedInv`: what a deploy has made before each of its
  steps, and that its first part already serves every VM, with the keys where the
  command takes keys. `PromiseIsKept` is an invariant of `Environment` itself, which
  the refinement carries over. `StrandedStays` has a case for each command: all that
  is enabled in a stranded environment keeps it so, but `DeployInventoryMisread`.
- `FundsDrainProofs`. `DrainedIsEmpty` by `DrainInv`, which adds to
  `VisitedIsEmpty` what is known of the wallet at hand (`AtHand`): a balance
  that was read bounds the balance, because uploaders only spend.
  `NeverSendsWrapped` by arithmetic from `Wrap > MaxGas + Reserve`. `DustBlocks`
  by `Blocked`, which holds from the moment a drain ends with dust in a wallet: the
  wallet keeps its dust and each later drain still has it ahead. `OnlyFailuresStop`
  by `Calm`: until a call fails, each wallet that was not visited can still pay for
  both transfers (`Solvent`), so that nothing the drain asks for is rejected before
  the last token is gone. `drain_stuck` shows that one failed call is enough for a
  drain that is stuck; this is why nothing less is.
- `UploadersProofs`. `PaidServices` by `PaidInv`, which follows the keys from
  the command's memory to the files: what the payment loop has passed is paid
  (`PaidSoFar`), all of it when the playbook runs (`MapPaid`), every file
  (`FilesPaid`), and a service has a file (`HaveFiles`). For any number of
  operators.
- `UploaderKeysProofs`, on top of it. `GeneratedKeysHaveOnePlace` by `PlaceInv`: a
  key and its place, file or map, determine each other (`OnePlace`), because a new
  key has a number above all that were used (`Numbered`) and every other step only
  copies keys within a VM (`NoNewPlace`). `GeneratedKeysAreNotShared`
  (`NoSharedKey`) follows where no command is given keys (`GivenLists = {}`), for any
  number of operators. `KeysAreNotShared` drops that assumption for one operator and
  any lists, by `GivenInv`: until something fails, a key that is in one list only is in
  one file (`OneFile`), and each such key in a file is either where the deal of the
  running command has it, or its deal is over and all VMs have so many files (`Full`)
  that a later deal of the same list, in another order, adds none (`Settled`). Keys
  that two lists have are excepted: they may really be shared.
  Generated keys are told apart by `PlaceInv`, with failures as well.
  `ServiceFilesAreKept` and `PaidKeysAreKept` assume one operator: the count of
  files that the playbook took is still right when it writes (`StatExact`), and
  until the first failure the listed services are those with a file
  (`AllEnabled`), so that the map extends the files (`Matching`, `Filling`,
  `Placed`), is written in full (`Served`), and holds what it pays (`PaidIsKept`);
  `KeptInvariant` is this as a theorem, and `ServicesGetTheirOwn` follows from it
  just as `PaidKeysAreKept` does.
  Two operators break what these rest on; then the files of one can replace those of
  the other, and none of the four is claimed.
- `NatGatewaysProofs`. One invariant, `Inv`, for all safety properties of the
  module and the three kinds: the details exist once a VM is private
  (`DetailsKept`), gateways and node VMs match while a command provisions
  (`Paired`), a private VM has a gateway and, unless its kind is symmetric, the
  running command its route (`Routed`), and what the steps so far have achieved
  (`Achieved`): a batch of all gateways unless some were left out, complete ones
  before the symmetric VMs are configured, complete or unfinished ones before the
  nodes are installed.
- `NodeCommandsProofs`. One inductive invariant, `IInv`, from `TypeOK` and
  `CalmCommandSucceeds` with three more parts: a static file that is not old lists
  VMs that exist and are of its kind (`StaticFilesHold`); a VM that is still due is
  listed by an inventory that is still to come, unless the code leaves out its kind or
  overlooks it (`DueIsAhead`, from `AskedFacts`: what is asked for is what the plan
  covers or `LeftOut`); and while a command is calm its files are those of the moment
  (`FreshWhileCalm`). `SuccessMeansReached` and `CalmFailureIsExcused` follow from
  it; `OnlyDeployUnlocks` needs the types only.
- `ChurnProofs`. One invariant, `Inv`: a node is queued at most once and none of a
  VM that is still to be asked (`Lists`), with the peer id it has, unless somebody
  else restarted nodes (`Fresh`); who left the queue was restarted once (`Counted`);
  the cuts still to come are in order and ahead of the clock (`CutsAhead`); and the
  counter of a group bounds what the cycle adds to the restarts that earlier cycles
  left without a pause after them, one less than the limit for each (`Bursts`,
  `Earlier`). For any number of VMs, nodes, limits
  and cycles.

Only model-checked: the liveness properties (both `CleaningFreesVms`,
`CalmDrainsAll`, `AllTokensDrained`, `StartingStartsAll`), because the prover cannot
reason about the fairness they need. `DustBlocks` and `OnlyFailuresStop` are what
can be said of the drain's two without it: what a drain can no longer do, and what it
never does; that it gets anywhere is left to TLC. `NoSharedKey` with keys given to
several operators is neither checked nor claimed. Of the properties that the
violation runs refute, `UpscaleRemovesNothing` and `ServicesGetTheirKeys` are proved
under the conditions that `RightNamesRemoveNothing` and `ServicesGetTheirOwn` name.

## What is left out

- Text: options, log and report formatting, playbook variables other than the
  counts and keys.
- Setup, Safe client, reserved addresses, Slack, binaries, DigitalOcean paging:
  no state between calls, or pure input and output.
- Logs: folders copied by external programs.
- Of the node commands `update-peer`, whose playbook edits a registry file in a
  directory the nodes do not use and changes nothing else, and the telegraf of the
  clients.
- In `ClientEnv`, the VM that builds binaries: it is made and destroyed by the
  same apply and keeps nothing.
- The kinds of node VM that are treated alike (UPnP nodes are generic nodes
  with another playbook); sizes, images, volumes, regions.
- Two lifecycle operators at a time. Terraform's state lock orders their
  applies, but each computes its counts before it; listed under hazards.
- What is inside an ansible role or a terraform provider, except for the tasks
  whose order and conditions the Rust code depends on.

## Plan

Done, in this order: `Lifecycle`, `FundsDrain`, `Uploaders`, `NatGateways`,
`Churn`, `Environment`, `ClientEnv`, `NodeCommands`, and the proofs of all of
them.

1. The cached inventory file and the reports made from it.
2. Several kinds of private nodes in one environment, for what a gateway too many
   of one kind does to commands about another.
3. Algorithms over bounded inputs: the 16-bit volume sizes, the given keys per
   VM, the splitting of node counts over VMs, the S3 and DigitalOcean listings
   by page, each against a reference definition.
4. Two lifecycle operators, for the race of two upscales.
5. Proofs: what a clean that reports success leaves of a testnet, as
   `SuccessMeansServed` says it of a client environment; a measure that each step
   of a drain without failures decreases.
