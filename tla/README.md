# kleya in TLA+

A verification project beside the kleya repository: TLA+ modules of what the
program does to EC2 and to the local key directory, the TLC runs that check
them on small instances, and theorems that TLAPS proves for every instance.
Paths without a prefix are relative to `crates/` of the repository.

## What kleya is, and what is hard about it

kleya is a command line program. Each command is one process with one tokio
thread, so nothing inside it runs in parallel; what is concurrent is outside:
other kleya processes on the same machine, on other machines, teammates with
the AWS console, EC2 itself, and the operator's Ctrl-C. There is no lock, no
transaction and no rollback: a command is a straight line of EC2 calls and file
accesses, and any other process can act between two of them, or the process
can die there.

| Component | State | Operations | What makes it correct |
|---|---|---|---|
| Keypair lifecycle, `kleya-core/src/commands/launch.rs` `ensure_keypair` | EC2 key pair of one name; `<name>.pem` on each machine | observe both sides, compare, re-register, generate, regenerate | no key registered whose private half is lost; no private key overwritten; the instance opens with the local pem; a crash is recovered by the next launch |
| Local key store, `kleya-cli/src/key_store_fs.rs` | the key directory | exists, generate, read_public, fingerprint, private_path, delete | a key that exists is complete |
| Wait for running, `kleya-aws/src/ec2.rs` `instance_wait_running` | clock, attempts, token | describe, sleep, stop | ends, never early, not much too late, stops on Ctrl-C |
| SSH probe, `kleya-cli/src/ssh_probe.rs` | clock, token | connect, sleep, stop | the same |
| Security group, `ec2.rs` `ensure_default_security_group` | one named group and its ingress rule | describe, create, authorise | the id returned is the open group, also after a crash or a race |
| Launch templates, `ec2.rs` `template_*`, `commands/template.rs`, `kleya-cli/src/dispatch.rs` | one named template, its versions, its default | create, update (two calls), delete, list, look up, ensure | an update is atomic to launches; a command touches only the template it looked up; a launch can use what it finds |
| Launch, `LaunchService::run` | the above | plan, ensure keypair and template, RunInstances, wait | composition of the above; tags tell the truth |
| Handles, connect, terminate, list, `commands/{connect,terminate,list}.rs` | instances and their tags | resolve, connect, terminate, list | a handle leads to one live instance or an error |
| Dispatch, SIGINT, exit codes, `kleya-cli/src/{dispatch,main,exit_code}.rs` | the cancellation token | run a command, post-launch flow | a Ctrl-C is not lost; the exit code tells the outcome |
| User data, `kleya-core/src/bootstrap/*.rs` | scripts on disk | render or read, gzip, base64, limits | what passes the limits EC2 accepts, also when the script changes under the command |
| Configuration, `config.rs`, `parsed_config.rs`, `config_loader.rs` | config files on disk | search, load, validate, parse, merge with flags | precedence; one reading per command; nothing unchecked gets through |
| Subnet and AMI resolution, `ec2.rs` | none | read-only lookups | the pick does not depend on the order of the answer |
| Newtypes and errors, `kleya-core/src/model/*.rs`, `error.rs`, `kleya-cli/src/exit_code.rs` | none | validation, exit codes | every value that EC2 sees was accepted |
| Clap, logging, JSON, fakes, assets, scripts | none | formatting, wiring | not stateful |

Components call each other through two ports, `CloudCompute` (the AWS adapter)
and `KeyStore` (the file system). The shared state is outside: EC2 resources
found by name, and the pem files.

## Modules

| Module | Models |
|---|---|
| `KeyRegistry` | abstract: a key name in EC2 and the pem files |
| `KeyLifecycle` | `ensure_keypair` and the RunInstances it clears the way for; any number of processes and machines |
| `KeyRecovery` | `KeyLifecycle` with the launches that ran alone, as a history variable |
| `KeyLifecycleProofs` | theorems about `KeyLifecycle` |
| `KeyRecoveryProofs` | the theorem about `KeyRecovery` |
| `PollUntil` | abstract: what a poll loop promises |
| `WaitRunning` | `instance_wait_running` with `wait_or_cancel` and main's ctrl_c task |
| `WaitRunningProofs` | theorems about `WaitRunning` |
| `SshProbe` | `probe_ssh_ready` |
| `SshProbeProofs` | theorems about `SshProbe` |
| `SharedGroup` | abstract: what ensuring the security group promises |
| `SecurityGroup` | the steps of `ensure_default_security_group` and `authorize_default_ingress` |
| `TemplateStore` | abstract: a template that is created, published to, deleted and run |
| `LaunchTemplate` | extends `SecurityGroup`: launches, creates, updates and deletes of one template name |
| `LaunchTemplateProofs` | theorems about `LaunchTemplate` and `SecurityGroup` |
| `CommandTarget` | abstract: what commands promise about the instances they act on |
| `Sessions` | RunInstances and what follows it, `connect`, `terminate`, and instances that come and go |
| `SessionsProofs` | theorems about `Sessions` |
| `Settings` | pure operators: what a config file means and whether it is valid, the template that flags, block and file make up, the limits on user data, the subnet that is picked, the exit codes |
| `SettingsProofs` | induction over the natural numbers, and theorems about the operators of `Settings` |
| `Provision` | extends `Settings`: one operator's commands from the config file to what reaches EC2, and the edits of files between their steps |
| `ProvisionProofs` | theorems about `Provision` |
| `MCKeyLifecycle`, `MCKeyRecovery`, `MCLaunchTemplate`, `MCSessions`, `MCProvision` | small instances for TLC |

The modules cut the launch at three places. `Provision` follows one operator
through the whole command, with everything that the config file and the flags
decide, and takes every lookup and the EC2 call it leads to as one step.
`KeyLifecycle` and `LaunchTemplate` take those steps apart, with other
processes, teammates and crashes in between, and leave the values out.
`Sessions`, with `WaitRunning` and `SshProbe`, is what follows RunInstances.

### Keypair lifecycle

`pem[m]` is the file `<default_key_name>.pem` of machine `m`, `cloud` the key
pair of that name in EC2. Keys are identities: process `p` generates key `p`.
`Truncated` is a file that `create_new` made and `write_all` has not filled;
`Foreign` is a key of somebody else. A process steps through `exists`
(`Start`), `keypair_fingerprint` (`Describe`, which also picks the branch of
`KeyState`), then one of: comparing (`Compare`), reading the public half
(`ReadPublic`), deleting and confirming (`Delete`, `DeleteConfirm`), generating
(`Open`, `Write`); then `ensure_default_keypair` (`Ensure`, `Import`,
`Confirm`) and `RunInstances`. `CallFails`, `StoreFails` and `Crash` can hit any
step that the code's `?` or a kill can hit. `Teammate` (with `Drift`) changes
the EC2 key at any moment.

A call whose answer is lost is the call followed by a crash: the code does not
look at what a failed call may have done, so the two leave the same state.
A machine's key directory is local to it; a shared one would be one machine.

### Poll loops

Time is counted in seconds and passes only in the loop's own steps, each taking
any amount within its bound: a describe 0 to `MaxLatency`, a sleep its interval
and up to `MaxLate` more, a connection up to `TcpTimeout`. The instance, the
port and the operator move at any moment between two steps. `saturating_add`
and the `u32` conversions of the code are left out: with the only deadline there
is (600 s by 5 s) they cannot saturate.

### Security group and templates

`group` and `sshOpen` are the group named `kleya-default` and its rule;
`template`, `versions` and `default` the launch template. An id is the process
that made it, so a template that was deleted and created anew has another id,
as in EC2. `meddled` is a history variable: a teammate deleted or replaced the
group or changed its rule, after which only `SharedGroupSpec` promises anything
about it. A launch goes through `GetTemplate`, the steps of `SecurityGroup`,
`GetAgain` (the second look, in `ensure_default_template`), `CreateTemplate`
and `RunInstances`; its read-only calls in between (subnet, AMI, user data)
change nothing and can only fail, which `Fails` covers at the next step. Of a
spec the model keeps who wrote it, whether it has an image and whether it names
the default key.

### Sessions

`state`, `address` and `boot` are the instances in EC2: listed or not, with a
public DNS name or not, and how far the guest has come. `pc`, `target` and the
given flags and handles are the commands. A launch steps through
`RunInstances`, `Wait`, `Probe`, `CloudInit` and `Plan` as `AfterWait` and
`AfterProbe` read its flags; a connect through `FindById` or `FindByName`,
which include the plan, and `Probe`; a terminate through `Confirm`,
`FindByName` for a name, and `Terminate`. `Wait` and `Probe` are the poll loops
of `WaitRunning` and `SshProbe` reduced to one step that gives their outcome.
Stopped and terminated instances are both `down`: still listed, which is what
makes a reused name ambiguous, and forgotten some time later. An instance is
`created` before DescribeInstances knows it, so a wait can fail at once.

`CommandTarget` is what of this the operator may rely on: a command takes one
instance in hand, the one it launched, the one of the given id or the only one
of kleya's with the given name, and keeps it; it succeeds on that instance, a
terminate by ending it and nothing else; and an error changes nothing but that a
launched instance is there. `result` maps the steps of `Sessions` to it, and
`TargetSpec` says that each of them is one of its steps or none.

### Settings and Provision

A string is a value, and a newtype the set of the strings that its constructor
accepts; what a regular expression says is in the code's unit tests and not
here. A config file is what the code looks at of it: `NoFile`, `Malformed`
(too long, not UTF-8, of an unknown extension, not deserializable) or a record
with `None` for what it leaves out. A script is its length and whether it is
UTF-8; the embedded one also its length after gzip, which the model does not
compute. `[ssh]`, `profile`, the region and `~` are left out, as nothing that
is checked depends on them.

A command goes through `Start` (which resolves the path of the config file),
`Load` (which reads it, later), and then `Show` (commands that only print);
`BuildSpec` and `Create` or `Update`; `Confirm` and `Delete`; or `Plan`,
`EnsureKeypair`, `LookForTemplate`, `ResolveSubnet`, `EnsureGroup`,
`RenderUserData`, `EnsureTemplate`, `RunInstances`. Each has the early returns
of its function, in their order and with their exit code where a property asks
for it; `Fails` is a failed call, a refused key or a kill at any step. `Edit`
changes a config file or a script between any two steps. `made` collects what
the running command has changed in EC2. A template remembers the command and
the file that wrote its version (`by`, `from`), so that an instance can be
compared with all that led to it (`InstanceAsConfigured`). Of the market of a
launch with `--market on-demand` that property says nothing, and it takes for
the template that a launch makes what the code takes, which is not its block;
what the documents promise of both is `ResolvesAsDocumented`.

## Runs

| Run | Checks | Bounds |
|---|---|---|
| `key_drift` | `TypeOK`, `RegisteredKeyIsHeld`, `PrivateKeysAreKept`, `RegistrySpec`, `EveryLaunchEnds` | 3 processes, two on one machine and one on another, two with `--regenerate-key`, a teammate |
| `key_one_machine` | `LoneLaunchRecovers`, `NoForeignInstance`, `OpensWithLocalKey` | 3 processes on one machine, two with `--regenerate-key`, a foreign key or none at the start, no teammate |
| `wait_running` | `TypeOK`, `NoMissedInstance`, `CtrlCStops`, `PollSpec`, `WaitEnds` | timeout 7, interval 2 (it does not divide 7), latency up to 3, lateness up to 1 |
| `ssh_probe` | `TypeOK`, `NoMissedPort`, `CtrlCStops`, `PollSpec`, `ProbeEnds` | timeout 8, interval 3, connection up to 2, lateness up to 1 |
| `template` | `TypeOK`, `EnsuredIsOpen`, `EnsureSucceeds`, `VersionsBelong`, `NoHalfUpdateRuns`, `LaunchedIsReachable`, `DeletesWhatItSaw`, `SharedGroupSpec`, `StoreSpec` | two launches, two updates, two deletes, and a teammate at the group |
| `sessions` | `TypeOK`, `LandsOnOwn`, `NamesLeadToManaged`, `BootstrapIsDone`, `SshHasAnswered`, `TargetSpec`, `EveryCommandEnds` | a launch, a connect, a terminate, an instance launched elsewhere and one that is not kleya's, all with one name; five combinations of flags and handles |
| `provision` | `TypeOK`, `OnlyValidated`, `UserDataFits`, `InstanceAsConfigured`, `BadInputMakesNothing`, `FirstZone` | three commands out of twelve command lines, one edit, eleven config files, five scripts, two assets, listings of three subnets |

Why these bounds are enough to be interesting: three launches are two that race
and a third that comes after or in between; two machines tell a local race from
a distant one. A few commands are enough for a template to be looked up by an
update or a delete, deleted by another, created anew by the second launch and
then written to or deleted; two launches race for the group; two updates cross,
and the one that wrote the older version sets the default last. Launches are
alike, and so are updates and deletes: `template` declares them symmetric, which
is sound for its properties, none of which is about liveness or names a
process. In `provision` three commands are a template made one way, changed
another and launched a third; one edit falls between any two steps of any of
them; for each value that the code checks there is one file, block or flag that
is right and one that is not; the scripts are empty, of exactly 16384 bytes and
one more; a listing has zones that are missing, equal and out of order. In `sessions` a name stands
for no, one or two instances of kleya's beside a foreign one, a handle is an id,
a name, or a name that looks like an id, and the launch has each kind of flags,
`--wait-bootstrap` beside `--no-wait-bootstrap` among them;
the second instance belongs to another machine's key, so that connecting to it
is refused. In the
loops the interval does not divide the timeout, an answer can be longer than an
interval, and every order of the deadline, the answer and the token occurs.
The theorems below lift these bounds where they can.

Deadlock checking is off: commands end, and when all have ended nothing is left
to do.

### Runs that TLC is meant to refute

Each states what a document of the repository says, and finds that the code
does something else. `PROJECT.json` quotes both sides.

| Run | Property | What happens |
|---|---|---|
| `key_race` | `EnsuredKeyMatches` | two machines launch first; one import is a duplicate, is taken for success, and that machine launches an instance its pem does not open |
| `key_truncated` | `RelaunchIsPossible` | a launch killed between `create_new` and `write_all` leaves a pem that stops every later launch, also with `--regenerate-key` |
| `template_race` | `EnsureTemplateSucceeds` | of two first launches one fails because the template already exists |
| `template_keytag` | `KeyTagOpens` | `kleya:key` names the default key, the template another one |
| `provision_documented` | `ResolvesAsDocumented` | one launch breaks both of its parts. `BlockIsUsed`: a launch that makes the template takes the tags of its `[[templates]]` block and nothing else, not its instance type. `MarketIsOverridden`: `--market on-demand` sends nothing, so the instance of a spot template is spot |

Other places where code and documents part, or where the code may surprise,
which the modules show as they are and no run states:

- Ctrl-C during the SSH connection that succeeds is lost (`SshProbe`);
  `instance_wait_running` looks at the deadline before the token, so a Ctrl-C
  during the last describe gives `LaunchWaitTimeout` (`PollUntil` allows it).
- `template create` without `--ami` and without `ami_id` makes a template that
  cannot be launched (`RunInstances` of `Provision` ends in `Adapter`).
- A script that is too large is refused by a launch only after the key and the
  group are made; a launch reads `bootstrap.user_data_path`, `template create`
  and `update` do not.
- The subnet is resolved, and its absence is an error, but it is not sent.
- An unknown `ami_alias` stops a launch even where the template exists and the
  image is not looked up.
- An update writes a whole version: what neither a flag nor the config gives is
  not taken over from the version before.
- `--region` and the environment do not pass `Region::new`; `--profile` is not
  used; `instance_list` asks for one page.
- A block may have 50 tags, to which kleya adds its own; a block that repeats
  `Project` gives the tag twice.

### Fairness

`KeyLifecycle`: weak fairness of each process's `Advance`: a tokio task whose
call has returned is polled again, and EC2 calls return or fail (the SDK gives
up by itself). Starting a launch, failures and the teammate are not fair.
`WaitRunning` and `SshProbe`: weak fairness of the loop: timers fire, and a call
or a connection attempt ends (the latter by its own timeout). Neither the
instance coming up nor Ctrl-C is assumed. `Sessions`: weak fairness of each
process's `Advance`, for the same reasons; it leaves out `Confirm` and
`CloudInit`, since nothing makes the operator or cloud-init answer, and
everything EC2 does. `EveryCommandEnds` says exactly this: a command ends or
stays in one of those two waits.

## Proofs

All theorems hold for every value of the constants that satisfies the named
assumptions, and are checked by tlapm to the last leaf.

**KeyLifecycleProofs.** `RegisteredKeyIsHeld` is not inductive alone: that an
imported key is held depends on what the importing process offered and on
whether its pem can change. `KeyInv` adds: `OfferIsLocal` (what is offered is
the local pem), `KeysStayHome` (a key is only on its own machine), `OneWriter`
(an incomplete file belongs to one writer, which is what `create_new` buys) and
`FilesStay` (a file that was seen is there). One lemma (`PemStep`) says that no
step changes a complete pem; `KeyInvStep` then has one step per action. From
it: `KeyIsHeld`, `KeysAreKept` and `LifecycleRefinesRegistry` (an incomplete
pem counts as none, so `Write` is the abstract `Generate` and `Import` the
abstract `Register`). Without drift `ForeignIsGone` says that past its checks
no launch meets a key from elsewhere, which gives `ForeignKeyOpensNothing`; and
on one machine a key in EC2 can then only be the local one, which gives
`LocalKeyOpens` and `OneMachineEnsures`. The last two need `OneMachine`, and
`key_race` shows that they do. What is left without it is `NobodyIsLockedOut`:
since a registered key is held and pems stay, an instance that trusts a key of
kleya's opens with the pem of the machine that made it, with drift and all; and
`EveryInstanceOpens`, without drift, that every instance opens with some pem.
Beside `key_truncated` stands `TruncationHasACulprit`: a truncated pem is left
only by a launch that was killed or failed to write, never by a race.

**KeyRecoveryProofs.** `LoneLaunchRecovers` needs what a launch that runs alone
has found out to be still so when it acts on it (`Knows`), that whoever else
takes a step makes it no longer alone (`AloneIsAlone`), that the truncated pem
that stopped a launch is not filled afterwards (`StoppedBy`), and that no pem is
made while the name has a key from elsewhere (`NoPemBesideForeign`), so that a
lone launch never meets a mismatch. `OwnStep` has one step per action of the
launch itself, `EndedStays` covers everybody else's. Like `LocalKeyOpens` it
needs `OneMachine` and no drift.

**WaitRunningProofs.** `WaitInv` relates time to attempts: every look but the
first was preceded by a whole sleep. `AttemptsOutlastTimeout` is the arithmetic
of `timeout / interval + 2`. From them: `TimeoutIsNeverEarly`,
`OverrunIsBounded`, `NoInstanceIsMissed`, `WaitRefinesPoll`, for every timeout
larger than its interval and every latency. `CtrlCStopsWaiting` rests on
`OneLateLook`: `wait_or_cancel` sees the token after the one describe that a
Ctrl-C does not prevent.

**SshProbeProofs.** `ProbeInv` says that no connection begins after the deadline
(`OnTime`), that a port that was open when a connection began was found, so one
that was missed opened later (`OpenedLately`), and that at most one connection
follows Ctrl-C (`OneLateProbe`). From it `NoPortIsMissed`, `CtrlCStopsProbing`
and `ProbeRefinesPoll`, for every relation of the four times.

**LaunchTemplateProofs.** `TemplateInv` says that every process takes the steps
of its own command (`Roles`), that nobody is the author of anything before its
create (`Fresh`: ids are never used again, so a stale id never matches), what an
update or a delete has looked up (`LookedUp`), who wrote what launches use
(`Authors`), that a template of a launch names the group the launch was given
(`Grouped`), and that while no teammate meddles every id held is that of the
one group (`OneGroup`). `OnlyMoves` covers every step that changes nothing but
one program counter (a look, a refusal, a failure); one lemma covers each step
that changes more. From the invariant: `VersionsAreOwn`, `UpdatesAreWhole`,
`EnsuredGroupIsOpen`, `EnsureNeverFails`, `InstancesAreReachable`,
`DeletesOnlyWhatItSaw`, and the two refinements `GroupRefinesShared` (with any
meddling) and `TemplateRefinesStore`, for any number of launches, creates,
updates and deletes. `NoUpdateIsLost` adds that after a finished update the
default stays a finished update's until the template is deleted, which needs
`Fresh` (a template made anew is none that an update has seen), and
`LoneCreatorSucceeds` that what `template_race` shows takes two processes that
create templates: with one, `EnsureTemplateSucceeds` holds whatever others do.

**SettingsProofs.** `PickSubnet` is a fold over EC2's answer, of any length. The
library's induction theorems take an operator and cannot be used, but induction
over a *set* of numbers follows from the fact that a nonempty set of natural
numbers has a least one (`LeastExists`, by `WFMin`): that is `Induction`, which
also gives what `FoldLeft` of the community modules computes, element by
element. From it `PickIsFirst`: of any listing, in any order, the pick is the
first subnet listed of the first zone, and none only if no subnet has a zone.

**ProvisionProofs.** Three invariants, each with the one before. `Running` is
what the steps of the command in progress have established (`Typed`,
`Established`): the file it has read parses, its flags parse before a step uses
them, a launch past its plan is no dry run, and user data in its hand is within
the limits, whatever becomes of the file or the script afterwards. `MadeSoFar`
adds to `BadInputMakesNothing` that before its last step a command has made a
key and the group at most; the step `run` of a launch is the exception, and its
errors are not about input. `Stored` says of every version in EC2 that it is
`Acceptable` and `AsWritten` by its command and file, and carries that over to
the instance. They rest on lemmas about `Settings`: a block that is found is one
that was parsed (`TemplateFields`, which needs `LeastExists` for the first of
several), a spec made by a command or a launch is right (`CommandSpecRight`,
`LaunchSpecRight`), and `Base64Fits`: 16384 bytes are exactly 21848 characters,
so the second limit of the code refuses nothing that the first lets through.
From them `TypeCorrectness`, `NothingUnchecked`, `StoredUserDataFits`,
`LaunchedAsConfigured` (with the exception of `--market on-demand` above) and
`BadInputChangesNothing`, and with `PickIsFirst`
`SubnetIsFirst`, for every set of command
lines, files, scripts and assets and any number of commands and edits, from
`SettingsAssumption` (the built-in values are valid, SSM has an image for both
aliases) and `ProvisionAssumption` (what command lines and files look like).

**SessionsProofs.** `SessionInv` says that every command takes the steps of its
own function (`Roles`), that an instance is not there before its launch
(`NotYet`), that a connect past its lookup has an instance of kleya's in hand
(`ManagedInHand`), and what a launch past its probe or past cloud-init has found
out about a guest that only goes forward (`Answered`), and that a command that
has not looked yet has nothing in hand (`EmptyHanded`). `CloudMoves` is what
anybody may do to the instances; `OneMoves` shows that a command's step and
such a move keep the invariant if the step is a `GoodStep` for that command, so
that one lemma per action has only its own command to look at. From it
`LaunchesKeepToTheirOwn`, `NamesAreSafe`, `SuccessMeansBootstrapped`,
`SshOnlyWhereAnswered` and `EndsOnlyItsTarget`, for any number of commands,
handles, flags and instances; and the refinement `SessionsKeepThePromise`:
`ResultMoves` says what a move of a program counter is to `result`, and one
lemma per kind of step names the step of `CommandTarget` that it is. A look that
goes on is none, an error is `Fail`, a lookup is `Resolve` also where what was
found is refused at once, and EC2's steps are `World`.

**The safety half of liveness.** TLAPS does not prove that something happens
under fairness, but what the argument needs besides fairness is a safety
property: a number that every step of a process makes smaller and that nobody
else's step makes larger. `LaunchesOnlyGoForward` (at most ten steps),
`CommandsOnlyGoForward` of templates (eight calls) and of sessions (five steps)
and `LoopRunsDown` of both loops say so for every value of the constants. For
the wait the number comes from its attempts, so that it ends even if no time
passes; the probe counts none, and rests on every sleep taking time.

Only model-checked: liveness (`EveryLaunchEnds`, `WaitEnds`, `ProbeEnds`,
`EveryCommandEnds`), since this prover reasons neither about fairness nor about
`ENABLED`. Every other property of a passing run is a theorem. Some theorems are
about properties that no passing run lists: `TimeoutIsNeverEarly` and
`OverrunIsBounded` of `WaitRunning`, which follow from `PollSpec`;
`EndsOnlyItsTarget` of `Sessions`, which follows from `TargetSpec`;
`OneMachineEnsures` and `LoneCreatorSucceeds`, which say when what the runs
`key_race` and `template_race` refute does hold; `NobodyIsLockedOut`,
`EveryInstanceOpens`, `TruncationHasACulprit` and `NoUpdateIsLost`; and the five
of the paragraph above.

## Plan

1. Done: the modules above.
2. Theorems about further pure operators of `Settings`, by `Induction`.
3. A further disagreement with the documents: the printed hint
   `kleya connect <name>` for a name that begins with `i-`.

## Not modelled

What strings look like: the regular expressions of the newtypes, TOML and JSON,
the text of the rendered bootstrap script, gzip and base64 beyond their lengths,
the ssh command line, `~`, clap, logging, tables and JSON output. Client
construction, the fakes, the assets and the skill scripts: no state and no order
of events to get wrong. File modes of the key store: a wrong mode is an error at
the step that finds it, as a failed step is. Ctrl-C outside the two poll loops
only sets a token that nobody reads until the next loop; no property covers it.
`list`, `config`, `completions`, `template list` and `connect --print` change
nothing: in `Provision` they are the one step `Show`.
EC2 is modelled from how the code uses it: names are unique, ids are never used
again, a call takes effect at once and is seen by the next, but for a new
instance, which DescribeInstances may not know yet; for keys, groups and
templates the same delay is not modelled. A public name belongs to one instance:
that EC2 gives the address of one that has ended to another, which would then be
probed in its place, is not modelled. A launch in `Provision` that follows
RunInstances ends there; the rest of it is in `Sessions`.
